--------------------------- MODULE FinalAcceptance ---------------------------
(***************************************************************************)
(* verify_mode of .github/scripts/mlx90-final-acceptance.sh: one job that  *)
(* reads two GitHub releases over many API calls while their owners may    *)
(* change them between any two calls, and that emits the final receipt     *)
(* only if what it consumed is what the releases still hold.               *)
(*                                                                         *)
(* Every API call is an action of its own; checks of data already fetched  *)
(* are guards of the action that uses them.  Any step may also fail: the   *)
(* script runs under "set -e" and every refusal is fail_closed.            *)
(***************************************************************************)
EXTENDS Naturals

CONSTANTS
    Head,        \* names of the evidence document and its Sigstore bundle
    Rest,        \* names of the assets the evidence refers to
    AssetId,     \* numeric asset IDs that GitHub may hand out
    Bytes,       \* Bytes[i]: the bytes uploaded under asset ID i
    Trusted,     \* Trusted[n]: the bytes that pass n's digest or cosign check
    None,        \* no asset, no bytes
    MaxChanges   \* bound on the changes the release owners make

Names == Head \cup Rest
Sides == {"producer", "container"}

ASSUME NamesAssumption == /\ Head # {} /\ Rest # {} /\ Head \cap Rest = {}
ASSUME BytesAssumption == /\ None \notin AssetId
                          /\ \A i \in AssetId : Bytes[i] # None
ASSUME BoundAssumption == MaxChanges \in Nat

VARIABLES
    \* GitHub: the release that the tag of each side names.
    asset,       \* asset[s][n]: ID of the asset listed under name n, or None
    releaseId,   \* numeric release ID, new for a deleted and recreated release
    tagBound,    \* the tag resolves to the required commit
    revoked,     \* a revocation asset is attached
    used,        \* IDs handed out so far: GitHub never hands one out twice
    changes,
    \* The verification job.
    stage,
    boundId,     \* release ID the job has bound, None before
    got,         \* got[s][n]: the bytes consumed
    listing,     \* the latest asset listing read
    sawRevoked,  \* whether that listing contains a revocation
    snapshot,    \* canonical_consumed_asset_snapshot of the initial listing
    position,    \* calls already made in the current collection round
    compared,    \* names downloaded again by ID and compared
    \* History variables: written by the steps, read by the properties only.
    standing,    \* revoked without interruption since the final phase began
    coherent     \* both releases held the snapshot when comparing had ended

live == <<asset, releaseId, tagBound, revoked, used, changes>>
job == <<stage, boundId, got, listing, sawRevoked, snapshot, position, compared>>
vars == <<live, job, standing, coherent>>

Stages == {"producer head", "producer tag", "producer release",
           "producer list", "producer rest", "producer snapshot",
           "container release", "container tag", "container list",
           "container head", "container snapshot", "container rest",
           "collect 1", "compare", "redownload", "collect 2", "decide",
           "receipt", "accepted", "failed"}

Blank == [n \in Names |-> None]

TypeOK ==
    /\ asset \in [Sides -> [Names -> AssetId \cup {None}]]
    /\ releaseId \in [Sides -> Nat]
    /\ tagBound \in [Sides -> BOOLEAN]
    /\ revoked \in [Sides -> BOOLEAN]
    /\ used \subseteq AssetId
    /\ changes \in 0..MaxChanges
    /\ stage \in Stages
    /\ boundId \in [Sides -> Nat \cup {None}]
    /\ got \in [Sides -> [Names -> {Bytes[i] : i \in AssetId} \cup {None}]]
    /\ listing \in [Sides -> [Names -> AssetId \cup {None}]]
    /\ sawRevoked \in [Sides -> BOOLEAN]
    /\ snapshot \in [Sides -> [Names -> AssetId] \cup {Blank}]
    /\ position \in 0..5
    /\ compared \in [Sides -> SUBSET Names]
    /\ standing \in [Sides -> BOOLEAN]
    /\ coherent \in BOOLEAN

(* The two releases exist and carry complete, distinct assets; the dispatch
   input INPUT_CONTAINER_RELEASE_ID already binds the container release. *)
Init ==
    /\ asset \in [Sides -> [Names -> AssetId]]
    /\ \A s, t \in Sides : \A n, m \in Names :
          asset[s][n] = asset[t][m] => s = t /\ n = m
    /\ releaseId = [s \in Sides |-> 0]
    /\ tagBound = [s \in Sides |-> TRUE]
    /\ revoked = [s \in Sides |-> FALSE]
    /\ used = {i \in AssetId : \E s \in Sides : \E n \in Names : asset[s][n] = i}
    /\ changes = 0
    /\ stage = "producer head"
    /\ boundId = [s \in Sides |-> IF s = "container" THEN 0 ELSE None]
    /\ got = [s \in Sides |-> Blank]
    /\ listing = [s \in Sides |-> Blank]
    /\ sawRevoked = [s \in Sides |-> FALSE]
    /\ snapshot = [s \in Sides |-> Blank]
    /\ position = 0
    /\ compared = [s \in Sides |-> {}]
    /\ standing = [s \in Sides |-> FALSE]
    /\ coherent = FALSE

-----------------------------------------------------------------------------
(* What the owners of the releases may do between two calls of the job. *)

Change == changes < MaxChanges /\ changes' = changes + 1

(* Delete the asset n, if there is one, and upload other bytes in its place. *)
UploadAsset(s, n) ==
    /\ Change
    /\ \E i \in AssetId \ used :
          /\ asset' = [asset EXCEPT ![s][n] = i]
          /\ used' = used \cup {i}
    /\ UNCHANGED <<releaseId, tagBound, revoked, job, standing, coherent>>

DeleteAsset(s, n) ==
    /\ Change
    /\ asset' = [asset EXCEPT ![s][n] = None]
    /\ UNCHANGED <<releaseId, tagBound, revoked, used, job, standing, coherent>>

Revoke(s) ==
    /\ Change
    /\ ~revoked[s]
    /\ revoked' = [revoked EXCEPT ![s] = TRUE]
    /\ UNCHANGED <<asset, releaseId, tagBound, used, job, standing, coherent>>

WithdrawRevocation(s) ==
    /\ Change
    /\ revoked[s]
    /\ revoked' = [revoked EXCEPT ![s] = FALSE]
    /\ standing' = [standing EXCEPT ![s] = FALSE]
    /\ UNCHANGED <<asset, releaseId, tagBound, used, job, coherent>>

MoveTag(s) ==
    /\ Change
    /\ tagBound' = [tagBound EXCEPT ![s] = ~@]
    /\ UNCHANGED <<asset, releaseId, revoked, used, job, standing, coherent>>

(* Delete the release and create another one, still empty, for the tag. *)
RecreateRelease(s) ==
    /\ Change
    /\ releaseId' = [releaseId EXCEPT ![s] = @ + 1]
    /\ asset' = [asset EXCEPT ![s] = Blank]
    /\ revoked' = [revoked EXCEPT ![s] = FALSE]
    /\ standing' = [standing EXCEPT ![s] = FALSE]
    /\ UNCHANGED <<tagBound, used, job, coherent>>

Owners ==
    \E s \in Sides :
        \/ \E n \in Names : UploadAsset(s, n) \/ DeleteAsset(s, n)
        \/ Revoke(s)
        \/ WithdrawRevocation(s)
        \/ MoveTag(s)
        \/ RecreateRelease(s)

-----------------------------------------------------------------------------
(* The calls of the job. *)

(* download_release_asset and the digest or signature check on its result.
   The helper resolves the tag, lists the release and downloads by ID; bytes
   under an ID never change, so the listing decides what it returns and a
   change before the download can only make it fail. *)
Download(from, to, s, wanted) ==
    /\ stage = from
    /\ \E n \in {m \in wanted : got[s][m] = None} :
          /\ asset[s][n] # None
          /\ Bytes[asset[s][n]] \in Trusted[n]
          /\ got' = [got EXCEPT ![s][n] = Bytes[asset[s][n]]]
    /\ stage' = IF \A n \in wanted : got'[s][n] # None THEN to ELSE from
    /\ UNCHANGED <<live, boundId, listing, sawRevoked, snapshot, position,
                   compared, standing, coherent>>

(* resolve_tag_commit *)
ResolveTagCommit(from, to, s) ==
    /\ stage = from
    /\ tagBound[s]
    /\ stage' = to
    /\ UNCHANGED <<live, boundId, got, listing, sawRevoked, snapshot, position,
                   compared, standing, coherent>>

(* The producer release is fetched by tag and its ID bound from then on. *)
BindProducerRelease ==
    /\ stage = "producer release"
    /\ boundId' = [boundId EXCEPT !["producer"] = releaseId["producer"]]
    /\ stage' = "producer list"
    /\ UNCHANGED <<live, got, listing, sawRevoked, snapshot, position, compared,
                   standing, coherent>>

(* The container release is fetched by its ID and by its tag. *)
CheckContainerRelease ==
    /\ stage = "container release"
    /\ releaseId["container"] = boundId["container"]
    /\ stage' = "container tag"
    /\ UNCHANGED <<live, boundId, got, listing, sawRevoked, snapshot, position,
                   compared, standing, coherent>>

(* list_release_assets of the bound release: its assets and revocations. *)
ReadListing(s) ==
    /\ releaseId[s] = boundId[s]
    /\ listing' = [listing EXCEPT ![s] = asset[s]]
    /\ sawRevoked' = [sawRevoked EXCEPT ![s] = revoked[s]]

ListReleaseAssets(from, to, s) ==
    /\ stage = from
    /\ ReadListing(s)
    /\ stage' = to
    /\ UNCHANGED <<live, boundId, got, snapshot, position, compared, standing,
                   coherent>>

\* Variant: only the producer's revocations are counted.
NoProducerRevocation(s) == s = "producer" => ~sawRevoked[s]

NoRevocation(s) == ~sawRevoked[s]

\* Variant: asset names that occur once are enough, absent ones go unnoticed.
SomeListed(s) == \E n \in Names : listing[s][n] # None

(* Each consumed asset occurs in the listing exactly once. *)
Complete(s) == \A n \in Names : listing[s][n] # None

(* canonical_consumed_asset_snapshot of the listing read before, kept in the
   receipt <side>-revocation-initial. *)
TakeSnapshot(from, to, s) ==
    /\ stage = from
    /\ NoRevocation(s)
    /\ Complete(s)
    /\ snapshot' = [snapshot EXCEPT ![s] = listing[s]]
    /\ stage' = to
    /\ UNCHANGED <<live, boundId, got, listing, sawRevoked, position, compared,
                   standing, coherent>>

InitialVerification ==
    \/ Download("producer head", "producer tag", "producer", Head)
    \/ ResolveTagCommit("producer tag", "producer release", "producer")
    \/ BindProducerRelease
    \/ ListReleaseAssets("producer list", "producer rest", "producer")
    \/ Download("producer rest", "producer snapshot", "producer", Rest)
    \/ TakeSnapshot("producer snapshot", "container release", "producer")
    \/ CheckContainerRelease
    \/ ResolveTagCommit("container tag", "container list", "container")
    \/ ListReleaseAssets("container list", "container head", "container")
    \/ Download("container head", "container snapshot", "container", Head)
    \/ TakeSnapshot("container snapshot", "container rest", "container")

(* The variant loop consumes the remaining container assets, and the final
   phase begins. *)
FinishVariants ==
    /\ Download("container rest", "collect 1", "container", Rest)

-----------------------------------------------------------------------------
(* The final phase: collect both releases, compare, download every asset of
   the snapshot again, collect both releases once more, decide. *)

Rounds == {"collect 1", "collect 2"}

(* In each round: both releases, then both listings, then both tags. *)
Turn(first, s) == IF s = "producer" THEN first ELSE first + 1

CollectRelease(s) ==
    /\ stage \in Rounds
    /\ position = Turn(0, s)
    /\ releaseId[s] = boundId[s]
    /\ position' = position + 1
    /\ standing' = IF stage = "collect 1" /\ position = 0 THEN revoked ELSE standing
    /\ UNCHANGED <<live, stage, boundId, got, listing, sawRevoked, snapshot,
                   compared, coherent>>

CollectListing(s) ==
    /\ stage \in Rounds
    /\ position = Turn(2, s)
    /\ ReadListing(s)
    /\ position' = position + 1
    /\ UNCHANGED <<live, stage, boundId, got, snapshot, compared, standing,
                   coherent>>

CollectTag(s) ==
    /\ stage \in Rounds
    /\ position = Turn(4, s)
    /\ tagBound[s]
    /\ position' = IF s = "container" THEN 0 ELSE position + 1
    /\ stage' = IF s = "producer" THEN stage
                ELSE IF stage = "collect 1" THEN "compare" ELSE "decide"
    /\ UNCHANGED <<live, boundId, got, listing, sawRevoked, snapshot, compared,
                   standing, coherent>>

\* Variant: the container snapshot is not compared.
ProducerUnchanged == listing["producer"] = snapshot["producer"]

(* The digest of the fresh snapshot equals the one stored in the receipt. *)
SnapshotUnchanged == \A s \in Sides : listing[s] = snapshot[s]

CompareSnapshots ==
    /\ stage = "compare"
    /\ SnapshotUnchanged
    /\ stage' = "redownload"
    /\ UNCHANGED <<live, boundId, got, listing, sawRevoked, snapshot, position,
                   compared, standing, coherent>>

\* Variant: the download is not compared with the consumed file.
AnyBytes(s, n) == Bytes[snapshot[s][n]] # None

(* cmp of the bytes under an ID of the snapshot with the consumed file. *)
SameBytes(s, n) == Bytes[snapshot[s][n]] = got[s][n]

Redownloaded(done) == \A s \in Sides : done[s] = Names

(* redownload_snapshot_and_compare: the producer's assets before the
   container's; an ID that is gone cannot be downloaded. *)
Redownload(s, n) ==
    /\ stage = "redownload"
    /\ n \notin compared[s]
    /\ s = "container" => compared["producer"] = Names
    /\ asset[s][n] = snapshot[s][n]
    /\ SameBytes(s, n)
    /\ compared' = [compared EXCEPT ![s] = @ \cup {n}]
    /\ stage' = IF Redownloaded(compared') THEN "collect 2" ELSE stage
    /\ coherent' = (Redownloaded(compared') /\ asset = snapshot)
    /\ UNCHANGED <<live, boundId, got, listing, sawRevoked, snapshot, position,
                   standing>>

(* The last comparison and the final revocation counts. *)
DecideFinal ==
    /\ stage = "decide"
    /\ SnapshotUnchanged
    /\ \A s \in Sides : NoRevocation(s)
    /\ stage' = "receipt"
    /\ UNCHANGED <<live, boundId, got, listing, sawRevoked, snapshot, position,
                   compared, standing, coherent>>

(* write_receipt final-revocation *)
EmitFinalReceipt ==
    /\ stage = "receipt"
    /\ stage' = "accepted"
    /\ UNCHANGED <<live, boundId, got, listing, sawRevoked, snapshot, position,
                   compared, standing, coherent>>

(* fail_closed, a failing command under "set -e", a failed API call. *)
FailClosed ==
    /\ stage \notin {"accepted", "failed"}
    /\ stage' = "failed"
    /\ UNCHANGED <<live, boundId, got, listing, sawRevoked, snapshot, position,
                   compared, standing, coherent>>

FinalPhase ==
    \/ \E s \in Sides :
          \/ CollectRelease(s)
          \/ CollectListing(s)
          \/ CollectTag(s)
          \/ \E n \in Names : Redownload(s, n)
    \/ CompareSnapshots
    \/ DecideFinal
    \/ EmitFinalReceipt

Next == Owners \/ InitialVerification \/ FinishVariants \/ FinalPhase \/ FailClosed

Spec == Init /\ [][Next]_vars

-----------------------------------------------------------------------------
(* Certified bytes.  When the final receipt exists, every local file that was
   verified holds the bytes of the asset ID that the receipt lists, although
   the first downloads ran before the listing the snapshot is taken from. *)
CertifiedBytes ==
    stage = "accepted" =>
        \A s \in Sides : \A n \in Names :
            /\ listing[s][n] # None
            /\ got[s][n] = Bytes[listing[s][n]]

(* Coherent snapshot.  The two releases are read by calls made one after the
   other, yet an emitted receipt describes one moment: when the last asset
   had been compared, both releases held exactly the assets it lists. *)
CoherentSnapshot == stage = "accepted" => coherent

(* No standing revocation.  A revocation that was attached when the final
   phase began and stayed attached is never overlooked. *)
NoStandingRevocation ==
    stage = "accepted" => \A s \in Sides : ~standing[s]
=============================================================================
