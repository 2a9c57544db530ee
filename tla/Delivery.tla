------------------------------ MODULE Delivery ------------------------------
(***************************************************************************)
(* One run of .github/workflows/mlx90-final-acceptance.yml with all its    *)
(* attempts: the verify job (its inside is FinalAcceptance), persist_mode  *)
(* and callback_mode of .github/scripts/mlx90-final-acceptance.sh, against *)
(* GitHub releases that other people with write access may change between  *)
(* any two calls.                                                          *)
(*                                                                         *)
(* Every API call of persist_mode is an action; a failed check and a       *)
(* failed call both end the job (fail_closed, "set -e").  The bytes of     *)
(* every file that attempt a signs are represented by a.                   *)
(***************************************************************************)
EXTENDS Naturals

CONSTANTS
    File,         \* the six files of the signed evidence
    Other,        \* any other asset name
    ReleaseId,    \* numeric release IDs that GitHub may hand out
    MaxAttempts,  \* bound on the attempts of the run
    MaxChanges,   \* bound on the changes other people make
    Foreign,      \* other bytes, another owner, another commit
    Broken,       \* an asset whose upload broke off: its state is not "uploaded"
    None

Attempt == 1..MaxAttempts
Name == File \cup {Other}
Content == Attempt \cup {Foreign, Broken, None}

ASSUME NamesAssumption == File # {} /\ Other \notin File
ASSUME BoundsAssumption == MaxAttempts \in Nat \ {0} /\ MaxChanges \in Nat
ASSUME MarksAssumption == /\ {Foreign, Broken, None} \cap Nat = {}
                          /\ Foreign # Broken /\ Foreign # None /\ Broken # None
                          /\ None \notin ReleaseId

VARIABLES
    \* GitHub.
    tag,        \* tag[i]: attempt whose evidence tag release i has, None before
    owner,      \* owner[i]: attempt named by title, body and target, or Foreign
    draft,      \* draft[i]
    immutable,  \* immutable[i]: published while immutable releases were enabled
    asset,      \* asset[i][n]: the bytes attached under the name n
    commit,     \* commit[a]: None, "ours" or "other": what the tag of a points to
    enabled,    \* the repository publishes immutable releases
    changes,
    \* The workflow run.
    attempt,    \* github.run_attempt
    artifacts,  \* attempts that uploaded the artifact ...-<run id>-<attempt>
    signed,     \* needs.verify.outputs.evidence-tag of the latest verify job
    outputs,    \* needs.persist.outputs of the latest persist job
    \* The job that runs.
    stage,
    rid,        \* release_id
    wasDraft,   \* .draft of the release found or created
    seen,       \* release_asset_metadata, the latest listing
    kept,       \* published_asset_metadata
    todo,       \* evidence_files not yet compared or uploaded
    \* History variables: written by the steps, read by the properties only.
    reported,   \* attempts whose callback outputs were exposed
    promoted,   \* acceptances that the consumer was told to promote
    calm        \* this attempt: no call failed and nobody interfered

github == <<tag, owner, draft, immutable, asset, commit, enabled>>
workflow == <<attempt, artifacts, signed, outputs>>
local == <<rid, wasDraft, seen, kept, todo>>
vars == <<github, changes, workflow, stage, local, reported, promoted, calm>>

Blank == [n \in Name |-> None]
PersistStages == {"check", "lookup", "list", "fill", "recheck draft",
                  "list draft", "compare draft", "publish", "read published",
                  "list published", "tag", "download", "recheck published",
                  "relist", "expose"}
Over == {"done", "failed"}

TypeOK ==
    /\ tag \in [ReleaseId -> Attempt \cup {None}]
    /\ owner \in [ReleaseId -> Attempt \cup {Foreign, None}]
    /\ draft \in [ReleaseId -> BOOLEAN]
    /\ immutable \in [ReleaseId -> BOOLEAN]
    /\ asset \in [ReleaseId -> [Name -> Content]]
    /\ commit \in [Attempt -> {"ours", "other", None}]
    /\ enabled \in BOOLEAN
    /\ changes \in 0..MaxChanges
    /\ attempt \in Attempt
    /\ artifacts \subseteq 1..attempt
    /\ signed \in Attempt \cup {None}
    /\ outputs \in [tag : Attempt, digest : Attempt] \cup {None}
    /\ stage \in PersistStages \cup {"verify", "callback"} \cup Over
    /\ rid \in ReleaseId \cup {None}
    /\ wasDraft \in BOOLEAN
    /\ seen \in [Name -> Content]
    /\ kept \in [Name -> Content]
    /\ todo \subseteq File
    /\ reported \subseteq Attempt
    /\ promoted \subseteq Attempt
    /\ calm \in BOOLEAN

Init ==
    /\ tag = [i \in ReleaseId |-> None]
    /\ owner = [i \in ReleaseId |-> None]
    /\ draft = [i \in ReleaseId |-> FALSE]
    /\ immutable = [i \in ReleaseId |-> FALSE]
    /\ asset = [i \in ReleaseId |-> Blank]
    /\ commit = [a \in Attempt |-> None]
    /\ enabled \in BOOLEAN
    /\ changes = 0
    /\ attempt = 1
    /\ artifacts = {}
    /\ signed = None
    /\ outputs = None
    /\ stage = "verify"
    /\ rid = None
    /\ wasDraft = FALSE
    /\ seen = Blank
    /\ kept = Blank
    /\ todo = {}
    /\ reported = {}
    /\ promoted = {}
    /\ calm = TRUE

-----------------------------------------------------------------------------
(* GitHub, as the code relies on it. *)

Published(i, t) == tag[i] = t /\ ~draft[i]

Taken(t) == \E i \in ReleaseId : Published(i, t)

Seals(i, t) == Published(i, t) /\ immutable[i]

Sealed(t) == \E i \in ReleaseId : Seals(i, t)

(* A new draft without assets. *)
NewDraft(i, t, o) ==
    /\ tag[i] = None
    /\ tag' = [tag EXCEPT ![i] = t]
    /\ owner' = [owner EXCEPT ![i] = o]
    /\ draft' = [draft EXCEPT ![i] = TRUE]

(* Publication: one release for a tag; it creates the tag if there is none
   and seals release, assets and tag when immutable releases are enabled. *)
PublishRelease(i) ==
    /\ draft[i]
    /\ ~Taken(tag[i])
    /\ draft' = [draft EXCEPT ![i] = FALSE]
    /\ immutable' = [immutable EXCEPT ![i] = enabled]
    /\ commit' = [commit EXCEPT ![tag[i]] =
                    IF @ # None THEN @
                    ELSE IF owner[i] = Foreign THEN "other" ELSE "ours"]

-----------------------------------------------------------------------------
(* Other people with write access to the repository.  The evidence tag is
   unknown until the verify job has published its digest; from then on the
   artifact with the signed files can be downloaded. *)

Change ==
    /\ changes < MaxChanges
    /\ changes' = changes + 1
    /\ calm' = FALSE
    /\ UNCHANGED <<workflow, stage, local, reported, promoted>>

PlantDraft(i, a, o) ==
    /\ Change
    /\ a \in artifacts
    /\ NewDraft(i, a, o)
    /\ UNCHANGED <<immutable, asset, commit, enabled>>

ReplaceAsset(i, n, c) ==
    /\ Change
    /\ tag[i] # None /\ ~immutable[i]
    /\ asset' = [asset EXCEPT ![i][n] = c]
    /\ UNCHANGED <<tag, owner, draft, immutable, commit, enabled>>

(* Title and notes stay editable on an immutable release. *)
EditNotes(i) ==
    /\ Change
    /\ tag[i] # None
    /\ owner' = [owner EXCEPT ![i] = Foreign]
    /\ UNCHANGED <<tag, draft, immutable, asset, commit, enabled>>

PublishByHand(i) ==
    /\ Change
    /\ PublishRelease(i)
    /\ UNCHANGED <<tag, owner, asset, enabled>>

Unpublish(i) ==
    /\ Change
    /\ tag[i] # None /\ ~draft[i] /\ ~immutable[i]
    /\ draft' = [draft EXCEPT ![i] = TRUE]
    /\ UNCHANGED <<tag, owner, immutable, asset, commit, enabled>>

MoveTag(a) ==
    /\ Change
    /\ a \in artifacts /\ ~Sealed(a)
    /\ commit' = [commit EXCEPT ![a] = "other"]
    /\ UNCHANGED <<tag, owner, draft, immutable, asset, enabled>>

SwitchImmutability ==
    /\ Change
    /\ enabled' = ~enabled
    /\ UNCHANGED <<tag, owner, draft, immutable, asset, commit>>

Others ==
    \/ \E i \in ReleaseId :
          \/ \E a \in Attempt : PlantDraft(i, a, a) \/ PlantDraft(i, a, Foreign)
          \/ \E n \in Name : \E c \in artifacts \cup {None, Foreign} :
                ReplaceAsset(i, n, c)
          \/ EditNotes(i)
          \/ PublishByHand(i)
          \/ Unpublish(i)
    \/ \E a \in Attempt : MoveTag(a)
    \/ SwitchImmutability

-----------------------------------------------------------------------------
(* The jobs.  A call that changes something may take effect and still fail
   for the caller: the answer is lost and the job ends. *)

Reads(next) ==
    /\ stage' = next
    /\ UNCHANGED <<github, changes, workflow, reported, promoted, calm>>

Answered(next) ==
    \/ stage' = next /\ calm' = calm
    \/ stage' = "failed" /\ calm' = FALSE

\* Variant: the acceptance names the run but not the attempt.
RunTag == 1

\* Variant: the attempt is counted on before the acceptance names it.
NextTag == attempt + 1

(* The tag derives from the digest of the acceptance, which names the attempt. *)
EvidenceTag == attempt

(* The verify job: sign, upload the artifact of this attempt, set the output. *)
VerifySucceeds ==
    /\ stage = "verify"
    /\ artifacts' = artifacts \cup {attempt}
    /\ Answered("check")
    /\ signed' = IF stage' = "check" THEN EvidenceTag ELSE None
    /\ UNCHANGED <<github, changes, attempt, outputs, local, reported, promoted>>

(* The artifact of this very attempt, signed by this very attempt. *)
CheckEvidence ==
    /\ stage = "check"
    /\ attempt \in artifacts
    /\ Reads("lookup")
    /\ UNCHANGED local

(* Title, body and target_commitish name this run and attempt. *)
Owned(i) == owner[i] = attempt

(* GET releases/tags/TAG.  Whether GitHub shows a draft here is left open. *)
FindRelease(i) ==
    /\ stage = "lookup"
    /\ tag[i] = signed
    /\ Owned(i)
    /\ rid' = i
    /\ wasDraft' = draft[i]
    /\ Reads("list")
    /\ UNCHANGED <<seen, kept, todo>>

(* The else branch: no release was found, or the lookup failed for whatever
   reason, which 2>/dev/null and the if make look the same. *)
CreateDraft(i) ==
    /\ stage = "lookup"
    /\ NewDraft(i, signed, attempt)
    /\ rid' = i
    /\ wasDraft' = TRUE
    /\ \/ stage' = "list" /\ calm' = (calm /\ ~Taken(signed))
       \/ stage' = "failed" /\ calm' = FALSE
    /\ UNCHANGED <<immutable, asset, commit, enabled, changes, workflow, seen,
                   kept, todo, reported, promoted>>

(* canonical_release_asset_metadata refuses an asset that is not uploaded. *)
Listed(next) ==
    /\ \A n \in Name : asset[rid][n] # Broken
    /\ seen' = asset[rid]
    /\ Reads(next)

ExactNames(listing) == \A n \in Name : listing[n] # None <=> n \in File

\* Variant: an asset of the right name is not compared with the evidence.
SomeBytes(f) == seen[f] # None

SameBytes(f) == seen[f] = attempt

ListRelease ==
    /\ stage = "list"
    /\ Listed(IF wasDraft THEN "fill" ELSE "read published")
    /\ seen'[Other] = None
    /\ todo' = IF wasDraft THEN File ELSE {}
    /\ UNCHANGED <<rid, wasDraft, kept>>

(* A file that the listing shows is downloaded by its ID and compared. *)
CompareExisting(f) ==
    /\ stage = "fill"
    /\ f \in todo
    /\ seen[f] # None
    /\ asset[rid][f] = seen[f]
    /\ SameBytes(f)
    /\ todo' = todo \ {f}
    /\ Reads(IF todo' = {} THEN "recheck draft" ELSE "fill")
    /\ UNCHANGED <<rid, wasDraft, seen, kept>>

(* A file that the listing lacks is uploaded; GitHub refuses a name in use. *)
UploadMissing(f) ==
    /\ stage = "fill"
    /\ f \in todo
    /\ seen[f] = None
    /\ asset[rid][f] = None /\ ~immutable[rid]
    /\ todo' = todo \ {f}
    /\ \/ /\ asset' = [asset EXCEPT ![rid][f] = attempt]
          /\ Answered(IF todo' = {} THEN "recheck draft" ELSE "fill")
       \/ /\ asset' = [asset EXCEPT ![rid][f] = Broken]
          /\ stage' = "failed" /\ calm' = FALSE
    /\ UNCHANGED <<tag, owner, draft, immutable, commit, enabled, changes,
                   workflow, rid, wasDraft, seen, kept, reported, promoted>>

RecheckDraft ==
    /\ stage = "recheck draft"
    /\ draft[rid]
    /\ Owned(rid)
    /\ Reads("list draft")
    /\ UNCHANGED local

ListDraft ==
    /\ stage = "list draft"
    /\ Listed("compare draft")
    /\ ExactNames(seen')
    /\ UNCHANGED <<rid, wasDraft, kept, todo>>

(* download_release_assets_and_compare.  Bytes under an asset ID never change:
   the listing decides what the downloads return, if they succeed at all. *)
Downloads(next) ==
    /\ \A f \in File : asset[rid][f] = seen[f] /\ SameBytes(f)
    /\ Reads(next)
    /\ UNCHANGED local

CompareDraft == stage = "compare draft" /\ Downloads("publish")

(* PATCH draft=false: nothing changes if somebody has published already. *)
Publish ==
    /\ stage = "publish"
    /\ \/ PublishRelease(rid)
       \/ ~draft[rid] /\ UNCHANGED <<draft, immutable, commit>>
    /\ Answered("read published")
    /\ UNCHANGED <<tag, owner, asset, enabled, changes, workflow, local,
                   reported, promoted>>

\* Variant: only the draft flag of the answer is looked at.
ReadsPublished(i) == ~draft[i]

(* .draft == false and .immutable == true *)
ReadsImmutable(i) == ~draft[i] /\ immutable[i]

ReadPublished ==
    /\ stage = "read published"
    /\ ReadsImmutable(rid)
    /\ Owned(rid)
    /\ Reads("list published")
    /\ UNCHANGED local

ListPublished ==
    /\ stage = "list published"
    /\ Listed("tag")
    /\ ExactNames(seen')
    /\ kept' = seen'
    /\ UNCHANGED <<rid, wasDraft, todo>>

ResolveTag ==
    /\ stage = "tag"
    /\ commit[signed] = "ours"
    /\ Reads("download")
    /\ UNCHANGED local

DownloadPublished == stage = "download" /\ Downloads("recheck published")

RecheckPublished ==
    /\ stage = "recheck published"
    /\ ReadsImmutable(rid)
    /\ Reads("relist")
    /\ UNCHANGED local

RelistPublished ==
    /\ stage = "relist"
    /\ Listed("expose")
    /\ seen' = kept
    /\ UNCHANGED <<rid, wasDraft, kept, todo>>

ExposeOutputs ==
    /\ stage = "expose"
    /\ outputs' = [tag |-> signed, digest |-> attempt]
    /\ reported' = reported \cup {attempt}
    /\ stage' = "callback"
    /\ UNCHANGED <<github, changes, attempt, artifacts, signed, local, promoted,
                   calm>>

(* callback_mode: the acceptance URL must derive from the digest. *)
Callback ==
    /\ stage = "callback"
    /\ outputs.tag = outputs.digest
    /\ promoted' = promoted \cup {outputs.digest}
    /\ Answered("done")
    /\ UNCHANGED <<github, changes, workflow, local, reported>>

(* fail_closed, a failing call, a timeout, a cancelled job. *)
Fail ==
    /\ stage \notin Over
    /\ stage' = "failed"
    /\ calm' = FALSE
    /\ UNCHANGED <<github, changes, workflow, local, reported, promoted>>

Progress ==
    \/ VerifySucceeds
    \/ CheckEvidence
    \/ \E i \in ReleaseId : FindRelease(i) \/ CreateDraft(i)
    \/ ListRelease
    \/ \E f \in File : CompareExisting(f) \/ UploadMissing(f)
    \/ RecheckDraft
    \/ ListDraft
    \/ CompareDraft
    \/ Publish
    \/ ReadPublished
    \/ ListPublished
    \/ ResolveTag
    \/ DownloadPublished
    \/ RecheckPublished
    \/ RelistPublished
    \/ ExposeOutputs
    \/ Callback

-----------------------------------------------------------------------------
(* The release App runs a job again.  The outputs of the jobs before it stay,
   run_attempt grows, and the job starts on a fresh runner. *)

RunAgain(first) ==
    /\ stage \in Over
    /\ attempt < MaxAttempts
    /\ attempt' = attempt + 1
    /\ stage' = first
    /\ rid' = None
    /\ wasDraft' = FALSE
    /\ seen' = Blank
    /\ kept' = Blank
    /\ todo' = {}
    /\ calm' = TRUE
    /\ UNCHANGED <<github, changes, artifacts, reported, promoted>>

RunAllAgain ==
    /\ RunAgain("verify")
    /\ signed' = None
    /\ outputs' = None

RunPersistAgain ==
    /\ signed # None
    /\ RunAgain("check")
    /\ outputs' = None
    /\ UNCHANGED signed

RunCallbackAgain ==
    /\ outputs # None
    /\ RunAgain("callback")
    /\ UNCHANGED <<signed, outputs>>

Rerun == RunAllAgain \/ RunPersistAgain \/ RunCallbackAgain

Next == Others \/ Progress \/ Fail \/ Rerun

Spec == Init /\ [][Next]_vars

(* A runner executes the steps of its job one after the other. *)
FairSpec == Spec /\ WF_vars(Progress)

-----------------------------------------------------------------------------
Evidence(a) == [n \in Name |-> IF n \in File THEN a ELSE None]

SealedCopy(a) ==
    IF Sealed(a) THEN asset[CHOOSE i \in ReleaseId : Seals(i, a)] ELSE None

Durable == INSTANCE DurableEvidence WITH
    Acceptance <- Attempt,
    Copy <- [Name -> Content],
    Signed <- [a \in Attempt |-> Evidence(a)],
    sealed <- [a \in Attempt |-> SealedCopy(a)]

(* The run implements the promise of DurableEvidence: whatever other people
   do, whatever call fails and whichever job runs again, an acceptance is
   reported only when an immutable release holds exactly the files its
   attempt signed, and promoted only when it was reported. *)
DurableSpec == Durable!Spec

(* The evidence tag of a reported acceptance is sealed at the workflow commit
   together with the six files, and nothing else is attached. *)
ReportedIsSealed ==
    \A a \in reported :
        /\ commit[a] = "ours"
        /\ \E i \in ReleaseId : Seals(i, a) /\ asset[i] = Evidence(a)

(* Whatever earlier attempts and other people have left behind, running all
   jobs again delivers, unless a call of this attempt fails, somebody
   interferes or immutable releases are disabled. *)
Delivers ==
    \A a \in Attempt :
        (attempt = a /\ stage = "verify" /\ calm /\ enabled)
            ~> (a \in promoted \/ ~calm)

(* docs/mlx90-final-acceptance.md, "Durable result": persistence "uploads only
   missing assets [...], accepts a partial draft on retry only when its run
   marker, target SHA, metadata, and every existing byte match the current
   signed evidence": a persistence job that runs again after it left a partial
   draft of the signed evidence resumes and publishes that draft. *)
Resumable(i) ==
    /\ tag[i] = signed /\ owner[i] = signed /\ draft[i]
    /\ \A n \in Name : asset[i][n] \in {None, Evidence(signed)[n]}

RetryResumesDraft ==
    \A i \in ReleaseId :
        (stage = "check" /\ calm /\ Resumable(i)) ~> (~draft[i] \/ ~calm)
=============================================================================
