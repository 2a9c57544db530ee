------------------------ MODULE FinalAcceptanceProofs ------------------------
(***************************************************************************)
(* For every set of asset names and IDs and every assignment of bytes, the *)
(* safety properties of FinalAcceptance.                                   *)
(***************************************************************************)
EXTENDS FinalAcceptance, TLAPS

(* The state is well typed: the type invariant of the verification job. *)
THEOREM TypeCorrect == Spec => []TypeOK
<1>1. Init => TypeOK
  <2> SUFFICES ASSUME Init PROVE TypeOK
    OBVIOUS
  <2>1. used \subseteq AssetId
    BY DEF Init
  <2>2. Blank \in [Names -> AssetId \cup {None}] /\ Blank \in [Names -> {Bytes[i] : i \in AssetId} \cup {None}]
    BY DEF Blank
  <2>3. asset \in [Sides -> [Names -> AssetId \cup {None}]]
    <3>1. asset \in [Sides -> [Names -> AssetId]]
      BY DEF Init
    <3> QED
      BY <3>1
  <2>4. changes \in 0..MaxChanges /\ position \in 0..5
    <3>1. changes = 0 /\ position = 0
      BY DEF Init
    <3> QED
      BY <3>1, BoundAssumption DEF BoundAssumption
  <2>5. /\ boundId \in [Sides -> Nat \cup {None}]
        /\ releaseId \in [Sides -> Nat]
    BY DEF Init
  <2>6. /\ got \in [Sides -> [Names -> {Bytes[i] : i \in AssetId} \cup {None}]]
        /\ listing \in [Sides -> [Names -> AssetId \cup {None}]]
        /\ snapshot \in [Sides -> [Names -> AssetId] \cup {Blank}]
    BY <2>2 DEF Init
  <2> QED
    BY <2>1, <2>3, <2>4, <2>5, <2>6 DEF Init, TypeOK, Stages
<1>2. TypeOK /\ [Next]_vars => TypeOK'
  <2> SUFFICES ASSUME TypeOK, [Next]_vars PROVE TypeOK'
    OBVIOUS
  <2> USE BoundAssumption, NamesAssumption, BytesAssumption DEF TypeOK
  <2>1. CASE Owners
    <3> SUFFICES ASSUME NEW s \in Sides,
                        \/ \E n \in Names : UploadAsset(s, n) \/ DeleteAsset(s, n)
                        \/ Revoke(s) \/ WithdrawRevocation(s)
                        \/ MoveTag(s) \/ RecreateRelease(s)
                 PROVE  TypeOK'
      BY <2>1 DEF Owners
    <3> USE DEF Change, job
    <3>1. ASSUME NEW n \in Names, UploadAsset(s, n) PROVE TypeOK'
      BY <3>1 DEF UploadAsset
    <3>2. ASSUME NEW n \in Names, DeleteAsset(s, n) PROVE TypeOK'
      BY <3>2 DEF DeleteAsset
    <3>3. CASE Revoke(s)
      BY <3>3 DEF Revoke
    <3>4. CASE WithdrawRevocation(s)
      BY <3>4 DEF WithdrawRevocation
    <3>5. CASE MoveTag(s)
      BY <3>5 DEF MoveTag
    <3>6. CASE RecreateRelease(s)
      BY <3>6 DEF RecreateRelease, Blank
    <3> QED
      BY <3>1, <3>2, <3>3, <3>4, <3>5, <3>6
  <2>2. ASSUME NEW from \in Stages, NEW to \in Stages, NEW s \in Sides,
               NEW wanted \in SUBSET Names, Download(from, to, s, wanted)
        PROVE  TypeOK'
    <3>1. PICK n \in Names :
             /\ Bytes[asset[s][n]] \in {Bytes[i] : i \in AssetId}
             /\ got' = [got EXCEPT ![s][n] = Bytes[asset[s][n]]]
      <4>1. PICK n \in wanted :
               /\ asset[s][n] # None
               /\ got' = [got EXCEPT ![s][n] = Bytes[asset[s][n]]]
        BY <2>2 DEF Download
      <4>2. asset[s][n] \in AssetId
        BY <4>1
      <4> QED
        BY <4>1, <4>2
    <3>2. got' \in [Sides -> [Names -> {Bytes[i] : i \in AssetId} \cup {None}]]
      BY <3>1
    <3>3. stage' \in Stages
      BY <2>2 DEF Download
    <3> QED
      BY <2>2, <3>2, <3>3 DEF Download, live
  <2>3. ASSUME NEW from \in Stages, NEW to \in Stages, NEW s \in Sides,
               ResolveTagCommit(from, to, s)
        PROVE  TypeOK'
    BY <2>3 DEF ResolveTagCommit, live
  <2>4. ASSUME NEW from \in Stages, NEW to \in Stages, NEW s \in Sides,
               ListReleaseAssets(from, to, s)
        PROVE  TypeOK'
    BY <2>4 DEF ListReleaseAssets, ReadListing, live
  <2>5. ASSUME NEW from \in Stages, NEW to \in Stages, NEW s \in Sides,
               TakeSnapshot(from, to, s)
        PROVE  TypeOK'
    <3>1. listing[s] \in [Names -> AssetId]
      BY <2>5 DEF TakeSnapshot, Complete
    <3>2. snapshot' \in [Sides -> [Names -> AssetId] \cup {Blank}]
      BY <2>5, <3>1 DEF TakeSnapshot
    <3> QED
      BY <2>5, <3>2 DEF TakeSnapshot, live
  <2>6. CASE BindProducerRelease
    BY <2>6 DEF BindProducerRelease, Stages, live
  <2>7. CASE CheckContainerRelease
    BY <2>7 DEF CheckContainerRelease, Stages, live
  <2>8. CASE InitialVerification \/ FinishVariants
    <3>1. Head \in SUBSET Names /\ Rest \in SUBSET Names
      BY DEF Names
    <3>2. {"producer head", "producer tag", "producer release",
           "producer list", "producer rest", "producer snapshot",
           "container release", "container tag", "container list",
           "container head", "container snapshot", "container rest",
           "collect 1"} \subseteq Stages
      BY DEF Stages
    <3>3. "producer" \in Sides /\ "container" \in Sides
      BY DEF Sides
    <3> HIDE DEF TypeOK
    <3>4. CASE FinishVariants
      BY <2>2, <3>1, <3>2, <3>3, <3>4 DEF FinishVariants
    <3>5. CASE InitialVerification
      BY <2>2, <2>3, <2>4, <2>5, <2>6, <2>7, <3>1, <3>2, <3>3, <3>5
      DEF InitialVerification
    <3> QED
      BY <2>8, <3>4, <3>5
  <2>9. CASE FinalPhase
    <3>1. ASSUME NEW s \in Sides, CollectRelease(s) PROVE TypeOK'
      <4>1. position' \in 0..5
        <5> HIDE DEF TypeOK
        <5>1. position = Turn(0, s) /\ position' = position + 1
          BY <3>1 DEF CollectRelease
        <5> QED
          BY <5>1 DEF Turn
      <4>2. standing' \in [Sides -> BOOLEAN]
        <5>1. standing' = revoked \/ standing' = standing
          BY <3>1 DEF CollectRelease
        <5> QED BY <5>1
      <4> QED
        BY <3>1, <4>1, <4>2 DEF CollectRelease, live
    <3>2. ASSUME NEW s \in Sides, CollectListing(s) PROVE TypeOK'
      <4>1. position' \in 0..5
        BY <3>2 DEF CollectListing, Turn
      <4> QED
        BY <3>2, <4>1 DEF CollectListing, ReadListing, live
    <3>3. ASSUME NEW s \in Sides, CollectTag(s) PROVE TypeOK'
      <4>1. position' \in 0..5
        <5> HIDE DEF TypeOK
        <5>1. position = Turn(4, s)
          BY <3>3 DEF CollectTag
        <5>2. position' = IF s = "container" THEN 0 ELSE position + 1
          BY <3>3 DEF CollectTag
        <5> QED
          BY <5>1, <5>2 DEF Turn, Sides
      <4>2. stage' \in Stages
        BY <3>3 DEF CollectTag, Stages
      <4> QED
        BY <3>3, <4>1, <4>2 DEF CollectTag, live
    <3>4. ASSUME NEW s \in Sides, NEW n \in Names, Redownload(s, n)
          PROVE  TypeOK'
      BY <3>4 DEF Redownload, Redownloaded, Stages, live
    <3>5. CASE CompareSnapshots
      BY <3>5 DEF CompareSnapshots, Stages, live
    <3>6. CASE DecideFinal
      BY <3>6 DEF DecideFinal, Stages, live
    <3>7. CASE EmitFinalReceipt
      BY <3>7 DEF EmitFinalReceipt, Stages, live
    <3> QED
      BY <2>9, <3>1, <3>2, <3>3, <3>4, <3>5, <3>6, <3>7 DEF FinalPhase
  <2>10. CASE FailClosed
    BY <2>10 DEF FailClosed, Stages, live
  <2>11. CASE UNCHANGED vars
    BY <2>11 DEF vars, live, job
  <2> QED
    BY <2>1, <2>8, <2>9, <2>10, <2>11 DEF Next
<1> QED
  BY <1>1, <1>2, PTL DEF Spec

-----------------------------------------------------------------------------
(* The inductive invariant, in four parts. *)

(* Every ID known to the job or listed now has been handed out before, so an
   upload cannot bring back an ID that a listing has lost. *)
Handed ==
    \A s \in Sides : \A n \in Names :
        /\ asset[s][n] \in used \cup {None}
        /\ listing[s][n] \in used \cup {None}
        /\ snapshot[s][n] \in used \cup {None}

Settled == {"container rest", "collect 1", "compare", "redownload", "collect 2",
            "decide", "receipt", "accepted"}

(* Snapshots are complete from the moment they are taken. *)
Snapshots ==
    /\ stage \in {"container release", "container tag", "container list",
                  "container head", "container snapshot"}
          => snapshot["producer"] \in [Names -> AssetId]
    /\ stage \in Settled => \A s \in Sides : snapshot[s] \in [Names -> AssetId]

(* The comparisons made so far still hold, and all are made in the end. *)
Comparisons ==
    /\ \A s \in Sides : \A n \in compared[s] : SameBytes(s, n)
    /\ stage \notin {"redownload", "collect 2", "decide", "receipt", "accepted", "failed"}
          => \A s \in Sides : compared[s] = {}
    /\ stage \in {"collect 2", "decide", "receipt", "accepted"}
          => \A s \in Sides : compared[s] = Names

ListedAgain(s) == stage = "decide" \/ position > Turn(2, s)

(* An asset of the snapshot is gone for good, and a listing read since the
   comparisons ended shows it. *)
Lost(s, n) == /\ asset[s][n] # snapshot[s][n]
              /\ ListedAgain(s) => listing[s][n] # snapshot[s][n]

Coherence ==
    /\ stage \notin Rounds \cup {"failed"} => position = 0
    /\ stage \in {"collect 2", "decide"} /\ ~coherent
          => \E s \in Sides : \E n \in Names : Lost(s, n)
    /\ stage \in {"receipt", "accepted"} => listing = snapshot /\ coherent

Revocations ==
    \A s \in Sides :
        /\ standing[s] => revoked[s]
        /\ stage \in {"collect 2", "decide"} /\ ListedAgain(s) /\ standing[s]
              => sawRevoked[s]
        /\ stage \in {"receipt", "accepted"} => ~standing[s]

IInv == TypeOK /\ Handed /\ Snapshots /\ Comparisons /\ Coherence /\ Revocations

(* What the first part of the job leaves alone. *)
LEMMA InitialSteps ==
    ASSUME InitialVerification \/ FinishVariants
    PROVE  /\ stage \notin {"collect 1", "compare", "redownload", "collect 2",
                           "decide", "receipt", "accepted", "failed"}
           /\ stage' \notin {"compare", "redownload", "collect 2", "decide",
                            "receipt", "accepted", "failed"}
           /\ UNCHANGED <<live, position, compared, standing, coherent>>
           /\ \/ UNCHANGED <<listing, snapshot>>
              \/ \E s \in Sides : ReadListing(s) /\ UNCHANGED snapshot
              \/ \E s \in Sides : /\ snapshot' = [snapshot EXCEPT ![s] = listing[s]]
                                  /\ UNCHANGED listing
<1> "producer" \in Sides /\ "container" \in Sides
  BY DEF Sides
<1>1. CASE InitialVerification
  BY <1>1 DEF InitialVerification, Download, ResolveTagCommit,
     BindProducerRelease, CheckContainerRelease, ListReleaseAssets, TakeSnapshot
<1>2. CASE FinishVariants
  BY <1>2 DEF FinishVariants, Download
<1> QED
  BY <1>1, <1>2

LEMMA HandedStep ==
    ASSUME TypeOK, Handed, [Next]_vars
    PROVE  Handed'
<1> USE DEF Handed
<1>1. CASE Owners
  <2> USE DEF Change
  <2>1. ASSUME NEW s \in Sides, NEW n \in Names, UploadAsset(s, n)
        PROVE  Handed'
    BY <2>1 DEF UploadAsset, job, TypeOK
  <2>2. ASSUME NEW s \in Sides, NEW n \in Names, DeleteAsset(s, n)
        PROVE  Handed'
    BY <2>2 DEF DeleteAsset, job, TypeOK
  <2>3. ASSUME NEW s \in Sides, RecreateRelease(s)
        PROVE  Handed'
    BY <2>3 DEF RecreateRelease, Blank, job, TypeOK
  <2>4. ASSUME NEW s \in Sides, Revoke(s) \/ WithdrawRevocation(s) \/ MoveTag(s)
        PROVE  Handed'
    BY <2>4 DEF Revoke, WithdrawRevocation, MoveTag, job
  <2> QED
    BY <1>1, <2>1, <2>2, <2>3, <2>4 DEF Owners
<1>2. ASSUME NEW s \in Sides, ReadListing(s), UNCHANGED <<live, snapshot>>
      PROVE  Handed'
  BY <1>2 DEF ReadListing, live, TypeOK
<1>3. CASE InitialVerification \/ FinishVariants
  <2>1. ASSUME UNCHANGED <<live, listing, snapshot>> PROVE Handed'
    BY <2>1 DEF live
  <2>2. ASSUME NEW s \in Sides, snapshot' = [snapshot EXCEPT ![s] = listing[s]],
               UNCHANGED <<live, listing>>
        PROVE  Handed'
    BY <2>2 DEF live, TypeOK
  <2> QED
    BY <1>2, <1>3, <2>1, <2>2, InitialSteps
<1>4. CASE FinalPhase
  <2>1. ASSUME NEW s \in Sides, CollectListing(s) PROVE Handed'
    BY <1>2, <2>1 DEF CollectListing
  <2>2. ASSUME NEW s \in Sides, CollectRelease(s) \/ CollectTag(s)
        PROVE  Handed'
    BY <2>2 DEF CollectRelease, CollectTag, live
  <2>3. ASSUME NEW s \in Sides, NEW n \in Names, Redownload(s, n)
        PROVE  Handed'
    BY <2>3 DEF Redownload, live
  <2>4. CASE CompareSnapshots \/ DecideFinal \/ EmitFinalReceipt
    BY <2>4 DEF CompareSnapshots, DecideFinal, EmitFinalReceipt, live
  <2> QED
    BY <1>4, <2>1, <2>2, <2>3, <2>4 DEF FinalPhase
<1>5. CASE FailClosed \/ UNCHANGED vars
  BY <1>5 DEF FailClosed, vars, live, job
<1> QED
  BY <1>1, <1>3, <1>4, <1>5 DEF Next

(* The order of the calls in a collection round. *)
LEMMA Turns ==
    /\ \A s : Turn(0, s) \in {0, 1} /\ Turn(2, s) \in {2, 3} /\ Turn(4, s) \in {4, 5}
    /\ \A s, t \in Sides : \A k \in {0, 2, 4} : Turn(k, s) = Turn(k, t) => s = t
    /\ Turn(2, "producer") < Turn(2, "container")
BY DEF Turn, Sides

(* The owners change nothing of the job, and no step of the final phase
   touches a snapshot or a consumed file. *)
LEMMA OwnerSteps == Owners => UNCHANGED job
BY DEF Owners, UploadAsset, DeleteAsset, Revoke, WithdrawRevocation, MoveTag,
   RecreateRelease

LEMMA FinalSteps == FinalPhase \/ FailClosed => UNCHANGED <<snapshot, got>>
BY DEF FinalPhase, CollectRelease, CollectListing, CollectTag, Redownload,
   CompareSnapshots, DecideFinal, EmitFinalReceipt, FailClosed

LEMMA SnapshotsStep ==
    ASSUME TypeOK, Snapshots, [Next]_vars
    PROVE  Snapshots'
<1> USE DEF Snapshots
<1>1. CASE Owners \/ UNCHANGED vars
  BY <1>1, OwnerSteps DEF job, vars
<1>2. CASE InitialVerification
  <2>2. CASE TakeSnapshot("producer snapshot", "container release", "producer")
    <3>1. listing["producer"] \in [Names -> AssetId \cup {None}]
      BY DEF TypeOK, Sides
    <3>2. \A n \in Names : listing["producer"][n] # None
      BY <2>2 DEF TakeSnapshot, Complete
    <3>3. listing["producer"] \in [Names -> AssetId]
      BY <3>1, <3>2
    <3> QED
      BY <2>2, <3>3 DEF TakeSnapshot, TypeOK, Sides, Settled
  <2>3. CASE TakeSnapshot("container snapshot", "container rest", "container")
    <3>1. listing["container"] \in [Names -> AssetId \cup {None}]
      BY DEF TypeOK, Sides
    <3>2. \A n \in Names : listing["container"][n] # None
      BY <2>3 DEF TakeSnapshot, Complete
    <3>3. listing["container"] \in [Names -> AssetId]
      BY <3>1, <3>2
    <3> QED
      BY <2>3, <3>3 DEF TakeSnapshot, TypeOK, Sides, Settled
  <2>4. CASE \/ Download("producer head", "producer tag", "producer", Head)
             \/ ResolveTagCommit("producer tag", "producer release", "producer")
             \/ BindProducerRelease
             \/ ListReleaseAssets("producer list", "producer rest", "producer")
             \/ Download("producer rest", "producer snapshot", "producer", Rest)
    BY <2>4 DEF Download, ResolveTagCommit, BindProducerRelease,
       ListReleaseAssets, Settled
  <2>5. CASE \/ CheckContainerRelease
             \/ ResolveTagCommit("container tag", "container list", "container")
             \/ ListReleaseAssets("container list", "container head", "container")
             \/ Download("container head", "container snapshot", "container", Head)
    BY <2>5 DEF Download, ResolveTagCommit, CheckContainerRelease,
       ListReleaseAssets, Settled
  <2> QED
    BY <1>2, <2>2, <2>3, <2>4, <2>5 DEF InitialVerification
<1>3. CASE FinishVariants
  BY <1>3 DEF FinishVariants, Download, Settled
<1>4. CASE FinalPhase
  <2>1. stage \in Settled /\ stage' \in Settled
    BY <1>4 DEF FinalPhase, CollectRelease, CollectListing, CollectTag,
       Redownload, CompareSnapshots, DecideFinal, EmitFinalReceipt, Rounds, Settled
  <2> QED
    BY <1>4, <2>1, FinalSteps DEF Settled
<1>5. CASE FailClosed
  BY <1>5 DEF FailClosed, Settled
<1> QED
  BY <1>1, <1>2, <1>3, <1>4, <1>5 DEF Next

LEMMA ComparisonsStep ==
    ASSUME TypeOK, Comparisons, [Next]_vars
    PROVE  Comparisons'
<1> USE DEF Comparisons, SameBytes
<1>1. CASE Owners \/ UNCHANGED vars
  BY <1>1, OwnerSteps DEF job, vars
<1>2. CASE InitialVerification \/ FinishVariants
  BY <1>2, InitialSteps
<1>3. ASSUME NEW s \in Sides, NEW n \in Names, Redownload(s, n)
      PROVE  Comparisons'
  BY <1>3 DEF Redownload, Redownloaded, TypeOK
<1>4. ASSUME NEW s \in Sides, CollectRelease(s) \/ CollectListing(s) \/ CollectTag(s)
      PROVE  Comparisons'
  <2>1. /\ stage = "collect 1" => stage' \in {"collect 1", "compare"}
        /\ stage = "collect 2" => stage' \in {"collect 2", "decide"}
        /\ stage \in {"collect 1", "collect 2"}
    BY <1>4 DEF CollectRelease, CollectListing, CollectTag, Rounds
  <2>2. UNCHANGED <<snapshot, got, compared>>
    BY <1>4 DEF CollectRelease, CollectListing, CollectTag
  <2> QED
    BY <2>1, <2>2
<1>5. CASE CompareSnapshots \/ DecideFinal \/ EmitFinalReceipt \/ FailClosed
  BY <1>5 DEF CompareSnapshots, DecideFinal, EmitFinalReceipt, FailClosed
<1> QED
  BY <1>1, <1>2, <1>3, <1>4, <1>5 DEF Next, FinalPhase

LEMMA RevocationsStep ==
    ASSUME TypeOK, Coherence, Revocations, [Next]_vars
    PROVE  Revocations'
<1> USE DEF Revocations, ListedAgain
<1>1. CASE Owners
  <2>1. ASSUME NEW s \in Sides, NEW n \in Names, UploadAsset(s, n) \/ DeleteAsset(s, n)
        PROVE  Revocations'
    BY <2>1 DEF UploadAsset, DeleteAsset, job, Turn
  <2>2. ASSUME NEW s \in Sides, Revoke(s) \/ WithdrawRevocation(s)
        PROVE  Revocations'
    BY <2>2 DEF Revoke, WithdrawRevocation, job, Turn, TypeOK
  <2>3. ASSUME NEW s \in Sides, MoveTag(s) \/ RecreateRelease(s)
        PROVE  Revocations'
    <3>1. UNCHANGED job
      BY <2>3 DEF MoveTag, RecreateRelease
    <3>2. \A t \in Sides : standing'[t] => standing[t] /\ revoked'[t]
      BY <2>3 DEF MoveTag, RecreateRelease, TypeOK
    <3> QED
      BY <3>1, <3>2 DEF job
  <2> QED
    BY <1>1, <2>1, <2>2, <2>3 DEF Owners
<1>2. CASE InitialVerification \/ FinishVariants
  BY <1>2, InitialSteps DEF live
<1>3. ASSUME NEW s \in Sides, CollectRelease(s) PROVE Revocations'
  <2>1. position = Turn(0, s) /\ position' = position + 1
    BY <1>3 DEF CollectRelease
  <2>2. \A t \in Sides : ~(position' > Turn(2, t))
    <3> HIDE DEF Revocations, ListedAgain
    <3> QED
      BY <2>1, Turns
  <2>3. stage' = stage /\ stage \in Rounds
    BY <1>3 DEF CollectRelease
  <2>4. \A t \in Sides : standing'[t] => revoked'[t]
    BY <1>3 DEF CollectRelease, live
  <2> QED
    BY <2>2, <2>3, <2>4 DEF Rounds
<1>4. ASSUME NEW s \in Sides, CollectListing(s) PROVE Revocations'
  <2>1. \A t \in Sides : ListedAgain(t)' => ListedAgain(t) \/ t = s
    <3>1. position = Turn(2, s) /\ position' = position + 1 /\ stage' = stage
      BY <1>4 DEF CollectListing
    <3>2. ASSUME NEW t \in Sides, position' > Turn(2, t)
          PROVE  position > Turn(2, t) \/ t = s
      <4> HIDE DEF Revocations, ListedAgain
      <4> QED
        BY <3>1, <3>2, Turns DEF Turn, Sides
    <3> QED
      BY <3>1, <3>2
  <2>2. \A t \in Sides : sawRevoked'[t] = IF t = s THEN revoked[t] ELSE sawRevoked[t]
    BY <1>4 DEF CollectListing, ReadListing, TypeOK
  <2>3. UNCHANGED <<stage, revoked, standing>>
    BY <1>4 DEF CollectListing, live
  <2> HIDE DEF ListedAgain
  <2> QED
    BY <2>1, <2>2, <2>3
<1>5. ASSUME NEW s \in Sides, CollectTag(s) PROVE Revocations'
  <2>1. UNCHANGED <<revoked, sawRevoked, standing>>
    BY <1>5 DEF CollectTag, live
  <2>2. \/ stage = "collect 1" /\ stage' \in {"collect 1", "compare"}
        \/ stage = "collect 2" /\ stage' \in {"collect 2", "decide"}
    BY <1>5 DEF CollectTag, Rounds
  <2>3. \A t \in Sides : position > Turn(2, t)
    <3>1. position = Turn(4, s)
      BY <1>5 DEF CollectTag
    <3> HIDE DEF Revocations, ListedAgain
    <3> QED
      BY <3>1, Turns
  <2> QED
    BY <2>1, <2>2, <2>3
<1>6. ASSUME NEW s \in Sides, NEW n \in Names, Redownload(s, n)
      PROVE  Revocations'
  <2>1. position = 0 /\ position' = 0 /\ stage' \in {"redownload", "collect 2"}
    BY <1>6 DEF Redownload, Coherence, Rounds
  <2> QED
    <3>1. UNCHANGED <<revoked, sawRevoked, standing>>
      BY <1>6 DEF Redownload, live
    <3>2. \A t \in Sides : ~(position' > Turn(2, t))
      <4>1. position' = 0
        BY <2>1
      <4> HIDE DEF Revocations, ListedAgain
      <4> QED
        BY <4>1, Turns
    <3> QED
      BY <2>1, <3>1, <3>2
<1>7. CASE DecideFinal
  <2>1. \A s \in Sides : ~standing[s]
    BY <1>7 DEF DecideFinal, NoRevocation
  <2> QED
    BY <1>7, <2>1 DEF DecideFinal, live
<1>8. CASE CompareSnapshots \/ EmitFinalReceipt \/ FailClosed
  BY <1>8 DEF CompareSnapshots, EmitFinalReceipt, FailClosed, live
<1>9. CASE UNCHANGED vars
  BY <1>9 DEF vars, live, job, Turn
<1> QED
  BY <1>1, <1>2, <1>3, <1>4, <1>5, <1>6, <1>7, <1>8, <1>9 DEF Next, FinalPhase

LEMMA CoherenceStep ==
    ASSUME TypeOK, TypeOK', Handed, Handed', Snapshots, Coherence, [Next]_vars
    PROVE  Coherence'
<1> USE DEF Coherence
<1>1. CASE Owners
  <2>1. UNCHANGED <<job, coherent>>
    BY <1>1 DEF Owners, UploadAsset, DeleteAsset, Revoke, WithdrawRevocation,
       MoveTag, RecreateRelease
  <2>2. ASSUME NEW s \in Sides, NEW n \in Names, Lost(s, n),
               stage \in {"collect 2", "decide"}
        PROVE  Lost(s, n)'
    <3>1. snapshot[s][n] \in used
      <4>1. snapshot[s] \in [Names -> AssetId]
        BY <2>2 DEF Snapshots, Settled
      <4>2. snapshot[s][n] # None
        BY <4>1, BytesAssumption
      <4> QED
        BY <4>2 DEF Handed
    <3>2. asset'[s][n] \in {asset[s][n], None} \cup (AssetId \ used)
      <4>1. asset \in [Sides -> [Names -> AssetId \cup {None}]]
        BY DEF TypeOK
      <4>2. ASSUME NEW t \in Sides, NEW m \in Names,
                   UploadAsset(t, m) \/ DeleteAsset(t, m)
            PROVE  asset'[s][n] \in {asset[s][n], None} \cup (AssetId \ used)
        <5>1. PICK i \in {None} \cup (AssetId \ used) : asset' = [asset EXCEPT ![t][m] = i]
          BY <4>2 DEF UploadAsset, DeleteAsset
        <5>2. asset'[s][n] = IF s = t /\ n = m THEN i ELSE asset[s][n]
          BY <5>1, <4>1 DEF TypeOK
        <5> QED
          BY <5>1, <5>2
      <4>3. ASSUME NEW t \in Sides, RecreateRelease(t)
            PROVE  asset'[s][n] \in {asset[s][n], None}
        BY <4>3 DEF RecreateRelease, Blank, TypeOK
      <4>4. ASSUME NEW t \in Sides, Revoke(t) \/ WithdrawRevocation(t) \/ MoveTag(t)
            PROVE  asset' = asset
        BY <4>4 DEF Revoke, WithdrawRevocation, MoveTag
      <4> QED
        BY <1>1, <4>2, <4>3, <4>4 DEF Owners
    <3>3. snapshot[s][n] # None
      BY <3>1, BytesAssumption DEF TypeOK
    <3>4. asset'[s][n] # snapshot[s][n]
      BY <2>2, <3>1, <3>2, <3>3 DEF Lost
    <3> QED
      BY <2>1, <2>2, <3>4 DEF Lost, ListedAgain, job
  <2> QED
    BY <2>1, <2>2 DEF job
<1>2. CASE InitialVerification \/ FinishVariants
  BY <1>2, InitialSteps DEF Rounds
<1>3. ASSUME NEW s \in Sides, CollectRelease(s) PROVE Coherence'
  <2>1. UNCHANGED <<stage, asset, snapshot, listing, coherent>>
    BY <1>3 DEF CollectRelease, live
  <2>2. stage \in Rounds
    BY <1>3 DEF CollectRelease
  <2>3. \A t \in Sides : ~(position' > Turn(2, t))
    <3>1. position = Turn(0, s) /\ position' = position + 1
      BY <1>3 DEF CollectRelease
    <3> HIDE DEF Coherence
    <3> QED
      BY <3>1, Turns
  <2> QED
    BY <2>1, <2>2, <2>3 DEF Rounds, Lost, ListedAgain
<1>4. ASSUME NEW s \in Sides, CollectListing(s) PROVE Coherence'
  <2>1. /\ UNCHANGED <<stage, asset, snapshot, coherent>>
        /\ stage \in Rounds
        /\ listing' = [listing EXCEPT ![s] = asset[s]]
    BY <1>4 DEF CollectListing, ReadListing, live
  <2>2. \A t \in Sides : ListedAgain(t)' => ListedAgain(t) \/ t = s
    <3>1. position = Turn(2, s) /\ position' = position + 1 /\ stage' = stage
      BY <1>4 DEF CollectListing
    <3>2. ASSUME NEW t \in Sides, position' > Turn(2, t)
          PROVE  position > Turn(2, t) \/ t = s
      <4> HIDE DEF Coherence
      <4> QED
        BY <3>1, <3>2, Turns DEF Turn, Sides
    <3> QED
      BY <3>1, <3>2 DEF ListedAgain
  <2>3. ASSUME NEW t \in Sides, NEW n \in Names, Lost(t, n) PROVE Lost(t, n)'
    BY <2>1, <2>2, <2>3 DEF Lost, TypeOK
  <2> QED
    BY <2>1, <2>3 DEF Rounds
<1>5. ASSUME NEW s \in Sides, CollectTag(s) PROVE Coherence'
  <2>1. UNCHANGED <<asset, listing, snapshot, coherent>>
    BY <1>5 DEF CollectTag, live
  <2>2. \/ stage = "collect 1" /\ stage' \in {"collect 1", "compare"}
        \/ stage = "collect 2" /\ stage' \in {"collect 2", "decide"}
    BY <1>5 DEF CollectTag, Rounds
  <2>3. \A t \in Sides : position > Turn(2, t)
    <3>1. position = Turn(4, s)
      BY <1>5 DEF CollectTag
    <3> HIDE DEF Coherence
    <3> QED
      BY <3>1, Turns
  <2>4. stage' \notin Rounds => position' = 0
    BY <1>5 DEF CollectTag, Rounds, Sides
  <2> QED
    BY <2>1, <2>2, <2>3, <2>4 DEF Lost, ListedAgain, Rounds
<1>6. ASSUME NEW s \in Sides, NEW n \in Names, Redownload(s, n)
      PROVE  Coherence'
  <2>1. position = 0 /\ position' = 0 /\ stage' \in {"redownload", "collect 2"}
    BY <1>6 DEF Redownload, Rounds
  <2>2. UNCHANGED <<asset, snapshot>>
    BY <1>6 DEF Redownload, live
  <2>3. ASSUME stage' = "collect 2", ~coherent'
        PROVE  \E t \in Sides : \E m \in Names : Lost(t, m)'
    <3>1. Redownloaded(compared')
      BY <1>6, <2>3 DEF Redownload
    <3>2. asset # snapshot
      BY <1>6, <2>3, <3>1 DEF Redownload
    <3>3. PICK t \in Sides : asset[t] # snapshot[t]
      <4>1. /\ asset = [t \in Sides |-> asset[t]]
            /\ snapshot = [t \in Sides |-> snapshot[t]]
        BY DEF TypeOK
      <4> QED
        BY <3>2, <4>1, Zenon
    <3>4. /\ asset[t] \in [Names -> AssetId \cup {None}]
          /\ snapshot[t] \in [Names -> AssetId]
      BY <1>6 DEF TypeOK, Snapshots, Settled, Redownload
    <3>5. PICK m \in Names : asset[t][m] # snapshot[t][m]
      <4>1. /\ asset[t] = [m \in Names |-> asset[t][m]]
            /\ snapshot[t] = [m \in Names |-> snapshot[t][m]]
        BY <3>4
      <4> QED
        BY <3>3, <4>1, Zenon
    <3>6. ~ListedAgain(t)'
      <4>1. position' = 0 /\ stage' # "decide"
        BY <2>1, <2>3
      <4> HIDE DEF Coherence
      <4> QED
        BY <4>1, Turns DEF ListedAgain
    <3> QED
      BY <2>2, <3>5, <3>6 DEF Lost
  <2> QED
    BY <2>1, <2>3
<1>7. CASE DecideFinal
  <2>1. /\ stage = "decide" /\ stage' = "receipt"
        /\ UNCHANGED <<asset, listing, snapshot, coherent, position>>
    BY <1>7 DEF DecideFinal, live
  <2>2. listing = snapshot
    BY <1>7 DEF DecideFinal, SnapshotUnchanged, TypeOK
  <2>3. coherent
    BY <2>1, <2>2 DEF Lost, ListedAgain
  <2> QED
    BY <2>1, <2>2, <2>3 DEF Rounds
<1>8. CASE CompareSnapshots \/ EmitFinalReceipt \/ FailClosed
  BY <1>8 DEF CompareSnapshots, EmitFinalReceipt, FailClosed, live, Rounds
<1>9. CASE UNCHANGED vars
  BY <1>9 DEF vars, live, job, Lost, ListedAgain
<1> QED
  BY <1>1, <1>2, <1>3, <1>4, <1>5, <1>6, <1>7, <1>8, <1>9 DEF Next, FinalPhase

LEMMA Invariance == Spec => []IInv
<1>1. Init => Handed /\ Snapshots /\ Comparisons /\ Coherence /\ Revocations
  <2> SUFFICES ASSUME Init
               PROVE  Handed /\ Snapshots /\ Comparisons /\ Coherence /\ Revocations
    OBVIOUS
  <2>1. Handed
    <3>1. asset \in [Sides -> [Names -> AssetId]]
      BY DEF Init
    <3>2. used = {i \in AssetId : \E s \in Sides : \E n \in Names : asset[s][n] = i}
      BY DEF Init
    <3>3. \A s \in Sides : \A n \in Names : listing[s][n] = None /\ snapshot[s][n] = None
      BY DEF Init, Blank
    <3> QED
      BY <3>1, <3>2, <3>3 DEF Handed
  <2>2. Snapshots
    BY DEF Init, Snapshots, Settled
  <2>3. Comparisons
    BY DEF Init, Comparisons
  <2>4. Coherence
    BY DEF Init, Coherence
  <2>5. Revocations
    BY DEF Init, Revocations
  <2> QED
    BY <2>1, <2>2, <2>3, <2>4, <2>5
<1>2. TypeOK /\ TypeOK' /\ IInv /\ [Next]_vars => IInv'
  BY HandedStep, SnapshotsStep, ComparisonsStep, CoherenceStep, RevocationsStep
  DEF IInv
<1> QED
  BY <1>1, <1>2, TypeCorrect, PTL DEF Spec, IInv

(* An accepted run verified exactly the bytes its final receipt lists. *)
THEOREM BytesAreCertified == Spec => []CertifiedBytes
<1>1. IInv => CertifiedBytes
  <2> SUFFICES ASSUME IInv, stage = "accepted", NEW s \in Sides, NEW n \in Names
               PROVE  listing[s][n] # None /\ got[s][n] = Bytes[listing[s][n]]
    BY DEF CertifiedBytes
  <2>1. listing = snapshot
    BY DEF IInv, Coherence
  <2>2. snapshot[s][n] \in AssetId
    BY DEF IInv, Snapshots, Settled
  <2>3. SameBytes(s, n)
    BY DEF IInv, Comparisons
  <2> QED
    BY <2>1, <2>2, <2>3, BytesAssumption DEF SameBytes
<1> QED
  BY <1>1, Invariance, PTL

(* Two releases read one after the other are certified at one moment. *)
THEOREM SnapshotIsCoherent == Spec => []CoherentSnapshot
<1>1. IInv => CoherentSnapshot
  BY DEF IInv, Coherence, CoherentSnapshot
<1> QED
  BY <1>1, Invariance, PTL

(* A revocation that stands throughout the final phase stops the job. *)
THEOREM StandingRevocationSeen == Spec => []NoStandingRevocation
<1>1. IInv => NoStandingRevocation
  BY DEF IInv, Revocations, NoStandingRevocation
<1> QED
  BY <1>1, Invariance, PTL
=============================================================================
