---------------------------- MODULE DeliveryProofs ----------------------------
(***************************************************************************)
(* For every set of files and release IDs and any number of attempts and   *)
(* changes: a reported acceptance is sealed, and Delivery implements       *)
(* DurableEvidence.                                                        *)
(*                                                                         *)
(* GitHub seals a release for good, whoever acts (Effect, SealsStay); the  *)
(* stages of persist_mode accumulate what they have read of the sealed     *)
(* release (Read), which therefore stays true until it is reported.        *)
(***************************************************************************)
EXTENDS Delivery, TLAPS

(* What one step does to the releases and tags. *)
Drafted(i, t) ==
    /\ tag[i] = None
    /\ tag' = [tag EXCEPT ![i] = t]
    /\ draft' = [draft EXCEPT ![i] = TRUE]
    /\ UNCHANGED <<immutable, asset, commit>>

Filled(i) ==
    /\ ~immutable[i]
    /\ asset' \in [ReleaseId -> [Name -> Content]]
    /\ \A j \in ReleaseId \ {i} : asset'[j] = asset[j]
    /\ UNCHANGED <<tag, draft, immutable, commit>>

Issued(i) == PublishRelease(i) /\ UNCHANGED <<tag, asset>>

Withdrawn(i) ==
    /\ tag[i] # None /\ ~draft[i] /\ ~immutable[i]
    /\ draft' = [draft EXCEPT ![i] = TRUE]
    /\ UNCHANGED <<tag, immutable, asset, commit>>

Moved(a) ==
    /\ ~Sealed(a)
    /\ commit' = [commit EXCEPT ![a] = "other"]
    /\ UNCHANGED <<tag, draft, immutable, asset>>

Still == UNCHANGED <<tag, draft, immutable, asset, commit>>

Effect ==
    /\ enabled' \in BOOLEAN
    /\ \/ Still
       \/ \E i \in ReleaseId, t \in Attempt : Drafted(i, t)
       \/ \E i \in ReleaseId : Filled(i) \/ Issued(i) \/ Withdrawn(i)
       \/ \E a \in Attempt : Moved(a)

GitHubTypes ==
    /\ tag \in [ReleaseId -> Attempt \cup {None}]
    /\ draft \in [ReleaseId -> BOOLEAN]
    /\ immutable \in [ReleaseId -> BOOLEAN]
    /\ asset \in [ReleaseId -> [Name -> Content]]
    /\ commit \in [Attempt -> {"ours", "other", None}]
    /\ enabled \in BOOLEAN

Drafts == \A i \in ReleaseId : draft[i] => tag[i] # None

SealsHold == \A i \in ReleaseId : immutable[i] => tag[i] # None /\ ~draft[i]

OneForATag ==
    \A i, j \in ReleaseId :
        tag[i] # None /\ tag[i] = tag[j] /\ ~draft[i] /\ ~draft[j] => i = j

GitHubOK == GitHubTypes /\ Drafts /\ SealsHold /\ OneForATag

(* The release that is worked on and the attempt that signed it. *)
AtRelease == PersistStages \ {"check", "lookup"}

Position ==
    /\ stage \in PersistStages /\ attempt \in artifacts => signed = attempt
    /\ stage \in PersistStages \ {"check"} => signed = attempt
    /\ stage \in AtRelease => rid \in ReleaseId /\ tag[rid] = attempt

(* What the last checks of persist_mode have established. *)
Relisted == {"recheck published", "relist", "expose"}
Resolved == Relisted \cup {"download"}
Known == Resolved \cup {"tag"}
Immutable == Known \cup {"list published"}

Read ==
    /\ stage \in Immutable => immutable[rid]
    /\ stage \in Known => seen = asset[rid] /\ ExactNames(seen)
    /\ stage \in Resolved => commit[attempt] = "ours"
    /\ stage \in Relisted => \A f \in File : SameBytes(f)

(* The outputs that a callback finds are those of a reported acceptance. *)
Reported(o) == o \in [tag : Attempt, digest : Attempt] /\ o.digest \in reported

OutputsOK ==
    /\ outputs # None => Reported(outputs)
    /\ stage = "callback" => Reported(outputs)

IInv ==
    /\ TypeOK
    /\ GitHubOK
    /\ Position
    /\ Read
    /\ OutputsOK
    /\ ReportedIsSealed

-----------------------------------------------------------------------------

(* Releases, assets and tags keep their types. *)
LEMMA EffectTypes == ASSUME GitHubTypes, Drafts, Effect PROVE GitHubTypes'
<1>0. enabled' \in BOOLEAN
  BY DEF Effect
<1>1. CASE Still
  BY <1>0, <1>1 DEF GitHubTypes, Still
<1>2. ASSUME NEW i \in ReleaseId, NEW t \in Attempt, Drafted(i, t) PROVE GitHubTypes'
  BY <1>0, <1>2 DEF GitHubTypes, Drafted
<1>3. ASSUME NEW i \in ReleaseId, Filled(i) PROVE GitHubTypes'
  BY <1>0, <1>3 DEF GitHubTypes, Filled
<1>4. ASSUME NEW i \in ReleaseId, Issued(i) PROVE GitHubTypes'
  <2>1. tag[i] \in Attempt
    BY <1>4 DEF Issued, PublishRelease, Drafts, GitHubTypes
  <2>2. immutable' \in [ReleaseId -> BOOLEAN] /\ draft' \in [ReleaseId -> BOOLEAN]
    BY <1>4 DEF Issued, PublishRelease, GitHubTypes
  <2>3. commit' \in [Attempt -> {"ours", "other", None}]
    BY <1>4, <2>1 DEF Issued, PublishRelease, GitHubTypes
  <2> QED BY <1>0, <1>4, <2>2, <2>3 DEF Issued, GitHubTypes
<1>5. ASSUME NEW i \in ReleaseId, Withdrawn(i) PROVE GitHubTypes'
  BY <1>0, <1>5 DEF GitHubTypes, Withdrawn
<1>6. ASSUME NEW a \in Attempt, Moved(a) PROVE GitHubTypes'
  BY <1>0, <1>6 DEF GitHubTypes, Moved
<1> QED
  BY <1>1, <1>2, <1>3, <1>4, <1>5, <1>6 DEF Effect

(* A draft has a tag, a sealed release is published, and at most one release
   is published for a tag. *)
LEMMA EffectKeepsGitHub == ASSUME GitHubOK, Effect PROVE GitHubOK'
<1>0. GitHubTypes'
  BY EffectTypes DEF GitHubOK
<1>1. CASE Still
  BY <1>0, <1>1 DEF GitHubOK, Still, Drafts, SealsHold, OneForATag
<1>2. ASSUME NEW i \in ReleaseId, NEW t \in Attempt, Drafted(i, t) PROVE GitHubOK'
  <2>1. t # None
    BY MarksAssumption, BoundsAssumption
    DEF Attempt, MarksAssumption, BoundsAssumption
  <2>2. \A j \in ReleaseId : /\ tag'[j] = IF j = i THEN t ELSE tag[j]
                             /\ draft'[j] = IF j = i THEN TRUE ELSE draft[j]
                             /\ immutable'[j] = immutable[j]
    BY <1>2 DEF Drafted, GitHubOK, GitHubTypes
  <2>3. ~immutable[i]
    BY <1>2 DEF Drafted, GitHubOK, SealsHold
  <2>4. Drafts' /\ SealsHold'
    BY <2>1, <2>2, <2>3 DEF GitHubOK, Drafts, SealsHold
  <2>5. OneForATag'
    BY <2>2 DEF GitHubOK, OneForATag
  <2> QED BY <1>0, <2>4, <2>5 DEF GitHubOK
<1>3. ASSUME NEW i \in ReleaseId, Filled(i) PROVE GitHubOK'
  BY <1>0, <1>3 DEF GitHubOK, Filled, Drafts, SealsHold, OneForATag
<1>4. ASSUME NEW i \in ReleaseId, Issued(i) PROVE GitHubOK'
  <2>1. tag' = tag /\ tag[i] # None
    BY <1>4 DEF Issued, PublishRelease, GitHubOK, Drafts
  <2>2. \A j \in ReleaseId : /\ draft'[j] = IF j = i THEN FALSE ELSE draft[j]
                             /\ j # i => immutable'[j] = immutable[j]
    BY <1>4 DEF Issued, PublishRelease, GitHubOK, GitHubTypes
  <2>3. \A j \in ReleaseId : ~(tag[j] = tag[i] /\ ~draft[j])
    BY <1>4 DEF Issued, PublishRelease, Taken, Published
  <2>4. Drafts' /\ SealsHold'
    BY <2>1, <2>2 DEF GitHubOK, Drafts, SealsHold
  <2>5. OneForATag'
    BY <2>1, <2>2, <2>3 DEF GitHubOK, OneForATag
  <2> QED BY <1>0, <2>4, <2>5 DEF GitHubOK
<1>5. ASSUME NEW i \in ReleaseId, Withdrawn(i) PROVE GitHubOK'
  <2>1. tag' = tag /\ immutable' = immutable /\ tag[i] # None /\ ~immutable[i]
    BY <1>5 DEF Withdrawn
  <2>2. \A j \in ReleaseId : draft'[j] = IF j = i THEN TRUE ELSE draft[j]
    BY <1>5 DEF Withdrawn, GitHubOK, GitHubTypes
  <2> QED
    BY <1>0, <2>1, <2>2 DEF GitHubOK, Drafts, SealsHold, OneForATag
<1>6. ASSUME NEW a \in Attempt, Moved(a) PROVE GitHubOK'
  BY <1>0, <1>6 DEF GitHubOK, Moved, Drafts, SealsHold, OneForATag
<1> QED
  BY <1>1, <1>2, <1>3, <1>4, <1>5, <1>6 DEF Effect

(* A sealed release keeps its tag, its assets and the commit of its tag. *)
LEMMA SealsStay ==
    ASSUME GitHubOK, Effect, NEW r \in ReleaseId, immutable[r]
    PROVE  /\ immutable'[r] /\ tag'[r] = tag[r] /\ ~draft'[r]
           /\ asset'[r] = asset[r]
           /\ commit'[tag[r]] = commit[tag[r]]
<1>0. tag[r] # None /\ ~draft[r]
  BY DEF GitHubOK, SealsHold
<1>1. CASE Still
  BY <1>0, <1>1 DEF Still
<1>2. ASSUME NEW i \in ReleaseId, NEW t \in Attempt, Drafted(i, t)
      PROVE  /\ immutable'[r] /\ tag'[r] = tag[r] /\ ~draft'[r]
             /\ asset'[r] = asset[r] /\ commit'[tag[r]] = commit[tag[r]]
  BY <1>0, <1>2 DEF Drafted, GitHubOK, GitHubTypes
<1>3. ASSUME NEW i \in ReleaseId, Filled(i)
      PROVE  /\ immutable'[r] /\ tag'[r] = tag[r] /\ ~draft'[r]
             /\ asset'[r] = asset[r] /\ commit'[tag[r]] = commit[tag[r]]
  BY <1>0, <1>3 DEF Filled
<1>4. ASSUME NEW i \in ReleaseId, Issued(i)
      PROVE  /\ immutable'[r] /\ tag'[r] = tag[r] /\ ~draft'[r]
             /\ asset'[r] = asset[r] /\ commit'[tag[r]] = commit[tag[r]]
  <2>1. i # r /\ tag[i] # tag[r]
    BY <1>0, <1>4 DEF Issued, PublishRelease, Taken, Published
  <2>2. immutable'[r] = immutable[r] /\ draft'[r] = draft[r]
    BY <1>4, <2>1 DEF Issued, PublishRelease, GitHubOK, GitHubTypes
  <2>3. tag[r] \in Attempt
    BY <1>0 DEF GitHubOK, GitHubTypes
  <2>4. commit'[tag[r]] = commit[tag[r]]
    BY <1>4, <2>1, <2>3 DEF Issued, PublishRelease, GitHubOK, GitHubTypes
  <2> QED BY <1>0, <1>4, <2>2, <2>4 DEF Issued
<1>5. ASSUME NEW i \in ReleaseId, Withdrawn(i)
      PROVE  /\ immutable'[r] /\ tag'[r] = tag[r] /\ ~draft'[r]
             /\ asset'[r] = asset[r] /\ commit'[tag[r]] = commit[tag[r]]
  BY <1>0, <1>5 DEF Withdrawn, GitHubOK, GitHubTypes
<1>6. ASSUME NEW a \in Attempt, Moved(a)
      PROVE  /\ immutable'[r] /\ tag'[r] = tag[r] /\ ~draft'[r]
             /\ asset'[r] = asset[r] /\ commit'[tag[r]] = commit[tag[r]]
  <2>1. a # tag[r]
    BY <1>0, <1>6 DEF Moved, Sealed, Seals, Published
  <2> QED BY <1>0, <1>6, <2>1 DEF Moved, GitHubOK, GitHubTypes
<1> QED
  BY <1>1, <1>2, <1>3, <1>4, <1>5, <1>6 DEF Effect

(* Once it has one, a release keeps its tag. *)
LEMMA TagsStay ==
    ASSUME GitHubOK, Effect, NEW r \in ReleaseId, tag[r] # None
    PROVE  tag'[r] = tag[r]
<1>1. ASSUME NEW i \in ReleaseId, NEW t \in Attempt, Drafted(i, t)
      PROVE  tag'[r] = tag[r]
  BY <1>1 DEF Drafted, GitHubOK, GitHubTypes
<1> QED
  BY <1>1 DEF Effect, Still, Filled, Issued, Withdrawn, Moved

-----------------------------------------------------------------------------
(* The rest of the type invariant: the owner marks, the run and its job. *)
JobTypes ==
    /\ owner \in [ReleaseId -> Attempt \cup {Foreign, None}]
    /\ changes \in 0..MaxChanges
    /\ attempt \in Attempt
    /\ artifacts \subseteq 1..attempt
    /\ signed \in Attempt \cup {None}
    /\ outputs \in [tag : Attempt, digest : Attempt] \cup {None}
    /\ stage \in PersistStages \cup {"verify", "callback"} \cup Over
    /\ rid \in ReleaseId \cup {None}
    /\ wasDraft \in BOOLEAN
    /\ seen \in [Name -> Content]
    /\ kept \in [Name -> Content]
    /\ todo \subseteq File
    /\ reported \subseteq Attempt
    /\ promoted \subseteq Attempt
    /\ calm \in BOOLEAN

LEMMA TypesSplit == TypeOK <=> GitHubTypes /\ JobTypes
BY DEF TypeOK, GitHubTypes, JobTypes

LEMMA TypesSplitNext == TypeOK' <=> GitHubTypes' /\ JobTypes'
BY DEF TypeOK, GitHubTypes, JobTypes

LEMMA Marks ==
    /\ None \notin Attempt /\ Foreign \notin Attempt /\ Broken \notin Attempt
    /\ None # Foreign /\ None # Broken
    /\ None \in Content /\ Foreign \in Content /\ Broken \in Content
    /\ Attempt \subseteq Content
    /\ None \notin ReleaseId
<1>1. Attempt \subseteq Nat
  BY BoundsAssumption DEF Attempt, BoundsAssumption
<1> QED BY <1>1, MarksAssumption DEF MarksAssumption, Content

(* What every action of the job needs to know before it. *)
Before == JobTypes /\ GitHubOK /\ Position /\ Read /\ OutputsOK

(* What every action must establish besides what Effect implies. *)
After == JobTypes' /\ Position' /\ Read' /\ OutputsOK'

(* Every step changes the releases and tags in one of the ways of Effect. *)
LEMMA OthersEffect == ASSUME Before, Others PROVE Effect
<1> USE Marks
<1>0. enabled \in BOOLEAN /\ artifacts \subseteq Attempt
  <2>1. 1..attempt \subseteq 1..MaxAttempts
    BY BoundsAssumption DEF Before, JobTypes, Attempt, BoundsAssumption
  <2> QED BY <2>1 DEF Before, GitHubOK, GitHubTypes, JobTypes, Attempt
<1>1. ASSUME NEW i \in ReleaseId, NEW a \in Attempt, NEW o,
             PlantDraft(i, a, o)
      PROVE  Effect
  <2>1. Drafted(i, a) /\ enabled' = enabled
    BY <1>1 DEF PlantDraft, NewDraft, Drafted
  <2> QED BY <1>0, <2>1 DEF Effect
<1>2. ASSUME NEW i \in ReleaseId, NEW n \in Name,
             NEW c \in artifacts \cup {None, Foreign}, ReplaceAsset(i, n, c)
      PROVE  Effect
  <2>1. c \in Content
    BY <1>0
  <2>2. /\ asset' \in [ReleaseId -> [Name -> Content]]
        /\ \A j \in ReleaseId \ {i} : asset'[j] = asset[j]
    BY <1>2, <2>1 DEF ReplaceAsset, Before, GitHubOK, GitHubTypes
  <2>3. Filled(i) /\ enabled' = enabled
    BY <1>2, <2>2 DEF ReplaceAsset, Filled
  <2> QED BY <1>0, <2>3 DEF Effect
<1>3. ASSUME NEW i \in ReleaseId, EditNotes(i) PROVE Effect
  BY <1>0, <1>3 DEF EditNotes, Effect, Still
<1>4. ASSUME NEW i \in ReleaseId, PublishByHand(i) PROVE Effect
  BY <1>0, <1>4 DEF PublishByHand, Effect, Issued
<1>5. ASSUME NEW i \in ReleaseId, Unpublish(i) PROVE Effect
  BY <1>0, <1>5 DEF Unpublish, Effect, Withdrawn
<1>6. ASSUME NEW a \in Attempt, MoveTag(a) PROVE Effect
  BY <1>0, <1>6 DEF MoveTag, Effect, Moved
<1>7. CASE SwitchImmutability
  BY <1>0, <1>7 DEF SwitchImmutability, Effect, Still
<1> QED
  BY <1>1, <1>2, <1>3, <1>4, <1>5, <1>6, <1>7 DEF Others

(* A step that leaves the job alone leaves what it has read true. *)
LEMMA LeftAlone ==
    ASSUME Before, Effect, UNCHANGED <<workflow, stage, local, reported>>
    PROVE  Position' /\ Read' /\ OutputsOK'
<1>1. Position'
  <2>1. stage \in AtRelease => tag'[rid] = tag[rid]
    BY TagsStay, Marks DEF Before, Position, JobTypes
  <2> QED BY <2>1 DEF Before, Position, workflow, local
<1>2. Read'
  <2>1. CASE stage \in Immutable
    <3>1. rid \in ReleaseId /\ immutable[rid] /\ tag[rid] = attempt
      BY <2>1 DEF Before, Position, Read, AtRelease, Immutable, Known, Resolved,
                  Relisted, PersistStages
    <3>2. /\ immutable'[rid] /\ asset'[rid] = asset[rid]
          /\ commit'[attempt] = commit[attempt]
      BY <3>1, SealsStay DEF Before
    <3> QED BY <3>2 DEF Before, Read, workflow, local, SameBytes, ExactNames
  <2>2. CASE stage \notin Immutable
    BY <2>2 DEF Read, Immutable, Known, Resolved
  <2> QED BY <2>1, <2>2
<1>3. OutputsOK'
  BY DEF Before, OutputsOK, Reported, workflow
<1> QED BY <1>1, <1>2, <1>3

LEMMA OthersKeep == ASSUME Before, Others PROVE After
<1>1. UNCHANGED <<workflow, stage, local, reported, promoted>> /\ Change
  BY DEF Others, PlantDraft, ReplaceAsset, EditNotes, PublishByHand, Unpublish,
         MoveTag, SwitchImmutability, Change
<1>2. Position' /\ Read' /\ OutputsOK'
  BY <1>1, OthersEffect, LeftAlone
<1>3. owner' \in [ReleaseId -> Attempt \cup {Foreign, None}]
  BY DEF Others, PlantDraft, NewDraft, ReplaceAsset, EditNotes, PublishByHand,
         PublishRelease, Unpublish, MoveTag, SwitchImmutability, Before, JobTypes
<1>4. changes' \in 0..MaxChanges /\ calm' \in BOOLEAN
  <2>1. changes \in 0..MaxChanges /\ MaxChanges \in Nat
    BY BoundsAssumption DEF Before, JobTypes, BoundsAssumption
  <2>2. changes < MaxChanges /\ changes' = changes + 1 /\ calm' = FALSE
    BY <1>1 DEF Change
  <2>3. changes' \in 0..MaxChanges
    BY <2>1, <2>2
  <2>4. calm' \in BOOLEAN
    BY <2>2
  <2> QED BY <2>3, <2>4
<1>5. JobTypes'
  BY <1>1, <1>3, <1>4 DEF Before, JobTypes, workflow, local
<1> QED BY <1>2, <1>5 DEF After

-----------------------------------------------------------------------------
(* A step that only reads. *)
LEMMA ReadsEffect == ASSUME GitHubOK, NEW next, Reads(next) PROVE Effect
BY DEF Reads, Effect, Still, github, GitHubOK, GitHubTypes

(* A step that reads, moves on to a known stage and keeps local types. *)
LEMMA ReadsTypes ==
    ASSUME Before, NEW next \in PersistStages, Reads(next),
           rid' \in ReleaseId \cup {None}, wasDraft' \in BOOLEAN,
           seen' \in [Name -> Content], kept' \in [Name -> Content],
           todo' \subseteq File
    PROVE  JobTypes'
BY DEF Before, JobTypes, Reads, github, workflow

LEMMA LocalTypes ==
    ASSUME Before, NEW next \in PersistStages, Reads(next), UNCHANGED local
    PROVE  JobTypes'
<1>1. /\ rid' \in ReleaseId \cup {None} /\ wasDraft' \in BOOLEAN
      /\ seen' \in [Name -> Content] /\ kept' \in [Name -> Content]
      /\ todo' \subseteq File
  BY DEF Before, JobTypes, local
<1> QED BY <1>1, ReadsTypes

LEMMA OutputsStay ==
    ASSUME Before, UNCHANGED <<outputs, reported>>, stage' # "callback"
    PROVE  OutputsOK'
BY DEF Before, OutputsOK, Reported

(* A job that has ended, or that has not yet looked at a release. *)
LEMMA JobOver ==
    ASSUME stage' \notin PersistStages PROVE Position' /\ Read'
BY DEF Position, Read, AtRelease, Immutable, Known, Resolved, Relisted, PersistStages

LEMMA JobBegins ==
    ASSUME stage' = "check", attempt' \notin artifacts' PROVE Position' /\ Read'
BY DEF Position, Read, AtRelease, Immutable, Known, Resolved, Relisted, PersistStages

LEMMA VerifyKeeps == ASSUME Before, VerifySucceeds PROVE Effect /\ After
<1>1. /\ stage' \in {"check", "failed"} /\ calm' \in BOOLEAN
      /\ signed' = (IF stage' = "check" THEN attempt ELSE None)
  BY DEF VerifySucceeds, Answered, EvidenceTag, Before, JobTypes
<1>2. UNCHANGED <<github, changes, attempt, outputs, local, reported, promoted>>
  BY DEF VerifySucceeds
<1>3. Effect
  BY <1>2 DEF Effect, Still, github, Before, GitHubOK, GitHubTypes
<1>4. artifacts' \subseteq 1..attempt'
  <2>1. attempt \in 1..attempt
    BY BoundsAssumption DEF Before, JobTypes, Attempt, BoundsAssumption
  <2> QED BY <1>2, <2>1 DEF VerifySucceeds, Before, JobTypes
<1>5. JobTypes'
  BY <1>1, <1>2, <1>4 DEF Before, JobTypes, github, local, PersistStages, Over
<1>6. Position' /\ Read'
  BY <1>1, <1>2 DEF Position, Read, AtRelease, Immutable, Known, Resolved,
                    Relisted, PersistStages
<1>7. OutputsOK'
  BY <1>1, <1>2, OutputsStay
<1> QED BY <1>3, <1>5, <1>6, <1>7 DEF After

LEMMA CheckKeeps == ASSUME Before, CheckEvidence PROVE Effect /\ After
<1>1. Reads("lookup") /\ UNCHANGED local /\ attempt \in artifacts /\ stage = "check"
  BY DEF CheckEvidence
<1>2. Effect /\ JobTypes'
  BY <1>1, ReadsEffect, LocalTypes DEF Before, PersistStages
<1>3. stage' = "lookup" /\ UNCHANGED <<workflow, reported>>
  BY <1>1 DEF Reads
<1>4. signed = attempt
  BY <1>1 DEF Before, Position, PersistStages
<1>5. Position' /\ Read'
  BY <1>3, <1>4 DEF Position, Read, AtRelease, Immutable, Known, Resolved,
                    Relisted, workflow
<1>6. OutputsOK'
  BY <1>3, OutputsStay DEF workflow
<1> QED BY <1>2, <1>5, <1>6 DEF After

LEMMA FindKeeps ==
    ASSUME Before, NEW i \in ReleaseId, FindRelease(i) PROVE Effect /\ After
<1>1. /\ Reads("list") /\ stage = "lookup" /\ tag[i] = signed
      /\ rid' = i /\ wasDraft' = draft[i] /\ UNCHANGED <<seen, kept, todo>>
  BY DEF FindRelease
<1>2. draft[i] \in BOOLEAN
  BY DEF Before, GitHubOK, GitHubTypes
<1>3. Effect /\ JobTypes'
  <2>1. /\ seen' \in [Name -> Content] /\ kept' \in [Name -> Content]
        /\ todo' \subseteq File /\ rid' \in ReleaseId \cup {None} /\ wasDraft' \in BOOLEAN
    BY <1>1, <1>2 DEF Before, JobTypes
  <2>2. "list" \in PersistStages
    BY DEF PersistStages
  <2> QED BY <1>1, <2>1, <2>2, ReadsEffect, ReadsTypes DEF Before
<1>4. stage' = "list" /\ UNCHANGED <<workflow, reported, tag>>
  BY <1>1 DEF Reads, github
<1>5. signed = attempt
  BY <1>1 DEF Before, Position, PersistStages
<1>6. Position' /\ Read'
  BY <1>1, <1>4, <1>5 DEF Position, Read, Immutable, Known, Resolved, Relisted, workflow
<1>7. OutputsOK'
  BY <1>4, OutputsStay DEF workflow
<1> QED BY <1>3, <1>6, <1>7 DEF After

LEMMA CreateKeeps ==
    ASSUME Before, NEW i \in ReleaseId, CreateDraft(i) PROVE Effect /\ After
<1>1. /\ stage' \in {"list", "failed"} /\ calm' \in BOOLEAN
      /\ rid' = i /\ wasDraft' = TRUE /\ stage = "lookup"
  BY DEF CreateDraft, Before, JobTypes, Taken, Published
<1>2. UNCHANGED <<immutable, asset, commit, enabled, changes, workflow, seen,
                  kept, todo, reported, promoted>>
  BY DEF CreateDraft
<1>3. signed = attempt /\ attempt \in Attempt
  BY <1>1 DEF Before, Position, PersistStages, JobTypes
<1>4. NewDraft(i, attempt, attempt)
  BY <1>3 DEF CreateDraft
<1>5. Effect
  BY <1>2, <1>3, <1>4 DEF NewDraft, Effect, Drafted, Before, GitHubOK, GitHubTypes
<1>6. JobTypes'
  <2>1. owner' \in [ReleaseId -> Attempt \cup {Foreign, None}]
    BY <1>3, <1>4 DEF NewDraft, Before, JobTypes
  <2> QED
    BY <1>1, <1>2, <2>1 DEF Before, JobTypes, workflow, PersistStages, Over
<1>7. tag'[i] = attempt
  BY <1>4 DEF NewDraft, Before, GitHubOK, GitHubTypes
<1>8. Position' /\ Read'
  BY <1>1, <1>2, <1>3, <1>7 DEF Position, Read, AtRelease, Immutable, Known,
                                Resolved, Relisted, PersistStages, workflow
<1>9. OutputsOK'
  BY <1>1, <1>2, OutputsStay DEF workflow
<1> QED BY <1>5, <1>6, <1>8, <1>9 DEF After

(* The stages between two reads of the same release. *)
LEMMA ListedSees ==
    ASSUME Before, NEW next, Listed(next), stage \in AtRelease
    PROVE  seen' = asset[rid] /\ seen' \in [Name -> Content] /\ Reads(next)
BY DEF Listed, Before, Position, GitHubOK, GitHubTypes

(* A step within AtRelease keeps release, attempt and tag. *)
LEMMA StaysAtRelease ==
    ASSUME Before, stage \in AtRelease, stage' \in AtRelease \cup {"failed"},
           UNCHANGED <<attempt, artifacts, signed, rid, tag>>
    PROVE  Position'
BY DEF Before, Position, AtRelease, PersistStages

LEMMA NotYetRead ==
    ASSUME stage' \notin Immutable PROVE Read'
BY DEF Read, Immutable, Known, Resolved

LEMMA ListKeeps == ASSUME Before, ListRelease PROVE Effect /\ After
<1> DEFINE next == IF wasDraft THEN "fill" ELSE "read published"
<1>1. /\ Listed(next) /\ stage = "list" /\ UNCHANGED <<rid, wasDraft, kept>>
      /\ todo' \subseteq File
  BY DEF ListRelease
<1>2. next \in PersistStages /\ next \in AtRelease /\ next \notin Immutable
  BY DEF PersistStages, AtRelease, Immutable, Known, Resolved, Relisted
<1>3. stage \in AtRelease
  BY <1>1 DEF AtRelease, PersistStages
<1> HIDE DEF next
<1>4. Reads(next) /\ seen' \in [Name -> Content]
  BY <1>1, <1>3, ListedSees
<1>5. Effect /\ JobTypes'
  <2>1. /\ kept' \in [Name -> Content] /\ todo' \subseteq File
        /\ rid' \in ReleaseId \cup {None} /\ wasDraft' \in BOOLEAN
    BY <1>1 DEF Before, JobTypes
  <2> QED BY <1>2, <1>4, <2>1, ReadsEffect, ReadsTypes DEF Before
<1>6. stage' = next /\ UNCHANGED <<workflow, reported, tag>>
  BY <1>4 DEF Reads, github
<1>7. Position' /\ Read'
  BY <1>1, <1>2, <1>3, <1>6, StaysAtRelease, NotYetRead DEF workflow
<1>8. OutputsOK'
  BY <1>2, <1>6, OutputsStay DEF workflow, PersistStages
<1> QED BY <1>5, <1>7, <1>8 DEF After

LEMMA CompareKeeps ==
    ASSUME Before, NEW f \in File, CompareExisting(f) PROVE Effect /\ After
<1> DEFINE next == IF todo' = {} THEN "recheck draft" ELSE "fill"
<1>1. /\ Reads(next) /\ stage = "fill" /\ UNCHANGED <<rid, wasDraft, seen, kept>>
      /\ todo' = todo \ {f}
  BY DEF CompareExisting
<1>2. next \in PersistStages /\ next \in AtRelease /\ next \notin Immutable
  BY DEF PersistStages, AtRelease, Immutable, Known, Resolved, Relisted
<1>3. stage \in AtRelease
  BY <1>1 DEF AtRelease, PersistStages
<1> HIDE DEF next
<1>5. Effect /\ JobTypes'
  <2>1. /\ kept' \in [Name -> Content] /\ seen' \in [Name -> Content]
        /\ todo' \subseteq File
        /\ rid' \in ReleaseId \cup {None} /\ wasDraft' \in BOOLEAN
    BY <1>1 DEF Before, JobTypes
  <2> QED BY <1>1, <1>2, <2>1, ReadsEffect, ReadsTypes DEF Before
<1>6. stage' = next /\ UNCHANGED <<workflow, reported, tag>>
  BY <1>1 DEF Reads, github
<1>7. Position' /\ Read'
  BY <1>1, <1>2, <1>3, <1>6, StaysAtRelease, NotYetRead DEF workflow
<1>8. OutputsOK'
  BY <1>2, <1>6, OutputsStay DEF workflow, PersistStages
<1> QED BY <1>5, <1>7, <1>8 DEF After

LEMMA UploadKeeps ==
    ASSUME Before, NEW f \in File, UploadMissing(f) PROVE Effect /\ After
<1>1. /\ stage = "fill" /\ stage' \in {"recheck draft", "fill", "failed"}
      /\ calm' \in BOOLEAN /\ todo' = todo \ {f} /\ ~immutable[rid]
      /\ asset' \in {[asset EXCEPT ![rid][f] = attempt],
                     [asset EXCEPT ![rid][f] = Broken]}
  BY DEF UploadMissing, Answered, Before, JobTypes
<1>2. UNCHANGED <<tag, owner, draft, immutable, commit, enabled, changes,
                  workflow, rid, wasDraft, seen, kept, reported, promoted>>
  BY DEF UploadMissing
<1>3. stage \in AtRelease /\ rid \in ReleaseId
  BY <1>1 DEF Before, Position, AtRelease, PersistStages
<1>4. attempt \in Content /\ Broken \in Content /\ f \in Name
  BY Marks DEF Before, JobTypes, Name
<1>5. Filled(rid)
  <2>1. ASSUME NEW c \in Content, asset' = [asset EXCEPT ![rid][f] = c]
        PROVE  /\ asset' \in [ReleaseId -> [Name -> Content]]
               /\ \A j \in ReleaseId \ {rid} : asset'[j] = asset[j]
    BY <1>3, <1>4, <2>1 DEF Before, GitHubOK, GitHubTypes
  <2>2. /\ asset' \in [ReleaseId -> [Name -> Content]]
        /\ \A j \in ReleaseId \ {rid} : asset'[j] = asset[j]
    BY <1>1, <1>4, <2>1
  <2> QED BY <1>1, <1>2, <2>2 DEF Filled
<1>6. Effect
  BY <1>2, <1>3, <1>5 DEF Effect, Before, GitHubOK, GitHubTypes
<1>7. JobTypes'
  BY <1>1, <1>2 DEF Before, JobTypes, workflow, PersistStages, Over
<1>8. stage' \in AtRelease \cup {"failed"} /\ stage' \notin Immutable
  BY <1>1 DEF AtRelease, PersistStages, Immutable, Known, Resolved, Relisted
<1>9. Position' /\ Read'
  BY <1>2, <1>3, <1>8, StaysAtRelease, NotYetRead DEF workflow
<1>10. OutputsOK'
  BY <1>1, <1>2, OutputsStay DEF workflow
<1> QED BY <1>6, <1>7, <1>9, <1>10 DEF After

(* A check of the release that leaves everything local alone. *)
LEMMA ChecksKeep ==
    ASSUME Before, stage \in AtRelease, NEW next \in AtRelease, Reads(next),
           UNCHANGED local
    PROVE  Effect /\ JobTypes' /\ Position' /\ OutputsOK' /\ stage' = next
           /\ UNCHANGED <<github, attempt, rid, seen, kept>>
<1>1. next \in PersistStages /\ next # "callback"
  BY DEF AtRelease, PersistStages
<1>2. Effect /\ JobTypes'
  BY <1>1, ReadsEffect, LocalTypes DEF Before
<1>3. /\ stage' = next
      /\ UNCHANGED <<github, attempt, artifacts, signed, outputs, reported>>
      /\ UNCHANGED <<rid, seen, kept, tag>>
  BY DEF Reads, workflow, local, github
<1>4. Position' /\ OutputsOK'
  BY <1>1, <1>3, StaysAtRelease, OutputsStay
<1> QED BY <1>2, <1>3, <1>4

LEMMA DraftChecksKeep ==
    ASSUME Before, RecheckDraft \/ CompareDraft PROVE Effect /\ After
<1>1. CASE RecheckDraft
  <2>1. Reads("list draft") /\ UNCHANGED local /\ stage = "recheck draft"
    BY <1>1 DEF RecheckDraft
  <2>2. {stage, "list draft"} \subseteq AtRelease /\ "list draft" \notin Immutable
    BY <2>1 DEF AtRelease, PersistStages, Immutable, Known, Resolved, Relisted
  <2> QED BY <2>1, <2>2, ChecksKeep, NotYetRead DEF After
<1>2. CASE CompareDraft
  <2>1. Reads("publish") /\ UNCHANGED local /\ stage = "compare draft"
    BY <1>2 DEF CompareDraft, Downloads
  <2>2. {stage, "publish"} \subseteq AtRelease /\ "publish" \notin Immutable
    BY <2>1 DEF AtRelease, PersistStages, Immutable, Known, Resolved, Relisted
  <2> QED BY <2>1, <2>2, ChecksKeep, NotYetRead DEF After
<1> QED BY <1>1, <1>2

LEMMA ListDraftKeeps == ASSUME Before, ListDraft PROVE Effect /\ After
<1>1. /\ Listed("compare draft") /\ stage = "list draft"
      /\ UNCHANGED <<rid, wasDraft, kept, todo>>
  BY DEF ListDraft
<1>2. /\ "compare draft" \in PersistStages \cap AtRelease
      /\ "compare draft" \notin Immutable /\ stage \in AtRelease
  BY <1>1 DEF PersistStages, AtRelease, Immutable, Known, Resolved, Relisted
<1>3. Reads("compare draft") /\ seen' \in [Name -> Content]
  BY <1>1, <1>2, ListedSees
<1>4. Effect /\ JobTypes'
  <2>1. /\ kept' \in [Name -> Content] /\ todo' \subseteq File
        /\ rid' \in ReleaseId \cup {None} /\ wasDraft' \in BOOLEAN
    BY <1>1 DEF Before, JobTypes
  <2> QED BY <1>2, <1>3, <2>1, ReadsEffect, ReadsTypes DEF Before
<1>5. stage' = "compare draft" /\ UNCHANGED <<workflow, reported, tag>>
  BY <1>3 DEF Reads, github
<1>6. Position' /\ Read'
  BY <1>1, <1>2, <1>5, StaysAtRelease, NotYetRead DEF workflow
<1>7. OutputsOK'
  BY <1>5, OutputsStay DEF workflow
<1> QED BY <1>4, <1>6, <1>7 DEF After

LEMMA PublishKeeps == ASSUME Before, Publish PROVE Effect /\ After
<1>1. /\ stage = "publish" /\ stage' \in {"read published", "failed"}
      /\ calm' \in BOOLEAN
  BY DEF Publish, Answered, Before, JobTypes
<1>2. UNCHANGED <<tag, owner, asset, enabled, changes, workflow, local,
                  reported, promoted>>
  BY DEF Publish
<1>3. stage \in AtRelease /\ rid \in ReleaseId
  BY <1>1 DEF Before, Position, AtRelease, PersistStages
<1>4. Issued(rid) \/ Still
  BY <1>2 DEF Publish, Issued, Still
<1>5. Effect
  BY <1>2, <1>3, <1>4 DEF Effect, Before, GitHubOK, GitHubTypes
<1>6. JobTypes'
  BY <1>1, <1>2 DEF Before, JobTypes, workflow, local, PersistStages, Over
<1>7. stage' \in AtRelease \cup {"failed"} /\ stage' \notin Immutable
  BY <1>1 DEF AtRelease, PersistStages, Immutable, Known, Resolved, Relisted
<1>8. Position' /\ Read'
  BY <1>2, <1>3, <1>7, StaysAtRelease, NotYetRead DEF workflow, local
<1>9. OutputsOK'
  BY <1>1, <1>2, OutputsStay DEF workflow
<1> QED BY <1>5, <1>6, <1>8, <1>9 DEF After

-----------------------------------------------------------------------------
(* The checks of the published release: from the first one on, it is sealed. *)
LEMMA ReadPublishedKeeps == ASSUME Before, ReadPublished PROVE Effect /\ After
<1>1. /\ Reads("list published") /\ UNCHANGED local /\ stage = "read published"
      /\ immutable[rid]
  BY DEF ReadPublished, ReadsImmutable
<1>2. {stage, "list published"} \subseteq AtRelease
  BY <1>1 DEF AtRelease, PersistStages
<1>3. /\ Effect /\ JobTypes' /\ Position' /\ OutputsOK'
      /\ stage' = "list published" /\ UNCHANGED <<github, rid>>
  BY <1>1, <1>2, ChecksKeep
<1>4. Read'
  BY <1>1, <1>3 DEF Read, Known, Resolved, Relisted, github
<1> QED BY <1>3, <1>4 DEF After

LEMMA ListPublishedKeeps == ASSUME Before, ListPublished PROVE Effect /\ After
<1>1. /\ Listed("tag") /\ stage = "list published" /\ ExactNames(seen')
      /\ kept' = seen' /\ UNCHANGED <<rid, wasDraft, todo>>
  BY DEF ListPublished
<1>2. "tag" \in PersistStages \cap AtRelease /\ stage \in AtRelease
  BY <1>1 DEF PersistStages, AtRelease
<1>3. /\ Reads("tag") /\ seen' \in [Name -> Content] /\ seen' = asset[rid]
  BY <1>1, <1>2, ListedSees
<1>4. Effect /\ JobTypes'
  <2>1. /\ kept' \in [Name -> Content] /\ todo' \subseteq File
        /\ rid' \in ReleaseId \cup {None} /\ wasDraft' \in BOOLEAN
    BY <1>1, <1>3 DEF Before, JobTypes
  <2> QED BY <1>2, <1>3, <2>1, ReadsEffect, ReadsTypes DEF Before
<1>5. stage' = "tag" /\ UNCHANGED <<workflow, reported, github>>
  BY <1>3 DEF Reads
<1>6. Position'
  BY <1>1, <1>2, <1>5, StaysAtRelease DEF workflow, github
<1>7. Read'
  <2>1. immutable[rid]
    BY <1>1 DEF Before, Read, Immutable
  <2> QED
    BY <1>1, <1>3, <1>5, <2>1 DEF Read, Resolved, Relisted, github, ExactNames
<1>8. OutputsOK'
  BY <1>5, OutputsStay DEF workflow
<1> QED BY <1>4, <1>6, <1>7, <1>8 DEF After

(* The latest listing is still what the sealed release holds. *)
LEMMA KnownStays ==
    ASSUME Before, stage \in Known, UNCHANGED <<github, rid, seen>>
    PROVE  immutable'[rid'] /\ seen' = asset'[rid'] /\ ExactNames(seen)'
BY DEF Before, Read, Immutable, github, ExactNames

LEMMA ResolveKeeps == ASSUME Before, ResolveTag PROVE Effect /\ After
<1>1. /\ Reads("download") /\ UNCHANGED local /\ stage = "tag"
      /\ commit[signed] = "ours"
  BY DEF ResolveTag
<1>2. {stage, "download"} \subseteq AtRelease /\ stage \in Known
  BY <1>1 DEF AtRelease, PersistStages, Known
<1>3. /\ Effect /\ JobTypes' /\ Position' /\ OutputsOK'
      /\ stage' = "download" /\ UNCHANGED <<github, attempt, rid, seen>>
  BY <1>1, <1>2, ChecksKeep
<1>4. signed = attempt
  BY <1>1 DEF Before, Position, PersistStages
<1>5. Read'
  BY <1>1, <1>2, <1>3, <1>4, KnownStays DEF Read, Relisted, github
<1> QED BY <1>3, <1>5 DEF After

LEMMA DownloadKeeps == ASSUME Before, DownloadPublished PROVE Effect /\ After
<1>1. /\ Reads("recheck published") /\ UNCHANGED local /\ stage = "download"
      /\ \A f \in File : SameBytes(f)
  BY DEF DownloadPublished, Downloads
<1>2. /\ {stage, "recheck published"} \subseteq AtRelease
      /\ stage \in Known /\ stage \in Resolved
  BY <1>1 DEF AtRelease, PersistStages, Known, Resolved
<1>3. /\ Effect /\ JobTypes' /\ Position' /\ OutputsOK'
      /\ stage' = "recheck published" /\ UNCHANGED <<github, attempt, rid, seen>>
  BY <1>1, <1>2, ChecksKeep
<1>4. commit[attempt] = "ours"
  BY <1>2 DEF Before, Read
<1>5. Read'
  BY <1>1, <1>2, <1>3, <1>4, KnownStays DEF Read, github, SameBytes
<1> QED BY <1>3, <1>5 DEF After

LEMMA RecheckKeeps == ASSUME Before, RecheckPublished PROVE Effect /\ After
<1>1. Reads("relist") /\ UNCHANGED local /\ stage = "recheck published"
  BY DEF RecheckPublished
<1>2. /\ {stage, "relist"} \subseteq AtRelease
      /\ stage \in Known /\ stage \in Resolved /\ stage \in Relisted
  BY <1>1 DEF AtRelease, PersistStages, Known, Resolved, Relisted
<1>3. /\ Effect /\ JobTypes' /\ Position' /\ OutputsOK'
      /\ stage' = "relist" /\ UNCHANGED <<github, attempt, rid, seen>>
  BY <1>1, <1>2, ChecksKeep
<1>4. commit[attempt] = "ours" /\ \A f \in File : SameBytes(f)
  BY <1>2 DEF Before, Read
<1>5. Read'
  BY <1>2, <1>3, <1>4, KnownStays DEF Read, github, SameBytes
<1> QED BY <1>3, <1>5 DEF After

LEMMA RelistKeeps == ASSUME Before, RelistPublished PROVE Effect /\ After
<1>1. /\ Listed("expose") /\ stage = "relist"
      /\ UNCHANGED <<rid, wasDraft, kept, todo>>
  BY DEF RelistPublished
<1>2. /\ "expose" \in PersistStages \cap AtRelease /\ stage \in AtRelease
      /\ stage \in Known /\ stage \in Resolved /\ stage \in Relisted
  BY <1>1 DEF PersistStages, AtRelease, Known, Resolved, Relisted
<1>3. /\ Reads("expose") /\ seen' \in [Name -> Content] /\ seen' = asset[rid]
  BY <1>1, <1>2, ListedSees
<1>4. seen' = seen
  BY <1>2, <1>3 DEF Before, Read
<1>5. Effect /\ JobTypes'
  <2>1. /\ kept' \in [Name -> Content] /\ todo' \subseteq File
        /\ rid' \in ReleaseId \cup {None} /\ wasDraft' \in BOOLEAN
    BY <1>1 DEF Before, JobTypes
  <2> QED BY <1>2, <1>3, <2>1, ReadsEffect, ReadsTypes DEF Before
<1>6. stage' = "expose" /\ UNCHANGED <<workflow, reported, github>>
  BY <1>3 DEF Reads
<1>7. Position'
  BY <1>1, <1>2, <1>6, StaysAtRelease DEF workflow, github
<1>8. Read'
  <2>1. commit[attempt] = "ours" /\ \A f \in File : SameBytes(f)
    BY <1>2 DEF Before, Read
  <2>2. UNCHANGED <<github, rid, seen, attempt>>
    BY <1>1, <1>4, <1>6 DEF workflow
  <2> QED
    BY <1>2, <1>6, <2>1, <2>2, KnownStays DEF Read, github, SameBytes
<1>9. OutputsOK'
  BY <1>6, OutputsStay DEF workflow
<1> QED BY <1>5, <1>7, <1>8, <1>9 DEF After

(* What has been read when the outputs are exposed. *)
LEMMA ExposedIsSealed ==
    ASSUME Before, stage = "expose"
    PROVE  /\ rid \in ReleaseId /\ Seals(rid, attempt)
           /\ asset[rid] = Evidence(attempt)
           /\ commit[attempt] = "ours" /\ signed = attempt /\ attempt \in Attempt
<1>1. /\ stage \in AtRelease /\ stage \in Immutable /\ stage \in Known
      /\ stage \in Resolved /\ stage \in Relisted /\ stage \in PersistStages
  BY DEF AtRelease, PersistStages, Immutable, Known, Resolved, Relisted
<1>2. /\ rid \in ReleaseId /\ tag[rid] = attempt /\ signed = attempt
      /\ attempt \in Attempt
  BY <1>1 DEF Before, Position, JobTypes
<1>3. /\ immutable[rid] /\ seen = asset[rid] /\ ExactNames(seen)
      /\ commit[attempt] = "ours" /\ \A f \in File : SameBytes(f)
  BY <1>1 DEF Before, Read
<1>4. Seals(rid, attempt)
  BY <1>2, <1>3 DEF Seals, Published, Before, GitHubOK, SealsHold
<1>5. asset[rid] = Evidence(attempt)
  <2>1. asset[rid] \in [Name -> Content]
    BY <1>2 DEF Before, GitHubOK, GitHubTypes
  <2>2. asset[rid] = [n \in Name |-> asset[rid][n]]
    BY <2>1, Zenon
  <2>3. \A n \in Name : asset[rid][n] = IF n \in File THEN attempt ELSE None
    BY <1>3 DEF ExactNames, SameBytes
  <2> QED BY <2>2, <2>3 DEF Evidence
<1> QED BY <1>2, <1>3, <1>4, <1>5

LEMMA ExposeKeeps == ASSUME Before, ExposeOutputs PROVE Effect /\ After
<1>1. /\ stage = "expose" /\ stage' = "callback"
      /\ outputs' = [tag |-> signed, digest |-> attempt]
      /\ reported' = reported \cup {attempt}
      /\ UNCHANGED <<github, changes, attempt, artifacts, signed, local,
                     promoted, calm>>
  BY DEF ExposeOutputs
<1>2. signed = attempt /\ attempt \in Attempt
  BY <1>1, ExposedIsSealed
<1>3. Effect
  BY <1>1 DEF Effect, Still, github, Before, GitHubOK, GitHubTypes
<1>4. Reported(outputs)'
  BY <1>1, <1>2 DEF Reported
<1>5. JobTypes'
  <2>1. outputs' \in [tag : Attempt, digest : Attempt] \cup {None}
    BY <1>1, <1>2
  <2>2. reported' \subseteq Attempt
    BY <1>1, <1>2 DEF Before, JobTypes
  <2> QED BY <1>1, <2>1, <2>2 DEF Before, JobTypes, github, local
<1>6. Position' /\ Read'
  <2>1. stage' \notin PersistStages
    BY <1>1 DEF PersistStages
  <2> QED BY <2>1, JobOver
<1>7. OutputsOK'
  BY <1>4 DEF OutputsOK
<1> QED BY <1>3, <1>5, <1>6, <1>7 DEF After

LEMMA CallbackKeeps == ASSUME Before, Callback PROVE Effect /\ After
<1>1. /\ stage = "callback" /\ stage' \in {"done", "failed"} /\ calm' \in BOOLEAN
      /\ promoted' = promoted \cup {outputs.digest}
      /\ UNCHANGED <<github, changes, workflow, local, reported>>
  BY DEF Callback, Answered, Before, JobTypes
<1>2. outputs.digest \in Attempt
  BY <1>1 DEF Before, OutputsOK, Reported, JobTypes
<1>3. Effect
  BY <1>1 DEF Effect, Still, github, Before, GitHubOK, GitHubTypes
<1>4. JobTypes'
  BY <1>1, <1>2 DEF Before, JobTypes, github, workflow, local, Over
<1>5. Position' /\ Read'
  <2>1. stage' \notin PersistStages
    BY <1>1 DEF PersistStages
  <2> QED BY <2>1, JobOver
<1>6. OutputsOK'
  BY <1>1, OutputsStay DEF workflow
<1> QED BY <1>3, <1>4, <1>5, <1>6 DEF After

LEMMA FailKeeps == ASSUME Before, Fail PROVE Effect /\ After
<1>1. /\ stage' = "failed" /\ calm' = FALSE
      /\ UNCHANGED <<github, changes, workflow, local, reported, promoted>>
  BY DEF Fail
<1>2. Effect
  BY <1>1 DEF Effect, Still, github, Before, GitHubOK, GitHubTypes
<1>3. JobTypes'
  BY <1>1 DEF Before, JobTypes, github, workflow, local, Over
<1>4. Position' /\ Read'
  <2>1. stage' \notin PersistStages
    BY <1>1 DEF PersistStages
  <2> QED BY <2>1, JobOver
<1>5. OutputsOK'
  BY <1>1, OutputsStay DEF workflow
<1> QED BY <1>2, <1>3, <1>4, <1>5 DEF After

(* Running again: the artifact of the new attempt does not exist yet. *)
LEMMA RerunKeeps == ASSUME Before, Rerun PROVE Effect /\ After
<1>1. /\ attempt < MaxAttempts /\ attempt' = attempt + 1
      /\ UNCHANGED <<github, changes, artifacts, reported, promoted>>
      /\ rid' = None /\ wasDraft' = FALSE /\ seen' = Blank /\ kept' = Blank
      /\ todo' = {} /\ calm' = TRUE
  BY DEF Rerun, RunAllAgain, RunPersistAgain, RunCallbackAgain, RunAgain
<1>2. Effect
  BY <1>1 DEF Effect, Still, github, Before, GitHubOK, GitHubTypes
<1>3. attempt \in Nat /\ attempt' \in Attempt /\ 1..attempt \subseteq 1..attempt'
  <2>1. attempt \in 1..MaxAttempts /\ MaxAttempts \in Nat
    BY BoundsAssumption DEF Before, JobTypes, Attempt, BoundsAssumption
  <2> QED BY <1>1, <2>1 DEF Attempt
<1>4. artifacts' \subseteq 1..attempt' /\ attempt' \notin artifacts'
  <2>1. artifacts \subseteq 1..attempt
    BY DEF Before, JobTypes
  <2>2. attempt' \notin 1..attempt
    BY <1>1, <1>3
  <2> QED BY <1>1, <1>3, <2>1, <2>2
<1>5. Blank \in [Name -> Content]
  BY Marks DEF Blank
<1>6. /\ signed' \in {signed, None} /\ outputs' \in {outputs, None}
      /\ stage' \in {"verify", "check", "callback"}
      /\ stage' = "callback" => outputs # None /\ outputs' = outputs
  BY DEF Rerun, RunAllAgain, RunPersistAgain, RunCallbackAgain, RunAgain
<1>7. JobTypes'
  <2>1. /\ signed' \in Attempt \cup {None}
        /\ outputs' \in [tag : Attempt, digest : Attempt] \cup {None}
        /\ stage' \in PersistStages \cup {"verify", "callback"} \cup Over
    BY <1>6 DEF Before, JobTypes, PersistStages
  <2>2. /\ rid' \in ReleaseId \cup {None} /\ wasDraft' \in BOOLEAN
        /\ seen' \in [Name -> Content] /\ kept' \in [Name -> Content]
        /\ todo' \subseteq File /\ calm' \in BOOLEAN
    BY <1>1, <1>5
  <2> QED BY <1>1, <1>3, <1>4, <2>1, <2>2 DEF Before, JobTypes, github
<1>8. Position' /\ Read'
  <2>1. CASE stage' = "check"
    BY <1>4, <2>1, JobBegins
  <2>2. CASE stage' # "check"
    <3>1. stage' \notin PersistStages
      BY <1>6, <2>2 DEF PersistStages
    <3> QED BY <3>1, JobOver
  <2> QED BY <2>1, <2>2
<1>9. OutputsOK'
  BY <1>1, <1>6 DEF Before, OutputsOK, Reported
<1> QED BY <1>2, <1>7, <1>8, <1>9 DEF After

LEMMA StutterKeeps == ASSUME Before, UNCHANGED vars PROVE Effect /\ After
<1>1. Effect
  BY DEF vars, github, Effect, Still, Before, GitHubOK, GitHubTypes
<1>2. Position' /\ Read' /\ OutputsOK'
  BY <1>1, LeftAlone DEF vars
<1>3. JobTypes'
  BY DEF vars, github, workflow, local, Before, JobTypes
<1> QED BY <1>1, <1>2, <1>3 DEF After

LEMMA StepKeeps == ASSUME Before, [Next]_vars PROVE Effect /\ After
<1>1. CASE Others
  BY <1>1, OthersEffect, OthersKeep
<1>2. CASE Progress
  <2>1. CASE VerifySucceeds \/ CheckEvidence
    BY <2>1, VerifyKeeps, CheckKeeps
  <2>2. CASE \E i \in ReleaseId : FindRelease(i) \/ CreateDraft(i)
    BY <2>2, FindKeeps, CreateKeeps
  <2>3. CASE \E f \in File : CompareExisting(f) \/ UploadMissing(f)
    BY <2>3, CompareKeeps, UploadKeeps
  <2>4. CASE ListRelease \/ RecheckDraft \/ ListDraft \/ CompareDraft \/ Publish
    BY <2>4, ListKeeps, DraftChecksKeep, ListDraftKeeps, PublishKeeps
  <2>5. CASE ReadPublished \/ ListPublished \/ ResolveTag
    BY <2>5, ReadPublishedKeeps, ListPublishedKeeps, ResolveKeeps
  <2>6. CASE DownloadPublished \/ RecheckPublished \/ RelistPublished
    BY <2>6, DownloadKeeps, RecheckKeeps, RelistKeeps
  <2>7. CASE ExposeOutputs \/ Callback
    BY <2>7, ExposeKeeps, CallbackKeeps
  <2> QED
    BY <1>2, <2>1, <2>2, <2>3, <2>4, <2>5, <2>6, <2>7 DEF Progress
<1>3. CASE Fail \/ Rerun \/ UNCHANGED vars
  BY <1>3, FailKeeps, RerunKeeps, StutterKeeps
<1> QED BY <1>1, <1>2, <1>3 DEF Next

-----------------------------------------------------------------------------
(* An acceptance that was reported stays sealed. *)
LEMMA SealedStays ==
    ASSUME GitHubOK, Effect, NEW a \in Attempt, NEW i \in ReleaseId,
           Seals(i, a), asset[i] = Evidence(a), commit[a] = "ours"
    PROVE  /\ commit'[a] = "ours"
           /\ tag'[i] = a /\ ~draft'[i] /\ immutable'[i]
           /\ asset'[i] = Evidence(a)
BY SealsStay DEF Seals, Published

LEMMA ReportedStaysSealed ==
    ASSUME Before, ReportedIsSealed, [Next]_vars PROVE ReportedIsSealed'
<1>0. Effect /\ GitHubOK
  BY StepKeeps DEF Before
<1>1. ASSUME NEW a \in reported
      PROVE  /\ commit'[a] = "ours"
             /\ \E i \in ReleaseId : /\ tag'[i] = a /\ ~draft'[i] /\ immutable'[i]
                                     /\ asset'[i] = Evidence(a)
  <2>1. PICK i \in ReleaseId : Seals(i, a) /\ asset[i] = Evidence(a)
    BY DEF ReportedIsSealed
  <2>2. commit[a] = "ours" /\ a \in Attempt
    BY DEF ReportedIsSealed, Before, JobTypes
  <2> QED BY <1>0, <2>1, <2>2, SealedStays
<1>2. CASE ExposeOutputs
  <2>1. /\ stage = "expose" /\ reported' = reported \cup {attempt}
        /\ UNCHANGED github
    BY <1>2 DEF ExposeOutputs
  <2>2. /\ rid \in ReleaseId /\ Seals(rid, attempt)
        /\ asset[rid] = Evidence(attempt) /\ commit[attempt] = "ours"
    BY <2>1, ExposedIsSealed
  <2>3. /\ commit'[attempt] = "ours"
        /\ tag'[rid] = attempt /\ ~draft'[rid] /\ immutable'[rid]
        /\ asset'[rid] = Evidence(attempt)
    BY <2>1, <2>2 DEF github, Seals, Published
  <2> QED BY <1>1, <2>1, <2>2, <2>3 DEF ReportedIsSealed, Seals, Published
<1>3. CASE reported' = reported
  BY <1>1, <1>3 DEF ReportedIsSealed, Seals, Published
<1>4. ExposeOutputs \/ reported' = reported
  BY DEF Next, Others, Change, PlantDraft, ReplaceAsset, EditNotes, PublishByHand,
         Unpublish, MoveTag, SwitchImmutability, Progress, VerifySucceeds,
         CheckEvidence, FindRelease, CreateDraft, ListRelease, Listed,
         CompareExisting, UploadMissing, RecheckDraft, ListDraft, CompareDraft,
         Downloads, Publish, ReadPublished, ListPublished, ResolveTag,
         DownloadPublished, RecheckPublished, RelistPublished, Callback, Fail,
         Rerun, RunAllAgain, RunPersistAgain, RunCallbackAgain, RunAgain, Reads,
         vars
<1> QED BY <1>2, <1>3, <1>4

LEMMA InitHolds == Init => IInv
<1> SUFFICES ASSUME Init PROVE IInv
  OBVIOUS
<1>1. GitHubTypes
  BY Marks DEF Init, GitHubTypes, Blank
<1>2. Drafts /\ SealsHold /\ OneForATag
  BY DEF Init, Drafts, SealsHold, OneForATag
<1>3. JobTypes
  <2>1. 1 \in Attempt /\ 0 \in 0..MaxChanges
    BY BoundsAssumption DEF Attempt, BoundsAssumption
  <2>2. /\ attempt \in Attempt /\ changes \in 0..MaxChanges
        /\ artifacts \subseteq 1..attempt
    BY <2>1 DEF Init
  <2>3. seen \in [Name -> Content] /\ kept \in [Name -> Content]
    BY Marks DEF Init, Blank
  <2>4. owner \in [ReleaseId -> Attempt \cup {Foreign, None}]
    BY DEF Init
  <2>5. signed = None /\ outputs = None /\ rid = None /\ wasDraft = FALSE
        /\ todo = {} /\ reported = {} /\ promoted = {} /\ calm = TRUE
        /\ stage = "verify"
    BY DEF Init
  <2> QED BY <2>2, <2>3, <2>4, <2>5 DEF JobTypes
<1>4. Position /\ Read
  BY DEF Init, Position, Read, AtRelease, Immutable, Known, Resolved, Relisted,
         PersistStages
<1>5. OutputsOK /\ ReportedIsSealed
  BY DEF Init, OutputsOK, ReportedIsSealed
<1>6. TypeOK
  BY <1>1, <1>3, TypesSplit
<1> QED BY <1>1, <1>2, <1>4, <1>5, <1>6 DEF IInv, GitHubOK

LEMMA InvKnows == IInv => Before /\ ReportedIsSealed
BY TypesSplit DEF IInv, Before

(* The inductive invariant holds throughout. *)
THEOREM Invariance == Spec => []IInv
<1>1. IInv /\ [Next]_vars => IInv'
  <2> SUFFICES ASSUME IInv, [Next]_vars PROVE IInv'
    OBVIOUS
  <2>1. Before /\ ReportedIsSealed
    BY InvKnows
  <2>2. Effect /\ After
    BY <2>1, StepKeeps
  <2>3. GitHubOK'
    BY <2>1, <2>2, EffectKeepsGitHub DEF Before
  <2>4. TypeOK'
    BY <2>2, <2>3, TypesSplitNext DEF After, GitHubOK
  <2>5. ReportedIsSealed'
    BY <2>1, ReportedStaysSealed
  <2> QED BY <2>2, <2>3, <2>4, <2>5 DEF IInv, After
<1> QED
  BY InitHolds, <1>1, PTL DEF Spec

(* The state of GitHub, of the run and of its job is well typed, in every
   attempt and after any interference. *)
THEOREM TypeCorrect == Spec => []TypeOK
<1>1. IInv => TypeOK
  BY DEF IInv
<1> QED BY <1>1, Invariance, PTL

(* persist_mode reports an acceptance only when the release of its tag is
   immutable, at the workflow commit, with exactly the six signed files; that
   stays so whatever happens afterwards. *)
THEOREM ReportedSealed == Spec => []ReportedIsSealed
<1>1. IInv => ReportedIsSealed
  BY DEF IInv
<1> QED BY <1>1, Invariance, PTL

-----------------------------------------------------------------------------
(* The refinement: SealedCopy is what the abstract state holds. *)
LEMMA SealedCopyIs ==
    ASSUME OneForATag, NEW a \in Attempt, NEW i \in ReleaseId, Seals(i, a)
    PROVE  SealedCopy(a) = asset[i]
<1> DEFINE j == CHOOSE k \in ReleaseId : Seals(k, a)
<1>1. j \in ReleaseId /\ Seals(j, a)
  OBVIOUS
<1>2. SealedCopy(a) = asset[j]
  BY DEF SealedCopy, Sealed
<1> HIDE DEF j
<1>3. a # None
  BY Marks
<1>4. j = i
  BY <1>1, <1>3 DEF Seals, Published, OneForATag
<1> QED BY <1>2, <1>4

LEMMA SealedCopyIsNext ==
    ASSUME OneForATag', NEW a \in Attempt, NEW i \in ReleaseId, Seals(i, a)'
    PROVE  SealedCopy(a)' = asset'[i]
<1> DEFINE j == CHOOSE k \in ReleaseId : Seals(k, a)
<1>1. j' \in ReleaseId /\ Seals(j, a)'
  OBVIOUS
<1> QED BY <1>1, Marks DEF SealedCopy, Sealed, Seals, Published, OneForATag

(* A sealed copy stays as it is. *)
LEMMA SealedCopyStays ==
    ASSUME GitHubOK, Effect, NEW a \in Attempt, Sealed(a)
    PROVE  SealedCopy(a)' = SealedCopy(a)
<1>1. PICK i \in ReleaseId : Seals(i, a)
  BY DEF Sealed
<1>2. OneForATag /\ OneForATag'
  BY EffectKeepsGitHub DEF GitHubOK
<1>3. asset'[i] = asset[i] /\ Seals(i, a)'
  BY <1>1, SealsStay DEF Seals, Published
<1> QED BY <1>1, <1>2, <1>3, SealedCopyIs, SealedCopyIsNext

(* What is not sealed stays so, unless a release of its tag is issued. *)
LEMMA UnsealedStays ==
    ASSUME GitHubOK, Effect, NEW a \in Attempt, ~Sealed(a),
           \A i \in ReleaseId : Issued(i) => tag[i] # a
    PROVE  SealedCopy(a)' = SealedCopy(a)
<1>1. ~Sealed(a)'
  <2> SUFFICES ASSUME NEW k \in ReleaseId, Seals(k, a)' PROVE FALSE
    BY DEF Sealed
  <2>1. immutable'[k] /\ tag'[k] = a
    BY DEF Seals, Published
  <2>2. ~immutable[k]
    <3> SUFFICES ASSUME immutable[k] PROVE FALSE
      OBVIOUS
    <3>1. tag[k] = a /\ ~draft[k]
      BY <2>1, SealsStay DEF GitHubOK, SealsHold
    <3> QED BY <3>1 DEF Sealed, Seals, Published
  <2>3. PICK i \in ReleaseId : Issued(i)
    BY <2>1, <2>2 DEF Effect, Still, Drafted, Filled, Withdrawn, Moved
  <2>4. k = i
    BY <2>1, <2>2, <2>3 DEF Issued, PublishRelease, GitHubOK, GitHubTypes
  <2> QED BY <2>1, <2>3, <2>4 DEF Issued
<1> QED BY <1>1 DEF SealedCopy

(* Every step on GitHub seals at most one acceptance, and nothing twice. *)
LEMMA EffectSeals ==
    ASSUME GitHubOK, Effect, UNCHANGED <<reported, promoted>>
    PROVE  (\E a \in Attempt : Durable!Seal(a)) \/ UNCHANGED Durable!vars
<1>1. \A a \in Attempt : SealedCopy(a)' \in [Name -> Content] \cup {None}
  <2> SUFFICES ASSUME NEW a \in Attempt
               PROVE  SealedCopy(a)' \in [Name -> Content] \cup {None}
    OBVIOUS
  <2>1. GitHubTypes' /\ OneForATag'
    BY EffectKeepsGitHub DEF GitHubOK
  <2>2. CASE Sealed(a)'
    <3>1. PICK i \in ReleaseId : Seals(i, a)'
      BY <2>2 DEF Sealed
    <3> QED BY <2>1, <3>1, SealedCopyIsNext DEF GitHubTypes
  <2>3. CASE ~Sealed(a)'
    BY <2>3 DEF SealedCopy
  <2> QED BY <2>2, <2>3
<1>2. CASE \A i \in ReleaseId : ~Issued(i)
  <2>1. \A a \in Attempt : SealedCopy(a)' = SealedCopy(a)
    BY <1>2, SealedCopyStays, UnsealedStays
  <2> QED BY <2>1 DEF Durable!vars
<1>3. ASSUME NEW i \in ReleaseId, Issued(i)
      PROVE  (\E a \in Attempt : Durable!Seal(a)) \/ UNCHANGED Durable!vars
  <2>1. tag[i] \in Attempt /\ ~Sealed(tag[i])
    BY <1>3 DEF Issued, PublishRelease, Taken, Sealed, Seals, GitHubOK,
                GitHubTypes, Drafts
  <2>2. \A k \in ReleaseId : Issued(k) => k = i
    BY <1>3 DEF Issued, PublishRelease, GitHubOK, GitHubTypes
  <2>3. \A b \in Attempt \ {tag[i]} : SealedCopy(b)' = SealedCopy(b)
    BY <2>2, SealedCopyStays, UnsealedStays
  <2>4. SealedCopy(tag[i]) = None
    BY <2>1 DEF SealedCopy
  <2>5. Durable!Seal(tag[i])
    BY <1>1, <2>1, <2>3, <2>4 DEF Durable!Seal
  <2> QED BY <2>1, <2>5
<1> QED BY <1>2, <1>3

(* Only the last step of persist_mode reports and only the callback promotes. *)
LEMMA OthersAreSilent ==
    ASSUME [Next]_vars
    PROVE  ExposeOutputs \/ Callback \/ UNCHANGED <<reported, promoted>>
BY DEF Next, Others, Change, PlantDraft, ReplaceAsset, EditNotes, PublishByHand,
       Unpublish, MoveTag, SwitchImmutability, Progress, VerifySucceeds,
       CheckEvidence, FindRelease, CreateDraft, ListRelease, Listed,
       CompareExisting, UploadMissing, RecheckDraft, ListDraft, CompareDraft,
       Downloads, Publish, ReadPublished, ListPublished, ResolveTag,
       DownloadPublished, RecheckPublished, RelistPublished, Fail,
       Rerun, RunAllAgain, RunPersistAgain, RunCallbackAgain, RunAgain, Reads,
       vars

LEMMA CopiesStill ==
    ASSUME UNCHANGED github, NEW a \in Attempt PROVE SealedCopy(a)' = SealedCopy(a)
BY DEF github, SealedCopy, Sealed, Seals, Published

(* Whatever other people do, whatever call fails and whichever job runs again,
   the workflow keeps the promise of DurableEvidence: an acceptance is reported
   only when the sealed copy is the signed evidence, and promoted only when it
   was reported. *)
THEOREM ImplementsDurable == Spec => DurableSpec
<1>1. Init => Durable!Init
  <2> SUFFICES ASSUME Init PROVE Durable!Init
    OBVIOUS
  <2>1. \A a \in Attempt : SealedCopy(a) = None
    BY DEF Init, SealedCopy, Sealed, Seals
  <2> QED BY <2>1 DEF Durable!Init, Init
<1>2. IInv /\ [Next]_vars => [Durable!Next]_(Durable!vars)
  <2> SUFFICES ASSUME IInv, [Next]_vars
               PROVE  Durable!Next \/ UNCHANGED Durable!vars
    OBVIOUS
  <2>1. Before /\ Effect /\ GitHubOK
    BY InvKnows, StepKeeps DEF Before
  <2>2. CASE UNCHANGED <<reported, promoted>>
    <3>1. (\E a \in Attempt : Durable!Seal(a)) \/ UNCHANGED Durable!vars
      BY <2>1, <2>2, EffectSeals
    <3> QED BY <3>1 DEF Durable!Next
  <2>3. CASE ExposeOutputs
    <3>1. /\ stage = "expose" /\ reported' = reported \cup {attempt}
          /\ UNCHANGED <<github, promoted>>
      BY <2>3 DEF ExposeOutputs
    <3>2. /\ rid \in ReleaseId /\ Seals(rid, attempt) /\ attempt \in Attempt
          /\ asset[rid] = Evidence(attempt)
      BY <2>1, <3>1, ExposedIsSealed
    <3>3. SealedCopy(attempt) = Evidence(attempt)
      BY <2>1, <3>2, SealedCopyIs DEF GitHubOK
    <3>4. \A a \in Attempt : SealedCopy(a)' = SealedCopy(a)
      BY <3>1, CopiesStill
    <3>5. Durable!Report(attempt)
      BY <3>1, <3>2, <3>3, <3>4 DEF Durable!Report
    <3> QED BY <3>2, <3>5 DEF Durable!Next
  <2>4. CASE Callback
    <3>1. /\ stage = "callback" /\ promoted' = promoted \cup {outputs.digest}
          /\ UNCHANGED <<github, reported>>
      BY <2>4 DEF Callback
    <3>2. outputs.digest \in reported /\ outputs.digest \in Attempt
      BY <2>1, <3>1 DEF Before, OutputsOK, Reported, JobTypes
    <3>3. \A a \in Attempt : SealedCopy(a)' = SealedCopy(a)
      BY <3>1, CopiesStill
    <3>4. Durable!Promote(outputs.digest)
      BY <3>1, <3>2, <3>3 DEF Durable!Promote
    <3> QED BY <3>2, <3>4 DEF Durable!Next
  <2> QED BY <2>2, <2>3, <2>4, OthersAreSilent
<1> QED
  BY <1>1, <1>2, Invariance, PTL DEF Spec, Durable!Spec, DurableSpec

(* What a reader of DurableEvidence relies on holds of GitHub and the workflow:
   the sealed copy of every promoted acceptance is the signed evidence. *)
THEOREM PromotedSealed == Spec => []Durable!PromotedIsSealed
<1> DEFINE Inv == promoted \subseteq reported
<1>1. Init => Inv
  BY DEF Init
<1>2. IInv /\ Inv /\ [Next]_vars => Inv'
  <2>1. ExposeOutputs => reported \subseteq reported' /\ promoted' = promoted
    BY DEF ExposeOutputs
  <2>2. IInv /\ Callback => reported' = reported /\ promoted' \subseteq promoted \cup reported
    BY DEF Callback, IInv, OutputsOK, Reported
  <2> QED BY <2>1, <2>2, OthersAreSilent
<1>3. IInv /\ Inv => Durable!PromotedIsSealed
  <2>1. ASSUME IInv, NEW a \in reported
        PROVE  a \in Attempt /\ SealedCopy(a) = Evidence(a)
    <3>1. PICK i \in ReleaseId : Seals(i, a) /\ asset[i] = Evidence(a)
      BY <2>1 DEF IInv, ReportedIsSealed
    <3>2. a \in Attempt
      BY <2>1 DEF IInv, TypeOK
    <3> QED BY <2>1, <3>1, <3>2, SealedCopyIs DEF IInv, GitHubOK
  <2> QED BY <2>1 DEF Durable!PromotedIsSealed
<1> QED BY <1>1, <1>2, <1>3, Invariance, PTL DEF Spec
=============================================================================
