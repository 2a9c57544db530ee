---------------------------- MODULE PushReadyProofs ----------------------------
(***************************************************************************)
(* What pre-push accepts was checked, on a base that is not older than the *)
(* push, for any number of runs, commits, base commits and policies.       *)
(*                                                                         *)
(* The runs share the remote-tracking base and the evidence file, and the  *)
(* developer moves HEAD under them, so no run can rely on what it reads    *)
(* being what it read before.  The invariant says what a run knows at each *)
(* step from its own variables (RunOK): the integration it carries on has  *)
(* passed its checks, and the base of its plan is one fetched since it     *)
(* began.  Both facts survive what others do, because the set of checked   *)
(* integrations and the two positions of the base only grow.               *)
(***************************************************************************)
EXTENDS PushReady, TLAPS

PolicyKept(i) == BasePolicy[i[1]] = HeadPolicy[i[2]]

Unfetched == {"clean", "record", "fetch"}
Planning == {"print", "base", "head", "diff", "reprint"}
Planned == Steps \ ({"idle", "print", "read"} \cup Unfetched)
AfterChecks == {"clean again", "compare", "review", "status", "snapshot",
                "snapped", "reviewed", "stamp", "truncate", "write"}

(* A run at step p with local variables j, when the integrations ps have
   passed and the base is b on this side and r on GitHub. *)
RunOK(p, j, ps, b, r) ==
    p # "idle" =>
      /\ j \in Job
      /\ j.since <= r
      /\ p \in Unfetched => j.merged = None /\ j.payload = None
      /\ p \in Planned => j.change \in Change
      /\ p \in {"merge", "merged"} =>
            PolicyKept(<<j.change.base, j.change.head>>)
      /\ p \in {"checkout", "checks"} =>
            j.merged \in Integration /\ PolicyKept(j.merged)
      /\ p \in AfterChecks => j.merged \in ps
      /\ p \in Planning /\ j.merged # None /\ j.payload = None => j.merged \in ps
      /\ p = "decide" => /\ j.payload # None
                         /\ j.merged = <<j.change.base, j.change.head>>
      /\ j.payload # None => j.payload.integration \in ps
      /\ j.command = "pre-push" /\ p \notin Unfetched => j.since <= b
      /\ j.command = "pre-push" /\ p \in Planned => j.since <= j.change.base

WorldOK ==
    /\ remote \in Base /\ base \in Base /\ base <= remote
    /\ head \in Commit /\ work \in Content
    /\ private \subseteq Gate /\ leftover \in BOOLEAN
    /\ evidence \in Evidence \cup {None, Garbage}
    /\ moves \in 0..MaxMoves /\ runs \in 0..MaxRuns

HistoryOK ==
    /\ passed \subseteq Integration /\ succeeded \subseteq Change
    /\ accepted \subseteq [head : Commit, base : Base, since : Base]
    /\ outcome \in [Gate -> {"none", "ok"}] /\ calm \in [Gate -> BOOLEAN]

RunsOK ==
    /\ pc \in [Gate -> Steps]
    /\ job \in [Gate -> Job \cup {None}]
    /\ \A g \in Gate : RunOK(pc[g], job[g], passed, base, remote)

(* Only integrations that kept the policy pass, and only checked ones get
   into the evidence file and are accepted. *)
CheckedOK ==
    /\ \A i \in passed : PolicyKept(i)
    /\ evidence \in Evidence => evidence.integration \in passed
    /\ AcceptedWasChecked
    /\ AcceptedIsCurrent

IInv == WorldOK /\ HistoryOK /\ RunsOK /\ CheckedOK

-----------------------------------------------------------------------------
(* Base commits are natural numbers, and their order is transitive. *)
LEMMA BaseNat == \A b \in Base : b \in Nat
  BY PushBounds DEF Base

(* What a run knows stays true when more integrations have passed and the base
   has moved forward, which is all that others can do to it. *)
LEMMA KnownStays ==
  ASSUME NEW p, NEW j, NEW ps, NEW ps2,
         NEW b \in Base, NEW b2 \in Base, NEW r \in Base, NEW r2 \in Base,
         RunOK(p, j, ps, b, r), ps \subseteq ps2, b <= b2, r <= r2
  PROVE  RunOK(p, j, ps2, b2, r2)
<1> SUFFICES ASSUME p # "idle" PROVE RunOK(p, j, ps2, b2, r2)
  BY DEF RunOK
<1>1. j \in Job /\ j.since \in Base
  BY DEF RunOK, Job
<1>2. j.since \in Nat /\ b \in Nat /\ b2 \in Nat /\ r \in Nat /\ r2 \in Nat
  BY <1>1, BaseNat
<1>3. j.since <= r2
  BY <1>2 DEF RunOK
<1>4. j.since <= b => j.since <= b2
  BY <1>2
<1> QED
  BY <1>3, <1>4 DEF RunOK

(* A step of one run keeps the invariant if it keeps the parts that are shared
   and establishes RunOK for itself. *)
LEMMA RunStep ==
  ASSUME IInv, NEW g \in Gate, NEW p \in Steps, NEW j \in Job \cup {None},
         pc' = [pc EXCEPT ![g] = p], job' = [job EXCEPT ![g] = j],
         WorldOK', HistoryOK', CheckedOK',
         passed \subseteq passed', base <= base', remote <= remote',
         RunOK(p, j, passed', base', remote')
  PROVE  IInv'
<1>1. pc' \in [Gate -> Steps] /\ job' \in [Gate -> Job \cup {None}]
  BY DEF IInv, RunsOK
<1>2. ASSUME NEW h \in Gate
      PROVE  RunOK(pc'[h], job'[h], passed', base', remote')
  <2>1. CASE h = g
    <3>1. pc'[h] = p /\ job'[h] = j
      BY <2>1 DEF IInv, RunsOK
    <3> QED
      BY <3>1
  <2>2. CASE h # g
    <3>1. pc'[h] = pc[h] /\ job'[h] = job[h]
      BY <2>2 DEF IInv, RunsOK
    <3>2. RunOK(pc[h], job[h], passed, base, remote)
      BY DEF IInv, RunsOK
    <3>3. base \in Base /\ base' \in Base /\ remote \in Base /\ remote' \in Base
      BY DEF IInv, WorldOK
    <3>4. RunOK(pc[h], job[h], passed', base', remote')
      BY <3>2, <3>3, KnownStays
    <3> QED
      BY <3>1, <3>4
  <2> QED
    BY <2>1, <2>2
<1> QED
  BY <1>1, <1>2 DEF IInv, RunsOK

(* A step that only changes the run's own variables. *)
LEMMA QuietStep ==
  ASSUME IInv, NEW g \in Gate, NEW p \in Steps, NEW j \in Job,
         pc' = [pc EXCEPT ![g] = p], job' = [job EXCEPT ![g] = j],
         UNCHANGED <<shared, history>>,
         RunOK(p, j, passed, base, remote)
  PROVE  IInv'
<1>1. WorldOK'
  BY DEF IInv, WorldOK, shared, developer
<1>2. HistoryOK'
  BY DEF IInv, HistoryOK, history
<1>3. CheckedOK'
  BY DEF IInv, CheckedOK, AcceptedWasChecked, AcceptedIsCurrent, shared, history
<1>4. base \in Nat /\ remote \in Nat /\ base' = base /\ remote' = remote
      /\ passed' = passed
  BY BaseNat DEF IInv, WorldOK, shared, history
<1>5. base <= base' /\ remote <= remote'
  BY <1>4
<1> QED
  BY <1>1, <1>2, <1>3, <1>4, <1>5, RunStep

(* What the invariant says of a run that is not idle. *)
LEMMA Running ==
  ASSUME IInv, NEW g \in Gate, pc[g] # "idle"
  PROVE  /\ job[g] \in Job
         /\ job = [job EXCEPT ![g] = job[g]]
         /\ RunOK(pc[g], job[g], passed, base, remote)
BY DEF IInv, RunsOK, RunOK

-----------------------------------------------------------------------------
(* Steps that read what others write: the run's own variables change. *)

(* A check of the checkout lets the run go on with what it knows. *)
LEMMA CheckStep ==
  ASSUME IInv, NEW g \in Gate, NEW p \in Steps, pc[g] # "idle",
         pc' = [pc EXCEPT ![g] = p], UNCHANGED <<shared, job, history>>,
         RunOK(p, job[g], passed, base, remote)
  PROVE  IInv'
BY Running, QuietStep, Zenon

LEMMA ChecksKeep ==
  ASSUME IInv, NEW g \in Gate,
         \/ CleanHead(g)
         \/ PlanUnchanged(g)
         \/ RequireTrustedCheckPolicy(g)
         \/ StillCleanHead(g)
         \/ CompareOriginal(g)
         \/ Review(g)
         \/ ReadStatus(g)
         \/ ReviewLeftTree(g)
         \/ StampEvidence(g)
  PROVE  IInv'
<1> DEFINE Goes(from, to) == /\ pc[g] = from
                             /\ pc' = [pc EXCEPT ![g] = to]
                             /\ UNCHANGED <<shared, job, history>>
<1>1. CASE CleanHead(g)
  <2>1. PICK to \in {"record", "fetch"} : Goes("clean", to)
    BY <1>1 DEF CleanHead, RequireCleanHead, At
  <2>2. RunOK(to, job[g], passed, base, remote)
    BY <2>1, Running DEF RunOK, Unfetched, Planning, Planned, AfterChecks
  <2> QED
    BY <2>1, <2>2, CheckStep DEF Steps
<1>2. CASE PlanUnchanged(g)
  <2>1. PICK to \in {"review", "policy"} :
            Goes("reprint", to) /\ (to = "review" => Checked(g))
    BY <1>2 DEF PlanUnchanged, At
  <2>2. RunOK(to, job[g], passed, base, remote)
    BY <2>1, Running DEF RunOK, Unfetched, Planning, Planned, AfterChecks, Checked, Steps
  <2> QED
    BY <2>1, <2>2, CheckStep DEF Steps
<1>3. CASE RequireTrustedCheckPolicy(g)
  <2>1. Goes("policy", "merge")
        /\ BasePolicy[job[g].change.base] = HeadPolicy[job[g].change.head]
    BY <1>3 DEF RequireTrustedCheckPolicy, At
  <2>2. RunOK("merge", job[g], passed, base, remote)
    BY <2>1, Running DEF RunOK, Unfetched, Planning, Planned, AfterChecks, PolicyKept, Steps
  <2> QED
    BY <2>1, <2>2, CheckStep DEF Steps
<1>4. CASE StillCleanHead(g)
  <2>1. Goes("clean again", "compare")
    BY <1>4 DEF StillCleanHead, RequireCleanHead, At
  <2>2. RunOK("compare", job[g], passed, base, remote)
    BY <2>1, Running DEF RunOK, Unfetched, Planning, Planned, AfterChecks, Steps
  <2> QED
    BY <2>1, <2>2, CheckStep DEF Steps
<1>5. CASE CompareOriginal(g)
  <2>1. Goes("compare", "print")
    BY <1>5 DEF CompareOriginal, At
  <2>2. RunOK("print", job[g], passed, base, remote)
    BY <2>1, Running DEF RunOK, Unfetched, Planning, Planned, AfterChecks, Steps
  <2> QED
    BY <2>1, <2>2, CheckStep DEF Steps
<1>6. CASE Review(g) \/ ReadStatus(g) \/ ReviewLeftTree(g) \/ StampEvidence(g)
  <2>1. PICK from \in {"review", "status", "reviewed", "stamp"},
             to \in {"status", "snapshot", "reviewed", "stamp", "truncate"} :
                 Goes(from, to)
    BY <1>6 DEF Review, ReadStatus, ReviewLeftTree, StampEvidence, PlanIsCurrent, At
  <2>2. RunOK(to, job[g], passed, base, remote)
    BY <2>1, Running DEF RunOK, Unfetched, Planning, Planned, AfterChecks, Steps
  <2> QED
    BY <2>1, <2>2, CheckStep DEF Steps
<1> QED
  BY <1>1, <1>2, <1>3, <1>4, <1>5, <1>6

(* The fields of a run's variables keep their types when one is assigned. *)
LEMMA JobTypes ==
  ASSUME NEW j \in Job
  PROVE  /\ \A o \in TreePrint \cup {None} : [j EXCEPT !.orig = o] \in Job
         /\ \A c \in Change \cup {None} : [j EXCEPT !.change = c] \in Job
         /\ \A i \in Integration \cup {None} : [j EXCEPT !.merged = i] \in Job
         /\ \A e \in Evidence \cup {None} : [j EXCEPT !.payload = e] \in Job
BY DEF Job

LEMMA RecordKeeps ==
  ASSUME IInv, NEW g \in Gate, Record(g)
  PROVE  IInv'
<1> DEFINE j == [job[g] EXCEPT !.orig = Fingerprint]
<1>1. pc[g] = "record" /\ pc' = [pc EXCEPT ![g] = "fetch"]
      /\ job' = [job EXCEPT ![g] = j] /\ UNCHANGED <<shared, history>>
  BY DEF Record, At
<1>2. job[g] \in Job /\ RunOK("record", job[g], passed, base, remote)
  BY <1>1, Running
<1>3. Fingerprint \in TreePrint
  BY DEF Fingerprint, TreePrint, IInv, WorldOK
<1>4. j \in Job
  BY <1>2, <1>3, JobTypes
<1>5. /\ j.since = job[g].since /\ j.command = job[g].command
      /\ j.change = job[g].change
      /\ j.merged = job[g].merged /\ j.payload = job[g].payload
  BY <1>2 DEF Job
<1>6. RunOK("fetch", j, passed, base, remote)
  BY <1>2, <1>4, <1>5 DEF RunOK, Unfetched, Planning, Planned, AfterChecks
<1> QED
  BY <1>1, <1>4, <1>6, QuietStep DEF Steps

(* A plan whose base is the present one, or the one it had, is a plan on a
   base fetched since the run began. *)
LEMMA PlanStep ==
  ASSUME IInv, NEW g \in Gate, NEW c \in Change,
         NEW from \in {"print", "base", "head", "diff"},
         NEW to \in {"base", "head", "diff", "reprint"},
         pc[g] = from, pc' = [pc EXCEPT ![g] = to],
         job' = [job EXCEPT ![g] = [job[g] EXCEPT !.change = c]],
         UNCHANGED <<shared, history>>,
         c.base # base => from # "print" /\ c.base = job[g].change.base
  PROVE  IInv'
<1> DEFINE j == [job[g] EXCEPT !.change = c]
<1>1. job[g] \in Job /\ RunOK(from, job[g], passed, base, remote)
  BY Running
<1>2. j \in Job
  BY <1>1, JobTypes
<1>3. /\ j.since = job[g].since /\ j.command = job[g].command
      /\ j.change = c
      /\ j.merged = job[g].merged /\ j.payload = job[g].payload
  BY <1>1 DEF Job
<1>4. j.command = "pre-push" => j.since <= base
  BY <1>1, <1>3 DEF RunOK, Unfetched
<1>5. j.command = "pre-push" => j.since <= c.base
  BY <1>1, <1>3, <1>4 DEF RunOK, Planned, Unfetched, Steps
<1>6. RunOK(to, j, passed, base, remote)
  BY <1>1, <1>2, <1>3, <1>4, <1>5 DEF RunOK, Unfetched, Planning, Planned, AfterChecks
<1>7. to \in Steps
  BY DEF Steps
<1> HIDE DEF j
<1> QED
  BY <1>2, <1>6, <1>7, QuietStep DEF j

LEMMA PlanKeeps ==
  ASSUME IInv, NEW g \in Gate,
         PlanFingerprint(g) \/ ResolveBase(g) \/ PlanHead(g) \/ PlanDiff(g)
  PROVE  IInv'
<1> DEFINE c == job[g].change
<1>0. /\ base \in Base /\ head \in Commit /\ work \in Content
      /\ Fingerprint \in TreePrint /\ Fork[head] \in Base
  BY ForkAssumption DEF Fingerprint, TreePrint, IInv, WorldOK
<1>1. CASE PlanFingerprint(g)
  <2> DEFINE d == [print |-> Fingerprint, base |-> base, from |-> Fork[head],
                   head |-> head, diff |-> work]
  <2>1. d \in Change /\ d.base = base
    BY <1>0 DEF Change
  <2>2. pc[g] = "print" /\ pc' = [pc EXCEPT ![g] = "base"]
        /\ job' = [job EXCEPT ![g] = [job[g] EXCEPT !.change = d]]
        /\ UNCHANGED <<shared, history>>
    BY <1>1 DEF PlanFingerprint, At
  <2> QED
    BY <2>1, <2>2, PlanStep
<1>2. CASE ResolveBase(g)
  <2>0. pc[g] = "base" /\ pc' = [pc EXCEPT ![g] = "head"]
        /\ job' = [job EXCEPT ![g].change.base = base,
                                ![g].change.from = Fork[head]]
        /\ UNCHANGED <<shared, history>>
    BY <1>2 DEF ResolveBase, At
  <2> DEFINE d == [c EXCEPT !.base = base, !.from = Fork[head]]
  <2>1. job[g] \in Job /\ c \in Change
    BY <2>0, Running DEF RunOK, Planned, Steps, Unfetched
  <2>2. d \in Change /\ d.base = base
    BY <1>0, <2>1 DEF Change
  <2>3. job' = [job EXCEPT ![g] = [job[g] EXCEPT !.change = d]]
    <3>1. job \in [Gate -> Job \cup {None}]
      BY DEF IInv, RunsOK
    <3> QED
      BY <2>0, <2>1, <3>1 DEF Job, Change
  <2> QED
    BY <2>0, <2>2, <2>3, PlanStep
<1>3. CASE PlanHead(g)
  <2>0. pc[g] = "head" /\ pc' = [pc EXCEPT ![g] = "diff"]
        /\ job' = [job EXCEPT ![g].change.head = head]
        /\ UNCHANGED <<shared, history>>
    BY <1>3 DEF PlanHead, At
  <2> DEFINE d == [c EXCEPT !.head = head]
  <2>1. c \in Change
    BY <2>0, Running DEF RunOK, Planned, Steps, Unfetched
  <2>2. d \in Change /\ d.base = c.base
    BY <1>0, <2>1 DEF Change
  <2>3. job' = [job EXCEPT ![g] = [job[g] EXCEPT !.change = d]]
    BY <2>0
  <2> QED
    BY <2>0, <2>2, <2>3, PlanStep
<1>4. CASE PlanDiff(g)
  <2>0. pc[g] = "diff" /\ pc' = [pc EXCEPT ![g] = "reprint"]
        /\ job' = [job EXCEPT ![g].change.diff = work]
        /\ UNCHANGED <<shared, history>>
    BY <1>4 DEF PlanDiff, At
  <2> DEFINE d == [c EXCEPT !.diff = work]
  <2>1. c \in Change
    BY <2>0, Running DEF RunOK, Planned, Steps, Unfetched
  <2>2. d \in Change /\ d.base = c.base
    BY <1>0, <2>1 DEF Change
  <2>3. job' = [job EXCEPT ![g] = [job[g] EXCEPT !.change = d]]
    BY <2>0
  <2> QED
    BY <2>0, <2>2, <2>3, PlanStep
<1> QED
  BY <1>1, <1>2, <1>3, <1>4

LEMMA ReadEvidenceKeeps ==
  ASSUME IInv, NEW g \in Gate, ReadEvidence(g)
  PROVE  IInv'
<1> DEFINE j == [job[g] EXCEPT !.payload = evidence]
<1>1. pc[g] = "read" /\ pc' = [pc EXCEPT ![g] = "print"]
      /\ job' = [job EXCEPT ![g] = j] /\ UNCHANGED <<shared, history>>
  BY DEF ReadEvidence, At
<1>2. job[g] \in Job /\ RunOK("read", job[g], passed, base, remote)
  BY <1>1, Running
<1>3. evidence \in Evidence /\ evidence # None /\ evidence.integration \in passed
  BY MarksAssumption DEF ReadEvidence, IInv, CheckedOK
<1>4. j \in Job
  BY <1>2, <1>3, JobTypes
<1>5. /\ j.since = job[g].since /\ j.command = job[g].command
      /\ j.payload = evidence
  BY <1>2 DEF Job
<1>6. RunOK("print", j, passed, base, remote)
  BY <1>2, <1>3, <1>4, <1>5 DEF RunOK, Unfetched, Planning, Planned, AfterChecks
<1> QED
  BY <1>1, <1>4, <1>6, QuietStep DEF Steps

-----------------------------------------------------------------------------
(* Steps of a run that change what is shared. *)

LEMMA RefreshKeeps ==
  ASSUME IInv, NEW g \in Gate, RefreshAuthoritativeBase(g)
  PROVE  IInv'
<1>1. PICK to \in {"read", "print"} :
          /\ pc[g] = "fetch" /\ pc' = [pc EXCEPT ![g] = to]
          /\ base' = remote /\ job' = job
          /\ UNCHANGED <<remote, developer, private, leftover, evidence, runs, history>>
  BY DEF RefreshAuthoritativeBase, At, FetchedTip
<1>2. /\ job[g] \in Job /\ job = [job EXCEPT ![g] = job[g]]
      /\ RunOK("fetch", job[g], passed, base, remote)
  BY <1>1, Running
<1>3. base \in Nat /\ remote \in Nat /\ base <= remote
  BY BaseNat DEF IInv, WorldOK
<1>4. base <= base' /\ remote <= remote' /\ base' <= remote'
  BY <1>1, <1>3
<1>5. WorldOK'
  BY <1>1, <1>4 DEF IInv, WorldOK, developer
<1>6. HistoryOK' /\ passed' = passed
  BY <1>1 DEF IInv, HistoryOK, history
<1>7. CheckedOK'
  BY <1>1 DEF IInv, CheckedOK, AcceptedWasChecked, AcceptedIsCurrent, history
<1>8. RunOK(to, job[g], passed', base', remote')
  BY <1>1, <1>2, <1>6 DEF RunOK, Unfetched, Planning, Planned, AfterChecks
<1>9. to \in Steps
  BY DEF Steps
<1> QED
  BY <1>1, <1>2, <1>4, <1>5, <1>6, <1>7, <1>8, <1>9, RunStep

(* A private directory is opened or closed: nothing else that is shared. *)
LEMMA DirectoryStep ==
  ASSUME IInv, NEW g \in Gate, NEW p \in Steps, NEW j \in Job,
         pc' = [pc EXCEPT ![g] = p], job' = [job EXCEPT ![g] = j],
         private' \subseteq Gate,
         UNCHANGED <<remote, base, developer, leftover, evidence, runs, history>>,
         RunOK(p, j, passed, base, remote)
  PROVE  IInv'
<1>1. WorldOK'
  BY DEF IInv, WorldOK, developer
<1>2. HistoryOK' /\ passed' = passed
  BY DEF IInv, HistoryOK, history
<1>3. CheckedOK'
  BY DEF IInv, CheckedOK, AcceptedWasChecked, AcceptedIsCurrent, history
<1>4. base \in Nat /\ remote \in Nat
  BY BaseNat DEF IInv, WorldOK
<1>5. base <= base' /\ remote <= remote'
  BY <1>4
<1> QED
  BY <1>1, <1>2, <1>3, <1>5, RunStep

LEMMA OpenKeeps ==
  ASSUME IInv, NEW g \in Gate, OpenMerge(g) \/ OpenChecks(g) \/ OpenSnapshot(g)
  PROVE  IInv'
<1>1. PICK from \in {"merge", "checkout", "snapshot"},
           to \in {"merged", "checks", "snapped"} :
          /\ pc[g] = from /\ pc' = [pc EXCEPT ![g] = to]
          /\ to = "merged" => from = "merge"
          /\ to = "checks" => from = "checkout"
          /\ to = "snapped" => from = "snapshot"
          /\ private' = private \cup {g} /\ job' = job
          /\ UNCHANGED <<remote, base, developer, leftover, evidence, runs, history>>
  BY DEF OpenMerge, OpenChecks, OpenSnapshot, OpenWorktree, At
<1>2. /\ job[g] \in Job /\ job = [job EXCEPT ![g] = job[g]]
      /\ RunOK(from, job[g], passed, base, remote)
  BY <1>1, Running
<1>3. RunOK(to, job[g], passed, base, remote)
  BY <1>1, <1>2 DEF RunOK, Unfetched, Planning, Planned, AfterChecks, Steps
<1>4. private' \subseteq Gate /\ to \in Steps
  BY <1>1 DEF IInv, WorldOK, Steps
<1> QED
  BY <1>1, <1>2, <1>3, <1>4, DirectoryStep

LEMMA CloseMergeKeeps ==
  ASSUME IInv, NEW g \in Gate, CloseMerge(g)
  PROVE  IInv'
<1> DEFINE i == <<job[g].change.base, job[g].change.head>>
           j == [job[g] EXCEPT !.merged = i]
<1>1. PICK to \in {"checkout", "decide"} :
          /\ pc[g] = "merged" /\ pc' = [pc EXCEPT ![g] = to]
          /\ to = "decide" <=> job[g].payload # None
          /\ private' = private \ {g} /\ job' = [job EXCEPT ![g] = j]
          /\ UNCHANGED <<remote, base, developer, leftover, evidence, runs, history>>
  BY DEF CloseMerge, At, WithoutWorktree
<1>2. job[g] \in Job /\ RunOK("merged", job[g], passed, base, remote)
  BY <1>1, Running
<1>3. job[g].change \in Change /\ PolicyKept(i)
  BY <1>2 DEF RunOK, Planned, Steps, Unfetched
<1>4. i \in Integration
  BY <1>3 DEF Integration, Change
<1>5. j \in Job
  BY <1>2, <1>4, JobTypes
<1>6. /\ j.since = job[g].since /\ j.command = job[g].command
      /\ j.change = job[g].change
      /\ j.merged = i /\ j.payload = job[g].payload
  BY <1>2 DEF Job
<1>7. RunOK(to, j, passed, base, remote)
  BY <1>1, <1>2, <1>3, <1>4, <1>5, <1>6
  DEF RunOK, Unfetched, Planning, Planned, AfterChecks, Steps
<1>8. private' \subseteq Gate /\ to \in Steps
  BY <1>1 DEF IInv, WorldOK, Steps
<1> QED
  BY <1>1, <1>5, <1>7, <1>8, DirectoryStep

LEMMA CloseSnapshotKeeps ==
  ASSUME IInv, NEW g \in Gate, CloseSnapshot(g)
  PROVE  IInv'
<1>1. /\ pc[g] = "snapped" /\ pc' = [pc EXCEPT ![g] = "reviewed"]
      /\ private' = private \ {g} /\ job' = job
      /\ UNCHANGED <<remote, base, developer, leftover, evidence, runs, history>>
  BY DEF CloseSnapshot, At, WithoutWorktree
<1>2. /\ job[g] \in Job /\ job = [job EXCEPT ![g] = job[g]]
      /\ RunOK("snapped", job[g], passed, base, remote)
  BY <1>1, Running
<1>3. RunOK("reviewed", job[g], passed, base, remote)
  BY <1>1, <1>2 DEF RunOK, Unfetched, Planning, Planned, AfterChecks, Steps
<1>4. private' \subseteq Gate /\ "reviewed" \in Steps
  BY <1>1 DEF IInv, WorldOK, Steps
<1> QED
  BY <1>1, <1>2, <1>3, <1>4, DirectoryStep

LEMMA ChecksPassKeeps ==
  ASSUME IInv, NEW g \in Gate, ChecksPass(g)
  PROVE  IInv'
<1> DEFINE m == job[g].merged
<1>1. /\ pc[g] = "checks" /\ passed' = passed \cup {m}
      /\ private' = private \ {g}
      /\ UNCHANGED <<remote, base, developer, leftover, evidence, runs, succeeded,
                     accepted>>
  BY DEF ChecksPass, WithoutWorktree
<1>2. /\ job[g] \in Job /\ job = [job EXCEPT ![g] = job[g]]
      /\ RunOK("checks", job[g], passed, base, remote)
  BY <1>1, Running
<1>3. m \in Integration /\ PolicyKept(m)
  BY <1>2 DEF RunOK
<1>4. WorldOK'
  BY <1>1 DEF IInv, WorldOK, developer
<1>5. CheckedOK'
  BY <1>1, <1>3 DEF IInv, CheckedOK, AcceptedWasChecked, AcceptedIsCurrent
<1>6. base \in Nat /\ remote \in Nat
  BY BaseNat DEF IInv, WorldOK
<1>7. base <= base' /\ remote <= remote' /\ passed \subseteq passed'
  BY <1>1, <1>6
<1>8. PICK p \in Steps, j \in Job \cup {None} :
          /\ pc' = [pc EXCEPT ![g] = p] /\ job' = [job EXCEPT ![g] = j]
          /\ p = "idle" \/ (p = "clean again" /\ j = job[g])
  <2>1. CASE job[g].command = "validate"
    <3>1. pc' = [pc EXCEPT ![g] = "idle"] /\ job' = [job EXCEPT ![g] = None]
      BY <2>1 DEF ChecksPass, Succeed, Close
    <3>2. "idle" \in Steps
      BY DEF Steps
    <3>3. None \in Job \cup {None}
      OBVIOUS
    <3> QED
      BY <3>1, <3>2, <3>3, Zenon
  <2>2. CASE job[g].command # "validate"
    <3>1. pc' = [pc EXCEPT ![g] = "clean again"] /\ job' = job
      BY <2>2 DEF ChecksPass, At
    <3>2. job' = [job EXCEPT ![g] = job[g]] /\ "clean again" \in Steps
      BY <3>1, <1>2 DEF Steps
    <3> QED
      BY <3>1, <3>2, <1>2
  <2> QED
    BY <2>1, <2>2
<1>9. outcome' \in [Gate -> {"none", "ok"}] /\ calm' \in [Gate -> BOOLEAN]
  <2>1. CASE job[g].command = "validate"
    BY <2>1 DEF ChecksPass, Succeed, Close, IInv, HistoryOK
  <2>2. CASE job[g].command # "validate"
    BY <2>2 DEF ChecksPass, IInv, HistoryOK
  <2> QED
    BY <2>1, <2>2
<1>10. HistoryOK'
  BY <1>1, <1>3, <1>9 DEF IInv, HistoryOK
<1>11. RunOK(p, j, passed', base', remote')
  <2>1. CASE p = "idle"
    BY <2>1 DEF RunOK
  <2>2. CASE p = "clean again" /\ j = job[g]
    <3>1. m \in passed' /\ base' = base /\ remote' = remote
      BY <1>1
    <3> QED
      BY <2>2, <1>2, <1>7, <3>1 DEF RunOK, Unfetched, Planning, Planned, AfterChecks, Steps
  <2> QED
    BY <1>8, <2>1, <2>2
<1> QED
  BY <1>4, <1>5, <1>7, <1>8, <1>10, <1>11, RunStep

(* Only a run whose checks have passed writes the evidence file. *)
LEMMA EvidenceStep ==
  ASSUME IInv, NEW g \in Gate, TruncateEvidence(g) \/ WriteEvidence(g)
  PROVE  IInv'
<1>1. PICK from \in {"truncate", "write"}, to \in {"write", "read"} :
          /\ pc[g] = from /\ pc' = [pc EXCEPT ![g] = to] /\ job' = job
          /\ UNCHANGED <<remote, base, developer, private, leftover, runs, history>>
          /\ \/ evidence' = Garbage
             \/ evidence' = [change |-> job[g].change, integration |-> job[g].merged]
  BY DEF TruncateEvidence, WriteEvidence, At
<1>2. /\ job[g] \in Job /\ job = [job EXCEPT ![g] = job[g]]
      /\ RunOK(from, job[g], passed, base, remote)
  BY <1>1, Running
<1>3. /\ job[g].change \in Change
      /\ job[g].merged \in passed /\ job[g].merged \in Integration
  BY <1>2 DEF RunOK, Planned, Steps, Unfetched, AfterChecks, IInv, HistoryOK
<1>4. /\ evidence' \in Evidence \cup {None, Garbage}
      /\ evidence' \in Evidence => evidence'.integration \in passed
  BY <1>1, <1>3, MarksAssumption DEF Evidence
<1>5. WorldOK'
  BY <1>1, <1>4 DEF IInv, WorldOK, developer
<1>6. HistoryOK' /\ passed' = passed
  BY <1>1 DEF IInv, HistoryOK, history
<1>7. CheckedOK'
  BY <1>1, <1>4 DEF IInv, CheckedOK, AcceptedWasChecked, AcceptedIsCurrent, history
<1>8. base \in Nat /\ remote \in Nat
  BY BaseNat DEF IInv, WorldOK
<1>9. base <= base' /\ remote <= remote' /\ passed \subseteq passed'
  BY <1>1, <1>6, <1>8
<1>10. RunOK(to, job[g], passed, base, remote)
  BY <1>2 DEF RunOK, Unfetched, Planning, Planned, AfterChecks, Steps
<1>11. RunOK(to, job[g], passed', base', remote')
  BY <1>1, <1>6, <1>10
<1>12. to \in Steps
  BY DEF Steps
<1> QED
  BY <1>1, <1>2, <1>5, <1>6, <1>7, <1>9, <1>11, <1>12, RunStep

(* The end of a run that is decided: what its evidence says is what it has
   planned and integrated itself. *)
LEMMA Decided ==
  ASSUME IInv, NEW g \in Gate, Decide(g)
  PROVE  LET c == job[g].payload.change IN
         /\ job[g] \in Job
         /\ c \in Change
         /\ <<c.base, c.head>> \in passed
         /\ job[g].command = "pre-push" => job[g].since <= c.base
<1>1. pc[g] = "decide" /\ Matches(g)
  BY DEF Decide
<1>2. job[g] \in Job /\ RunOK("decide", job[g], passed, base, remote)
  BY <1>1, Running
<1>3. /\ job[g].change \in Change /\ job[g].payload # None
      /\ job[g].merged = <<job[g].change.base, job[g].change.head>>
  BY <1>2 DEF RunOK, Planned, Steps, Unfetched
<1>4. job[g].payload.integration \in passed
  BY <1>2, <1>3 DEF RunOK
<1>5. job[g].payload.change = job[g].change
      /\ job[g].payload.integration = job[g].merged
  BY <1>1 DEF Matches
<1>6. job[g].command = "pre-push" => job[g].since <= job[g].change.base
  BY <1>2 DEF RunOK, Planned, Steps, Unfetched
<1> QED
  BY <1>2, <1>3, <1>4, <1>5, <1>6

LEMMA DecideKeeps ==
  ASSUME IInv, NEW g \in Gate, ReportReady(g) \/ AcceptPush(g)
  PROVE  IInv'
<1> DEFINE c == job[g].payload.change
           a == [head |-> job[g].pushed, base |-> c.base, since |-> job[g].since]
<1>1. /\ Decide(g) /\ pc' = [pc EXCEPT ![g] = "idle"]
      /\ job' = [job EXCEPT ![g] = None]
      /\ UNCHANGED shared /\ passed' = passed
  BY DEF ReportReady, AcceptPush, Decide, Succeed, Close
<1>2. outcome' = [outcome EXCEPT ![g] = "ok"] /\ calm' = [calm EXCEPT ![g] = FALSE]
  BY DEF ReportReady, AcceptPush, Decide, Succeed, Close
<1>3. /\ job[g] \in Job /\ c \in Change /\ <<c.base, c.head>> \in passed
      /\ job[g].command = "pre-push" => job[g].since <= c.base
  BY <1>1, Decided
<1>4. succeeded' \subseteq Change
  BY <1>3 DEF ReportReady, AcceptPush, IInv, HistoryOK
<1>5. \/ accepted' = accepted
      \/ /\ accepted' = accepted \cup {a}
         /\ job[g].command = "pre-push" /\ job[g].pushed = c.head
  BY DEF ReportReady, AcceptPush
<1>6. a \in [head : Commit, base : Base, since : Base]
  BY <1>3 DEF Job, Change
<1>7. a.head = job[g].pushed /\ a.base = c.base /\ a.since = job[g].since
  OBVIOUS
<1>8. PolicyKept(<<c.base, c.head>>)
  BY <1>3 DEF IInv, CheckedOK
<1>9. c.base \in Nat /\ job[g].since \in Nat
  BY <1>3, BaseNat DEF Job, Change
<1>10. ASSUME NEW x \in accepted'
       PROVE  /\ x \in [head : Commit, base : Base, since : Base]
              /\ <<x.base, x.head>> \in passed
              /\ BasePolicy[x.base] = HeadPolicy[x.head]
              /\ x.base >= x.since
  <2>1. CASE x \in accepted
    BY <2>1 DEF IInv, HistoryOK, CheckedOK, AcceptedWasChecked, AcceptedIsCurrent
  <2>2. CASE x = a /\ job[g].command = "pre-push" /\ job[g].pushed = c.head
    BY <2>2, <1>3, <1>6, <1>7, <1>8, <1>9 DEF PolicyKept
  <2> QED
    BY <1>5, <2>1, <2>2
<1>11. WorldOK'
  BY <1>1 DEF IInv, WorldOK, shared, developer
<1>12. outcome' \in [Gate -> {"none", "ok"}] /\ calm' \in [Gate -> BOOLEAN]
  BY <1>2 DEF IInv, HistoryOK
<1>13. HistoryOK'
  BY <1>1, <1>4, <1>10, <1>12 DEF IInv, HistoryOK
<1>14. CheckedOK'
  BY <1>1, <1>10 DEF IInv, CheckedOK, AcceptedWasChecked, AcceptedIsCurrent, shared
<1>15. base \in Nat /\ remote \in Nat /\ base' = base /\ remote' = remote
  BY <1>1, BaseNat DEF IInv, WorldOK, shared
<1>16. base <= base' /\ remote <= remote' /\ passed \subseteq passed'
  BY <1>1, <1>15
<1>17. RunOK("idle", None, passed', base', remote') /\ "idle" \in Steps
  BY DEF RunOK, Steps
<1> QED
  BY <1>1, <1>11, <1>13, <1>14, <1>16, <1>17, RunStep

-----------------------------------------------------------------------------
(* The beginning and the end of a run, and the others. *)

LEMMA BeginKeeps ==
  ASSUME IInv, NEW g \in Gate, NEW command \in Command, NEW pushed \in Commit,
         Begin(g, command, pushed)
  PROVE  IInv'
<1> DEFINE j == [command |-> command, orig |-> None, change |-> None,
                 merged |-> None, payload |-> None, pushed |-> pushed,
                 since |-> remote]
<1>1. /\ runs < MaxRuns /\ runs' = runs + 1
      /\ job' = [job EXCEPT ![g] = j]
      /\ UNCHANGED <<remote, base, developer, private, leftover, evidence, passed,
                     succeeded, accepted>>
  BY DEF Begin
<1>2. PICK to \in {"read", "clean"} :
          /\ pc' = [pc EXCEPT ![g] = to]
          /\ to = "read" => command = "verify"
  BY DEF Begin
<1>3. j \in Job
  BY GatesAssumption DEF Job, IInv, WorldOK
<1>4. runs' \in 0..MaxRuns
  BY <1>1, PushBounds DEF IInv, WorldOK
<1>5. WorldOK'
  BY <1>1, <1>4 DEF IInv, WorldOK, developer
<1>6. outcome' \in [Gate -> {"none", "ok"}] /\ calm' \in [Gate -> BOOLEAN]
  BY DEF Begin, IInv, HistoryOK
<1>7. HistoryOK'
  BY <1>1, <1>6 DEF IInv, HistoryOK
<1>8. CheckedOK'
  BY <1>1 DEF IInv, CheckedOK, AcceptedWasChecked, AcceptedIsCurrent
<1>9. base \in Nat /\ remote \in Nat /\ base' = base /\ remote' = remote
  BY <1>1, BaseNat DEF IInv, WorldOK
<1>10. base <= base' /\ remote <= remote' /\ passed \subseteq passed'
  BY <1>1, <1>9
<1>11. RunOK(to, j, passed', base', remote')
  BY <1>2, <1>3, <1>9, <1>10 DEF RunOK, Unfetched, Planning, Planned, AfterChecks
<1>12. to \in Steps
  BY DEF Steps
<1> HIDE DEF j
<1> QED
  BY <1>1, <1>2, <1>3, <1>5, <1>7, <1>8, <1>10, <1>11, <1>12, RunStep

LEMMA AbortKeeps ==
  ASSUME IInv, NEW g \in Gate, Abort(g)
  PROVE  IInv'
<1>1. /\ pc' = [pc EXCEPT ![g] = "idle"] /\ job' = [job EXCEPT ![g] = None]
      /\ calm' = [calm EXCEPT ![g] = FALSE] /\ private' = private \ {g}
      /\ leftover' \in {leftover, leftover \/ g \in private}
      /\ UNCHANGED <<remote, base, developer, evidence, runs, passed, succeeded,
                     accepted, outcome>>
  BY DEF Abort, Close
<1>2. leftover' \in BOOLEAN
  BY <1>1, Zenon DEF IInv, WorldOK
<1>3. WorldOK'
  BY <1>1, <1>2 DEF IInv, WorldOK, developer
<1>4. calm' \in [Gate -> BOOLEAN]
  BY <1>1 DEF IInv, HistoryOK
<1>5. HistoryOK'
  BY <1>1, <1>4 DEF IInv, HistoryOK
<1>6. CheckedOK'
  BY <1>1 DEF IInv, CheckedOK, AcceptedWasChecked, AcceptedIsCurrent
<1>7. base \in Nat /\ remote \in Nat /\ base' = base /\ remote' = remote
  BY <1>1, BaseNat DEF IInv, WorldOK
<1>8. base <= base' /\ remote <= remote' /\ passed \subseteq passed'
  BY <1>1, <1>7
<1>9. RunOK("idle", None, passed', base', remote') /\ "idle" \in Steps
  BY DEF RunOK, Steps
<1> QED
  BY <1>1, <1>3, <1>5, <1>6, <1>8, <1>9, RunStep

(* Others advance the base, work in the checkout or remove a leftover. *)
LEMMA OthersKeep ==
  ASSUME IInv,
         \/ Advance
         \/ \E h \in Commit, w \in Content : Move(h, w)
         \/ RemoveLeftover
  PROVE  IInv'
<1>1. /\ UNCHANGED <<base, private, evidence, runs, pc, job, passed, succeeded,
                     accepted, outcome>>
  BY DEF Advance, Move, RemoveLeftover, developer, history
<1>2. base \in Nat /\ remote \in Nat /\ base <= remote /\ MaxBase \in Nat
  BY BaseNat, PushBounds DEF IInv, WorldOK
<1>3. remote' \in Base /\ remote <= remote'
  <2>1. CASE Advance
    BY <2>1, <1>2 DEF Advance, Base
  <2>2. CASE remote' = remote
    BY <2>2, <1>2 DEF IInv, WorldOK
  <2> QED
    BY <2>1, <2>2 DEF Move, RemoveLeftover
<1>4. base' <= remote' /\ base <= base'
  BY <1>1, <1>2, <1>3, BaseNat
<1>5. head' \in Commit /\ work' \in Content /\ moves' \in 0..MaxMoves
  <2>1. CASE \E h \in Commit, w \in Content : Move(h, w)
    BY <2>1, PushBounds DEF Move, IInv, WorldOK
  <2>2. CASE UNCHANGED developer
    BY <2>2 DEF IInv, WorldOK, developer
  <2> QED
    BY <2>1, <2>2 DEF Advance, RemoveLeftover
<1>6. leftover' \in BOOLEAN
  BY DEF Advance, Move, RemoveLeftover, IInv, WorldOK
<1>7. WorldOK'
  BY <1>1, <1>3, <1>4, <1>5, <1>6 DEF IInv, WorldOK
<1>8. calm' \in [Gate -> BOOLEAN]
  BY DEF Advance, Move, RemoveLeftover, history, IInv, HistoryOK
<1>9. HistoryOK'
  BY <1>1, <1>8 DEF IInv, HistoryOK
<1>10. CheckedOK'
  BY <1>1 DEF IInv, CheckedOK, AcceptedWasChecked, AcceptedIsCurrent
<1>11. ASSUME NEW h \in Gate
       PROVE  RunOK(pc[h], job[h], passed, base, remote')
  <2>1. RunOK(pc[h], job[h], passed, base, remote)
    BY DEF IInv, RunsOK
  <2>2. base \in Base /\ remote \in Base /\ base <= base
    BY <1>2 DEF IInv, WorldOK
  <2> QED
    BY <2>1, <2>2, <1>3, KnownStays
<1>12. RunsOK'
  BY <1>1, <1>11 DEF IInv, RunsOK
<1> QED
  BY <1>7, <1>9, <1>10, <1>12 DEF IInv

-----------------------------------------------------------------------------
LEMMA InitOK == Init => IInv
<1> SUFFICES ASSUME Init PROVE IInv
  OBVIOUS
<1>1. 0 \in Base /\ 0 \in 0..MaxMoves /\ 0 \in 0..MaxRuns /\ 0 <= 0
  BY PushBounds DEF Base
<1>2. WorldOK
  BY <1>1 DEF Init, WorldOK, Content
<1>3. HistoryOK
  BY DEF Init, HistoryOK
<1>4. RunsOK
  BY DEF Init, RunsOK, RunOK, Steps
<1>5. CheckedOK
  BY MarksAssumption DEF Init, CheckedOK, AcceptedWasChecked, AcceptedIsCurrent
<1> QED
  BY <1>2, <1>3, <1>4, <1>5 DEF IInv

LEMMA NextOK == IInv /\ [Next]_vars => IInv'
<1> SUFFICES ASSUME IInv, [Next]_vars PROVE IInv'
  OBVIOUS
<1>1. CASE \/ Advance
           \/ \E h \in Commit, w \in Content : Move(h, w)
           \/ RemoveLeftover
  BY <1>1, OthersKeep
<1>2. CASE \E g \in Gate : \E command \in Command, pushed \in Commit :
               Begin(g, command, pushed)
  BY <1>2, BeginKeeps
<1>3. CASE \E g \in Gate : Continue(g)
  <2>1. PICK g \in Gate : Continue(g)
    BY <1>3
  <2> QED
    BY <2>1, ChecksKeep, RecordKeeps, RefreshKeeps, PlanKeeps, OpenKeeps,
       CloseMergeKeeps, CloseSnapshotKeeps, ChecksPassKeeps, EvidenceStep, ReadEvidenceKeeps,
       DecideKeeps, Zenon DEF Continue
<1>4. CASE \E g \in Gate : Abort(g)
  BY <1>4, AbortKeeps
<1>5. CASE UNCHANGED vars
  BY <1>5 DEF vars, shared, developer, history, IInv, WorldOK, HistoryOK, RunsOK,
     CheckedOK, AcceptedWasChecked, AcceptedIsCurrent
<1> QED
  BY <1>1, <1>2, <1>3, <1>4, <1>5 DEF Next

(* The invariant holds of every behaviour of any number of runs. *)
THEOREM Invariance == Spec => []IInv
<1>1. Init => IInv
  BY InitOK
<1>2. IInv /\ [Next]_vars => IInv'
  BY NextOK
<1> QED
  BY <1>1, <1>2, PTL DEF Spec

(* Every variable keeps its type: no run uses a plan, an integration or an
   evidence record that it does not have. *)
THEOREM TypeCorrect == Spec => []TypeOK
<1>1. IInv => TypeOK
  BY DEF IInv, WorldOK, HistoryOK, RunsOK, TypeOK
<1> QED
  BY <1>1, Invariance, PTL

(* scripts/lit-push-ready.py, verify_pre_push_updates: what pre-push accepts
   has passed every check on its integration with the base the evidence names,
   under the policy of that base. *)
THEOREM PushWasChecked == Spec => []AcceptedWasChecked
<1>1. IInv => AcceptedWasChecked
  BY DEF IInv, CheckedOK
<1> QED
  BY <1>1, Invariance, PTL

(* scripts/lit-push-ready.py, refresh_authoritative_base: that base is not
   older than the base branch was when the push began. *)
THEOREM PushIsCurrent == Spec => []AcceptedIsCurrent
<1>1. IInv => AcceptedIsCurrent
  BY DEF IInv, CheckedOK
<1> QED
  BY <1>1, Invariance, PTL
=============================================================================
