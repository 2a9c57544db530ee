------------------------------- MODULE PushReady -------------------------------
(***************************************************************************)
(* scripts/lit-push-ready.py in one checkout: the commands push-ready,     *)
(* validate, verify and pre-push, run one after the other or at the same   *)
(* time, while the developer edits and commits, the base branch advances   *)
(* and runs fail or are killed.                                            *)
(*                                                                         *)
(* Every read of something that others change (HEAD, the working tree, the *)
(* remote-tracking base, the evidence file) is an action.  A base commit   *)
(* is its position in the history of the protected base branch.  The       *)
(* integration of a base and a head stands for the merge tree and the      *)
(* synthetic commit, which names both parents.                             *)
(***************************************************************************)
EXTENDS Naturals, FiniteSets

CONSTANTS
    Gate,        \* processes that may run the engine in this checkout
    Command,     \* the commands that are run
    Commit,      \* commits of the feature branch
    Fork,        \* Fork[c]: the base commit that c was made on, its merge base
    Edited,      \* uncommitted content of the working tree
    Policy,      \* contents of the trusted check-policy files
    BasePolicy,  \* BasePolicy[b]: the policy files of base commit b
    HeadPolicy,  \* HeadPolicy[c]: the policy files of commit c
    MaxBase,     \* bound on the commits of the base branch
    MaxMoves,    \* bound on what the developer does
    MaxRuns,     \* bound on the runs of the engine
    Garbage,     \* an evidence file that is not a JSON document
    None

Base == 0..MaxBase
Content == Commit \cup {Edited}
Integration == Base \X Commit

ASSUME GatesAssumption ==
    /\ Gate # {} /\ Edited \notin Commit
    /\ Command \subseteq {"push-ready", "validate", "verify", "pre-push"}
ASSUME PolicyAssumption == /\ BasePolicy \in [Base -> Policy]
                           /\ HeadPolicy \in [Commit -> Policy]
ASSUME ForkAssumption == Fork \in [Commit -> Base]
ASSUME PushBounds == MaxBase \in Nat /\ MaxMoves \in Nat /\ MaxRuns \in Nat

(* tree_fingerprint, and what planned_change reads between two of them. *)
TreePrint == Commit \X Content
Change == [print : TreePrint, base : Base, from : Base, head : Commit, diff : Content]
Evidence == [change : Change, integration : Integration]
Job == [command : Command,
        orig : TreePrint \cup {None},
        change : Change \cup {None},
        merged : Integration \cup {None},
        payload : Evidence \cup {None},
        pushed : Commit,
        since : Base]

ASSUME MarksAssumption ==
    /\ None \notin TreePrint \cup Change \cup Integration \cup Evidence
    /\ Garbage \notin Evidence /\ None # Garbage
    /\ None \notin Job

VARIABLES
    remote,    \* the base branch on GitHub
    base,      \* its remote-tracking ref, shared by all runs
    head,      \* HEAD
    work,      \* content of the working tree, of which HEAD's is clean
    private,   \* gates whose .lit-integration-* directory exists
    leftover,  \* such a directory survives the run that made it
    evidence,  \* .git/lit-push-ready-evidence.json
    moves,
    runs,
    pc,
    job,       \* local variables of a run
    \* History variables: written by the steps, read by the properties only.
    passed,    \* integrations on which every check passed
    succeeded, \* changes that push-ready reported as ready
    accepted,  \* pushes that pre-push let through
    outcome,   \* outcome[g]: "ok" when the latest run of g has succeeded
    calm       \* calm[g]: nobody interfered with the run of g so far

developer == <<head, work, moves>>
shared == <<remote, base, developer, private, leftover, evidence, runs>>
history == <<passed, succeeded, accepted, outcome, calm>>
vars == <<shared, pc, job, history>>

Steps == {"idle", "clean", "record", "fetch", "print", "base", "head", "diff",
          "reprint", "policy", "merge", "merged", "checkout", "checks",
          "clean again", "compare", "review", "status", "snapshot", "snapped",
          "reviewed", "stamp", "truncate", "write", "read", "decide"}

TypeOK ==
    /\ remote \in Base
    /\ base \in Base
    /\ head \in Commit
    /\ work \in Content
    /\ private \subseteq Gate
    /\ leftover \in BOOLEAN
    /\ evidence \in Evidence \cup {None, Garbage}
    /\ moves \in 0..MaxMoves
    /\ runs \in 0..MaxRuns
    /\ pc \in [Gate -> Steps]
    /\ job \in [Gate -> Job \cup {None}]
    /\ passed \subseteq Integration
    /\ succeeded \subseteq Change
    /\ accepted \subseteq [head : Commit, base : Base, since : Base]
    /\ outcome \in [Gate -> {"none", "ok"}]
    /\ calm \in [Gate -> BOOLEAN]

Init ==
    /\ remote = 0
    /\ base = 0
    /\ head \in {c \in Commit : Fork[c] = 0}
    /\ work = head
    /\ private = {}
    /\ leftover = FALSE
    /\ evidence = None
    /\ moves = 0
    /\ runs = 0
    /\ pc = [g \in Gate |-> "idle"]
    /\ job = [g \in Gate |-> None]
    /\ passed = {}
    /\ succeeded = {}
    /\ accepted = {}
    /\ outcome = [g \in Gate |-> "none"]
    /\ calm = [g \in Gate |-> FALSE]

-----------------------------------------------------------------------------
(* Other people merge into the base branch; the developer works. *)

Advance ==
    /\ remote < MaxBase
    /\ remote' = remote + 1
    /\ calm' = [g \in Gate |-> /\ calm[g]
                                /\ job[g].command \in {"push-ready", "validate"}
                                /\ BasePolicy[remote + 1] = BasePolicy[remote]]
    /\ UNCHANGED <<base, developer, private, leftover, evidence, runs, pc, job,
                   passed, succeeded, accepted, outcome>>

(* Edit, commit, check out, reset: HEAD and working tree change together.  A
   commit is made on a base commit that is known here. *)
Move(h, w) ==
    /\ moves < MaxMoves
    /\ Fork[h] <= base
    /\ moves' = moves + 1
    /\ head' = h
    /\ work' = w
    /\ calm' = [g \in Gate |-> FALSE]
    /\ UNCHANGED <<remote, base, private, leftover, evidence, runs, pc, job,
                   passed, succeeded, accepted, outcome>>

RemoveLeftover ==
    /\ leftover
    /\ leftover' = FALSE
    /\ UNCHANGED <<remote, base, developer, private, evidence, runs, pc, job, history>>

-----------------------------------------------------------------------------
(* A run: its beginning and its end. *)

Begin(g, command, pushed) ==
    /\ pc[g] = "idle"
    /\ runs < MaxRuns
    /\ runs' = runs + 1
    /\ pc' = [pc EXCEPT ![g] = IF command = "verify" THEN "read" ELSE "clean"]
    /\ job' = [job EXCEPT ![g] = [command |-> command, orig |-> None,
                                  change |-> None, merged |-> None,
                                  payload |-> None, pushed |-> pushed,
                                  since |-> remote]]
    /\ outcome' = [outcome EXCEPT ![g] = "none"]
    /\ calm' = [h \in Gate |-> h = g /\ \A o \in Gate : pc[o] = "idle"]
    /\ UNCHANGED <<remote, base, developer, private, leftover, evidence, passed,
                   succeeded, accepted>>

Close(g) ==
    /\ pc' = [pc EXCEPT ![g] = "idle"]
    /\ job' = [job EXCEPT ![g] = None]
    /\ calm' = [calm EXCEPT ![g] = FALSE]

Succeed(g) ==
    /\ Close(g)
    /\ outcome' = [outcome EXCEPT ![g] = "ok"]

(* A RuntimeError, a failing check or command, a kill: the private directory
   is removed, or stays if the run is killed or its removal is refused. *)
Abort(g) ==
    /\ pc[g] # "idle"
    /\ Close(g)
    /\ private' = private \ {g}
    /\ leftover' \in {leftover, leftover \/ g \in private}
    /\ UNCHANGED <<remote, base, developer, evidence, runs, passed, succeeded,
                   accepted, outcome>>

At(g, from, to) ==
    /\ pc[g] = from
    /\ pc' = [pc EXCEPT ![g] = to]

-----------------------------------------------------------------------------
(* The checkout, as every check of a run sees it. *)

(* An integration worktree is an untracked directory of the checkout. *)
Visible == private # {} \/ leftover

(* untracked_file_hashes refuses an untracked directory. *)
Readable == ~Visible

Fingerprint == <<head, work>>

(* require_clean_head *)
RequireCleanHead(g, from, to) ==
    /\ At(g, from, to)
    /\ ~Visible
    /\ work = head
    /\ UNCHANGED <<shared, job, history>>

CleanHead(g) ==
    RequireCleanHead(g, "clean",
                     IF job[g].command = "push-ready" THEN "record" ELSE "fetch")

Record(g) ==
    /\ At(g, "record", "fetch")
    /\ Readable
    /\ job' = [job EXCEPT ![g].orig = Fingerprint]
    /\ UNCHANGED <<shared, history>>

\* Variant: the base is not fetched.
KnownTip == base

(* What git fetch finds: it takes the protected branch as it is on GitHub. *)
FetchedTip == remote

RefreshAuthoritativeBase(g) ==
    /\ At(g, "fetch", IF job[g].command = "pre-push" THEN "read" ELSE "print")
    /\ base' = FetchedTip
    /\ UNCHANGED <<remote, developer, private, leftover, evidence, runs, job, history>>

-----------------------------------------------------------------------------
(* planned_change: fingerprint, base and merge base, head, diff, fingerprint. *)

PlanFingerprint(g) ==
    /\ At(g, "print", "base")
    /\ Readable
    /\ job' = [job EXCEPT ![g].change = [print |-> Fingerprint, base |-> base,
                                         from |-> Fork[head], head |-> head,
                                         diff |-> work]]
    /\ UNCHANGED <<shared, history>>

ResolveBase(g) ==
    /\ At(g, "base", "head")
    /\ job' = [job EXCEPT ![g].change.base = base,
                            ![g].change.from = Fork[head]]
    /\ UNCHANGED <<shared, history>>

PlanHead(g) ==
    /\ At(g, "head", "diff")
    /\ job' = [job EXCEPT ![g].change.head = head]
    /\ UNCHANGED <<shared, history>>

PlanDiff(g) ==
    /\ At(g, "diff", "reprint")
    /\ Readable
    /\ job' = [job EXCEPT ![g].change.diff = work]
    /\ UNCHANGED <<shared, history>>

\* Variant: a plan is reviewed although nothing was checked.
Unverified(g) == job[g].payload = None

(* The second plan of push-ready, after its checks, is the one reviewed. *)
Checked(g) == job[g].payload = None /\ job[g].merged # None

(* The first plan of a run and that of verify_evidence are integrated. *)
PlanUnchanged(g) ==
    /\ At(g, "reprint", IF Checked(g) THEN "review" ELSE "policy")
    /\ Readable
    /\ Fingerprint = job[g].change.print
    /\ UNCHANGED <<shared, job, history>>

RequireTrustedCheckPolicy(g) ==
    /\ At(g, "policy", "merge")
    /\ BasePolicy[job[g].change.base] = HeadPolicy[job[g].change.head]
    /\ UNCHANGED <<shared, job, history>>

-----------------------------------------------------------------------------
(* expected_integration_tree and execute_integration_checks. *)

OpenWorktree(g, from, to) ==
    /\ At(g, from, to)
    /\ private' = private \cup {g}
    /\ UNCHANGED <<remote, base, developer, leftover, evidence, runs, job, history>>

\* Variant: the worktree is left to a later cleanup.
KeepsWorktree(g) == private

WithoutWorktree(g) == private \ {g}

OpenMerge(g) == OpenWorktree(g, "merge", "merged")

CloseMerge(g) ==
    /\ At(g, "merged", IF job[g].payload = None THEN "checkout" ELSE "decide")
    /\ private' = WithoutWorktree(g)
    /\ job' = [job EXCEPT ![g].merged = <<job[g].change.base, job[g].change.head>>]
    /\ UNCHANGED <<remote, base, developer, leftover, evidence, runs, history>>

OpenChecks(g) == OpenWorktree(g, "checkout", "checks")

(* The checks run on the integration, whatever happens to HEAD meanwhile. *)
ChecksPass(g) ==
    /\ pc[g] = "checks"
    /\ passed' = passed \cup {job[g].merged}
    /\ private' = WithoutWorktree(g)
    /\ IF job[g].command = "validate"
       THEN Succeed(g)
       ELSE At(g, "checks", "clean again") /\ UNCHANGED <<job, outcome, calm>>
    /\ UNCHANGED <<remote, base, developer, leftover, evidence, runs, succeeded,
                   accepted>>

StillCleanHead(g) == RequireCleanHead(g, "clean again", "compare")

CompareOriginal(g) ==
    /\ At(g, "compare", "print")
    /\ Readable
    /\ Fingerprint = job[g].orig
    /\ UNCHANGED <<shared, job, history>>

-----------------------------------------------------------------------------
(* run_agent_reviews and write_evidence. *)

PlanIsCurrent(g, from, to) ==
    /\ At(g, from, to)
    /\ Readable
    /\ Fingerprint = job[g].change.print
    /\ UNCHANGED <<shared, job, history>>

Review(g) == PlanIsCurrent(g, "review", "status")

(* sanitized_review_workspace: only a plan made from a clean checkout has to
   give the integration. *)
ReadStatus(g) ==
    /\ At(g, "status", IF work = head /\ ~Visible THEN "snapshot" ELSE "reviewed")
    /\ UNCHANGED <<shared, job, history>>

OpenSnapshot(g) == OpenWorktree(g, "snapshot", "snapped")

CloseSnapshot(g) ==
    /\ At(g, "snapped", "reviewed")
    /\ job[g].change.diff = job[g].change.head
    /\ private' = WithoutWorktree(g)
    /\ UNCHANGED <<remote, base, developer, leftover, evidence, runs, job, history>>

ReviewLeftTree(g) == PlanIsCurrent(g, "reviewed", "stamp")

StampEvidence(g) == PlanIsCurrent(g, "stamp", "truncate")

TruncateEvidence(g) ==
    /\ At(g, "truncate", "write")
    /\ evidence' = Garbage
    /\ UNCHANGED <<remote, base, developer, private, leftover, runs, job, history>>

(* Two writers at once may leave the end of the longer document. *)
WriteEvidence(g) ==
    /\ At(g, "write", "read")
    /\ \/ evidence' = [change |-> job[g].change, integration |-> job[g].merged]
       \/ evidence # Garbage /\ evidence' = Garbage
    /\ UNCHANGED <<remote, base, developer, private, leftover, runs, job, history>>

-----------------------------------------------------------------------------
(* verify_evidence and verify_pre_push_updates. *)

ReadEvidence(g) ==
    /\ At(g, "read", "print")
    /\ evidence \in Evidence
    /\ job' = [job EXCEPT ![g].payload = evidence]
    /\ UNCHANGED <<shared, history>>

\* Variant: the integration of the evidence is not compared.
SamePlan(g) == job[g].payload.change = job[g].change

(* Every field of the evidence is compared with what is planned now. *)
Matches(g) ==
    job[g].payload = [change |-> job[g].change, integration |-> job[g].merged]

Decide(g) ==
    /\ pc[g] = "decide"
    /\ Matches(g)
    /\ Succeed(g)
    /\ UNCHANGED <<shared, passed>>

ReportReady(g) ==
    /\ Decide(g)
    /\ job[g].command \in {"push-ready", "verify"}
    /\ succeeded' = IF job[g].command = "push-ready"
                    THEN succeeded \cup {job[g].payload.change} ELSE succeeded
    /\ UNCHANGED accepted

(* The pushed commit is the one that Git names on standard input. *)
AcceptPush(g) ==
    /\ Decide(g)
    /\ job[g].command = "pre-push"
    /\ job[g].pushed = job[g].payload.change.head
    /\ accepted' = accepted \cup {[head |-> job[g].pushed,
                                   base |-> job[g].payload.change.base,
                                   since |-> job[g].since]}
    /\ UNCHANGED succeeded

Continue(g) ==
    \/ CleanHead(g)
    \/ Record(g)
    \/ RefreshAuthoritativeBase(g)
    \/ PlanFingerprint(g)
    \/ ResolveBase(g)
    \/ PlanHead(g)
    \/ PlanDiff(g)
    \/ PlanUnchanged(g)
    \/ RequireTrustedCheckPolicy(g)
    \/ OpenMerge(g)
    \/ CloseMerge(g)
    \/ OpenChecks(g)
    \/ ChecksPass(g)
    \/ StillCleanHead(g)
    \/ CompareOriginal(g)
    \/ Review(g)
    \/ ReadStatus(g)
    \/ OpenSnapshot(g)
    \/ CloseSnapshot(g)
    \/ ReviewLeftTree(g)
    \/ StampEvidence(g)
    \/ TruncateEvidence(g)
    \/ WriteEvidence(g)
    \/ ReadEvidence(g)
    \/ ReportReady(g)
    \/ AcceptPush(g)

Next ==
    \/ Advance
    \/ \E h \in Commit, w \in Content : Move(h, w)
    \/ RemoveLeftover
    \/ \E g \in Gate :
          \/ \E command \in Command, pushed \in Commit : Begin(g, command, pushed)
          \/ Continue(g)
          \/ Abort(g)

Spec == Init /\ [][Next]_vars

(* A run is a sequential program: it goes on until it ends. *)
FairSpec == Spec /\ \A g \in Gate : WF_vars(Continue(g))

-----------------------------------------------------------------------------
(* A push is accepted only if every check has passed on the integration of the
   pushed commit with the very base that the evidence names, under the policy
   files of that base, however HEAD, the base and the evidence file changed
   between the runs and while they ran. *)
AcceptedWasChecked ==
    \A a \in accepted : /\ <<a.base, a.head>> \in passed
                        /\ BasePolicy[a.base] = HeadPolicy[a.head]

(* That base is not older than the base branch was when the push began: checks
   of an earlier base never count, even if another run fetches meanwhile. *)
AcceptedIsCurrent == \A a \in accepted : a.base >= a.since

(* Undisturbed runs succeed: push-ready and validate from a clean HEAD, and
   pre-push of that HEAD when the evidence was made for it.  A run does not
   trip over its own worktrees, nor over what earlier runs have left in the
   evidence file or in the remote-tracking ref. *)
EvidenceFor(c) ==
    [change |-> [print |-> <<c, c>>, base |-> remote, from |-> Fork[c],
                 head |-> c, diff |-> c],
     integration |-> <<remote, c>>]

Ready(g) ==
    /\ pc[g] = "clean" /\ calm[g]
    /\ work = head /\ ~Visible
    /\ BasePolicy[remote] = HeadPolicy[head]
    /\ \/ job[g].command \in {"push-ready", "validate"}
       \/ job[g].command = "pre-push" /\ job[g].pushed = head
          /\ evidence = EvidenceFor(head)

Delivers ==
    \A g \in Gate : Ready(g) ~> (outcome[g] = "ok" \/ ~calm[g])
=============================================================================
