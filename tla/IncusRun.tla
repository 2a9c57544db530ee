------------------------------- MODULE IncusRun -------------------------------
(***************************************************************************)
(* .github/scripts/aap-incus-matrix-run.sh: runs of one matrix entry, one  *)
(* after the other (max-parallel is 1), each of which creates a VM,        *)
(* prepares it, starts the AAP installer in it, polls and retries, lets a  *)
(* playbook verify the deployment and cleans up.  Every external command   *)
(* may fail after part of its effect; a signal may arrive between any two  *)
(* commands; a run may be killed; a playbook in the background may outlive *)
(* its run; an operator may remove a VM that a dead run has left.          *)
(***************************************************************************)
EXTENDS Naturals

CONSTANTS
    MaxRuns,      \* bound on the runs
    MaxAttempts,  \* AAP_CI_INSTALLER_MAX_ATTEMPTS
    MaxBoots,     \* AAP_CI_INSTANCE_BOOT_ATTEMPTS
    MaxPolls,     \* polls before AAP_CI_INSTALLER_POLL_TIMEOUT_SECONDS
    None

ASSUME BoundsAssumption ==
    /\ MaxRuns \in Nat /\ MaxBoots \in Nat \ {0} /\ MaxPolls \in Nat
    /\ MaxAttempts \in Nat \ {0}

Run == 1..MaxRuns
Attempt == 1..MaxAttempts

ASSUME NoneAssumption == None \notin Nat

VARIABLES
    \* the host
    instances,   \* runs whose VM exists
    keyOf,       \* keyOf[r]: the SSH key that the VM of r accepts
    key,         \* the key in the work directory, which all runs share
    registered,  \* runs whose guest is registered with RHSM
    \* the guest of the current run
    job,         \* job[a]: the installer job that attempt a started
    jidFile,     \* the attempt whose job ID is in the job ID file
    \* the script
    run,         \* the current or last run
    pc,
    rc,          \* deploy_rc: "ok" or "failed"
    boots,
    attempt,
    polls,
    jid,
    child,       \* the playbook in the background, or its result
    recorded,    \* active_child_pid is set, to the process of child
    inventory,   \* whether the guest inventory was written
    torn,        \* rhel_teardown_complete
    asked,       \* history: the diagnostics that cleanup collected
    declined,    \* history: those it could not collect, or was not to
    \* results and history
    keep,        \* runs with AAP_CI_DESTROY_INSTANCE=false
    result,      \* result[r]: the exit status
    orphans,     \* runs that are over and whose playbook is still at work
    missed,      \* runs whose trap came before the child was recorded
    unreleased,  \* runs whose last attempt to unregister failed
    byHand       \* runs whose VM the operator removed

host == <<instances, keyOf, key, registered>>
guest == <<job, jidFile>>
loop == <<boots, attempt, polls, jid>>
background == <<child, recorded>>
diagnostics == <<asked, declined>>
cleaning == <<inventory, torn, diagnostics>>
history == <<keep, result, orphans, missed, unreleased, byHand>>
vars == <<host, guest, run, pc, rc, loop, background, cleaning, history>>

Unarmed == {"idle", "setup", "preflight"}
Armed == {"create", "boot", "prepare", "base", "clear", "deploy", "deploying",
          "findJid", "poll", "retry", "verify", "verifying"}
Cleanup == {"diagnose", "diagnoseIncus", "teardown", "rhsm", "destroy", "remove", "exit"}
Step == Unarmed \cup Armed \cup {"stop"} \cup Cleanup

Playbook == {"deploy", "verify"}

JobState == {"none", "starting", "running", "ok", "failed", "lost"}

TypeOK ==
    /\ instances \subseteq Run
    /\ keyOf \in [Run -> Run \cup {None}]
    /\ key \in Run \cup {None}
    /\ registered \subseteq Run
    /\ job \in [Attempt -> JobState]
    /\ jidFile \in Attempt \cup {None}
    /\ run \in 0..MaxRuns
    /\ pc \in Step
    /\ rc \in {"ok", "failed"}
    /\ boots \in 1..MaxBoots
    /\ attempt \in Attempt
    /\ polls \in 0..MaxPolls
    /\ jid \in Attempt \cup {None}
    /\ child \in Playbook \cup {"none", "ok", "failed"}
    /\ recorded \in BOOLEAN
    /\ inventory \in BOOLEAN
    /\ torn \in BOOLEAN
    /\ asked \subseteq {"aap", "incus"}
    /\ declined \subseteq {"aap", "incus"}
    /\ keep \subseteq Run
    /\ orphans \subseteq Run
    /\ missed \subseteq Run
    /\ result \in [Run -> {"none", "ok", "failed", "killed"}]
    /\ unreleased \subseteq Run
    /\ byHand \subseteq Run

NoJobs == [a \in Attempt |-> "none"]

(* No process of the script, and nobody looks into a guest. *)
NoScript ==
    /\ pc = "idle" /\ rc = "ok" /\ child = "none" /\ recorded = FALSE
    /\ boots = 1 /\ attempt = 1 /\ polls = 0 /\ jid = None
    /\ inventory = FALSE /\ torn = FALSE
    /\ asked = {} /\ declined = {}
    /\ job = NoJobs /\ jidFile = None

Init ==
    /\ NoScript
    /\ run = 0
    /\ instances = {} /\ registered = {}
    /\ keyOf = [r \in Run |-> None] /\ key = None
    /\ keep = {} /\ orphans = {} /\ missed = {}
    /\ result = [r \in Run |-> "none"]
    /\ unreleased = {} /\ byHand = {}

-----------------------------------------------------------------------------
(* A command failed, a trap fired or a loop gave up: cleanup starts. *)
Fail ==
    /\ rc' = "failed"
    /\ pc' = "stop"

(* Nothing reads the variables of the loops any more, nor the guest's jobs. *)
LoopsOver ==
    /\ boots' = 1 /\ attempt' = 1 /\ polls' = 0 /\ jid' = None
    /\ job' = NoJobs /\ jidFile' = None

(* A process that ends takes its variables with it, and nobody looks into its
   guest again.  A playbook in the background goes on without it. *)
Forget ==
    /\ pc' = "idle" /\ rc' = "ok" /\ child' = "none" /\ recorded' = FALSE
    /\ orphans' = IF child \in Playbook THEN orphans \cup {run} ELSE orphans
    /\ inventory' = FALSE /\ torn' = FALSE
    /\ asked' = {} /\ declined' = {}
    /\ LoopsOver

Leave(status) ==
    /\ result' = [result EXCEPT ![run] = status]
    /\ Forget
    /\ UNCHANGED <<host, run, keep, missed, unreleased, byHand>>

Succeeds(next) == pc' = next /\ UNCHANGED rc

-----------------------------------------------------------------------------
(* Before the traps are set *)

(* The next job of the workflow: a new VM name, a new guest. *)
Begin ==
    /\ pc = "idle" /\ run < MaxRuns
    /\ run' = run + 1
    /\ keep' \in {keep, keep \cup {run + 1}}
    /\ Succeeds("setup")
    /\ UNCHANGED <<host, guest, loop, background, cleaning, result,
                   orphans, missed, unreleased, byHand>>

\* Variant: the traps are set before the preflight.
RefuseWithTraps ==
    /\ pc \in {"setup", "preflight"}
    /\ Fail
    /\ UNCHANGED <<host, guest, run, loop, background, cleaning, history>>

(* A check fails, or a signal ends the script: no trap is set yet. *)
Refuse ==
    /\ pc \in {"setup", "preflight"}
    /\ Leave("failed")

MakeWorkDir ==
    /\ pc = "setup"
    /\ key' = IF key = None THEN run ELSE key
    /\ Succeeds("preflight")
    /\ UNCHANGED <<instances, keyOf, registered, guest, run, loop, background,
                   cleaning, history>>

\* Variant: only a VM of the same name is in the way.
PreflightOwnName ==
    /\ pc = "preflight"
    /\ run \notin instances
    /\ Succeeds("create")
    /\ UNCHANGED <<host, guest, run, loop, background, cleaning, history>>

Preflight ==
    /\ pc = "preflight"
    /\ instances = {}
    /\ Succeeds("create")
    /\ UNCHANGED <<host, guest, run, loop, background, cleaning, history>>

-----------------------------------------------------------------------------
(* The VM and its operating system *)

MakeInstance ==
    /\ instances' = instances \cup {run}
    /\ keyOf' = [keyOf EXCEPT ![run] = key]

(* The lifecycle playbook creates, resizes and starts the VM; it may fail
   before or after the VM exists. *)
Create ==
    /\ pc = "create"
    /\ \/ MakeInstance /\ Succeeds("boot")
       \/ MakeInstance /\ Fail
       \/ UNCHANGED <<instances, keyOf>> /\ Fail
    /\ UNCHANGED <<key, registered, guest, run, loop, background, cleaning,
                   history>>

(* One readiness attempt; all but the last failure restart the VM.  The count
   is local to the function. *)
WaitForGuest ==
    /\ pc = "boot"
    /\ \/ inventory' = TRUE /\ Succeeds("prepare") /\ boots' = 1
       \/ /\ boots < MaxBoots
          /\ boots' = boots + 1
          /\ Succeeds("boot")
          /\ UNCHANGED inventory
       \/ boots = MaxBoots /\ Fail /\ boots' = 1 /\ UNCHANGED inventory
    /\ UNCHANGED <<host, guest, run, attempt, polls, jid, background, torn,
                   diagnostics, history>>

(* rhel_prepare.yml registers the guest; it may fail on either side of that. *)
PrepareGuest ==
    /\ pc = "prepare"
    /\ \/ registered' = registered \cup {run} /\ Succeeds("base")
       \/ registered' = registered \cup {run} /\ Fail
       \/ UNCHANGED registered /\ Fail
    /\ UNCHANGED <<instances, keyOf, key, guest, run, loop, background,
                   cleaning, history>>

PrepareBase ==
    /\ pc = "base"
    /\ Succeeds("clear") \/ Fail
    /\ UNCHANGED <<host, guest, run, loop, background, cleaning, history>>

-----------------------------------------------------------------------------
(* The installer *)

(* clear_aap_installer_jid ignores its own failure. *)
ClearJid ==
    /\ pc = "clear"
    /\ jidFile' \in {None, jidFile}
    /\ Succeeds("deploy")
    /\ UNCHANGED <<host, job, run, loop, background, cleaning, history>>

(* run_with_heartbeat refuses a malformed interval before it starts anything;
   the process runs before its ID is in active_child_pid. *)
StartDeploy ==
    /\ pc = "deploy"
    /\ \/ child' = "deploy" /\ Succeeds("deploying")
       \/ UNCHANGED child /\ Fail
    /\ UNCHANGED <<host, guest, run, loop, recorded, cleaning, history>>

RecordChild ==
    /\ pc \in {"deploying", "verifying"} /\ ~recorded
    /\ recorded' = TRUE
    /\ UNCHANGED <<host, guest, run, pc, rc, loop, child, cleaning, history>>

(* run_with_heartbeat returns the child's status; a failed deploy playbook is
   not retried. *)
DeployEnded ==
    /\ pc = "deploying" /\ recorded /\ child \in {"ok", "failed"}
    /\ child' = "none" /\ recorded' = FALSE
    /\ polls' = 0 /\ jid' = None
    /\ \/ child = "ok" /\ Succeeds("findJid")
       \/ child = "failed" /\ Fail
    /\ UNCHANGED <<host, guest, run, boots, attempt, cleaning, history>>

(* The two loops of poll_aap_installer share one deadline. *)
Expired == polls = MaxPolls

WaitOn == polls' = polls + 1 /\ pc' = pc

FindJid ==
    /\ pc = "findJid" /\ ~Expired
    /\ \/ jidFile # None /\ jid' = jidFile /\ pc' = "poll" /\ UNCHANGED polls
       \/ WaitOn /\ UNCHANGED jid    \* no file yet, or no answer
    /\ UNCHANGED <<host, guest, run, rc, boots, attempt, background, cleaning,
                   history>>

(* async_status of the job.  An answer that says "finished" without an exit
   status counts as a success; a call without a readable answer ends the
   attempt, whatever the job does. *)
Poll ==
    /\ pc = "poll" /\ ~Expired
    /\ \/ job[jid] = "running" /\ WaitOn
       \/ job[jid] \in {"ok", "lost"} /\ pc' = "verify" /\ UNCHANGED polls
       \/ pc' = "retry" /\ UNCHANGED polls
    /\ UNCHANGED <<host, guest, run, rc, boots, attempt, jid, background,
                   cleaning, history>>

PollTimeout ==
    /\ pc \in {"findJid", "poll"} /\ Expired
    /\ Succeeds("retry")
    /\ UNCHANGED <<host, guest, run, loop, background, cleaning, history>>

\* Variant: one attempt too many.
AttemptsLeftAtLimit == attempt <= MaxAttempts

AttemptsLeft == attempt < MaxAttempts

\* Variant: attempts are not counted.
SameAttempt == attempt' = attempt

NextAttempt == attempt' = attempt + 1

Retry ==
    /\ pc = "retry"
    /\ \/ AttemptsLeft /\ NextAttempt /\ Succeeds("clear")
       \/ ~AttemptsLeft /\ Fail /\ UNCHANGED attempt
    /\ UNCHANGED <<host, guest, run, boots, polls, jid, background, cleaning,
                   history>>

StartVerify ==
    /\ pc = "verify"
    /\ \/ child' = "verify" /\ Succeeds("verifying")
       \/ UNCHANGED child /\ Fail
    /\ UNCHANGED <<host, guest, run, loop, recorded, cleaning, history>>

VerifyEnded ==
    /\ pc = "verifying" /\ recorded /\ child \in {"ok", "failed"}
    /\ child' = "none" /\ recorded' = FALSE
    /\ \/ child = "ok" /\ Succeeds("stop")
       \/ child = "failed" /\ Fail
    /\ UNCHANGED <<host, guest, run, loop, cleaning, history>>

-----------------------------------------------------------------------------
(* cleanup: on a signal or a failure by trap, otherwise by the last lines *)

(* INT or TERM, once the command in the foreground has ended. *)
Interrupt ==
    /\ pc \in Armed \cup {"stop"}
    /\ Fail
    /\ missed' = IF pc \in {"deploying", "verifying"} /\ ~recorded
                 THEN missed \cup {run} ELSE missed
    /\ UNCHANGED <<host, guest, run, loop, background, cleaning,
                   keep, result, orphans, unreleased, byHand>>

\* Variant: diagnostics need a guest inventory.
AfterStopIfReady == IF rc = "failed" /\ inventory THEN "diagnose" ELSE "teardown"

AfterStop == IF rc = "failed" THEN "diagnose" ELSE "teardown"

\* Variant: cleanup leaves the child process alone.
LeaveChild ==
    /\ pc = "stop"
    /\ Succeeds(AfterStop)
    /\ LoopsOver
    /\ UNCHANGED <<host, run, background, cleaning, history>>

(* Cleanup stops the process that active_child_pid names, and no other. *)
StopChild ==
    /\ pc = "stop"
    /\ child' = IF recorded THEN "none" ELSE child
    /\ recorded' = FALSE
    /\ Succeeds(AfterStop)
    /\ LoopsOver
    /\ UNCHANGED <<host, run, cleaning, history>>

Decline(d) == declined' = declined \cup {d} /\ UNCHANGED asked

(* collect_failure_diagnostics: nothing without a guest inventory, or when it is
   switched off or a tool is missing.  Its commands ignore their failures. *)
DiagnoseAap ==
    /\ pc = "diagnose"
    /\ \/ inventory /\ asked' = asked \cup {"aap"} /\ UNCHANGED declined
       \/ Decline("aap")
       \/ ~inventory /\ UNCHANGED diagnostics
    /\ Succeeds("diagnoseIncus")
    /\ UNCHANGED <<host, guest, run, loop, background, inventory, torn,
                   history>>

(* collect_incus_diagnostics: nothing when `incus info` fails. *)
DiagnoseIncus ==
    /\ pc = "diagnoseIncus"
    /\ \/ run \in instances /\ asked' = asked \cup {"incus"} /\ UNCHANGED declined
       \/ Decline("incus")
    /\ Succeeds("teardown")
    /\ UNCHANGED <<host, guest, run, loop, background, inventory, torn,
                   history>>

\* Variant: the outcome of the teardown playbook is ignored.
AfterAnyTeardown ==
    IF run \in keep THEN "exit" ELSE IF inventory THEN "destroy" ELSE "rhsm"

AfterTeardown ==
    IF run \in keep THEN "exit" ELSE IF torn' THEN "destroy" ELSE "rhsm"

Unregister == registered' = registered \ {run}

Teardown ==
    /\ pc = "teardown"
    /\ \/ inventory /\ Unregister /\ torn' = TRUE
       \/ inventory /\ Unregister /\ UNCHANGED torn
       \/ UNCHANGED <<registered, torn>>    \* failed, or no inventory
    /\ Succeeds(AfterTeardown)
    /\ UNCHANGED <<instances, keyOf, key, guest, run, loop, background, inventory,
                   diagnostics, history>>

(* best_effort_rhsm_cleanup *)
CleanRhsm ==
    /\ pc = "rhsm"
    /\ \/ Unregister /\ UNCHANGED unreleased
       \/ UNCHANGED registered /\ unreleased' = unreleased \cup {run}
    /\ Succeeds("destroy")
    /\ UNCHANGED <<instances, keyOf, key, guest, run, loop, background, cleaning,
                   keep, result, orphans, missed, byHand>>

(* A failed destruction changes the exit status and keeps the work directory. *)
DestroyFailed == rc' = "failed" /\ pc' = "exit"

Destroy ==
    /\ pc = "destroy"
    /\ \/ instances' = instances \ {run} /\ Succeeds("remove")
       \/ instances' = instances \ {run} /\ DestroyFailed
       \/ UNCHANGED instances /\ DestroyFailed
    /\ UNCHANGED <<keyOf, key, registered, guest, run, loop, background,
                   cleaning, history>>

RemoveWorkDir ==
    /\ pc = "remove"
    /\ key' = None /\ inventory' = FALSE
    /\ Succeeds("exit")
    /\ UNCHANGED <<instances, keyOf, registered, guest, run, loop, background, torn,
                   diagnostics, history>>

Exit == pc = "exit" /\ Leave(rc)

-----------------------------------------------------------------------------
(* What the script does not do itself *)

PublishJid(a) ==
    /\ job' = [job EXCEPT ![a] = "running"]
    /\ jidFile' = a

(* The deploy playbook starts the installer and ends, or fails before or after
   that; its job ID may be in the file already or appear later. *)
DeployChildEnds ==
    /\ child = "deploy"
    /\ \/ PublishJid(attempt) /\ child' \in {"ok", "failed"}
       \/ /\ job' = [job EXCEPT ![attempt] = "starting"]
          /\ UNCHANGED jidFile
          /\ child' \in {"ok", "failed"}
       \/ UNCHANGED guest /\ child' = "failed"
    /\ UNCHANGED <<host, run, pc, rc, loop, recorded, cleaning, history>>

VerifyChildEnds ==
    /\ child = "verify"
    /\ child' \in {"ok", "failed"}
    /\ UNCHANGED <<host, guest, run, pc, rc, loop, recorded, cleaning,
                   history>>

(* The playbook of a run that is over ends. *)
OrphanEnds ==
    /\ \E r \in orphans : orphans' = orphans \ {r}
    /\ UNCHANGED <<host, guest, run, pc, rc, loop, background, cleaning,
                   keep, result, missed, unreleased, byHand>>

JidAppears ==
    /\ run \in instances
    /\ \E a \in Attempt : job[a] = "starting" /\ PublishJid(a)
    /\ UNCHANGED <<host, run, pc, rc, loop, background, cleaning, history>>

(* A job ends, or its wrapper dies and leaves no exit status. *)
InstallerEnds ==
    /\ run \in instances
    /\ \E a \in Attempt : /\ job[a] = "running"
                          /\ \E s \in {"ok", "failed", "lost"} :
                                job' = [job EXCEPT ![a] = s]
    /\ UNCHANGED <<host, jidFile, run, pc, rc, loop, background, cleaning,
                   history>>

(* A job timeout, a reboot, or a second signal once cleanup has reset the
   traps. *)
Killed == pc # "idle" /\ Leave("killed")

RemoveStale ==
    /\ \E r \in instances :
          /\ pc = "idle" \/ r # run
          /\ instances' = instances \ {r}
          /\ byHand' = byHand \cup {r}
    /\ UNCHANGED <<keyOf, key, registered, guest, run, pc, rc, loop, background,
                   cleaning, keep, result, orphans, missed, unreleased>>

-----------------------------------------------------------------------------
Setup == Refuse \/ MakeWorkDir \/ Preflight
MakeReady == Create \/ WaitForGuest \/ PrepareGuest \/ PrepareBase
Install ==
    \/ ClearJid \/ StartDeploy \/ RecordChild \/ DeployEnded \/ FindJid \/ Poll
    \/ PollTimeout \/ Retry \/ StartVerify \/ VerifyEnded
CleanUp ==
    \/ StopChild \/ DiagnoseAap \/ DiagnoseIncus \/ Teardown \/ CleanRhsm
    \/ Destroy \/ RemoveWorkDir \/ Exit

Script == Setup \/ MakeReady \/ Install \/ CleanUp
ChildEnds == DeployChildEnds \/ VerifyChildEnds
Environment == OrphanEnds \/ JidAppears \/ InstallerEnds \/ Killed \/ RemoveStale

Next == Begin \/ Script \/ Interrupt \/ ChildEnds \/ Environment

Spec == Init /\ [][Next]_vars

(* The script goes on with its next command as long as it lives, and each of
   the playbooks it runs in the background ends. *)
FairSpec == Spec /\ WF_vars(Script) /\ WF_vars(ChildEnds)

-----------------------------------------------------------------------------
Lease == INSTANCE InstanceLease WITH
    Run <- Run, held <- instances, kept <- keep, verdict <- result

(* The runs implement the promise of InstanceLease: VMs never overlap, and
   success is only reported when the VM is gone or was to be kept. *)
LeaseSpec == Lease!Spec

(* The work directory holds the key of every VM that exists, so that a failed
   destruction can be inspected and repaired by hand: no run removes or
   replaces the key of a VM that it or an earlier run has left behind. *)
KeyFitsInstance == \A r \in instances : keyOf[r] = key

(* cleanup tears down and destroys no guest that a deploy or verification
   playbook of its run is still working on, and a run leaves no playbook behind
   that works on while the next one runs: it stops the child first, wherever a
   signal or a failure sends it there.  There are two exceptions: a trap that
   comes after the playbook was started and before its process ID is in
   active_child_pid, and a run that is killed. *)
CleanupStopsChild ==
    /\ pc \in Cleanup /\ child \in Playbook => run \in missed
    /\ \A r \in orphans : r \in missed \/ result[r] = "killed"

(* A guest that was destroyed by its run is unregistered from RHSM, unless the
   teardown playbook and the best-effort clean-up both failed. *)
SubscriptionReleased ==
    \A r \in registered \ instances : r \in unreleased \cup byHand

(* "failed runs collect AAP and Incus diagnostics before destroying the VM"
   (docs/aap-incus-nightly.md): a run that has failed when it destroys its VM has
   collected those of Incus, unless `incus info` failed, and, if the guest has
   ever been ready, those of AAP, unless they are switched off or a tool is
   missing.  A run whose only failure is the destruction collects nothing. *)
DiagnosedBeforeDestroyed ==
    [][\A r \in instances \ instances' : rc = "failed" /\ r \notin byHand' =>
          /\ "incus" \in asked \cup declined
          /\ inventory => "aap" \in asked \cup declined]_vars

(* Every run ends, however often the guest does not answer and whatever the
   installer does: attempts and polls are bounded. *)
RunEnds == pc # "idle" ~> pc = "idle"
=============================================================================
