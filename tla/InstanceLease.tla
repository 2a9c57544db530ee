---------------------------- MODULE InstanceLease ----------------------------
(***************************************************************************)
(* What .github/scripts/aap-incus-matrix-run.sh promises to the runner     *)
(* host: its validation VMs never overlap, and a run that reports success  *)
(* has given its VM back unless it was asked to keep it.                   *)
(***************************************************************************)
CONSTANT Run    \* executions of the script

VARIABLES
    held,       \* runs whose VM exists
    kept,       \* runs that were asked to keep their VM
    verdict     \* verdict[r]: how r ended, "none" while it has not

vars == <<held, kept, verdict>>

Init ==
    /\ held = {}
    /\ kept = {}
    /\ verdict = [r \in Run |-> "none"]

AskToKeep(r) ==
    /\ verdict[r] = "none"
    /\ r \notin held
    /\ kept' = kept \cup {r}
    /\ UNCHANGED <<held, verdict>>

Acquire(r) ==
    /\ held = {}
    /\ verdict[r] = "none"
    /\ held' = {r}
    /\ UNCHANGED <<kept, verdict>>

Release(r) ==
    /\ r \in held
    /\ held' = held \ {r}
    /\ UNCHANGED <<kept, verdict>>

Report(r, v) ==
    /\ verdict[r] = "none"
    /\ v = "ok" => r \notin held \/ r \in kept
    /\ verdict' = [verdict EXCEPT ![r] = v]
    /\ UNCHANGED <<held, kept>>

Next ==
    \E r \in Run :
        \/ AskToKeep(r)
        \/ Acquire(r)
        \/ Release(r)
        \/ \E v \in {"ok", "failed", "killed"} : Report(r, v)

Spec == Init /\ [][Next]_vars

(* At most one validation VM exists on the host: memory and subscriptions are
   sized for one (docs/aap-incus-nightly.md, Operational Defaults). *)
OneInstance == \A r, s \in held : r = s

(* A run that reported success and was not asked to keep its VM has left none
   behind, and none appears later. *)
SuccessLeavesNothing ==
    \A r \in Run : verdict[r] = "ok" /\ r \notin kept => r \notin held
=============================================================================
