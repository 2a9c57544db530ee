----------------------------- MODULE Workbench -----------------------------
(***************************************************************************)
(* The public Workbench acceptance: a job of workbench-public-acceptance   *)
(* .yml deploys, validates and accepts one machine with                    *)
(* workbench-public-acceptance.py, and cleans up twice, at the end of the  *)
(* harness and in a step of its own.  Playbooks belong to another          *)
(* repository: a playbook that reports success for the machine has done    *)
(* its work there, and any other may have done part of it.                 *)
(* Time counts in the cleanup step only, whose budget the limits of the    *)
(* cleanups must respect.  The main step may be interrupted at any time,   *)
(* by its own budget or by a user, and killed after that.                  *)
(***************************************************************************)
EXTENDS Integers, Sequences, FiniteSets, Functions

CONSTANTS
  Allowed,          \* EXPECTED_PROFILES, in order
  Requests,         \* --profiles of the runs considered, as sequences
  PreflightLimit,   \* time ansible-inventory may take
  CleanupLimit,     \* cleanup_timeout_seconds
  PhaseLimit,       \* phase_timeout_seconds
  CleanupBudget,    \* time the cleanup step may take
  MaxDrifts         \* bound on changes of the machine by others

ASSUME WorkbenchAssumption ==
  /\ Allowed \in Seq(STRING) /\ IsInjective(Allowed) /\ Requests \subseteq Seq(STRING)
  /\ {PreflightLimit, CleanupLimit, PhaseLimit, CleanupBudget, MaxDrifts} \subseteq Nat
  /\ CleanupLimit <= PhaseLimit
  /\ PreflightLimit + Len(Allowed) * CleanupLimit <= CleanupBudget

Profile == {Allowed[i] : i \in DOMAIN Allowed}

\* What the guards of the harness look at: the matrix, the typed confirmation,
\* the controller, and what the inventory says of the target.
Guards == {"matrix", "confirmation", "controller", "hosts", "address", "connection",
           "credentials", "port", "enabled"}

VARIABLES
  requested,        \* --profiles
  wrong,            \* guards that would not hold
  machine,          \* "drifted", "partial" or "desired"
  residue,          \* profiles whose resources are on the machine
  drifts,
  step,             \* step of the job
  pc,               \* where the harness of the step is
  todo,             \* phases it has not run
  interrupted,      \* how an INT was taken: "no", "canceled" or "raised"
  failed,           \* error_code is set
  cleaned,          \* cleanup_succeeded
  spent,            \* time the cleanup step took
  tried,            \* profiles whose cleanup the cleanup step ran
  full, final,      \* the evidence of the two steps: [successful, cleaned], or none
  ok,               \* no step of the job has failed
  unchanged, validated, accepted  \* history: what was found on the machine

outer == <<requested, wrong>>
host == <<machine, residue, drifts>>
harness == <<pc, todo, interrupted, failed, cleaned>>
job == <<step, spent, tried, full, final, ok>>
found == <<unchanged, validated, accepted>>
vars == <<outer, host, harness, job, found>>

None == <<>>
NoStats == <<>>

-----------------------------------------------------------------------------
\* Plausible mistake: no profile at all may be asked for.
EvenNone(r) == IsInjective(r) /\ \A i \in DOMAIN r : r[i] \in Profile

\* select_profiles.
SelectionValid(r) == r # <<>> /\ IsInjective(r) /\ \A i \in DOMAIN r : r[i] \in Profile

\* It keeps the order of EXPECTED_PROFILES: the positions of the selected ones.
Selected == {i \in DOMAIN Allowed : \E j \in DOMAIN requested : requested[j] = Allowed[i]}

\* load_contract: the matrix names exactly the expected target and playbooks.
ContractValid == "matrix" \notin wrong

\* validate_controller_environment.
ControllerValid == "controller" \notin wrong

\* validate_inventory_payload: the group has exactly the target, reached over
\* SSH at the expected address, port and with the expected credentials.
InventoryValid == wrong \cap {"hosts", "address", "connection", "credentials", "port", "enabled"} = {}

PreflightPasses ==
  /\ ContractValid
  /\ "confirmation" \notin wrong
  /\ SelectionValid(requested)
  /\ ControllerValid
  /\ InventoryValid

\* A phase and its place in the order of execution.
Phase(kind, p, place) == [kind |-> kind, profile |-> p, place |-> place]

Syntax == {Phase("syntax", "none", i) : i \in 1 .. 4}

Deployment == {Phase("check", "none", 5), Phase("deploy", "none", 6),
               Phase("redeploy", "none", 7), Phase("validate", "none", 8)}

\* execute_full: the phases up to the cleanup.
Required == Syntax \cup Deployment \cup {Phase("accept", Allowed[i], 8 + i) : i \in Selected}

\* execute_cleanup_profiles.
Cleanups == {Phase("cleanup", Allowed[i], i) : i \in Selected}

\* The phase that is next.
Now == CHOOSE phase \in todo : \A other \in todo : phase.place <= other.place

Later == todo \ {Now}

\* Plausible mistake: the statistics of any hosts will do.
AnyStats(stats) == TRUE

\* validate_and_aggregate_stats: exactly the target was reported on.
TargetStats(stats) == stats # NoStats /\ stats.hosts = {"target"}

\* require_phase_success on what run_phase returns: statistics that are not
\* those of the target make a phase that is no syntax check an error.
Succeeded(phase, r) ==
  /\ r.finished
  /\ phase.kind # "syntax" => TargetStats(r.stats)
  /\ r.stats # NoStats => r.stats.failures = 0

Changed(r) == IF r.stats = NoStats THEN 0 ELSE r.stats.changed

\* execute_full: what else a phase must show.
Acceptable(phase, r) ==
  /\ Succeeded(phase, r)
  /\ phase.kind \in {"redeploy", "validate"} => Changed(r) = 0

\* Plausible mistake: a cleanup may take as long as any phase.
AnyPhaseLimit(phase) == PhaseLimit

Limit(phase) == IF phase.kind = "cleanup" THEN CleanupLimit ELSE PhaseLimit

-----------------------------------------------------------------------------
\* The playbooks.  r.stats tells the truth about the machines in r.stats.hosts;
\* a limit that matches no host leaves the machine alone and succeeds.

Report == [finished : BOOLEAN,
           stats : {NoStats} \cup [hosts : {{"target"}, {"other"}}, failures : 0 .. 1,
                                   changed : 0 .. 1]]

OnTarget(r) == r.stats # NoStats /\ r.stats.hosts = {"target"}

\* A playbook ran to its end on the machine.
Done(r) == r.finished /\ OnTarget(r) /\ r.stats.failures = 0

\* It did nothing there.
Missed(r) == r.finished /\ ~OnTarget(r)

\* The machine m and its residue s after the phase.
Effect(phase, r, m, s) ==
  IF Missed(r) \/ phase.kind \in {"syntax", "check"}
  THEN m = machine /\ s = residue
  ELSE \/ /\ phase.kind \in {"deploy", "redeploy"}
          /\ s = residue
          /\ IF Done(r)
             THEN m = "desired" /\ (r.stats.changed = 0 => machine = "desired")
             ELSE m \in {machine, "partial"}
       \/ /\ phase.kind = "validate"
          /\ s = residue
          /\ Done(r) => machine = "desired"
          /\ IF Done(r) /\ r.stats.changed = 0 THEN m = machine ELSE m \in {machine, "partial"}
       \/ /\ phase.kind = "accept"
          /\ m = machine /\ s \in {residue, residue \cup {phase.profile}}
       \/ /\ phase.kind = "cleanup"
          /\ m = machine
          /\ s \in IF Done(r) THEN {residue \ {phase.profile}} ELSE {residue, residue \ {phase.profile}}

Found(phase, r) ==
  /\ unchanged' = (unchanged \/ (phase.kind = "redeploy" /\ Done(r) /\ r.stats.changed = 0))
  /\ validated' = (validated \/ (phase.kind = "validate" /\ Done(r) /\ r.stats.changed = 0))
  /\ accepted' = accepted \cup (IF phase.kind = "accept" /\ Done(r) THEN {phase.profile} ELSE {})

Perform(phase, r) ==
  /\ \E m \in {"drifted", "partial", "desired"}, s \in SUBSET Profile :
       Effect(phase, r, m, s) /\ machine' = m /\ residue' = s
  /\ Found(phase, r)

-----------------------------------------------------------------------------
Init ==
  /\ requested \in Requests
  /\ \E g \in Guards : wrong \in {{}, {g}}
  /\ machine \in {"drifted", "desired"} /\ residue = {} /\ drifts = 0
  /\ step = "credentials" /\ pc = "preflight" /\ todo = {} /\ interrupted = "no"
  /\ failed = FALSE /\ cleaned = FALSE
  /\ spent = 0 /\ tried = {} /\ full = None /\ final = None /\ ok = TRUE
  /\ unchanged = FALSE /\ validated = FALSE /\ accepted = {}

\* Somebody else changes the machine.
Drift ==
  /\ drifts < MaxDrifts /\ machine = "desired"
  /\ machine' = "drifted" /\ drifts' = drifts + 1
  /\ UNCHANGED <<outer, residue, harness, job, found>>

\* The credentials are written, or the job goes on to their removal.
Materialize(good) ==
  /\ step = "credentials"
  /\ step' = IF good THEN "main" ELSE "removal"
  /\ ok' = good
  /\ UNCHANGED <<outer, host, harness, spent, tried, full, final, found>>

\* Plausible mistake: no cleanup has failed yet.
NoneFailed == TRUE

\* The outcome before the execution says that nothing was cleaned.
InitialCleaned == FALSE

\* main up to the execution: nothing has reached the machine.
Preflight(time, good) ==
  /\ step \in {"main", "cleanup"} /\ pc = "preflight"
  /\ spent' = IF step = "cleanup" THEN spent + time ELSE spent
  /\ IF good /\ PreflightPasses
     THEN /\ pc' = IF step = "main" THEN "run" ELSE "cleanup"
          /\ todo' = IF step = "main" THEN Required ELSE Cleanups
          /\ cleaned' = (step = "cleanup")
          /\ UNCHANGED failed
     ELSE /\ failed' = TRUE /\ pc' = "write" /\ cleaned' = InitialCleaned
          /\ UNCHANGED todo
  /\ UNCHANGED <<outer, host, interrupted, step, tried, full, final, ok, found>>

\* Plausible mistake: a required phase that fails is repeated.
RepeatRequired(good) ==
  /\ todo' = IF ~good THEN todo ELSE IF Later # {} THEN Later ELSE Cleanups
  /\ pc' = IF good /\ Later = {} THEN "cleanup" ELSE pc
  /\ cleaned' = (good /\ Later = {})

\* The remaining phases after a required one: the cleanup is next when one fails.
AfterRequired(good) ==
  IF good /\ Later # {}
  THEN pc' = pc /\ todo' = Later /\ cleaned' = cleaned
  ELSE pc' = "cleanup" /\ todo' = Cleanups /\ cleaned' = TRUE

\* run_required.
RunPhase(r) ==
  /\ pc = "run"
  /\ Perform(Now, r)
  /\ AfterRequired(Acceptable(Now, r))
  /\ failed' = ~Acceptable(Now, r)
  /\ UNCHANGED <<outer, drifts, interrupted, job>>

AllCleanups(before, now) == before /\ now

\* One failed cleanup does not keep the next from being tried.
AfterCleanup(now) ==
  /\ cleaned' = AllCleanups(cleaned, now)
  /\ todo' = Later
  /\ pc' = IF todo' = {} THEN "write" ELSE pc

\* The process of a step is gone.
NoHarness ==
  /\ pc' = "preflight" /\ todo' = {} /\ interrupted' = "no"
  /\ failed' = FALSE /\ cleaned' = FALSE

\* What the job does after the harness of a step ended.
EndStep(good) ==
  /\ NoHarness
  /\ ok' = (ok /\ good)
  /\ step' = IF step = "main" THEN "cleanup" ELSE "removal"

\* INT during a phase of the main step: the runner cancels the playbook, which
\* is a failed phase,
Cancel(r) ==
  /\ step = "main" /\ interrupted = "no" /\ pc \in {"run", "cleanup"} /\ ~r.finished
  /\ Perform(Now, r)
  /\ interrupted' = "canceled"
  /\ IF pc = "run" THEN failed' = TRUE /\ AfterRequired(FALSE)
                   ELSE failed' = failed /\ AfterCleanup(FALSE)
  /\ UNCHANGED <<outer, drifts, job>>

\* or Python raises: the finally clause of execute_full still cleans up, but
\* nothing is reported; in the cleanup itself it ends the harness.
Raise(r) ==
  /\ step = "main" /\ interrupted = "no" /\ pc \in {"run", "cleanup"} /\ ~r.finished
  /\ Perform(Now, r)
  /\ IF pc = "run"
     THEN /\ interrupted' = "raised" /\ failed' = TRUE /\ AfterRequired(FALSE)
          /\ UNCHANGED <<step, ok>>
     ELSE EndStep(FALSE)
  /\ UNCHANGED <<outer, drifts, spent, tried, full, final>>

\* An interrupted step is killed after a while.
Kill ==
  /\ step = "main" /\ interrupted # "no"
  /\ EndStep(FALSE)
  /\ UNCHANGED <<outer, host, spent, tried, full, final, found>>

\* A cleanup of either step; the cleanup step is killed when it is over its
\* budget.
RunCleanup(r, time) ==
  /\ pc = "cleanup"
  /\ time <= Limit(Now)
  /\ Perform(Now, r)
  /\ IF step = "cleanup" /\ spent + time > CleanupBudget
     THEN EndStep(FALSE) /\ UNCHANGED <<spent, tried>>
     ELSE /\ AfterCleanup(Succeeded(Now, r))
          /\ spent' = IF step = "cleanup" THEN spent + time ELSE spent
          /\ tried' = IF step = "cleanup" THEN tried \cup {Now.profile} ELSE tried
          /\ UNCHANGED <<step, interrupted, failed, ok>>
  /\ UNCHANGED <<outer, drifts, full, final>>

\* write_evidence and the exit status of main.
WriteEvidence(written) ==
  /\ pc = "write"
  /\ interrupted = "raised" => ~written
  /\ LET successful == ~failed /\ cleaned
         e == [successful |-> successful, cleaned |-> cleaned] IN
     /\ IF step = "main" THEN full' = (IF written THEN e ELSE full) /\ UNCHANGED final
                         ELSE final' = (IF written THEN e ELSE final) /\ UNCHANGED full
     /\ EndStep(written /\ successful)
  /\ UNCHANGED <<outer, host, spent, tried, found>>

\* The credentials are removed and the evidence is uploaded.
RemoveCredentials ==
  /\ step = "removal"
  /\ step' = "done"
  /\ UNCHANGED <<outer, host, harness, spent, tried, full, final, ok, found>>

\* The runner is lost, or the job is ended by force.
LoseRunner ==
  /\ step \notin {"done", "lost"}
  /\ step' = "lost" /\ ok' = FALSE
  /\ NoHarness
  /\ UNCHANGED <<outer, host, spent, tried, full, final, found>>

Next ==
  \/ Drift
  \/ \E good \in BOOLEAN : Materialize(good)
  \/ \E time \in 0 .. PreflightLimit, good \in BOOLEAN : Preflight(time, good)
  \/ \E r \in Report : RunPhase(r) \/ Cancel(r) \/ Raise(r)
  \/ \E r \in Report, time \in 0 .. PhaseLimit : RunCleanup(r, time)
  \/ Kill
  \/ \E written \in BOOLEAN : WriteEvidence(written)
  \/ RemoveCredentials
  \/ LoseRunner

Spec == Init /\ [][Next]_vars

\* The job goes on: every playbook and query has a time limit.
FairSpec ==
  /\ Spec
  /\ WF_vars(\E good \in BOOLEAN : Materialize(good))
  /\ WF_vars(\E time \in 0 .. PreflightLimit, good \in BOOLEAN : Preflight(time, good))
  /\ WF_vars(\E r \in Report : RunPhase(r))
  /\ WF_vars(\E r \in Report, time \in 0 .. PhaseLimit : RunCleanup(r, time))
  /\ WF_vars(\E written \in BOOLEAN : WriteEvidence(written))
  /\ WF_vars(RemoveCredentials)

-----------------------------------------------------------------------------
\* Properties.

Evidence == {None} \cup [successful : BOOLEAN, cleaned : BOOLEAN]

\* Type invariant.
TypeOK ==
  /\ requested \in Requests /\ wrong \subseteq Guards
  /\ machine \in {"drifted", "partial", "desired"} /\ residue \subseteq Profile
  /\ drifts \in 0 .. MaxDrifts
  /\ step \in {"credentials", "main", "cleanup", "removal", "done", "lost"}
  /\ pc \in {"preflight", "run", "cleanup", "write"}
  /\ pc \in {"run", "cleanup"} => todo # {}
  /\ interrupted \in {"no", "canceled", "raised"}
  /\ {failed, cleaned, ok, unchanged, validated} \subseteq BOOLEAN
  /\ spent \in 0 .. CleanupBudget /\ tried \subseteq Profile /\ accepted \subseteq Profile
  /\ {full, final} \subseteq Evidence

\* Evidence of a successful run is about what happened on the machine: its
\* second deployment changed nothing there, its validation found it as deployed,
\* every requested profile was accepted on it and left nothing behind, however
\* playbooks fail, miss the machine or are cut short.
Proven ==
  full # None /\ full.successful =>
    /\ unchanged /\ validated
    /\ accepted = {requested[i] : i \in DOMAIN requested}
    /\ residue = {}

\* A job that succeeds, and a cleanup that reports success, leave nothing of the
\* requested profiles on the machine.
NoSilentResidue ==
  /\ step = "done" /\ ok => residue = {}
  /\ final # None /\ final.cleaned => residue = {}

\* A stuck or failed cleanup does not cost another profile its own: once the
\* cleanup step has begun to clean, what is left at the end of the job has been
\* tried in it.
EveryCleanupTried ==
  step = "done" /\ tried # {} => residue \subseteq tried

\* Every job ends.
JobEnds == <>(step \in {"done", "lost"})
=============================================================================
