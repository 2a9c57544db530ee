---------------------------- MODULE ExactReview ----------------------------
(***************************************************************************)
(* The protected review of one pull request of the release app:            *)
(* release-bot-exact-head-review.yml with the materializer                 *)
(* materialize-exact-revision-review.py.  The app dispatches a run for the *)
(* base of the moment and a head.  An input, a base and a head, may be     *)
(* given to the reviewer (Codex) once: a run first reserves it with a      *)
(* check on the head, after looking for what earlier runs did about it, in *)
(* the checks and, since checks may vanish from GitHub's lists, in the     *)
(* ledger of runs and their steps.  The result is published as that        *)
(* protected check and as a neutral check of the head.                     *)
(* Runs of one head are serialised, those of different heads are not.  The *)
(* pull request changes at any time, API calls fail or lose their answer,  *)
(* steps fail or are cancelled, runners are lost, and people start runs    *)
(* again.  A call that is retried is one call here, with the outcome of    *)
(* its last try.                                                           *)
(***************************************************************************)
EXTENDS Integers, FiniteSets

CONSTANTS
  Heads,                          \* commits that may be the head
  None,                           \* no run, check or input
  MaxBase, MaxRuns, MaxChanges,   \* bounds: base commits, dispatches, changes
  MaxReruns                       \*   of the pull request, runs started again

Run == 1 .. MaxRuns
Inputs == (1 .. MaxBase) \X Heads

\* A check run is named by its kind and by the run that creates it.
Protected(r) == <<"protected", r>>
Neutral(r) == <<"neutral", r>>
Id == {"protected", "neutral"} \X Run

Check == [input : Inputs, producer : Run, visible : BOOLEAN,
          status : {"in_progress", "success", "failure"}]

ASSUME ExactReviewAssumption ==
  /\ {MaxBase, MaxRuns} \subseteq Nat \ {0} /\ {MaxChanges, MaxReruns} \subseteq Nat
  /\ None \notin Run \cup Id \cup Inputs \cup Check

VARIABLES
  pull, changes,  \* the pull request: [open (and no draft), base, head]
  last,           \* runs 1 .. last have been dispatched
  at,             \* where a run is
  input,          \* what it is about
  mode,           \* why it publishes: its own review, one it recovered from
                  \*   the ledger, or a protected check it reuses
  producer,       \* the run that reviewed the input
  held, neutral,  \* checks whose ID it knows
  named,          \* runs that know the external ID of the neutral check
  codex,          \* outcome of its review step
  failed,         \* runs of which a step has failed
  checks,         \* check runs on GitHub
  rerun,          \* runs that somebody has started again
  proved,         \* history: inputs that a run found unchanged at the end
  troubled        \* history: runs that lost track of a check of theirs

world == <<pull, changes>>
outputs == <<mode, producer, held, neutral, named>>
history == <<rerun, proved, troubled>>
vars == <<world, last, at, input, outputs, codex, failed, checks, history>>

Resting == {"cancelled", "failed", "succeeded", "lost"}
Closing == {"closeProtected", "closeNeutral"}
Working == {"read", "reread", "bind", "dedupe", "ledger", "reserve", "detail", "neutral", "post",
            "review", "reviewing", "prove", "reprove", "publish", "green"}
Active == Working \cup Closing \cup {"handoff"}

Go(r, place) == at' = [at EXCEPT ![r] = place]

\* A step of the review job fails, and the job goes on to its last two steps.
Break(r) == Go(r, "closeProtected") /\ failed' = failed \cup {r}

Ended(r) == at[r] \in Resting

\* Nobody reads the values of a review job that is over.
Forget(r) ==
  /\ mode' = [mode EXCEPT ![r] = "none"]
  /\ held' = [held EXCEPT ![r] = None]
  /\ named' = named \ {r}

-----------------------------------------------------------------------------
\* Init and the world.

Init ==
  /\ pull \in [open : {TRUE}, base : {1}, head : Heads] /\ changes = 0
  /\ last = 0
  /\ at = [r \in Run |-> "none"] /\ input = [r \in Run |-> None]
  /\ mode = [r \in Run |-> "none"] /\ producer = [r \in Run |-> None]
  /\ held = [r \in Run |-> None] /\ neutral = [r \in Run |-> None]
  /\ named = {} /\ failed = {}
  /\ codex = [r \in Run |-> "skipped"]
  /\ checks = [c \in Id |-> None]
  /\ rerun = {} /\ proved = {} /\ troubled = {}

\* A push to the head or the base branch, or a close.
Change(p) ==
  /\ changes < MaxChanges /\ changes' = changes + 1
  /\ p.base \in {pull.base, pull.base + 1} /\ (p.open => pull.open)
  /\ p # pull /\ pull' = p
  /\ UNCHANGED <<last, at, input, outputs, codex, failed, checks, history>>

\* It is opened again, and checks of its head are missing from lists after that.
Reopen(gone) ==
  /\ ~pull.open
  /\ \A c \in gone : checks[c] # None /\ checks[c].input[2] = pull.head
  /\ pull' = [pull EXCEPT !.open = TRUE]
  /\ checks' = [c \in Id |-> IF c \in gone THEN [checks[c] EXCEPT !.visible = FALSE]
                                           ELSE checks[c]]
  /\ UNCHANGED <<changes, last, at, input, outputs, codex, failed, history>>

\* The app dispatches a run on the base branch; a run of the same head that still
\* waits is cancelled.
Dispatch(head) ==
  /\ last < MaxRuns /\ last' = last + 1
  /\ at' = [r \in Run |-> IF r = last' THEN "queued"
                          ELSE IF at[r] = "queued" /\ input[r][2] = head THEN "cancelled"
                          ELSE at[r]]
  /\ input' = [input EXCEPT ![last'] = <<pull.base, head>>]
  /\ UNCHANGED <<world, outputs, codex, failed, checks, history>>

\* Somebody starts a run again: the second attempt does nothing, but the run now
\* counts as his.
Rerun(r) ==
  /\ Ended(r) /\ r \notin rerun /\ Cardinality(rerun) < MaxReruns
  /\ rerun' = rerun \cup {r}
  /\ UNCHANGED <<world, last, at, input, outputs, codex, failed, checks, proved, troubled>>

-----------------------------------------------------------------------------
\* The review job.

\* The concurrency group of the head is free.
Start(r) ==
  /\ at[r] = "queued"
  /\ \A q \in 1 .. last : at[q] \in Active => input[q][2] # input[r][2]
  /\ Go(r, "read")
  /\ UNCHANGED <<world, last, input, outputs, codex, failed, checks, history>>

\* Any step may fail, be cancelled or run out of time.  The neutral step names its
\* check before anything else can fail.
Fail(r) ==
  /\ at[r] \in Working
  /\ Break(r)
  /\ codex' = IF at[r] = "reviewing" THEN [codex EXCEPT ![r] = "failure"] ELSE codex
  /\ \/ UNCHANGED named
     \/ at[r] = "neutral" /\ named' = named \cup {r}
  /\ UNCHANGED <<world, last, input, mode, producer, held, neutral, checks, history>>

\* read_live_pull_request.
Live(r) == pull.open /\ <<pull.base, pull.head>> = input[r]

\* materialize reads the pull request before and after it builds the integration
\* tree and its diff, once for the review
Materialize(r) ==
  /\ at[r] \in {"read", "reread"} /\ Live(r)
  /\ Go(r, IF at[r] = "read" THEN "reread" ELSE "bind")
  /\ UNCHANGED <<world, last, input, outputs, codex, failed, checks, history>>

\* bind_assets.
Bind(r) ==
  /\ at[r] = "bind" /\ Go(r, "dedupe")
  /\ UNCHANGED <<world, last, input, outputs, codex, failed, checks, history>>

\* The checks that reserve input i, as far as GitHub lists them.
Reservations(i) ==
  {c \in Id : c[1] = "protected" /\ checks[c] # None /\ checks[c].visible /\ checks[c].input = i}

\* The only reservation belongs to a run of the app that is over.
Settleable(r, c) ==
  /\ Reservations(input[r]) = {c}
  /\ checks[c].producer \notin rerun /\ Ended(checks[c].producer)

\* It was left behind: it is closed, and the run ends.
CloseStale(r, c) ==
  /\ at[r] = "dedupe" /\ Settleable(r, c) /\ checks[c].status = "in_progress"
  /\ checks' = [checks EXCEPT ![c].status = "failure"]
  /\ Break(r)
  /\ UNCHANGED <<world, last, input, outputs, codex, history>>

\* It was passed: only the publication is repeated.
Reuse(r, c) ==
  /\ at[r] = "dedupe" /\ Settleable(r, c) /\ checks[c].status = "success"
  /\ mode' = [mode EXCEPT ![r] = "reused"]
  /\ producer' = [producer EXCEPT ![r] = checks[c].producer]
  /\ held' = [held EXCEPT ![r] = c]
  /\ Go(r, "neutral")
  /\ UNCHANGED <<world, last, input, neutral, named, codex, failed, checks, history>>

ReadLedger(r) ==
  /\ at[r] = "dedupe" /\ Reservations(input[r]) = {}
  /\ Go(r, "ledger")
  /\ UNCHANGED <<world, last, input, outputs, codex, failed, checks, history>>

\* Plausible mistake: only runs that ended well are looked at.
PriorSuccesses(r) ==
  {q \in (1 .. last) \ {r} : input[q] = input[r] /\ q \notin rerun /\ at[q] = "succeeded"}

\* The runs of the app for the same input.
Prior(r) == {q \in (1 .. last) \ {r} : input[q] = input[r] /\ q \notin rerun}

\* Plausible mistake: a review that came to an end is a review that passed.
Reviewed(q) == codex[q] \in {"PASS", "FAIL", "garbled"}

\* The run and every step of it succeeded.
Passed(q) == at[q] = "succeeded" /\ codex[q] \in {"PASS", "FAIL", "garbled"}

\* Runs without steps make the ledger unreadable; the step of a lost runner may
\* have a conclusion or none.
LedgerShows(r, q) ==
  /\ \A p \in Prior(r) : at[p] \notin {"queued", "cancelled"}
  /\ \E unknown \in SUBSET {p \in Prior(r) : codex[p] = "unknown"} :
       {p \in Prior(r) : codex[p] # "skipped"} \ unknown = {q}
  /\ Passed(q)

\* Nobody has worked on the input, or the only run that had it reviewed passed.
Ledger(r, q) ==
  /\ at[r] = "ledger"
  /\ IF q = r THEN Prior(r) = {} ELSE q \in Prior(r) /\ LedgerShows(r, q)
  /\ mode' = [mode EXCEPT ![r] = IF q = r THEN "own" ELSE "recovered"]
  /\ producer' = [producer EXCEPT ![r] = q]
  /\ Go(r, "reserve")
  /\ UNCHANGED <<world, last, input, held, neutral, named, codex, failed, checks, history>>

\* A check run of GitHub for run r.
Reservation(r) ==
  [input |-> input[r], producer |-> producer[r], status |-> "in_progress", visible |-> TRUE]

\* Plausible mistake: the answer is not needed.
Assumed(effect, answer) == answer

\* A creation is known by its answer or, when that is lost, found by reading.
Known(effect, answer) == effect /\ answer

\* create_reservation_once.
Reserve(r, effect, answer) ==
  /\ at[r] = "reserve"
  /\ checks' = IF effect THEN [checks EXCEPT ![Protected(r)] = Reservation(r)] ELSE checks
  /\ IF Known(effect, answer)
     THEN held' = [held EXCEPT ![r] = Protected(r)] /\ Go(r, "detail")
          /\ UNCHANGED <<failed, troubled>>
     ELSE Break(r) /\ troubled' = troubled \cup {r} /\ UNCHANGED held
  /\ UNCHANGED <<world, last, input, mode, producer, neutral, named, codex, rerun, proved>>

\* Its details_url is set.
Detail(r) ==
  /\ at[r] = "detail" /\ Go(r, "neutral")
  /\ UNCHANGED <<world, last, input, outputs, codex, failed, checks, history>>

AfterNeutral(r) == IF mode[r] = "own" THEN "review" ELSE "prove"

\* The external ID of check c names the producer and the input of run r.
Mine(r, c) == checks[c].producer = producer[r] /\ checks[c].input = input[r]

Neutrals(head) ==
  {c \in Id : c[1] = "neutral" /\ checks[c] # None /\ checks[c].visible /\ checks[c].input[2] = head}

\* The head has a neutral check: it must be this run's, and one that was closed as
\* failed may only turn green for an input that has passed.
FindNeutral(r, c) ==
  /\ at[r] = "neutral" /\ Neutrals(input[r][2]) = {c}
  /\ neutral' = [neutral EXCEPT ![r] = c] /\ named' = named \cup {r}
  /\ IF Mine(r, c) /\ (checks[c].status = "failure" => mode[r] # "own")
     THEN Go(r, AfterNeutral(r)) /\ UNCHANGED failed
     ELSE Break(r)
  /\ UNCHANGED <<world, last, input, mode, producer, held, codex, checks, history>>

NoNeutral(r) ==
  /\ at[r] = "neutral" /\ Neutrals(input[r][2]) = {}
  /\ Go(r, "post") /\ named' = named \cup {r}
  /\ UNCHANGED <<world, last, input, mode, producer, held, neutral, codex, failed, checks, history>>

PostNeutral(r, effect, answer) ==
  /\ at[r] = "post"
  /\ checks' = IF effect THEN [checks EXCEPT ![Neutral(r)] = Reservation(r)] ELSE checks
  /\ IF Known(effect, answer)
     THEN neutral' = [neutral EXCEPT ![r] = Neutral(r)] /\ Go(r, AfterNeutral(r))
          /\ UNCHANGED failed
     ELSE Break(r) /\ UNCHANGED neutral
  /\ UNCHANGED <<world, last, input, mode, producer, held, named, codex, history>>

\* Codex is asked, and answers.
Review(r) ==
  /\ at[r] = "review" /\ Go(r, "reviewing")
  /\ codex' = [codex EXCEPT ![r] = "unknown"]
  /\ UNCHANGED <<world, last, input, outputs, failed, checks, history>>

Answer(r, verdict) ==
  /\ at[r] = "reviewing" /\ Go(r, "prove")
  /\ codex' = [codex EXCEPT ![r] = verdict]
  /\ UNCHANGED <<world, last, input, outputs, failed, checks, history>>

\* verify: the pull request is read twice again and everything is built again.
Verify(r) ==
  /\ at[r] \in {"prove", "reprove"} /\ Live(r)
  /\ Go(r, IF at[r] = "prove" THEN "reprove" ELSE IF mode[r] = "reused" THEN "green" ELSE "publish")
  /\ proved' = IF at[r] = "reprove" THEN proved \cup {input[r]} ELSE proved
  /\ UNCHANGED <<world, last, input, outputs, codex, failed, checks, rerun, troubled>>

Conclusion(r) == IF mode[r] = "recovered" \/ codex[r] = "PASS" THEN "success" ELSE "failure"

\* The protected check is completed and read back.
Publish(r, effect, answer) ==
  /\ at[r] = "publish" /\ codex[r] # "garbled"
  /\ checks' = IF effect THEN [checks EXCEPT ![held[r]].status = Conclusion(r)] ELSE checks
  /\ IF Known(effect, answer) /\ Conclusion(r) = "success"
     THEN Go(r, "green") /\ UNCHANGED failed
     ELSE Break(r)
  /\ UNCHANGED <<world, last, input, outputs, codex, history>>

\* The neutral check is completed and read back.
Green(r, effect, answer) ==
  /\ at[r] = "green"
  /\ checks' = IF effect THEN [checks EXCEPT ![neutral[r]].status = "success"] ELSE checks
  /\ IF Known(effect, answer) THEN Go(r, "closeProtected") /\ UNCHANGED failed ELSE Break(r)
  /\ UNCHANGED <<world, last, input, outputs, codex, history>>

\* A check that is still open is closed as failed; the call may fail.
Close(r, C, effect, answer) ==
  IF C # {} /\ \A c \in C : checks[c].status = "in_progress"
  THEN /\ checks' = [c \in Id |-> IF c \in C /\ effect THEN [checks[c] EXCEPT !.status = "failure"]
                                                       ELSE checks[c]]
       /\ IF Known(effect, answer) THEN UNCHANGED <<failed, troubled>>
          ELSE failed' = failed \cup {r} /\ troubled' = troubled \cup {r}
  ELSE UNCHANGED <<checks, failed, troubled>>

\* Fail-close an unfinished protected reservation.
CloseProtected(r, effect, answer) ==
  /\ at[r] = "closeProtected"
  /\ Close(r, IF mode[r] \in {"own", "recovered"} /\ held[r] # None THEN {held[r]} ELSE {},
           effect, answer)
  /\ Go(r, "closeNeutral")
  /\ UNCHANGED <<world, last, input, outputs, codex, rerun, proved>>

\* Plausible mistake: only a check whose ID is known is closed.
OnlyKnown(r) == IF neutral[r] # None THEN {neutral[r]} ELSE {}

\* The neutral check of the run: by its ID or, without one, by its external ID.
Unfinished(r) ==
  IF neutral[r] # None THEN {neutral[r]} ELSE {c \in Neutrals(input[r][2]) : Mine(r, c)}

\* Fail-close an unfinished neutral reservation; a foreign one, or two, are left.
CloseNeutral(r, effect, answer) ==
  /\ at[r] = "closeNeutral"
  /\ IF r \in named
     THEN LET C == Unfinished(r) IN
          IF Cardinality(C) <= 1 /\ \A c \in C : Mine(r, c)
          THEN Close(r, C, effect, answer)
          ELSE failed' = failed \cup {r} /\ UNCHANGED <<checks, troubled>>
     ELSE UNCHANGED <<checks, failed, troubled>>
  /\ Go(r, IF r \in failed' THEN "failed" ELSE "handoff")
  /\ Forget(r)
  /\ UNCHANGED <<world, last, input, producer, neutral, codex, rerun, proved>>

\* The second job asks for the re-evaluation of the verifier on the same base.
Handoff(r, good) ==
  /\ at[r] = "handoff"
  /\ good => pull.base = input[r][1]
  /\ Go(r, IF good THEN "succeeded" ELSE "failed")
  /\ UNCHANGED <<world, last, input, outputs, codex, failed, checks, history>>

\* The runner is lost; GitHub ends the run.
Lose(r) ==
  /\ at[r] \in Active /\ Go(r, "lost")
  /\ Forget(r)
  /\ producer' = [producer EXCEPT ![r] = None]
  /\ neutral' = [neutral EXCEPT ![r] = None]
  /\ failed' = failed \ {r}
  /\ UNCHANGED <<world, last, input, codex, checks, history>>

-----------------------------------------------------------------------------
Call(r, effect, answer) ==
  \/ Reserve(r, effect, answer) \/ PostNeutral(r, effect, answer)
  \/ Publish(r, effect, answer) \/ Green(r, effect, answer)
  \/ CloseProtected(r, effect, answer) \/ CloseNeutral(r, effect, answer)

Step(r) ==
  \/ Start(r) \/ Materialize(r) \/ Bind(r) \/ ReadLedger(r)
  \/ \E c \in Id : CloseStale(r, c) \/ Reuse(r, c) \/ FindNeutral(r, c)
  \/ \E q \in Run : Ledger(r, q)
  \/ Detail(r) \/ NoNeutral(r) \/ Review(r)
  \/ \E v \in {"PASS", "FAIL", "garbled"} : Answer(r, v)
  \/ Verify(r)
  \/ \E effect, answer \in BOOLEAN : Call(r, effect, answer)
  \/ \E good \in BOOLEAN : Handoff(r, good)
  \/ Fail(r) \/ Lose(r) \/ Rerun(r)

Next ==
  \/ \E p \in [open : BOOLEAN, base : 1 .. MaxBase, head : Heads] : Change(p)
  \/ \E gone \in SUBSET Id : Reopen(gone)
  \/ \E head \in Heads : Dispatch(head)
  \/ \E r \in Run : Step(r)

Spec == Init /\ [][Next]_vars

-----------------------------------------------------------------------------
\* Properties.

\* Type invariant.
TypeOK ==
  /\ pull \in [open : BOOLEAN, base : 1 .. MaxBase, head : Heads] /\ changes \in 0 .. MaxChanges
  /\ last \in 0 .. MaxRuns
  /\ at \in [Run -> {"none", "queued"} \cup Active \cup Resting]
  /\ input \in [Run -> Inputs \cup {None}]
  /\ mode \in [Run -> {"none", "own", "recovered", "reused"}]
  /\ producer \in [Run -> Run \cup {None}]
  /\ held \in [Run -> Id \cup {None}] /\ neutral \in [Run -> Id \cup {None}]
  /\ codex \in [Run -> {"skipped", "unknown", "failure", "PASS", "FAIL", "garbled"}]
  /\ {named, failed, rerun, troubled} \subseteq SUBSET Run /\ proved \subseteq Inputs
  /\ checks \in [Id -> Check \cup {None}]
  \* a run works only with checks that exist
  /\ \A r \in Run, c \in Id : c \in {held[r], neutral[r]} => checks[c] # None
  /\ \A r \in Run : at[r] \in {"publish", "green"} => held[r] # None /\ neutral[r] # None

\* No input is given to the reviewer twice, whatever failed, vanished from the lists
\* or was repeated, as far as the runs that had it reviewed were not started again
\* by hand.
AskedOnce ==
  \A r, q \in Run \ rerun :
    r # q /\ input[r] = input[q] => codex[r] = "skipped" \/ codex[q] = "skipped"

\* A green check rests on a review that passed, of exactly its input, and on a
\* later proof that this was still the pull request, however many runs it took.
GreenIsProven ==
  \A c \in Id : checks[c] # None /\ checks[c].status = "success" =>
    /\ codex[checks[c].producer] = "PASS" /\ input[checks[c].producer] = checks[c].input
    /\ checks[c].input \in proved

\* A run that ends leaves no check open that it created or took over, unless its
\* runner was lost or GitHub did not answer.
Settled ==
  \A r \in Run, c \in Id :
    /\ at[r] \in {"failed", "succeeded"} /\ r \notin troubled
    /\ checks[c] # None /\ checks[c].visible
    /\ c \in {Protected(r), Neutral(r)} \/ (c = neutral[r] /\ Mine(r, c))
    => checks[c].status # "in_progress"
=============================================================================
