--------------------------- MODULE WorkbenchProofs ---------------------------
(***************************************************************************)
(* For every list of profiles, selection, limit and budget that fits, the  *)
(* safety properties of Workbench.                                         *)
(***************************************************************************)
EXTENDS Workbench, FiniteSetTheorems, TLAPS

Asked == {requested[i] : i \in DOMAIN requested}

Chosen == {Allowed[i] : i \in Selected}

\* The profiles of the phases that are left.
Left == {phase.profile : phase \in todo}

\* Where the harness is, in which step, and what it may have left to do.
Placed ==
  /\ pc = "run" => step = "main" /\ todo \subseteq Required
  /\ pc = "cleanup" => step \in {"main", "cleanup"} /\ todo \subseteq Cleanups
  /\ pc = "write" => step \in {"main", "cleanup"}
  /\ full # None => step \notin {"credentials", "main"}
  /\ final # None => step \notin {"credentials", "main", "cleanup"}

\* No phase runs before the guards have passed.
Guarded == pc \in {"run", "cleanup"} => PreflightPasses

\* What has been shown of the phases that the harness has behind it.
Passed == unchanged /\ validated /\ accepted = Asked

Shown(phase) ==
  /\ phase.kind = "redeploy" => unchanged
  /\ phase.kind = "validate" => validated
  /\ phase.kind = "accept" => phase.profile \in accepted

Executed ==
  /\ accepted \subseteq Chosen
  /\ pc = "preflight" => ~failed
  /\ pc = "run" => ~failed /\ \A phase \in Required \ todo : Shown(phase)
  /\ step = "main" /\ pc \in {"cleanup", "write"} /\ ~failed => Passed
  /\ full # None /\ full.successful => Passed /\ residue = {}

\* What is left on the machine.
Remains ==
  /\ residue \subseteq Chosen
  /\ pc = "cleanup" /\ cleaned => residue \subseteq Left
  /\ pc = "write" /\ cleaned => residue = {}
  /\ step \in {"removal", "done"} /\ ok => residue = {}
  /\ final # None /\ final.cleaned => residue = {}

\* The budget of the cleanup step suffices for every profile that is left.
Budgeted ==
  /\ step \in {"credentials", "main"} \/ (step = "cleanup" /\ pc = "preflight")
       => spent = 0 /\ tried = {}
  /\ step = "cleanup" /\ pc = "cleanup" =>
       /\ spent <= PreflightLimit + Cardinality(tried) * CleanupLimit
       /\ tried \cap Left = {} /\ tried \cup Left = Chosen
  /\ (step = "cleanup" /\ pc = "write") \/ step \in {"removal", "done"}
       => tried = {} \/ tried = Chosen

IInv == TypeOK /\ Placed /\ Guarded /\ Executed /\ Remains /\ Budgeted
-----------------------------------------------------------------------------
(* A nonempty set of phases has a first one: the harness always knows which
   phase is next. *)
LEMMA NowIsLeft ==
  ASSUME todo # {}, \A phase \in todo : phase.place \in Nat
  PROVE  Now \in todo
<1> DEFINE P == {phase.place : phase \in todo}
<1>1. P \subseteq Nat /\ P # {}
  OBVIOUS
<1>2. IsWellFoundedOn({ss \in Nat \X Nat : ss[1] < ss[2]}, Nat)
  BY NatLessThanWellFounded DEF OpToRel
<1>3. \E x \in P : \A y \in P : x <= y
  <2> DEFINE R == {ss \in Nat \X Nat : ss[1] < ss[2]}
  <2> HIDE DEF P, R
  <2>1. PICK x \in P : \A y \in P : <<y, x>> \notin R
    BY <1>1, <1>2, WFMin DEF R
  <2>2. \A y \in P : ~(y < x)
    BY <1>1, <2>1 DEF R
  <2> QED BY <1>1, <2>2
<1>4. \E phase \in todo : \A other \in todo : phase.place <= other.place
  BY <1>3
<1> QED BY <1>4 DEF Now

(* The phases of a run and of a cleanup. *)
LEMMA PhaseFacts ==
  /\ \A phase \in Required :
       /\ phase.kind \in {"syntax", "check", "deploy", "redeploy", "validate", "accept"}
       /\ phase.kind = "accept" => phase.profile \in Chosen
       /\ phase.place \in Nat
  /\ \A phase \in Cleanups : phase.kind = "cleanup" /\ phase.profile \in Chosen /\ phase.place \in Nat
  /\ \A p \in Chosen : \E phase \in Cleanups : phase.profile = p
  /\ \A p \in Chosen : \E phase \in Required : phase.kind = "accept" /\ phase.profile = p
  /\ \E phase \in Required : phase.kind = "redeploy"
  /\ \E phase \in Required : phase.kind = "validate"
<1>1. \A i \in Selected : i \in Nat /\ 8 + i \in Nat
  BY WorkbenchAssumption DEF WorkbenchAssumption, Selected
<1>2. ASSUME NEW phase \in Required
      PROVE  /\ phase.kind \in {"syntax", "check", "deploy", "redeploy", "validate", "accept"}
             /\ phase.kind = "accept" => phase.profile \in Chosen
             /\ phase.place \in Nat
  <2>1. CASE phase \in Syntax
    BY <2>1 DEF Syntax, Phase
  <2>2. CASE phase \in Deployment
    BY <2>2 DEF Deployment, Phase
  <2>3. CASE \E i \in Selected : phase = Phase("accept", Allowed[i], 8 + i)
    BY <1>1, <2>3 DEF Phase, Chosen
  <2> QED BY <2>1, <2>2, <2>3 DEF Required
<1>3. ASSUME NEW phase \in Cleanups
      PROVE  phase.kind = "cleanup" /\ phase.profile \in Chosen /\ phase.place \in Nat
  BY <1>1 DEF Cleanups, Phase, Chosen
<1>4. ASSUME NEW p \in Chosen
      PROVE  /\ \E phase \in Cleanups : phase.profile = p
             /\ \E phase \in Required : phase.kind = "accept" /\ phase.profile = p
  <2>1. PICK i \in Selected : p = Allowed[i]
    BY DEF Chosen
  <2>2. Phase("cleanup", p, i) \in Cleanups /\ Phase("accept", p, 8 + i) \in Required
    BY <2>1 DEF Cleanups, Required
  <2>3. /\ Phase("cleanup", p, i).profile = p
        /\ Phase("accept", p, 8 + i).kind = "accept" /\ Phase("accept", p, 8 + i).profile = p
    BY DEF Phase
  <2> QED BY <2>2, <2>3
<1>5. Phase("redeploy", "none", 7) \in Required /\ Phase("redeploy", "none", 7).kind = "redeploy"
  BY DEF Required, Deployment, Phase
<1>6. Phase("validate", "none", 8) \in Required /\ Phase("validate", "none", 8).kind = "validate"
  BY DEF Required, Deployment, Phase
<1> QED
  BY <1>2, <1>3, <1>4, <1>5, <1>6

(* Two cleanups are of different profiles. *)
LEMMA OneCleanupEach ==
  ASSUME NEW f \in Cleanups, NEW g \in Cleanups, f.profile = g.profile
  PROVE  f = g
<1>1. PICK i \in Selected : f = Phase("cleanup", Allowed[i], i)
  BY DEF Cleanups
<1>2. PICK j \in Selected : g = Phase("cleanup", Allowed[j], j)
  BY DEF Cleanups
<1>3. Allowed[i] = Allowed[j] /\ i \in DOMAIN Allowed /\ j \in DOMAIN Allowed
  BY <1>1, <1>2 DEF Phase, Selected
<1>4. i = j
  BY <1>3, WorkbenchAssumption DEF WorkbenchAssumption, IsInjective
<1> QED BY <1>1, <1>2, <1>4

LEMMA ChosenFacts ==
  /\ Chosen \subseteq Profile
  /\ SelectionValid(requested) => Chosen = Asked /\ Chosen # {} /\ Cleanups # {}
<1>1. Chosen \subseteq Profile
  BY DEF Chosen, Profile, Selected
<1>2. ASSUME SelectionValid(requested) PROVE Chosen = Asked /\ Chosen # {} /\ Cleanups # {}
  <2>1. \A i \in DOMAIN requested : \E j \in DOMAIN Allowed : requested[i] = Allowed[j]
    BY <1>2 DEF SelectionValid, Profile
  <2>2. Chosen = Asked
    BY <2>1 DEF Chosen, Asked, Selected
  <2>3. Asked # {}
    BY <1>2 DEF SelectionValid, Asked
  <2> QED BY <2>2, <2>3, PhaseFacts
<1> QED BY <1>1, <1>2

(* A list of n profiles has at most n of them. *)
LEMMA ProfileCount ==
  IsFiniteSet(Profile) /\ Cardinality(Profile) <= Len(Allowed) /\ Len(Allowed) \in Nat
<1> DEFINE n == Len(Allowed)
<1>0. Allowed \in Seq(STRING)
  BY WorkbenchAssumption DEF WorkbenchAssumption
<1>1. n \in Nat /\ DOMAIN Allowed = 1 .. n
  BY <1>0
<1> HIDE DEF n
<1>2. IsFiniteSet(1 .. n) /\ Cardinality(1 .. n) = n
  BY <1>1, FS_Interval
<1>3. Allowed \in [1 .. n -> Profile] /\ \A p \in Profile : \E i \in 1 .. n : Allowed[i] = p
  BY <1>1, WorkbenchAssumption DEF WorkbenchAssumption, Profile
<1>4. Allowed \in Surjection(1 .. n, Profile)
  BY <1>3 DEF Surjection
<1>5. IsFiniteSet(Profile) /\ Cardinality(Profile) <= n
  BY <1>2, <1>4, FS_Surjection
<1> QED BY <1>1, <1>5 DEF n

(* As long as a profile has not been cleaned, there is time for one more
   cleanup within the budget of the step. *)
LEMMA BudgetSuffices ==
  ASSUME NEW T \in SUBSET Profile, NEW p \in Profile, p \notin T
  PROVE  /\ Cardinality(T) \in Nat /\ Cardinality(T \cup {p}) = Cardinality(T) + 1
         /\ PreflightLimit + Cardinality(T) * CleanupLimit + CleanupLimit <= CleanupBudget
<1>1. IsFiniteSet(T)
  BY ProfileCount, FS_Subset
<1>2. Cardinality(T) \in Nat /\ Cardinality(T \cup {p}) = Cardinality(T) + 1
  BY <1>1, FS_AddElement, FS_CardinalityType
<1>3. Cardinality(T) + 1 <= Len(Allowed)
  <2>1. T \cup {p} \in SUBSET Profile
    OBVIOUS
  <2>2. Cardinality(T \cup {p}) <= Cardinality(Profile)
    BY <2>1, ProfileCount, FS_Subset
  <2>3. Cardinality(Profile) \in Nat
    BY ProfileCount, FS_CardinalityType
  <2> QED BY <1>2, <2>2, <2>3, ProfileCount
<1>4. ASSUME NEW a \in Nat, NEW n \in Nat, a + 1 <= n, NEW c \in Nat
      PROVE  a * c + c <= n * c
  <2>1. PICK d \in Nat : n = a + 1 + d
    <3>1. n - (a + 1) \in Nat /\ n = a + 1 + (n - (a + 1))
      BY <1>4
    <3> QED BY <3>1
  <2>2. n * c = a * c + c + d * c
    BY <2>1
  <2>3. d * c \in Nat /\ a * c \in Nat
    OBVIOUS
  <2> QED BY <2>2, <2>3
<1>5. CleanupLimit \in Nat /\ PreflightLimit \in Nat /\ CleanupBudget \in Nat
      /\ PreflightLimit + Len(Allowed) * CleanupLimit <= CleanupBudget
  BY WorkbenchAssumption DEF WorkbenchAssumption
<1>6. Cardinality(T) * CleanupLimit + CleanupLimit <= Len(Allowed) * CleanupLimit
  BY <1>2, <1>3, <1>4, <1>5, ProfileCount
<1>7. Cardinality(T) * CleanupLimit \in Nat /\ Len(Allowed) * CleanupLimit \in Nat
  BY <1>2, <1>5, ProfileCount
<1> QED BY <1>2, <1>5, <1>6, <1>7
-----------------------------------------------------------------------------
-----------------------------------------------------------------------------
(* A phase that the harness has left is a known one. *)
LEMMA TodoFacts ==
  ASSUME IInv, pc \in {"run", "cleanup"}
  PROVE  /\ Now \in todo
         /\ pc = "run" => Now \in Required
         /\ pc = "cleanup" => Now \in Cleanups /\ Now.kind = "cleanup" /\ Now.profile \in Chosen
         /\ Now.kind = "accept" => pc = "run" /\ Now.profile \in Chosen
         /\ Later \subseteq todo
<1>1. todo # {} /\ (pc = "run" => todo \subseteq Required) /\ (pc = "cleanup" => todo \subseteq Cleanups)
  BY DEF IInv, TypeOK, Placed
<1>2. \A phase \in todo : phase.place \in Nat
  BY <1>1, PhaseFacts
<1>3. Now \in todo
  BY <1>1, <1>2, NowIsLeft
<1>4. pc = "cleanup" => Now.kind # "accept"
  BY <1>1, <1>3, PhaseFacts
<1> QED
  BY <1>1, <1>3, <1>4, PhaseFacts DEF Later

(* What a playbook does to the machine, its residue and what is known of it. *)
LEMMA Performed ==
  ASSUME TypeOK, NEW phase, NEW r \in Report, Perform(phase, r),
         phase.kind = "accept" => phase.profile \in Chosen
  PROVE  /\ machine' \in {"drifted", "partial", "desired"} /\ residue' \subseteq Profile
         /\ phase.kind = "accept" => residue' \subseteq residue \cup {phase.profile}
         /\ phase.kind # "accept" => residue' \subseteq residue
         /\ phase.kind = "cleanup" /\ Done(r) => residue' \subseteq residue \ {phase.profile}
<1>1. PICK m \in {"drifted", "partial", "desired"}, s \in SUBSET Profile :
         Effect(phase, r, m, s) /\ machine' = m /\ residue' = s
  BY DEF Perform
<1>2. Effect(phase, r, machine', residue')
  BY <1>1
<1>3. Done(r) => ~Missed(r)
  BY DEF Done, Missed
<1>4. CASE Missed(r) \/ phase.kind \in {"syntax", "check"}
  BY <1>1, <1>2, <1>3, <1>4 DEF Effect
<1>5. CASE ~(Missed(r) \/ phase.kind \in {"syntax", "check"})
  BY <1>1, <1>2, <1>5 DEF Effect
<1> QED BY <1>4, <1>5

LEMMA PerformFinds ==
  ASSUME TypeOK, NEW phase, NEW r \in Report, Perform(phase, r),
         phase.kind = "accept" => phase.profile \in Chosen
  PROVE  /\ unchanged' \in BOOLEAN /\ validated' \in BOOLEAN
         /\ unchanged => unchanged'
         /\ validated => validated'
         /\ accepted \subseteq accepted' /\ accepted' \subseteq accepted \cup Chosen
         /\ phase.kind # "accept" => accepted' = accepted
         /\ Acceptable(phase, r) => Shown(phase)'
<1>1. Found(phase, r)
  BY DEF Perform
<1>2. /\ unchanged' \in BOOLEAN /\ validated' \in BOOLEAN
      /\ unchanged => unchanged'
      /\ validated => validated'
  BY <1>1 DEF Found
<1>3. /\ accepted \subseteq accepted' /\ accepted' \subseteq accepted \cup Chosen
      /\ phase.kind # "accept" => accepted' = accepted
  BY <1>1 DEF Found
<1>4. ASSUME Acceptable(phase, r), phase.kind \in {"redeploy", "validate", "accept"}
      PROVE  Done(r) /\ (phase.kind # "accept" => r.stats.changed = 0)
  <2>1. /\ r.finished /\ TargetStats(r.stats)
        /\ r.stats # NoStats => r.stats.failures = 0
        /\ phase.kind # "accept" => Changed(r) = 0
    BY <1>4 DEF Acceptable, Succeeded
  <2>2. r.stats # NoStats /\ r.stats.hosts = {"target"}
    BY <2>1 DEF TargetStats
  <2> QED BY <2>1, <2>2 DEF Done, OnTarget, Changed
<1>5. Acceptable(phase, r) => Shown(phase)'
  <2>1. CASE phase.kind = "redeploy"
    BY <1>1, <1>4, <2>1 DEF Found, Shown
  <2>2. CASE phase.kind = "validate"
    BY <1>1, <1>4, <2>2 DEF Found, Shown
  <2>3. CASE phase.kind = "accept"
    BY <1>1, <1>4, <2>3 DEF Found, Shown
  <2> QED BY <2>1, <2>2, <2>3 DEF Shown
<1> QED BY <1>2, <1>3, <1>5
(* What depends on the request alone stays as the request does. *)
LEMMA SameRequest ==
  ASSUME UNCHANGED outer
  PROVE  /\ Required' = Required /\ Cleanups' = Cleanups /\ Chosen' = Chosen /\ Asked' = Asked
         /\ PreflightPasses' <=> PreflightPasses
         /\ requested' = requested /\ wrong' = wrong
  BY DEF outer, Required, Syntax, Deployment, Cleanups, Chosen, Asked, Selected, PreflightPasses,
         ContractValid, SelectionValid, ControllerValid, InventoryValid

(* A required phase: the run goes on with the next one, or with the cleanup. *)
LEMMA RequiredStep ==
  ASSUME IInv, pc = "run", NEW r \in Report, Perform(Now, r), NEW good \in BOOLEAN,
         AfterRequired(good), good => Acceptable(Now, r),
         failed' \in BOOLEAN, good <=> ~failed', interrupted' \in {"no", "canceled", "raised"},
         UNCHANGED <<outer, drifts, job>>
  PROVE  IInv'
<1>0. PICK f : f = Now
  OBVIOUS
<1>1. /\ TypeOK /\ Placed /\ Guarded /\ Executed /\ Remains /\ Budgeted /\ step = "main"
      /\ PreflightPasses
  BY DEF IInv, Placed, Guarded
<1>2. /\ Now \in todo /\ Now \in Required /\ todo \subseteq Required
      /\ Now.kind = "accept" => Now.profile \in Chosen
  BY <1>1, TodoFacts DEF Placed
<1>3. /\ UNCHANGED <<step, spent, tried, full, final, ok>>
      /\ Required' = Required /\ Cleanups' = Cleanups /\ Chosen' = Chosen /\ Asked' = Asked
      /\ PreflightPasses' /\ requested' = requested /\ wrong' = wrong
  BY <1>1, SameRequest DEF job
<1>4. /\ machine' \in {"drifted", "partial", "desired"} /\ residue' \subseteq Profile
      /\ residue' \subseteq Chosen
  BY <1>1, <1>2, Performed DEF Remains
<1>5. /\ unchanged' \in BOOLEAN /\ validated' \in BOOLEAN
      /\ unchanged => unchanged'
      /\ validated => validated'
      /\ accepted \subseteq accepted' /\ accepted' \subseteq Chosen
      /\ good => Shown(f)'
  <2>1. accepted \subseteq Chosen
    BY <1>1 DEF Executed
  <2>2. /\ TypeOK /\ Perform(f, r) /\ (good => Acceptable(f, r))
        /\ f.kind = "accept" => f.profile \in Chosen
    BY <1>0, <1>1, <1>2
  <2> QED BY <2>1, <2>2, PerformFinds
<1>6. Chosen \subseteq Profile /\ Chosen = Asked /\ Cleanups # {}
  BY <1>1, ChosenFacts DEF PreflightPasses
<1>7. /\ full = None /\ final = None
  BY <1>1 DEF Placed
<1>9. good => \A phase \in Required \ Later : Shown(phase)'
  <2>1. \A phase \in Required \ Later : phase = f \/ phase \in Required \ todo
    BY <1>0 DEF Later
  <2>2. \A phase : Shown(phase) => Shown(phase)'
    <3> SUFFICES ASSUME NEW phase, Shown(phase) PROVE Shown(phase)'
      OBVIOUS
    <3> QED BY <1>5 DEF Shown
  <2>3. \A phase \in Required \ todo : Shown(phase)
    BY <1>1 DEF Executed
  <2> QED BY <1>5, <2>1, <2>2, <2>3
<1>10. CASE good /\ Later # {}
  <2>1. pc' = "run" /\ todo' = Later /\ cleaned' = cleaned
    BY <1>10 DEF AfterRequired
  <2>2. TypeOK'
    BY <1>1, <1>3, <1>4, <1>5, <1>6, <1>10, <2>1 DEF TypeOK, outer
  <2>3. Placed' /\ Guarded'
    BY <1>1, <1>2, <1>3, <1>7, <2>1 DEF Placed, Guarded, Later
  <2>4. Executed'
    BY <1>3, <1>5, <1>7, <1>9, <1>10, <2>1 DEF Executed
  <2>5. Remains'
    BY <1>1, <1>3, <1>4, <1>7, <2>1 DEF Remains
  <2>6. Budgeted'
    BY <1>1, <1>3, <2>1 DEF Budgeted
  <2> QED BY <2>2, <2>3, <2>4, <2>5, <2>6 DEF IInv
<1>11. CASE ~(good /\ Later # {})
  <2>1. pc' = "cleanup" /\ todo' = Cleanups /\ cleaned' = TRUE
    BY <1>11 DEF AfterRequired
  <2>2. TypeOK'
    BY <1>1, <1>3, <1>4, <1>5, <1>6, <2>1 DEF TypeOK, outer
  <2>3. Placed' /\ Guarded'
    BY <1>1, <1>2, <1>3, <1>7, <2>1 DEF Placed, Guarded
  <2>4. good => Passed'
    <3> SUFFICES ASSUME good PROVE Passed'
      OBVIOUS
    <3>1. \A phase \in Required : Shown(phase)'
      BY <1>9, <1>11
    <3>2. unchanged' /\ validated'
      BY <3>1, PhaseFacts DEF Shown
    <3>3. \A p \in Chosen : p \in accepted'
      BY <3>1, PhaseFacts DEF Shown
    <3> QED BY <1>3, <1>5, <1>6, <3>2, <3>3 DEF Passed
  <2>5. Executed'
    BY <1>3, <1>5, <1>7, <2>1, <2>4 DEF Executed
  <2>6. Left' = Chosen
    <3>1. Left' = {phase.profile : phase \in Cleanups}
      BY <2>1 DEF Left
    <3>2. {phase.profile : phase \in Cleanups} = Chosen
      <4>1. \A phase \in Cleanups : phase.profile \in Chosen
        BY PhaseFacts
      <4>2. \A p \in Chosen : \E phase \in Cleanups : phase.profile = p
        BY PhaseFacts
      <4> QED BY <4>1, <4>2
    <3> QED BY <3>1, <3>2
  <2>7. Remains'
    BY <1>1, <1>3, <1>4, <1>7, <2>1, <2>6 DEF Remains
  <2>8. Budgeted'
    BY <1>1, <1>3, <2>1 DEF Budgeted
  <2> QED BY <2>2, <2>3, <2>5, <2>7, <2>8 DEF IInv
<1> QED BY <1>10, <1>11
(* A phase other than an acceptance shows no profile, and what was shown stays. *)
LEMMA PassedStays ==
  ASSUME TypeOK, Asked' = Asked, accepted' = accepted,
         unchanged => unchanged', validated => validated', Passed
  PROVE  Passed'
  BY DEF Passed

(* A cleanup, in either step: one profile less is left, and if all went well
   so far, only what is left can still be on the machine. *)
LEMMA CleanupStep ==
  ASSUME IInv, pc = "cleanup", NEW r \in Report, Perform(Now, r), NEW now \in BOOLEAN,
         AfterCleanup(now), now => Succeeded(Now, r),
         interrupted' \in {"no", "canceled", "raised"},
         UNCHANGED <<outer, drifts, step, failed, full, final, ok>>,
         step = "main" => UNCHANGED <<spent, tried>>,
         step = "cleanup" =>
           /\ spent' \in 0 .. CleanupBudget /\ spent' <= spent + CleanupLimit
           /\ tried' = tried \cup {Now.profile}
  PROVE  IInv'
<1>0. PICK f : f = Now
  OBVIOUS
<1>1. /\ TypeOK /\ Placed /\ Guarded /\ Executed /\ Remains /\ Budgeted
      /\ step \in {"main", "cleanup"} /\ PreflightPasses /\ todo \subseteq Cleanups
  BY DEF IInv, Placed, Guarded
<1>2. f \in todo /\ f \in Cleanups /\ f.kind = "cleanup" /\ f.profile \in Chosen
  BY <1>0, TodoFacts
<1>3. /\ Required' = Required /\ Cleanups' = Cleanups /\ Chosen' = Chosen /\ Asked' = Asked
      /\ PreflightPasses' /\ requested' = requested /\ wrong' = wrong
  BY <1>1, SameRequest
<1>4. Perform(f, r) /\ (now => Succeeded(f, r))
  BY <1>0
<1>5. /\ machine' \in {"drifted", "partial", "desired"} /\ residue' \subseteq Profile
      /\ residue' \subseteq residue
      /\ Done(r) => residue' \subseteq residue \ {f.profile}
  BY <1>1, <1>2, <1>4, Performed
<1>6. /\ unchanged' \in BOOLEAN /\ validated' \in BOOLEAN
      /\ unchanged => unchanged'
      /\ validated => validated'
      /\ accepted' = accepted
  BY <1>1, <1>2, <1>4, PerformFinds
<1>8. now => Done(r)
  BY <1>2, <1>4 DEF Succeeded, TargetStats, Done, OnTarget
<1>9. todo' = todo \ {f} /\ todo' \subseteq Cleanups
  BY <1>0, <1>1 DEF AfterCleanup, Later
<1>10. Left' = Left \ {f.profile} /\ f.profile \in Left
  <2>1. \A phase \in todo : phase.profile = f.profile => phase = f
    BY <1>1, <1>2, OneCleanupEach
  <2>2. Left' = {phase.profile : phase \in todo \ {f}}
    BY <1>9 DEF Left
  <2> QED BY <1>2, <2>1, <2>2 DEF Left
<1>11. /\ cleaned' = (cleaned /\ now)
       /\ pc' \in {"cleanup", "write"}
       /\ pc' = "write" <=> todo' = {}
  BY DEF AfterCleanup, AllCleanups
<1>12. cleaned' \in BOOLEAN /\ (cleaned' => cleaned /\ now)
  BY <1>11
<1>13. tried' \subseteq Profile /\ spent' \in 0 .. CleanupBudget
  <2>1. Chosen \subseteq Profile
    BY ChosenFacts
  <2> QED BY <1>0, <1>1, <1>2, <2>1 DEF TypeOK
<1>14. TypeOK'
  BY <1>1, <1>3, <1>5, <1>6, <1>11, <1>12, <1>13 DEF TypeOK
<1>15. Placed' /\ Guarded'
  BY <1>1, <1>3, <1>9, <1>11 DEF Placed, Guarded
<1>16. Passed => Passed'
  BY <1>1, <1>3, <1>6, PassedStays
<1>17. Executed'
  BY <1>1, <1>3, <1>5, <1>6, <1>11, <1>16 DEF Executed
<1>18. cleaned' => residue' \subseteq Left'
  BY <1>1, <1>5, <1>8, <1>10, <1>12 DEF Remains
<1>19. pc' = "write" => Left' = {}
  BY <1>11 DEF Left
<1>20. Remains'
  BY <1>1, <1>3, <1>5, <1>18, <1>19 DEF Remains, Placed
<1>21. Budgeted'
  <2>1. CASE step = "main"
    BY <1>1, <1>3, <2>1 DEF Budgeted
  <2>2. CASE step = "cleanup"
    <3>1. /\ spent <= PreflightLimit + Cardinality(tried) * CleanupLimit
          /\ tried \cap Left = {} /\ tried \cup Left = Chosen
          /\ tried' = tried \cup {f.profile} /\ spent' <= spent + CleanupLimit
      BY <1>0, <1>1, <2>2 DEF Budgeted
    <3>2. tried' \cap Left' = {} /\ tried' \cup Left' = Chosen
      BY <1>2, <1>10, <3>1
    <3>3. f.profile \in Profile /\ f.profile \notin tried /\ tried \in SUBSET Profile
      BY <1>1, <1>2, <1>10, <3>1, ChosenFacts DEF TypeOK
    <3>4. Cardinality(tried) \in Nat /\ Cardinality(tried') = Cardinality(tried) + 1
      BY <3>1, <3>3, BudgetSuffices
    <3>5. spent' <= PreflightLimit + Cardinality(tried') * CleanupLimit
      <4>1. PreflightLimit \in Nat /\ CleanupLimit \in Nat
        BY WorkbenchAssumption DEF WorkbenchAssumption
      <4>2. spent \in Nat /\ spent' \in Nat
        BY <1>1, <1>13 DEF TypeOK
      <4>3. Cardinality(tried') * CleanupLimit = Cardinality(tried) * CleanupLimit + CleanupLimit
        BY <3>4, <4>1
      <4>4. Cardinality(tried) * CleanupLimit \in Nat
        BY <3>4, <4>1
      <4> QED BY <3>1, <4>1, <4>2, <4>3, <4>4
    <3> QED BY <1>3, <1>11, <1>19, <2>2, <3>2, <3>5 DEF Budgeted
  <2> QED BY <1>1, <2>1, <2>2
<1> QED BY <1>14, <1>15, <1>17, <1>20, <1>21 DEF IInv

(* The end of a step, regular or not. *)
LEMMA StepEnds ==
  ASSUME IInv, step \in {"main", "cleanup"}, NEW good \in BOOLEAN, EndStep(good),
         UNCHANGED <<outer, drifts, spent, tried>>,
         machine' \in {"drifted", "partial", "desired"},
         residue' \subseteq residue,
         unchanged' \in BOOLEAN, validated' \in BOOLEAN, accepted' = accepted,
         unchanged => unchanged', validated => validated',
         full' \in Evidence, step = "cleanup" => full' = full,
         step = "main" /\ full' # None /\ full'.successful => Passed /\ residue = {},
         final' \in Evidence, step = "main" => final' = final,
         step = "cleanup" => pc = "write",
         step = "cleanup" /\ final' # None /\ final'.cleaned => residue = {},
         step = "cleanup" /\ good => residue = {}
  PROVE  IInv'
<1>1. TypeOK /\ Placed /\ Guarded /\ Executed /\ Remains /\ Budgeted
  BY DEF IInv
<1>2. /\ pc' = "preflight" /\ todo' = {} /\ interrupted' = "no"
      /\ failed' = FALSE /\ cleaned' = FALSE
      /\ ok' = (ok /\ good)
      /\ step' = IF step = "main" THEN "cleanup" ELSE "removal"
  BY DEF EndStep, NoHarness
<1>3. /\ Chosen' = Chosen /\ Asked' = Asked /\ requested' = requested /\ wrong' = wrong
  BY SameRequest
<1>4. ok' \in BOOLEAN /\ (ok' => good)
  BY <1>2
<1>5. TypeOK'
  BY <1>1, <1>2, <1>3, <1>4 DEF TypeOK
<1>6. Placed' /\ Guarded'
  BY <1>1, <1>2 DEF Placed, Guarded
<1>7. Passed => Passed'
  BY <1>1, <1>3, PassedStays
<1>8. Executed'
  BY <1>1, <1>2, <1>3, <1>7 DEF Executed
<1>9. Remains'
  BY <1>1, <1>2, <1>3, <1>4 DEF Remains, Placed
<1>10. Budgeted'
  BY <1>1, <1>2, <1>3 DEF Budgeted
<1> QED BY <1>5, <1>6, <1>8, <1>9, <1>10 DEF IInv
-----------------------------------------------------------------------------
(* Before anything has run, the invariant holds. *)
LEMMA Initially == Init => IInv
<1> SUFFICES ASSUME Init PROVE IInv
  OBVIOUS
<1>1. {PreflightLimit, CleanupLimit, PhaseLimit, CleanupBudget, MaxDrifts} \subseteq Nat
  BY WorkbenchAssumption DEF WorkbenchAssumption
<1>2. wrong \subseteq Guards
  BY DEF Init
<1>3. 0 \in 0 .. MaxDrifts /\ 0 \in 0 .. CleanupBudget
  BY <1>1
<1>4. {failed, cleaned, ok, unchanged, validated} \subseteq BOOLEAN
  BY DEF Init
<1>5. {full, final} \subseteq Evidence
  BY DEF Init, Evidence
<1>6. TypeOK
  BY <1>2, <1>3, <1>4, <1>5 DEF Init, TypeOK
<1> QED
  BY <1>6 DEF Init, IInv, Placed, Guarded, Executed, Remains, Budgeted

(* The guards, and what is to be run when they pass. *)
LEMMA PreflightKeeps ==
  ASSUME IInv, NEW time \in 0 .. PreflightLimit, NEW good \in BOOLEAN, Preflight(time, good)
  PROVE  IInv'
<1>1. /\ TypeOK /\ Placed /\ Guarded /\ Executed /\ Remains /\ Budgeted
      /\ step \in {"main", "cleanup"} /\ pc = "preflight"
  BY DEF IInv, Preflight
<1>2. /\ UNCHANGED <<outer, host, interrupted, step, tried, full, final, ok, found>>
      /\ spent' = IF step = "cleanup" THEN spent + time ELSE spent
  BY DEF Preflight
<1>3. /\ Required' = Required /\ Cleanups' = Cleanups /\ Chosen' = Chosen /\ Asked' = Asked
      /\ (PreflightPasses' <=> PreflightPasses) /\ requested' = requested /\ wrong' = wrong
      /\ UNCHANGED <<machine, residue, drifts, unchanged, validated, accepted>>
  BY <1>2, SameRequest DEF host, found
<1>4. /\ spent = 0 /\ tried = {} /\ spent' \in 0 .. CleanupBudget /\ spent' <= PreflightLimit
  <2>1. /\ PreflightLimit \in Nat /\ CleanupLimit \in Nat /\ CleanupBudget \in Nat
        /\ PreflightLimit + Len(Allowed) * CleanupLimit <= CleanupBudget
    BY WorkbenchAssumption DEF WorkbenchAssumption
  <2>2. Len(Allowed) * CleanupLimit \in Nat
    BY <2>1, ProfileCount
  <2>3. spent = 0 /\ tried = {}
    BY <1>1 DEF Budgeted
  <2> QED BY <1>2, <2>1, <2>2, <2>3
<1>5. CASE good /\ PreflightPasses
  <2>1. /\ pc' = IF step = "main" THEN "run" ELSE "cleanup"
        /\ todo' = IF step = "main" THEN Required ELSE Cleanups
        /\ cleaned' = (step = "cleanup") /\ failed' = failed
    BY <1>5 DEF Preflight
  <2>2. Required # {} /\ Cleanups # {}
    BY <1>5, PhaseFacts, ChosenFacts DEF PreflightPasses
  <2>3. ~failed /\ cleaned' \in BOOLEAN
    BY <1>1, <2>1 DEF Executed
  <2>4. TypeOK'
    BY <1>1, <1>2, <1>3, <1>4, <2>1, <2>2, <2>3 DEF TypeOK
  <2>5. Placed' /\ Guarded'
    BY <1>1, <1>2, <1>3, <1>5, <2>1 DEF Placed, Guarded
  <2>6. Executed'
    BY <1>1, <1>2, <1>3, <2>1, <2>3 DEF Executed, Passed
  <2>7. step = "cleanup" => Left' = Chosen
    <3>1. step = "cleanup" => Left' = {phase.profile : phase \in Cleanups}
      BY <2>1 DEF Left
    <3>2. {phase.profile : phase \in Cleanups} = Chosen
      <4>1. \A phase \in Cleanups : phase.profile \in Chosen
        BY PhaseFacts
      <4>2. \A p \in Chosen : \E phase \in Cleanups : phase.profile = p
        BY PhaseFacts
      <4> QED BY <4>1, <4>2
    <3> QED BY <3>1, <3>2
  <2>8. Remains'
    BY <1>1, <1>2, <1>3, <2>1, <2>7 DEF Remains
  <2>9. Budgeted'
    <3>1. step = "cleanup" => spent' <= PreflightLimit + Cardinality(tried') * CleanupLimit
      <4>1. Cardinality(tried') = 0
        BY <1>2, <1>4, FS_EmptySet
      <4>2. PreflightLimit \in Nat /\ CleanupLimit \in Nat
        BY WorkbenchAssumption DEF WorkbenchAssumption
      <4> QED BY <1>4, <4>1, <4>2
    <3> QED BY <1>1, <1>2, <1>3, <1>4, <2>1, <2>7, <3>1 DEF Budgeted
  <2> QED BY <2>4, <2>5, <2>6, <2>8, <2>9 DEF IInv
<1>6. CASE ~(good /\ PreflightPasses)
  <2>1. pc' = "write" /\ failed' = TRUE /\ cleaned' = FALSE /\ todo' = todo
    BY <1>6 DEF Preflight, InitialCleaned
  <2>2. TypeOK'
    BY <1>1, <1>2, <1>3, <1>4, <2>1 DEF TypeOK
  <2>3. Placed' /\ Guarded'
    BY <1>1, <1>2, <1>3, <2>1 DEF Placed, Guarded
  <2>4. Executed'
    BY <1>1, <1>2, <1>3, <2>1 DEF Executed, Passed
  <2>5. Remains'
    BY <1>1, <1>2, <1>3, <2>1 DEF Remains
  <2>6. Budgeted'
    BY <1>1, <1>2, <1>3, <1>4, <2>1 DEF Budgeted
  <2> QED BY <2>2, <2>3, <2>4, <2>5, <2>6 DEF IInv
<1> QED BY <1>5, <1>6

(* Every step of the job and of its harness keeps the invariant. *)
LEMMA Step ==
  ASSUME IInv, [Next]_vars
  PROVE  IInv'
<1>0. TypeOK /\ Placed /\ Guarded /\ Executed /\ Remains /\ Budgeted
  BY DEF IInv
<1>1. CASE Drift
  <2>1. /\ UNCHANGED <<outer, residue, harness, job, found>>
        /\ machine' = "drifted" /\ drifts' = drifts + 1 /\ drifts < MaxDrifts
    BY <1>1 DEF Drift
  <2>2. drifts' \in 0 .. MaxDrifts
    BY <1>0, <2>1, WorkbenchAssumption DEF WorkbenchAssumption, TypeOK
  <2>3. UNCHANGED <<pc, todo, interrupted, failed, cleaned, step, spent, tried, full, final, ok,
                    unchanged, validated, accepted, residue>>
    BY <2>1 DEF harness, job, found
  <2>4. /\ Required' = Required /\ Cleanups' = Cleanups /\ Chosen' = Chosen /\ Asked' = Asked
        /\ (PreflightPasses' <=> PreflightPasses) /\ requested' = requested /\ wrong' = wrong
    BY <2>1, SameRequest
  <2>5. Left' = Left /\ (Passed' <=> Passed)
    BY <2>3, <2>4 DEF Left, Passed
  <2>6. TypeOK'
    BY <1>0, <2>1, <2>2, <2>3, <2>4 DEF TypeOK
  <2>7. Placed' /\ Guarded' /\ Remains' /\ Budgeted'
    BY <1>0, <2>3, <2>4, <2>5 DEF Placed, Guarded, Remains, Budgeted
  <2>8. Executed'
    BY <1>0, <2>3, <2>4, <2>5 DEF Executed, Shown
  <2> QED BY <2>6, <2>7, <2>8 DEF IInv
<1>2. ASSUME NEW good \in BOOLEAN, Materialize(good) PROVE IInv'
  <2>1. /\ UNCHANGED <<outer, host, harness, spent, tried, full, final, found>>
        /\ step = "credentials" /\ step' = (IF good THEN "main" ELSE "removal") /\ ok' = good
    BY <1>2 DEF Materialize
  <2>2. UNCHANGED <<pc, todo, interrupted, failed, cleaned, machine, residue, drifts,
                    spent, tried, full, final, unchanged, validated, accepted>>
    BY <2>1 DEF harness, host, found
  <2>3. /\ Required' = Required /\ Cleanups' = Cleanups /\ Chosen' = Chosen /\ Asked' = Asked
        /\ (PreflightPasses' <=> PreflightPasses) /\ requested' = requested /\ wrong' = wrong
    BY <2>1, SameRequest
  <2>4. pc = "preflight" /\ full = None /\ final = None
    BY <1>0, <2>1 DEF Placed, TypeOK
  <2>5. TypeOK'
    BY <1>0, <2>1, <2>2, <2>3 DEF TypeOK
  <2>6. Placed' /\ Guarded'
    BY <1>0, <2>1, <2>2, <2>3, <2>4 DEF Placed, Guarded
  <2>7. Executed'
    BY <1>0, <2>1, <2>2, <2>3, <2>4 DEF Executed
  <2>8. Remains'
    BY <1>0, <2>1, <2>2, <2>3, <2>4 DEF Remains
  <2>9. Budgeted'
    BY <1>0, <2>1, <2>2, <2>3, <2>4 DEF Budgeted
  <2> QED BY <2>5, <2>6, <2>7, <2>8, <2>9 DEF IInv
<1>3. ASSUME NEW time \in 0 .. PreflightLimit, NEW good \in BOOLEAN, Preflight(time, good)
      PROVE  IInv'
  BY <1>3, PreflightKeeps
<1>4. ASSUME NEW r \in Report, RunPhase(r) PROVE IInv'
  <2>1. PICK good \in BOOLEAN : good <=> Acceptable(Now, r)
    OBVIOUS
  <2>2. /\ pc = "run" /\ Perform(Now, r) /\ UNCHANGED <<outer, drifts, interrupted, job>>
        /\ failed' = ~Acceptable(Now, r)
    BY <1>4 DEF RunPhase
  <2>3. AfterRequired(good)
    BY <1>4, <2>1 DEF RunPhase, AfterRequired
  <2>4. failed' \in BOOLEAN /\ (good <=> ~failed')
    BY <2>1, <2>2
  <2>5. interrupted' \in {"no", "canceled", "raised"}
    BY <1>0, <2>2 DEF TypeOK
  <2> QED BY <2>1, <2>2, <2>3, <2>4, <2>5, RequiredStep
<1>5. ASSUME NEW r \in Report, Cancel(r) PROVE IInv'
  <2>1. /\ step = "main" /\ pc \in {"run", "cleanup"} /\ Perform(Now, r)
        /\ interrupted' = "canceled" /\ UNCHANGED <<outer, drifts, job>>
    BY <1>5 DEF Cancel
  <2>2. CASE pc = "run"
    <3>1. failed' = TRUE /\ AfterRequired(FALSE)
      BY <1>5, <2>2 DEF Cancel
    <3> QED BY <2>1, <2>2, <3>1, RequiredStep
  <2>3. CASE pc = "cleanup"
    <3>1. failed' = failed /\ AfterCleanup(FALSE)
      BY <1>5, <2>3 DEF Cancel
    <3>2. UNCHANGED <<step, spent, tried, full, final, ok>>
      BY <2>1 DEF job
    <3> QED BY <2>1, <2>3, <3>1, <3>2, CleanupStep
  <2> QED BY <2>1, <2>2, <2>3
<1>6. ASSUME NEW r \in Report, Raise(r) PROVE IInv'
  <2>1. /\ step = "main" /\ pc \in {"run", "cleanup"} /\ Perform(Now, r)
        /\ UNCHANGED <<outer, drifts, spent, tried, full, final>>
    BY <1>6 DEF Raise
  <2>2. CASE pc = "run"
    <3>1. failed' = TRUE /\ AfterRequired(FALSE) /\ interrupted' = "raised" /\ UNCHANGED <<step, ok>>
      BY <1>6, <2>2 DEF Raise
    <3>2. UNCHANGED job
      BY <2>1, <3>1 DEF job
    <3> QED BY <2>1, <2>2, <3>1, <3>2, RequiredStep
  <2>3. CASE pc = "cleanup"
    <3>1. EndStep(FALSE)
      BY <1>6, <2>3 DEF Raise
    <3>2. Now.kind = "cleanup"
      BY <2>3, TodoFacts
    <3>4. /\ machine' \in {"drifted", "partial", "desired"} /\ residue' \subseteq residue
      BY <1>0, <2>1, <3>2, Performed
    <3>5. /\ unchanged' \in BOOLEAN /\ validated' \in BOOLEAN /\ accepted' = accepted
          /\ unchanged => unchanged'
          /\ validated => validated'
      BY <1>0, <2>1, <3>2, PerformFinds
    <3>6. full' \in Evidence /\ final' \in Evidence /\ full' = None
      BY <1>0, <2>1 DEF TypeOK, Placed
    <3> QED BY <2>1, <2>3, <3>1, <3>4, <3>5, <3>6, StepEnds
  <2> QED BY <2>1, <2>2, <2>3
<1>7. CASE Kill
  <2>1. /\ step = "main" /\ EndStep(FALSE)
        /\ UNCHANGED <<outer, host, spent, tried, full, final, found>>
    BY <1>7 DEF Kill
  <2>2. UNCHANGED <<machine, residue, drifts, unchanged, validated, accepted>>
    BY <2>1 DEF host, found
  <2>3. /\ machine' \in {"drifted", "partial", "desired"}
        /\ unchanged' \in BOOLEAN /\ validated' \in BOOLEAN
        /\ full' \in Evidence /\ final' \in Evidence /\ full' = None
    BY <1>0, <2>1, <2>2 DEF TypeOK, Guarded, Placed
  <2> QED BY <2>1, <2>2, <2>3, StepEnds
<1>8. ASSUME NEW r \in Report, NEW time \in 0 .. PhaseLimit, RunCleanup(r, time) PROVE IInv'
  <2>1. /\ pc = "cleanup" /\ time <= Limit(Now) /\ Perform(Now, r)
        /\ UNCHANGED <<outer, drifts, full, final>>
    BY <1>8 DEF RunCleanup
  <2>2. Now.kind = "cleanup" /\ Now.profile \in Chosen /\ Now \in todo
    BY <2>1, TodoFacts
  <2>3. time \in Nat /\ time <= CleanupLimit
    BY <1>8, <2>1, <2>2, WorkbenchAssumption DEF Limit, WorkbenchAssumption
  <2>4. ~(step = "cleanup" /\ spent + time > CleanupBudget)
    <3> SUFFICES ASSUME step = "cleanup" PROVE spent + time <= CleanupBudget
      BY <2>3, WorkbenchAssumption DEF WorkbenchAssumption, IInv, TypeOK
    <3>1. /\ spent <= PreflightLimit + Cardinality(tried) * CleanupLimit /\ tried \cap Left = {}
          /\ spent \in Nat
      BY <1>0, <2>1 DEF Budgeted, TypeOK
    <3>2. Now.profile \in Left /\ Now.profile \in Profile /\ tried \in SUBSET Profile
      BY <1>0, <2>2, ChosenFacts DEF Left, TypeOK
    <3>3. Cardinality(tried) \in Nat
          /\ PreflightLimit + Cardinality(tried) * CleanupLimit + CleanupLimit <= CleanupBudget
      BY <3>1, <3>2, BudgetSuffices
    <3>4. PreflightLimit \in Nat /\ CleanupLimit \in Nat /\ CleanupBudget \in Nat
      BY WorkbenchAssumption DEF WorkbenchAssumption
    <3>5. Cardinality(tried) * CleanupLimit \in Nat
      BY <3>3, <3>4
    <3> QED BY <2>3, <3>1, <3>3, <3>4, <3>5
  <2>5. /\ AfterCleanup(Succeeded(Now, r))
        /\ spent' = IF step = "cleanup" THEN spent + time ELSE spent
        /\ tried' = IF step = "cleanup" THEN tried \cup {Now.profile} ELSE tried
        /\ UNCHANGED <<step, interrupted, failed, ok>>
    BY <1>8, <2>4 DEF RunCleanup
  <2>6. PICK now \in BOOLEAN : now <=> Succeeded(Now, r)
    OBVIOUS
  <2>7. AfterCleanup(now)
    <3>1. now = Succeeded(Now, r)
      BY <2>6 DEF Succeeded
    <3> QED BY <2>5, <3>1
  <2>8. step = "cleanup" => spent' \in 0 .. CleanupBudget /\ spent' <= spent + CleanupLimit
    BY <1>0, <2>3, <2>4, <2>5, WorkbenchAssumption DEF WorkbenchAssumption, TypeOK
  <2>9. interrupted' \in {"no", "canceled", "raised"}
    BY <1>0, <2>5 DEF TypeOK
  <2> QED BY <2>1, <2>5, <2>6, <2>7, <2>8, <2>9, CleanupStep
<1>9. ASSUME NEW written \in BOOLEAN, WriteEvidence(written) PROVE IInv'
  <2> DEFINE successful == ~failed /\ cleaned
             e == [successful |-> successful, cleaned |-> cleaned]
  <2>1. /\ pc = "write" /\ UNCHANGED <<outer, host, spent, tried, found>>
        /\ IF step = "main" THEN full' = (IF written THEN e ELSE full) /\ UNCHANGED final
                            ELSE final' = (IF written THEN e ELSE final) /\ UNCHANGED full
        /\ EndStep(written /\ successful)
    BY <1>9 DEF WriteEvidence
  <2>2. UNCHANGED <<machine, residue, drifts, unchanged, validated, accepted>>
    BY <2>1 DEF host, found
  <2>3. step \in {"main", "cleanup"}
    BY <1>0, <2>1 DEF Placed
  <2>4. failed \in BOOLEAN /\ cleaned \in BOOLEAN /\ full \in Evidence /\ final \in Evidence
    BY <1>0 DEF TypeOK
  <2>5. e \in Evidence /\ e.successful = successful /\ e.cleaned = cleaned
    BY <2>4 DEF Evidence
  <2>6. cleaned => residue = {}
    BY <1>0, <2>1 DEF Remains
  <2>7. step = "main" /\ ~failed => Passed
    BY <1>0, <2>1 DEF Executed
  <2>8. (step = "main" => full = None) /\ final = None
    BY <1>0, <2>3 DEF Placed
  <2> HIDE DEF e
  <2>9. step = "main" => full' \in {None, e} /\ final' = final
    BY <2>1, <2>8
  <2>10. step = "cleanup" => final' \in {None, e} /\ full' = full
    BY <2>1, <2>8
  <2>11. step = "main" /\ full' # None /\ full'.successful => Passed /\ residue = {}
    BY <2>5, <2>6, <2>7, <2>9
  <2>12. step = "cleanup" /\ final' # None /\ final'.cleaned => residue = {}
    BY <2>5, <2>6, <2>10
  <2>13. full' \in Evidence /\ final' \in Evidence
    BY <2>3, <2>4, <2>5, <2>9, <2>10 DEF Evidence
  <2>14. /\ machine' \in {"drifted", "partial", "desired"}
         /\ unchanged' \in BOOLEAN /\ validated' \in BOOLEAN
    BY <1>0, <2>2 DEF TypeOK, Guarded
  <2>15. PICK good \in BOOLEAN : good = (written /\ successful)
    OBVIOUS
  <2>16. EndStep(good) /\ (good => residue = {})
    BY <2>1, <2>6, <2>15
  <2> QED BY <2>1, <2>2, <2>3, <2>9, <2>10, <2>11, <2>12, <2>13, <2>14, <2>16, StepEnds
<1>10. CASE RemoveCredentials
  <2>1. /\ UNCHANGED <<outer, host, harness, spent, tried, full, final, ok, found>>
        /\ step = "removal" /\ step' = "done"
    BY <1>10 DEF RemoveCredentials
  <2>2. UNCHANGED <<pc, todo, interrupted, failed, cleaned, machine, residue, drifts,
                    spent, tried, full, final, ok, unchanged, validated, accepted>>
    BY <2>1 DEF harness, host, found
  <2>3. /\ Required' = Required /\ Cleanups' = Cleanups /\ Chosen' = Chosen /\ Asked' = Asked
        /\ (PreflightPasses' <=> PreflightPasses) /\ requested' = requested /\ wrong' = wrong
    BY <2>1, SameRequest
  <2>4. pc = "preflight" /\ (Passed' <=> Passed)
    BY <1>0, <2>1, <2>2, <2>3 DEF Placed, TypeOK, Passed
  <2>5. TypeOK'
    BY <1>0, <2>1, <2>2, <2>3 DEF TypeOK
  <2>6. Placed' /\ Guarded' /\ Remains' /\ Budgeted'
    BY <1>0, <2>1, <2>2, <2>3, <2>4 DEF Placed, Guarded, Remains, Budgeted
  <2>7. Executed'
    BY <1>0, <2>1, <2>2, <2>3, <2>4 DEF Executed
  <2> QED BY <2>5, <2>6, <2>7 DEF IInv
<1>11. CASE LoseRunner
  <2>1. /\ UNCHANGED <<outer, host, spent, tried, full, final, found>>
        /\ step' = "lost" /\ ok' = FALSE
        /\ pc' = "preflight" /\ todo' = {} /\ interrupted' = "no" /\ failed' = FALSE /\ cleaned' = FALSE
    BY <1>11 DEF LoseRunner, NoHarness
  <2>2. UNCHANGED <<machine, residue, drifts, unchanged, validated, accepted>>
    BY <2>1 DEF host, found
  <2>3. /\ Chosen' = Chosen /\ Asked' = Asked /\ requested' = requested /\ wrong' = wrong
    BY <2>1, SameRequest
  <2>4. TypeOK'
    BY <1>0, <2>1, <2>2, <2>3 DEF TypeOK
  <2>5. Placed' /\ Guarded' /\ Remains' /\ Budgeted'
    BY <1>0, <2>1, <2>2, <2>3 DEF Placed, Guarded, Remains, Budgeted
  <2>6. Executed'
    BY <1>0, <2>1, <2>2, <2>3 DEF Executed, Passed
  <2> QED BY <2>4, <2>5, <2>6 DEF IInv
<1>12. CASE UNCHANGED vars
  <2>1. UNCHANGED <<outer, requested, wrong, machine, residue, drifts, pc, todo,
                    interrupted, failed, cleaned, step, spent, tried, full, final, ok, unchanged,
                    validated, accepted>>
    BY <1>12 DEF vars, outer, host, harness, job, found
  <2>2. /\ Required' = Required /\ Cleanups' = Cleanups /\ Chosen' = Chosen /\ Asked' = Asked
        /\ (PreflightPasses' <=> PreflightPasses)
    BY <2>1, SameRequest
  <2>3. Left' = Left /\ (Passed' <=> Passed)
    BY <2>1, <2>2 DEF Left, Passed
  <2>4. TypeOK' /\ Placed' /\ Guarded' /\ Remains' /\ Budgeted'
    BY <1>0, <2>1, <2>2, <2>3 DEF TypeOK, Placed, Guarded, Remains, Budgeted
  <2>5. Executed'
    BY <1>0, <2>1, <2>2, <2>3 DEF Executed, Shown
  <2> QED BY <2>4, <2>5 DEF IInv
<1> QED
  BY <1>1, <1>2, <1>3, <1>4, <1>5, <1>6, <1>7, <1>8, <1>9, <1>10, <1>11, <1>12 DEF Next

(* The inductive invariant holds throughout. *)
THEOREM Invariance == Spec => []IInv
  BY Initially, Step, PTL DEF Spec

(* The job, the harness and the machine keep their types; in particular the
   harness always has a phase to run when it runs, and the cleanup step stays
   within its budget. *)
THEOREM TypeCorrect == Spec => []TypeOK
  BY Invariance, PTL DEF IInv

(* Evidence of success is true of the machine, for any profiles, selection and
   limits: each required phase must have shown its part on the target itself,
   and every cleanup must have succeeded. *)
THEOREM EvidenceProven == Spec => []Proven
<1>1. IInv => Proven
  BY DEF IInv, Executed, Passed, Asked, Proven
<1> QED BY <1>1, Invariance, PTL

(* A job or a cleanup that reports success has left nothing on the machine. *)
THEOREM ResidueReported == Spec => []NoSilentResidue
<1>1. IInv => NoSilentResidue
  BY DEF IInv, Remains, NoSilentResidue
<1> QED BY <1>1, Invariance, PTL

(* Once the cleanup step has begun to clean it tries every requested profile,
   however slow and unsuccessful the cleanups are: their limits fit its budget. *)
THEOREM CleanupTried == Spec => []EveryCleanupTried
<1>1. IInv => EveryCleanupTried
  BY DEF IInv, Remains, Budgeted, EveryCleanupTried
<1> QED BY <1>1, Invariance, PTL
=============================================================================
