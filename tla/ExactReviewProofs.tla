-------------------------- MODULE ExactReviewProofs --------------------------
(***************************************************************************)
(* No input is reviewed twice, a green check rests on a review that        *)
(* passed, and a run leaves no check of its own open, for any number of    *)
(* runs, inputs, changes and runs started again.                           *)
(*                                                                         *)
(* The runs of one head exclude one another (Alone), so that what a run    *)
(* has read in the ledger stays so until it has asked the reviewer: nobody *)
(* else can ask for the same input meanwhile (OnlyAsker).  For the rest,   *)
(* every run is described by itself (RunOK): a step of another run cannot  *)
(* disturb it, because it creates checks under its own name only and never *)
(* takes a result back (Harmless).                                         *)
(***************************************************************************)
EXTENDS ExactReview, FiniteSetTheorems, TLAPS

Before == {"none", "queued", "cancelled"}
Reading == {"read", "reread", "bind", "dedupe", "ledger"}
Reserved == {"detail", "neutral", "post"}
Posted == {"review", "reviewing", "prove", "reprove", "publish", "green"}
Busy == Working \cup Closing

Types ==
  /\ pull \in [open : BOOLEAN, base : 1 .. MaxBase, head : Heads] /\ changes \in 0 .. MaxChanges
  /\ last \in 0 .. MaxRuns
  /\ at \in [Run -> {"none", "queued"} \cup Active \cup Resting]
  /\ input \in [Run -> Inputs \cup {None}]
  /\ mode \in [Run -> {"none", "own", "recovered", "reused"}]
  /\ producer \in [Run -> Run \cup {None}]
  /\ held \in [Run -> Id \cup {None}] /\ neutral \in [Run -> Id \cup {None}]
  /\ codex \in [Run -> {"skipped", "unknown", "failure", "PASS", "FAIL", "garbled"}]
  /\ {named, failed, rerun, troubled} \subseteq SUBSET Run /\ proved \subseteq Inputs
  /\ checks \in [Id -> Check \cup {None}]

Dispatched ==
  \A r \in Run : /\ r > last <=> at[r] = "none"
                 /\ r <= last => input[r] \in Inputs

(* The mode of a run and what it says of the producer. *)
Modes(r) ==
  /\ at[r] \in Before \cup Reading \cup Resting \cup {"handoff"} => mode[r] = "none"
  /\ at[r] \in {"reserve", "detail", "publish"} => mode[r] \in {"own", "recovered"}
  /\ at[r] \in {"neutral", "post", "prove", "reprove", "green"} => mode[r] # "none"
  /\ at[r] \in {"review", "reviewing"} => mode[r] = "own"
  /\ mode[r] # "none" => producer[r] \in Run
  /\ mode[r] = "own" => producer[r] = r
  /\ mode[r] \in {"recovered", "reused"} =>
       codex[r] = "skipped" /\ codex[producer[r]] = "PASS" /\ input[producer[r]] = input[r]

(* Its review. *)
Codices(r) ==
  /\ at[r] \in Before \cup Reading \cup Reserved \cup {"reserve", "review"} => codex[r] = "skipped"
  /\ at[r] = "reviewing" => codex[r] = "unknown"
  /\ at[r] = "green" /\ mode[r] = "own" => codex[r] = "PASS"
  /\ at[r] \in Closing /\ r \notin failed => codex[r] \in {"skipped", "PASS"}
  /\ at[r] \in {"handoff", "succeeded"} => codex[r] \in {"skipped", "PASS"}
  /\ at[r] \in {"publish", "green"} => input[r] \in proved

(* The checks whose ID it knows. *)
Knows(r) ==
  /\ at[r] \in Before \cup Reading \cup {"reserve"} => held[r] = None
  /\ at[r] \in Before \cup Reading \cup Reserved \cup {"reserve"} => neutral[r] = None
  /\ at[r] \in Reserved \cup Posted => held[r] # None
  /\ at[r] \in Posted => neutral[r] # None /\ Mine(r, neutral[r])
  /\ held[r] # None => checks[held[r]] # None /\ Mine(r, held[r])
  /\ neutral[r] # None => checks[neutral[r]] # None
  /\ at[r] = "post" \/ (neutral[r] # None /\ at[r] \in Busy) => r \in named

(* The checks that it creates, as long as it works on them. *)
Created(r) ==
  /\ at[r] \in Before \cup Reading \cup {"reserve"} \/ mode[r] = "reused" => checks[Protected(r)] = None
  /\ at[r] \in Before \cup Reading \cup Reserved \cup {"reserve"} => checks[Neutral(r)] = None
  /\ checks[Protected(r)] # None /\ at[r] \in Working \cup {"closeProtected"} /\ r \notin troubled =>
       held[r] = Protected(r) /\ mode[r] \in {"own", "recovered"}
  /\ checks[Neutral(r)] # None /\ at[r] \in Busy =>
       r \in named /\ neutral[r] \in {None, Neutral(r)} /\ Mine(r, Neutral(r))

(* And when it has closed them. *)
Closed(r) ==
  r \notin troubled =>
    /\ at[r] \in {"closeNeutral", "handoff", "failed", "succeeded"} /\ checks[Protected(r)] # None =>
         checks[Protected(r)].status # "in_progress"
    /\ at[r] \in {"handoff", "failed", "succeeded"} =>
         \A c \in Id : /\ checks[c] # None /\ checks[c].visible
                       /\ c = Neutral(r) \/ (c = neutral[r] /\ Mine(r, c))
                       => checks[c].status # "in_progress"

RunOK(r) == Modes(r) /\ Codices(r) /\ Knows(r) /\ Created(r) /\ Closed(r)

(* Runs of one head exclude one another. *)
Alone ==
  \A r, q \in Run : r # q /\ at[r] \in Active /\ at[q] \in Active => input[r][2] # input[q][2]

(* While a run is about to ask, nobody else has asked, or his run was started again. *)
OnlyAsker ==
  \A r, q \in Run : r # q /\ mode[r] = "own" /\ at[r] \in Busy /\ input[q] = input[r] /\ q \notin rerun =>
    codex[q] = "skipped"

(* A head has one neutral check that is listed. *)
OneNeutral ==
  /\ \A c, d \in Id : /\ c[1] = "neutral" /\ d[1] = "neutral"
                      /\ checks[c] # None /\ checks[d] # None
                      /\ checks[c].visible /\ checks[d].visible
                      /\ checks[c].input[2] = checks[d].input[2]
                      => c = d
  /\ \A r \in Run : at[r] = "post" => Neutrals(input[r][2]) = {}

IInv ==
  /\ Types /\ Dispatched
  /\ \A r \in Run : RunOK(r)
  /\ Alone /\ OnlyAsker /\ OneNeutral
  /\ AskedOnce /\ GreenIsProven

-----------------------------------------------------------------------------
(* What a step of run r leaves to everybody else. *)
Harmless(r) ==
  /\ input' = input /\ last' = last /\ proved \subseteq proved' /\ rerun \subseteq rerun'
  /\ \A q \in Run \ {r} :
       /\ at'[q] = at[q] /\ mode'[q] = mode[q] /\ producer'[q] = producer[q]
       /\ held'[q] = held[q] /\ neutral'[q] = neutral[q] /\ codex'[q] = codex[q]
       /\ q \in named' <=> q \in named
       /\ q \in failed' <=> q \in failed
       /\ q \in troubled' <=> q \in troubled
  /\ codex[r] = "PASS" => codex'[r] = "PASS"
  /\ \A c \in Id :
       /\ checks[c] # None =>
            /\ checks'[c] # None
            /\ checks'[c].producer = checks[c].producer /\ checks'[c].input = checks[c].input
            /\ checks'[c].visible = checks[c].visible
            /\ checks[c].status # "in_progress" => checks'[c].status # "in_progress"
       /\ checks[c] = None /\ c \notin {Protected(r), Neutral(r)} => checks'[c] = None

(* Two runs never create the same check. *)
LEMMA Names ==
  \A r, q \in Run : /\ Protected(r) \in Id /\ Neutral(r) \in Id /\ Protected(r) # Neutral(q)
                    /\ Protected(r) = Protected(q) => r = q
                    /\ Neutral(r) = Neutral(q) => r = q
  BY DEF Protected, Neutral, Id

(* A step of r does not disturb the others. *)
LEMMA Undisturbed ==
  ASSUME IInv, NEW r \in Run, NEW q \in Run, q # r, Harmless(r)
  PROVE  RunOK(q)'
  <1>1. /\ at'[q] = at[q] /\ mode'[q] = mode[q] /\ producer'[q] = producer[q]
        /\ held'[q] = held[q] /\ neutral'[q] = neutral[q] /\ codex'[q] = codex[q]
        /\ q \in named' <=> q \in named
        /\ q \in failed' <=> q \in failed
        /\ q \in troubled' <=> q \in troubled
        /\ input' = input /\ proved \subseteq proved'
    BY DEF Harmless
  <1>2. RunOK(q)
    BY DEF IInv
  <1>3. producer[q] \in Run /\ codex[producer[q]] = "PASS" => codex'[producer[q]] = "PASS"
    BY DEF Harmless
  <1>4. Modes(q)'
    BY <1>1, <1>2, <1>3 DEF RunOK, Modes
  <1>5. Codices(q)'
    BY <1>1, <1>2 DEF RunOK, Codices
  <1>6. \A c \in Id : checks[c] # None =>
            /\ checks'[c] # None /\ (Mine(q, c) <=> Mine(q, c)')
            /\ checks'[c].visible = checks[c].visible
            /\ checks[c].status # "in_progress" => checks'[c].status # "in_progress"
    BY <1>1 DEF Harmless, Mine
  <1>7. /\ held[q] \in Id \cup {None} /\ neutral[q] \in Id \cup {None}
        /\ Protected(q) \in Id /\ Neutral(q) \in Id
    BY Names DEF IInv, Types
  <1>8. /\ checks[Protected(q)] = None => checks'[Protected(q)] = None
        /\ checks[Neutral(q)] = None => checks'[Neutral(q)] = None
    BY Names DEF Harmless
  <1>9. Knows(q)'
    BY <1>1, <1>2, <1>6, <1>7 DEF RunOK, Knows, Mine
  <1>10. Created(q)'
    BY <1>1, <1>2, <1>6, <1>7, <1>8 DEF RunOK, Created, Mine
  <1>11. Closed(q)'
    <2>1. \A c \in Id : checks'[c] # None /\ (c = Neutral(q) \/ c = neutral[q]) => checks[c] # None
      BY <1>2, <1>7, <1>8, ExactReviewAssumption DEF RunOK, Knows
    <2>2. ASSUME (q \notin troubled)', (at[q] \in {"closeNeutral", "handoff", "failed", "succeeded"})',
                 (checks[Protected(q)] # None)'
          PROVE  (checks[Protected(q)].status # "in_progress")'
      <3>1. checks[Protected(q)] # None /\ checks[Protected(q)].status # "in_progress"
        BY <1>1, <1>2, <1>8, <2>2 DEF RunOK, Closed
      <3> QED BY <1>6, <1>7, <3>1
    <2>3. ASSUME (q \notin troubled)', (at[q] \in {"handoff", "failed", "succeeded"})', NEW c \in Id,
                 (checks[c] # None /\ checks[c].visible)',
                 (c = Neutral(q) \/ (c = neutral[q] /\ Mine(q, c)))'
          PROVE  (checks[c].status # "in_progress")'
      <3>1. checks[c] # None
        BY <1>1, <2>1, <2>3
      <3>2. checks[c].visible /\ (c = Neutral(q) \/ (c = neutral[q] /\ Mine(q, c)))
        BY <1>1, <1>6, <2>3, <3>1 DEF Mine
      <3>3. checks[c].status # "in_progress"
        BY <1>1, <1>2, <2>3, <3>1, <3>2 DEF RunOK, Closed
      <3> QED BY <1>6, <3>1, <3>3
    <2> QED BY <2>2, <2>3 DEF Closed
  <1> QED BY <1>4, <1>5, <1>9, <1>10, <1>11 DEF RunOK

(* What a step of run r must show for the invariant to hold after it. *)
Fits(r) ==
  /\ at[r] \in Active /\ at'[r] # "none" /\ rerun' = rerun
  /\ codex'[r] # codex[r] => mode[r] = "own"
  /\ mode'[r] = "own" /\ mode[r] # "own" =>
       \A q \in Run \ {r} : input[q] = input[r] /\ q \notin rerun => codex[q] = "skipped"
  /\ checks'[Neutral(r)] # None /\ checks[Neutral(r)] = None =>
       at[r] = "post" /\ checks'[Neutral(r)].input = input[r]
  /\ at'[r] = "post" => Neutrals(input[r][2]) = {} /\ checks' = checks
  /\ \A c \in Id : checks'[c] # None /\ checks'[c].status = "success" =>
       \/ checks[c] # None /\ checks[c].status = "success"
       \/ /\ checks'[c].producer \in Run /\ codex[checks'[c].producer] = "PASS"
          /\ input[checks'[c].producer] = checks'[c].input /\ checks'[c].input \in proved

(* A step of one run that fits keeps the invariant. *)
LEMMA Lift ==
  ASSUME IInv, NEW r \in Run, Types', RunOK(r)', Harmless(r), Fits(r)
  PROVE  IInv'
  <1>1. \A q \in Run : RunOK(q)'
    BY Undisturbed
  <1>2. /\ input' = input /\ last' = last /\ proved \subseteq proved' /\ rerun' = rerun
        /\ \A q \in Run \ {r} : at'[q] = at[q] /\ mode'[q] = mode[q] /\ codex'[q] = codex[q]
    BY DEF Harmless, Fits
  <1>3. Dispatched'
    BY <1>2 DEF IInv, Dispatched, Fits, Active, Working, Closing
  <1>4. Alone'
    BY <1>2 DEF IInv, Alone, Fits
  <1>5. mode[r] = "own" => at[r] \in Busy
    BY DEF IInv, RunOK, Modes, Fits, Active, Busy
  <1>6. OnlyAsker'
    <2> SUFFICES ASSUME NEW a \in Run, NEW b \in Run, a # b, (mode[a] = "own")', (at[a] \in Busy)',
                        input[b] = input[a], b \notin rerun
                 PROVE  codex'[b] = "skipped"
      BY <1>2 DEF OnlyAsker
    <2>1. CASE a = r
      BY <1>2, <1>5, <2>1 DEF IInv, OnlyAsker, Fits
    <2>2. CASE a # r /\ b = r
      <3>1. at[a] \in Active /\ at[r] \in Active
        BY <1>2, <2>2 DEF Fits, Busy, Active
      <3> QED BY <2>2, <3>1 DEF IInv, Alone
    <2>3. CASE a # r /\ b # r
      BY <1>2, <2>3 DEF IInv, OnlyAsker
    <2> QED BY <2>1, <2>2, <2>3
  <1>7. AskedOnce'
    <2> SUFFICES ASSUME NEW a \in Run \ rerun, NEW b \in Run \ rerun, a # b, input[a] = input[b]
                 PROVE  codex'[a] = "skipped" \/ codex'[b] = "skipped"
      BY <1>2 DEF AskedOnce
    <2>1. ASSUME NEW q \in Run \ rerun, q # r, input[q] = input[r], codex'[r] # codex[r]
          PROVE  codex'[q] = "skipped"
      BY <1>2, <1>5, <2>1 DEF IInv, OnlyAsker, Fits
    <2>2. CASE a = r
      BY <1>2, <2>1, <2>2 DEF IInv, AskedOnce
    <2>3. CASE b = r
      BY <1>2, <2>1, <2>3 DEF IInv, AskedOnce
    <2>4. CASE a # r /\ b # r
      BY <1>2, <2>4 DEF IInv, AskedOnce
    <2> QED BY <2>2, <2>3, <2>4
  <1>8. OneNeutral'
    <2>1. ASSUME NEW c \in Id, c[1] = "neutral", (checks[c] # None)', c # Neutral(r)
          PROVE  /\ checks[c] # None
                 /\ checks'[c].input = checks[c].input /\ checks'[c].visible = checks[c].visible
      BY <2>1 DEF Harmless, Protected
    <2>2. checks[Neutral(r)] # None =>
             /\ checks'[Neutral(r)].input = checks[Neutral(r)].input
             /\ checks'[Neutral(r)].visible = checks[Neutral(r)].visible
      BY Names DEF Harmless
    <2>3. ASSUME NEW c \in Id, c[1] = "neutral", c # Neutral(r), (checks[c] # None)', (checks[c].visible)',
                 (checks[Neutral(r)] # None)', (checks[Neutral(r)].visible)',
                 (checks[c].input[2] = checks[Neutral(r)].input[2])'
          PROVE  FALSE
      <3>1. CASE checks[Neutral(r)] # None
        <4>1. Neutral(r) \in Id /\ Neutral(r)[1] = "neutral"
          BY Names DEF Neutral
        <4>2. checks[c] # None /\ checks[c].visible /\ checks[Neutral(r)].visible
          BY <2>1, <2>2, <2>3, <3>1
        <4>3. checks[c].input[2] = checks[Neutral(r)].input[2]
          BY <2>1, <2>2, <2>3, <3>1
        <4> QED BY <2>3, <3>1, <4>1, <4>2, <4>3 DEF IInv, OneNeutral
      <3>2. CASE checks[Neutral(r)] = None
        <4>1. at[r] = "post" /\ checks'[Neutral(r)].input = input[r]
          BY <2>3, <3>2 DEF Fits
        <4>2. c \in Neutrals(input[r][2])
          BY <2>1, <2>3, <4>1 DEF Neutrals
        <4> QED BY <4>1, <4>2 DEF IInv, OneNeutral
      <3> QED BY <3>1, <3>2
    <2>4. ASSUME NEW c \in Id, NEW d \in Id, c[1] = "neutral" /\ d[1] = "neutral",
                 (checks[c] # None /\ checks[d] # None)',
                 (checks[c].visible /\ checks[d].visible)',
                 (checks[c].input[2] = checks[d].input[2])'
          PROVE  c = d
      <3>1. CASE c = Neutral(r) \/ d = Neutral(r)
        BY <2>3, <2>4, <3>1
      <3>2. CASE c # Neutral(r) /\ d # Neutral(r)
        BY <2>1, <2>4, <3>2 DEF IInv, OneNeutral
      <3> QED BY <3>1, <3>2
    <2>5. ASSUME NEW q \in Run, (at[q] = "post")', NEW c \in Id, (c \in Neutrals(input[q][2]))'
          PROVE  FALSE
      <3>1. /\ c[1] = "neutral" /\ checks'[c] # None /\ checks'[c].visible
            /\ checks'[c].input[2] = input[q][2]
        BY <1>2, <2>5 DEF Neutrals
      <3>2. CASE q = r
        BY <2>5, <3>1, <3>2 DEF Fits, Neutrals
      <3>3. CASE q # r
        <4>1. at[q] = "post" /\ at[q] \in Active
          BY <1>2, <2>5, <3>3 DEF Active, Working
        <4>2. CASE c # Neutral(r) \/ checks[c] # None
          BY <2>1, <2>2, <3>1, <4>1, <4>2 DEF IInv, OneNeutral, Neutrals
        <4>3. CASE c = Neutral(r) /\ checks[c] = None
          BY <3>1, <3>3, <4>1, <4>3 DEF Fits, IInv, Alone
        <4> QED BY <4>2, <4>3
      <3> QED BY <3>2, <3>3
    <2> QED BY <2>4, <2>5 DEF OneNeutral, Neutrals
  <1>9. GreenIsProven'
    <2> SUFFICES ASSUME NEW c \in Id, (checks[c] # None)', (checks[c].status = "success")'
                 PROVE  /\ codex'[checks'[c].producer] = "PASS" /\ input[checks'[c].producer] = checks'[c].input
                        /\ checks'[c].input \in proved'
      BY <1>2 DEF GreenIsProven
    <2>1. /\ checks'[c].producer \in Run /\ codex[checks'[c].producer] = "PASS"
          /\ input[checks'[c].producer] = checks'[c].input /\ checks'[c].input \in proved
      <3>1. CASE checks[c] # None /\ checks[c].status = "success"
        BY <3>1 DEF IInv, GreenIsProven, Harmless, Types, Check
      <3>2. CASE ~(checks[c] # None /\ checks[c].status = "success")
        BY <3>2 DEF Fits
      <3> QED BY <3>1, <3>2
    <2> QED BY <1>2, <2>1 DEF Harmless
  <1> QED BY <1>1, <1>3, <1>4, <1>6, <1>7, <1>8, <1>9 DEF IInv

-----------------------------------------------------------------------------
(* Of the checks, only the status of those in C may change, to s. *)
Touched(C, s) ==
  /\ checks' \in [Id -> Check \cup {None}]
  /\ \A d \in Id :
       /\ checks[d] = None <=> checks'[d] = None
       /\ checks[d] # None => /\ checks'[d].producer = checks[d].producer
                             /\ checks'[d].input = checks[d].input
                             /\ checks'[d].visible = checks[d].visible
       /\ checks'[d] = checks[d] \/ (d \in C /\ checks'[d] # None /\ checks'[d].status = s)

(* A check that is given a status remains the check it was. *)
LEMMA StatusOf ==
  ASSUME NEW k \in Check, NEW s \in {"in_progress", "success", "failure"}
  PROVE  /\ [k EXCEPT !.status = s] \in Check /\ [k EXCEPT !.status = s] # None
         /\ [k EXCEPT !.status = s].producer = k.producer /\ [k EXCEPT !.status = s].input = k.input
         /\ [k EXCEPT !.status = s].visible = k.visible /\ [k EXCEPT !.status = s].status = s
  <1>1. [k EXCEPT !.status = s] \in Check
    BY DEF Check
  <1> QED BY <1>1, ExactReviewAssumption DEF Check

(* A call that settles a check, or fails to. *)
LEMMA TouchOne ==
  ASSUME Types, NEW c \in Id, checks[c] # None, NEW s \in {"in_progress", "success", "failure"},
         checks' = checks \/ checks' = [checks EXCEPT ![c].status = s]
  PROVE  Touched({c}, s)
  <1>1. checks[c] \in Check /\ checks \in [Id -> Check \cup {None}]
    BY DEF Types
  <1>2. CASE checks' = checks
    BY <1>1, <1>2 DEF Touched
  <1>3. CASE checks' = [checks EXCEPT ![c].status = s]
    <2>1. checks' = [checks EXCEPT ![c] = [checks[c] EXCEPT !.status = s]]
      BY <1>3
    <2> DEFINE k == [checks[c] EXCEPT !.status = s]
    <2>2. /\ k \in Check /\ k # None /\ k.status = s
          /\ k.producer = checks[c].producer /\ k.input = checks[c].input /\ k.visible = checks[c].visible
      BY <1>1, StatusOf
    <2>3. checks' = [checks EXCEPT ![c] = k]
      BY <2>1
    <2> HIDE DEF k
    <2>4. checks' \in [Id -> Check \cup {None}] /\ checks'[c] = k
      BY <1>1, <2>2, <2>3
    <2>5. \A d \in Id : d # c => checks'[d] = checks[d]
      BY <1>1, <2>3
    <2> QED BY <2>2, <2>4, <2>5 DEF Touched
  <1> QED BY <1>2, <1>3

(* The last two steps of a job. *)
LEMMA TouchMany ==
  ASSUME Types, NEW r \in Run, NEW C \in SUBSET Id, \A c \in C : checks[c] # None,
         NEW e \in BOOLEAN, NEW a \in BOOLEAN, Close(r, C, e, a)
  PROVE  /\ Touched(C, "failure")
         /\ r \notin troubled' => \A c \in C : checks'[c].status # "in_progress" \/ C # {c}
  <1>1. /\ \A c \in C : checks[c] \in Check
        /\ checks \in [Id -> Check \cup {None}]
    BY DEF Types
  <1>2. \/ checks' = checks
        \/ checks' = [c \in Id |-> IF c \in C /\ e THEN [checks[c] EXCEPT !.status = "failure"] ELSE checks[c]]
    BY DEF Close
  <1>3. \A c \in C : /\ [checks[c] EXCEPT !.status = "failure"] \in Check
                      /\ [checks[c] EXCEPT !.status = "failure"] # None
                      /\ [checks[c] EXCEPT !.status = "failure"].status = "failure"
                      /\ [checks[c] EXCEPT !.status = "failure"].producer = checks[c].producer
                      /\ [checks[c] EXCEPT !.status = "failure"].input = checks[c].input
                      /\ [checks[c] EXCEPT !.status = "failure"].visible = checks[c].visible
    BY <1>1, StatusOf
  <1>4. checks' = checks => Touched(C, "failure")
    BY <1>1 DEF Touched
  <1>5. ASSUME checks' # checks PROVE Touched(C, "failure")
    <2>1. \A d \in Id : \/ checks'[d] = checks[d]
                        \/ d \in C /\ checks'[d] = [checks[d] EXCEPT !.status = "failure"]
      BY <1>2, <1>5
    <2>2. checks' \in [Id -> Check \cup {None}]
      <3>1. checks' = [c \in Id |-> checks'[c]]
        BY <1>2, <1>5
      <3>2. \A d \in Id : checks'[d] \in Check \cup {None}
        BY <1>1, <1>3, <2>1
      <3> QED BY <3>1, <3>2
    <2> QED BY <1>3, <2>1, <2>2 DEF Touched
  <1>6. ASSUME r \notin troubled', NEW c \in C, C = {c}
        PROVE  checks'[c].status # "in_progress"
    <2>1. CASE checks[c].status = "in_progress"
      <3>1. e /\ checks' = [d \in Id |-> IF d \in C /\ e THEN [checks[d] EXCEPT !.status = "failure"] ELSE checks[d]]
        BY <1>6, <2>1 DEF Close, Known
      <3> QED BY <1>3, <1>6, <3>1
    <2>2. CASE checks[c].status # "in_progress"
      BY <1>6, <2>2 DEF Close
    <2> QED BY <2>1, <2>2
  <1> QED BY <1>4, <1>5, <1>6

(* A check that a run creates. *)
LEMMA ReservationOf ==
  ASSUME IInv, NEW r \in Run, at[r] # "none", producer[r] \in Run
  PROVE  /\ Reservation(r) \in Check /\ Reservation(r) # None /\ Reservation(r).status = "in_progress"
         /\ Reservation(r).producer = producer[r] /\ Reservation(r).input = input[r]
         /\ Reservation(r).visible = TRUE
  <1>1. input[r] \in Inputs
    BY ExactReviewAssumption DEF IInv, Types, Dispatched, Run
  <1>2. Reservation(r) \in Check
    BY <1>1 DEF Reservation, Check
  <1> QED BY <1>2, ExactReviewAssumption DEF Reservation


(* A failure leaves the run what it knows. *)
LEMMA FailStep ==
  ASSUME IInv, NEW r \in Run, Fail(r)
  PROVE  IInv'
  <1>1. Types /\ RunOK(r) /\ at[r] \in Active
    BY DEF IInv, Fail, Active, Working, Closing
  <1>2. Types'
    BY <1>1, ExactReviewAssumption
       DEF Types, Fail, Go, Break, outputs, world, history, Active, Working, Closing, Resting
  <1>3. RunOK(r)'
    BY <1>1, ExactReviewAssumption
       DEF Fail, Types, RunOK, Modes, Codices, Knows, Created, Closed, Mine, Go, Break, outputs,
           world, history, Before, Reading, Reserved, Posted, Busy, Working, Closing, Resting,
           Active
  <1>4. Harmless(r)
    BY <1>1 DEF Harmless, Types, Fail, Go, Break, outputs, world, history, RunOK, Codices
  <1>5. Fits(r)
    BY <1>1, Names DEF Fits, Types, Fail, Go, Break, outputs, world, history, RunOK, Modes
  <1> QED BY <1>2, <1>3, <1>4, <1>5, Lift

(* The pull request is read: nothing that is recorded depends on it. *)
LEMMA MaterializeStep ==
  ASSUME IInv, NEW r \in Run, Materialize(r)
  PROVE  IInv'
  <1>1. Types /\ RunOK(r) /\ at[r] \in Active
    BY DEF IInv, Materialize, Active, Working, Closing
  <1>2. Types'
    BY <1>1, ExactReviewAssumption
       DEF Types, Materialize, Go, Break, outputs, world, history, Active, Working, Closing,
           Resting
  <1>3. RunOK(r)'
    BY <1>1, ExactReviewAssumption
       DEF Materialize, Types, RunOK, Modes, Codices, Knows, Created, Closed, Mine, Go, Break,
           outputs, world, history, Before, Reading, Reserved, Posted, Busy, Working, Closing,
           Resting, Active
  <1>4. Harmless(r)
    BY <1>1 DEF Harmless, Types, Materialize, Go, Break, outputs, world, history, RunOK, Codices
  <1>5. Fits(r)
    BY <1>1, Names DEF Fits, Types, Materialize, Go, Break, outputs, world, history
  <1> QED BY <1>2, <1>3, <1>4, <1>5, Lift

(* Binding the assets changes nothing on GitHub. *)
LEMMA BindStep ==
  ASSUME IInv, NEW r \in Run, Bind(r)
  PROVE  IInv'
  <1>1. Types /\ RunOK(r) /\ at[r] \in Active
    BY DEF IInv, Bind, Active, Working, Closing
  <1>2. Types'
    BY <1>1, ExactReviewAssumption
       DEF Types, Bind, Go, Break, outputs, world, history, Active, Working, Closing, Resting
  <1>3. RunOK(r)'
    BY <1>1, ExactReviewAssumption
       DEF Bind, Types, RunOK, Modes, Codices, Knows, Created, Closed, Mine, Go, Break, outputs,
           world, history, Before, Reading, Reserved, Posted, Busy, Working, Closing, Resting,
           Active
  <1>4. Harmless(r)
    BY <1>1 DEF Harmless, Types, Bind, Go, Break, outputs, world, history, RunOK, Codices
  <1>5. Fits(r)
    BY <1>1, Names DEF Fits, Types, Bind, Go, Break, outputs, world, history
  <1> QED BY <1>2, <1>3, <1>4, <1>5, Lift

(* No reservation is listed: only the place of the run changes. *)
LEMMA ReadLedgerStep ==
  ASSUME IInv, NEW r \in Run, ReadLedger(r)
  PROVE  IInv'
  <1>1. Types /\ RunOK(r) /\ at[r] \in Active
    BY DEF IInv, ReadLedger, Active, Working, Closing
  <1>2. Types'
    BY <1>1, ExactReviewAssumption
       DEF Types, ReadLedger, Go, Break, outputs, world, history, Active, Working, Closing,
           Resting
  <1>3. RunOK(r)'
    BY <1>1, ExactReviewAssumption
       DEF ReadLedger, Types, RunOK, Modes, Codices, Knows, Created, Closed, Mine, Go, Break,
           outputs, world, history, Before, Reading, Reserved, Posted, Busy, Working, Closing,
           Resting, Active
  <1>4. Harmless(r)
    BY <1>1 DEF Harmless, Types, ReadLedger, Go, Break, outputs, world, history, RunOK, Codices
  <1>5. Fits(r)
    BY <1>1, Names DEF Fits, Types, ReadLedger, Go, Break, outputs, world, history
  <1> QED BY <1>2, <1>3, <1>4, <1>5, Lift

(* A protected check that is green names a producer whose review passed. *)
LEMMA ReuseStep ==
  ASSUME IInv, NEW r \in Run, NEW c \in Id, Reuse(r, c)
  PROVE  IInv'
  <1>1. Types /\ RunOK(r) /\ at[r] \in Active
    BY DEF IInv, Reuse, Active, Working, Closing
  <1>2. /\ checks[c] # None /\ checks[c].status = "success"
        /\ checks[c].input = input[r] /\ checks[c].producer \in Run
    BY <1>1 DEF Reuse, Settleable, Reservations, Types, Check
  <1>3. codex[checks[c].producer] = "PASS" /\ input[checks[c].producer] = input[r]
    BY <1>2 DEF IInv, GreenIsProven
  <1>4. checks[Protected(r)] = None /\ checks[Neutral(r)] = None
    BY <1>1 DEF RunOK, Created, Reuse, Reading
  <1>5. Types'
    BY <1>1, <1>2, <1>3, <1>4, ExactReviewAssumption
       DEF Types, Reuse, Go, Break, outputs, world, history, Active, Working, Closing, Resting
  <1>6. RunOK(r)'
    BY <1>1, <1>2, <1>3, <1>4, ExactReviewAssumption
       DEF Reuse, Types, RunOK, Modes, Codices, Knows, Created, Closed, Mine, Go, Break,
           outputs, world, history, Before, Reading, Reserved, Posted, Busy, Working, Closing,
           Resting, Active
  <1>7. Harmless(r)
    BY <1>1, <1>2, <1>3, <1>4
       DEF Harmless, Types, Reuse, Go, Break, outputs, world, history, RunOK, Codices
  <1>8. Fits(r)
    BY <1>1, <1>2, <1>3, <1>4, Names DEF Fits, Types, Reuse, Go, Break, outputs, world, history
  <1> QED BY <1>5, <1>6, <1>7, <1>8, Lift

(* What the ledger shows: nobody has asked, or a run that has passed. *)
LEMMA LedgerStep ==
  ASSUME IInv, NEW r \in Run, NEW q \in Run, Ledger(r, q)
  PROVE  IInv'
  <1>1. Types /\ RunOK(r) /\ at[r] \in Active
    BY DEF IInv, Ledger, Active, Working, Closing
  <1>2. q # r => q \in Prior(r) /\ codex[q] = "PASS" /\ input[q] = input[r]
    <2> SUFFICES ASSUME q # r PROVE q \in Prior(r) /\ codex[q] = "PASS" /\ input[q] = input[r]
      OBVIOUS
    <2>1. q \in Prior(r) /\ LedgerShows(r, q)
      BY DEF Ledger
    <2>2. codex[q] # "skipped" /\ at[q] = "succeeded"
      BY <2>1 DEF LedgerShows, Passed
    <2> QED BY <2>1, <2>2 DEF IInv, RunOK, Codices, Prior
  <1>3. \A p \in Run : p \notin 1 .. last => codex[p] = "skipped"
    BY ExactReviewAssumption DEF IInv, Types, Dispatched, RunOK, Codices, Before, Run
  <1>4. q = r => \A p \in Run \ {r} : input[p] = input[r] /\ p \notin rerun => codex[p] = "skipped"
    BY <1>3 DEF Ledger, Prior
  <1>5. Types'
    BY <1>1, <1>2, <1>4, ExactReviewAssumption
       DEF Types, Ledger, Go, Break, outputs, world, history, Active, Working, Closing, Resting
  <1>6. RunOK(r)'
    BY <1>1, <1>2, <1>4, ExactReviewAssumption
       DEF Ledger, Types, RunOK, Modes, Codices, Knows, Created, Closed, Mine, Go, Break,
           outputs, world, history, Before, Reading, Reserved, Posted, Busy, Working, Closing,
           Resting, Active
  <1>7. Harmless(r)
    BY <1>1, <1>2, <1>4 DEF Harmless, Types, Ledger, Go, Break, outputs, world, history, RunOK, Codices
  <1>8. Fits(r)
    BY <1>1, <1>2, <1>4, Names DEF Fits, Types, Ledger, Go, Break, outputs, world, history
  <1> QED BY <1>5, <1>6, <1>7, <1>8, Lift

(* The reservation is known already. *)
LEMMA DetailStep ==
  ASSUME IInv, NEW r \in Run, Detail(r)
  PROVE  IInv'
  <1>1. Types /\ RunOK(r) /\ at[r] \in Active
    BY DEF IInv, Detail, Active, Working, Closing
  <1>2. Types'
    BY <1>1, ExactReviewAssumption
       DEF Types, Detail, Go, Break, outputs, world, history, Active, Working, Closing, Resting
  <1>3. RunOK(r)'
    BY <1>1, ExactReviewAssumption
       DEF Detail, Types, RunOK, Modes, Codices, Knows, Created, Closed, Mine, Go, Break,
           outputs, world, history, Before, Reading, Reserved, Posted, Busy, Working, Closing,
           Resting, Active
  <1>4. Harmless(r)
    BY <1>1 DEF Harmless, Types, Detail, Go, Break, outputs, world, history, RunOK, Codices
  <1>5. Fits(r)
    BY <1>1, Names DEF Fits, Types, Detail, Go, Break, outputs, world, history
  <1> QED BY <1>2, <1>3, <1>4, <1>5, Lift

(* The listed neutral check is taken over only when it is of this run. *)
LEMMA FindNeutralStep ==
  ASSUME IInv, NEW r \in Run, NEW c \in Id, FindNeutral(r, c)
  PROVE  IInv'
  <1>1. Types /\ RunOK(r) /\ at[r] \in Active
    BY DEF IInv, FindNeutral, AfterNeutral, Active, Working, Closing
  <1>2. checks[c] # None /\ c # None
    BY ExactReviewAssumption DEF FindNeutral, Neutrals
  <1>3. Types'
    BY <1>1, <1>2, ExactReviewAssumption
       DEF Types, FindNeutral, AfterNeutral, Go, Break, outputs, world, history, Active,
           Working, Closing, Resting
  <1>4. RunOK(r)'
    BY <1>1, <1>2, ExactReviewAssumption
       DEF FindNeutral, AfterNeutral, Types, RunOK, Modes, Codices, Knows, Created, Closed,
           Mine, Go, Break, outputs, world, history, Before, Reading, Reserved, Posted, Busy,
           Working, Closing, Resting, Active
  <1>5. Harmless(r)
    BY <1>1, <1>2
       DEF Harmless, Types, FindNeutral, AfterNeutral, Go, Break, outputs, world, history,
           RunOK, Codices
  <1>6. Fits(r)
    BY <1>1, <1>2, Names DEF Fits, Types, FindNeutral, AfterNeutral, Go, Break, outputs, world, history
  <1> QED BY <1>3, <1>4, <1>5, <1>6, Lift

(* No neutral check is listed, so that one may be created. *)
LEMMA NoNeutralStep ==
  ASSUME IInv, NEW r \in Run, NoNeutral(r)
  PROVE  IInv'
  <1>1. Types /\ RunOK(r) /\ at[r] \in Active
    BY DEF IInv, NoNeutral, Active, Working, Closing
  <1>2. Types'
    BY <1>1, ExactReviewAssumption
       DEF Types, NoNeutral, Go, Break, outputs, world, history, Active, Working, Closing,
           Resting
  <1>3. RunOK(r)'
    BY <1>1, ExactReviewAssumption
       DEF NoNeutral, Types, RunOK, Modes, Codices, Knows, Created, Closed, Mine, Go, Break,
           outputs, world, history, Before, Reading, Reserved, Posted, Busy, Working, Closing,
           Resting, Active
  <1>4. Harmless(r)
    BY <1>1 DEF Harmless, Types, NoNeutral, Go, Break, outputs, world, history, RunOK, Codices
  <1>5. Fits(r)
    BY <1>1, Names DEF Fits, Types, NoNeutral, Go, Break, outputs, world, history
  <1> QED BY <1>2, <1>3, <1>4, <1>5, Lift

(* The run asks; OnlyAsker says that nobody else has. *)
LEMMA ReviewStep ==
  ASSUME IInv, NEW r \in Run, Review(r)
  PROVE  IInv'
  <1>1. Types /\ RunOK(r) /\ at[r] \in Active
    BY DEF IInv, Review, Active, Working, Closing
  <1>2. Types'
    BY <1>1, ExactReviewAssumption
       DEF Types, Review, Go, Break, outputs, world, history, Active, Working, Closing, Resting
  <1>3. RunOK(r)'
    BY <1>1, ExactReviewAssumption
       DEF Review, Types, RunOK, Modes, Codices, Knows, Created, Closed, Mine, Go, Break,
           outputs, world, history, Before, Reading, Reserved, Posted, Busy, Working, Closing,
           Resting, Active
  <1>4. Harmless(r)
    BY <1>1 DEF Harmless, Types, Review, Go, Break, outputs, world, history, RunOK, Codices
  <1>5. Fits(r)
    BY <1>1, Names DEF Fits, Types, Review, Go, Break, outputs, world, history, RunOK, Modes
  <1> QED BY <1>2, <1>3, <1>4, <1>5, Lift

(* The reviewer answers the run that asked. *)
LEMMA AnswerStep ==
  ASSUME IInv, NEW r \in Run, NEW v \in {"PASS", "FAIL", "garbled"}, Answer(r, v)
  PROVE  IInv'
  <1>1. Types /\ RunOK(r) /\ at[r] \in Active
    BY DEF IInv, Answer, Active, Working, Closing
  <1>2. Types'
    BY <1>1, ExactReviewAssumption
       DEF Types, Answer, Go, Break, outputs, world, history, Active, Working, Closing, Resting
  <1>3. RunOK(r)'
    BY <1>1, ExactReviewAssumption
       DEF Answer, Types, RunOK, Modes, Codices, Knows, Created, Closed, Mine, Go, Break,
           outputs, world, history, Before, Reading, Reserved, Posted, Busy, Working, Closing,
           Resting, Active
  <1>4. Harmless(r)
    BY <1>1 DEF Harmless, Types, Answer, Go, Break, outputs, world, history, RunOK, Codices
  <1>5. Fits(r)
    BY <1>1, Names DEF Fits, Types, Answer, Go, Break, outputs, world, history, RunOK, Modes
  <1> QED BY <1>2, <1>3, <1>4, <1>5, Lift

(* The input joins those that were found unchanged. *)
LEMMA VerifyStep ==
  ASSUME IInv, NEW r \in Run, Verify(r)
  PROVE  IInv'
  <1>1. Types /\ RunOK(r) /\ at[r] \in Active
    BY DEF IInv, Verify, Active, Working, Closing
  <1>2. input[r] \in Inputs
    BY <1>1, ExactReviewAssumption DEF IInv, Types, Dispatched, Run, Active, Working, Closing
  <1>3. Types'
    BY <1>1, <1>2, ExactReviewAssumption
       DEF Types, Verify, Go, Break, outputs, world, history, Active, Working, Closing, Resting
  <1>4. RunOK(r)'
    BY <1>1, <1>2, ExactReviewAssumption
       DEF Verify, Types, RunOK, Modes, Codices, Knows, Created, Closed, Mine, Go, Break,
           outputs, world, history, Before, Reading, Reserved, Posted, Busy, Working, Closing,
           Resting, Active
  <1>5. Harmless(r)
    BY <1>1, <1>2 DEF Harmless, Types, Verify, Go, Break, outputs, world, history, RunOK, Codices
  <1>6. Fits(r)
    BY <1>1, <1>2, Names DEF Fits, Types, Verify, Go, Break, outputs, world, history
  <1> QED BY <1>3, <1>4, <1>5, <1>6, Lift

(* A run that has handed over had a review that passed, or none. *)
LEMMA HandoffStep ==
  ASSUME IInv, NEW r \in Run, NEW good \in BOOLEAN, Handoff(r, good)
  PROVE  IInv'
  <1>1. Types /\ RunOK(r) /\ at[r] \in Active
    BY DEF IInv, Handoff, Active, Working, Closing
  <1>2. Types'
    BY <1>1, ExactReviewAssumption
       DEF Types, Handoff, Go, Break, outputs, world, history, Active, Working, Closing, Resting
  <1>3. RunOK(r)'
    BY <1>1, ExactReviewAssumption
       DEF Handoff, Types, RunOK, Modes, Codices, Knows, Created, Closed, Mine, Go, Break,
           outputs, world, history, Before, Reading, Reserved, Posted, Busy, Working, Closing,
           Resting, Active
  <1>4. Harmless(r)
    BY <1>1 DEF Harmless, Types, Handoff, Go, Break, outputs, world, history, RunOK, Codices
  <1>5. Fits(r)
    BY <1>1, Names DEF Fits, Types, Handoff, Go, Break, outputs, world, history
  <1> QED BY <1>2, <1>3, <1>4, <1>5, Lift

(* A lost run knows nothing any more. *)
LEMMA LoseStep ==
  ASSUME IInv, NEW r \in Run, Lose(r)
  PROVE  IInv'
  <1>1. Types /\ RunOK(r) /\ at[r] \in Active
    BY DEF IInv, Lose, Forget, Active, Working, Closing
  <1>2. Types'
    BY <1>1, ExactReviewAssumption
       DEF Types, Lose, Forget, Go, Break, outputs, world, history, Active, Working, Closing,
           Resting
  <1>3. RunOK(r)'
    BY <1>1, ExactReviewAssumption
       DEF Lose, Forget, Types, RunOK, Modes, Codices, Knows, Created, Closed, Mine, Go, Break,
           outputs, world, history, Before, Reading, Reserved, Posted, Busy, Working, Closing,
           Resting, Active
  <1>4. Harmless(r)
    BY <1>1 DEF Harmless, Types, Lose, Forget, Go, Break, outputs, world, history, RunOK, Codices
  <1>5. Fits(r)
    BY <1>1, Names DEF Fits, Types, Lose, Forget, Go, Break, outputs, world, history
  <1> QED BY <1>2, <1>3, <1>4, <1>5, Lift

(* A check that was left behind is of an earlier run. *)
LEMMA CloseStaleStep ==
  ASSUME IInv, NEW r \in Run, NEW c \in Id, CloseStale(r, c)
  PROVE  IInv'
  <1>1. Types /\ RunOK(r) /\ at[r] \in Active
    BY DEF IInv, CloseStale, Touched, Active, Working, Closing
  <1>2. /\ checks[c] # None /\ checks[c].status = "in_progress"
        /\ c # Neutral(r) /\ c # Protected(r) /\ held[r] = None /\ neutral[r] = None
        /\ checks[Protected(r)] = None /\ checks[Neutral(r)] = None
    BY <1>1 DEF CloseStale, Settleable, Reservations, Types, Neutral, RunOK, Created, Knows, Reading
  <1>3. Touched({c}, "failure")
    BY <1>1, <1>2, TouchOne DEF CloseStale
  <1>4. Types'
    BY <1>1, <1>2, <1>3, ExactReviewAssumption
       DEF Types, CloseStale, Touched, Go, Break, outputs, world, history, Active, Working,
           Closing, Resting
  <1>5. RunOK(r)'
    BY <1>1, <1>2, <1>3, ExactReviewAssumption
       DEF CloseStale, Touched, Types, RunOK, Modes, Codices, Knows, Created, Closed, Mine, Go,
           Break, outputs, world, history, Before, Reading, Reserved, Posted, Busy, Working,
           Closing, Resting, Active
  <1>6. Harmless(r)
    BY <1>1, <1>2, <1>3
       DEF Harmless, Types, CloseStale, Touched, Go, Break, outputs, world, history, RunOK,
           Codices
  <1>7. Fits(r)
    BY <1>1, <1>2, <1>3, Names DEF Fits, Types, CloseStale, Touched, Go, Break, outputs, world, history
  <1> QED BY <1>4, <1>5, <1>6, <1>7, Lift

(* The reservation is new. *)
LEMMA ReserveStep ==
  ASSUME IInv, NEW r \in Run, NEW e \in BOOLEAN, NEW a \in BOOLEAN, Reserve(r, e, a)
  PROVE  IInv'
  <1>1. Types /\ RunOK(r) /\ at[r] \in Active
    BY DEF IInv, Reserve, Known, Active, Working, Closing
  <1>2. /\ checks[Protected(r)] = None /\ Protected(r) \in Id /\ Protected(r) # Neutral(r)
        /\ Protected(r) \in Id /\ Neutral(r) \in Id
        /\ producer[r] \in Run /\ at[r] # "none"
    BY <1>1, Names DEF Types, RunOK, Modes, Created, Reserve, Reserved
  <1>3. /\ Reservation(r) \in Check /\ Reservation(r) # None /\ Reservation(r).status = "in_progress"
        /\ Reservation(r).producer = producer[r] /\ Reservation(r).input = input[r]
        /\ Reservation(r).visible = TRUE
    BY <1>2, ReservationOf
  <1>4. /\ checks' \in [Id -> Check \cup {None}]
        /\ \A d \in Id : d # Protected(r) => checks'[d] = checks[d]
        /\ e => checks'[Protected(r)] = Reservation(r)
        /\ ~e => checks'[Protected(r)] = None
    BY <1>1, <1>2, <1>3 DEF Reserve, Types
  <1>5. at'[r] \in {"closeProtected", "detail", "review", "prove"} /\ at' = [at EXCEPT ![r] = at'[r]]
    BY <1>1 DEF Reserve, Go, Break, AfterNeutral, Types
  <1>6. Types'
    BY <1>1, <1>2, <1>4, <1>3, <1>5, ExactReviewAssumption
       DEF Types, Reserve, Known, Go, Break, outputs, world, history, Active, Working, Closing,
           Resting
  <1>7. RunOK(r)'
    BY <1>1, <1>2, <1>4, <1>3, <1>5, ExactReviewAssumption
       DEF Reserve, Known, Types, RunOK, Modes, Codices, Knows, Created, Closed, Mine, Go,
           Break, outputs, world, history, Before, Reading, Reserved, Posted, Busy, Working,
           Closing, Resting, Active
  <1>8. Harmless(r)
    BY <1>1, <1>2, <1>4, <1>3, <1>5
       DEF Harmless, Types, Reserve, Known, Go, Break, outputs, world, history, RunOK, Codices
  <1>9. Fits(r)
    BY <1>1, <1>2, <1>4, <1>3, <1>5, Names
       DEF Fits, Types, Reserve, Known, Go, Break, outputs, world, history
  <1> QED BY <1>6, <1>7, <1>8, <1>9, Lift

(* So is the neutral check. *)
LEMMA PostNeutralStep ==
  ASSUME IInv, NEW r \in Run, NEW e \in BOOLEAN, NEW a \in BOOLEAN, PostNeutral(r, e, a)
  PROVE  IInv'
  <1>1. Types /\ RunOK(r) /\ at[r] \in Active
    BY DEF IInv, PostNeutral, Known, AfterNeutral, Active, Working, Closing
  <1>2. /\ checks[Neutral(r)] = None /\ Neutral(r) \in Id /\ Protected(r) # Neutral(r)
        /\ Protected(r) \in Id /\ Neutral(r) \in Id
        /\ producer[r] \in Run /\ at[r] # "none"
    BY <1>1, Names DEF Types, RunOK, Modes, Created, PostNeutral, Reserved
  <1>3. /\ Reservation(r) \in Check /\ Reservation(r) # None /\ Reservation(r).status = "in_progress"
        /\ Reservation(r).producer = producer[r] /\ Reservation(r).input = input[r]
        /\ Reservation(r).visible = TRUE
    BY <1>2, ReservationOf
  <1>4. /\ checks' \in [Id -> Check \cup {None}]
        /\ \A d \in Id : d # Neutral(r) => checks'[d] = checks[d]
        /\ e => checks'[Neutral(r)] = Reservation(r)
        /\ ~e => checks'[Neutral(r)] = None
    BY <1>1, <1>2, <1>3 DEF PostNeutral, Types
  <1>5. at'[r] \in {"closeProtected", "detail", "review", "prove"} /\ at' = [at EXCEPT ![r] = at'[r]]
    BY <1>1 DEF PostNeutral, Go, Break, AfterNeutral, Types
  <1>6. Types'
    BY <1>1, <1>2, <1>4, <1>3, <1>5, ExactReviewAssumption
       DEF Types, PostNeutral, Known, AfterNeutral, Go, Break, outputs, world, history, Active,
           Working, Closing, Resting
  <1>7. RunOK(r)'
    <2>1. Modes(r)'
      BY <1>1, <1>2, <1>4, <1>3, <1>5, ExactReviewAssumption
         DEF PostNeutral, Known, AfterNeutral, Types, RunOK, Modes, Mine, Go, Break, outputs,
             world, history, Before, Reading, Reserved, Posted, Busy, Working, Closing, Resting,
             Active
    <2>2. Codices(r)'
      BY <1>1, <1>2, <1>4, <1>3, <1>5, ExactReviewAssumption
         DEF PostNeutral, Known, AfterNeutral, Types, RunOK, Modes, Codices, Mine, Go, Break,
             outputs, world, history, Before, Reading, Reserved, Posted, Busy, Working, Closing,
             Resting, Active
    <2>3. Knows(r)'
      BY <1>1, <1>2, <1>4, <1>3, <1>5, ExactReviewAssumption
         DEF PostNeutral, Known, AfterNeutral, Types, RunOK, Modes, Knows, Mine, Go, Break,
             outputs, world, history, Before, Reading, Reserved, Posted, Busy, Working, Closing,
             Resting, Active
    <2>4. Created(r)'
      <3>1. /\ neutral'[r] \in {None, Neutral(r)} /\ r \in named' /\ mode' = mode /\ producer' = producer
            /\ input' = input /\ held' = held /\ troubled' = troubled /\ at[r] = "post" /\ at'[r] # "detail"
        BY <1>1
           DEF PostNeutral, Go, Break, AfterNeutral, Types, RunOK, Knows, Reserved, outputs,
               history
      <3>2. checks'[Protected(r)] = checks[Protected(r)]
        BY <1>2, <1>4
      <3>3. (checks[Neutral(r)] # None => Mine(r, Neutral(r)))'
        BY <1>4, <1>3, <3>1 DEF Mine
      <3> QED BY <1>1, <1>5, <3>1, <3>2, <3>3
              DEF Types, RunOK, Created, Before, Reading, Reserved, Busy, Working, Closing
    <2>5. Closed(r)'
      BY <1>1, <1>2, <1>4, <1>3, <1>5, ExactReviewAssumption
         DEF PostNeutral, Known, AfterNeutral, Types, RunOK, Modes, Closed, Mine, Go, Break,
             outputs, world, history, Before, Reading, Reserved, Posted, Busy, Working, Closing,
             Resting, Active
    <2> QED BY <2>1, <2>2, <2>3, <2>4, <2>5 DEF RunOK
  <1>8. Harmless(r)
    BY <1>1, <1>2, <1>4, <1>3, <1>5
       DEF Harmless, Types, PostNeutral, Known, AfterNeutral, Go, Break, outputs, world,
           history, RunOK, Codices
  <1>9. Fits(r)
    BY <1>1, <1>2, <1>4, <1>3, <1>5, Names
       DEF Fits, Types, PostNeutral, Known, AfterNeutral, Go, Break, outputs, world, history
  <1> QED BY <1>6, <1>7, <1>8, <1>9, Lift

(* The protected check turns green for a review that passed. *)
LEMMA PublishStep ==
  ASSUME IInv, NEW r \in Run, NEW e \in BOOLEAN, NEW a \in BOOLEAN, Publish(r, e, a)
  PROVE  IInv'
  <1>1. Types /\ RunOK(r) /\ at[r] \in Active
    BY DEF IInv, Publish, Known, Conclusion, Touched, Active, Working, Closing
  <1>2. /\ held[r] \in Id /\ checks[held[r]] # None
        /\ checks[held[r]].producer = producer[r] /\ checks[held[r]].input = input[r]
    BY <1>1, ExactReviewAssumption DEF Types, RunOK, Knows, Publish, Posted, Mine
  <1>3. Touched({held[r]}, Conclusion(r))
    BY <1>1, <1>2, TouchOne DEF Publish, Conclusion
  <1>4. Types'
    BY <1>1, <1>2, <1>3, ExactReviewAssumption
       DEF Types, Publish, Known, Conclusion, Touched, Go, Break, outputs, world, history,
           Active, Working, Closing, Resting
  <1>5. RunOK(r)'
    BY <1>1, <1>2, <1>3, ExactReviewAssumption
       DEF Publish, Known, Conclusion, Touched, Types, RunOK, Modes, Codices, Knows, Created,
           Closed, Mine, Go, Break, outputs, world, history, Before, Reading, Reserved, Posted,
           Busy, Working, Closing, Resting, Active
  <1>6. Harmless(r)
    BY <1>1, <1>2, <1>3
       DEF Harmless, Types, Publish, Known, Conclusion, Touched, Go, Break, outputs, world,
           history, RunOK, Codices
  <1>7. Fits(r)
    BY <1>1, <1>2, <1>3, Names
       DEF Fits, Types, Publish, Known, Conclusion, Touched, Go, Break, outputs, world, history,
           RunOK, Modes, Codices
  <1> QED BY <1>4, <1>5, <1>6, <1>7, Lift

(* So does the neutral check. *)
LEMMA GreenStep ==
  ASSUME IInv, NEW r \in Run, NEW e \in BOOLEAN, NEW a \in BOOLEAN, Green(r, e, a)
  PROVE  IInv'
  <1>1. Types /\ RunOK(r) /\ at[r] \in Active
    BY DEF IInv, Green, Known, Touched, Active, Working, Closing
  <1>2. /\ neutral[r] \in Id /\ checks[neutral[r]] # None
        /\ checks[neutral[r]].producer = producer[r] /\ checks[neutral[r]].input = input[r]
    BY <1>1, ExactReviewAssumption DEF Types, RunOK, Knows, Green, Posted, Mine
  <1>3. Touched({neutral[r]}, "success")
    BY <1>1, <1>2, TouchOne DEF Green, Conclusion
  <1>4. Types'
    BY <1>1, <1>2, <1>3, ExactReviewAssumption
       DEF Types, Green, Known, Touched, Go, Break, outputs, world, history, Active, Working,
           Closing, Resting
  <1>5. RunOK(r)'
    BY <1>1, <1>2, <1>3, ExactReviewAssumption
       DEF Green, Known, Touched, Types, RunOK, Modes, Codices, Knows, Created, Closed, Mine,
           Go, Break, outputs, world, history, Before, Reading, Reserved, Posted, Busy, Working,
           Closing, Resting, Active
  <1>6. Harmless(r)
    BY <1>1, <1>2, <1>3
       DEF Harmless, Types, Green, Known, Touched, Go, Break, outputs, world, history, RunOK,
           Codices
  <1>7. Fits(r)
    BY <1>1, <1>2, <1>3, Names
       DEF Fits, Types, Green, Known, Touched, Go, Break, outputs, world, history, RunOK, Modes,
           Codices
  <1> QED BY <1>4, <1>5, <1>6, <1>7, Lift

-----------------------------------------------------------------------------
(* A run that knows of a protected check of its own closes it. *)
LEMMA CloseProtectedStep ==
  ASSUME IInv, NEW r \in Run, NEW e \in BOOLEAN, NEW a \in BOOLEAN, CloseProtected(r, e, a)
  PROVE  IInv'
  <1> DEFINE C == IF mode[r] \in {"own", "recovered"} /\ held[r] # None THEN {held[r]} ELSE {}
  <1>1. Types /\ RunOK(r) /\ at[r] = "closeProtected" /\ at[r] \in Active
    BY DEF IInv, CloseProtected, Active, Working, Closing
  <1>2. C \in SUBSET Id /\ \A c \in C : checks[c] # None
    BY <1>1 DEF Types, RunOK, Knows
  <1>3. Close(r, C, e, a)
    BY DEF CloseProtected
  <1>4. /\ Touched(C, "failure")
        /\ r \notin troubled' => \A c \in C : checks'[c].status # "in_progress" \/ C # {c}
    BY <1>1, <1>2, <1>3, TouchMany
  <1>5. failed' \in {failed, failed \cup {r}} /\ troubled' \in {troubled, troubled \cup {r}}
    BY <1>3 DEF Close
  <1>6. r \notin troubled' /\ checks'[Protected(r)] # None => checks'[Protected(r)].status # "in_progress"
    <2> SUFFICES ASSUME r \notin troubled', checks'[Protected(r)] # None
                 PROVE  checks'[Protected(r)].status # "in_progress"
      OBVIOUS
    <2>1. checks[Protected(r)] # None /\ r \notin troubled
      BY <1>4, <1>5, Names DEF Touched
    <2>2. held[r] = Protected(r) /\ mode[r] \in {"own", "recovered"} /\ held[r] # None
      BY <1>1, <2>1, Names, ExactReviewAssumption DEF RunOK, Created
    <2> QED BY <1>4, <2>2
  <1> HIDE DEF C
  <1>7. Types'
    BY <1>1, <1>4, <1>5 DEF Types, CloseProtected, Go, outputs, world, history, Active, Closing, Touched
  <1>8. /\ at' = [at EXCEPT ![r] = "closeNeutral"] /\ mode' = mode /\ producer' = producer /\ held' = held
        /\ neutral' = neutral /\ named' = named /\ codex' = codex /\ input' = input /\ last' = last
        /\ rerun' = rerun /\ proved' = proved
    BY DEF CloseProtected, Go, outputs, world
  <1>9. RunOK(r)'
    <2>1. Modes(r)' /\ Codices(r)'
      BY <1>1, <1>5, <1>8 DEF Types, RunOK, Modes, Codices, Before, Reading, Reserved, Resting, Closing
    <2>2. Knows(r)' /\ Created(r)'
      <3>1. \A c \in Id : /\ checks'[c] = None <=> checks[c] = None
                          /\ checks[c] # None => (Mine(r, c) <=> Mine(r, c)')
        BY <1>4, <1>8 DEF Touched, Mine
      <3>2. /\ held[r] \in Id \cup {None} /\ neutral[r] \in Id \cup {None}
            /\ Protected(r) \in Id /\ Neutral(r) \in Id /\ at'[r] = "closeNeutral"
        BY <1>1, <1>8, Names DEF Types
      <3> QED BY <1>1, <1>8, <3>1, <3>2
              DEF RunOK, Knows, Created, Mine, Before, Reading, Reserved, Posted, Busy, Working, Closing
    <2>3. Closed(r)'
      BY <1>1, <1>6, <1>8 DEF Types, Closed
    <2> QED BY <2>1, <2>2, <2>3 DEF RunOK
  <1>10. Harmless(r)
    BY <1>1, <1>4, <1>5, <1>8 DEF Harmless, Types, Touched
  <1>11. Fits(r)
    BY <1>1, <1>4, <1>8, Names DEF Fits, Types, Touched
  <1> QED BY <1>7, <1>9, <1>10, <1>11, Lift

(* So it does with its neutral check, by its ID or, without one, by its external *)
(* ID: a head has only one. *)
LEMMA CloseNeutralStep ==
  ASSUME IInv, NEW r \in Run, NEW e \in BOOLEAN, NEW a \in BOOLEAN, CloseNeutral(r, e, a)
  PROVE  IInv'
  <1> DEFINE C == Unfinished(r)
  <1>1. Types /\ RunOK(r) /\ at[r] = "closeNeutral" /\ at[r] \in Active
    BY DEF IInv, CloseNeutral, Active, Working, Closing
  <1>2. C \in SUBSET Id /\ \A c \in C : checks[c] # None
    BY <1>1 DEF Types, RunOK, Knows, Unfinished, Neutrals
  <1>3. C = {} \/ \E x \in C : C = {x}
    BY <1>2 DEF IInv, OneNeutral, Unfinished, Neutrals
  <1>4. Cardinality(C) <= 1
    <2> HIDE DEF C
    <2>1. CASE C = {}
      BY <2>1, FS_EmptySet
    <2>2. CASE \E x \in C : C = {x}
      <3>1. PICK x \in C : C = {x}
        BY <2>2
      <3>2. Cardinality({x}) = 1
        BY FS_Singleton
      <3> QED BY <3>1, <3>2
    <2> QED BY <1>3, <2>1, <2>2
  <1>5. \/ r \in named /\ (\A c \in C : Mine(r, c)) /\ Close(r, C, e, a)
        \/ /\ r \notin named \/ ~\A c \in C : Mine(r, c)
           /\ checks' = checks /\ troubled' = troubled /\ failed' \in {failed, failed \cup {r}}
    BY <1>4 DEF CloseNeutral
  <1>6. failed' \in {failed, failed \cup {r}} /\ troubled' \in {troubled, troubled \cup {r}}
    BY <1>5 DEF Close
  <1>7. Touched(C, "failure")
    <2>1. CASE Close(r, C, e, a)
      BY <1>1, <1>2, <2>1, TouchMany
    <2>2. CASE checks' = checks
      BY <1>1, <2>2 DEF Touched, Types
    <2> QED BY <1>5, <2>1, <2>2
  <1>8. ASSUME r \notin troubled', NEW c \in Id, checks'[c] # None, checks'[c].visible,
               c = Neutral(r) \/ (c = neutral[r] /\ Mine(r, c)')
        PROVE  checks'[c].status # "in_progress"
    <2>1. input' = input /\ producer' = producer
      BY DEF CloseNeutral
    <2>2. checks[c] # None /\ checks[c].visible /\ (Mine(r, c) <=> Mine(r, c)')
      BY <1>7, <1>8, <2>1 DEF Touched, Mine
    <2>3. Mine(r, c) /\ r \in named /\ neutral[r] \in {None, c}
      BY <1>1, <1>8, <2>2, ExactReviewAssumption DEF RunOK, Knows, Created, Busy, Closing
    <2>4. c \in C
      <3>1. CASE neutral[r] # None
        BY <2>3, <3>1 DEF Unfinished
      <3>2. CASE neutral[r] = None
        <4>1. c = Neutral(r)
          BY <1>8, <3>2, ExactReviewAssumption
        <4> QED BY <2>2, <2>3, <3>2, <4>1 DEF Unfinished, Neutrals, Neutral, Mine
      <3> QED BY <3>1, <3>2
    <2>5. C = {c}
      BY <1>3, <2>4
    <2>6. Close(r, C, e, a)
      BY <1>5, <2>3, <2>5
    <2>7. \A d \in C : checks'[d].status # "in_progress" \/ C # {d}
      BY <1>1, <1>2, <1>8, <2>6, TouchMany
    <2> QED BY <2>5, <2>7
  <1>9. /\ at' = [at EXCEPT ![r] = IF r \in failed' THEN "failed" ELSE "handoff"]
        /\ mode' = [mode EXCEPT ![r] = "none"] /\ producer' = producer /\ held' = [held EXCEPT ![r] = None]
        /\ neutral' = neutral /\ named' = named \ {r} /\ codex' = codex /\ input' = input /\ last' = last
        /\ rerun' = rerun /\ proved' = proved /\ pull' = pull /\ changes' = changes
    BY DEF CloseNeutral, Go, Forget, world
  <1>10. at'[r] \in {"failed", "handoff"} /\ (at'[r] = "handoff" => r \notin failed)
    BY <1>1, <1>6, <1>9 DEF Types
  <1> HIDE DEF C
  <1>11. Types'
    BY <1>1, <1>6, <1>7, <1>9 DEF Types, Active, Resting, Touched
  <1>12. RunOK(r)'
    <2>1. Modes(r)' /\ Codices(r)'
      BY <1>1, <1>9, <1>10 DEF Types, RunOK, Modes, Codices, Before, Reading, Reserved, Resting, Closing
    <2>2. Knows(r)' /\ Created(r)'
      <3>1. \A c \in Id : checks'[c] = None <=> checks[c] = None
        BY <1>7 DEF Touched
      <3>2. neutral[r] \in Id \cup {None} /\ mode'[r] = "none" /\ held'[r] = None
        BY <1>1, <1>9 DEF Types
      <3> QED BY <1>1, <1>9, <1>10, <3>1, <3>2
              DEF RunOK, Knows, Created, Before, Reading, Reserved, Posted, Busy, Working, Closing
    <2>3. Closed(r)'
      <3>1. r \notin troubled' /\ checks'[Protected(r)] # None => checks'[Protected(r)].status # "in_progress"
        BY <1>1, <1>6, <1>7, Names DEF RunOK, Closed, Touched
      <3> QED BY <1>8, <1>9, <1>10, <3>1 DEF Closed
    <2> QED BY <2>1, <2>2, <2>3 DEF RunOK
  <1>13. Harmless(r)
    BY <1>1, <1>6, <1>7, <1>9 DEF Harmless, Types, Touched
  <1>14. Fits(r)
    BY <1>1, <1>7, <1>9, <1>10, Names DEF Fits, Types, Touched
  <1> QED BY <1>11, <1>12, <1>13, <1>14, Lift

-----------------------------------------------------------------------------
(* A run starts when no other run of its head is at work. *)
LEMMA StartStep ==
  ASSUME IInv, NEW r \in Run, Start(r)
  PROVE  IInv'
  <1>1. Types /\ RunOK(r) /\ at[r] = "queued"
    BY DEF IInv, Start
  <1>2. /\ at' = [at EXCEPT ![r] = "read"] /\ mode' = mode /\ producer' = producer /\ held' = held
        /\ neutral' = neutral /\ named' = named /\ codex' = codex /\ input' = input /\ last' = last
        /\ rerun' = rerun /\ proved' = proved /\ checks' = checks /\ failed' = failed /\ troubled' = troubled
        /\ pull' = pull /\ changes' = changes
    BY DEF Start, Go, outputs, world, history
  <1>3. Types'
    BY <1>1, <1>2 DEF Types, Active, Working
  <1>4. RunOK(r)'
    BY <1>1, <1>2 DEF Types, RunOK, Modes, Codices, Knows, Created, Closed, Mine,
                      Before, Reading, Reserved, Posted, Busy, Working, Closing, Resting
  <1>5. Harmless(r)
    BY <1>1, <1>2 DEF Harmless, Types
  <1>6. \A q \in Run : RunOK(q)'
    BY <1>4, <1>5, Undisturbed
  <1>7. \A q \in Run : (at'[q] = at[q] /\ q # r) \/ (q = r /\ at'[q] = "read")
    BY <1>1, <1>2 DEF Types
  <1>8. Dispatched'
    BY <1>1, <1>2, <1>7 DEF IInv, Dispatched
  <1>9. \A q \in Run : at[q] \in Active => input[q][2] # input[r][2]
    <2>1. \A q \in Run : at[q] \in Active => q \in 1 .. last
      BY <1>1, ExactReviewAssumption DEF IInv, Types, Dispatched, Run, Active, Working, Closing
    <2> QED BY <2>1 DEF Start
  <1>10. Alone'
    BY <1>2, <1>7, <1>9 DEF IInv, Alone
  <1>11. OnlyAsker'
    <2>1. mode[r] = "none"
      BY <1>1 DEF RunOK, Modes, Before
    <2> QED BY <1>2, <1>7, <2>1 DEF IInv, OnlyAsker
  <1>12. OneNeutral' /\ AskedOnce' /\ GreenIsProven'
    BY <1>2, <1>7 DEF IInv, OneNeutral, Neutrals, AskedOnce, GreenIsProven
  <1> QED BY <1>3, <1>6, <1>8, <1>10, <1>11, <1>12 DEF IInv

(* Nothing that a run knows depends on the pull request. *)
LEMMA ChangeStep ==
  ASSUME IInv, NEW p \in [open : BOOLEAN, base : 1 .. MaxBase, head : Heads], Change(p)
  PROVE  IInv'
  <1>1. Types'
    BY ExactReviewAssumption DEF IInv, Types, Change, outputs, history
  <1>2. UNCHANGED <<last, at, input, outputs, codex, failed, checks, history>>
    BY DEF Change
  <1> QED BY <1>1, <1>2
     DEF IInv, Dispatched, RunOK, Modes, Codices, Knows, Created, Closed, Mine, Alone,
                            OnlyAsker, OneNeutral, Neutrals, AskedOnce, GreenIsProven, outputs, history

(* A step that changes nothing. *)
LEMMA StutterStep ==
  ASSUME IInv, UNCHANGED vars
  PROVE  IInv'
  BY DEF IInv, Types, Dispatched, RunOK, Modes, Codices, Knows, Created, Closed, Mine, Alone, OnlyAsker,
         OneNeutral, Neutrals, AskedOnce, GreenIsProven, vars, world, outputs, history

(* A run that is started again counts no more. *)
LEMMA RerunStep ==
  ASSUME IInv, NEW r \in Run, Rerun(r)
  PROVE  IInv'
  <1>1. UNCHANGED <<world, last, at, input, outputs, codex, failed, checks, proved, troubled>>
        /\ rerun' = rerun \cup {r}
    BY DEF Rerun
  <1>2. Types'
    BY <1>1 DEF IInv, Types, outputs, world
  <1>3. OnlyAsker' /\ AskedOnce'
    BY <1>1 DEF IInv, OnlyAsker, AskedOnce, outputs
  <1> QED BY <1>1, <1>2, <1>3
     DEF IInv, Dispatched, RunOK, Modes, Codices, Knows, Created, Closed, Mine, Alone,
                                  OneNeutral, Neutrals, GreenIsProven, outputs

(* A check that is not listed any more is the check it was. *)
LEMMA ReopenStep ==
  ASSUME IInv, NEW gone \in SUBSET Id, Reopen(gone)
  PROVE  IInv'
  <1>1. /\ last' = last /\ at' = at /\ input' = input /\ mode' = mode /\ producer' = producer /\ held' = held
        /\ neutral' = neutral /\ named' = named /\ codex' = codex /\ failed' = failed
        /\ rerun' = rerun /\ proved' = proved /\ troubled' = troubled /\ changes' = changes
    BY DEF Reopen, outputs, history
  <1>2. \A c \in Id : checks[c] \in Check =>
           /\ [checks[c] EXCEPT !.visible = FALSE] \in Check
           /\ [checks[c] EXCEPT !.visible = FALSE] # None
           /\ [checks[c] EXCEPT !.visible = FALSE].producer = checks[c].producer
           /\ [checks[c] EXCEPT !.visible = FALSE].input = checks[c].input
           /\ [checks[c] EXCEPT !.visible = FALSE].status = checks[c].status
           /\ [checks[c] EXCEPT !.visible = FALSE].visible = FALSE
    <2> TAKE c \in Id
    <2> HAVE checks[c] \in Check
    <2>1. [checks[c] EXCEPT !.visible = FALSE] \in Check
      BY DEF Check
    <2> QED BY <2>1, ExactReviewAssumption DEF Check
  <1>3. \A c \in gone : checks[c] \in Check
    BY DEF Reopen, IInv, Types
  <1>4. \A c \in Id : /\ checks'[c] \in Check \cup {None}
                      /\ checks'[c] = None <=> checks[c] = None
                      /\ checks[c] # None =>
                           /\ checks'[c].producer = checks[c].producer /\ checks'[c].input = checks[c].input
                           /\ checks'[c].status = checks[c].status
                           /\ checks'[c].visible => checks[c].visible
    <2> TAKE c \in Id
    <2>1. CASE c \in gone
      <3>1. checks'[c] = [checks[c] EXCEPT !.visible = FALSE]
        BY <2>1 DEF Reopen
      <3> QED BY <1>2, <1>3, <2>1, <3>1, ExactReviewAssumption
    <2>2. CASE c \notin gone
      BY <2>2 DEF Reopen, IInv, Types
    <2> QED BY <2>1, <2>2
  <1>5. checks' \in [Id -> Check \cup {None}]
    <2>1. checks' = [c \in Id |-> checks'[c]]
      BY DEF Reopen
    <2> QED BY <1>4, <2>1
  <1>6. Types'
    <2>1. pull' \in [open : BOOLEAN, base : 1 .. MaxBase, head : Heads]
      BY DEF Reopen, IInv, Types
    <2> QED BY <1>1, <1>5, <2>1 DEF IInv, Types
  <1>7. ASSUME NEW q \in Run PROVE RunOK(q)'
    <2>1. /\ RunOK(q) /\ held[q] \in Id \cup {None} /\ neutral[q] \in Id \cup {None}
          /\ Protected(q) \in Id /\ Neutral(q) \in Id
      BY Names DEF IInv, Types
    <2>2. \A c \in Id : checks[c] # None => (Mine(q, c) <=> Mine(q, c)')
      BY <1>1, <1>4 DEF Mine
    <2>3. Modes(q)' /\ Codices(q)'
      BY <1>1, <2>1 DEF RunOK, Modes, Codices
    <2>4. Knows(q)'
      BY <1>1, <1>4, <2>1, <2>2 DEF RunOK, Knows, Mine
    <2>5. Created(q)'
      BY <1>1, <1>4, <2>1, <2>2 DEF RunOK, Created, Mine
    <2>6. Closed(q)'
      BY <1>1, <1>4, <2>1, <2>2 DEF RunOK, Closed, Mine
    <2> QED BY <2>3, <2>4, <2>5, <2>6 DEF RunOK
  <1>8. OneNeutral'
    BY <1>1, <1>4 DEF IInv, OneNeutral, Neutrals
  <1>9. GreenIsProven'
    BY <1>1, <1>4 DEF IInv, GreenIsProven
  <1> QED BY <1>1, <1>6, <1>7, <1>8, <1>9 DEF IInv, Dispatched, Alone, OnlyAsker, AskedOnce

(* A run that is dispatched knows nothing yet, and has not asked. *)
LEMMA DispatchStep ==
  ASSUME IInv, NEW head \in Heads, Dispatch(head)
  PROVE  IInv'
  <1>1. last + 1 \in Run /\ last \in Nat /\ Types
    BY ExactReviewAssumption DEF Dispatch, IInv, Types, Run
  <1>2. PICK n \in Run : n = last + 1
    BY <1>1
  <1>3. /\ last' = n /\ mode' = mode /\ producer' = producer /\ held' = held
        /\ neutral' = neutral /\ named' = named /\ codex' = codex /\ failed' = failed /\ checks' = checks
        /\ rerun' = rerun /\ proved' = proved /\ troubled' = troubled /\ changes' = changes /\ pull' = pull
        /\ input' = [input EXCEPT ![n] = <<pull.base, head>>]
    BY <1>2 DEF Dispatch, outputs, history, world
  <1>4. n \in Run /\ last \in Nat /\ Types
    BY <1>1
  <1>5. at[n] = "none" /\ codex[n] = "skipped" /\ RunOK(n)
    BY <1>4, <1>2 DEF IInv, Dispatched, RunOK, Codices, Before
  <1>6. \A q \in Run \ {n} : /\ input'[q] = input[q]
                             /\ at'[q] = at[q] \/ (at[q] = "queued" /\ at'[q] = "cancelled")
    BY <1>3, <1>4 DEF Dispatch, Types
  <1>7. /\ at'[n] = "queued" /\ input'[n] = <<pull.base, head>> /\ <<pull.base, head>> \in Inputs
        /\ at' \in [Run -> {"none", "queued"} \cup Active \cup Resting]
    BY <1>3, <1>4 DEF Dispatch, Types, Inputs, Resting
  <1>8. Types'
    <2>1. input' \in [Run -> Inputs \cup {None}]
      BY <1>3, <1>4, <1>7 DEF Types
    <2>2. last' \in 0 .. MaxRuns
      BY <1>3, <1>4, ExactReviewAssumption DEF Run
    <2> QED BY <1>3, <1>4, <1>7, <2>1, <2>2 DEF Types
  <1>9. Dispatched'
    <2>1. n = last + 1 /\ last \in Nat
      BY <1>1, <1>2
    <2>2. ASSUME NEW q \in Run, q # n
          PROVE  (q > last' <=> at'[q] = "none") /\ (q <= last' => input'[q] \in Inputs)
      <3>1. (q > n <=> q > last) /\ (q <= n <=> q <= last)
        BY <2>1, <2>2, ExactReviewAssumption DEF Run
      <3>2. (q > last <=> at[q] = "none") /\ (q <= last => input[q] \in Inputs)
        BY DEF IInv, Dispatched
      <3> QED BY <1>3, <1>6, <2>2, <3>1, <3>2
    <2>3. ~(n > last')
      BY <1>3, <2>1
    <2> QED BY <1>7, <2>2, <2>3 DEF Dispatched
  <1>10. ASSUME NEW q \in Run, q # n PROVE RunOK(q)'
    <2>1. RunOK(q)
      BY DEF IInv
    <2>2. \A c \in Id : Mine(q, c) <=> Mine(q, c)'
      BY <1>3, <1>6, <1>10 DEF Mine
    <2>3. Modes(q)'
      <3>1. mode[q] \in {"recovered", "reused"} => producer[q] \in Run \ {n}
        BY <1>5, <2>1 DEF RunOK, Modes
      <3> QED BY <1>3, <1>6, <1>10, <2>1, <3>1 DEF RunOK, Modes, Before, Reading, Resting
    <2>4. Codices(q)'
      BY <1>3, <1>6, <1>10, <2>1 DEF RunOK, Codices, Before, Reading, Reserved, Closing
    <2>5. Knows(q)' /\ Created(q)'
      <3>1. /\ held[q] \in Id \cup {None} /\ neutral[q] \in Id \cup {None} /\ Neutral(q) \in Id
        BY <1>4, Names DEF Types
      <3> QED BY <1>3, <1>6, <1>10, <2>1, <2>2, <3>1
              DEF RunOK, Knows, Created, Before, Reading, Reserved, Posted, Busy, Working, Closing
    <2>6. Closed(q)'
      BY <1>3, <1>6, <1>10, <2>1, <2>2 DEF RunOK, Closed
    <2> QED BY <2>3, <2>4, <2>5, <2>6 DEF RunOK
  <1>11. RunOK(n)'
    <2>1. mode'[n] = "none" /\ held'[n] = None /\ neutral'[n] = None /\ codex'[n] = "skipped"
      BY <1>3, <1>5 DEF RunOK, Modes, Codices, Knows, Before
    <2>2. checks'[Protected(n)] = None /\ checks'[Neutral(n)] = None
      BY <1>3, <1>5 DEF RunOK, Created, Before
    <2>3. Modes(n)' /\ Codices(n)'
      BY <1>7, <2>1 DEF Modes, Codices, Closing
    <2>4. Knows(n)' /\ Created(n)'
      BY <1>7, <2>1, <2>2 DEF Knows, Created, Reserved, Posted, Busy, Working, Closing
    <2>5. Closed(n)'
      BY <1>7 DEF Closed
    <2> QED BY <2>3, <2>4, <2>5 DEF RunOK
  <1>12. Alone'
    BY <1>6, <1>7 DEF IInv, Alone, Active, Working, Closing
  <1>13. OnlyAsker'
    BY <1>3, <1>5, <1>6, <1>7 DEF IInv, OnlyAsker, Busy, Working, Closing
  <1>14. AskedOnce'
    BY <1>3, <1>5, <1>6 DEF IInv, AskedOnce
  <1>15. OneNeutral'
    BY <1>3, <1>6, <1>7 DEF IInv, OneNeutral, Neutrals
  <1>16. GreenIsProven'
    <2>1. \A c \in Id : checks[c] # None => checks[c].producer \in Run
      BY <1>4 DEF Types, Check
    <2> QED BY <1>3, <1>5, <1>6, <2>1 DEF IInv, GreenIsProven
  <1>17. \A q \in Run : RunOK(q)'
    BY <1>10, <1>11
  <1> QED BY <1>8, <1>9, <1>12, <1>13, <1>14, <1>15, <1>16, <1>17 DEF IInv

-----------------------------------------------------------------------------
(* The invariant holds initially, and every step keeps it. *)
LEMMA Initially == Init => IInv
  <1> SUFFICES ASSUME Init PROVE IInv
    OBVIOUS
  <1>1. Types /\ Dispatched
    <2>1. Types
      <3>1. pull \in [open : BOOLEAN, base : 1 .. MaxBase, head : Heads]
        <4>1. pull \in [open : {TRUE}, base : {1}, head : Heads]
          BY DEF Init
        <4>2. pull = [open |-> pull.open, base |-> pull.base, head |-> pull.head]
          BY <4>1
        <4>3. pull.base = 1 /\ pull.head \in Heads
          BY <4>1
        <4>4. pull.open \in BOOLEAN
          BY <4>1
        <4>5. 1 \in 1 .. MaxBase
          BY ExactReviewAssumption
        <4> QED BY <4>2, <4>3, <4>4, <4>5
      <3>2. last \in 0 .. MaxRuns /\ changes \in 0 .. MaxChanges
        BY ExactReviewAssumption DEF Init
      <3> QED BY <3>1, <3>2 DEF Init, Types
    <2>2. \A r \in Run : r > 0 /\ ~(r <= 0)
      BY ExactReviewAssumption DEF Run
    <2> QED BY <2>1, <2>2 DEF Init, Dispatched
  <1>2. ASSUME NEW r \in Run PROVE RunOK(r)
    BY <1>2, Names, ExactReviewAssumption
       DEF Init, RunOK, Modes, Codices, Knows, Created, Closed, Before, Reading, Reserved, Posted, Busy,
           Working, Closing, Resting
  <1>3. Alone /\ OnlyAsker /\ OneNeutral
    BY DEF Init, Alone, OnlyAsker, OneNeutral, Active, Working, Closing
  <1>4. AskedOnce /\ GreenIsProven
    BY DEF Init, AskedOnce, GreenIsProven
  <1> QED BY <1>1, <1>2, <1>3, <1>4 DEF IInv

(* Every step is one of the steps above. *)
LEMMA Inductive == IInv /\ [Next]_vars => IInv'
  <1> SUFFICES ASSUME IInv, [Next]_vars PROVE IInv'
    OBVIOUS
  <1>1. ASSUME NEW r \in Run, Step(r) PROVE IInv'
    <2>1. ASSUME NEW e \in BOOLEAN, NEW a \in BOOLEAN, Call(r, e, a) PROVE IInv'
      BY <2>1, ReserveStep, PostNeutralStep, PublishStep, GreenStep, CloseProtectedStep, CloseNeutralStep
         DEF Call
    <2>2. ASSUME NEW c \in Id, CloseStale(r, c) \/ Reuse(r, c) \/ FindNeutral(r, c) PROVE IInv'
      BY <2>2, CloseStaleStep, ReuseStep, FindNeutralStep
    <2>3. ASSUME NEW q \in Run, Ledger(r, q) PROVE IInv'
      BY <2>3, LedgerStep
    <2>4. ASSUME NEW v \in {"PASS", "FAIL", "garbled"}, Answer(r, v) PROVE IInv'
      BY <2>4, AnswerStep
    <2>5. ASSUME NEW good \in BOOLEAN, Handoff(r, good) PROVE IInv'
      BY <2>5, HandoffStep
    <2> QED BY <1>1, <2>1, <2>2, <2>3, <2>4, <2>5, StartStep, MaterializeStep, BindStep, ReadLedgerStep,
               DetailStep, NoNeutralStep, ReviewStep, VerifyStep, FailStep, LoseStep, RerunStep DEF Step
  <1> QED BY <1>1, ChangeStep, ReopenStep, DispatchStep, StutterStep DEF Next

(* The invariant of every run. *)
LEMMA Invariant == Spec => []IInv
  BY Initially, Inductive, PTL DEF Spec

(* Type correctness: a run works only with checks that exist. *)
THEOREM TypeCorrect == Spec => []TypeOK
  <1>1. IInv => TypeOK
    <2> SUFFICES ASSUME IInv PROVE TypeOK
      OBVIOUS
    <2>1. \A r \in Run, c \in Id : c \in {held[r], neutral[r]} => checks[c] # None
      BY ExactReviewAssumption DEF IInv, RunOK, Knows
    <2>2. \A r \in Run : at[r] \in {"publish", "green"} => held[r] # None /\ neutral[r] # None
      BY DEF IInv, RunOK, Knows, Posted
    <2> QED BY <2>1, <2>2 DEF IInv, Types, TypeOK
  <1> QED BY <1>1, Invariant, PTL

(* No input is given to the reviewer twice, however many runs are dispatched, fail *)
(* or are lost, as far as nobody starts a run again. *)
THEOREM NeverAskedTwice == Spec => []AskedOnce
  BY Invariant, PTL DEF IInv

(* A green check rests on a review of its input that passed, and on a proof that it *)
(* was still what the pull request asks for. *)
THEOREM GreenProven == Spec => []GreenIsProven
  BY Invariant, PTL DEF IInv

(* A run that ends leaves none of its checks open. *)
THEOREM ChecksSettled == Spec => []Settled
  <1>1. IInv => Settled
    BY Names DEF IInv, RunOK, Closed, Settled
  <1> QED BY <1>1, Invariant, PTL
=============================================================================
