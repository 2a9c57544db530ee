--------------------------- MODULE FinalizerProofs ---------------------------
(***************************************************************************)
(* The two halves of finalize-mlx90-delivery.py.                           *)
(*                                                                         *)
(* Writers: for every set of invocations, output paths and process IDs,    *)
(* the safety properties of OutputPair.                                    *)
(*                                                                         *)
(* Documents: an acceptance is of one run and true at the times it names,  *)
(* for any set of receipts, facts, container evidence and attempts.        *)
(***************************************************************************)
EXTENDS OutputPair, Receipts, TLAPS


(* The inductive invariant says of every invocation where it is, what it has
   prepared and what it has published. *)
Before == {"check", "create", "write", "stat", "link"}
Preparing == {"create", "write", "stat"}
Undoing == {"undo", "unlink"}
Ending == {"clean", "ended"}

(* The temporary file of the k-th output is complete and owned. *)
Prepared(w, k) ==
    /\ temp[PidOf[w]][Outputs[w][k]] = <<w, k>>
    /\ owner[w][k] = <<w, k>>
    /\ <<w, k>> \in written

Kept(w, k) == Holds(w, k) \/ Outputs[w][k] \in touched

(* The position of an invocation, and what it has prepared so far. *)
Progress(w) ==
    /\ pc[w] \in Undoing => DOMAIN Outputs[w] = 1..2
    /\ result[w] = "none" <=> pc[w] \in Before
    /\ result[w] = "ok" => pc[w] \in Ending
    /\ \A k \in DOMAIN Outputs[w] :
          /\ owner[w][k] \in {None, <<w, k>>}
          /\ pc[w] \in {"link"} \cup Undoing => Prepared(w, k)
          /\ pc[w] \in Preparing /\ k < at[w] => Prepared(w, k)
          /\ pc[w] \in {"write", "stat"} /\ k = at[w]
                => temp[PidOf[w]][Outputs[w][k]] = <<w, k>>
          /\ pc[w] = "stat" /\ k = at[w] => <<w, k>> \in written

(* What an invocation has published, or withdrawn. *)
Outcome(w) ==
    /\ \A k \in DOMAIN Outputs[w] :
          /\ pc[w] \in Before \ {"link"} => ~Holds(w, k)
          /\ pc[w] = "link" /\ k >= at[w] => ~Holds(w, k)
          /\ pc[w] = "link" /\ k < at[w] => Kept(w, k)
          /\ pc[w] \in Undoing /\ k # 1 => ~Holds(w, k)
          /\ pc[w] = "unlink" /\ k = 1 => Kept(w, k)
          /\ result[w] = "ok" => <<w, k>> \in written /\ Kept(w, k)
          /\ pc[w] \in Ending /\ result[w] = "failed" /\ w \notin faulty \cup killed
                => ~Holds(w, k)

Positions == \A w \in Writer : at[w] \in DOMAIN Outputs[w]

IInv ==
    /\ TypeOK
    /\ Positions
    /\ \A w \in Writer : Progress(w) /\ Outcome(w)

-----------------------------------------------------------------------------
(* Every invocation has one or two outputs. *)
LEMMA OutputFacts ==
    ASSUME NEW w \in Writer
    PROVE  /\ DOMAIN Outputs[w] = 1..Len(Outputs[w])
           /\ Len(Outputs[w]) \in 1..2
           /\ DOMAIN Outputs[w] \subseteq 1..2
           /\ \A k \in DOMAIN Outputs[w] : Outputs[w][k] \in Path
           /\ 1 \in DOMAIN Outputs[w]
  BY OutputsAssumption DEF OutputsAssumption

(* A step to the next output, or to the first after the last, stays within
   the outputs of the invocation. *)
LEMMA AdvanceTypes ==
    ASSUME TypeOK, Positions, NEW w \in Writer, NEW step \in Steps, Advance(w, step)
    PROVE  pc' \in [Writer -> Steps] /\ at' \in [Writer -> 1..2] /\ Positions'
<1>1. at[w] \in 1..Len(Outputs[w]) /\ Len(Outputs[w]) \in 1..2
  BY OutputFacts DEF Positions
<1>2. CASE Last(w)
  <2>1. pc' = [pc EXCEPT ![w] = step] /\ at' = [at EXCEPT ![w] = 1]
    BY <1>2 DEF Advance, Goto
  <2> QED
    BY <2>1, OutputFacts DEF TypeOK, Positions
<1>3. CASE ~Last(w)
  <2>1. pc' = [pc EXCEPT ![w] = pc[w]] /\ at' = [at EXCEPT ![w] = at[w] + 1]
    BY <1>3 DEF Advance, Goto
  <2>2. at[w] + 1 \in 1..Len(Outputs[w]) /\ at[w] + 1 \in 1..2
    <3> DEFINE a == at[w]
               n == Len(Outputs[w])
    <3>1. a \in 1..n /\ n \in 1..2 /\ a # n
      BY <1>1, <1>3 DEF Last
    <3> HIDE DEF a, n
    <3>2. a + 1 \in 1..n /\ a + 1 \in 1..2
      BY <3>1
    <3> QED
      BY <3>2 DEF a, n
  <2>3. at[w] + 1 \in DOMAIN Outputs[w]
    BY <2>2, OutputFacts
  <2> QED
    BY <2>1, <2>2, <2>3 DEF TypeOK, Positions
<1> QED
  BY <1>2, <1>3

LEMMA GotoTypes ==
    ASSUME TypeOK, Positions, NEW w \in Writer, NEW step \in Steps,
           NEW k \in DOMAIN Outputs[w], Goto(w, step, k)
    PROVE  pc' \in [Writer -> Steps] /\ at' \in [Writer -> 1..2] /\ Positions'
  BY OutputFacts DEF Goto, TypeOK, Positions

LEMMA RaiseTypes ==
    ASSUME TypeOK, Positions, NEW w \in Writer, NEW step \in Steps, Raise(w, step)
    PROVE  /\ pc' \in [Writer -> Steps] /\ at' \in [Writer -> 1..2] /\ Positions'
           /\ result' \in [Writer -> {"none", "ok", "failed"}]
<1>1. pc' \in [Writer -> Steps] /\ at' \in [Writer -> 1..2] /\ Positions'
  BY GotoTypes, OutputFacts DEF Raise
<1> QED
  BY <1>1 DEF Raise, TypeOK

(* The state is well typed; in particular an invocation never works on an
   output that it does not have. *)
THEOREM TypeCorrect == Spec => [](TypeOK /\ Positions)
<1>1. Init => TypeOK /\ Positions
  <2> SUFFICES ASSUME Init PROVE TypeOK /\ Positions
    OBVIOUS
  <2>1. changes \in 0..MaxChanges
    BY PidsAssumption DEF Init, PidsAssumption
  <2>2. at \in [Writer -> 1..2] /\ Positions
    BY OutputFacts DEF Init, Positions
  <2> QED
    BY <2>1, <2>2 DEF Init, TypeOK, Steps
<1>2. TypeOK /\ Positions /\ [Next]_vars => (TypeOK /\ Positions)'
  <2> SUFFICES ASSUME TypeOK, Positions, [Next]_vars PROVE (TypeOK /\ Positions)'
    OBVIOUS
  <2>1. ASSUME NEW p \in Path, Elsewhere(p) PROVE (TypeOK /\ Positions)'
    <3>1. changes \in Nat /\ changes + 1 \in 0..MaxChanges /\ changes \in 0..MaxChanges
      BY <2>1, PidsAssumption DEF Elsewhere, TypeOK, PidsAssumption
    <3>2. <<Foreign, changes>> \in File
      BY <3>1 DEF File
    <3>3. output' \in [Path -> File \cup {None}]
      BY <2>1, <3>2 DEF Elsewhere, TypeOK
    <3> QED
      BY <2>1, <3>1, <3>2, <3>3 DEF Elsewhere, TypeOK, Positions
  <2>2. ASSUME NEW w \in Writer, Invocation(w) PROVE (TypeOK /\ Positions)'
    <3> USE DEF Steps
    <3>0. /\ at[w] \in 1..2
          /\ at[w] \in DOMAIN Outputs[w]
          /\ \A k \in 1..2 : <<w, k>> \in File
          /\ Out(w) \in Path
          /\ PidOf[w] \in Pid
      BY OutputFacts, PidsAssumption DEF TypeOK, Positions, File, Out, PidsAssumption
    <3>00. Temporary(w) \in File \cup {None}
      BY <3>0 DEF Temporary, TypeOK
    <3>1. CASE SafeOutput(w)
      <4>1. /\ pc' \in [Writer -> Steps] /\ at' \in [Writer -> 1..2] /\ Positions'
            /\ result' \in [Writer -> {"none", "ok", "failed"}]
        <5>1. CASE Occupied(w)
          BY <3>1, <5>1, GotoTypes, OutputFacts DEF SafeOutput, TypeOK
        <5>2. CASE ~Occupied(w)
          BY <3>1, <5>2, AdvanceTypes DEF SafeOutput, TypeOK
        <5> QED BY <5>1, <5>2
      <4> QED
        BY <3>1, <4>1 DEF SafeOutput, TypeOK
    <3>2. CASE Create(w)
      <4>1. CASE Temporary(w) # None
        BY <3>2, <4>1, RaiseTypes DEF Create, TypeOK
      <4>2. CASE Temporary(w) = None
        <5>1. temp' = [temp EXCEPT ![PidOf[w]][Out(w)] = <<w, at[w]>>]
          BY <3>2, <4>2 DEF Create
        <5>2. temp' \in [Pid -> [Path -> File \cup {None}]]
          BY <5>1, <3>0 DEF TypeOK
        <5>3. pc' \in [Writer -> Steps] /\ at' \in [Writer -> 1..2] /\ Positions'
          BY <3>2, <4>2, <3>0, GotoTypes DEF Create
        <5> QED
          BY <3>2, <4>2, <5>2, <5>3 DEF Create, TypeOK
      <4> QED BY <4>1, <4>2
    <3>3. CASE WriteAll(w)
      <4>1. pc' \in [Writer -> Steps] /\ at' \in [Writer -> 1..2] /\ Positions'
        BY <3>3, <3>0, GotoTypes DEF WriteAll
      <4> QED
        BY <3>3, <4>1, <3>0 DEF WriteAll, TypeOK
    <3>4. CASE Stat(w)
      <4>1. pc' \in [Writer -> Steps] /\ at' \in [Writer -> 1..2] /\ Positions'
        <5>1. CASE Last(w)
          BY <3>4, <5>1, GotoTypes, OutputFacts DEF Stat
        <5>2. CASE ~Last(w)
          <6>1. at[w] + 1 \in DOMAIN Outputs[w]
            BY <5>2, <3>0, OutputFacts DEF Last
          <6> QED
            BY <3>4, <5>2, <6>1, GotoTypes DEF Stat
        <5> QED BY <5>1, <5>2
      <4>2. owner' \in [Writer -> [1..2 -> File \cup {None}]]
        BY <3>4, <3>0, <3>00 DEF Stat, TypeOK
      <4> QED
        BY <3>4, <4>1, <4>2 DEF Stat, TypeOK
    <3>5. CASE Link(w)
      <4>1. CASE Occupied(w)
        BY <3>5, <4>1, RaiseTypes DEF Link, LinkFails, TypeOK
      <4>2. CASE ~Occupied(w)
        <5>1. output' = [output EXCEPT ![Out(w)] = Temporary(w)]
          BY <3>5, <4>2 DEF Link
        <5>2. output' \in [Path -> File \cup {None}]
          BY <5>1, <3>0, <3>00 DEF TypeOK
        <5>3. pc' \in [Writer -> Steps] /\ at' \in [Writer -> 1..2] /\ Positions'
          BY <3>5, <4>2, AdvanceTypes DEF Link
        <5>4. result' \in [Writer -> {"none", "ok", "failed"}]
          BY <3>5, <4>2 DEF Link, TypeOK
        <5> QED
          BY <3>5, <5>2, <5>3, <5>4 DEF Link, TypeOK
      <4> QED BY <4>1, <4>2
    <3>6. CASE UndoStat(w)
      <4>1. observed' \in [Writer -> File \cup {None}]
        BY <3>6, OutputFacts DEF UndoStat, TypeOK
      <4>2. pc' \in [Writer -> Steps] /\ at' \in [Writer -> 1..2] /\ Positions'
        BY <3>6, GotoTypes, OutputFacts DEF UndoStat
      <4> QED
        BY <3>6, <4>1, <4>2 DEF UndoStat, TypeOK
    <3>7. CASE UndoUnlink(w)
      <4>1. pc' \in [Writer -> Steps] /\ at' \in [Writer -> 1..2] /\ Positions'
        BY <3>7, GotoTypes, OutputFacts DEF UndoUnlink
      <4>2. output' \in [Path -> File \cup {None}]
        BY <3>7, OutputFacts DEF UndoUnlink, TypeOK
      <4> QED
        BY <3>7, <4>1, <4>2 DEF UndoUnlink, TypeOK
    <3>8. CASE Clean(w)
      <4>1. pc' \in [Writer -> Steps] /\ at' \in [Writer -> 1..2] /\ Positions'
        BY <3>8, AdvanceTypes DEF Clean
      <4>2. temp' \in [Pid -> [Path -> File \cup {None}]]
        BY <3>8, <3>0 DEF Clean, TypeOK
      <4> QED
        BY <3>8, <4>1, <4>2 DEF Clean, TypeOK
    <3>9. CASE SystemCallFails(w)
      <4>1. \E step \in Steps : Raise(w, step)
        BY <3>9 DEF SystemCallFails, LinkFails
      <4>2. /\ pc' \in [Writer -> Steps] /\ at' \in [Writer -> 1..2] /\ Positions'
            /\ result' \in [Writer -> {"none", "ok", "failed"}]
        BY <4>1, RaiseTypes
      <4> QED
        BY <3>9, <4>2 DEF SystemCallFails, TypeOK
    <3>10. CASE Killed(w)
      BY <3>10, RaiseTypes DEF Killed, TypeOK
    <3> QED
      BY <2>2, <3>1, <3>2, <3>3, <3>4, <3>5, <3>6, <3>7, <3>8, <3>9, <3>10
      DEF Invocation
  <2>3. CASE UNCHANGED vars
    BY <2>3 DEF vars, TypeOK, Positions
  <2> QED
    BY <2>1, <2>2, <2>3 DEF Next
<1> QED
  BY <1>1, <1>2, PTL DEF Spec

-----------------------------------------------------------------------------
(* No invocation replaces a file at an output path: a link is only made at a
   path where nothing is, and a withdrawal leaves nothing. *)
THEOREM NothingReplaced == Spec => NoClobber
<1>1. TypeOK /\ Positions /\ [Next]_vars
        => [\A p \in Path : output[p] # None /\ output'[p] # None /\ changes' = changes
              => output'[p] = output[p]]_vars
  <2> SUFFICES ASSUME TypeOK, Positions, Next, NEW p \in Path,
                      output[p] # None, output'[p] # None, changes' = changes
               PROVE  output'[p] = output[p]
    BY DEF vars
  <2>1. ASSUME NEW r \in Path, Elsewhere(r) PROVE FALSE
    <3>1. changes \in Nat /\ changes' = changes + 1
      BY <2>1, PidsAssumption DEF Elsewhere, TypeOK, PidsAssumption
    <3> QED BY <3>1
  <2>2. ASSUME NEW w \in Writer, Invocation(w) PROVE output'[p] = output[p]
    <3>1. CASE Link(w)
      <4>1. CASE Occupied(w)
        BY <3>1, <4>1 DEF Link
      <4>2. CASE ~Occupied(w)
        <5>1. output' = [output EXCEPT ![Out(w)] = Temporary(w)] /\ output[Out(w)] = None
          BY <3>1, <4>2 DEF Link, Occupied
        <5> QED BY <5>1 DEF TypeOK
      <4> QED BY <4>1, <4>2
    <3>2. CASE UndoUnlink(w)
      <4>1. output' = [output EXCEPT ![Outputs[w][1]] = None]
        BY <3>2 DEF UndoUnlink
      <4> QED BY <4>1 DEF TypeOK
    <3>3. CASE ~Link(w) /\ ~UndoUnlink(w)
      BY <2>2, <3>3 DEF Invocation, SafeOutput, Create, WriteAll, Stat, UndoStat,
                        Clean, SystemCallFails, Killed
    <3> QED BY <3>1, <3>2, <3>3
  <2> QED
    BY <2>1, <2>2 DEF Next
<1> QED
  BY <1>1, TypeCorrect, PTL DEF Spec, NoClobber

-----------------------------------------------------------------------------
(* What a step leaves to an invocation that does not take it. *)
Undisturbed(w) ==
    /\ pc'[w] = pc[w] /\ at'[w] = at[w] /\ owner'[w] = owner[w] /\ result'[w] = result[w]
    /\ w \in faulty' <=> w \in faulty
    /\ w \in killed' <=> w \in killed
    /\ written \subseteq written'
    /\ \A k \in DOMAIN Outputs[w] :
          /\ temp[PidOf[w]][Outputs[w][k]] = <<w, k>>
                => temp'[PidOf[w]][Outputs[w][k]] = <<w, k>>
          /\ Holds(w, k)' => Holds(w, k)
          /\ Kept(w, k) => Kept(w, k)'

LEMMA UndisturbedKeeps ==
    ASSUME NEW w \in Writer, Progress(w), Outcome(w), Undisturbed(w)
    PROVE  Progress(w)' /\ Outcome(w)'
<1>1. \A k \in DOMAIN Outputs[w] : Prepared(w, k) => Prepared(w, k)'
  BY DEF Undisturbed, Prepared
<1>2. Progress(w)'
  BY <1>1 DEF Undisturbed, Progress
<1>3. Outcome(w)'
  BY DEF Undisturbed, Outcome
<1> QED
  BY <1>2, <1>3

(* Another program disturbs nobody: it only touches output paths. *)
LEMMA ElsewhereDisturbsNobody ==
    ASSUME IInv, NEW p \in Path, Elsewhere(p), NEW w \in Writer
    PROVE  Undisturbed(w)
<1>1. /\ UNCHANGED <<temp, pc, at, owner, result, faulty, killed>>
      /\ written \subseteq written'
      /\ touched' = touched \cup {p}
  BY DEF Elsewhere
<1>2. output' = [output EXCEPT ![p] = None] \/ output' = [output EXCEPT ![p] = <<Foreign, changes>>]
  BY DEF Elsewhere
<1>3. ASSUME NEW k \in DOMAIN Outputs[w]
      PROVE  (Holds(w, k)' => Holds(w, k)) /\ (Kept(w, k) => Kept(w, k)')
  <2>1. Outputs[w][k] \in Path /\ <<w, k>> # None /\ w # Foreign
    BY OutputFacts, NoneAssumption, WritersAssumption DEF NoneAssumption, WritersAssumption, File
  <2>2. output'[p] = None \/ output'[p] = <<Foreign, changes>>
    BY <1>2 DEF IInv, TypeOK
  <2>3. \A r \in Path : r # p => output'[r] = output[r]
    BY <1>2 DEF IInv, TypeOK
  <2>4. output'[p] # <<w, k>>
    BY <2>1, <2>2
  <2> QED
    BY <1>1, <2>1, <2>3, <2>4 DEF Holds, Kept
<1> QED
  BY <1>1, <1>3 DEF Undisturbed

(* Neither do other invocations: one creates only what is not there, removes
   only its own temporary files, and withdraws only its own output. *)
LEMMA InvocationDisturbsNobodyElse ==
    ASSUME IInv, NEW v \in Writer, Invocation(v), NEW w \in Writer, w # v
    PROVE  Undisturbed(w)
<1>0. /\ \A k \in DOMAIN Outputs[w] : Outputs[w][k] \in Path /\ <<w, k>> # None
      /\ PidOf[w] \in Pid /\ PidOf[v] \in Pid
      /\ at[v] \in DOMAIN Outputs[v] /\ Out(v) \in Path
      /\ Outputs[v][1] \in Path /\ 1 \in DOMAIN Outputs[v]
  BY OutputFacts, NoneAssumption, PidsAssumption
  DEF NoneAssumption, PidsAssumption, File, IInv, Positions, Out
<1>1. /\ pc'[w] = pc[w] /\ at'[w] = at[w] /\ result'[w] = result[w]
      /\ owner'[w] = owner[w]
  <2>1. \A step, k : Goto(v, step, k) => pc'[w] = pc[w] /\ at'[w] = at[w]
    BY DEF Goto, IInv, TypeOK
  <2>2. \A step : Raise(v, step) => pc'[w] = pc[w] /\ at'[w] = at[w] /\ result'[w] = result[w]
    BY <2>1 DEF Raise, IInv, TypeOK
  <2>3. \A step : Advance(v, step) => pc'[w] = pc[w] /\ at'[w] = at[w]
    BY <2>1 DEF Advance
  <2>4. CASE SafeOutput(v)
    BY <2>1, <2>3, <2>4 DEF SafeOutput, IInv, TypeOK
  <2>5. CASE Create(v)
    BY <2>1, <2>2, <2>5 DEF Create
  <2>6. CASE WriteAll(v)
    BY <2>1, <2>6 DEF WriteAll
  <2>7. CASE Stat(v)
    <3>1. pc'[w] = pc[w] /\ at'[w] = at[w] /\ result' = result
      BY <2>1, <2>7 DEF Stat
    <3>2. owner' = [owner EXCEPT ![v][at[v]] = Temporary(v)]
      BY <2>7 DEF Stat
    <3> QED
      BY <3>1, <3>2 DEF IInv, TypeOK
  <2>8. CASE Link(v)
    <3>1. CASE Occupied(v)
      BY <2>2, <2>8, <3>1 DEF Link, LinkFails
    <3>2. CASE ~Occupied(v)
      <4>1. pc'[w] = pc[w] /\ at'[w] = at[w] /\ owner' = owner
        BY <2>3, <2>8, <3>2 DEF Link
      <4>2. result' = [result EXCEPT ![v] = "ok"] \/ result' = result
        BY <2>8, <3>2 DEF Link
      <4>3. TypeOK
        BY DEF IInv
      <4>4. result'[w] = result[w]
        BY <4>2, <4>3 DEF TypeOK
      <4> QED
        BY <4>1, <4>4
    <3> QED BY <3>1, <3>2
  <2>9. CASE UndoStat(v)
    BY <2>1, <2>9 DEF UndoStat
  <2>10. CASE UndoUnlink(v)
    BY <2>1, <2>10 DEF UndoUnlink
  <2>11. CASE Clean(v)
    BY <2>3, <2>11 DEF Clean
  <2>12. CASE SystemCallFails(v)
    BY <2>2, <2>12 DEF SystemCallFails, LinkFails
  <2>13. CASE Killed(v)
    BY <2>2, <2>13 DEF Killed
  <2> QED
    BY <2>4, <2>5, <2>6, <2>7, <2>8, <2>9, <2>10, <2>11, <2>12, <2>13 DEF Invocation
<1>2. /\ w \in faulty' <=> w \in faulty
      /\ w \in killed' <=> w \in killed
      /\ written \subseteq written'
      /\ touched' = touched
  BY DEF Invocation, SafeOutput, Create, WriteAll, Stat, Link, UndoStat, UndoUnlink, Clean,
         SystemCallFails, Killed
<1>3. ASSUME NEW k \in DOMAIN Outputs[w], temp[PidOf[w]][Outputs[w][k]] = <<w, k>>
      PROVE  temp'[PidOf[w]][Outputs[w][k]] = <<w, k>>
  <2>1. CASE UNCHANGED temp
    BY <1>3, <2>1
  <2>2. ASSUME NEW f, temp' = [temp EXCEPT ![PidOf[v]][Out(v)] = f], Temporary(v) # <<w, k>>
        PROVE  temp'[PidOf[w]][Outputs[w][k]] = <<w, k>>
    BY <1>0, <1>3, <2>2 DEF Temporary, IInv, TypeOK
  <2>3. CASE Create(v)
    BY <1>0, <2>1, <2>2, <2>3 DEF Create
  <2>4. CASE Clean(v)
    <3>1. owner[v][at[v]] \in {None, <<v, at[v]>>}
      BY <1>0 DEF IInv, Progress
    <3>2. CASE IsOwned(Temporary(v), v, at[v])
      <4>1. Temporary(v) = <<v, at[v]>>
        BY <3>1, <3>2 DEF IsOwned
      <4>2. temp' = [temp EXCEPT ![PidOf[v]][Out(v)] = None]
        BY <2>4, <3>2 DEF Clean
      <4>3. Temporary(v) # <<w, k>>
        BY <4>1
      <4> QED
        BY <2>2, <4>2, <4>3
    <3>3. CASE ~IsOwned(Temporary(v), v, at[v])
      BY <2>1, <2>4, <3>3 DEF Clean
    <3> QED BY <3>2, <3>3
  <2>5. CASE ~Create(v) /\ ~Clean(v)
    BY <2>1, <2>5 DEF Invocation, SafeOutput, WriteAll, Stat, Link, UndoStat, UndoUnlink,
                      SystemCallFails, Killed
  <2> QED BY <2>3, <2>4, <2>5
<1>4. ASSUME NEW k \in DOMAIN Outputs[w]
      PROVE  (Holds(w, k)' => Holds(w, k)) /\ (Kept(w, k) => Kept(w, k)')
  <2>1. CASE UNCHANGED output
    BY <1>2, <2>1 DEF Holds, Kept
  <2>2. CASE Link(v) /\ ~Occupied(v)
    <3>1. output' = [output EXCEPT ![Out(v)] = Temporary(v)] /\ output[Out(v)] = None
      BY <2>2 DEF Link, Occupied
    <3>2. Temporary(v) = <<v, at[v]>>
      BY <1>0, <2>2 DEF Link, IInv, Progress, Prepared, Temporary, Out
    <3> QED
      BY <1>0, <1>2, <3>1, <3>2 DEF Holds, Kept, IInv, TypeOK
  <2>3. CASE UndoUnlink(v)
    <3>1. output' = [output EXCEPT ![Outputs[v][1]] = None]
      BY <2>3 DEF UndoUnlink
    <3>2. Kept(v, 1)
      BY <1>0, <2>3 DEF UndoUnlink, IInv, Outcome
    <3> QED
      BY <1>0, <1>2, <3>1, <3>2 DEF Holds, Kept, IInv, TypeOK
  <2>4. CASE ~(Link(v) /\ ~Occupied(v)) /\ ~UndoUnlink(v)
    BY <2>1, <2>4 DEF Invocation, SafeOutput, Create, WriteAll, Stat, Link, UndoStat, Clean,
                      SystemCallFails, Killed
  <2> QED BY <2>2, <2>3, <2>4
<1> QED
  BY <1>1, <1>2, <1>3, <1>4 DEF Undisturbed

-----------------------------------------------------------------------------
(* How a step moves the invocation that takes it. *)
LEMMA GotoMoves ==
    ASSUME TypeOK, NEW w \in Writer, NEW step, NEW k, Goto(w, step, k)
    PROVE  pc'[w] = step /\ at'[w] = k
  BY DEF Goto, TypeOK

LEMMA RaiseMoves ==
    ASSUME TypeOK, NEW w \in Writer, NEW step, Raise(w, step)
    PROVE  pc'[w] = step /\ at'[w] = 1 /\ result'[w] = "failed"
  BY GotoMoves DEF Raise, TypeOK

LEMMA AdvanceMoves ==
    ASSUME TypeOK, NEW w \in Writer, NEW step, Advance(w, step)
    PROVE  /\ Last(w) => pc'[w] = step /\ at'[w] = 1
           /\ ~Last(w) => pc'[w] = pc[w] /\ at'[w] = at[w] + 1
  BY GotoMoves DEF Advance

(* A step that prepares nothing, and publishes and withdraws nothing. *)
Idle(w) ==
    /\ UNCHANGED <<output, temp, owner, touched>>
    /\ written \subseteq written'

LEMMA IdleKeeps ==
    ASSUME NEW w \in Writer, Idle(w)
    PROVE  \A k \in DOMAIN Outputs[w] :
              /\ Prepared(w, k) => Prepared(w, k)'
              /\ Holds(w, k)' <=> Holds(w, k)
              /\ Kept(w, k)' <=> Kept(w, k)
  BY DEF Idle, Prepared, Holds, Kept

(* The step of an invocation keeps what the invariant says of it. *)
LEMMA OwnStep ==
    ASSUME IInv, NEW w \in Writer, Invocation(w)
    PROVE  Progress(w)' /\ Outcome(w)'
<1>1. /\ at[w] \in DOMAIN Outputs[w] /\ DOMAIN Outputs[w] \subseteq 1..2 /\ 1 \in DOMAIN Outputs[w] /\ DOMAIN Outputs[w] = 1..Len(Outputs[w])
      /\ Len(Outputs[w]) \in 1..2 /\ TypeOK /\ Progress(w) /\ Outcome(w)
      /\ \A k \in DOMAIN Outputs[w] : Outputs[w][k] \in Path /\ <<w, k>> # None
      /\ PidOf[w] \in Pid
      /\ \A j, k \in DOMAIN Outputs[w] : Outputs[w][j] = Outputs[w][k] => j = k
  BY OutputFacts, NoneAssumption, PidsAssumption, OutputsAssumption
  DEF NoneAssumption, PidsAssumption, OutputsAssumption, File, IInv, Positions
<1>2. CASE SafeOutput(w)
  <2>1. Idle(w) /\ faulty' = faulty /\ killed' = killed
    BY <1>2 DEF SafeOutput, Idle
  <2>2. CASE Occupied(w)
    <3>1. pc'[w] = "ended" /\ result'[w] = "failed" /\ pc[w] = "check"
      BY <1>1, <1>2, <2>2, GotoMoves DEF SafeOutput, TypeOK
    <3> QED
      BY <1>1, <2>1, <3>1, IdleKeeps
      DEF Progress, Outcome, Before, Preparing, Undoing, Ending, Idle
  <2>3. CASE ~Occupied(w)
    <3>1. /\ pc[w] = "check" /\ result'[w] = result[w]
          /\ (pc'[w] = "create" /\ at'[w] = 1) \/ pc'[w] = "check"
      BY <1>1, <1>2, <2>3, AdvanceMoves DEF SafeOutput
    <3>2. \A k \in DOMAIN Outputs[w] : ~(k < 1)
      BY <1>1
    <3> QED
      BY <1>1, <2>1, <3>1, <3>2, IdleKeeps
      DEF Progress, Outcome, Before, Preparing, Undoing, Ending, Idle
  <2> QED BY <2>2, <2>3
<1>3. CASE Create(w)
  <2>1. /\ UNCHANGED <<output, owner, touched, written, faulty, killed>>
        /\ pc[w] = "create"
    BY <1>3 DEF Create
  <2>2. CASE Temporary(w) # None
    <3>1. pc'[w] = "clean" /\ result'[w] = "failed" /\ temp' = temp
      BY <1>1, <1>3, <2>2, RaiseMoves DEF Create
    <3> QED
      BY <1>1, <2>1, <3>1
      DEF Progress, Outcome, Before, Preparing, Undoing, Ending, Holds, Kept
  <2>3. CASE Temporary(w) = None
    <3>1. /\ pc'[w] = "write" /\ at'[w] = at[w] /\ result'[w] = result[w]
          /\ temp' = [temp EXCEPT ![PidOf[w]][Out(w)] = <<w, at[w]>>]
      BY <1>1, <1>3, <2>3, GotoMoves DEF Create
    <3>2. temp'[PidOf[w]][Outputs[w][at[w]]] = <<w, at[w]>>
      BY <1>1, <3>1 DEF TypeOK, Out
    <3>3. \A k \in DOMAIN Outputs[w] : k < at[w] => Prepared(w, k)'
      <4> SUFFICES ASSUME NEW k \in DOMAIN Outputs[w], k < at[w] PROVE Prepared(w, k)'
        OBVIOUS
      <4>1. Prepared(w, k)
        BY <1>1, <2>1 DEF Progress, Preparing
      <4>2. temp[PidOf[w]][Outputs[w][k]] = <<w, k>> /\ <<w, k>> # temp[PidOf[w]][Out(w)]
        BY <1>1, <2>3, <4>1 DEF Prepared, Temporary
      <4>3. temp'[PidOf[w]][Outputs[w][k]] = <<w, k>>
        BY <1>1, <3>1, <4>2 DEF TypeOK, Out
      <4> QED
        BY <2>1, <4>1, <4>3 DEF Prepared
    <3> QED
      BY <1>1, <2>1, <3>1, <3>2, <3>3
      DEF Progress, Outcome, Before, Preparing, Undoing, Ending, Holds, Kept
  <2> QED BY <2>2, <2>3
<1>4. CASE WriteAll(w)
  <2>1. /\ Idle(w) /\ faulty' = faulty /\ killed' = killed
        /\ pc[w] = "write" /\ result' = result /\ <<w, at[w]>> \in written'
    BY <1>4 DEF WriteAll, Idle
  <2>2. pc'[w] = "stat" /\ at'[w] = at[w]
    BY <1>1, <1>4, GotoMoves DEF WriteAll
  <2> QED
    BY <1>1, <2>1, <2>2, IdleKeeps
    DEF Progress, Outcome, Before, Preparing, Undoing, Ending, Idle
<1>5. CASE Stat(w)
  <2>1. /\ UNCHANGED <<output, temp, touched, written, faulty, killed, result>>
        /\ pc[w] = "stat"
        /\ owner' = [owner EXCEPT ![w][at[w]] = Temporary(w)]
    BY <1>5 DEF Stat
  <2>2. Temporary(w) = <<w, at[w]>> /\ <<w, at[w]>> \in written
    BY <1>1, <2>1 DEF Progress, Temporary, Out
  <2>3. /\ owner'[w][at[w]] = <<w, at[w]>>
        /\ \A k \in DOMAIN Outputs[w] : k # at[w] => owner'[w][k] = owner[w][k]
    BY <1>1, <2>1, <2>2 DEF TypeOK
  <2>4. \A k \in DOMAIN Outputs[w] : k < at[w] \/ k = at[w] => Prepared(w, k)'
    <3> SUFFICES ASSUME NEW k \in DOMAIN Outputs[w], k < at[w] \/ k = at[w]
                 PROVE  Prepared(w, k)'
      OBVIOUS
    <3>1. CASE k = at[w]
      BY <2>1, <2>2, <2>3, <3>1 DEF Prepared, Temporary, Out
    <3>2. CASE k # at[w]
      <4>1. Prepared(w, k)
        BY <1>1, <2>1, <3>2 DEF Progress, Preparing
      <4> QED
        BY <2>1, <2>3, <3>2, <4>1 DEF Prepared
    <3> QED BY <3>1, <3>2
  <2>5. \A k \in DOMAIN Outputs[w] : owner'[w][k] \in {None, <<w, k>>}
    BY <1>1, <2>3 DEF Progress
  <2>6. CASE Last(w)
    <3>1. pc'[w] = "link" /\ at'[w] = 1
      BY <1>1, <1>5, <2>6, GotoMoves DEF Stat
    <3>2. \A k \in DOMAIN Outputs[w] : Prepared(w, k)'
      BY <1>1, <2>4, <2>6 DEF Last
    <3>3. \A k \in DOMAIN Outputs[w] : ~(k < 1)
      BY <1>1
    <3> QED
      BY <1>1, <2>1, <2>5, <3>1, <3>2, <3>3
      DEF Progress, Outcome, Before, Preparing, Undoing, Ending, Holds, Kept
  <2>7. CASE ~Last(w)
    <3>1. pc'[w] = "create" /\ at'[w] = at[w] + 1
      BY <1>1, <1>5, <2>7, GotoMoves DEF Stat
    <3>2. \A k \in DOMAIN Outputs[w] : k < at'[w] => Prepared(w, k)'
      BY <1>1, <2>4, <3>1
    <3> QED
      BY <1>1, <2>1, <2>5, <3>1, <3>2
      DEF Progress, Outcome, Before, Preparing, Undoing, Ending, Holds, Kept
  <2> QED BY <2>6, <2>7
<1>6. CASE Link(w)
  <2>1. /\ UNCHANGED <<temp, owner, touched, written, faulty, killed>>
        /\ pc[w] = "link"
        /\ result[w] = "none"
    BY <1>1, <1>6 DEF Link, Progress, Before
  <2>2. \A k \in DOMAIN Outputs[w] : Prepared(w, k) /\ Prepared(w, k)'
    BY <1>1, <2>1 DEF Progress, Prepared
  <2>3. CASE Occupied(w)
    <3>1. /\ output' = output /\ result'[w] = "failed" /\ at'[w] = 1
          /\ pc'[w] = IF at[w] = 2 THEN "undo" ELSE "clean"
      BY <1>1, <1>6, <2>3, RaiseMoves DEF Link, LinkFails
    <3>2. CASE at[w] = 2
      <4>1. DOMAIN Outputs[w] = 1..2
        BY <1>1, <3>2
      <4>2. ~Holds(w, 2)
        BY <1>1, <2>1, <3>2 DEF Outcome
      <4> QED
        BY <1>1, <2>1, <2>2, <3>1, <3>2, <4>1, <4>2
        DEF Progress, Outcome, Before, Preparing, Undoing, Ending, Holds
    <3>3. CASE at[w] # 2
      <4>1. \A k \in DOMAIN Outputs[w] : ~Holds(w, k)
        BY <1>1, <2>1, <3>3 DEF Outcome
      <4> QED
        BY <1>1, <2>1, <3>1, <3>3, <4>1
        DEF Progress, Outcome, Before, Preparing, Undoing, Ending, Holds
    <3> QED BY <3>2, <3>3
  <2>4. CASE ~Occupied(w)
    <3>1. Temporary(w) = <<w, at[w]>>
      BY <1>1, <2>2 DEF Prepared, Temporary, Out
    <3>2. output' = [output EXCEPT ![Out(w)] = Temporary(w)]
      BY <1>6, <2>4 DEF Link
    <3>3. output'[Outputs[w][at[w]]] = <<w, at[w]>>
      BY <1>1, <3>1, <3>2 DEF TypeOK, Out
    <3>4. \A k \in DOMAIN Outputs[w] : k # at[w] => output'[Outputs[w][k]] = output[Outputs[w][k]]
      BY <1>1, <3>2 DEF TypeOK, Out
    <3>5. \A k \in DOMAIN Outputs[w] :
             /\ k < at[w] \/ k = at[w] => Kept(w, k)'
             /\ k > at[w] => ~Holds(w, k)'
      <4> SUFFICES ASSUME NEW k \in DOMAIN Outputs[w]
                   PROVE  /\ k < at[w] \/ k = at[w] => Kept(w, k)'
                          /\ k > at[w] => ~Holds(w, k)'
        OBVIOUS
      <4>1. CASE k = at[w]
        BY <1>1, <3>3, <4>1 DEF Kept, Holds
      <4>2. CASE k # at[w]
        <5>1. /\ k < at[w] => Kept(w, k)
              /\ k > at[w] => ~Holds(w, k)
          BY <1>1, <2>1 DEF Outcome
        <5> QED
          BY <1>1, <2>1, <3>4, <4>2, <5>1 DEF Kept, Holds
      <4> QED BY <4>1, <4>2
    <3>6. CASE Last(w)
      <4>1. pc'[w] = "clean" /\ at'[w] = 1 /\ result'[w] = "ok"
        BY <1>1, <1>6, <2>4, <3>6, AdvanceMoves DEF Link, TypeOK
      <4>2. \A k \in DOMAIN Outputs[w] : Kept(w, k)'
        BY <1>1, <3>5, <3>6 DEF Last
      <4>3. \A k \in DOMAIN Outputs[w] : <<w, k>> \in written'
        BY <2>2 DEF Prepared
      <4> QED
        BY <1>1, <2>1, <4>1, <4>2, <4>3
        DEF Progress, Outcome, Before, Preparing, Undoing, Ending
    <3>7. CASE ~Last(w)
      <4>1. pc'[w] = "link" /\ at'[w] = at[w] + 1 /\ result'[w] = "none"
        BY <1>1, <1>6, <2>1, <2>4, <3>7, AdvanceMoves DEF Link
      <4>2. \A k \in DOMAIN Outputs[w] :
               /\ k < at'[w] => Kept(w, k)'
               /\ k >= at'[w] => ~Holds(w, k)'
        BY <1>1, <3>5, <4>1
      <4> QED
        BY <1>1, <2>1, <2>2, <4>1, <4>2
        DEF Progress, Outcome, Before, Preparing, Undoing, Ending
    <3> QED BY <3>6, <3>7
  <2> QED BY <2>3, <2>4
<1>7. CASE UndoStat(w)
  <2>1. Idle(w) /\ UNCHANGED <<faulty, killed, result>> /\ pc[w] = "undo" /\ result[w] = "failed"
    BY <1>1, <1>7 DEF UndoStat, Idle, Progress, Before, Undoing, Ending, TypeOK
  <2>2. Prepared(w, 1) /\ DOMAIN Outputs[w] = 1..2 /\ ~Holds(w, 2)
    BY <1>1, <2>1 DEF Progress, Outcome, Undoing
  <2>3. /\ observed'[w] = output[Outputs[w][1]]
        /\ at'[w] = 1
        /\ pc'[w] = IF IsOwned(observed'[w], w, 1) THEN "unlink" ELSE "clean"
    BY <1>1, <1>7, GotoMoves DEF UndoStat, TypeOK
  <2>4. IsOwned(observed'[w], w, 1) <=> Holds(w, 1)
    BY <1>1, <2>2, <2>3 DEF IsOwned, Prepared, Holds
  <2>5. Holds(w, 1) => Kept(w, 1)
    BY DEF Kept
  <2> QED
    BY <1>1, <2>1, <2>2, <2>3, <2>4, <2>5, IdleKeeps
    DEF Progress, Outcome, Before, Preparing, Undoing, Ending, Idle
<1>8. CASE UndoUnlink(w)
  <2>1. /\ UNCHANGED <<temp, owner, touched, written, faulty, killed, result>>
        /\ pc[w] = "unlink" /\ result[w] = "failed"
        /\ output' = [output EXCEPT ![Outputs[w][1]] = None]
    BY <1>1, <1>8 DEF UndoUnlink, Progress, Before, Undoing, Ending, TypeOK
  <2>2. DOMAIN Outputs[w] = 1..2 /\ ~Holds(w, 2)
    BY <1>1, <2>1 DEF Progress, Outcome, Undoing
  <2>3. pc'[w] = "clean"
    BY <1>1, <1>8, GotoMoves DEF UndoUnlink
  <2>4. \A k \in DOMAIN Outputs[w] : ~Holds(w, k)'
    BY <1>1, <2>1, <2>2 DEF Holds, TypeOK
  <2> QED
    BY <1>1, <2>1, <2>2, <2>3, <2>4
    DEF Progress, Outcome, Before, Preparing, Undoing, Ending
<1>9. CASE Clean(w)
  <2>1. /\ UNCHANGED <<output, owner, touched, written, faulty, killed, result>>
        /\ pc[w] = "clean"
    BY <1>9 DEF Clean
  <2>2. pc'[w] \in Ending
    BY <1>1, <1>9, AdvanceMoves DEF Clean, Ending
  <2> QED
    BY <1>1, <2>1, <2>2
    DEF Progress, Outcome, Before, Preparing, Undoing, Ending, Holds, Kept
<1>10. CASE SystemCallFails(w)
  <2>1. Idle(w) /\ killed' = killed /\ w \in faulty'
    BY <1>10 DEF SystemCallFails, Idle
  <2>2. result'[w] = "failed" /\ at'[w] = 1
    BY <1>1, <1>10, RaiseMoves DEF SystemCallFails, LinkFails
  <2>3. CASE pc[w] = "link" /\ at[w] = 2
    <3>1. pc'[w] = "undo"
      BY <1>1, <1>10, <2>3, RaiseMoves DEF SystemCallFails, LinkFails
    <3>2. DOMAIN Outputs[w] = 1..2
      BY <1>1, <2>3
    <3>3. ~Holds(w, 2)'
      <4>1. Outcome(w) /\ pc[w] = "link" /\ at[w] = 2 /\ 2 \in DOMAIN Outputs[w]
        BY <1>1, <2>3, <3>2
      <4>2. \A k \in DOMAIN Outputs[w] : k >= at[w] => ~Holds(w, k)
        BY <4>1 DEF Outcome
      <4>3. 2 >= at[w]
        BY <4>1
      <4>4. ~Holds(w, 2)
        BY <4>1, <4>2, <4>3
      <4> QED
        BY <2>1, <4>4 DEF Idle, Holds
    <3>4. \A k \in DOMAIN Outputs[w] : Prepared(w, k)'
      BY <1>1, <2>1, <2>3, IdleKeeps DEF Progress
    <3>5. Progress(w)'
      BY <1>1, <2>1, <2>2, <3>1, <3>2, <3>4
      DEF Progress, Before, Preparing, Undoing, Ending, Idle
    <3>6. Outcome(w)'
      BY <2>2, <3>1, <3>2, <3>3 DEF Outcome, Before, Undoing, Ending
    <3> QED
      BY <3>5, <3>6
  <2>4. CASE ~(pc[w] = "link" /\ at[w] = 2)
    <3>1. pc'[w] \in Ending
      BY <1>1, <1>10, <2>4, RaiseMoves DEF SystemCallFails, LinkFails, Ending
    <3> QED
      BY <1>1, <2>1, <2>2, <3>1
      DEF Progress, Outcome, Before, Preparing, Undoing, Ending, Idle
  <2> QED BY <2>3, <2>4
<1>11. CASE Killed(w)
  <2>1. Idle(w) /\ w \in killed' /\ faulty' = faulty
    BY <1>11 DEF Killed, Idle
  <2>2. result'[w] = "failed" /\ pc'[w] = "ended"
    BY <1>1, <1>11, RaiseMoves DEF Killed
  <2> QED
    BY <1>1, <2>1, <2>2
    DEF Progress, Outcome, Before, Preparing, Undoing, Ending, Idle
<1> QED
  BY <1>2, <1>3, <1>4, <1>5, <1>6, <1>7, <1>8, <1>9, <1>10, <1>11 DEF Invocation

-----------------------------------------------------------------------------
(* The inductive invariant holds throughout: every step of write_json_pair
   re-establishes it for its own invocation and leaves the others undisturbed. *)
THEOREM Invariance == Spec => []IInv
<1>1. Init => \A w \in Writer : Progress(w) /\ Outcome(w)
  <2> SUFFICES ASSUME Init, NEW w \in Writer PROVE Progress(w) /\ Outcome(w)
    OBVIOUS
  <2>1. \A k \in DOMAIN Outputs[w] : ~Holds(w, k) /\ owner[w][k] = None
    BY OutputFacts, NoneAssumption DEF NoneAssumption, Init, Holds, File
  <2> QED
    BY <2>1 DEF Init, Progress, Outcome, Before, Preparing, Undoing, Ending
<1>2. IInv /\ (TypeOK /\ Positions)' /\ [Next]_vars => IInv'
  <2> SUFFICES ASSUME IInv, [Next]_vars, NEW w \in Writer PROVE Progress(w)' /\ Outcome(w)'
    BY DEF IInv
  <2>1. Progress(w) /\ Outcome(w)
    BY DEF IInv
  <2>2. ASSUME NEW p \in Path, Elsewhere(p) PROVE Progress(w)' /\ Outcome(w)'
    BY <2>1, <2>2, ElsewhereDisturbsNobody, UndisturbedKeeps
  <2>3. ASSUME NEW v \in Writer, Invocation(v) PROVE Progress(w)' /\ Outcome(w)'
    <3>1. CASE v = w
      BY <2>3, <3>1, OwnStep
    <3>2. CASE v # w
      BY <2>1, <2>3, <3>2, InvocationDisturbsNobodyElse, UndisturbedKeeps
    <3> QED BY <3>1, <3>2
  <2>4. CASE UNCHANGED vars
    BY <2>1, <2>4 DEF vars, Progress, Outcome, Prepared, Holds, Kept
  <2> QED
    BY <2>2, <2>3, <2>4 DEF Next
<1> QED
  BY <1>1, <1>2, TypeCorrect, PTL DEF Spec, IInv

(* An invocation that succeeds has published every output completely, and only
   another program can take one away: neither a competitor nor its clean-up. *)
THEOREM SuccessComplete == Spec => []SuccessIsComplete
<1>1. IInv => SuccessIsComplete
  BY DEF IInv, Outcome, Kept, SuccessIsComplete
<1> QED
  BY <1>1, Invariance, PTL

(* An invocation that fails although no system call failed leaves nothing. *)
THEOREM FailureClean == Spec => []FailureLeavesNothing
<1>1. IInv => FailureLeavesNothing
  BY DEF IInv, Outcome, Ending, Ended, FailureLeavesNothing
<1> QED
  BY <1>1, Invariance, PTL
-----------------------------------------------------------------------------
(* Exactly one of the invocations that compete for a last output succeeds.
   While nothing fails and nobody else interferes, some invocation always has
   a claim that no rival can defeat without a better one, so that they cannot
   all give up in each other's favour. *)
Compete ==
    \A v, w \in Writer : Outputs[v][Len(Outputs[v])] = Outputs[w][Len(Outputs[w])]

Quiet == faulty = {} /\ killed = {} /\ touched = {}

HasTemp(w, k) == temp[PidOf[w]][Outputs[w][k]] = <<w, k>>

(* Every file at a name comes from an invocation that wants the name. *)
OfInvocations ==
    /\ \A p \in Path : output[p] # None =>
          \/ p \in touched
          \/ \E v \in Writer : \E k \in DOMAIN Outputs[v] :
                output[p] = <<v, k>> /\ Outputs[v][k] = p
    /\ \A q \in Pid, p \in Path : temp[q][p] # None =>
          \E v \in Writer : \E k \in DOMAIN Outputs[v] :
             temp[q][p] = <<v, k>> /\ PidOf[v] = q /\ Outputs[v][k] = p

(* Temporary files are created in order. *)
Reached(v) ==
    \A k \in DOMAIN Outputs[v] : HasTemp(v, k) /\ result[v] = "none" =>
        /\ pc[v] # "check"
        /\ pc[v] = "create" => k < at[v]
        /\ pc[v] \in {"write", "stat"} => k <= at[v]

(* An invocation that has a temporary file for its last output: only one that
   is further along can stop it. *)
Sure(x) ==
    \/ result[x] = "ok"
    \/ pc[x] = "link"
    \/ (pc[x] \in {"write", "stat"} /\ Last(x))

Holding(x) ==
    \/ Sure(x)
    \/ pc[x] \in {"write", "stat"}
    \/ pc[x] = "create" /\ at[x] = 2

SomeSure == \E x \in Writer : Sure(x)
SomeHolding == \E x \in Writer : Holding(x)
SomeOk == \E x \in Writer : result[x] = "ok"

(* Who gives up does so in favour of somebody. *)
Favoured(v) ==
    /\ result[v] = "failed" /\ (\E k \in DOMAIN Outputs[v] : HasTemp(v, k)) => SomeSure
    /\ result[v] = "failed" => SomeHolding
    /\ pc[v] \in Undoing => SomeOk

Race ==
    /\ OfInvocations
    /\ \A v \in Writer : Reached(v)
    /\ Quiet => \A v \in Writer : Favoured(v)

-----------------------------------------------------------------------------
(* What holds of an invocation wherever it is. *)
LEMMA InvocationFacts ==
    ASSUME IInv, NEW v \in Writer
    PROVE  /\ TypeOK /\ Progress(v) /\ Outcome(v)
           /\ at[v] \in DOMAIN Outputs[v] /\ at[v] \in 1..2 /\ Out(v) \in Path
           /\ DOMAIN Outputs[v] = 1..Len(Outputs[v]) /\ Len(Outputs[v]) \in 1..2
           /\ PidOf[v] \in Pid
           /\ \A k \in DOMAIN Outputs[v] :
                 k \in 1..2 /\ Outputs[v][k] \in Path /\ <<v, k>> # None
           /\ \A j, k \in DOMAIN Outputs[v] : Outputs[v][j] = Outputs[v][k] => j = k
  BY OutputFacts, NoneAssumption, PidsAssumption, OutputsAssumption
  DEF NoneAssumption, PidsAssumption, OutputsAssumption, File, IInv, Positions, TypeOK, Out

(* A step after which nothing has failed and nobody has interfered is one of
   the eight regular ones. *)
Regular(v) ==
    \/ SafeOutput(v) \/ Create(v) \/ WriteAll(v) \/ Stat(v)
    \/ Link(v) \/ UndoStat(v) \/ UndoUnlink(v) \/ Clean(v)

LEMMA QuietStep ==
    ASSUME NEW v \in Writer, Invocation(v), Quiet'
    PROVE  Regular(v) /\ Quiet
<1>1. ~SystemCallFails(v) /\ ~Killed(v)
  BY DEF Quiet, SystemCallFails, Killed
<1>2. Regular(v)
  BY <1>1 DEF Invocation, Regular
<1>3. UNCHANGED <<faulty, killed, touched>>
  BY <1>2 DEF Regular, SafeOutput, Create, WriteAll, Stat, Link, UndoStat, UndoUnlink, Clean
<1> QED
  BY <1>2, <1>3 DEF Quiet

(* A change of the file at one temporary name leaves the others alone. *)
LEMMA OneTempChanges ==
    ASSUME TypeOK, NEW q \in Pid, NEW p \in Path, NEW f,
           temp' = [temp EXCEPT ![q][p] = f], NEW s \in Pid, NEW r \in Path
    PROVE  temp'[s][r] = IF s = q /\ r = p THEN f ELSE temp[s][r]
  BY DEF TypeOK

(* Only an invocation itself creates its temporary files, one at a time. *)
LEMMA TempsAppear ==
    ASSUME IInv, NEW v \in Writer, Invocation(v), NEW w \in Writer,
           NEW k \in DOMAIN Outputs[w], HasTemp(w, k)'
    PROVE  \/ HasTemp(w, k)
           \/ w = v /\ Create(v) /\ Temporary(v) = None /\ k = at[v]
<1>1. CASE UNCHANGED temp
  BY <1>1 DEF HasTemp
<1>2. CASE Create(v) /\ Temporary(v) = None
  <2>1. temp' = [temp EXCEPT ![PidOf[v]][Out(v)] = <<v, at[v]>>]
    BY <1>2 DEF Create
  <2>2. HasTemp(w, k) \/ <<w, k>> = <<v, at[v]>>
    BY <2>1, InvocationFacts DEF HasTemp, TypeOK
  <2> QED BY <1>2, <2>2
<1>3. CASE Clean(v)
  <2>1. temp' = temp \/ temp' = [temp EXCEPT ![PidOf[v]][Out(v)] = None]
    BY <1>3 DEF Clean
  <2>2. ASSUME temp' = [temp EXCEPT ![PidOf[v]][Out(v)] = None] PROVE HasTemp(w, k)
    <3>1. temp'[PidOf[w]][Outputs[w][k]] \in {None, temp[PidOf[w]][Outputs[w][k]]}
      BY <2>2, InvocationFacts, OneTempChanges
    <3> QED BY <3>1, InvocationFacts DEF HasTemp
  <2> QED
    BY <1>1, <2>1, <2>2
<1>4. CASE ~(Create(v) /\ Temporary(v) = None) /\ ~Clean(v)
  BY <1>1, <1>4 DEF Invocation, SafeOutput, Create, WriteAll, Stat, Link, UndoStat, UndoUnlink,
                    SystemCallFails, Killed
<1> QED BY <1>2, <1>3, <1>4

(* Files stay those of invocations. *)
LEMMA FilesOfInvocations ==
    ASSUME IInv, OfInvocations, Next
    PROVE  OfInvocations'
<1>1. ASSUME NEW p \in Path, Elsewhere(p) PROVE OfInvocations'
  <2>1. /\ temp' = temp /\ touched' = touched \cup {p}
        /\ \A r \in Path : r # p => output'[r] = output[r]
    BY <1>1 DEF Elsewhere, IInv, TypeOK
  <2> QED BY <2>1 DEF OfInvocations
<1>2. ASSUME NEW v \in Writer, Invocation(v) PROVE OfInvocations'
  <2>0. touched' = touched
    BY <1>2 DEF Invocation, SafeOutput, Create, WriteAll, Stat, Link, UndoStat, UndoUnlink, Clean,
                SystemCallFails, Killed
  <2>1. ASSUME NEW p \in Path, output'[p] # None
        PROVE  \/ p \in touched'
               \/ \E u \in Writer : \E k \in DOMAIN Outputs[u] :
                     output'[p] = <<u, k>> /\ Outputs[u][k] = p
    <3>1. CASE output'[p] = output[p]
      BY <2>0, <2>1, <3>1 DEF OfInvocations
    <3>2. CASE Link(v) /\ ~Occupied(v)
      <4>1. output' = [output EXCEPT ![Out(v)] = Temporary(v)] /\ pc[v] = "link"
        BY <3>2 DEF Link
      <4>2. Temporary(v) = <<v, at[v]>>
        BY <4>1, InvocationFacts DEF Progress, Prepared, Temporary, Out
      <4>3. output'[p] = output[p] \/ (p = Out(v) /\ output'[p] = <<v, at[v]>>)
        BY <4>1, <4>2, InvocationFacts DEF TypeOK
      <4> QED BY <3>1, <4>3, InvocationFacts DEF Out
    <3>3. CASE UndoUnlink(v)
      <4>1. output' = [output EXCEPT ![Outputs[v][1]] = None]
        BY <3>3 DEF UndoUnlink
      <4>2. output'[p] = output[p]
        BY <2>1, <4>1 DEF IInv, TypeOK
      <4> QED BY <3>1, <4>2
    <3>4. CASE ~(Link(v) /\ ~Occupied(v)) /\ ~UndoUnlink(v)
      BY <1>2, <3>1, <3>4 DEF Invocation, SafeOutput, Create, WriteAll, Stat, Link, UndoStat,
                              Clean, SystemCallFails, Killed
    <3> QED BY <3>2, <3>3, <3>4
  <2>2. ASSUME NEW q \in Pid, NEW p \in Path, temp'[q][p] # None
        PROVE  \E u \in Writer : \E k \in DOMAIN Outputs[u] :
                  temp'[q][p] = <<u, k>> /\ PidOf[u] = q /\ Outputs[u][k] = p
    <3>1. CASE temp'[q][p] = temp[q][p]
      BY <2>2, <3>1 DEF OfInvocations
    <3>2. CASE Create(v) /\ Temporary(v) = None
      <4>1. temp' = [temp EXCEPT ![PidOf[v]][Out(v)] = <<v, at[v]>>]
        BY <3>2 DEF Create
      <4>2. \/ temp'[q][p] = temp[q][p]
            \/ q = PidOf[v] /\ p = Out(v) /\ temp'[q][p] = <<v, at[v]>>
        BY <4>1, InvocationFacts DEF TypeOK
      <4> QED BY <3>1, <4>2, InvocationFacts DEF Out
    <3>3. CASE Clean(v)
      <4>1. temp' = temp \/ temp' = [temp EXCEPT ![PidOf[v]][Out(v)] = None]
        BY <3>3 DEF Clean
      <4>2. ASSUME temp' = [temp EXCEPT ![PidOf[v]][Out(v)] = None]
            PROVE  temp'[q][p] = temp[q][p]
        <5>1. TypeOK /\ PidOf[v] \in Pid /\ Out(v) \in Path
          BY InvocationFacts
        <5>2. temp'[q][p] = IF q = PidOf[v] /\ p = Out(v) THEN None ELSE temp[q][p]
          <6> DEFINE o == Out(v)
                     d == PidOf[v]
          <6>1. TypeOK /\ d \in Pid /\ o \in Path /\ temp' = [temp EXCEPT ![d][o] = None]
            BY <4>2, <5>1
          <6> HIDE DEF o, d
          <6>2. temp'[q][p] = IF q = d /\ p = o THEN None ELSE temp[q][p]
            BY <6>1 DEF TypeOK
          <6> QED BY <6>2 DEF o, d
        <5> QED BY <2>2, <5>2
      <4> QED BY <3>1, <4>1, <4>2
    <3>4. CASE ~(Create(v) /\ Temporary(v) = None) /\ ~Clean(v)
      BY <1>2, <3>1, <3>4 DEF Invocation, SafeOutput, Create, WriteAll, Stat, Link, UndoStat,
                              UndoUnlink, SystemCallFails, Killed
    <3> QED BY <3>2, <3>3, <3>4
  <2> QED BY <2>1, <2>2 DEF OfInvocations
<1> QED BY <1>1, <1>2 DEF Next

(* An invocation keeps creating its temporary files in order. *)
LEMMA ReachedKept ==
    ASSUME IInv, NEW v \in Writer, Invocation(v), Reached(v)
    PROVE  Reached(v)'
<1> SUFFICES ASSUME NEW k \in DOMAIN Outputs[v], HasTemp(v, k)', result'[v] = "none"
             PROVE  /\ pc'[v] # "check"
                    /\ pc'[v] = "create" => k < at'[v]
                    /\ pc'[v] \in {"write", "stat"} => k <= at'[v]
  BY DEF Reached
<1>1. HasTemp(v, k) \/ (Create(v) /\ Temporary(v) = None /\ k = at[v])
  BY TempsAppear
<1>2. k \in 1..2 /\ at[v] \in 1..2 /\ TypeOK /\ Progress(v)
  BY InvocationFacts
<1>3. HasTemp(v, k) /\ pc[v] \in Before =>
        /\ pc[v] # "check"
        /\ pc[v] = "create" => k < at[v]
        /\ pc[v] \in {"write", "stat"} => k <= at[v]
  BY <1>2 DEF Reached, Progress
<1>4. CASE SafeOutput(v)
  BY <1>1, <1>3, <1>4 DEF SafeOutput, Create, Before
<1>5. CASE Create(v)
  <2>1. CASE Temporary(v) # None
    BY <1>2, <1>5, <2>1, RaiseMoves DEF Create
  <2>2. CASE Temporary(v) = None
    <3>1. pc'[v] = "write" /\ at'[v] = at[v] /\ pc[v] = "create"
      BY <1>2, <1>5, <2>2, GotoMoves DEF Create
    <3> QED BY <1>1, <1>2, <1>3, <3>1 DEF Before
  <2> QED BY <2>1, <2>2
<1>6. CASE WriteAll(v)
  <2>1. pc'[v] = "stat" /\ at'[v] = at[v] /\ pc[v] = "write"
    BY <1>2, <1>6, GotoMoves DEF WriteAll
  <2> QED BY <1>1, <1>3, <1>6, <2>1 DEF Before, WriteAll, Create
<1>7. CASE Stat(v)
  <2>1. pc[v] = "stat"
    BY <1>7 DEF Stat
  <2>2. HasTemp(v, k) /\ k <= at[v]
    BY <1>1, <1>3, <2>1 DEF Before, Create
  <2>3. pc'[v] = "link" \/ (pc'[v] = "create" /\ at'[v] = at[v] + 1)
    BY <1>2, <1>7, GotoMoves DEF Stat
  <2> QED BY <1>2, <2>2, <2>3
<1>8. CASE Link(v)
  <2>1. CASE Occupied(v)
    BY <1>2, <1>8, <2>1, RaiseMoves DEF Link, LinkFails
  <2>2. CASE ~Occupied(v)
    <3>1. Advance(v, "clean") /\ pc[v] = "link"
      BY <1>8, <2>2 DEF Link
    <3>2. pc'[v] \in {"link", "clean"}
      BY <1>2, <3>1, AdvanceMoves
    <3> QED BY <3>2
  <2> QED BY <2>1, <2>2
<1>9. CASE UndoStat(v)
  BY <1>2, <1>9, GotoMoves DEF UndoStat, Progress, Before
<1>10. CASE UndoUnlink(v)
  BY <1>2, <1>10, GotoMoves DEF UndoUnlink, Progress, Before
<1>11. CASE Clean(v)
  BY <1>2, <1>11 DEF Clean, Progress, Before
<1>12. CASE SystemCallFails(v)
  BY <1>2, <1>12, RaiseMoves DEF SystemCallFails, LinkFails
<1>13. CASE Killed(v)
  BY <1>2, <1>13, RaiseMoves DEF Killed
<1> QED
  BY <1>4, <1>5, <1>6, <1>7, <1>8, <1>9, <1>10, <1>11, <1>12, <1>13 DEF Invocation
-----------------------------------------------------------------------------
(* Whoever finds an output path taken, while nothing fails, finds the file of an
   invocation that has succeeded, is linking, or withdraws. *)
LEMMA Holder ==
    ASSUME IInv, OfInvocations, Quiet, NEW p \in Path, output[p] # None
    PROVE  \E u \in Writer : \E k \in DOMAIN Outputs[u] :
              /\ Outputs[u][k] = p /\ Holds(u, k)
              /\ \/ result[u] = "ok"
                 \/ pc[u] = "link" /\ k < at[u]
                 \/ pc[u] \in Undoing /\ k = 1
<1>1. PICK u \in Writer : \E k \in DOMAIN Outputs[u] : output[p] = <<u, k>> /\ Outputs[u][k] = p
  BY DEF OfInvocations, Quiet
<1>2. PICK k \in DOMAIN Outputs[u] : output[p] = <<u, k>> /\ Outputs[u][k] = p
  BY <1>1
<1>3. Holds(u, k)
  BY <1>2 DEF Holds
<1>4. /\ pc[u] \in Steps /\ result[u] \in {"none", "ok", "failed"}
      /\ Progress(u) /\ Outcome(u) /\ at[u] \in 1..2 /\ k \in 1..2
  BY InvocationFacts DEF TypeOK
<1>5. /\ pc[u] \notin Before \ {"link"}
      /\ pc[u] = "link" => ~(k >= at[u])
      /\ pc[u] \in Undoing => k = 1
      /\ pc[u] \in Ending => result[u] # "failed"
  BY <1>3, <1>4 DEF Outcome, Quiet
<1>6. pc[u] \in Ending => result[u] = "ok"
  BY <1>4, <1>5 DEF Progress, Before, Ending
<1> QED
  BY <1>2, <1>3, <1>4, <1>5, <1>6 DEF Steps, Before, Undoing, Ending

(* The last output of competing invocations is only taken by a success. *)
LEMMA LastIsTaken ==
    ASSUME Compete, IInv, OfInvocations, Quiet, NEW v \in Writer, Last(v), Occupied(v)
    PROVE  SomeOk
<1>1. PICK u \in Writer : \E k \in DOMAIN Outputs[u] :
         /\ Outputs[u][k] = Out(v) /\ Holds(u, k)
         /\ \/ result[u] = "ok"
            \/ pc[u] = "link" /\ k < at[u]
            \/ pc[u] \in Undoing /\ k = 1
  BY Holder, InvocationFacts DEF Occupied
<1>2. PICK k \in DOMAIN Outputs[u] :
         /\ Outputs[u][k] = Out(v) /\ Holds(u, k)
         /\ \/ result[u] = "ok"
            \/ pc[u] = "link" /\ k < at[u]
            \/ pc[u] \in Undoing /\ k = 1
  BY <1>1
<1>3. Out(v) = Outputs[u][Len(Outputs[u])]
  BY DEF Compete, Last, Out
<1>4. Len(Outputs[u]) \in DOMAIN Outputs[u] /\ at[u] \in DOMAIN Outputs[u]
  BY InvocationFacts
<1>5. k = Len(Outputs[u])
  BY <1>2, <1>3, <1>4, InvocationFacts
<1>6. ~(pc[u] = "link" /\ k < at[u])
  BY <1>4, <1>5, InvocationFacts
<1>7. ~(pc[u] \in Undoing /\ k = 1)
  <2> DEFINE n == Len(Outputs[u])
  <2>1. pc[u] \in Undoing => 1..n = 1..2
    BY InvocationFacts DEF Progress
  <2>2. n \in 1..2 /\ k = n
    BY <1>5, InvocationFacts
  <2> HIDE DEF n
  <2> QED BY <2>1, <2>2
<1> QED
  BY <1>2, <1>6, <1>7 DEF SomeOk

(* Whoever finds an output path taken gives way to somebody who is sure. *)
LEMMA RivalOutput ==
    ASSUME IInv, Race, Quiet, NEW v \in Writer, result[v] = "none", Occupied(v)
    PROVE  \E x \in Writer \ {v} : Sure(x)
<1>1. PICK u \in Writer : \E k \in DOMAIN Outputs[u] :
         /\ Outputs[u][k] = Out(v) /\ Holds(u, k)
         /\ \/ result[u] = "ok"
            \/ pc[u] = "link" /\ k < at[u]
            \/ pc[u] \in Undoing /\ k = 1
  BY Holder, InvocationFacts DEF Occupied, Race
<1>2. PICK k \in DOMAIN Outputs[u] :
         /\ Outputs[u][k] = Out(v) /\ Holds(u, k)
         /\ \/ result[u] = "ok"
            \/ pc[u] = "link" /\ k < at[u]
            \/ pc[u] \in Undoing /\ k = 1
  BY <1>1
<1>3. CASE result[u] = "ok"
  BY <1>3 DEF Sure
<1>4. CASE pc[u] = "link" /\ k < at[u]
  <2>1. u # v
    <3>1. SUFFICES ASSUME u = v PROVE FALSE
      OBVIOUS
    <3>2. k = at[v]
      BY <1>2, <3>1, InvocationFacts DEF Out
    <3> QED BY <1>4, <3>1, <3>2, InvocationFacts
  <2> QED BY <1>4, <2>1 DEF Sure
<1>5. CASE pc[u] \in Undoing
  <2>1. SomeOk
    BY <1>5 DEF Race, Favoured
  <2> QED BY <2>1 DEF SomeOk, Sure
<1> QED BY <1>2, <1>3, <1>4, <1>5

(* Whoever finds a temporary name taken gives way to somebody who holds one,
   and at its last output to somebody who is sure. *)
LEMMA RivalTemp ==
    ASSUME Compete, IInv, Race, Quiet, NEW v \in Writer, pc[v] = "create", Temporary(v) # None
    PROVE  /\ \E x \in Writer \ {v} : Holding(x)
           /\ Last(v) => \E x \in Writer \ {v} : Sure(x)
<1>1. PICK u \in Writer : \E k \in DOMAIN Outputs[u] :
         Temporary(v) = <<u, k>> /\ PidOf[u] = PidOf[v] /\ Outputs[u][k] = Out(v)
  BY InvocationFacts DEF Race, OfInvocations, Temporary
<1>2. PICK k \in DOMAIN Outputs[u] :
         Temporary(v) = <<u, k>> /\ PidOf[u] = PidOf[v] /\ Outputs[u][k] = Out(v)
  BY <1>1
<1>3. HasTemp(u, k)
  BY <1>2 DEF HasTemp, Temporary
<1>4. /\ pc[u] \in Steps /\ result[u] \in {"none", "ok", "failed"} /\ result[v] = "none"
      /\ at[u] \in DOMAIN Outputs[u] /\ at[u] \in 1..2 /\ k \in 1..2 /\ at[v] \in 1..2
      /\ DOMAIN Outputs[u] = 1..Len(Outputs[u]) /\ Len(Outputs[u]) \in 1..2
  BY InvocationFacts DEF TypeOK, Progress, Before
<1>5. Last(v) => k = Len(Outputs[u])
  <2>1. Last(v) => Out(v) = Outputs[u][Len(Outputs[u])]
    BY DEF Compete, Last, Out
  <2> QED BY <1>2, <1>4, <2>1, InvocationFacts
<1>6. result[u] = "none" =>
        /\ pc[u] # "check"
        /\ pc[u] = "create" => k < at[u]
        /\ pc[u] \in {"write", "stat"} => k <= at[u]
  BY <1>3 DEF Race, Reached
<1>7. u # v
  <2>1. SUFFICES ASSUME u = v PROVE FALSE
    OBVIOUS
  <2>2. k = at[v]
    BY <1>2, <2>1, InvocationFacts DEF Out
  <2> QED BY <1>4, <1>6, <2>1, <2>2
<1>8. CASE result[u] = "ok"
  BY <1>7, <1>8 DEF Sure, Holding
<1>9. CASE result[u] = "failed"
  <2>1. SomeSure
    BY <1>3, <1>9 DEF Race, Favoured
  <2>2. ~Sure(v)
    BY <1>4 DEF Sure
  <2> QED BY <2>1, <2>2 DEF SomeSure, Holding
<1>10. CASE result[u] = "none"
  <2>1. pc[u] \in {"create", "write", "stat", "link"}
    BY <1>6, <1>10, InvocationFacts DEF Progress, Before
  <2>2. CASE pc[u] = "create"
    <3>1. at[u] = 2 /\ ~Last(v)
      BY <1>4, <1>5, <1>6, <1>10, <2>2
    <3> QED BY <1>7, <2>2, <3>1 DEF Holding
  <2>3. CASE pc[u] \in {"write", "stat"}
    <3>1. Last(v) => Last(u)
      BY <1>4, <1>5, <1>6, <1>10, <2>3 DEF Last
    <3> QED BY <1>7, <2>3, <3>1 DEF Holding, Sure
  <2>4. CASE pc[u] = "link"
    BY <1>7, <2>4 DEF Holding, Sure
  <2> QED BY <2>1, <2>2, <2>3, <2>4
<1> QED BY <1>4, <1>8, <1>9, <1>10

-----------------------------------------------------------------------------
(* An invocation keeps its claim while others take steps. *)
LEMMA ClaimsStand ==
    ASSUME IInv, NEW v \in Writer, Invocation(v), NEW x \in Writer, x # v
    PROVE  /\ result'[x] = result[x] /\ pc'[x] = pc[x]
           /\ Sure(x)' <=> Sure(x)
           /\ Holding(x)' <=> Holding(x)
<1>1. pc'[x] = pc[x] /\ at'[x] = at[x] /\ result'[x] = result[x]
  BY InvocationDisturbsNobodyElse DEF Undisturbed
<1> QED BY <1>1 DEF Sure, Holding, Last

(* What its own step does to an invocation that has not ended: it goes on, or
   gives up because a name is taken. *)
LEMMA StepOrGiveUp ==
    ASSUME IInv, NEW v \in Writer, Regular(v), result[v] = "none"
    PROVE  \/ /\ result'[v] \in {"none", "ok"} /\ pc'[v] \notin Undoing
              /\ (Sure(v) => Sure(v)') /\ (Holding(v) => Holding(v)')
           \/ result'[v] = "failed" /\ pc'[v] \notin Undoing /\ SafeOutput(v) /\ Occupied(v)
           \/ result'[v] = "failed" /\ pc'[v] \notin Undoing /\ Create(v) /\ Temporary(v) # None
              /\ temp' = temp
           \/ result'[v] = "failed" /\ Link(v) /\ Occupied(v) /\ (pc'[v] \in Undoing => at[v] = 2)
<1>1. /\ TypeOK /\ pc[v] \in Before /\ at[v] \in 1..2 /\ Len(Outputs[v]) \in 1..2
      /\ at[v] \in DOMAIN Outputs[v] /\ DOMAIN Outputs[v] = 1..Len(Outputs[v])
  BY InvocationFacts DEF Progress
<1> USE DEF Undoing, Before
<1>2. CASE SafeOutput(v)
  <2>1. CASE Occupied(v)
    BY <1>1, <1>2, <2>1, GotoMoves DEF SafeOutput, TypeOK
  <2>2. CASE ~Occupied(v)
    <3>1. /\ Advance(v, "create") /\ result' = result /\ pc[v] = "check"
      BY <1>2, <2>2 DEF SafeOutput
    <3>2. pc'[v] \in {"check", "create"}
      BY <1>1, <3>1, AdvanceMoves
    <3> QED BY <3>1, <3>2 DEF Sure, Holding
  <2> QED BY <2>1, <2>2
<1>3. CASE Create(v)
  <2>1. CASE Temporary(v) # None
    BY <1>1, <1>3, <2>1, RaiseMoves DEF Create
  <2>2. CASE Temporary(v) = None
    <3>1. pc'[v] = "write" /\ at'[v] = at[v] /\ pc[v] = "create" /\ result' = result
      BY <1>1, <1>3, <2>2, GotoMoves DEF Create
    <3> QED BY <3>1 DEF Sure, Holding
  <2> QED BY <2>1, <2>2
<1>4. CASE WriteAll(v)
  <2>1. pc'[v] = "stat" /\ at'[v] = at[v] /\ pc[v] = "write" /\ result' = result
    BY <1>1, <1>4, GotoMoves DEF WriteAll
  <2> QED BY <2>1 DEF Sure, Holding, Last
<1>5. CASE Stat(v)
  <2>1. pc[v] = "stat" /\ result' = result
    BY <1>5 DEF Stat
  <2>2. CASE Last(v)
    <3>1. pc'[v] = "link"
      BY <1>1, <1>5, <2>2, GotoMoves DEF Stat
    <3> QED BY <2>1, <3>1 DEF Sure, Holding
  <2>3. CASE ~Last(v)
    <3>1. pc'[v] = "create" /\ at'[v] = at[v] + 1
      BY <1>1, <1>5, <2>3, GotoMoves DEF Stat
    <3>2. at'[v] = 2
      <4> DEFINE a == at[v]
                 n == Len(Outputs[v])
      <4>1. a \in 1..n /\ n \in 1..2 /\ a # n
        BY <1>1, <2>3 DEF Last
      <4>2. at'[v] = a + 1
        BY <3>1
      <4> HIDE DEF a, n
      <4> QED BY <4>1, <4>2
    <3> QED BY <2>1, <2>3, <3>1, <3>2 DEF Sure, Holding
  <2> QED BY <2>2, <2>3
<1>6. CASE Link(v)
  <2>1. CASE Occupied(v)
    BY <1>1, <1>6, <2>1, RaiseMoves DEF Link, LinkFails
  <2>2. CASE ~Occupied(v)
    <3>1. Advance(v, "clean") /\ pc[v] = "link"
      BY <1>6, <2>2 DEF Link
    <3>2. CASE Last(v)
      <4>1. pc'[v] = "clean" /\ result'[v] = "ok"
        BY <1>1, <1>6, <2>2, <3>1, <3>2, AdvanceMoves DEF Link, TypeOK
      <4> QED BY <4>1 DEF Sure, Holding
    <3>3. CASE ~Last(v)
      <4>1. pc'[v] = "link" /\ result'[v] = "none"
        BY <1>1, <1>6, <2>2, <3>1, <3>3, AdvanceMoves DEF Link
      <4> QED BY <4>1 DEF Sure, Holding
    <3> QED BY <3>2, <3>3
  <2> QED BY <2>1, <2>2
<1>7. ~UndoStat(v) /\ ~UndoUnlink(v) /\ ~Clean(v)
  BY <1>1 DEF UndoStat, UndoUnlink, Clean
<1> QED
  BY <1>2, <1>3, <1>4, <1>5, <1>6, <1>7 DEF Regular

(* An invocation that has succeeded or failed stays so. *)
LEMMA ResultStands ==
    ASSUME IInv, NEW v \in Writer, Regular(v), result[v] # "none"
    PROVE  result'[v] = result[v] /\ ~Create(v) /\ (pc'[v] \in Undoing => pc[v] \in Undoing)
<1>1. TypeOK /\ pc[v] \notin Before
  BY InvocationFacts DEF Progress
<1>2. UndoStat(v) \/ UndoUnlink(v) \/ Clean(v)
  BY <1>1 DEF Regular, SafeOutput, Create, WriteAll, Stat, Link, Before
<1>3. result' = result
  BY <1>2 DEF UndoStat, UndoUnlink, Clean
<1>4. ~Create(v)
  BY <1>1 DEF Create, Before
<1>5. CASE UndoStat(v)
  BY <1>3, <1>4, <1>5 DEF UndoStat, Undoing
<1>6. CASE UndoUnlink(v)
  BY <1>3, <1>4, <1>6 DEF UndoUnlink, Undoing
<1>7. CASE Clean(v)
  <2>1. pc'[v] \in {"clean", "ended"}
    BY <1>1, <1>7, AdvanceMoves DEF Clean
  <2> QED BY <1>3, <1>4, <2>1 DEF Undoing
<1> QED BY <1>2, <1>5, <1>6, <1>7
-----------------------------------------------------------------------------
(* After a step somebody still has a claim if somebody had one before: the
   invocation that takes it only gives up in favour of another. *)
LEMMA ClaimsPass ==
    ASSUME Compete, IInv, Race, NEW v \in Writer, Invocation(v), Quiet'
    PROVE  /\ SomeSure => SomeSure'
           /\ SomeHolding => SomeHolding'
           /\ SomeOk => SomeOk'
<1>1. Regular(v) /\ Quiet
  BY QuietStep
<1>2. ASSUME NEW x \in Writer \ {v}
      PROVE  /\ result'[x] = result[x] /\ (Sure(x) <=> Sure(x)') /\ (Holding(x) <=> Holding(x)')
  BY ClaimsStand
<1>3. result[v] # "none" => result'[v] = result[v]
  BY <1>1, ResultStands
<1>4. /\ Sure(v) => SomeSure'
      /\ Holding(v) => SomeHolding'
  <2>1. CASE result[v] = "none"
    <3>1. CASE result'[v] \in {"none", "ok"}
      <4>1. (Sure(v) => Sure(v)') /\ (Holding(v) => Holding(v)')
        BY <1>1, <2>1, <3>1, StepOrGiveUp
      <4> QED BY <4>1 DEF SomeSure, SomeHolding
    <3>2. CASE (SafeOutput(v) \/ Link(v)) /\ Occupied(v)
      <4>1. PICK x \in Writer \ {v} : Sure(x)
        BY <1>1, <2>1, <3>2, RivalOutput
      <4>2. Sure(x)' /\ Holding(x)'
        BY <1>2, <4>1 DEF Holding
      <4> QED BY <4>2 DEF SomeSure, SomeHolding
    <3>3. CASE Create(v) /\ Temporary(v) # None
      <4>1. pc[v] = "create"
        BY <3>3 DEF Create
      <4>2. ~Sure(v)
        BY <2>1, <4>1 DEF Sure
      <4>3. PICK x \in Writer \ {v} : Holding(x)
        BY <1>1, <3>3, <4>1, RivalTemp
      <4>4. Holding(x)'
        BY <1>2, <4>3
      <4> QED BY <4>2, <4>4 DEF SomeHolding
    <3> QED BY <1>1, <2>1, <3>1, <3>2, <3>3, StepOrGiveUp
  <2>2. CASE result[v] = "ok"
    BY <1>3, <2>2 DEF Sure, Holding, SomeSure, SomeHolding
  <2>3. CASE result[v] = "failed"
    <3>1. pc[v] \notin Before
      BY <2>3, InvocationFacts DEF Progress
    <3> QED BY <2>3, <3>1 DEF Sure, Holding, Before
  <2> QED BY <2>1, <2>2, <2>3, InvocationFacts DEF TypeOK
<1>5. SomeSure => SomeSure'
  BY <1>2, <1>4 DEF SomeSure
<1>6. SomeHolding => SomeHolding'
  BY <1>2, <1>4 DEF SomeHolding
<1>7. SomeOk => SomeOk'
  BY <1>2, <1>3 DEF SomeOk
<1> QED BY <1>5, <1>6, <1>7

(* Who gives up in a step does so in favour of somebody else. *)
LEMMA GivesUpFairly ==
    ASSUME Compete, IInv, Race, NEW v \in Writer, Invocation(v), Quiet', result[v] = "none"
    PROVE  Favoured(v)'
<1>1. Regular(v) /\ Quiet
  BY QuietStep
<1>2. ASSUME NEW x \in Writer \ {v}
      PROVE  /\ result'[x] = result[x] /\ (Sure(x) <=> Sure(x)') /\ (Holding(x) <=> Holding(x)')
  BY ClaimsStand
<1>3. CASE result'[v] # "failed"
  <2>1. pc'[v] \notin Undoing
    BY <1>1, <1>3, StepOrGiveUp
  <2> QED BY <1>3, <2>1 DEF Favoured
<1>4. CASE (SafeOutput(v) \/ Link(v)) /\ Occupied(v)
  <2>1. PICK x \in Writer \ {v} : Sure(x)
    BY <1>1, <1>4, RivalOutput
  <2>2. SomeSure' /\ SomeHolding'
    BY <1>2, <2>1 DEF Holding, SomeSure, SomeHolding
  <2>3. pc'[v] \in Undoing => SomeOk
    <3>1. SUFFICES ASSUME pc'[v] \in Undoing PROVE SomeOk
      OBVIOUS
    <3>2. pc'[v] \in Undoing => at[v] = 2
      <4>1. SafeOutput(v) => ~Create(v) /\ ~Link(v)
        BY DEF SafeOutput, Create, Link
      <4>2. Link(v) => ~SafeOutput(v) /\ ~Create(v)
        BY DEF SafeOutput, Create, Link
      <4> QED BY <1>1, <1>4, <4>1, <4>2, StepOrGiveUp
    <3>3. Last(v)
      <4> DEFINE n == Len(Outputs[v])
                 a == at[v]
      <4>1. n \in 1..2 /\ a \in 1..n /\ a = 2
        BY <3>1, <3>2, InvocationFacts
      <4>2. a = n => Last(v)
        BY DEF Last
      <4> HIDE DEF n, a
      <4> QED BY <4>1, <4>2
    <3> QED BY <1>1, <1>4, <3>3, LastIsTaken DEF Race
  <2>4. SomeOk => SomeOk'
    BY <1>1, ClaimsPass
  <2> QED BY <2>2, <2>3, <2>4 DEF Favoured
<1>5. CASE Create(v) /\ Temporary(v) # None
  <2>1. pc[v] = "create"
    BY <1>5 DEF Create
  <2>2. PICK x \in Writer \ {v} : Holding(x)
    BY <1>1, <1>5, <2>1, RivalTemp
  <2>3. SomeHolding'
    BY <1>2, <2>2 DEF SomeHolding
  <2>4. ASSUME NEW k \in DOMAIN Outputs[v], HasTemp(v, k)' PROVE SomeSure'
    <3>1. HasTemp(v, k)
      BY <1>5, <2>4, TempsAppear
    <3>2. k < at[v]
      BY <2>1, <3>1 DEF Race, Reached
    <3>3. Last(v)
      <4> DEFINE n == Len(Outputs[v])
                 a == at[v]
      <4>1. n \in 1..2 /\ a \in 1..n /\ k < a /\ k \in 1..2
        BY <3>2, InvocationFacts
      <4>2. a = n => Last(v)
        BY DEF Last
      <4> HIDE DEF n, a
      <4> QED BY <4>1, <4>2
    <3>4. PICK y \in Writer \ {v} : Sure(y)
      BY <1>1, <1>5, <2>1, <3>3, RivalTemp
    <3> QED BY <1>2, <3>4 DEF SomeSure
  <2>5. pc'[v] \notin Undoing
    <3>1. ~SafeOutput(v) /\ ~Link(v)
      BY <1>5 DEF Create, SafeOutput, Link
    <3> QED BY <1>1, <3>1, StepOrGiveUp
  <2> QED BY <2>3, <2>4, <2>5 DEF Favoured
<1> QED
  BY <1>1, <1>3, <1>4, <1>5, StepOrGiveUp

(* What holds of everybody who has given up stays so. *)
LEMMA FavouredStays ==
    ASSUME Compete, IInv, Race, NEW v \in Writer, Invocation(v), Quiet', NEW w \in Writer
    PROVE  Favoured(w)'
<1>1. Regular(v) /\ Quiet
  BY QuietStep
<1>2. CASE w = v /\ result[v] = "none"
  BY <1>2, GivesUpFairly
<1>3. CASE w # v \/ result[v] # "none"
  <2>1. /\ result'[w] = result[w]
        /\ pc'[w] \in Undoing => pc[w] \in Undoing
        /\ ~(w = v /\ Create(v))
    BY <1>1, <1>3, ClaimsStand, ResultStands
  <2>2. \A k \in DOMAIN Outputs[w] : HasTemp(w, k)' => HasTemp(w, k)
    BY <2>1, TempsAppear
  <2>3. Favoured(w)
    BY <1>1 DEF Race
  <2>4. (SomeSure => SomeSure') /\ (SomeHolding => SomeHolding') /\ (SomeOk => SomeOk')
    BY ClaimsPass
  <2>5. result'[w] = "failed" /\ (\E k \in DOMAIN Outputs[w] : HasTemp(w, k)') => SomeSure'
    BY <2>1, <2>2, <2>3, <2>4 DEF Favoured
  <2>6. (result'[w] = "failed" => SomeHolding') /\ (pc'[w] \in Undoing => SomeOk')
    BY <2>1, <2>3, <2>4 DEF Favoured
  <2> QED BY <2>5, <2>6 DEF Favoured
<1> QED BY <1>2, <1>3

-----------------------------------------------------------------------------
(* The race invariant holds throughout when all compete for one last output. *)
THEOREM RaceHolds == Compete => (Spec => []Race)
<1> SUFFICES ASSUME Compete PROVE Spec => []Race
  OBVIOUS
<1>1. Init => Race
  <2> SUFFICES ASSUME Init PROVE Race
    OBVIOUS
  <2>1. OfInvocations
    BY DEF Init, OfInvocations
  <2>2. ASSUME NEW v \in Writer
        PROVE  Reached(v) /\ Favoured(v)
    <3>1. \A k \in DOMAIN Outputs[v] : ~HasTemp(v, k)
      <4>1. \A k \in DOMAIN Outputs[v] : /\ Outputs[v][k] \in Path /\ PidOf[v] \in Pid
                                         /\ <<v, k>> # None
        BY OutputFacts, NoneAssumption, PidsAssumption DEF NoneAssumption, PidsAssumption, File
      <4> QED BY <4>1 DEF Init, HasTemp
    <3>2. result[v] = "none" /\ pc[v] = "check"
      BY DEF Init
    <3> QED BY <3>1, <3>2 DEF Reached, Favoured, Undoing
  <2> QED BY <2>1, <2>2 DEF Race
<1>2. IInv /\ Race /\ [Next]_vars => Race'
  <2> SUFFICES ASSUME IInv, Race, [Next]_vars PROVE Race'
    OBVIOUS
  <2>1. CASE UNCHANGED vars
    BY <2>1 DEF vars, Race, OfInvocations, Reached, Quiet, Favoured, SomeSure, SomeHolding, SomeOk,
                Holding, Sure, Last, HasTemp
  <2>2. ASSUME NEW p \in Path, Elsewhere(p) PROVE Race'
    <3>1. UNCHANGED <<temp, pc, at, result>> /\ ~Quiet'
      BY <2>2 DEF Elsewhere, Quiet
    <3>2. OfInvocations'
      BY <2>2, FilesOfInvocations DEF Race, Next
    <3>3. \A v \in Writer : Reached(v)'
      BY <3>1 DEF Race, Reached, HasTemp
    <3> QED BY <3>1, <3>2, <3>3 DEF Race
  <2>3. ASSUME NEW v \in Writer, Invocation(v) PROVE Race'
    <3>1. OfInvocations'
      BY <2>3, FilesOfInvocations DEF Race, Next
    <3>2. ASSUME NEW w \in Writer PROVE Reached(w)'
      <4>1. CASE w = v
        BY <2>3, <4>1, ReachedKept DEF Race
      <4>2. CASE w # v
        <5>1. pc'[w] = pc[w] /\ at'[w] = at[w] /\ result'[w] = result[w]
          BY <2>3, <4>2, InvocationDisturbsNobodyElse DEF Undisturbed
        <5>2. \A k \in DOMAIN Outputs[w] : HasTemp(w, k)' => HasTemp(w, k)
          BY <2>3, <4>2, TempsAppear
        <5> QED BY <5>1, <5>2 DEF Race, Reached
      <4> QED BY <4>1, <4>2
    <3>3. ASSUME Quiet', NEW w \in Writer PROVE Favoured(w)'
      BY <2>3, <3>3, FavouredStays
    <3> QED BY <3>1, <3>2, <3>3 DEF Race
  <2> QED BY <2>1, <2>2, <2>3 DEF Next
<1> QED
  BY <1>1, <1>2, Invariance, PTL DEF Spec

(* If nothing fails and nobody else interferes, exactly one of the invocations
   that compete for the same last output succeeds: two cannot both keep it,
   and whoever gives up leaves somebody with a claim. *)
THEOREM OneWins == Compete => (Spec => []ExactlyOneWins)
<1> SUFFICES ASSUME Compete PROVE Spec => []ExactlyOneWins
  OBVIOUS
<1>1. IInv /\ Race => ExactlyOneWins
  <2> SUFFICES ASSUME IInv, Race, \A w \in Writer : Ended(w), Quiet
               PROVE  \E w \in Writer : /\ result[w] = "ok"
                                        /\ \A v \in Writer \ {w} : result[v] = "failed"
    BY DEF ExactlyOneWins, Quiet
  <2>1. \A w \in Writer : pc[w] = "ended" /\ result[w] \in {"ok", "failed"}
    BY InvocationFacts DEF Ended, Progress, Before, TypeOK
  <2>2. PICK w \in Writer : result[w] = "ok"
    <3>1. CASE \E v \in Writer : result[v] = "failed"
      <4>1. PICK x \in Writer : Holding(x)
        BY <3>1 DEF Race, Favoured, SomeHolding
      <4> QED BY <2>1, <4>1 DEF Holding, Sure
    <3>2. CASE ~\E v \in Writer : result[v] = "failed"
      BY <2>1, <3>2, WritersAssumption DEF WritersAssumption
    <3> QED BY <3>1, <3>2
  <2>3. ASSUME NEW v \in Writer, result[v] = "ok", v # w PROVE FALSE
    <3>1. ASSUME NEW u \in Writer, result[u] = "ok"
          PROVE  output[Outputs[u][Len(Outputs[u])]] = <<u, Len(Outputs[u])>>
      <4>1. Len(Outputs[u]) \in DOMAIN Outputs[u] /\ Outcome(u)
        BY InvocationFacts
      <4> QED BY <3>1, <4>1 DEF Outcome, Kept, Holds, Quiet
    <3>2. <<v, Len(Outputs[v])>> = <<w, Len(Outputs[w])>>
      BY <2>2, <2>3, <3>1 DEF Compete
    <3> QED BY <2>3, <3>2
  <2> QED BY <2>1, <2>2, <2>3
<1> QED
  BY <1>1, Invariance, RaceHolds, PTL

-----------------------------------------------------------------------------
(* The documents.  Nothing is read twice in one step: the receipts, the
   evidence and the documents all change between two commands.  What carries the
   argument is that a receipt keeps the truth of its own time, because the past
   (`was') only grows, and that finalize validates everything once more against
   the evidence and the attempt of that moment. *)

(* What the receipt r of type i states was so at its time. *)
True(i, r, now, past) ==
    /\ r.at \in 0..now
    /\ \A f \in Sees[i] : r.facts[f] = past[r.at][f]

AllTrue(rs, now, past) == \A i \in DOMAIN rs \cap Ids : True(i, rs[i], now, past)

DocumentTrue(d, now, past) ==
    /\ d.attempt = d.bundle.attempt
    /\ AllTrue(d.bundle.receipts, now, past)

RecordsTrue ==
    /\ seen # Nothing => True(seen.id, seen, clock, was)
    /\ AllTrue(dir, clock, was)
    /\ bundle # Nothing => AllTrue(bundle.receipts, clock, was)
    /\ draft # Nothing => DocumentTrue(draft, clock, was)
    /\ report # Nothing => DocumentTrue(report, clock, was)
    /\ acceptance # Nothing => DocumentTrue(acceptance.report, clock, was)

AcceptanceValid ==
    acceptance # Nothing =>
      ReportValid(acceptance.report, acceptance.report.bundle,
                  acceptance.evidence, acceptance.attempt)

SeenOK == seen # Nothing => DOMAIN seen.facts = Sees[seen.id] /\ seen.facts \in [Sees[seen.id] -> Values]

NowIsWorld == was[clock] = world

ReceiptsIInv == ReceiptsTypeOK /\ SeenOK /\ NowIsWorld /\ RecordsTrue /\ AcceptanceValid

-----------------------------------------------------------------------------
(* The past only grows, so that what was true then is true now. *)
LEMMA TrueStays ==
    ASSUME NEW now, NEW now1, NEW past, NEW past1, NEW i, NEW r,
           now \in Nat, now1 \in Nat, now <= now1,
           \A t \in 0..now : past1[t] = past[t],
           True(i, r, now, past)
    PROVE  True(i, r, now1, past1)
  BY DEF True

LEMMA AllTrueStays ==
    ASSUME NEW now, NEW now1, NEW past, NEW past1, NEW rs,
           now \in Nat, now1 \in Nat, now <= now1,
           \A t \in 0..now : past1[t] = past[t],
           AllTrue(rs, now, past)
    PROVE  AllTrue(rs, now1, past1)
  BY TrueStays DEF AllTrue

(* A step that only lets time pass, or that leaves it, keeps all records true. *)
LEMMA PassingTime ==
    ASSUME ReceiptsTypeOK, RecordsTrue,
           clock' \in Nat, clock <= clock', \A t \in 0..clock : was'[t] = was[t]
    PROVE  /\ seen # Nothing => True(seen.id, seen, clock', was')
           /\ AllTrue(dir, clock', was')
           /\ bundle # Nothing => AllTrue(bundle.receipts, clock', was')
           /\ draft # Nothing => DocumentTrue(draft, clock', was')
           /\ report # Nothing => DocumentTrue(report, clock', was')
           /\ acceptance # Nothing => DocumentTrue(acceptance.report, clock', was')
  <1>1. clock \in Nat
    BY ReceiptsAssumption DEF ReceiptsTypeOK
  <1>2. ASSUME NEW rs, AllTrue(rs, clock, was) PROVE AllTrue(rs, clock', was')
    BY <1>1, <1>2, AllTrueStays
  <1>3. seen # Nothing => True(seen.id, seen, clock', was')
    BY <1>1, TrueStays DEF RecordsTrue
  <1> QED BY <1>2, <1>3 DEF RecordsTrue, DocumentTrue

LEMMA FactsOfIds == \A i \in Ids : Sees[i] \subseteq Facts
  BY DEF Facts

-----------------------------------------------------------------------------
(* The type invariant, action by action. *)
LEMMA InitType == ReceiptsInit => ReceiptsTypeOK /\ SeenOK
  <1> SUFFICES ASSUME ReceiptsInit PROVE ReceiptsTypeOK /\ SeenOK
    OBVIOUS
  <1>1. world \in [Facts -> Values]
    BY ReceiptsAssumption DEF ReceiptsInit
  <1>2. was \in [0..clock -> [Facts -> Values]]
    BY <1>1 DEF ReceiptsInit
  <1> QED BY <1>1, <1>2, ReceiptsAssumption DEF ReceiptsInit, ReceiptsTypeOK, SeenOK, NoFiles

LEMMA TypeAdvance ==
    ASSUME ReceiptsIInv, NEW f \in Changing, NEW v \in Values, WorldMoves(f, v)
    PROVE  ReceiptsTypeOK' /\ SeenOK' /\ NowIsWorld' /\ \A t \in 0..clock : was'[t] = was[t]
  <1>1. clock \in Nat /\ clock' = clock + 1 /\ clock' \in 0..MaxClock
    BY ReceiptsAssumption DEF ReceiptsIInv, ReceiptsTypeOK, WorldMoves
  <1>2. world' \in [Facts -> Values]
    BY DEF ReceiptsIInv, ReceiptsTypeOK, WorldMoves
  <1>3. /\ was' \in [0..clock' -> [Facts -> Values]]
        /\ \A t \in 0..clock : was'[t] = was[t]
    <2>1. was' = Put(was, clock + 1, world') /\ was \in [0..clock -> [Facts -> Values]]
      BY DEF ReceiptsIInv, ReceiptsTypeOK, WorldMoves
    <2>2. DOMAIN was \cup {clock + 1} = 0..clock'
      BY <1>1, <2>1
    <2> QED BY <1>1, <1>2, <2>1, <2>2 DEF Put
  <1>4. NowIsWorld'
    BY <1>1 DEF WorldMoves, Put, NowIsWorld
  <1>5. seen' = Nothing \/ (seen'.id \in Ids /\ seen'.at \in 0 .. clock')
    BY <1>1 DEF ReceiptsIInv, ReceiptsTypeOK, WorldMoves
  <1> QED BY <1>1, <1>2, <1>3, <1>4, <1>5 DEF ReceiptsIInv, ReceiptsTypeOK, SeenOK, WorldMoves, files

LEMMA TypeRepublish ==
    ASSUME ReceiptsIInv, NEW c \in ContainerEvidence, Republish(c)
    PROVE  ReceiptsTypeOK' /\ SeenOK' /\ NowIsWorld' /\ \A t \in 0..clock : was'[t] = was[t]
  <1>1. clock \in Nat /\ clock' = clock + 1 /\ clock' \in 0..MaxClock
    BY ReceiptsAssumption DEF ReceiptsIInv, ReceiptsTypeOK, Republish
  <1>3. /\ was' \in [0..clock' -> [Facts -> Values]]
        /\ \A t \in 0..clock : was'[t] = was[t]
    <2>1. /\ was' = Put(was, clock + 1, world) /\ was \in [0..clock -> [Facts -> Values]]
          /\ world \in [Facts -> Values]
      BY DEF ReceiptsIInv, ReceiptsTypeOK, Republish
    <2>2. DOMAIN was \cup {clock + 1} = 0..clock'
      BY <1>1, <2>1
    <2> QED BY <1>1, <2>1, <2>2 DEF Put
  <1>4. NowIsWorld'
    BY <1>1 DEF Republish, Put, NowIsWorld
  <1>5. seen' = Nothing \/ (seen'.id \in Ids /\ seen'.at \in 0 .. clock')
    BY <1>1 DEF ReceiptsIInv, ReceiptsTypeOK, Republish
  <1> QED BY <1>1, <1>3, <1>4, <1>5 DEF ReceiptsIInv, ReceiptsTypeOK, SeenOK, Republish, files

LEMMA TypeWriteReceipt ==
    ASSUME ReceiptsIInv, WriteReceipt
    PROVE  ReceiptsTypeOK' /\ SeenOK'
  <1> DEFINE r == [attempt |-> attempt, evidence |-> evidence, at |-> seen.at, facts |-> seen.facts]
  <1>1. clock \in Nat /\ clock <= MaxClock
    BY ReceiptsAssumption DEF ReceiptsIInv, ReceiptsTypeOK
  <1>2. seen.id \in Ids /\ seen.at \in 0..clock /\ seen.facts \in [Sees[seen.id] -> Values]
    BY DEF ReceiptsIInv, ReceiptsTypeOK, SeenOK, WriteReceipt
  <1>3. seen.facts \in UNION {[S -> Values] : S \in SUBSET Facts}
    BY <1>2, FactsOfIds
  <1>4. r \in Receipt
    <2>1. seen.at \in 0..MaxClock
      BY <1>1, <1>2, ReceiptsAssumption
    <2> QED BY <1>3, <2>1 DEF Receipt, ReceiptsIInv, ReceiptsTypeOK
  <1>5. dir' = Put(dir, seen.id, r)
    BY DEF WriteReceipt
  <1>6. DOMAIN dir' \subseteq Ids /\ \A i \in DOMAIN dir' : dir'[i] \in Receipt
    BY <1>2, <1>4, <1>5 DEF Put, ReceiptsIInv, ReceiptsTypeOK
  <1> QED BY <1>6 DEF ReceiptsIInv, ReceiptsTypeOK, SeenOK, WriteReceipt, outside

LEMMA TypeOthers ==
    ASSUME ReceiptsIInv,
           \/ Rerun \/ (\E i \in Ids : Observe(i)) \/ WriteBundle \/ WriteReport \/ Kill
           \/ Finalize \/ UNCHANGED ReceiptsVars
    PROVE  ReceiptsTypeOK' /\ SeenOK'
  <1>1. CASE Rerun
    <2>1. attempt' \in 1..MaxAttempts
      BY <1>1, ReceiptsAssumption DEF ReceiptsIInv, ReceiptsTypeOK, Rerun
    <2>2. DOMAIN dir' \subseteq Ids /\ \A i \in DOMAIN dir' : dir'[i] \in Receipt
      BY <1>1 DEF ReceiptsIInv, ReceiptsTypeOK, Rerun, NoFiles
    <2> QED BY <1>1, <2>1, <2>2 DEF ReceiptsIInv, ReceiptsTypeOK, SeenOK, Rerun, outside
  <1>2. ASSUME NEW i \in Ids, Observe(i) PROVE ReceiptsTypeOK' /\ SeenOK'
    <2>1. clock \in 0..clock
      BY ReceiptsAssumption DEF ReceiptsIInv, ReceiptsTypeOK
    <2>2. [f \in Sees[i] |-> world[f]] \in [Sees[i] -> Values]
      BY FactsOfIds DEF ReceiptsIInv, ReceiptsTypeOK
    <2>3. seen' = [id |-> i, at |-> clock, facts |-> [f \in Sees[i] |-> world[f]]]
      BY <1>2 DEF Observe
    <2>4. seen'.id = i /\ seen'.at = clock /\ seen'.facts = [f \in Sees[i] |-> world[f]]
      BY <2>3
    <2>5. DOMAIN seen'.facts = Sees[seen'.id] /\ seen'.facts \in [Sees[seen'.id] -> Values]
      BY <2>2, <2>4
    <2> QED BY <1>2, <2>1, <2>4, <2>5 DEF ReceiptsIInv, ReceiptsTypeOK, SeenOK, Observe, outside, files
  <1>3. CASE WriteBundle
    <2>1. DOMAIN dir = Ids
      BY <1>3 DEF WriteBundle, SetValid, Complete
    <2>2. DOMAIN bundle'.receipts = Ids /\ DOMAIN draft'.bundle.receipts = Ids
      BY <1>3, <2>1 DEF WriteBundle, ReportOf
    <2> QED BY <1>3, <2>2 DEF ReceiptsIInv, ReceiptsTypeOK, SeenOK, WriteBundle, outside
  <1>4. CASE WriteReport
    BY <1>4 DEF ReceiptsIInv, ReceiptsTypeOK, SeenOK, WriteReport, outside
  <1>5. CASE Kill
    BY <1>5 DEF ReceiptsIInv, ReceiptsTypeOK, SeenOK, Kill, outside, files
  <1>6. CASE Finalize
    BY <1>6 DEF ReceiptsIInv, ReceiptsTypeOK, SeenOK, Finalize, outside
  <1>7. CASE UNCHANGED ReceiptsVars
    BY <1>7 DEF ReceiptsIInv, ReceiptsTypeOK, SeenOK, ReceiptsVars, outside, files
  <1> QED BY <1>1, <1>2, <1>3, <1>4, <1>5, <1>6, <1>7

-----------------------------------------------------------------------------
(* What the records say stays true. *)
LEMMA InitTrue == ReceiptsInit => NowIsWorld /\ RecordsTrue /\ AcceptanceValid
  BY DEF ReceiptsInit, NowIsWorld, RecordsTrue, AcceptanceValid, AllTrue, NoFiles

LEMMA PassingTrue ==
    ASSUME ReceiptsIInv, ReceiptsTypeOK', \A t \in 0..clock : was'[t] = was[t],
           \/ \E f \in Changing, v \in Values : WorldMoves(f, v)
           \/ \E c \in ContainerEvidence : Republish(c)
    PROVE  RecordsTrue' /\ AcceptanceValid'
  <1>1. clock \in Nat /\ clock' = clock + 1 /\ UNCHANGED <<seen, files, draft>>
    BY ReceiptsAssumption DEF ReceiptsIInv, ReceiptsTypeOK, WorldMoves, Republish
  <1>2. clock' \in Nat /\ clock <= clock'
    BY <1>1
  <1> QED BY <1>1, <1>2, PassingTime DEF ReceiptsIInv, RecordsTrue, AcceptanceValid, files

LEMMA ObserveTrue ==
    ASSUME ReceiptsIInv, NEW i \in Ids, Observe(i)
    PROVE  NowIsWorld' /\ RecordsTrue' /\ AcceptanceValid'
  <1>1. seen'.id = i /\ seen'.at = clock /\ seen'.facts = [f \in Sees[i] |-> world[f]]
    BY DEF Observe
  <1>2. clock \in 0..clock
    BY ReceiptsAssumption DEF ReceiptsIInv, ReceiptsTypeOK
  <1>3. True(i, seen', clock, was)
    BY <1>1, <1>2 DEF True, ReceiptsIInv, NowIsWorld
  <1> QED BY <1>1, <1>3 DEF Observe, ReceiptsIInv, NowIsWorld, RecordsTrue, AcceptanceValid, outside, files

LEMMA WriteReceiptTrue ==
    ASSUME ReceiptsIInv, WriteReceipt
    PROVE  NowIsWorld' /\ RecordsTrue' /\ AcceptanceValid'
  <1> DEFINE r == [attempt |-> attempt, evidence |-> evidence, at |-> seen.at, facts |-> seen.facts]
  <1>1. dir' = Put(dir, seen.id, r)
    BY DEF WriteReceipt
  <1>2. True(seen.id, r, clock, was)
    BY DEF ReceiptsIInv, RecordsTrue, True, WriteReceipt
  <1>3. AllTrue(dir', clock, was)
    BY <1>1, <1>2 DEF Put, AllTrue, ReceiptsIInv, RecordsTrue
  <1> QED BY <1>3 DEF WriteReceipt, ReceiptsIInv, NowIsWorld, RecordsTrue, AcceptanceValid, outside

LEMMA WriteBundleTrue ==
    ASSUME ReceiptsIInv, WriteBundle
    PROVE  NowIsWorld' /\ RecordsTrue' /\ AcceptanceValid'
  <1>1. bundle'.receipts = dir /\ bundle'.attempt = attempt
    BY DEF WriteBundle
  <1>2. draft'.bundle = bundle' /\ draft'.attempt = attempt
    BY DEF WriteBundle, ReportOf
  <1>3. AllTrue(bundle'.receipts, clock, was) /\ DocumentTrue(draft', clock, was)
    BY <1>1, <1>2 DEF DocumentTrue, ReceiptsIInv, RecordsTrue
  <1> QED BY <1>3 DEF WriteBundle, ReceiptsIInv, NowIsWorld, RecordsTrue, AcceptanceValid, outside

LEMMA FinalizeTrue ==
    ASSUME ReceiptsIInv, Finalize
    PROVE  NowIsWorld' /\ RecordsTrue' /\ AcceptanceValid'
  <1>1. /\ acceptance'.attempt = attempt /\ acceptance'.evidence = evidence
        /\ acceptance'.report = report
    BY DEF Finalize
  <1>2. report.bundle = bundle
    BY DEF Finalize, ReportValid, IsReferenced
  <1>3. ReportValid(report, report.bundle, evidence, attempt)
    BY <1>2 DEF Finalize
  <1> QED BY <1>1, <1>3 DEF Finalize, ReceiptsIInv, NowIsWorld, RecordsTrue, AcceptanceValid, outside

LEMMA OthersTrue ==
    ASSUME ReceiptsIInv, Rerun \/ WriteReport \/ Kill \/ UNCHANGED ReceiptsVars
    PROVE  NowIsWorld' /\ RecordsTrue' /\ AcceptanceValid'
  <1>1. CASE Rerun
    <2>1. AllTrue(NoFiles, clock, was)
      BY DEF AllTrue, NoFiles
    <2> QED BY <1>1, <2>1 DEF Rerun, ReceiptsIInv, NowIsWorld, RecordsTrue, AcceptanceValid, outside
  <1>2. CASE WriteReport
    BY <1>2 DEF WriteReport, ReceiptsIInv, NowIsWorld, RecordsTrue, AcceptanceValid, outside
  <1>3. CASE Kill
    BY <1>3 DEF Kill, ReceiptsIInv, NowIsWorld, RecordsTrue, AcceptanceValid, outside, files
  <1>4. CASE UNCHANGED ReceiptsVars
    BY <1>4 DEF ReceiptsVars, ReceiptsIInv, NowIsWorld, RecordsTrue, AcceptanceValid, outside, files
  <1> QED BY <1>1, <1>2, <1>3, <1>4

LEMMA Inductive == ReceiptsIInv /\ [ReceiptsNext]_ReceiptsVars => ReceiptsIInv'
  <1> SUFFICES ASSUME ReceiptsIInv, [ReceiptsNext]_ReceiptsVars PROVE ReceiptsIInv'
    OBVIOUS
  <1>1. ASSUME NEW f \in Changing, NEW v \in Values, WorldMoves(f, v) PROVE ReceiptsIInv'
    BY <1>1, TypeAdvance, PassingTrue DEF ReceiptsIInv
  <1>2. ASSUME NEW c \in ContainerEvidence, Republish(c) PROVE ReceiptsIInv'
    BY <1>2, TypeRepublish, PassingTrue DEF ReceiptsIInv
  <1>3. ASSUME NEW i \in Ids, Observe(i) PROVE ReceiptsIInv'
    BY <1>3, TypeOthers, ObserveTrue DEF ReceiptsIInv
  <1>4. CASE WriteReceipt
    BY <1>4, TypeWriteReceipt, WriteReceiptTrue DEF ReceiptsIInv
  <1>5. CASE WriteBundle
    BY <1>5, TypeOthers, WriteBundleTrue DEF ReceiptsIInv
  <1>6. CASE Finalize
    BY <1>6, TypeOthers, FinalizeTrue DEF ReceiptsIInv
  <1>7. CASE Rerun \/ WriteReport \/ Kill \/ UNCHANGED ReceiptsVars
    BY <1>7, TypeOthers, OthersTrue DEF ReceiptsIInv
  <1> QED BY <1>1, <1>2, <1>3, <1>4, <1>5, <1>6, <1>7 DEF ReceiptsNext

LEMMA Invariant == ReceiptsSpec => []ReceiptsIInv
  <1>1. ReceiptsInit => ReceiptsIInv
    BY InitType, InitTrue DEF ReceiptsIInv
  <1> QED BY <1>1, Inductive, PTL DEF ReceiptsSpec

-----------------------------------------------------------------------------
(* Type correctness of the directory, the observations file and the documents. *)
THEOREM ReceiptsTypeCorrect == ReceiptsSpec => []ReceiptsTypeOK
  <1>1. ReceiptsIInv => ReceiptsTypeOK
    BY DEF ReceiptsIInv
  <1> QED BY <1>1, Invariant, PTL

(* An acceptance comes from one attempt about one pair of evidence documents:
   finalize validates every receipt against its own attempt and evidence, and
   the report it is given must name the bundle it is given. *)
THEOREM AcceptanceOfOneRun == ReceiptsSpec => []OneRun
  <1>1. ReceiptsIInv => OneRun
    <2> SUFFICES ASSUME ReceiptsIInv, acceptance # Nothing
                 PROVE  OneRun
      BY DEF OneRun
    <2> DEFINE p == acceptance.report
    <2>1. /\ ReportValid(p, p.bundle, acceptance.evidence, acceptance.attempt)
          /\ p.attempt = p.bundle.attempt
      BY DEF ReceiptsIInv, AcceptanceValid, RecordsTrue, DocumentTrue
    <2>2. /\ p.evidence = acceptance.evidence
          /\ BundleValid(p.bundle, acceptance.evidence, acceptance.attempt)
      BY <2>1 DEF ReportValid
    <2>3. /\ p.bundle.attempt = acceptance.attempt
          /\ DOMAIN p.bundle.receipts = Ids
          /\ \A i \in Ids : ReceiptValid(i, p.bundle.receipts[i], acceptance.evidence, acceptance.attempt)
      BY <2>2 DEF BundleValid, SetValid, Complete
    <2> QED BY <2>1, <2>2, <2>3 DEF OneRun, ReceiptValid
  <1> QED BY <1>1, Invariant, PTL

(* What an acceptance rests on was so at the times it names: each receipt tells
   the truth about its own time, and the comparisons of validate_receipt_set
   carry the agreement from the receipts over to the past. *)
THEOREM AcceptanceHeld == ReceiptsSpec => []Held
  <1>1. ReceiptsIInv => Held
    <2> SUFFICES ASSUME ReceiptsIInv, acceptance # Nothing
                 PROVE  Held
      BY DEF Held
    <2> DEFINE p == acceptance.report
               r == p.bundle.receipts
               c == acceptance.evidence
    <2>1. ReportValid(p, p.bundle, c, acceptance.attempt) /\ AllTrue(r, clock, was)
      BY DEF ReceiptsIInv, AcceptanceValid, RecordsTrue, DocumentTrue
    <2>2. /\ NotBefore <= p.checkedAt /\ p.checkedAt < ExpiresAt
          /\ p.checkedAt = r[Final].at
          /\ SetValid(r, c, acceptance.attempt)
      BY <2>1 DEF ReportValid, BundleValid
    <2>3. /\ DOMAIN r = Ids /\ Final \in Ids
          /\ \A i \in Ids : ReceiptValid(i, r[i], c, acceptance.attempt)
          /\ \A i \in Ids : r[i].at <= p.checkedAt
          /\ \A i, j \in Ids : \A f \in Sees[i] \cap Sees[j] : r[i].facts[f] = r[j].facts[f]
      BY <2>2, ReceiptsAssumption DEF SetValid, Complete, FinalIsLast, Agree
    <2>4. \A i \in Ids : \A f \in Sees[i] : r[i].facts[f] = was[r[i].at][f]
      BY <2>1, <2>3 DEF AllTrue, True
    <2>5. ASSUME NEW i \in Ids, NEW f \in Sees[i]
          PROVE  /\ f \in DOMAIN Says[c] => was[r[i].at][f] = Says[c][f]
                 /\ f \in Sees[Final] => was[r[i].at][f] = was[p.checkedAt][f]
                 /\ \A j \in Ids : f \in Sees[j] => was[r[i].at][f] = was[r[j].at][f]
      <3>1. f \in DOMAIN Says[c] => r[i].facts[f] = Says[c][f]
        BY <2>3, <2>5 DEF ReceiptValid
      <3>2. \A j \in Ids : f \in Sees[j] => was[r[i].at][f] = was[r[j].at][f]
        BY <2>3, <2>4, <2>5
      <3> QED BY <2>2, <2>3, <2>4, <3>1, <3>2
    <2>6. ASSUME NEW i \in Ids, NEW f \in Sees[i]
          PROVE  /\ r[i].at <= p.checkedAt
                 /\ f \in DOMAIN Says[c] => was[r[i].at][f] = Says[c][f]
                 /\ f \in Sees[Final] => was[r[i].at][f] = was[p.checkedAt][f]
                 /\ \A j \in Ids : f \in Sees[j] => was[r[i].at][f] = was[r[j].at][f]
      BY <2>3, <2>5
    <2>7. NotBefore <= p.checkedAt /\ p.checkedAt < ExpiresAt
      BY <2>2
    <2> HIDE DEF p, r, c
    <2> QED BY <2>6, <2>7 DEF Held, p, r, c
  <1> QED BY <1>1, Invariant, PTL
=============================================================================
