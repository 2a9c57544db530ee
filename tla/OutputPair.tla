----------------------------- MODULE OutputPair -----------------------------
(***************************************************************************)
(* write_json and write_json_pair of scripts/finalize-mlx90-delivery.py:   *)
(* invocations that publish their outputs without replacing anything, each *)
(* through a temporary file and a hard link, while other invocations and   *)
(* other programs use the same output paths, system calls fail and         *)
(* invocations are killed.                                                 *)
(*                                                                         *)
(* Every system call that reads or changes a shared name is an action.  An *)
(* invocation creates one file per output: <<w, k>> identifies the file of *)
(* invocation w for its k-th output, whatever names link to it.            *)
(***************************************************************************)
EXTENDS Naturals, Sequences, FiniteSets

CONSTANTS
    Writer,      \* invocations of the finalizer
    Path,        \* output paths
    Outputs,     \* Outputs[w]: the one or two output paths of w, in order
    Pid,         \* process IDs
    PidOf,       \* PidOf[w]: equal for invocations in different PID namespaces
    Foreign,     \* other programs
    MaxChanges,  \* bound on what other programs do
    None

ASSUME WritersAssumption == Writer # {} /\ Foreign \notin Writer
ASSUME OutputsAssumption ==
    /\ Outputs \in [Writer -> Seq(Path)]
    /\ \A w \in Writer : /\ Len(Outputs[w]) \in 1..2
                         /\ \A j, k \in DOMAIN Outputs[w] :
                               Outputs[w][j] = Outputs[w][k] => j = k
ASSUME PidsAssumption == PidOf \in [Writer -> Pid] /\ MaxChanges \in Nat

File == (Writer \X (1..2)) \cup ({Foreign} \X (0..MaxChanges))

ASSUME NoneAssumption == None \notin File

VARIABLES
    output,    \* output[p]: the file linked at the output path p
    temp,      \* temp[q][p]: the file linked at .<p>.<q>.tmp
    written,   \* files whose content is complete
    changes,
    pc,
    at,        \* at[w]: the output that w is working on
    owner,     \* owner[w][k]: device and inode of the k-th temporary file
    observed,  \* observed[w]: what unlink_owned saw at the first output path
    result,    \* "none", "ok" or "failed"
    faulty,    \* invocations that had a system call fail
    killed,    \* invocations that were killed
    touched    \* output paths that other programs changed

vars == <<output, temp, written, changes, pc, at, owner, observed, result,
          faulty, killed, touched>>

Steps == {"check", "create", "write", "stat", "link", "undo", "unlink",
          "clean", "ended"}

TypeOK ==
    /\ output \in [Path -> File \cup {None}]
    /\ temp \in [Pid -> [Path -> File \cup {None}]]
    /\ written \subseteq File
    /\ changes \in 0..MaxChanges
    /\ pc \in [Writer -> Steps]
    /\ at \in [Writer -> 1..2]
    /\ owner \in [Writer -> [1..2 -> File \cup {None}]]
    /\ observed \in [Writer -> File \cup {None}]
    /\ result \in [Writer -> {"none", "ok", "failed"}]
    /\ faulty \subseteq Writer
    /\ killed \subseteq Writer
    /\ touched \subseteq Path

Init ==
    /\ output = [p \in Path |-> None]
    /\ temp = [q \in Pid |-> [p \in Path |-> None]]
    /\ written = {}
    /\ changes = 0
    /\ pc = [w \in Writer |-> "check"]
    /\ at = [w \in Writer |-> 1]
    /\ owner = [w \in Writer |-> [k \in 1..2 |-> None]]
    /\ observed = [w \in Writer |-> None]
    /\ result = [w \in Writer |-> "none"]
    /\ faulty = {}
    /\ killed = {}
    /\ touched = {}

-----------------------------------------------------------------------------
(* Other programs: create, remove or replace the file at an output path. *)

Elsewhere(p) ==
    /\ changes < MaxChanges
    /\ changes' = changes + 1
    /\ output' \in {[output EXCEPT ![p] = f] : f \in {None, <<Foreign, changes>>}}
    /\ written' = written \cup {<<Foreign, changes>>}
    /\ touched' = touched \cup {p}
    /\ UNCHANGED <<temp, pc, at, owner, observed, result, faulty, killed>>

-----------------------------------------------------------------------------
(* One invocation. *)

Out(w) == Outputs[w][at[w]]

Last(w) == at[w] = Len(Outputs[w])

\* Variant: an existing output is replaced.
NeverOccupied(w) == FALSE

Occupied(w) == output[Out(w)] # None

Temporary(w) == temp[PidOf[w]][Out(w)]

Goto(w, step, k) ==
    /\ pc' = [pc EXCEPT ![w] = step]
    /\ at' = [at EXCEPT ![w] = k]

\* Variant: the position is not reset.
AdvancePast(w, step) ==
    IF Last(w) THEN Goto(w, step, at[w] + 1) ELSE Goto(w, pc[w], at[w] + 1)

(* The same step for the next output, or, after the last, another step. *)
Advance(w, step) ==
    IF Last(w) THEN Goto(w, step, 1) ELSE Goto(w, pc[w], at[w] + 1)

(* An exception inside the try block: the finally block runs. *)
Raise(w, step) ==
    /\ result' = [result EXCEPT ![w] = "failed"]
    /\ Goto(w, step, 1)

(* safe_output of every output, before anything is created. *)
SafeOutput(w) ==
    /\ pc[w] = "check"
    /\ IF Occupied(w)
       THEN /\ result' = [result EXCEPT ![w] = "failed"]
            /\ Goto(w, "ended", 1)
       ELSE Advance(w, "create") /\ UNCHANGED result
    /\ UNCHANGED <<output, temp, written, changes, owner, observed, faulty, killed,
                   touched>>

(* prepare_json_output: the exclusive creation of a temporary file. *)
Create(w) ==
    /\ pc[w] = "create"
    /\ IF Temporary(w) # None
       THEN Raise(w, "clean") /\ UNCHANGED temp
       ELSE /\ temp' = [temp EXCEPT ![PidOf[w]][Out(w)] = <<w, at[w]>>]
            /\ Goto(w, "write", at[w])
            /\ UNCHANGED result
    /\ UNCHANGED <<output, written, changes, owner, observed, faulty, killed, touched>>

WriteAll(w) ==
    /\ pc[w] = "write"
    /\ written' = written \cup {<<w, at[w]>>}
    /\ Goto(w, "stat", at[w])
    /\ UNCHANGED <<output, temp, changes, owner, observed, result, faulty, killed, touched>>

(* os.lstat of the temporary file: only now does the invocation own it. *)
Stat(w) ==
    /\ pc[w] = "stat"
    /\ owner' = [owner EXCEPT ![w][at[w]] = Temporary(w)]
    /\ IF Last(w) THEN Goto(w, "link", 1) ELSE Goto(w, "create", at[w] + 1)
    /\ UNCHANGED <<output, temp, written, changes, observed, result, faulty, killed,
                   touched>>

\* Variant: the first output is left behind when the second is taken.
KeepFirst(w) == Raise(w, "clean")

(* A link that fails: the first output is withdrawn if the second is taken. *)
LinkFails(w) ==
    Raise(w, IF at[w] = 2 THEN "undo" ELSE "clean")

(* os.link: fails if the output path exists. *)
Link(w) ==
    /\ pc[w] = "link"
    /\ IF Occupied(w)
       THEN LinkFails(w) /\ UNCHANGED output
       ELSE /\ output' = [output EXCEPT ![Out(w)] = Temporary(w)]
            /\ result' = IF Last(w) THEN [result EXCEPT ![w] = "ok"] ELSE result
            /\ Advance(w, "clean")
    /\ UNCHANGED <<temp, written, changes, owner, observed, faulty, killed, touched>>

\* Variant: whatever is at the path is removed.
Anything(f, w, k) == f # None

(* unlink_owned compares device and inode. *)
IsOwned(f, w, k) == f # None /\ f = owner[w][k]

(* unlink_owned of the first output: lstat, then unlink. *)
UndoStat(w) ==
    /\ pc[w] = "undo"
    /\ observed' = [observed EXCEPT ![w] = output[Outputs[w][1]]]
    /\ Goto(w, IF IsOwned(observed'[w], w, 1) THEN "unlink" ELSE "clean", 1)
    /\ UNCHANGED <<output, temp, written, changes, owner, result, faulty, killed, touched>>

UndoUnlink(w) ==
    /\ pc[w] = "unlink"
    /\ output' = [output EXCEPT ![Outputs[w][1]] = None]
    /\ Goto(w, "clean", 1)
    /\ UNCHANGED <<temp, written, changes, owner, observed, result, faulty, killed, touched>>

(* The finally block: unlink_owned of each temporary file.  Nobody replaces an
   existing temporary file, so that its lstat and unlink are one step. *)
Clean(w) ==
    /\ pc[w] = "clean"
    /\ temp' = IF IsOwned(Temporary(w), w, at[w])
               THEN [temp EXCEPT ![PidOf[w]][Out(w)] = None] ELSE temp
    /\ Advance(w, "ended")
    /\ UNCHANGED <<output, written, changes, owner, observed, result, faulty, killed,
                   touched>>

(* An OSError: in the finally block it ends the invocation at once. *)
SystemCallFails(w) ==
    /\ pc[w] # "ended"
    /\ faulty' = faulty \cup {w}
    /\ IF pc[w] = "link" THEN LinkFails(w)
       ELSE Raise(w, IF pc[w] \in {"check", "clean"} THEN "ended" ELSE "clean")
    /\ UNCHANGED <<output, temp, written, changes, owner, observed, killed, touched>>

Killed(w) ==
    /\ pc[w] # "ended"
    /\ killed' = killed \cup {w}
    /\ Raise(w, "ended")
    /\ UNCHANGED <<output, temp, written, changes, owner, observed, faulty, touched>>

Invocation(w) ==
    \/ SafeOutput(w)
    \/ Create(w)
    \/ WriteAll(w)
    \/ Stat(w)
    \/ Link(w)
    \/ UndoStat(w)
    \/ UndoUnlink(w)
    \/ Clean(w)
    \/ SystemCallFails(w)
    \/ Killed(w)

Next == (\E p \in Path : Elsewhere(p)) \/ (\E w \in Writer : Invocation(w))

Spec == Init /\ [][Next]_vars

-----------------------------------------------------------------------------
Ended(w) == pc[w] = "ended"

Holds(w, k) == output[Outputs[w][k]] = <<w, k>>

(* An invocation that succeeds has published every output, completely, and
   neither another invocation nor its clean-up takes one away: only another
   program can. *)
SuccessIsComplete ==
    \A w \in Writer : result[w] = "ok" =>
        \A k \in DOMAIN Outputs[w] :
            /\ <<w, k>> \in written
            /\ Holds(w, k) \/ Outputs[w][k] \in touched

(* An invocation that fails without a system call failing leaves none of its
   outputs behind, whoever else created the second output in the meantime. *)
FailureLeavesNothing ==
    \A w \in Writer \ (faulty \cup killed) : Ended(w) /\ result[w] = "failed" =>
        \A k \in DOMAIN Outputs[w] : ~Holds(w, k)

(* Of several invocations that compete for an output, exactly one succeeds if
   nothing fails and no other program interferes, even if their processes have
   the same ID: they all link the delivered output before the acceptance, so
   that two of them never withdraw in each other's favour. *)
ExactlyOneWins ==
    (\A w \in Writer : Ended(w)) /\ faulty = {} /\ killed = {} /\ touched = {} =>
        \E w \in Writer : /\ result[w] = "ok"
                          /\ \A v \in Writer \ {w} : result[v] = "failed"

(* A file that another program put at an output path is replaced by nobody. *)
NoClobber ==
    [][\A p \in Path : output[p] # None /\ output'[p] # None /\ changes' = changes
          => output'[p] = output[p]]_vars
=============================================================================
