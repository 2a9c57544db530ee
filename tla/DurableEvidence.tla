--------------------------- MODULE DurableEvidence ---------------------------
(***************************************************************************)
(* What the persistence and post-delivery jobs of the MLX-90 finalizer     *)
(* promise to everybody who reads an acceptance: its published copy is     *)
(* sealed once and for all, it is reported only when the sealed copy is    *)
(* the signed evidence, and only a reported acceptance is promoted.        *)
(*                                                                         *)
(* How the copy comes about (a draft, uploads, a publication, any number   *)
(* of attempts, other people's changes) is left to Delivery.               *)
(***************************************************************************)
CONSTANTS
    Acceptance,  \* the acceptance documents that can ever be signed
    Copy,        \* what a sealed release may hold
    Signed,      \* Signed[a]: the copy that is the signed evidence of a
    None         \* nothing sealed

VARIABLES
    sealed,      \* sealed[a]: the immutable copy under the tag of a
    reported,    \* acceptances whose callback outputs were exposed
    promoted     \* acceptances whose promotion was dispatched

vars == <<sealed, reported, promoted>>

Init ==
    /\ sealed = [a \in Acceptance |-> None]
    /\ reported = {}
    /\ promoted = {}

(* Anybody may seal anything under a tag, but only once. *)
Seal(a) ==
    /\ sealed[a] = None
    /\ sealed' \in [Acceptance -> Copy \cup {None}]
    /\ \A b \in Acceptance \ {a} : sealed'[b] = sealed[b]
    /\ UNCHANGED <<reported, promoted>>

Report(a) ==
    /\ sealed[a] = Signed[a]
    /\ reported' = reported \cup {a}
    /\ UNCHANGED <<sealed, promoted>>

Promote(a) ==
    /\ a \in reported
    /\ promoted' = promoted \cup {a}
    /\ UNCHANGED <<sealed, reported>>

Next ==
    \E a \in Acceptance :
        \/ Seal(a)
        \/ Report(a)
        \/ Promote(a)

Spec == Init /\ [][Next]_vars

(* Every promoted acceptance rests on a sealed copy of the signed evidence,
   and will rest on it for good: this is what the consumer of the callback
   in .github/scripts/mlx90-final-acceptance.sh relies on. *)
PromotedIsSealed ==
    /\ promoted \subseteq reported
    /\ \A a \in reported : sealed[a] = Signed[a]
=============================================================================
