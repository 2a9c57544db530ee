----------------------------- MODULE MCPushReady -----------------------------
(* Two terminals in one checkout and two commits: the second base commit
   changes the policy files, and the second feature commit is made on it. *)
EXTENDS PushReady, TLC

MCPolicy == {"old", "new"}
MCBasePolicy == [b \in Base |-> IF b = 1 THEN "new" ELSE "old"]
MCFork == [c \in Commit |-> IF c = "second" THEN MaxBase ELSE 0]
MCHeadPolicy == [c \in Commit |-> IF c = "second" THEN "new" ELSE "old"]
Symmetry == Permutations(Gate)
=============================================================================
