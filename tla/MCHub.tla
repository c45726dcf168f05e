------------------------------- MODULE MCHub -------------------------------
(* Instances of Hub for TLC. *)
EXTENDS Hub, TLC

\* Later payloads are larger, so that a growing graph meets the budget.
SizeOfCycle == [c \in Cycle |-> c]

Symmetry == Permutations(Spokes) \cup Permutations(Requests)
=============================================================================
