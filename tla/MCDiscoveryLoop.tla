-------------------------- MODULE MCDiscoveryLoop --------------------------
(* Instances of DiscoveryLoop for TLC. *)
EXTENDS DiscoveryLoop, TLC

Symmetry == Permutations(Edges) \cup Permutations(Admins)
=============================================================================
