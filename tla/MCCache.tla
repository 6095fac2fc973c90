------------------------------ MODULE MCCache -------------------------------
(* Instances of Cache for TLC. *)
EXTENDS Cache, TLC

CONSTANTS c1, c2, k1, k2, k3

Symmetry == Permutations({c1, c2}) \cup Permutations({k1, k2, k3})

=============================================================================
