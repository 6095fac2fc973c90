----------------------------- MODULE MCServing ------------------------------
(* Instances of Serving for TLC. *)
EXTENDS Serving

CONSTANTS h1, h2, n1, n2

=============================================================================
