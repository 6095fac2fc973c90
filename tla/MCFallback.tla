----------------------------- MODULE MCFallback -----------------------------
(* Instances of Fallback for TLC. *)
EXTENDS Fallback, TLC

CONSTANTS q1, q2

\* Both upstreams answer, some of it to other questions.
SafetyLinks == <<{"good", "foreign"}, {"good", "foreign"}>>

\* The first one reads without a deadline and may fall silent; for the second a
\* silent server is the same as a dead one.
LiveLinks == <<{"good", "dead", "silent"}, {"good", "dead"}>>

QuerySymmetry == Permutations({q1, q2})

=============================================================================
