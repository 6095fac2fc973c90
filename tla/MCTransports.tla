---------------------------- MODULE MCTransports ----------------------------
(***************************************************************************)
(* An instance of Transports for TLC.                                      *)
(***************************************************************************)
EXTENDS Transports

CONSTANTS c1, c2

\* The two queries carry the same ID: only the order on the connection tells
\* their answers apart.
MCCalls == {c1, c2}
MCId == [c \in MCCalls |-> 7]
=============================================================================
