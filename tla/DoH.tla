-------------------------------- MODULE DoH --------------------------------
(***************************************************************************)
(* The DNS-over-HTTPS resolver (internal/resolver/doh.go): every call is   *)
(* one POST; the HTTP client, which is external, pairs the response with   *)
(* the request and ends the wait after 30 seconds.  There is no retry and  *)
(* no look at the message ID.  Close drops idle HTTP/2 connections only,   *)
(* but aborts every request in flight over HTTP/3.                         *)
(***************************************************************************)
EXTENDS Naturals

CONSTANT Calls   \* the calls of Resolve

VARIABLES
  bulky,   \* the calls whose query does not pack
  pc,      \* where each call is
  h3,      \* "h3" when doh3 selects HTTP/3, else "h2"
  stream,  \* the response to the call's POST
  closed,  \* Close has been called
  asked,   \* history: how often the query was sent
  heard    \* history: the calls whose query the server answered

vars == <<bulky, pc, h3, stream, closed, asked, heard>>

Init ==
  /\ bulky \in SUBSET Calls
  /\ pc = [c \in Calls |-> "idle"]
  /\ h3 \in {"h2", "h3"}
  /\ stream = [c \in Calls |-> "none"]
  /\ closed = "no"
  /\ asked = [c \in Calls |-> 0]
  /\ heard = {}

Ends(c, how) ==
  /\ pc' = [pc EXCEPT ![c] = how]
  /\ stream' = [stream EXCEPT ![c] = "none"]
  /\ UNCHANGED <<h3, closed, asked, heard>>

Resolve(c) ==
  /\ pc[c] = "idle"
  /\ pc' = [pc EXCEPT ![c] = "pack"]
  /\ UNCHANGED <<h3, stream, closed, asked, heard>>

PackFails(c) == pc[c] = "pack" /\ c \in bulky /\ Ends(c, "failed")

Post(c) ==
  /\ pc[c] = "pack" /\ c \notin bulky
  /\ pc' = [pc EXCEPT ![c] = "read"]
  /\ stream' = [stream EXCEPT ![c] = "sent"]
  /\ asked' = [asked EXCEPT ![c] = @ + 1]
  /\ UNCHANGED <<h3, closed, heard>>

\* No connection, a broken one, or the client's timeout.
PostFails(c) == pc[c] = "read" /\ Ends(c, "failed")

Answered(c) == pc[c] = "read" /\ stream[c] = "answer" /\ Ends(c, "answered")

\* A status other than 200, or a body that does not unpack, comes back.
Rejected(c) == pc[c] = "read" /\ stream[c] = "sent" /\ Ends(c, "failed")

\* A request in flight over HTTP/3 sees PostFails next.
Close ==
  /\ closed = "no" /\ closed' = "yes"
  /\ stream' = [c \in Calls |-> IF h3 = "h3" /\ pc[c] = "read" THEN "aborted" ELSE stream[c]]
  /\ UNCHANGED <<pc, h3, asked, heard>>

ServerAnswers(c) ==
  /\ stream[c] = "sent"
  /\ stream' = [stream EXCEPT ![c] = "answer"]
  /\ heard' = heard \union {c}
  /\ UNCHANGED <<pc, h3, closed, asked>>

Step(c) == PackFails(c) \/ Post(c) \/ PostFails(c) \/ Answered(c) \/ Rejected(c)

Steps ==
  \/ \E c \in Calls : Resolve(c) \/ Step(c) \/ ServerAnswers(c)
  \/ Close

Next == Steps /\ UNCHANGED bulky

Spec == Init /\ [][Next]_vars

-----------------------------------------------------------------------------
TypeOK ==
  /\ pc \in [Calls -> {"idle", "pack", "read", "answered", "failed"}]
  /\ h3 \in {"h2", "h3"}
  /\ stream \in [Calls -> {"none", "sent", "answer", "aborted"}]
  /\ closed \in {"no", "yes"}
  /\ asked \in [Calls -> 0..1]
  /\ heard \subseteq Calls

OutcomeOf(c) ==
  IF pc[c] \in {"idle", "answered", "failed"} THEN pc[c] ELSE "pending"

Abstract == INSTANCE Transport WITH outcome <- [c \in Calls |-> OutcomeOf(c)]

\* Every call of the DoH resolver is a call of an abstract transport; a status
\* other than 200 and a body that does not unpack are no answers.
ImplementsTransport == Abstract!Spec
=============================================================================
