------------------------------ MODULE Transport ------------------------------
(***************************************************************************)
(* What the upstream chain relies on when it calls Resolve of one of its   *)
(* per-protocol resolvers (the Resolver interface of                       *)
(* internal/resolver/fallback.go), whatever the protocol: the query is put *)
(* on the wire at most twice, the answer returned is one the server gave   *)
(* to this very query, and a call returns once.  The modules DoT, DoQ and  *)
(* DoH implement it.                                                       *)
(***************************************************************************)
EXTENDS Naturals

CONSTANT Calls   \* the calls of Resolve

\* resolveOnce and exchangeOnce run at most twice per call.
MaxTries == 2

VARIABLES
  outcome,  \* "idle", "pending", "answered" or "failed"
  asked,    \* how often the query was sent
  heard     \* the calls whose query the server has answered

Init ==
  /\ outcome = [c \in Calls |-> "idle"]
  /\ asked = [c \in Calls |-> 0]
  /\ heard = {}

Begin(c) ==
  /\ outcome[c] = "idle"
  /\ outcome' = [outcome EXCEPT ![c] = "pending"]
  /\ UNCHANGED <<asked, heard>>

Ask(c) ==
  /\ outcome[c] = "pending" /\ asked[c] < MaxTries
  /\ asked' = [asked EXCEPT ![c] = @ + 1]
  /\ UNCHANGED <<outcome, heard>>

\* The server may answer a query whose caller has given up.
Hear(c) ==
  /\ asked[c] > 0
  /\ heard' = heard \union {c}
  /\ UNCHANGED <<outcome, asked>>

Answer(c) ==
  /\ outcome[c] = "pending" /\ c \in heard
  /\ outcome' = [outcome EXCEPT ![c] = "answered"]
  /\ UNCHANGED <<asked, heard>>

Fail(c) ==
  /\ outcome[c] = "pending"
  /\ outcome' = [outcome EXCEPT ![c] = "failed"]
  /\ UNCHANGED <<asked, heard>>

Next == \E c \in Calls : Begin(c) \/ Ask(c) \/ Hear(c) \/ Answer(c) \/ Fail(c)

Spec == Init /\ [][Next]_<<outcome, asked, heard>>
=============================================================================
