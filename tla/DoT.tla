-------------------------------- MODULE DoT --------------------------------
(***************************************************************************)
(* The DNS-over-TLS resolver (internal/resolver/dot.go): one pooled        *)
(* connection, one exchange on it at a time (exchMu), every error discards *)
(* the connection, and a call that found a pooled connection when it began *)
(* tries once more.  The pool pointer is read and written under t.mu, so   *)
(* each use of it is one step; a dial runs under t.mu too.                 *)
(*                                                                         *)
(* A connection is a byte stream to a server that answers queries in the   *)
(* order it receives them.  The read has no deadline: it returns when      *)
(* something arrives or the connection ends, and not before.               *)
(***************************************************************************)
EXTENDS Naturals, Sequences

CONSTANTS Calls,       \* the calls of Resolve
          Id,          \* the message ID of each call's query
          NConns       \* connections that may exist at once

ASSUME ConnAssumption == NConns \in Nat \ {0}

Conns == 1..NConns
None == 0
Junk == "junk"   \* a reply that is empty, does not parse, or has a foreign ID

ASSUME CallAssumption == None \notin Calls /\ Junk \notin Calls

VARIABLES
  bulky,   \* the calls whose query does not pack, or packs to over 65535 bytes
  pc,      \* where each call is
  tries,   \* which resolveOnce of the call this is
  pooled,  \* pooledBefore
  exch,    \* the call that holds exchMu, or None
  conn,    \* t.conn, or None
  using,   \* the connection of the call's exchange, or None
  own,     \* whether the call dialled that connection itself
  status,  \* "shut" (not open on our side), "up" or "gone" (the server hung up)
  wire,    \* queries the server has yet to deal with
  inbox,   \* replies that arrived and are not read
  reply,   \* what a finished call returns: the call whose answer it is
  cause,   \* why the last exchange failed
  closed,  \* Close has been called
  asked,   \* history: how often the query was sent
  heard,   \* history: the calls whose query the server answered
  mixed    \* history: the calls that overlapped another one or Close

pool == <<conn, status>>
link == <<wire, inbox>>
vars == <<bulky, pc, tries, pooled, exch, conn, using, own, status, wire, inbox,
          reply, cause, closed, asked, heard, mixed>>

Init ==
  /\ bulky \in SUBSET Calls
  /\ pc = [c \in Calls |-> "idle"]
  /\ tries = [c \in Calls |-> 0]
  /\ pooled = {}
  /\ exch = None
  /\ conn = None
  /\ using = [c \in Calls |-> None]
  /\ own = {}
  /\ status = [k \in Conns |-> "shut"]
  /\ wire = [k \in Conns |-> <<>>]
  /\ inbox = [k \in Conns |-> <<>>]
  /\ reply = [c \in Calls |-> None]
  /\ cause = [c \in Calls |-> "none"]
  /\ closed = "no"
  /\ asked = [c \in Calls |-> 0]
  /\ heard = {} /\ mixed = {}

Running == {c \in Calls : pc[c] \notin {"idle", "answered", "failed"}}

-----------------------------------------------------------------------------
(* Resolve and resolveOnce                                                 *)

\* Pooled-ness is captured before exchMu is asked for.
Resolve(c) ==
  /\ pc[c] = "idle"
  /\ pc' = [pc EXCEPT ![c] = "wait"]
  /\ tries' = [tries EXCEPT ![c] = 1]
  /\ pooled' = IF conn # None THEN pooled \union {c} ELSE pooled
  /\ mixed' = IF Running # {} THEN mixed \union Running \union {c} ELSE mixed
  /\ UNCHANGED <<exch, pool, using, own, link, reply, cause, closed, asked, heard>>

\* Faulty form: no exchMu.
LockShared(c) ==
  /\ pc[c] = "wait"
  /\ exch' = c
  /\ pc' = [pc EXCEPT ![c] = "connect"]
  /\ UNCHANGED <<tries, pooled, pool, using, own, link, reply, cause, closed,
                 asked, heard, mixed>>

Lock(c) ==
  /\ pc[c] = "wait" /\ exch = None
  /\ exch' = c
  /\ pc' = [pc EXCEPT ![c] = "connect"]
  /\ UNCHANGED <<tries, pooled, pool, using, own, link, reply, cause, closed,
                 asked, heard, mixed>>

\* getConnection with a connection in the pool: it is not tested.
Reuse(c) ==
  /\ pc[c] = "connect" /\ conn # None
  /\ using' = [using EXCEPT ![c] = conn]
  /\ own' = own \ {c}
  /\ pc' = [pc EXCEPT ![c] = "send"]
  /\ UNCHANGED <<tries, pooled, exch, pool, link, reply, cause, closed, asked,
                 heard, mixed>>

\* Numbers for a new connection: the least that nobody refers to.
Free == {k \in Conns : status[k] = "shut" /\ \A d \in Calls : using[d] # k}
Fresh == CHOOSE k \in Free : \A j \in Free : k <= j

\* getConnection with an empty pool; ctx is not consulted.
Dial(c) ==
  /\ pc[c] = "connect" /\ conn = None /\ Free # {}
  /\ status' = [status EXCEPT ![Fresh] = "up"]
  /\ wire' = [wire EXCEPT ![Fresh] = <<>>]
  /\ inbox' = [inbox EXCEPT ![Fresh] = <<>>]
  /\ conn' = Fresh
  /\ using' = [using EXCEPT ![c] = Fresh]
  /\ own' = own \union {c}
  /\ pc' = [pc EXCEPT ![c] = "send"]
  /\ UNCHANGED <<tries, pooled, exch, reply, cause, closed, asked, heard, mixed>>

\* closeConnection.
Discard ==
  /\ conn' = None
  /\ status' = [k \in Conns |-> IF k = conn THEN "shut" ELSE status[k]]

\* Faulty form: only a call that began without a connection tries again.
RetriesCold(c) == tries[c] = 1 /\ c \notin pooled

Retries(c) == tries[c] = 1 /\ c \in pooled

\* resolveOnce returns an error: exchMu is released and Resolve may try again.
Failed(c, why) ==
  /\ exch' = None
  /\ using' = [using EXCEPT ![c] = None]
  /\ cause' = [cause EXCEPT ![c] = why]
  /\ IF Retries(c)
     THEN pc' = [pc EXCEPT ![c] = "wait"] /\ tries' = [tries EXCEPT ![c] = 2]
     ELSE pc' = [pc EXCEPT ![c] = "failed"] /\ UNCHANGED tries

\* What an exchange on connection k failed on.
Blame(c) == IF c \in own THEN "own" ELSE "pooled"

DialFails(c) ==
  /\ pc[c] = "connect" /\ conn = None
  /\ Failed(c, "dial")
  /\ UNCHANGED <<pooled, pool, own, link, reply, closed, asked, heard, mixed>>

\* The query does not pack or is over 65535 bytes; the connection stays.
PackFails(c) ==
  /\ pc[c] = "send" /\ c \in bulky
  /\ Failed(c, "pack")
  /\ UNCHANGED <<pooled, pool, own, link, reply, closed, asked, heard, mixed>>

\* A write to a connection the server has left may still succeed locally.
Send(c) ==
  /\ pc[c] = "send" /\ c \notin bulky
  /\ status[using[c]] # "shut"
  /\ wire' = IF status[using[c]] = "up"
             THEN [wire EXCEPT ![using[c]] = Append(@, c)] ELSE wire
  /\ asked' = [asked EXCEPT ![c] = @ + 1]
  /\ pc' = [pc EXCEPT ![c] = "read"]
  /\ UNCHANGED <<tries, pooled, exch, pool, using, own, inbox, reply, cause,
                 closed, heard, mixed>>

SendFails(c) ==
  /\ pc[c] = "send" /\ c \notin bulky
  /\ status[using[c]] # "up"
  /\ Discard
  /\ Failed(c, Blame(c))
  /\ UNCHANGED <<pooled, own, link, reply, closed, asked, heard, mixed>>

Arrived(c) == status[using[c]] # "shut" /\ inbox[using[c]] # <<>>

Usable(c, r) == r # Junk /\ Id[r] = Id[c]

ReadReply(c) ==
  /\ pc[c] = "read" /\ Arrived(c)
  /\ Usable(c, Head(inbox[using[c]]))
  /\ reply' = [reply EXCEPT ![c] = Head(inbox[using[c]])]
  /\ inbox' = [inbox EXCEPT ![using[c]] = Tail(@)]
  /\ exch' = None
  /\ using' = [using EXCEPT ![c] = None]
  /\ pc' = [pc EXCEPT ![c] = "answered"]
  /\ UNCHANGED <<tries, pooled, pool, own, wire, cause, closed, asked, heard, mixed>>

ReadJunk(c) ==
  /\ pc[c] = "read" /\ Arrived(c)
  /\ ~ Usable(c, Head(inbox[using[c]]))
  /\ inbox' = [inbox EXCEPT ![using[c]] = Tail(@)]
  /\ Discard
  /\ Failed(c, Blame(c))
  /\ UNCHANGED <<pooled, own, wire, reply, closed, asked, heard, mixed>>

ReadFails(c) ==
  /\ pc[c] = "read" /\ ~ Arrived(c) /\ status[using[c]] # "up"
  /\ Discard
  /\ Failed(c, Blame(c))
  /\ UNCHANGED <<pooled, own, link, reply, closed, asked, heard, mixed>>

\* Close, from the chain's Close; calls may still be running.
Close ==
  /\ closed = "no"
  /\ closed' = "yes"
  /\ Discard
  /\ mixed' = mixed \union Running
  /\ UNCHANGED <<pc, tries, pooled, exch, using, own, link, reply, cause, asked, heard>>

-----------------------------------------------------------------------------
(* The server at the other end.                                            *)

ServerAnswers(k) ==
  /\ status[k] = "up" /\ wire[k] # <<>>
  /\ inbox' = [inbox EXCEPT ![k] = Append(@, Head(wire[k]))]
  /\ heard' = heard \union {Head(wire[k])}
  /\ wire' = [wire EXCEPT ![k] = Tail(@)]
  /\ UNCHANGED <<pc, tries, pooled, exch, pool, using, own, reply, cause, closed,
                 asked, mixed>>

ServerGarbles(k) ==
  /\ status[k] = "up" /\ wire[k] # <<>>
  /\ inbox' = [inbox EXCEPT ![k] = Append(@, Junk)]
  /\ wire' = [wire EXCEPT ![k] = Tail(@)]
  /\ UNCHANGED <<pc, tries, pooled, exch, pool, using, own, reply, cause, closed,
                 asked, heard, mixed>>

ServerHangsUp(k) ==
  /\ status[k] = "up"
  /\ status' = [status EXCEPT ![k] = "gone"]
  /\ UNCHANGED <<pc, tries, pooled, exch, conn, using, own, link, reply, cause,
                 closed, asked, heard, mixed>>

-----------------------------------------------------------------------------
Step(c) ==
  \/ Lock(c) \/ Reuse(c) \/ Dial(c) \/ DialFails(c)
  \/ PackFails(c) \/ Send(c) \/ SendFails(c)
  \/ ReadReply(c) \/ ReadJunk(c) \/ ReadFails(c)

Server(k) == ServerAnswers(k) \/ ServerGarbles(k) \/ ServerHangsUp(k)

Steps ==
  \/ \E c \in Calls : Resolve(c) \/ Step(c)
  \/ Close
  \/ \E k \in Conns : Server(k)

Next == Steps /\ UNCHANGED bulky

Spec == Init /\ [][Next]_vars

-----------------------------------------------------------------------------
TypeOK ==
  /\ pc \in [Calls -> {"idle", "wait", "connect", "send", "read", "answered", "failed"}]
  /\ tries \in [Calls -> 0..2]
  /\ pooled \subseteq Calls /\ own \subseteq Calls
  /\ exch \in Calls \union {None}
  /\ conn \in Conns \union {None}
  /\ using \in [Calls -> Conns \union {None}]
  /\ status \in [Conns -> {"shut", "up", "gone"}]
  /\ wire \in [Conns -> Seq(Calls)]
  /\ inbox \in [Conns -> Seq(Calls \union {Junk})]
  /\ reply \in [Calls -> Calls \union {None}]
  /\ cause \in [Calls -> {"none", "dial", "pack", "own", "pooled"}]
  /\ closed \in {"no", "yes"}
  /\ asked \in [Calls -> 0..2]
  /\ heard \subseteq Calls /\ mixed \subseteq Calls

\* A connection that is open on our side is the pooled one: resolveOnce and
\* Close lose track of none, in whatever order they run.
NoStrayConnection == \A k \in Conns : status[k] # "shut" => conn = k

\* A call that ran alone does not fail because the pooled connection had gone
\* stale: it has tried a connection it dialled itself, or the dial failed, or
\* the query does not pack (the retry of Resolve).
StalePoolAbsorbed ==
  \A c \in Calls : pc[c] = "failed" /\ c \notin mixed => cause[c] # "pooled"

\* What the resolver is to the chain: a call answered with another call's reply
\* has no counterpart in Transport.
OutcomeOf(c) ==
  CASE pc[c] = "idle" -> "idle"
    [] pc[c] = "failed" -> "failed"
    [] pc[c] = "answered" -> IF reply[c] = c THEN "answered" ELSE "foreign"
    [] OTHER -> "pending"

Abstract == INSTANCE Transport WITH outcome <- [c \in Calls |-> OutcomeOf(c)]

\* Every call of the DoT resolver is a call of an abstract transport: sent at
\* most twice and answered only with what the server answered to that query,
\* even when two queries carry the same ID.
ImplementsTransport == Abstract!Spec
=============================================================================
