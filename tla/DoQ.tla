-------------------------------- MODULE DoQ --------------------------------
(***************************************************************************)
(* The DNS-over-QUIC resolver (internal/resolver/doq.go): one pooled QUIC  *)
(* connection shared by every call, a stream of its own for each exchange, *)
(* a deadline on every wait, and one more exchange after a failure that    *)
(* concerns the stream.  A connection that a call found bad is recycled in *)
(* two steps: the pool pointer is cleared under q.mu if it still points to *)
(* that connection, and after the unlock the connection itself is closed,  *)
(* whoever else has a stream on it.                                        *)
(***************************************************************************)
EXTENDS Naturals

CONSTANTS Calls,       \* the calls of Resolve
          NConns       \* connections that may exist at once

Conns == 1..NConns
None == 0

VARIABLES
  bulky,   \* the calls whose query does not pack, or packs to over 65535 bytes
  pc,      \* where each call is
  tries,   \* which exchangeOnce of the call this is
  opens,   \* how many connections this exchangeOnce has tried to open a stream on
  conn,    \* q.conn, or None
  idle,    \* "long" when lastUsed is 20 s or more ago
  live,    \* the connections that are open on our side
  using,   \* the connection of the call's exchange, or None
  own,     \* whether the call dialled that connection itself
  stream,  \* the call's stream: what the server put on it
  after,   \* where a call goes once it has recycled its connection
  cause,   \* why a failed call failed
  closed,  \* Close has been called
  asked,   \* history: how often the query was sent
  heard,   \* history: the calls whose query the server answered
  mixed    \* history: the calls that overlapped another one or Close

pool == <<conn, idle, live>>
hist == <<asked, heard, mixed>>
vars == <<bulky, pc, tries, opens, conn, idle, live, using, own, stream, after, cause,
          closed, asked, heard, mixed>>

Init ==
  /\ bulky \in SUBSET Calls
  /\ pc = [c \in Calls |-> "idle"]
  /\ tries = [c \in Calls |-> 0]
  /\ opens = [c \in Calls |-> 0]
  /\ conn = None /\ idle = "short" /\ live = {}
  /\ using = [c \in Calls |-> None]
  /\ own = {}
  /\ stream = [c \in Calls |-> "none"]
  /\ after = [c \in Calls |-> "none"]
  /\ cause = [c \in Calls |-> "none"]
  /\ closed = "no"
  /\ asked = [c \in Calls |-> 0]
  /\ heard = {} /\ mixed = {}

Running == {c \in Calls : pc[c] \notin {"idle", "answered", "failed"}}

-----------------------------------------------------------------------------
Resolve(c) ==
  /\ pc[c] = "idle"
  /\ pc' = [pc EXCEPT ![c] = "get"]
  /\ tries' = [tries EXCEPT ![c] = 1]
  /\ mixed' = IF Running # {} THEN mixed \union Running \union {c} ELSE mixed
  /\ UNCHANGED <<opens, pool, using, own, stream, after, cause, closed, asked, heard>>

-----------------------------------------------------------------------------
(* getConnection, under q.mu throughout.                                   *)

Takes(c, k) ==
  /\ using' = [using EXCEPT ![c] = k]
  /\ opens' = [opens EXCEPT ![c] = @ + 1]
  /\ pc' = [pc EXCEPT ![c] = "open"]

Reuse(c) ==
  /\ pc[c] = "get" /\ conn # None /\ idle = "short"
  /\ Takes(c, conn)
  /\ own' = own \ {c}
  /\ UNCHANGED <<tries, pool, stream, after, cause, closed, hist>>

\* Numbers for a new connection: the least that nobody refers to.
Free == {k \in Conns : k \notin live \ {conn} /\ \A d \in Calls : using[d] # k}
Fresh == CHOOSE k \in Free : \A j \in Free : k <= j

\* An empty pool, or a pooled connection too old to reuse: that one is closed,
\* with whatever streams it carries, whether or not the dial succeeds.
Dial(c) ==
  /\ pc[c] = "get" /\ (conn = None \/ idle = "long") /\ Free # {}
  /\ live' = (live \ {conn}) \union {Fresh}
  /\ conn' = Fresh /\ idle' = "short"
  /\ Takes(c, Fresh)
  /\ own' = own \union {c}
  /\ UNCHANGED <<tries, stream, after, cause, closed, hist>>

Ends(c, how, why) ==
  /\ pc' = [pc EXCEPT ![c] = how]
  /\ cause' = [cause EXCEPT ![c] = why]
  /\ tries' = [tries EXCEPT ![c] = 0]
  /\ opens' = [opens EXCEPT ![c] = 0]
  /\ using' = [using EXCEPT ![c] = None]
  /\ stream' = [stream EXCEPT ![c] = "none"]
  /\ own' = own \ {c}

DialFails(c) ==
  /\ pc[c] = "get" /\ (conn = None \/ idle = "long")
  /\ live' = live \ {conn}
  /\ conn' = None /\ idle' = "short"
  /\ Ends(c, "failed", "dial")
  /\ UNCHANGED <<after, closed, hist>>

\* 20 seconds pass since the pool was last used successfully.
Ages ==
  /\ idle = "short" /\ conn # None
  /\ idle' = "long"
  /\ UNCHANGED <<pc, tries, opens, conn, live, using, own, stream, after, cause,
                 closed, hist>>

-----------------------------------------------------------------------------
(* recycleConn                                                             *)

\* Faulty form: clears the pool whatever it points to.
UnpoolsAny(c) == conn' = None /\ UNCHANGED idle

\* The pool pointer, under q.mu.
Unpools(c) ==
  IF conn = using[c] THEN conn' = None /\ idle' = "short" ELSE UNCHANGED <<conn, idle>>

Recycles(c, next) ==
  /\ Unpools(c)
  /\ after' = [after EXCEPT ![c] = next]
  /\ pc' = [pc EXCEPT ![c] = "drop"]
  /\ UNCHANGED <<tries, opens, live, using, own, cause, closed>>

\* Faulty form: nothing counts the attempts.
RetryAlways(c) == "retry"

\* Where a failure that concerns the stream leads: Resolve asks once more.
Retry(c) == IF tries[c] = 1 THEN "retry" ELSE "failed"

\* Faulty form: closes whatever is pooled by now, as closeConnection would.
ClosesPooled(c) ==
  live' = live \ {using[c], conn} /\ conn' = None /\ UNCHANGED idle

\* The connection itself, after the unlock; the exchange is over.
Closes(c) == live' = live \ {using[c]} /\ UNCHANGED <<conn, idle>>

Drop(c) ==
  /\ pc[c] = "drop"
  /\ Closes(c)
  /\ after' = [after EXCEPT ![c] = "none"]
  /\ UNCHANGED <<closed, hist>>
  /\ \/ /\ after[c] = "failed"
        /\ Ends(c, "failed", IF c \in own THEN "own" ELSE "pooled")
     \/ /\ after[c] # "failed"
        /\ pc' = [pc EXCEPT ![c] = "get"]
        /\ tries' = [tries EXCEPT ![c] = IF after[c] = "retry" THEN 2 ELSE @]
        /\ opens' = [opens EXCEPT ![c] = IF after[c] = "reopen" THEN @ ELSE 0]
        /\ using' = [using EXCEPT ![c] = None]
        /\ stream' = [stream EXCEPT ![c] = "none"]
        /\ UNCHANGED <<own, cause>>

-----------------------------------------------------------------------------
(* The exchange on the stream.  A stream is opened and written to in one   *)
(* step: neither waits for the server, and a connection closed in between  *)
(* shows as a failed write.                                                *)

Ask(c) ==
  /\ pc[c] = "open" /\ c \notin bulky /\ using[c] \in live
  /\ stream' = [stream EXCEPT ![c] = "sent"]
  /\ asked' = [asked EXCEPT ![c] = @ + 1]
  /\ pc' = [pc EXCEPT ![c] = "read"]
  /\ UNCHANGED <<tries, opens, pool, using, own, after, cause, closed, heard, mixed>>

\* Faulty form: nothing counts the connections tried.
OpenFailsUncounted(c) ==
  /\ pc[c] = "open"
  /\ Recycles(c, "reopen")
  /\ UNCHANGED <<stream, hist>>

\* The connection is down, or openStreamTimeout passes: once per exchangeOnce
\* another connection is tried.
OpenFails(c) ==
  /\ pc[c] = "open"
  /\ Recycles(c, IF opens[c] = 1 THEN "reopen" ELSE "failed")
  /\ UNCHANGED <<stream, hist>>

\* The query's own fault: not retried, nothing recycled.
PackFails(c) ==
  /\ pc[c] = "open" /\ c \in bulky /\ using[c] \in live
  /\ Ends(c, "failed", "pack")
  /\ UNCHANGED <<pool, after, closed, hist>>

AskFails(c) ==
  /\ pc[c] = "open" /\ c \notin bulky
  /\ Recycles(c, Retry(c))
  /\ UNCHANGED <<stream, hist>>

\* The server's answer is on the stream.
Answered(c) ==
  /\ pc[c] = "read" /\ stream[c] = "answer" /\ using[c] \in live
  /\ idle' = "short"
  /\ Ends(c, "answered", "none")
  /\ UNCHANGED <<conn, live, after, closed, hist>>

\* What arrives does not parse, or doqResponseMatchesQuery or doqResponseUsable
\* rejects it: another question, truncated, or empty without a SOA.
Rejected(c) ==
  /\ pc[c] = "read" /\ stream[c] = "sent" /\ using[c] \in live
  /\ Recycles(c, Retry(c))
  /\ UNCHANGED <<stream, hist>>

\* The connection ends, or streamExchangeTimeout passes whatever its state.
ReadFails(c) ==
  /\ pc[c] = "read"
  /\ Recycles(c, Retry(c))
  /\ UNCHANGED <<stream, hist>>

\* Close, from the chain's Close; calls may still be running.
Close ==
  /\ closed = "no" /\ closed' = "yes"
  /\ live' = live \ {conn}
  /\ conn' = None /\ idle' = "short"
  /\ mixed' = mixed \union Running
  /\ UNCHANGED <<pc, tries, opens, using, own, stream, after, cause, asked, heard>>

\* The server answers the query of a stream; it may never do so.
ServerAnswers(c) ==
  /\ pc[c] = "read" /\ stream[c] = "sent" /\ using[c] \in live
  /\ stream' = [stream EXCEPT ![c] = "answer"]
  /\ heard' = heard \union {c}
  /\ UNCHANGED <<pc, tries, opens, pool, using, own, after, cause, closed, asked, mixed>>

-----------------------------------------------------------------------------
Step(c) ==
  \/ Reuse(c) \/ Dial(c) \/ DialFails(c)
  \/ OpenFails(c) \/ PackFails(c) \/ Ask(c) \/ AskFails(c)
  \/ Answered(c) \/ Rejected(c) \/ ReadFails(c) \/ Drop(c)

Steps ==
  \/ \E c \in Calls : Resolve(c) \/ Step(c) \/ ServerAnswers(c)
  \/ Close \/ Ages

Next == Steps /\ UNCHANGED bulky

Spec == Init /\ [][Next]_vars

-----------------------------------------------------------------------------
TypeOK ==
  /\ pc \in [Calls -> {"idle", "get", "open", "read", "drop", "answered", "failed"}]
  /\ tries \in [Calls -> 0..2] /\ opens \in [Calls -> 0..2]
  /\ conn \in Conns \union {None} /\ idle \in {"short", "long"}
  /\ live \subseteq Conns
  /\ using \in [Calls -> Conns \union {None}]
  /\ stream \in [Calls -> {"none", "sent", "answer"}]
  /\ after \in [Calls -> {"none", "reopen", "retry", "failed"}]
  /\ cause \in [Calls -> {"none", "dial", "pack", "own", "pooled"}]
  /\ closed \in {"no", "yes"}
  /\ asked \in [Calls -> 0..2]
  /\ own \subseteq Calls /\ heard \subseteq Calls /\ mixed \subseteq Calls

\* A connection open on our side is the pooled one or about to be closed by a
\* call that found it bad, and the pooled one is open: recycleConn's two steps,
\* the rollover in getConnection and Close lose no connection between them.
NoStrayConnection ==
  /\ \A k \in live : conn = k \/ \E c \in Calls : pc[c] = "drop" /\ using[c] = k
  /\ conn # None => conn \in live

\* recycleConn spares a connection dialled in the meantime: one leaves the pool
\* or is closed only by a call whose own exchange on it failed, or because it
\* aged in the pool, or at Close.
SparesSiblings ==
  \A k \in Conns :
    (k \in live /\ k \notin live') \/ (conn = k /\ conn' # k) =>
      \/ \E c \in Calls : using[c] = k /\ "drop" \in {pc[c], pc'[c]}
      \/ conn = k /\ (idle = "long" \/ closed' # closed)

SiblingsSpared == [][SparesSiblings]_vars

\* A call that ran alone does not fail because of the connection it found in
\* the pool: it has tried one it dialled itself, or the dial failed, or the
\* query does not pack.
StalePoolAbsorbed ==
  \A c \in Calls : pc[c] = "failed" /\ c \notin mixed => cause[c] # "pooled"

\* Every call returns whatever the server does: each wait has a deadline and
\* the attempts are counted.
CallsReturn ==
  \A c \in Calls : (pc[c] = "get") ~> (pc[c] \in {"answered", "failed"})

OutcomeOf(c) ==
  IF pc[c] \in {"idle", "answered", "failed"} THEN pc[c] ELSE "pending"

Abstract == INSTANCE Transport WITH outcome <- [c \in Calls |-> OutcomeOf(c)]

\* Every call of the DoQ resolver is a call of an abstract transport: the query
\* is sent at most twice and answered only if the server answered it.
ImplementsTransport == Abstract!Spec
=============================================================================
