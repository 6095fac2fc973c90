----------------------------- MODULE Transports -----------------------------
(***************************************************************************)
(* The three upstream transports.  A behaviour is one resolver of the      *)
(* chain, of whichever protocol its upstream is configured for; the        *)
(* properties are the same for all.                                        *)
(***************************************************************************)
EXTENDS DoT

VARIABLES proto, opens, idle, live, stream, after, h3

dotOnly == <<pooled, exch, status, wire, inbox, reply>>
doqOnly == <<opens, idle, live, after>>
allVars == <<vars, proto, opens, idle, live, stream, after, h3>>

Q == INSTANCE DoQ
H == INSTANCE DoH

InitTransports ==
  /\ Init /\ Q!Init /\ H!Init
  /\ proto \in {"DoT", "DoQ", "DoH"}
  /\ (proto # "DoH" => h3 = "h2")

NextDoT == proto = "DoT" /\ Next /\ UNCHANGED <<proto, doqOnly, stream, h3>>
NextDoQ == proto = "DoQ" /\ Q!Next /\ UNCHANGED <<proto, dotOnly, h3>>
NextDoH ==
  proto = "DoH" /\ H!Next
    /\ UNCHANGED <<proto, dotOnly, doqOnly, tries, conn, using, own, cause, mixed>>

\* The steps of a call are those of a goroutine, which the scheduler runs; a
\* DoT or DoQ wait ends when the connection does, a DoQ or DoH wait also at its
\* deadline.
CallSteps(c) ==
  \/ proto = "DoT" /\ Step(c) /\ UNCHANGED <<bulky, proto, doqOnly, stream, h3>>
  \/ proto = "DoQ" /\ Q!Step(c) /\ UNCHANGED <<bulky, proto, dotOnly, h3>>
  \/ proto = "DoH" /\ H!Step(c)
       /\ UNCHANGED <<bulky, proto, dotOnly, doqOnly, tries, conn, using, own, cause, mixed>>

\* A DoT server that deals with what it receives or hangs up.
DoTServer(k) ==
  proto = "DoT" /\ Server(k) /\ UNCHANGED <<bulky, proto, doqOnly, stream, h3>>

SpecTransports ==
  /\ InitTransports
  /\ [][NextDoT \/ NextDoQ \/ NextDoH]_allVars
  /\ \A c \in Calls : WF_allVars(CallSteps(c))
  /\ \A k \in Conns : WF_allVars(DoTServer(k))

-----------------------------------------------------------------------------
\* The state of the resolver that runs (TLSResolver, DoQResolver or
\* HTTPResolver) has its type: among it that no call tries, asks or opens a
\* stream more than twice (Resolve's one retry, exchangeOnce's one re-dial).
TransportTypeOK ==
  CASE proto = "DoT" -> TypeOK
    [] proto = "DoQ" -> Q!TypeOK
    [] proto = "DoH" -> H!TypeOK

\* No resolver loses track of a connection it has open: what getConnection
\* dialled is the pooled one, or a call is about to close it (closeConnection,
\* recycleConn), or it is closed.
NoneStray ==
  /\ proto = "DoT" => NoStrayConnection
  /\ proto = "DoQ" => Q!NoStrayConnection

\* A call of Resolve that ran alone does not fail on a connection it found in
\* the pool: the one retry of dot.go and doq.go has dialled a fresh one.
LoneCallRecovers ==
  proto \in {"DoT", "DoQ"} => StalePoolAbsorbed

\* What a DoQ call is using is closed under it only for cause: a sibling met a
\* failure on the same connection (recycleConn), it idled out, or Close ran.
DoQSiblingsSpared == [][proto = "DoQ" => Q!SparesSiblings]_allVars

\* Every call returns: over DoQ and DoH whatever the server does, over DoT
\* (which reads without a deadline) as long as the server acts.
CallsReturn ==
  \A c \in Calls : (pc[c] # "idle") ~> (pc[c] \in {"answered", "failed"})

OutcomeIn(c) == IF proto = "DoT" THEN OutcomeOf(c) ELSE Q!OutcomeOf(c)
AsTransport == INSTANCE Transport WITH outcome <- [c \in Calls |-> OutcomeIn(c)]

\* Each transport implements the abstract one that the fallback chain calls: a
\* call of Resolve asks the server at most twice, and is answered only if the
\* server answered that very call.
TransportsImplement == AsTransport!Spec
=============================================================================
