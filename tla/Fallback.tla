------------------------------ MODULE Fallback ------------------------------
(***************************************************************************)
(* The upstream chain with its two-phase health model                      *)
(* (internal/resolver/fallback.go).  Client queries run Resolve            *)
(* concurrently; one goroutine probes DOWN upstreams on a ticker; Close    *)
(* ends it.  Every read or write of an UpstreamState is under f.mu and is  *)
(* one step; the call of an upstream's Resolver in between is not, so the  *)
(* state an attempt was chosen from may be stale when its outcome is       *)
(* recorded.                                                               *)
(*                                                                         *)
(* Data kept: the order of the chain, each upstream's State,               *)
(* ConsecutiveErrors and LastError, the phase a query captured, and how an *)
(* upstream behaves ("link").  A message is only "answer" (it matches the  *)
(* question), "foreign" (an answer to another question) or "error".        *)
(***************************************************************************)
EXTENDS Naturals

CONSTANTS N,          \* length of the chain
          Queries,    \* concurrent calls of Resolve
          Threshold,  \* phase2FailureThreshold
          MaxErrs,    \* where the model saturates ConsecutiveErrors
          Links,      \* the ways each upstream may behave in this instance
          NoDeadline, \* chain entries whose Resolve ignores ctx (DoT)
          MayClose    \* whether the chain is closed in this instance

Ups == 1..N

Behaviours == {"good", "dead", "foreign", "silent"}

ASSUME ChainAssumption == N \in Nat \ {0} /\ NoDeadline \subseteq Ups
ASSUME ThresholdAssumption == Threshold \in Nat \ {0}
\* The counter is only compared with Threshold, so saturating above it is exact.
ASSUME BoundAssumption == MaxErrs \in Nat /\ MaxErrs >= Threshold
ASSUME LinkAssumption ==
  /\ Links \in [Ups -> SUBSET Behaviours]
  /\ \A i \in Ups : "good" \in Links[i]
ASSUME CloseAssumption == MayClose \in BOOLEAN

VARIABLES
  phase,      \* getCurrentPhase: 1 until phase1Duration has passed, then 2
  state,      \* UpstreamState.State
  errs,       \* UpstreamState.ConsecutiveErrors
  lastError,  \* UpstreamState.LastError: empty or not
  pc,         \* where each Resolve call is
  idx,        \* the loop variable of each Resolve call
  ph,         \* the phase each Resolve call captured
  out,        \* what the attempt in flight returned
  failed,     \* the upstreams this call attempted without success
  result,     \* what the call returned
  fellBack,   \* the calls that bumped stats.UpstreamFallbacks
  hpc,        \* where the health-check goroutine is
  todo,       \* downUpstreams not yet dealt with in this round
  hout,       \* what the probe returned
  closing,    \* progress of Close
  link,       \* environment: how each upstream behaves now
  expired,    \* environment: the calls whose ctx is done
  everBad,    \* history: upstreams that ever misbehaved
  everCut     \* history: upstreams on which an attempt was cut by a done ctx or by Close

health == <<state, errs, lastError>>
calls == <<pc, idx, ph, out, failed, result, fellBack>>
prober == <<hpc, todo, hout>>
env == <<link, expired, everBad, everCut>>
vars == <<phase, health, calls, prober, closing, env>>

Init ==
  /\ phase = 1
  /\ state = [i \in Ups |-> "UP"]
  /\ errs = [i \in Ups |-> 0]
  /\ lastError = [i \in Ups |-> "none"]
  /\ pc = [q \in Queries |-> "idle"]
  /\ idx = [q \in Queries |-> 1]
  /\ ph = [q \in Queries |-> 1]
  /\ out = [q \in Queries |-> "none"]
  /\ failed = [q \in Queries |-> {}]
  /\ result = [q \in Queries |-> "none"]
  /\ fellBack = {}
  /\ hpc = "select" /\ todo = {} /\ hout = "none"
  /\ closing = "open"
  /\ link = [i \in Ups |-> "good"]
  /\ expired = {} /\ everBad = {} /\ everCut = {}

-----------------------------------------------------------------------------
(* Health bookkeeping, both under f.mu.                                    *)

\* Faulty form: the counter survives a success.
RecordSuccessKeepsCount(i) ==
  /\ state' = [state EXCEPT ![i] = "UP"]
  /\ lastError' = [lastError EXCEPT ![i] = "none"]
  /\ UNCHANGED errs

RecordSuccess(i) ==
  /\ state' = [state EXCEPT ![i] = "UP"]
  /\ errs' = [errs EXCEPT ![i] = 0]
  /\ lastError' = [lastError EXCEPT ![i] = "none"]

Bumped(i) == IF errs[i] < MaxErrs THEN errs[i] + 1 ELSE errs[i]

\* In phase 2 below the threshold the new state is SLOW whatever the old one was.
StateAfterError(n, p) == IF p = 1 \/ n >= Threshold THEN "DOWN" ELSE "SLOW"

RecordError(i, p) ==
  /\ errs' = [errs EXCEPT ![i] = Bumped(i)]
  /\ lastError' = [lastError EXCEPT ![i] = "error"]
  /\ state' = [state EXCEPT ![i] = StateAfterError(Bumped(i), p)]

-----------------------------------------------------------------------------
(* Resolve                                                                 *)

Kinds == {"answer", "foreign", "error"}

\* How Resolver.Resolve on i may return: at once with an error if the ctx it is
\* given is done, and never if the upstream is silent and no deadline is set.
Outcomes(i, done) ==
  {o \in Kinds :
     IF done /\ i \notin NoDeadline THEN o = "error"
     ELSE \/ o = "answer" /\ link[i] = "good"
          \/ o = "foreign" /\ link[i] = "foreign"
          \/ o = "error" /\ link[i] = "dead"
          \/ o = "error" /\ link[i] = "silent" /\ i \notin NoDeadline}

\* QDCOUNT is 1: capture the phase and enter the loop.
Start(q) ==
  /\ pc[q] = "idle"
  /\ pc' = [pc EXCEPT ![q] = "choose"]
  /\ ph' = [ph EXCEPT ![q] = phase]
  /\ UNCHANGED <<phase, health, idx, out, failed, result, fellBack, prober, closing, env>>

\* The caller takes the result; the call's locals and its ctx are gone.
Finish(q) ==
  /\ pc[q] = "done"
  /\ pc' = [pc EXCEPT ![q] = "idle"]
  /\ idx' = [idx EXCEPT ![q] = 1]
  /\ ph' = [ph EXCEPT ![q] = 1]
  /\ failed' = [failed EXCEPT ![q] = {}]
  /\ result' = [result EXCEPT ![q] = "none"]
  /\ fellBack' = fellBack \ {q}
  /\ expired' = expired \ {q}
  /\ UNCHANGED <<phase, health, out, prober, closing, link, everBad, everCut>>

\* Faulty form: the malformed query reaches the first upstream, which errs.
RejectMalformedBlames(q) ==
  /\ pc[q] = "idle"
  /\ pc' = [pc EXCEPT ![q] = "done"]
  /\ result' = [result EXCEPT ![q] = "rejected"]
  /\ RecordError(1, phase)
  /\ UNCHANGED <<phase, idx, ph, out, failed, fellBack, prober, closing, env>>

\* QDCOUNT is not 1: errResponseMismatch before the loop.
RejectMalformed(q) ==
  /\ pc[q] = "idle"
  /\ pc' = [pc EXCEPT ![q] = "done"]
  /\ result' = [result EXCEPT ![q] = "rejected"]
  /\ UNCHANGED <<phase, health, idx, ph, out, failed, fellBack, prober, closing, env>>

MustSkip(i) == state[i] = "DOWN" /\ N > 1

\* Faulty form: the loop does not move past a DOWN upstream.
SkipDownStays(q) ==
  /\ pc[q] = "choose" /\ idx[q] \in Ups /\ MustSkip(idx[q])
  /\ UNCHANGED vars

SkipDown(q) ==
  /\ pc[q] = "choose" /\ idx[q] \in Ups /\ MustSkip(idx[q])
  /\ idx' = [idx EXCEPT ![q] = @ + 1]
  /\ UNCHANGED <<phase, health, pc, ph, out, failed, result, fellBack, prober, closing, env>>

Attempt(q) ==
  /\ pc[q] = "choose" /\ idx[q] \in Ups /\ ~MustSkip(idx[q])
  /\ pc' = [pc EXCEPT ![q] = "wait"]
  /\ UNCHANGED <<phase, health, idx, ph, out, failed, result, fellBack, prober, closing, env>>

\* The loop is over: ErrAllUpstreamsFailed.
Exhausted(q) ==
  /\ pc[q] = "choose" /\ idx[q] \notin Ups
  /\ pc' = [pc EXCEPT ![q] = "done"]
  /\ result' = [result EXCEPT ![q] = "failed"]
  /\ UNCHANGED <<phase, health, idx, ph, out, failed, fellBack, prober, closing, env>>

\* upstream.Resolver.Resolve returns.
Return(q) ==
  /\ pc[q] = "wait"
  /\ \E o \in Outcomes(idx[q], q \in expired) : out' = [out EXCEPT ![q] = o]
  /\ everCut' = everCut \cup {i \in {idx[q]} : q \in expired /\ i \notin NoDeadline}
  /\ pc' = [pc EXCEPT ![q] = "record"]
  /\ UNCHANGED <<phase, health, idx, ph, failed, result, fellBack, prober, closing, link, expired, everBad>>

\* The caller's ctx is done while the attempt runs: its one deadline for the
\* whole chain passed, the DoH client went away, or the server is stopping.
ReturnLate(q) ==
  /\ pc[q] = "wait" /\ q \notin expired /\ idx[q] \notin NoDeadline
  /\ out' = [out EXCEPT ![q] = "error"]
  /\ expired' = expired \cup {q}
  /\ everCut' = everCut \cup {idx[q]}
  /\ pc' = [pc EXCEPT ![q] = "record"]
  /\ UNCHANGED <<phase, health, idx, ph, failed, result, fellBack, prober, closing, link, everBad>>

\* Faulty form: any answer counts, whatever question it is for.
AcceptForeign(q) ==
  /\ pc[q] = "record" /\ out[q] \in {"answer", "foreign"}
  /\ RecordSuccess(idx[q])
  /\ pc' = [pc EXCEPT ![q] = "done"]
  /\ result' = [result EXCEPT ![q] = out[q]]
  /\ fellBack' = fellBack \cup {x \in {q} : failed[q] # {} \/ idx[q] > 1}
  /\ out' = [out EXCEPT ![q] = "none"]
  /\ UNCHANGED <<phase, idx, ph, failed, prober, closing, env>>

\* responseMatchesQuery holds: recordSuccess, count a fallback, return.
Accept(q) ==
  /\ pc[q] = "record" /\ out[q] = "answer"
  /\ RecordSuccess(idx[q])
  /\ pc' = [pc EXCEPT ![q] = "done"]
  /\ result' = [result EXCEPT ![q] = out[q]]
  /\ fellBack' = fellBack \cup {x \in {q} : failed[q] # {} \/ idx[q] > 1}
  /\ out' = [out EXCEPT ![q] = "none"]
  /\ UNCHANGED <<phase, idx, ph, failed, prober, closing, env>>

\* An error, or an answer to another question: recordError, try the next one.
Reject(q) ==
  /\ pc[q] = "record" /\ out[q] # "answer"
  /\ RecordError(idx[q], ph[q])
  /\ failed' = [failed EXCEPT ![q] = @ \cup {idx[q]}]
  /\ idx' = [idx EXCEPT ![q] = @ + 1]
  /\ pc' = [pc EXCEPT ![q] = "choose"]
  /\ out' = [out EXCEPT ![q] = "none"]
  /\ UNCHANGED <<phase, ph, result, fellBack, prober, closing, env>>

-----------------------------------------------------------------------------
(* runHealthChecks and performHealthChecks.  healthTicker.C buffers one     *)
(* tick, so one may still be there after the ticker is stopped.            *)

TickDue == closing \in {"open", "stopping", "buffered"}

\* Faulty form: the round is taken over the SLOW upstreams.
DownsSlow == {i \in Ups : state[i] = "SLOW"}

Downs == {i \in Ups : state[i] = "DOWN"}

\* The select takes a tick: snapshot the DOWN upstreams.
HealthTick ==
  /\ hpc = "select" /\ TickDue
  /\ todo' = Downs
  /\ hpc' = IF Downs = {} THEN "select" ELSE "probe"
  /\ closing' = IF closing = "buffered" THEN "closed" ELSE closing
  /\ UNCHANGED <<phase, health, calls, hout, env>>

\* Faulty form: the loop looks at stopChan only when a tick is due.
HealthStopOnTick ==
  /\ hpc = "select" /\ closing \in {"stopping", "buffered"}
  /\ hpc' = "stopped"
  /\ UNCHANGED <<phase, health, calls, todo, hout, closing, env>>

\* The select takes the closed stopChan: the goroutine returns.
HealthStop ==
  /\ hpc = "select" /\ closing # "open"
  /\ hpc' = "stopped"
  /\ UNCHANGED <<phase, health, calls, todo, hout, closing, env>>

\* The snapshot is probed in chain order.
Probed(i) == i \in todo /\ \A j \in todo : i <= j

\* The probe has a 5 s ctx of its own; what outlives it is "silent".
ProbeReturn ==
  /\ hpc = "probe"
  /\ \E i \in Ups : Probed(i) /\ hout' \in Outcomes(i, FALSE)
  /\ hpc' = "record"
  /\ UNCHANGED <<phase, health, calls, todo, closing, env>>

\* Any response is a recovery; an error is recorded in the phase of this moment.
ProbeRecord ==
  /\ hpc = "record"
  /\ \E i \in Ups :
       /\ Probed(i)
       /\ IF hout = "error" THEN RecordError(i, phase) ELSE RecordSuccess(i)
       /\ todo' = todo \ {i}
  /\ hpc' = IF todo' = {} THEN "select" ELSE "probe"
  /\ hout' = "none"
  /\ UNCHANGED <<phase, calls, closing, env>>

-----------------------------------------------------------------------------
(* Close (its body runs once, by closeOnce), time and the environment.     *)

\* close(stopChan)
CloseStart ==
  /\ closing = "open" /\ MayClose
  /\ closing' = "stopping"
  /\ UNCHANGED <<phase, health, calls, prober, env>>

\* Closing the resolvers takes their connections away from attempts in flight.
\* Such an attempt fails, unless its transport dials again or needs nothing more.
CallsCut(hit) ==
  /\ pc' = [q \in Queries |-> IF q \in hit THEN "record" ELSE pc[q]]
  /\ out' = [q \in Queries |-> IF q \in hit THEN "error" ELSE out[q]]
  /\ UNCHANGED <<idx, ph, failed, result, fellBack>>

ProbeCut(hit) ==
  /\ hpc' = IF hit # {} THEN "record" ELSE hpc
  /\ hout' = IF hit # {} THEN "error" ELSE hout
  /\ UNCHANGED todo

\* The prober is in the call of i's Resolver.
Probing(i) == hpc = "probe" /\ Probed(i)

\* Under f.mu: the ticker is stopped and the resolvers are closed.
CloseFinish ==
  /\ closing = "stopping"
  /\ closing' \in {"buffered", "closed"}
  /\ \E hit \in SUBSET {q \in Queries : pc[q] = "wait"},
        probed \in SUBSET {i \in Ups : Probing(i)} :
       /\ CallsCut(hit)
       /\ ProbeCut(probed)
       /\ everCut' = everCut \cup {idx[q] : q \in hit} \cup probed
  /\ UNCHANGED <<phase, health, link, expired, everBad>>

EnterPhase2 ==
  /\ phase = 1
  /\ phase' = 2
  /\ UNCHANGED <<health, calls, prober, closing, env>>

LinkChanges(i, b) ==
  /\ link[i] # b
  /\ link' = [link EXCEPT ![i] = b]
  /\ everBad' = IF b = "good" THEN everBad ELSE everBad \cup {i}
  /\ UNCHANGED <<phase, health, calls, prober, closing, expired, everCut>>

-----------------------------------------------------------------------------
CallStep(q) ==
  \/ SkipDown(q) \/ Attempt(q) \/ Exhausted(q)
  \/ Return(q) \/ ReturnLate(q) \/ Accept(q) \/ Reject(q)

Call(q) == Start(q) \/ RejectMalformed(q) \/ Finish(q) \/ CallStep(q)

ProberStep ==
  HealthTick \/ HealthStop \/ ProbeReturn \/ ProbeRecord

Environment ==
  \/ EnterPhase2
  \/ \E i \in Ups : \E b \in Links[i] : LinkChanges(i, b)

Next ==
  \/ \E q \in Queries : Call(q)
  \/ ProberStep
  \/ CloseStart \/ CloseFinish
  \/ Environment

Spec == Init /\ [][Next]_vars

\* The call, or the prober, is in an attempt on a transport that reads without a
\* deadline: nothing but the other side ends it.
InOpenRead(q) == pc[q] = "wait" /\ idx[q] \in NoDeadline
ProbeInOpenRead == \E i \in NoDeadline : Probing(i)

\* A runnable goroutine runs; the ticker ticks; time passes; Close runs through.
\* Neither a client's queries nor the end of the process are promised, nor that
\* a read without a deadline ever ends.
Fairness ==
  /\ \A q \in Queries : WF_vars(~InOpenRead(q) /\ CallStep(q))
  /\ WF_vars(~ProbeInOpenRead /\ ProberStep)
  /\ WF_vars(CloseFinish) /\ WF_vars(EnterPhase2)

FairSpec == Spec /\ Fairness

-----------------------------------------------------------------------------
(* Properties                                                              *)

\* Every variable has its type; idx stops one past the end of the chain and
\* the prober only holds entries of the chain.
TypeOK ==
  /\ phase \in {1, 2}
  /\ state \in [Ups -> {"UP", "SLOW", "DOWN"}]
  /\ errs \in [Ups -> 0..MaxErrs]
  /\ lastError \in [Ups -> {"none", "error"}]
  /\ pc \in [Queries -> {"idle", "choose", "wait", "record", "done"}]
  /\ idx \in [Queries -> 1..(N + 1)]
  /\ ph \in [Queries -> {1, 2}]
  /\ out \in [Queries -> Kinds \cup {"none"}]
  /\ failed \in [Queries -> SUBSET Ups]
  /\ result \in [Queries -> Kinds \cup {"none", "failed", "rejected"}]
  /\ fellBack \subseteq Queries /\ expired \subseteq Queries
  /\ hpc \in {"select", "probe", "record", "stopped"}
  /\ todo \subseteq Ups /\ hout \in Kinds \cup {"none"}
  /\ closing \in {"open", "stopping", "buffered", "closed"}
  /\ link \in [Ups -> Behaviours] /\ \A i \in Ups : link[i] \in Links[i]
  /\ everBad \subseteq Ups /\ everCut \subseteq Ups

\* What GetStatus reports is coherent however queries and probes interleave
\* and whichever phase each of them captured: an upstream is UP exactly when it
\* has no consecutive errors and no LastError, and SLOW only below the
\* threshold (recordSuccess and recordError).
HealthCoherent ==
  \A i \in Ups :
    /\ state[i] = "UP" <=> errs[i] = 0
    /\ state[i] = "UP" <=> lastError[i] = "none"
    /\ state[i] = "SLOW" => errs[i] < Threshold

\* An error is recorded against an upstream only if it misbehaved at some time, or
\* a caller's ctx was done or the chain closed during an attempt on it: neither a malformed query (Resolve's
\* QDCOUNT check) nor another upstream's failure is charged to it.
BlameNeedsCause ==
  \A i \in Ups : errs[i] > 0 => i \in everBad \cup everCut

\* Resolve returns no answer to a question that was not asked, and counts a
\* fallback exactly for the answers that do not come from the head of the chain.
AnswersAreOwn ==
  \A q \in Queries : pc[q] = "done" =>
    /\ result[q] # "foreign"
    /\ result[q] = "answer" => (q \in fellBack <=> idx[q] # 1)

\* A chain of one is always tried: its DOWN state never fails a query by itself.
LoneUpstreamTried ==
  N = 1 => \A q \in Queries : result[q] = "failed" => failed[q] = {1}

\* Every Resolve call returns, whatever the upstreams, the prober and Close do
\* meanwhile.  The one exception is a call that stays in a read without a deadline
\* (dot.go:124): the caller's deadline does not end that.
ResolveReturns ==
  \A q \in Queries : pc[q] = "choose" ~> (pc[q] = "done" \/ []InOpenRead(q))

\* An upstream that works from some time on does not stay DOWN for ever while
\* the chain is open: the ticker's probes bring it back.  The one exception is that
\* the prober, a single goroutine, stays in a read without a deadline: then no
\* upstream is probed any more.
DownRecovers ==
  \A i \in Ups : <>[](link[i] = "good") =>
    \/ []<>(state[i] # "DOWN" \/ closing # "open")
    \/ <>[]ProbeInOpenRead

\* Close ends the health-check goroutine, also when a tick is buffered or a
\* round is under way, unless a probe of that round stays in a read without a deadline.
CloseStopsProber ==
  closing # "open" ~> (hpc = "stopped" \/ []ProbeInOpenRead)

=============================================================================
