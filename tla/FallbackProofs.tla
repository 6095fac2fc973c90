--------------------------- MODULE FallbackProofs ---------------------------
(***************************************************************************)
(* Theorems about Fallback, for every chain length, every set of           *)
(* concurrent queries and every threshold.                                 *)
(***************************************************************************)
EXTENDS Fallback, TLAPS

\* What makes the invariants of Fallback inductive.  For a call: a failure in
\* flight has its cause, the call has moved past what it tried, and only a call
\* that is done has a result.
CallInFlight(q) ==
  /\ pc[q] \in {"wait", "record"} => idx[q] \in Ups
  /\ pc[q] = "record" => out[q] # "none"
  /\ pc[q] = "record" /\ out[q] # "answer" => idx[q] \in everBad \cup everCut
  /\ pc[q] # "done" => result[q] = "none"
  /\ pc[q] = "idle" => idx[q] = 1 /\ failed[q] = {}
  /\ \A j \in failed[q] : j < idx[q]
  /\ N = 1 /\ idx[q] > 1 => failed[q] = {1}
  /\ result[q] = "failed" => idx[q] > 1
  /\ pc[q] # "done" => q \notin fellBack

\* The same for the probe in flight, and for how the links came to be.
ProbeInFlight ==
  hpc = "record" =>
    /\ hout # "none"
    /\ hout = "error" => \A i \in Ups : Probed(i) => i \in everBad \cup everCut

LinkHistory == \A i \in Ups : link[i] # "good" => i \in everBad

InFlight == (\A q \in Queries : CallInFlight(q)) /\ ProbeInFlight /\ LinkHistory

IInv == TypeOK /\ HealthCoherent /\ BlameNeedsCause /\ AnswersAreOwn /\ InFlight

-----------------------------------------------------------------------------
\* The initial states satisfy the inductive invariant.
LEMMA InitEstablishes == Init => IInv
<1> SUFFICES ASSUME Init PROVE IInv
  BY Zenon
<1> USE ChainAssumption, ThresholdAssumption, BoundAssumption, LinkAssumption
    DEF Init, Ups, Kinds
<1>1. TypeOK
  BY SMT, SMTT(30) DEF TypeOK
<1>2. HealthCoherent /\ BlameNeedsCause /\ AnswersAreOwn
  BY SMT, SMTT(30) DEF HealthCoherent, BlameNeedsCause, AnswersAreOwn
<1>3. InFlight
  BY SMT, SMTT(30) DEF InFlight, CallInFlight, ProbeInFlight, LinkHistory
<1> QED
  BY <1>1, <1>2, <1>3, Zenon DEF IInv

\* recordError and recordSuccess keep the types of an upstream's health.
HealthType ==
  /\ state \in [Ups -> {"UP", "SLOW", "DOWN"}]
  /\ errs \in [Ups -> 0..MaxErrs]
  /\ lastError \in [Ups -> {"none", "error"}]

\* A recorded error leaves well-typed health and a positive count, and the state
\* is UP for no count, SLOW only below the threshold.
LEMMA RecordErrorEffect ==
  ASSUME TypeOK, NEW i \in Ups, NEW p, RecordError(i, p)
  PROVE  /\ HealthType'
         /\ errs'[i] > 0 /\ lastError'[i] = "error"
         /\ state'[i] # "UP"
         /\ state'[i] = "SLOW" => errs'[i] < Threshold
         /\ \A j \in Ups \ {i} : /\ errs'[j] = errs[j]
                                   /\ state'[j] = state[j]
                                   /\ lastError'[j] = lastError[j]
<1>1. Bumped(i) \in 0..MaxErrs /\ Bumped(i) > 0
  BY ThresholdAssumption, BoundAssumption, SMT, SMTT(30) DEF TypeOK, Bumped
<1>2. StateAfterError(Bumped(i), p) \in {"SLOW", "DOWN"}
  BY Zenon DEF StateAfterError
<1>3. StateAfterError(Bumped(i), p) = "SLOW" => Bumped(i) < Threshold
  BY <1>1, ThresholdAssumption, BoundAssumption, SMT, SMTT(30) DEF StateAfterError
<1> QED
  BY <1>1, <1>2, <1>3, ZenonT(40) DEF TypeOK, RecordError, HealthType

\* A recorded success resets exactly one upstream.
LEMMA RecordSuccessEffect ==
  ASSUME TypeOK, NEW i \in Ups, RecordSuccess(i)
  PROVE  /\ HealthType'
         /\ errs'[i] = 0 /\ lastError'[i] = "none" /\ state'[i] = "UP"
         /\ \A j \in Ups \ {i} : /\ errs'[j] = errs[j]
                                   /\ state'[j] = state[j]
                                   /\ lastError'[j] = lastError[j]
BY BoundAssumption, SMT, SMTT(30) DEF TypeOK, RecordSuccess, HealthType

\* No step of a query, the prober, Close, the clock or the environment breaks
\* a variable's type.
LEMMA TypeStep == IInv /\ [Next]_vars => TypeOK'
<1> SUFFICES ASSUME IInv, [Next]_vars PROVE TypeOK'
  BY Zenon
<1> USE ChainAssumption, BoundAssumption, LinkAssumption
    DEF Ups, Kinds, health, calls, prober, env
<1>1. ASSUME NEW q \in Queries, Start(q) PROVE TypeOK'
  BY <1>1, ZenonT(40) DEF IInv, TypeOK, InFlight, CallInFlight, ProbeInFlight, LinkHistory, Start
<1>2. ASSUME NEW q \in Queries, RejectMalformed(q) PROVE TypeOK'
  BY <1>2, ZenonT(40) DEF IInv, TypeOK, InFlight, CallInFlight, ProbeInFlight, LinkHistory, RejectMalformed
<1>3. ASSUME NEW q \in Queries, Finish(q) PROVE TypeOK'
  BY <1>3, SMT, SMTT(60) DEF IInv, TypeOK, InFlight, CallInFlight, ProbeInFlight, LinkHistory, Finish
<1>4. ASSUME NEW q \in Queries, SkipDown(q) PROVE TypeOK'
  BY <1>4, SMT, SMTT(60) DEF IInv, TypeOK, InFlight, CallInFlight, ProbeInFlight, LinkHistory, SkipDown
<1>5. ASSUME NEW q \in Queries, Attempt(q) PROVE TypeOK'
  BY <1>5, ZenonT(40) DEF IInv, TypeOK, InFlight, CallInFlight, ProbeInFlight, LinkHistory, Attempt
<1>6. ASSUME NEW q \in Queries, Exhausted(q) PROVE TypeOK'
  BY <1>6, ZenonT(40) DEF IInv, TypeOK, InFlight, CallInFlight, ProbeInFlight, LinkHistory, Exhausted
<1>7. ASSUME NEW q \in Queries, Return(q) PROVE TypeOK'
  <2>1. PICK o \in Outcomes(idx[q], q \in expired) : out' = [out EXCEPT ![q] = o]
    BY <1>7, Zenon DEF Return
  <2>2. o \in Kinds
    BY Zenon DEF Outcomes
  <2>3. idx[q] \in Ups
    BY <1>7, Zenon DEF IInv, InFlight, CallInFlight, ProbeInFlight, LinkHistory, Return
  <2> QED
    BY <1>7, <2>1, <2>2, <2>3, ZenonT(40) DEF IInv, TypeOK, Return
<1>8. ASSUME NEW q \in Queries, ReturnLate(q) PROVE TypeOK'
  <2>1. idx[q] \in Ups
    BY <1>8, Zenon DEF IInv, InFlight, CallInFlight, ProbeInFlight, LinkHistory, ReturnLate
  <2> QED
    BY <1>8, <2>1, ZenonT(40) DEF IInv, TypeOK, ReturnLate
<1>9. ASSUME NEW q \in Queries, Accept(q) PROVE TypeOK'
  <2>1. HealthType'
    BY <1>9, RecordSuccessEffect, Zenon DEF IInv, InFlight, CallInFlight, ProbeInFlight, LinkHistory, Accept
  <2> QED
    BY <1>9, <2>1, ZenonT(40) DEF IInv, TypeOK, HealthType, Accept
<1>10. ASSUME NEW q \in Queries, Reject(q) PROVE TypeOK'
  <2>1. idx[q] \in Ups
    BY <1>10, Zenon DEF IInv, InFlight, CallInFlight, ProbeInFlight, LinkHistory, Reject
  <2>2. HealthType'
    BY <1>10, <2>1, RecordErrorEffect, Zenon DEF IInv, Reject
  <2>3. idx[q] + 1 \in 1..(N + 1) /\ failed[q] \cup {idx[q]} \subseteq Ups
    <3>1. idx[q] \in 1..(N + 1) /\ failed[q] \subseteq Ups
      BY Zenon DEF IInv, TypeOK
    <3> QED
      BY <2>1, <3>1, ChainAssumption, SMT, SMTT(30) DEF Ups
  <2> QED
    BY <1>10, <2>1, <2>2, <2>3, ZenonT(40) DEF IInv, TypeOK, HealthType, Reject
<1>11. CASE HealthTick
  BY <1>11, ZenonT(40) DEF IInv, TypeOK, HealthTick, Downs
<1>12. CASE HealthStop
  BY <1>12, Zenon DEF IInv, TypeOK, HealthStop
<1>13. CASE ProbeReturn
  BY <1>13, Zenon DEF IInv, TypeOK, ProbeReturn, Outcomes
<1>14. CASE ProbeRecord
  <2>1. PICK i \in Ups :
          /\ IF hout = "error" THEN RecordError(i, phase) ELSE RecordSuccess(i)
          /\ todo' = todo \ {i}
    BY <1>14, Zenon DEF ProbeRecord
  <2>2. HealthType'
    BY <2>1, RecordErrorEffect, RecordSuccessEffect, Zenon DEF IInv
  <2> QED
    BY <1>14, <2>1, <2>2, Zenon DEF IInv, TypeOK, HealthType, ProbeRecord
<1>15. CASE CloseStart
  BY <1>15, Zenon DEF IInv, TypeOK, CloseStart
<1>16. CASE CloseFinish
  <2>1. PICK hit \in SUBSET {q \in Queries : pc[q] = "wait"},
             probed \in SUBSET {i \in Ups : Probing(i)} :
          /\ CallsCut(hit)
          /\ ProbeCut(probed)
          /\ everCut' = everCut \cup {idx[q] : q \in hit} \cup probed
    BY <1>16, Zenon DEF CloseFinish
  <2>2. everCut' \subseteq Ups
    <3>1. \A q \in hit : idx[q] \in Ups
      BY <2>1, Zenon DEF IInv, InFlight, CallInFlight
    <3>2. everCut \subseteq Ups /\ probed \subseteq Ups
      BY <2>1, Zenon DEF IInv, TypeOK
    <3> QED
      BY <2>1, <3>1, <3>2, Zenon
  <2>3. pc' \in [Queries -> {"idle", "choose", "wait", "record", "done"}] /\ out' \in [Queries -> Kinds \cup {"none"}]
    BY <2>1, Zenon DEF IInv, TypeOK, CallsCut
  <2>4. hpc' \in {"select", "probe", "record", "stopped"} /\ hout' \in Kinds \cup {"none"} /\ todo' = todo
    BY <2>1, Zenon DEF IInv, TypeOK, ProbeCut
  <2>5. closing' \in {"open", "stopping", "buffered", "closed"}
    BY <1>16, Zenon DEF CloseFinish
  <2> QED
    BY <1>16, <2>1, <2>2, <2>3, <2>4, <2>5, Zenon DEF IInv, TypeOK, CloseFinish, CallsCut
<1>17. CASE EnterPhase2
  BY <1>17, Zenon DEF IInv, TypeOK, EnterPhase2
<1>18. ASSUME NEW i \in Ups, NEW b \in Links[i], LinkChanges(i, b) PROVE TypeOK'
  BY <1>18, ZenonT(40) DEF IInv, TypeOK, LinkChanges
<1>19. CASE UNCHANGED vars
  BY <1>19, ZenonT(40) DEF IInv, TypeOK, vars
<1> QED
  BY <1>1, <1>2, <1>3, <1>4, <1>5, <1>6, <1>7, <1>8, <1>9, <1>10, <1>11, <1>12, <1>13, <1>14, <1>15, <1>16, <1>17, <1>18, <1>19, Zenon
     DEF Next, Call, CallStep, ProberStep, Environment

\* Every step keeps each upstream's reported health coherent.
LEMMA HealthStep == IInv /\ [Next]_vars => HealthCoherent'
<1> SUFFICES ASSUME IInv, [Next]_vars PROVE HealthCoherent'
  BY Zenon
<1> USE DEF health, calls, prober, env
<1>1. ASSUME NEW q \in Queries, Start(q) PROVE HealthCoherent'
  BY <1>1, Zenon DEF IInv, HealthCoherent, Start
<1>2. ASSUME NEW q \in Queries, RejectMalformed(q) PROVE HealthCoherent'
  BY <1>2, Zenon DEF IInv, HealthCoherent, RejectMalformed
<1>3. ASSUME NEW q \in Queries, Finish(q) PROVE HealthCoherent'
  BY <1>3, Zenon DEF IInv, HealthCoherent, Finish
<1>4. ASSUME NEW q \in Queries, SkipDown(q) PROVE HealthCoherent'
  BY <1>4, Zenon DEF IInv, HealthCoherent, SkipDown
<1>5. ASSUME NEW q \in Queries, Attempt(q) PROVE HealthCoherent'
  BY <1>5, Zenon DEF IInv, HealthCoherent, Attempt
<1>6. ASSUME NEW q \in Queries, Exhausted(q) PROVE HealthCoherent'
  BY <1>6, Zenon DEF IInv, HealthCoherent, Exhausted
<1>7. ASSUME NEW q \in Queries, Return(q) PROVE HealthCoherent'
  BY <1>7, Zenon DEF IInv, HealthCoherent, Return
<1>8. ASSUME NEW q \in Queries, ReturnLate(q) PROVE HealthCoherent'
  BY <1>8, Zenon DEF IInv, HealthCoherent, ReturnLate
<1>9. ASSUME NEW q \in Queries, Accept(q) PROVE HealthCoherent'
  BY <1>9, RecordSuccessEffect, SMT, SMTT(30) DEF IInv, InFlight, CallInFlight, ProbeInFlight, LinkHistory, HealthCoherent, Accept
<1>10. ASSUME NEW q \in Queries, Reject(q) PROVE HealthCoherent'
  BY <1>10, RecordErrorEffect, SMT, SMTT(30) DEF IInv, InFlight, CallInFlight, ProbeInFlight, LinkHistory, HealthCoherent, Reject
<1>11. CASE HealthTick
  BY <1>11, Zenon DEF IInv, HealthCoherent, HealthTick
<1>12. CASE HealthStop
  BY <1>12, Zenon DEF IInv, HealthCoherent, HealthStop
<1>13. CASE ProbeReturn
  BY <1>13, Zenon DEF IInv, HealthCoherent, ProbeReturn
<1>14. CASE ProbeRecord
  <2>1. PICK i \in Ups :
          /\ Probed(i)
          /\ IF hout = "error" THEN RecordError(i, phase) ELSE RecordSuccess(i)
    BY <1>14, Zenon DEF ProbeRecord
  <2>2. CASE hout = "error"
    BY <2>1, <2>2, RecordErrorEffect, SMT, SMTT(30) DEF IInv, HealthCoherent
  <2>3. CASE hout # "error"
    BY <2>1, <2>3, RecordSuccessEffect, ZenonT(40) DEF IInv, HealthCoherent
  <2> QED
    BY <2>2, <2>3, ZenonT(40)
<1>15. CASE CloseStart
  BY <1>15, Zenon DEF IInv, HealthCoherent, CloseStart
<1>16. CASE CloseFinish
  BY <1>16, Zenon DEF IInv, HealthCoherent, CloseFinish
<1>17. CASE EnterPhase2
  BY <1>17, Zenon DEF IInv, HealthCoherent, EnterPhase2
<1>18. ASSUME NEW i \in Ups, NEW b \in Links[i], LinkChanges(i, b) PROVE HealthCoherent'
  BY <1>18, Zenon DEF IInv, HealthCoherent, LinkChanges
<1>19. CASE UNCHANGED vars
  BY <1>19, Zenon DEF IInv, HealthCoherent, vars
<1> QED
  BY <1>1, <1>2, <1>3, <1>4, <1>5, <1>6, <1>7, <1>8, <1>9, <1>10, <1>11, <1>12, <1>13, <1>14, <1>15, <1>16, <1>17, <1>18, <1>19, Zenon
     DEF Next, Call, CallStep, ProberStep, Environment

\* Every step charges an error only to an upstream that gave cause.
LEMMA BlameStep == IInv /\ [Next]_vars => BlameNeedsCause'
<1> SUFFICES ASSUME IInv, [Next]_vars PROVE BlameNeedsCause'
  BY Zenon
<1> USE DEF health, calls, prober, env
<1>1. ASSUME NEW q \in Queries, Start(q) PROVE BlameNeedsCause'
  BY <1>1, Zenon DEF IInv, BlameNeedsCause, Start
<1>2. ASSUME NEW q \in Queries, RejectMalformed(q) PROVE BlameNeedsCause'
  BY <1>2, Zenon DEF IInv, BlameNeedsCause, RejectMalformed
<1>3. ASSUME NEW q \in Queries, Finish(q) PROVE BlameNeedsCause'
  BY <1>3, Zenon DEF IInv, BlameNeedsCause, Finish
<1>4. ASSUME NEW q \in Queries, SkipDown(q) PROVE BlameNeedsCause'
  BY <1>4, Zenon DEF IInv, BlameNeedsCause, SkipDown
<1>5. ASSUME NEW q \in Queries, Attempt(q) PROVE BlameNeedsCause'
  BY <1>5, Zenon DEF IInv, BlameNeedsCause, Attempt
<1>6. ASSUME NEW q \in Queries, Exhausted(q) PROVE BlameNeedsCause'
  BY <1>6, Zenon DEF IInv, BlameNeedsCause, Exhausted
<1>7. ASSUME NEW q \in Queries, Return(q) PROVE BlameNeedsCause'
  BY <1>7, Zenon DEF IInv, BlameNeedsCause, Return
<1>8. ASSUME NEW q \in Queries, ReturnLate(q) PROVE BlameNeedsCause'
  BY <1>8, Zenon DEF IInv, BlameNeedsCause, ReturnLate
<1>9. ASSUME NEW q \in Queries, Accept(q) PROVE BlameNeedsCause'
  BY <1>9, RecordSuccessEffect, SMT, SMTT(30) DEF IInv, InFlight, CallInFlight, ProbeInFlight, LinkHistory, BlameNeedsCause, Accept
<1>10. ASSUME NEW q \in Queries, Reject(q) PROVE BlameNeedsCause'
  BY <1>10, RecordErrorEffect, SMT, SMTT(30) DEF IInv, InFlight, CallInFlight, ProbeInFlight, LinkHistory, BlameNeedsCause, Reject
<1>11. CASE HealthTick
  BY <1>11, Zenon DEF IInv, BlameNeedsCause, HealthTick
<1>12. CASE HealthStop
  BY <1>12, Zenon DEF IInv, BlameNeedsCause, HealthStop
<1>13. CASE ProbeReturn
  BY <1>13, Zenon DEF IInv, BlameNeedsCause, ProbeReturn
<1>14. CASE ProbeRecord
  <2>1. PICK i \in Ups :
          /\ Probed(i)
          /\ IF hout = "error" THEN RecordError(i, phase) ELSE RecordSuccess(i)
    BY <1>14, Zenon DEF ProbeRecord
  <2>2. everBad' = everBad /\ everCut' = everCut
    BY <1>14, Zenon DEF ProbeRecord
  <2>3. CASE hout = "error"
    <3>1. i \in everBad \cup everCut
      BY <1>14, <2>1, <2>3, Zenon DEF IInv, InFlight, CallInFlight, ProbeInFlight, LinkHistory, ProbeRecord
    <3> QED
      BY <2>1, <2>2, <2>3, <3>1, RecordErrorEffect, Zenon DEF IInv, BlameNeedsCause
  <2>4. CASE hout # "error"
    BY <2>1, <2>2, <2>4, RecordSuccessEffect, SMT, SMTT(30) DEF IInv, BlameNeedsCause
  <2> QED
    BY <2>3, <2>4, Zenon
<1>15. CASE CloseStart
  BY <1>15, Zenon DEF IInv, BlameNeedsCause, CloseStart
<1>16. CASE CloseFinish
  BY <1>16, Zenon DEF IInv, BlameNeedsCause, CloseFinish
<1>17. CASE EnterPhase2
  BY <1>17, Zenon DEF IInv, BlameNeedsCause, EnterPhase2
<1>18. ASSUME NEW i \in Ups, NEW b \in Links[i], LinkChanges(i, b) PROVE BlameNeedsCause'
  BY <1>18, Zenon DEF IInv, BlameNeedsCause, LinkChanges
<1>19. CASE UNCHANGED vars
  BY <1>19, Zenon DEF IInv, BlameNeedsCause, vars
<1> QED
  BY <1>1, <1>2, <1>3, <1>4, <1>5, <1>6, <1>7, <1>8, <1>9, <1>10, <1>11, <1>12, <1>13, <1>14, <1>15, <1>16, <1>17, <1>18, <1>19, Zenon
     DEF Next, Call, CallStep, ProberStep, Environment

\* Every step that ends a call ends it with an answer of its own or none.
LEMMA AnswersStep == IInv /\ [Next]_vars => AnswersAreOwn'
<1> SUFFICES ASSUME IInv, [Next]_vars PROVE AnswersAreOwn'
  BY Zenon
<1> USE DEF health, calls, prober, env
<1>1. ASSUME NEW q \in Queries, Start(q) PROVE AnswersAreOwn'
  BY <1>1, Zenon DEF IInv, TypeOK, AnswersAreOwn, InFlight, CallInFlight, Start
<1>2. ASSUME NEW q \in Queries, RejectMalformed(q) PROVE AnswersAreOwn'
  BY <1>2, SMT, ZenonT(40) DEF IInv, TypeOK, AnswersAreOwn, InFlight, CallInFlight, RejectMalformed
<1>3. ASSUME NEW q \in Queries, Finish(q) PROVE AnswersAreOwn'
  BY <1>3, SMT, ZenonT(40) DEF IInv, TypeOK, AnswersAreOwn, InFlight, CallInFlight, Finish
<1>4. ASSUME NEW q \in Queries, SkipDown(q) PROVE AnswersAreOwn'
  BY <1>4, ZenonT(40) DEF IInv, TypeOK, AnswersAreOwn, InFlight, CallInFlight, SkipDown
<1>5. ASSUME NEW q \in Queries, Attempt(q) PROVE AnswersAreOwn'
  BY <1>5, ZenonT(40) DEF IInv, TypeOK, AnswersAreOwn, InFlight, CallInFlight, Attempt
<1>6. ASSUME NEW q \in Queries, Exhausted(q) PROVE AnswersAreOwn'
  BY <1>6, SMT, ZenonT(40) DEF IInv, TypeOK, AnswersAreOwn, InFlight, CallInFlight, Exhausted
<1>7. ASSUME NEW q \in Queries, Return(q) PROVE AnswersAreOwn'
  BY <1>7, Zenon DEF IInv, TypeOK, AnswersAreOwn, InFlight, CallInFlight, Return
<1>8. ASSUME NEW q \in Queries, ReturnLate(q) PROVE AnswersAreOwn'
  BY <1>8, Zenon DEF IInv, TypeOK, AnswersAreOwn, InFlight, CallInFlight, ReturnLate
<1>9. ASSUME NEW q \in Queries, Accept(q) PROVE AnswersAreOwn'
  <2>1. failed[q] # {} => idx[q] > 1
    BY ChainAssumption, SMT, SMTT(30) DEF IInv, TypeOK, InFlight, CallInFlight, Ups
  <2>2. q \in fellBack' <=> idx[q] # 1
    BY <1>9, <2>1, ChainAssumption, SMT, SMTT(30) DEF IInv, TypeOK, InFlight, CallInFlight, Accept
  <2> QED
    BY <1>9, <2>2, SMT, ZenonT(40) DEF IInv, TypeOK, AnswersAreOwn, Accept
<1>10. ASSUME NEW q \in Queries, Reject(q) PROVE AnswersAreOwn'
  BY <1>10, SMT, ZenonT(40) DEF IInv, TypeOK, AnswersAreOwn, InFlight, CallInFlight, Reject
<1>11. CASE HealthTick
  BY <1>11, Zenon DEF IInv, TypeOK, AnswersAreOwn, InFlight, CallInFlight, HealthTick
<1>12. CASE HealthStop
  BY <1>12, Zenon DEF IInv, TypeOK, AnswersAreOwn, InFlight, CallInFlight, HealthStop
<1>13. CASE ProbeReturn
  BY <1>13, Zenon DEF IInv, TypeOK, AnswersAreOwn, InFlight, CallInFlight, ProbeReturn
<1>14. CASE ProbeRecord
  BY <1>14, Zenon DEF IInv, TypeOK, AnswersAreOwn, InFlight, CallInFlight, ProbeRecord
<1>15. CASE CloseStart
  BY <1>15, Zenon DEF IInv, TypeOK, AnswersAreOwn, InFlight, CallInFlight, CloseStart
<1>16. CASE CloseFinish
  <2>1. PICK hit \in SUBSET {q \in Queries : pc[q] = "wait"} : CallsCut(hit)
    BY <1>16, Zenon DEF CloseFinish
  <2>2. /\ \A q \in Queries : pc'[q] = "done" => pc[q] = "done"
        /\ result' = result /\ fellBack' = fellBack /\ idx' = idx
    BY <2>1, Zenon DEF CallsCut
  <2> QED
    BY <2>2, Zenon DEF IInv, AnswersAreOwn
<1>17. CASE EnterPhase2
  BY <1>17, Zenon DEF IInv, TypeOK, AnswersAreOwn, InFlight, CallInFlight, EnterPhase2
<1>18. ASSUME NEW i \in Ups, NEW b \in Links[i], LinkChanges(i, b) PROVE AnswersAreOwn'
  BY <1>18, Zenon DEF IInv, TypeOK, AnswersAreOwn, InFlight, CallInFlight, LinkChanges
<1>19. CASE UNCHANGED vars
  BY <1>19, Zenon DEF IInv, TypeOK, AnswersAreOwn, InFlight, CallInFlight, vars
<1> QED
  BY <1>1, <1>2, <1>3, <1>4, <1>5, <1>6, <1>7, <1>8, <1>9, <1>10, <1>11, <1>12, <1>13, <1>14, <1>15, <1>16, <1>17, <1>18, <1>19, Zenon
     DEF Next, Call, CallStep, ProberStep, Environment

\* Every step keeps what is known of the attempts and the probe in flight.
LEMMA InFlightStep == IInv /\ [Next]_vars => InFlight'
<1> SUFFICES ASSUME IInv, [Next]_vars PROVE InFlight'
  BY Zenon
<1> USE DEF health, calls, prober, env
<1>1. ASSUME NEW q \in Queries, Start(q) PROVE InFlight'
  <2>1. CallInFlight(q)'
    BY <1>1, ZenonT(40) DEF IInv, TypeOK, InFlight, CallInFlight, Start
  <2>2. ASSUME NEW r \in Queries, r # q PROVE CallInFlight(r)'
    BY <1>1, <2>2, SMT, ZenonT(40) DEF IInv, TypeOK, InFlight, CallInFlight, Start
  <2>3. ProbeInFlight' /\ LinkHistory'
    BY <1>1, Zenon DEF IInv, InFlight, ProbeInFlight, Probed, LinkHistory, Start
  <2> QED
    BY <2>1, <2>2, <2>3, Zenon DEF InFlight
<1>2. ASSUME NEW q \in Queries, RejectMalformed(q) PROVE InFlight'
  <2>1. CallInFlight(q)'
    BY <1>2, ZenonT(60) DEF IInv, TypeOK, InFlight, CallInFlight, RejectMalformed
  <2>2. ASSUME NEW r \in Queries, r # q PROVE CallInFlight(r)'
    BY <1>2, <2>2, SMT, ZenonT(40) DEF IInv, TypeOK, InFlight, CallInFlight, RejectMalformed
  <2>3. ProbeInFlight' /\ LinkHistory'
    BY <1>2, Zenon DEF IInv, InFlight, ProbeInFlight, Probed, LinkHistory, RejectMalformed
  <2> QED
    BY <2>1, <2>2, <2>3, Zenon DEF InFlight
<1>3. ASSUME NEW q \in Queries, Finish(q) PROVE InFlight'
  <2>1. CallInFlight(q)'
    BY <1>3, SMT, SMTT(30) DEF IInv, TypeOK, InFlight, CallInFlight, Finish
  <2>2. ASSUME NEW r \in Queries, r # q PROVE CallInFlight(r)'
    BY <1>3, <2>2, SMT, ZenonT(40) DEF IInv, TypeOK, InFlight, CallInFlight, Finish
  <2>3. ProbeInFlight' /\ LinkHistory'
    BY <1>3, Zenon DEF IInv, InFlight, ProbeInFlight, Probed, LinkHistory, Finish
  <2> QED
    BY <2>1, <2>2, <2>3, Zenon DEF InFlight
<1>4. ASSUME NEW q \in Queries, SkipDown(q) PROVE InFlight'
  <2>1. CallInFlight(q)'
    BY <1>4, ChainAssumption, SMT, SMTT(30) DEF IInv, TypeOK, InFlight, CallInFlight, SkipDown, MustSkip, Ups
  <2>2. ASSUME NEW r \in Queries, r # q PROVE CallInFlight(r)'
    BY <1>4, <2>2, SMT, ZenonT(40) DEF IInv, TypeOK, InFlight, CallInFlight, SkipDown, MustSkip, Ups
  <2>3. ProbeInFlight' /\ LinkHistory'
    BY <1>4, Zenon DEF IInv, InFlight, ProbeInFlight, Probed, LinkHistory, SkipDown, MustSkip, Ups
  <2> QED
    BY <2>1, <2>2, <2>3, Zenon DEF InFlight
<1>5. ASSUME NEW q \in Queries, Attempt(q) PROVE InFlight'
  <2>1. CallInFlight(q)'
    BY <1>5, ZenonT(40) DEF IInv, TypeOK, InFlight, CallInFlight, Attempt
  <2>2. ASSUME NEW r \in Queries, r # q PROVE CallInFlight(r)'
    BY <1>5, <2>2, SMT, ZenonT(40) DEF IInv, TypeOK, InFlight, CallInFlight, Attempt
  <2>3. ProbeInFlight' /\ LinkHistory'
    BY <1>5, Zenon DEF IInv, InFlight, ProbeInFlight, Probed, LinkHistory, Attempt
  <2> QED
    BY <2>1, <2>2, <2>3, Zenon DEF InFlight
<1>6. ASSUME NEW q \in Queries, Exhausted(q) PROVE InFlight'
  <2>1. CallInFlight(q)'
    BY <1>6, ChainAssumption, SMT, SMTT(30) DEF IInv, TypeOK, InFlight, CallInFlight, Exhausted, Ups
  <2>2. ASSUME NEW r \in Queries, r # q PROVE CallInFlight(r)'
    BY <1>6, <2>2, SMT, ZenonT(40) DEF IInv, TypeOK, InFlight, CallInFlight, Exhausted, Ups
  <2>3. ProbeInFlight' /\ LinkHistory'
    BY <1>6, Zenon DEF IInv, InFlight, ProbeInFlight, Probed, LinkHistory, Exhausted, Ups
  <2> QED
    BY <2>1, <2>2, <2>3, Zenon DEF InFlight
<1>7. ASSUME NEW q \in Queries, Return(q) PROVE InFlight'
  <2>1. PICK o \in Outcomes(idx[q], q \in expired) : out' = [out EXCEPT ![q] = o]
    BY <1>7, Zenon DEF Return
  <2>2. idx[q] \in Ups
    BY <1>7, Zenon DEF IInv, InFlight, CallInFlight, Return
  <2>3. o # "none" /\ (o # "answer" => idx[q] \in everBad' \cup everCut')
    BY <1>7, <2>1, <2>2, ZenonT(40) DEF IInv, InFlight, LinkHistory, Outcomes, Kinds, Return
  <2>4. CallInFlight(q)'
    BY <1>7, <2>1, <2>2, <2>3, SMT, ZenonT(40) DEF IInv, TypeOK, InFlight, CallInFlight, Return
  <2>5. ASSUME NEW r \in Queries, r # q PROVE CallInFlight(r)'
    BY <1>7, <2>5, SMT, SMTT(30) DEF IInv, TypeOK, InFlight, CallInFlight, Return
  <2>6. ProbeInFlight' /\ LinkHistory'
    BY <1>7, ZenonT(40) DEF IInv, InFlight, ProbeInFlight, Probed, LinkHistory, Return
  <2> QED
    BY <2>4, <2>5, <2>6, Zenon DEF InFlight
<1>8. ASSUME NEW q \in Queries, ReturnLate(q) PROVE InFlight'
  <2>1. CallInFlight(q)'
    BY <1>8, SMT, ZenonT(40) DEF IInv, TypeOK, InFlight, CallInFlight, ReturnLate
  <2>2. ASSUME NEW r \in Queries, r # q PROVE CallInFlight(r)'
    BY <1>8, <2>2, SMT, ZenonT(40) DEF IInv, TypeOK, InFlight, CallInFlight, ReturnLate
  <2>3. ProbeInFlight' /\ LinkHistory'
    BY <1>8, ZenonT(40) DEF IInv, InFlight, ProbeInFlight, Probed, LinkHistory, ReturnLate
  <2> QED
    BY <2>1, <2>2, <2>3, Zenon DEF InFlight
<1>9. ASSUME NEW q \in Queries, Accept(q) PROVE InFlight'
  <2>1. CallInFlight(q)'
    BY <1>9, SMT, ZenonT(40) DEF IInv, TypeOK, InFlight, CallInFlight, Accept
  <2>2. ASSUME NEW r \in Queries, r # q PROVE CallInFlight(r)'
    BY <1>9, <2>2, SMT, ZenonT(60) DEF IInv, TypeOK, InFlight, CallInFlight, Accept
  <2>3. ProbeInFlight' /\ LinkHistory'
    BY <1>9, ZenonT(40) DEF IInv, InFlight, ProbeInFlight, Probed, LinkHistory, Accept
  <2> QED
    BY <2>1, <2>2, <2>3, Zenon DEF InFlight
<1>10. ASSUME NEW q \in Queries, Reject(q) PROVE InFlight'
  <2>1. CallInFlight(q)'
    BY <1>10, ChainAssumption, SMT, SMTT(30) DEF IInv, TypeOK, InFlight, CallInFlight, Reject, Ups
  <2>2. ASSUME NEW r \in Queries, r # q PROVE CallInFlight(r)'
    BY <1>10, <2>2, SMT, SMTT(30) DEF IInv, TypeOK, InFlight, CallInFlight, Reject, Ups
  <2>3. ProbeInFlight' /\ LinkHistory'
    BY <1>10, Zenon DEF IInv, InFlight, ProbeInFlight, Probed, LinkHistory, Reject, Ups
  <2> QED
    BY <2>1, <2>2, <2>3, Zenon DEF InFlight
<1>11. CASE HealthTick
  BY <1>11, Zenon DEF IInv, TypeOK, InFlight, CallInFlight, ProbeInFlight, LinkHistory, Probed, HealthTick
<1>12. CASE HealthStop
  BY <1>12, Zenon DEF IInv, TypeOK, InFlight, CallInFlight, ProbeInFlight, LinkHistory, Probed, HealthStop
<1>13. CASE ProbeReturn
  <2>1. PICK i \in Ups : Probed(i) /\ hout' \in Outcomes(i, FALSE)
    BY <1>13, Zenon DEF ProbeReturn
  <2>2. hout' # "none" /\ (hout' = "error" => i \in everBad)
    BY <2>1, Zenon DEF IInv, InFlight, LinkHistory, Outcomes, Kinds
  <2>3. \A j \in Ups : Probed(j)' => j = i
    BY <1>13, <2>1, SMT, SMTT(30) DEF ProbeReturn, Probed, Ups
  <2> QED
    BY <1>13, <2>2, <2>3, Zenon
       DEF IInv, InFlight, CallInFlight, ProbeInFlight, LinkHistory, ProbeReturn
<1>14. CASE ProbeRecord
  BY <1>14, Zenon DEF IInv, TypeOK, InFlight, CallInFlight, ProbeInFlight, LinkHistory, Probed, ProbeRecord
<1>15. CASE CloseStart
  BY <1>15, Zenon DEF IInv, TypeOK, InFlight, CallInFlight, ProbeInFlight, LinkHistory, Probed, CloseStart
<1>16. CASE CloseFinish
  <2>1. PICK hit \in SUBSET {q \in Queries : pc[q] = "wait"},
             probed \in SUBSET {i \in Ups : Probing(i)} :
          /\ CallsCut(hit)
          /\ ProbeCut(probed)
          /\ everCut' = everCut \cup {idx[q] : q \in hit} \cup probed
    BY <1>16, Zenon DEF CloseFinish
  <2>2. ASSUME NEW q \in Queries, q \in hit PROVE CallInFlight(q)'
    <3>1. /\ pc[q] = "wait" /\ pc'[q] = "record" /\ out'[q] = "error" /\ idx[q] \in everCut'
          /\ idx' = idx /\ failed' = failed /\ result' = result /\ fellBack' = fellBack
      BY <2>1, <2>2, Zenon DEF CallsCut
    <3> QED
      BY <3>1, Zenon DEF IInv, InFlight, CallInFlight
  <2>3. ASSUME NEW q \in Queries, q \notin hit PROVE CallInFlight(q)'
    <3>1. /\ pc'[q] = pc[q] /\ out'[q] = out[q] /\ everCut \subseteq everCut' /\ everBad' = everBad
          /\ idx' = idx /\ failed' = failed /\ result' = result /\ fellBack' = fellBack
      BY <1>16, <2>1, <2>3, Zenon DEF CallsCut, CloseFinish
    <3> QED
      BY <3>1, Zenon DEF IInv, InFlight, CallInFlight
  <2>4. ProbeInFlight'
    <3>1. todo' = todo /\ everCut \subseteq everCut' /\ everBad' = everBad /\ probed \subseteq everCut'
      BY <1>16, <2>1, Zenon DEF ProbeCut, CloseFinish
    <3>2. CASE probed = {}
      BY <2>1, <3>1, <3>2, Zenon DEF IInv, InFlight, ProbeInFlight, ProbeCut, Probed
    <3>3. CASE probed # {}
      <4>1. PICK i \in probed : i \in Ups /\ Probed(i)
        BY <2>1, <3>3, Zenon DEF Probing
      <4>2. \A j \in Ups : Probed(j) => j = i
        BY <4>1, SMT, SMTT(30) DEF Probed, Ups
      <4> QED
        BY <2>1, <3>1, <3>3, <4>1, <4>2, Zenon DEF ProbeInFlight, ProbeCut, Probed
    <3> QED
      BY <3>2, <3>3, Zenon
  <2>5. LinkHistory'
    BY <1>16, Zenon DEF IInv, InFlight, LinkHistory, CloseFinish
  <2> QED
    BY <2>2, <2>3, <2>4, <2>5, Zenon DEF InFlight
<1>17. CASE EnterPhase2
  BY <1>17, Zenon DEF IInv, TypeOK, InFlight, CallInFlight, ProbeInFlight, LinkHistory, Probed, EnterPhase2
<1>18. ASSUME NEW i \in Ups, NEW b \in Links[i], LinkChanges(i, b) PROVE InFlight'
  <2>1. /\ pc' = pc /\ idx' = idx /\ out' = out /\ failed' = failed /\ result' = result
        /\ fellBack' = fellBack /\ hpc' = hpc /\ todo' = todo /\ hout' = hout /\ everCut' = everCut
        /\ everBad \subseteq everBad'
    BY <1>18, Zenon DEF LinkChanges, calls, prober
  <2>2. \A q \in Queries : CallInFlight(q)'
    BY <2>1, Zenon DEF IInv, InFlight, CallInFlight
  <2>3. ProbeInFlight'
    BY <2>1, Zenon DEF IInv, InFlight, ProbeInFlight, Probed
  <2>4. LinkHistory'
    BY <1>18, Zenon DEF IInv, TypeOK, InFlight, LinkHistory, LinkChanges
  <2> QED
    BY <2>2, <2>3, <2>4, Zenon DEF InFlight
<1>19. CASE UNCHANGED vars
  BY <1>19, Zenon DEF IInv, TypeOK, InFlight, CallInFlight, ProbeInFlight, LinkHistory, Probed, vars
<1> QED
  BY <1>1, <1>2, <1>3, <1>4, <1>5, <1>6, <1>7, <1>8, <1>9, <1>10, <1>11, <1>12, <1>13, <1>14, <1>15, <1>16, <1>17, <1>18, <1>19, Zenon
     DEF Next, Call, CallStep, ProberStep, Environment

-----------------------------------------------------------------------------
\* The inductive invariant holds in every reachable state.
THEOREM Invariance == Spec => []IInv
<1>1. IInv /\ [Next]_vars => IInv'
  BY TypeStep, HealthStep, BlameStep, AnswersStep, InFlightStep, Zenon DEF IInv
<1> QED
  BY InitEstablishes, <1>1, PTL DEF Spec

\* Every variable of the chain keeps its type: no index runs past the chain.
THEOREM TypeCorrect == Spec => []TypeOK
<1>1. IInv => TypeOK
  BY Zenon DEF IInv
<1> QED
  BY Invariance, <1>1, PTL

\* The health reported for every upstream is coherent, for any number of
\* queries and probes that record their outcomes in any order.
THEOREM HealthIsCoherent == Spec => []HealthCoherent
<1>1. IInv => HealthCoherent
  BY Zenon DEF IInv
<1> QED
  BY Invariance, <1>1, PTL

\* No upstream is charged with an error without cause.
THEOREM NoBlameWithoutCause == Spec => []BlameNeedsCause
<1>1. IInv => BlameNeedsCause
  BY Zenon DEF IInv
<1> QED
  BY Invariance, <1>1, PTL

\* Resolve answers only the question asked, and counts fallbacks exactly.
THEOREM NoForeignAnswer == Spec => []AnswersAreOwn
<1>1. IInv => AnswersAreOwn
  BY Zenon DEF IInv
<1> QED
  BY Invariance, <1>1, PTL

\* A chain of one entry is attempted by every query that fails.
THEOREM LoneIsTried == Spec => []LoneUpstreamTried
<1>1. IInv => LoneUpstreamTried
  BY Zenon DEF IInv, InFlight, CallInFlight, LoneUpstreamTried
<1> QED
  BY Invariance, <1>1, PTL

=============================================================================
