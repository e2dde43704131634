--------------------------- MODULE AIService_proofs ---------------------------
(***************************************************************************)
(* Proofs about AIService: for any number of callers, any threshold and    *)
(* any number of retries, the breaker is consistent and keeps callers away *)
(* from a provider that has just failed.                                   *)
(***************************************************************************)
EXTENDS AIService, TLAPS

(* The two functions that record an outcome, and the one that looks at the clock. *)

LEMMA ObservedType == ASSUME NEW b \in BreakerType PROVE Observed(b) \in BreakerType
  BY DEF Observed, BreakerType

LEMMA IncrementType == \A n \in 0..Threshold : Increment(n) \in 0..Threshold
  BY ThresholdAssumption DEF Increment

LEMMA RecordSuccessType ==
    ASSUME NEW b \in BreakerType PROVE RecordSuccess(b) \in BreakerType
<1> b.state \in {"closed", "half_open", "open"} /\ b.failures \in 0..Threshold
  BY DEF BreakerType
<1>1. CASE b.state = "half_open"
  <2>1. RecordSuccess(b) = [b EXCEPT !.state = "closed", !.failures = 0]
    BY <1>1 DEF RecordSuccess
  <2>2. 0 \in 0..Threshold
    BY ThresholdAssumption
  <2> QED
    BY <2>1, <2>2 DEF BreakerType
<1>2. CASE b.state = "closed"
  <2> DEFINE fewer == IF b.failures > 0 THEN b.failures - 1 ELSE 0
  <2>1. fewer \in 0..Threshold
    BY ThresholdAssumption
  <2>2. RecordSuccess(b) = [b EXCEPT !.failures = fewer]
    BY <1>2 DEF RecordSuccess
  <2> HIDE DEF fewer
  <2> QED
    BY <2>1, <2>2 DEF BreakerType
<1>3. CASE b.state = "open"
  BY <1>3 DEF RecordSuccess
<1> QED
  BY <1>1, <1>2, <1>3

LEMMA RecordFailureType ==
    ASSUME NEW b \in BreakerType PROVE RecordFailure(b) \in BreakerType
  BY ThresholdAssumption DEF RecordFailure, Increment, BreakerType

\* The variables keep their types; in particular no call makes more attempts than
\* MaxRetries allows (retry_with_backoff).
THEOREM TypeCorrect == Spec => []TypeOK
<1>1. Init => TypeOK
  BY ThresholdAssumption, RetriesAssumption
  DEF Init, TypeOK, NewBreaker, BreakerType, NoCall, CallType
<1>2. ASSUME TypeOK, [Next]_vars
      PROVE  TypeOK'
  <2> USE <1>2 DEF TypeOK
  <2> NoCall \in CallType
    BY RetriesAssumption DEF NoCall, CallType
  <2>1. CASE ProviderFails
    BY <2>1 DEF ProviderFails, CallType
  <2>2. CASE ProviderRecovers
    BY <2>2 DEF ProviderRecovers
  <2>3. CASE TimePasses
    BY <2>3 DEF TimePasses, BreakerType
  <2>4. CASE ReadStatus
    BY <2>4, ObservedType DEF ReadStatus
  <2>5. ASSUME NEW c \in Callers, Begin(c)
        PROVE  TypeOK'
    BY <2>5, ObservedType, RetriesAssumption DEF Begin, CallType, Sent
  <2>6. ASSUME NEW c \in Callers, Answer(c)
        PROVE  TypeOK'
    BY <2>6, RecordSuccessType, ThresholdAssumption DEF Answer, Return
  <2>7. ASSUME NEW c \in Callers, AnswerNothing(c)
        PROVE  TypeOK'
    BY <2>7, RecordSuccessType DEF AnswerNothing, Return
  <2>8. ASSUME NEW c \in Callers, AttemptTimesOut(c)
        PROVE  TypeOK'
    BY <2>8, RetriesAssumption DEF AttemptTimesOut, CallType
  <2>9. ASSUME NEW c \in Callers, Retry(c)
        PROVE  TypeOK'
    BY <2>9 DEF Retry, CallType, Sent
  <2>10. ASSUME NEW c \in Callers, GiveUp(c)
         PROVE  TypeOK'
    BY <2>10, RecordFailureType DEF GiveUp, Return
  <2>11. ASSUME NEW c \in Callers, Abandon(c)
         PROVE  TypeOK'
    BY <2>11 DEF Abandon, Return
  <2>12. CASE UNCHANGED vars
    BY <2>12 DEF vars
  <2> QED
    BY <2>1, <2>2, <2>3, <2>4, <2>5, <2>6, <2>7, <2>8, <2>9, <2>10, <2>11, <2>12
    DEF Next, CallStep
<1> QED
  BY <1>1, <1>2, PTL DEF Spec

\* Consistency as a property of the record, preserved by every operation on it.
Consistent(b) ==
    /\ b.state = "closed" => b.failures < Threshold
    /\ b.state = "open" => b.lastFailure # "never"
    /\ b.state = "half_open" => b.lastFailure = "past"

LEMMA ObservedConsistent ==
    ASSUME NEW b \in BreakerType, Consistent(b) PROVE Consistent(Observed(b))
  BY DEF Observed, Consistent, BreakerType

LEMMA RecordSuccessConsistent ==
    ASSUME NEW b \in BreakerType, Consistent(b) PROVE Consistent(RecordSuccess(b))
  BY ThresholdAssumption DEF RecordSuccess, Consistent, BreakerType

LEMMA RecordFailureConsistent ==
    ASSUME NEW b \in BreakerType, Consistent(b) PROVE Consistent(RecordFailure(b))
<1>1. Increment(b.failures) >= Threshold \/ Increment(b.failures) < Threshold
  BY ThresholdAssumption DEF Increment, BreakerType
<1> QED
  BY <1>1 DEF RecordFailure, Consistent, BreakerType

\* A closed breaker is below its threshold, and one that tests the provider waited
\* for the timeout first, whatever answers arrive late (record_success and
\* record_failure look only at the state they find).
THEOREM BreakerStaysConsistent == Spec => []BreakerConsistent
<1>1. BreakerConsistent <=> Consistent(breaker)
  BY DEF BreakerConsistent, Consistent
<1>2. Init => Consistent(breaker)
  BY ThresholdAssumption DEF Init, NewBreaker, Consistent
<1>3. ASSUME TypeOK, Consistent(breaker), [Next]_vars
      PROVE  Consistent(breaker')
  <2>1. breaker \in BreakerType
    BY <1>3 DEF TypeOK
  <2>2. CASE breaker' = breaker
    BY <2>2, <1>3
  <2>3. CASE TimePasses
    BY <2>1, <2>3, <1>3 DEF TimePasses, Consistent, BreakerType
  <2>4. CASE breaker' = Observed(breaker)
    BY <2>1, <2>4, <1>3, ObservedConsistent
  <2>5. CASE breaker' = RecordSuccess(breaker)
    BY <2>1, <2>5, <1>3, RecordSuccessConsistent
  <2>6. CASE breaker' = RecordFailure(breaker)
    BY <2>1, <2>6, <1>3, RecordFailureConsistent
  <2> QED
    BY <1>3, <2>2, <2>3, <2>4, <2>5, <2>6
    DEF Next, vars, ProviderFails, ProviderRecovers, ReadStatus, Begin, CallStep, Answer,
        AnswerNothing, AttemptTimesOut, Retry, GiveUp, Abandon
<1>4. Consistent(breaker)' <=> Consistent(breaker')
  BY DEF Consistent
<1> QED
  BY <1>1, <1>2, <1>3, <1>4, TypeCorrect, PTL DEF Spec

\* No call begins before recovery_timeout has elapsed since the last failure,
\* unless the breaker is closed: the first reader that finds the time elapsed
\* moves it to half-open, and any failure moves it back.
THEOREM QuietKept == Spec => QuietAfterFailure
<1>1. ASSUME BreakerConsistent, TypeOK, [Next]_vars,
             NEW c \in Callers, ~Busy(c), call'[c].step # "idle"
      PROVE  breaker.state = "closed" \/ breaker.lastFailure = "past"
  <2>1. Begin(c)
    <3>1. ASSUME NEW d \in Callers, d # c, Begin(d) \/ CallStep(d)
          PROVE  FALSE
      BY <1>1, <3>1 DEF TypeOK, Begin, CallStep, Answer, AnswerNothing, AttemptTimesOut,
                        Retry, GiveUp, Abandon, Return, Busy, Asked
    <3>2. ~CallStep(c)
      BY <1>1 DEF TypeOK, CallStep, Answer, AnswerNothing, AttemptTimesOut, Retry, GiveUp,
                  Abandon, Busy, Asked
    <3>3. call' # call
      BY <1>1 DEF Busy
    <3>4. ~ProviderFails
      BY <1>1 DEF TypeOK, ProviderFails, Busy, Asked
    <3> QED
      BY <1>1, <3>1, <3>2, <3>3, <3>4
      DEF Next, vars, ProviderFails, ProviderRecovers, TimePasses, ReadStatus
  <2> QED
    BY <1>1, <2>1 DEF Begin, Observed, BreakerConsistent, TypeOK, BreakerType
<1>2. ASSUME BreakerConsistent, TypeOK, [Next]_vars
      PROVE  [\A c \in Callers : ~Busy(c) /\ call'[c].step # "idle"
                => breaker.state = "closed" \/ breaker.lastFailure = "past"]_vars
  BY <1>1, <1>2
<1> QED
  BY <1>2, TypeCorrect, BreakerStaysConsistent, PTL DEF Spec, QuietAfterFailure
=============================================================================
