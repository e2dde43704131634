--------------------------- MODULE CircuitBreaker ---------------------------
(***************************************************************************)
(* The circuit breaker of one AI provider                                  *)
(* (src/src/utils/circuit_breaker.py).  Its methods never wait while they  *)
(* hold the lock, so each one is a function from record to record.         *)
(*                                                                         *)
(* The clock is represented by the one comparison made with it: whether    *)
(* recovery_timeout has elapsed since the last recorded failure ("past")   *)
(* or not ("recent").  Failures are counted up to Threshold, the bound     *)
(* beyond which the code makes no difference.                              *)
(***************************************************************************)
EXTENDS Naturals

CONSTANT Threshold   \* failure_threshold

ASSUME ThresholdAssumption == Threshold \in Nat \ {0}

BreakerType == [state       : {"closed", "open", "half_open"},
                failures    : 0..Threshold,
                lastFailure : {"never", "recent", "past"}]

NewBreaker == [state |-> "closed", failures |-> 0, lastFailure |-> "never"]

\* Mutant: the time since the last failure is not looked at.
ObservedAtOnce(b) ==
    IF b.state = "open" THEN [b EXCEPT !.state = "half_open"] ELSE b

\* Reading the state or the availability moves an open breaker to half-open
\* once the timeout has elapsed (_check_state_transition_unlocked).
Observed(b) ==
    IF b.state = "open" /\ b.lastFailure = "past"
    THEN [b EXCEPT !.state = "half_open"]
    ELSE b

\* Mutant: the state is not looked at.
RecordSuccessDecrements(b) ==
    [b EXCEPT !.failures = IF @ > 0 THEN @ - 1 ELSE 0]

\* An answer that arrives while the breaker is open changes nothing.
RecordSuccess(b) ==
    CASE b.state = "half_open" -> [b EXCEPT !.state = "closed", !.failures = 0]
      [] b.state = "closed"    -> [b EXCEPT !.failures = IF @ > 0 THEN @ - 1 ELSE 0]
      [] OTHER                 -> b

Increment(failures) == IF failures < Threshold THEN failures + 1 ELSE failures

\* Mutant: an off-by-one at the threshold.
RecordFailureLate(b) ==
    [state       |-> IF b.state = "half_open" \/ (b.state = "closed" /\ b.failures >= Threshold)
                     THEN "open" ELSE b.state,
     failures    |-> Increment(b.failures),
     lastFailure |-> "recent"]

\* A failure that arrives while the breaker is open extends the timeout.
RecordFailure(b) ==
    [state       |-> IF b.state = "half_open"
                        \/ (b.state = "closed" /\ Increment(b.failures) >= Threshold)
                     THEN "open" ELSE b.state,
     failures    |-> Increment(b.failures),
     lastFailure |-> "recent"]
=============================================================================
