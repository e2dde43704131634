------------------------------ MODULE AIService ------------------------------
(***************************************************************************)
(* Calls to one AI provider: AIService.invoke (src/src/core/ai_service.py) *)
(* with its circuit breaker, retry_with_timeout                            *)
(* (src/src/utils/retry_utils.py), what the agents make of a failing       *)
(* provider (src/src/core/*_agent.py, agent.py), and the deadlines some    *)
(* callers put around a call (src/src/tasks.py).  Providers have a breaker *)
(* each and do not influence one another.                                  *)
(***************************************************************************)
EXTENDS CircuitBreaker

CONSTANTS
    Callers,      \* the callers of invoke; a caller makes one call at a time
    Impatient,    \* those that cancel a call before its own timeout expires
    MaxRetries,   \* settings.ai_retry_count
    Outages       \* the ways the provider may fail

OutageKinds ==
    { "refusing",   \* it refuses connections, answers with an HTTP error, or grants
                    \* no access token
      "hanging" }   \* it does not answer

ASSUME ImpatientAssumption == Impatient \subseteq Callers
ASSUME RetriesAssumption   == MaxRetries \in Nat
ASSUME OutagesAssumption   == Outages \subseteq OutageKinds

VARIABLES
    breaker,    \* the circuit breaker of the provider
    provider,   \* "up", or how it fails
    call        \* call[c]: the call of caller c

vars == <<breaker, provider, call>>

\* A call is "stuck" when the provider hung while its attempt was under way: the
\* attempt may time out even if the provider answers others by then.
CallType == [step : {"idle", "waiting", "stuck", "backoff"}, attempt : 0..MaxRetries]
NoCall   == [step |-> "idle", attempt |-> 0]

Init ==
    /\ breaker = NewBreaker
    /\ provider = "up"
    /\ call = [c \in Callers |-> NoCall]

Busy(c)   == call[c].step # "idle"
Asked(c)  == call[c].step \in {"waiting", "stuck"}
Sent      == IF provider = "hanging" THEN "stuck" ELSE "waiting"
Return(c) == call' = [call EXCEPT ![c] = NoCall]

-----------------------------------------------------------------------------
(* The environment *)

ProviderFails ==
    /\ provider = "up"
    /\ provider' \in Outages
    /\ call' = [c \in Callers |-> IF provider' = "hanging" /\ Asked(c)
                                 THEN [call[c] EXCEPT !.step = "stuck"] ELSE call[c]]
    /\ UNCHANGED breaker

ProviderRecovers ==
    /\ provider # "up"
    /\ provider' = "up"
    /\ UNCHANGED <<breaker, call>>

\* recovery_timeout has elapsed since the last recorded failure.
TimePasses ==
    /\ breaker.lastFailure = "recent"
    /\ breaker' = [breaker EXCEPT !.lastFailure = "past"]
    /\ UNCHANGED <<provider, call>>

\* GET /health and the phases that ask is_provider_available.
ReadStatus ==
    /\ Observed(breaker) # breaker
    /\ breaker' = Observed(breaker)
    /\ UNCHANGED <<provider, call>>

-----------------------------------------------------------------------------
(* AIService.invoke *)

\* The breaker is asked once, before the first attempt; a call that is turned
\* away returns None and leaves everything as it is.
Begin(c) ==
    /\ ~Busy(c)
    /\ Observed(breaker).state # "open"
    /\ breaker' = Observed(breaker)
    /\ call' = [call EXCEPT ![c] = [step |-> Sent, attempt |-> 0]]
    /\ UNCHANGED provider

Answer(c) ==
    /\ Asked(c) /\ provider = "up"
    /\ breaker' = RecordSuccess(breaker)
    /\ Return(c)
    /\ UNCHANGED provider

\* Every agent turns an HTTP error or a failed connection, after its own
\* retries, into None, which invoke takes for an answer.
AnswerNothing(c) ==
    /\ Asked(c) /\ provider = "refusing"
    /\ breaker' = RecordSuccess(breaker)
    /\ Return(c)
    /\ UNCHANGED provider

\* An attempt times out and is repeated after a pause.
AttemptTimesOut(c) ==
    /\ call[c].step = "stuck"
    /\ c \notin Impatient
    /\ call[c].attempt < MaxRetries
    /\ call' = [call EXCEPT ![c] = [step |-> "backoff", attempt |-> @.attempt + 1]]
    /\ UNCHANGED <<breaker, provider>>

\* The breaker is not asked again.
Retry(c) ==
    /\ call[c].step = "backoff"
    /\ call' = [call EXCEPT ![c].step = Sent]
    /\ UNCHANGED <<breaker, provider>>

\* Mutant: the exhausted call returns its fallback and that is all.
GiveUpSilently(c) ==
    /\ call[c].step = "stuck"
    /\ c \notin Impatient
    /\ call[c].attempt = MaxRetries
    /\ Return(c)
    /\ UNCHANGED <<breaker, provider>>

\* The last attempt times out: one failure is recorded for the whole call.
GiveUp(c) ==
    /\ call[c].step = "stuck"
    /\ c \notin Impatient
    /\ call[c].attempt = MaxRetries
    /\ breaker' = RecordFailure(breaker)
    /\ Return(c)
    /\ UNCHANGED provider

\* The deadline of the caller cancels the call; CancelledError is no Exception,
\* so neither a success nor a failure is recorded.
Abandon(c) ==
    /\ c \in Impatient
    /\ call[c].step = "stuck" \/ (Asked(c) /\ provider = "refusing")
    /\ Return(c)
    /\ UNCHANGED <<breaker, provider>>

CallStep(c) ==
    \/ Answer(c)
    \/ AnswerNothing(c)
    \/ AttemptTimesOut(c)
    \/ Retry(c)
    \/ GiveUp(c)
    \/ Abandon(c)

Next ==
    \/ ProviderFails
    \/ ProviderRecovers
    \/ TimePasses
    \/ ReadStatus
    \/ \E c \in Callers : Begin(c) \/ CallStep(c)

Spec == Init /\ [][Next]_vars

\* Time passes, a call ends (by an answer or by its timeout), and callers keep
\* coming; the provider fails and recovers as it likes.
Fairness ==
    /\ WF_vars(TimePasses)
    /\ \A c \in Callers : WF_vars(Begin(c)) /\ WF_vars(CallStep(c))

FairSpec == Spec /\ Fairness

-----------------------------------------------------------------------------
(* Properties *)

TypeOK ==
    /\ breaker \in BreakerType
    /\ provider \in {"up"} \cup Outages
    /\ call \in [Callers -> CallType]

\* A closed breaker has counted fewer failures than its threshold, and one that
\* tests the provider has had a failure, whose timeout has elapsed; late answers
\* of calls made in another state do not disturb this.
BreakerConsistent ==
    /\ breaker.state = "closed" => breaker.failures < Threshold
    /\ breaker.state = "open" => breaker.lastFailure # "never"
    /\ breaker.state = "half_open" => breaker.lastFailure = "past"

\* While the breaker is not closed no call begins until recovery_timeout has
\* elapsed since the last failure, whichever call it was.
QuietAfterFailure ==
    [][\A c \in Callers : ~Busy(c) /\ call'[c].step # "idle"
          => breaker.state = "closed" \/ breaker.lastFailure = "past"]_vars

\* A provider that works is not shut off for ever.
RecoversWithProvider == <>[](provider = "up") => <>[](breaker.state = "closed")

\* A provider that no longer answers is shut off, whatever answers and refusals
\* came before.
HangTripsBreaker == <>[](provider = "hanging") => <>[](breaker.state # "closed")
=============================================================================
