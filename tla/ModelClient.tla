----------------------------- MODULE ModelClient -----------------------------
(***************************************************************************)
(* LLMClient.call and the CircuitBreaker it consults: one client, asked    *)
(* again and again, against a server that may answer anything.             *)
(*                                                                         *)
(* Time is counted in units.  The breaker only ever looks at how long ago  *)
(* it was opened, so opened_at is kept as that age, which stops growing at *)
(* Cooldown; opened_at = 0.0 is an age of Cooldown.  How long a request or *)
(* a sleep takes is free: Tick may happen in between any number of times.  *)
(***************************************************************************)
EXTENDS Integers, Sequences

CONSTANTS
  MaxRetries,    \* RuntimeConfig.max_retries: attempts per call
  MaxFailures,   \* RuntimeConfig.circuit_max_failures
  Cooldown,      \* RuntimeConfig.circuit_cooldown_seconds
  BaseDelay,     \* RuntimeConfig.retry_base_delay
  RetryAfters,   \* numbers the server may put into Retry-After
  None           \* no Retry-After header, or one that is not a number

ASSUME ClientAssumption ==
  /\ MaxRetries \in Nat \ {0}
  /\ MaxFailures \in Nat \ {0}
  /\ Cooldown \in Nat \ {0}
  /\ BaseDelay \in Nat
  /\ RetryAfters \subseteq Int
  /\ None \notin Int

VARIABLES
  breaker,   \* CircuitBreaker: failure_count and the age of opened_at
  call,      \* LLMClient.call: where it is, the attempt, last_retries, and how
             \* the last call ended
  requests   \* history: requests sent since the last answer, or since the last
             \* call that was let through after a cooldown

vars == <<breaker, call, requests>>

\* What one attempt may meet: a JSON object; an HTTP status other than 429 and
\* 529; status 429 or 529 ("busy"); a refused connection, a timeout or a body
\* that is not a JSON object ("broken"); an exception call does not catch
\* ("dropped": the connection closes without a response or before
\* Content-Length bytes, or Retry-After is too large to sleep).
Meets ==
  [kind : {"ok", "status", "broken", "dropped"}, after : {None}]
    \cup [kind : {"busy"}, after : RetryAfters \cup {None}]

FreshBreaker == [failures |-> 0, age |-> Cooldown]
NoCall == [pc |-> "idle", attempt |-> 0, retries |-> <<>>, ended |-> "none"]

Init ==
  /\ breaker = FreshBreaker
  /\ call = NoCall
  /\ requests = 0

\* Mutant: the breaker does not wait for the whole cooldown.
LetThroughEarly == breaker.failures < MaxFailures \/ breaker.age >= Cooldown - 1

\* Mutant: an open breaker stays open.
LetThroughNever == breaker.failures < MaxFailures

\* CircuitBreaker.check.
LetThrough == breaker.failures < MaxFailures \/ breaker.age >= Cooldown

\* The history starts anew with a call that a cooldown has passed before.
Rested == breaker.failures >= MaxFailures /\ breaker.age >= Cooldown

SendFirst ==
  /\ call' = [NoCall EXCEPT !.pc = "request"]
  /\ requests' = IF Rested THEN 1 ELSE requests + 1

\* Mutant: an expired cooldown does not clear the count.
AskKeepsCount == call.pc = "idle" /\ LetThrough /\ SendFirst /\ UNCHANGED breaker

\* check, then the first attempt of a call that is let through.  An expired
\* cooldown clears the count: MaxFailures more calls may fail before the
\* breaker opens again.
Ask ==
  /\ call.pc = "idle"
  /\ LetThrough
  /\ breaker' = IF breaker.failures < MaxFailures THEN breaker
                ELSE [breaker EXCEPT !.failures = 0]
  /\ SendFirst

\* CircuitBreakerOpenError: nothing is sent; last_retries keeps what it was.
Refuse ==
  /\ call.pc = "idle"
  /\ ~LetThrough
  /\ call' = [call EXCEPT !.ended = "refused"]
  /\ UNCHANGED <<breaker, requests>>

End(how) == call' = [call EXCEPT !.pc = "idle", !.ended = how]

Succeed ==
  /\ breaker' = FreshBreaker
  /\ requests' = 0
  /\ End("answer")

\* record_failure, when the count becomes n.
CountFailure(n) ==
  breaker' = [failures |-> n, age |-> IF n >= MaxFailures THEN 0 ELSE breaker.age]

\* record_failure and NetworkFailureError.
Fail ==
  /\ CountFailure(breaker.failures + 1)
  /\ End("failed")
  /\ UNCHANGED requests

\* Mutant: the jitter is proportional to the cap.
WideDelays(attempt, after) ==
  IF after # None THEN {IF after > 0 THEN after ELSE 0}
  ELSE {BaseDelay * 2^attempt + j : j \in 0 .. BaseDelay * 2^(attempt + 1)}

\* _retry_delay: Retry-After, which is not capped, or the doubled delay with a
\* jitter of up to retry_base_delay.
Delays(attempt, after) ==
  IF after # None THEN {IF after > 0 THEN after ELSE 0}
  ELSE {BaseDelay * 2^attempt + j : j \in 0 .. BaseDelay}

LastAttempt == call.attempt = MaxRetries - 1

Retry(meet) ==
  /\ ~LastAttempt
  /\ \E d \in Delays(call.attempt, meet.after) :
       call' = [call EXCEPT !.pc = "sleep",
                  !.retries = Append(@, [attempt |-> call.attempt + 1,
                                         after |-> meet.after, delay |-> d])]
  /\ UNCHANGED <<breaker, requests>>

\* The exception leaves call: neither retried nor counted by the breaker.  The
\* requests of this call are taken out of the history.
Escape ==
  /\ End("escaped")
  /\ requests' = requests - (call.attempt + 1)
  /\ UNCHANGED breaker

Meet(meet) ==
  /\ call.pc = "request"
  /\ \/ meet.kind = "ok" /\ Succeed
     \/ meet.kind = "status" /\ Fail
     \/ meet.kind \in {"busy", "broken"} /\ LastAttempt /\ Fail
     \/ meet.kind \in {"busy", "broken"} /\ Retry(meet)
     \/ meet.kind = "dropped" /\ Escape

\* The sleep of _record_retry is over and the next attempt is sent.
Wake ==
  /\ call.pc = "sleep"
  /\ call' = [call EXCEPT !.pc = "request", !.attempt = @ + 1]
  /\ requests' = requests + 1
  /\ UNCHANGED breaker

Tick ==
  /\ breaker.age < Cooldown
  /\ breaker' = [breaker EXCEPT !.age = @ + 1]
  /\ UNCHANGED <<call, requests>>

\* The process ends and another one builds a client: nothing of the breaker is
\* stored.
Restart == breaker' = FreshBreaker /\ call' = NoCall /\ requests' = 0

Next ==
  \/ Ask \/ Refuse \/ Wake \/ Tick \/ Restart
  \/ \E meet \in Meets : Meet(meet)

Spec == Init /\ [][Next]_vars

\* An attempt is answered or times out, a sleep ends, the caller calls again
\* and the clock runs.  Which answer it is, and restarts, are never fair.
Fairness ==
  /\ WF_vars(Ask \/ Refuse)
  /\ WF_vars(\E meet \in Meets : Meet(meet))
  /\ WF_vars(Wake)
  /\ WF_vars(Tick)

FairSpec == Spec /\ Fairness

(***************************************************************************)
(* Properties.                                                             *)
(***************************************************************************)

Headers == RetryAfters \cup {None}
AllDelays == UNION {Delays(n, after) : n \in 0 .. MaxRetries - 1, after \in Headers}
RetryEvent == [attempt : 1 .. MaxRetries - 1, after : Headers, delay : AllDelays]

CallType ==
  [pc : {"idle", "request", "sleep"}, attempt : 0 .. MaxRetries - 1,
   retries : Seq(RetryEvent),
   ended : {"none", "answer", "failed", "refused", "escaped"}]

\* The count never passes its limit, an attempt stays below max_retries, and the
\* last one is not followed by a sleep.
TypeOK ==
  /\ breaker \in [failures : 0 .. MaxFailures, age : 0 .. Cooldown]
  /\ call \in CallType
  /\ requests \in Nat

\* Between an answer, or the end of a cooldown, and the next one the calls that
\* fail send no more than max_failures times max_retries requests: however
\* attempts, sleeps and cooldowns fall, a server that is down is left alone
\* for a cooldown after that many (CircuitBreaker.check, record_failure).
LoadBounded == requests <= MaxFailures * MaxRetries

\* While the breaker is open no request is in flight: the attempt that opens it
\* is the last of its call, and no sleeping call wakes into an open breaker.
OpenMeansQuiet ==
  breaker.failures >= MaxFailures => call.pc = "idle"

\* last_retries tells the retries of the call, in order: one per attempt that was
\* given up, each delay at least what the server asked for, and backoff delays
\* that never shrink whatever the jitter (_retry_delay, _record_retry).
RetriesFaithful ==
  /\ call.pc # "idle" =>
       Len(call.retries) = call.attempt + (IF call.pc = "sleep" THEN 1 ELSE 0)
  /\ \A i \in DOMAIN call.retries :
       LET r == call.retries[i]
       IN  /\ r.attempt = i
           /\ r.after # None => r.delay >= r.after
           /\ \A j \in 1 .. i - 1 :
                r.after = None /\ call.retries[j].after = None =>
                  call.retries[j].delay <= r.delay

\* Every call ends with an answer or a NetworkFailureError.
EndsLegibly == call.ended # "escaped"

\* A caller that keeps calling gets every call back, and the breaker never
\* shuts it out for good.
KeepsServing == []<>(call.pc = "idle") /\ []<>(call.pc = "request")
=============================================================================
