-------------------------- MODULE ModelClientProofs --------------------------
(***************************************************************************)
(* The circuit breaker bounds the load on a server that is down, for every *)
(* limit, cooldown, delay and Retry-After.                                 *)
(***************************************************************************)
EXTENDS ModelClient, FiniteSetTheorems, TLAPS

\* The products of the limits grow with the failures.
LEMMA Products ==
  ASSUME NEW n \in Nat
  PROVE  /\ n * MaxRetries \in Nat
         /\ 0 * MaxRetries = 0
         /\ (n + 1) * MaxRetries = n * MaxRetries + MaxRetries
         /\ \A m \in Nat : n <= m => n * MaxRetries <= m * MaxRetries
  BY ClientAssumption, Z3

\* The requests that are accounted for: those of the failed calls, and those of
\* the call being made.
InCall == IF call.pc = "idle" THEN 0 ELSE call.attempt + 1

Accounted ==
  /\ InCall <= requests
  /\ requests <= breaker.failures * MaxRetries + InCall

\* A call that sleeps has an attempt left.
AttemptLeft == call.pc = "sleep" => call.attempt < MaxRetries - 1

IInv == TypeOK /\ OpenMeansQuiet /\ Accounted /\ AttemptLeft

\* A client that has not been asked.
LEMMA InitIInv == Init => IInv
<1> SUFFICES ASSUME Init PROVE IInv
  OBVIOUS
<1> USE ClientAssumption DEF Init, FreshBreaker, NoCall
<1>1. TypeOK
  BY DEF TypeOK, CallType
<1>2. OpenMeansQuiet
  BY DEF OpenMeansQuiet
<1>3. Accounted
  BY Products DEF Accounted, InCall
<1> QED
  BY <1>1, <1>2, <1>3 DEF IInv, AttemptLeft

\* The shape of the state, for the steps below.
LEMMA Shape ==
  ASSUME TypeOK
  PROVE  /\ breaker = [failures |-> breaker.failures, age |-> breaker.age]
         /\ breaker.failures \in Nat /\ breaker.age \in Nat
         /\ breaker.failures <= MaxFailures /\ breaker.age <= Cooldown
         /\ call.attempt \in Nat /\ call.attempt < MaxRetries
         /\ requests \in Nat
  BY ClientAssumption DEF TypeOK, CallType

\* A call that ends keeps its attempt and its retries.
LEMMA EndType ==
  ASSUME TypeOK, NEW how \in {"answer", "failed", "escaped", "refused"}, End(how)
  PROVE  /\ call' \in CallType
         /\ call'.pc = "idle"
  BY DEF TypeOK, CallType, End

\* One more failure is in range, since a call is only made below the limit.
LEMMA FailStep ==
  ASSUME IInv, call.pc = "request", Fail
  PROVE  IInv'
<1> USE ClientAssumption DEF IInv, AttemptLeft
<1>1. breaker.failures < MaxFailures
  BY Shape DEF OpenMeansQuiet
<1>2. /\ breaker' \in [failures : 0 .. MaxFailures, age : 0 .. Cooldown]
      /\ breaker'.failures = breaker.failures + 1
  BY <1>1, Shape DEF Fail, CountFailure, TypeOK, CallType
<1>3. TypeOK' /\ call'.pc = "idle"
  BY <1>2, EndType DEF Fail, TypeOK, CallType
<1>4. OpenMeansQuiet'
  BY <1>3 DEF OpenMeansQuiet
<1>5. Accounted'
  <2>1. InCall' = 0 /\ requests' = requests
    BY <1>3 DEF InCall, Fail
  <2>2. requests <= breaker.failures * MaxRetries + MaxRetries
    BY Shape, Products DEF Accounted, InCall
  <2> QED
    BY <1>2, <2>1, <2>2, Shape, Products DEF Accounted
<1> QED
  BY <1>3, <1>4, <1>5

\* An answer ends the call and closes the breaker.
LEMMA SucceedStep ==
  ASSUME IInv, call.pc = "request", Succeed
  PROVE  IInv'
<1> USE ClientAssumption DEF IInv, AttemptLeft
<1>1. TypeOK' /\ call'.pc = "idle" /\ breaker'.failures = 0 /\ requests' = 0
  BY EndType DEF Succeed, FreshBreaker, TypeOK, CallType
<1> QED
  BY <1>1, Products DEF OpenMeansQuiet, Accounted, InCall

\* An error that is not handled ends the call.
LEMMA EscapeStep ==
  ASSUME IInv, call.pc = "request", Escape
  PROVE  IInv'
<1> USE ClientAssumption DEF IInv, AttemptLeft
<1>1. call.attempt + 1 <= requests
      /\ requests <= breaker.failures * MaxRetries + call.attempt + 1
  BY Shape, Products DEF Accounted, InCall
<1>2. TypeOK' /\ call'.pc = "idle"
  BY <1>1, Shape, EndType DEF Escape, TypeOK, CallType
<1>3. Accounted'
  BY <1>1, <1>2, Shape, Products DEF Accounted, InCall, Escape
<1> QED
  BY <1>2, <1>3 DEF OpenMeansQuiet

\* A failure is counted and the call retried or given up.
LEMMA RetryStep ==
  ASSUME IInv, call.pc = "request", NEW meet \in Meets, Retry(meet)
  PROVE  IInv'
<1> USE ClientAssumption DEF IInv, AttemptLeft
<1>1. PICK d \in Delays(call.attempt, meet.after) :
        call' = [call EXCEPT !.pc = "sleep",
                   !.retries = Append(@, [attempt |-> call.attempt + 1,
                                          after |-> meet.after, delay |-> d])]
  BY DEF Retry
<1>2. [attempt |-> call.attempt + 1, after |-> meet.after, delay |-> d] \in RetryEvent
  <2>1. call.attempt + 1 \in 1 .. MaxRetries - 1
    BY Shape DEF Retry, LastAttempt
  <2>2. meet.after \in Headers
    BY DEF Meets, Headers
  <2>3. d \in AllDelays
    BY <2>1, <2>2, Shape DEF AllDelays
  <2> QED
    BY <2>1, <2>2, <2>3 DEF RetryEvent
<1>3. /\ TypeOK'
      /\ call'.pc = "sleep" /\ call'.attempt = call.attempt
      /\ UNCHANGED <<breaker, requests>>
  <2> DEFINE e == [attempt |-> call.attempt + 1, after |-> meet.after, delay |-> d]
  <2>1. Append(call.retries, e) \in Seq(RetryEvent)
    <3>1. call.retries \in Seq(RetryEvent) /\ e \in RetryEvent
      BY <1>2 DEF TypeOK, CallType
    <3> QED
      BY <3>1
  <2>2. call' = [call EXCEPT !.pc = "sleep", !.retries = Append(call.retries, e)]
    BY <1>1
  <2>3. call' \in CallType /\ call'.pc = "sleep" /\ call'.attempt = call.attempt
    <3> HIDE DEF e
    <3> QED
      BY <2>1, <2>2 DEF TypeOK, CallType
  <2>4. UNCHANGED <<breaker, requests>>
    BY DEF Retry
  <2> QED
    BY <2>3, <2>4 DEF TypeOK, CallType
<1>4. OpenMeansQuiet'
  BY <1>3, Shape DEF OpenMeansQuiet
<1>5. Accounted' /\ AttemptLeft'
  BY <1>3, Shape DEF Accounted, InCall, Retry, LastAttempt
<1> QED
  BY <1>3, <1>4, <1>5

\* The invariant is inductive.
LEMMA NextIInv == IInv /\ [Next]_vars => IInv'
<1> SUFFICES ASSUME IInv, [Next]_vars PROVE IInv'
  OBVIOUS
<1> USE ClientAssumption DEF IInv, AttemptLeft
<1>1. CASE Ask
  <2>1. /\ call' = [NoCall EXCEPT !.pc = "request"]
        /\ breaker'.failures < MaxFailures
        /\ breaker' \in [failures : 0 .. MaxFailures, age : 0 .. Cooldown]
        /\ requests' \in Nat
    BY <1>1, Shape DEF Ask, SendFirst, TypeOK, CallType
  <2>2. TypeOK'
    <3>1. NoCall \in CallType
      BY DEF NoCall, CallType
    <3>2. call' \in CallType
      BY <2>1, <3>1 DEF CallType
    <3> QED
      BY <2>1, <3>2 DEF TypeOK, CallType
  <2>3. OpenMeansQuiet'
    BY <2>1, <2>2, Shape DEF OpenMeansQuiet, TypeOK, CallType
  <2>4. InCall' = 1
    BY <2>1 DEF InCall, NoCall
  <2>5. Accounted'
    <3>1. CASE breaker.failures < MaxFailures
      BY <1>1, <2>4, <3>1, Shape, Products DEF Ask, SendFirst, Rested, Accounted, InCall
    <3>2. CASE ~(breaker.failures < MaxFailures)
      BY <1>1, <2>4, <3>2, Shape, Products
        DEF Ask, LetThrough, SendFirst, Rested, Accounted
    <3> QED
      BY <3>1, <3>2
  <2> QED
    BY <2>1, <2>2, <2>3, <2>5 DEF NoCall
<1>2. CASE Refuse
  <2>1. /\ call.pc = "idle" /\ call'.pc = "idle" /\ UNCHANGED <<breaker, requests>>
        /\ TypeOK'
    BY <1>2 DEF Refuse, TypeOK, CallType
  <2> QED
    BY <2>1 DEF OpenMeansQuiet, Accounted, InCall
<1>3. CASE Wake
  <2>1. /\ call'.pc = "request" /\ call'.attempt = call.attempt + 1
        /\ requests' = requests + 1 /\ breaker' = breaker
        /\ call.pc = "sleep"
    BY <1>3 DEF Wake, TypeOK, CallType
  <2>2. TypeOK'
    <3>1. call.attempt + 1 \in 0 .. MaxRetries - 1
      BY <2>1, Shape
    <3>2. call' = [call EXCEPT !.pc = "request", !.attempt = call.attempt + 1]
      BY <1>3 DEF Wake
    <3>3. call' \in CallType
      BY <3>1, <3>2 DEF TypeOK, CallType
    <3> QED
      BY <2>1, <3>3, Shape DEF TypeOK, CallType
  <2>3. Accounted'
    BY <2>1, Shape, Products DEF Accounted, InCall
  <2> QED
    BY <2>1, <2>2, <2>3 DEF OpenMeansQuiet
<1>4. CASE Tick
  <2>1. /\ breaker'.failures = breaker.failures
        /\ breaker' \in [failures : 0 .. MaxFailures, age : 0 .. Cooldown]
        /\ UNCHANGED <<call, requests>>
    BY <1>4, Shape DEF Tick, TypeOK, CallType
  <2> QED
    BY <2>1 DEF TypeOK, CallType, OpenMeansQuiet, Accounted, InCall
<1>5. CASE Restart
  <2>1. Init'
    BY <1>5 DEF Restart, Init
  <2>2. breaker' = FreshBreaker /\ call' = NoCall /\ requests' = 0
    BY <1>5 DEF Restart
  <2>3. TypeOK' /\ OpenMeansQuiet' /\ AttemptLeft'
    BY <2>2 DEF TypeOK, CallType, OpenMeansQuiet, FreshBreaker, NoCall
  <2>4. Accounted'
    BY <2>2, Products DEF Accounted, InCall, FreshBreaker, NoCall
  <2> QED
    BY <2>3, <2>4
<1>6. CASE \E meet \in Meets : Meet(meet)
  BY <1>6, FailStep, SucceedStep, EscapeStep, RetryStep DEF Meet
<1>7. CASE UNCHANGED vars
  BY <1>7 DEF vars, TypeOK, CallType, OpenMeansQuiet, Accounted, InCall
<1> QED
  BY <1>1, <1>2, <1>3, <1>4, <1>5, <1>6, <1>7 DEF Next

\* The client keeps its invariant, which the theorems below rest on.
THEOREM Invariance == Spec => []IInv
<1>1. Init => IInv
  BY InitIInv
<1>2. IInv /\ [Next]_vars => IInv'
  BY NextIInv
<1> QED
  BY <1>1, <1>2, PTL DEF Spec

\* The failure count and the attempts stay in range, and last_retries holds
\* nothing but retries that an attempt was left for.
THEOREM ClientTypes == Spec => []TypeOK
<1>1. IInv => TypeOK
  BY DEF IInv
<1> QED
  BY <1>1, Invariance, PTL

\* No request is in flight while the breaker is open (CircuitBreaker.check).
THEOREM Quiet == Spec => []OpenMeansQuiet
<1>1. IInv => OpenMeansQuiet
  BY DEF IInv
<1> QED
  BY <1>1, Invariance, PTL

\* A server that does not answer gets max_failures times max_retries requests at
\* most before it is left alone for a cooldown (LLMClient.call).
THEOREM Load == Spec => []LoadBounded
<1>1. IInv => LoadBounded
  <2> SUFFICES ASSUME IInv PROVE LoadBounded
    OBVIOUS
  <2> USE ClientAssumption DEF IInv
  <2>1. CASE call.pc = "idle"
    BY <2>1, Shape, Products DEF Accounted, InCall, LoadBounded
  <2>2. CASE call.pc # "idle"
    <3>1. breaker.failures + 1 <= MaxFailures
      BY <2>2, Shape DEF OpenMeansQuiet
    <3>2. requests <= (breaker.failures + 1) * MaxRetries
      BY <2>2, Shape, Products DEF Accounted, InCall
    <3>3. (breaker.failures + 1) * MaxRetries <= MaxFailures * MaxRetries
      <4> DEFINE n == breaker.failures + 1
      <4>1. n \in Nat /\ n <= MaxFailures /\ MaxFailures \in Nat
        BY <3>1, Shape
      <4> HIDE DEF n
      <4>2. n * MaxRetries <= MaxFailures * MaxRetries
        BY <4>1, Products
      <4> QED
        BY <4>2 DEF n
    <3>4. MaxFailures * MaxRetries \in Nat /\ (breaker.failures + 1) * MaxRetries \in Nat
      BY Shape, Products
    <3> QED
      BY <3>2, <3>3, <3>4, Shape DEF LoadBounded
  <2> QED
    BY <2>1, <2>2
<1> QED
  BY <1>1, Invariance, PTL

(***************************************************************************)
(* Retries.                                                                *)
(***************************************************************************)

\* The powers of two are the numbers of subsets, which grow with the set.
LEMMA PowersGrow ==
  ASSUME NEW m \in Nat, NEW n \in Nat, m < n
  PROVE  2^m \in Nat /\ 2^n \in Nat /\ 2^m + 1 <= 2^n
<1>1. ASSUME NEW k \in Nat
      PROVE  /\ IsFiniteSet(SUBSET (1..k))
             /\ Cardinality(SUBSET (1..k)) = 2^k
             /\ 2^k \in Nat
  <2>1. IsFiniteSet(1..k) /\ Cardinality(1..k) = k
    BY FS_Interval
  <2>2. IsFiniteSet(SUBSET (1..k)) /\ Cardinality(SUBSET (1..k)) = 2^k
    BY <2>1, FS_SUBSET
  <2> QED
    BY <2>2, FS_CardinalityType
<1>2. SUBSET (1..m) \in SUBSET (SUBSET (1..n))
  <2>1. 1..m \subseteq 1..n
    OBVIOUS
  <2> QED
    BY <2>1
<1>3. SUBSET (1..m) # SUBSET (1..n)
  <2>1. n \in 1..n /\ n \notin 1..m
    OBVIOUS
  <2>2. {n} \in SUBSET (1..n) /\ {n} \notin SUBSET (1..m)
    BY <2>1
  <2> QED
    BY <2>2
<1>4. /\ Cardinality(SUBSET (1..m)) <= Cardinality(SUBSET (1..n))
      /\ Cardinality(SUBSET (1..m)) # Cardinality(SUBSET (1..n))
  BY <1>1, <1>2, <1>3, FS_Subset
<1>5. 2^m <= 2^n /\ 2^m # 2^n /\ 2^m \in Nat /\ 2^n \in Nat
  BY <1>1, <1>4
<1> QED
  BY <1>5

\* A backoff delay is no longer than that of any later attempt, whatever the jitter.
LEMMA DelaysGrow ==
  ASSUME NEW m \in Nat, NEW n \in Nat, m < n,
         NEW d \in Delays(m, None), NEW e \in Delays(n, None)
  PROVE  d <= e
<1>1. PICK i \in 0 .. BaseDelay : d = BaseDelay * 2^m + i
  BY DEF Delays
<1>2. PICK j \in 0 .. BaseDelay : e = BaseDelay * 2^n + j
  BY DEF Delays
<1>3. ASSUME NEW x \in Nat, NEW y \in Nat, x + 1 <= y
      PROVE  /\ BaseDelay * x \in Nat /\ BaseDelay * y \in Nat
             /\ BaseDelay * x + BaseDelay <= BaseDelay * y
  <2>1. BaseDelay \in Nat
    BY ClientAssumption
  <2>2. BaseDelay * (y - x) >= BaseDelay /\ BaseDelay * y = BaseDelay * x + BaseDelay * (y - x)
    BY <1>3, <2>1, Z3
  <2> QED
    BY <2>1, <2>2
<1>4. /\ BaseDelay * 2^m \in Nat /\ BaseDelay * 2^n \in Nat
      /\ BaseDelay * 2^m + BaseDelay <= BaseDelay * 2^n
  BY <1>3, PowersGrow
<1>5. ASSUME NEW x \in Nat, NEW y \in Nat, x + BaseDelay <= y
      PROVE  x + i <= y + j
  BY <1>5, ClientAssumption
<1> QED
  BY <1>1, <1>2, <1>4, <1>5

\* The i-th entry of last_retries is the i-th retry, with a delay of its attempt.
Told(retries) ==
  \A i \in DOMAIN retries :
    /\ retries[i].attempt = i
    /\ retries[i].after \in Headers
    /\ retries[i].delay \in Delays(i - 1, retries[i].after)

Recorded ==
  /\ call.pc # "idle" =>
       Len(call.retries) = call.attempt + (IF call.pc = "sleep" THEN 1 ELSE 0)
  /\ Told(call.retries)

\* Giving up an attempt adds its entry.
LEMMA RetryRecorded ==
  ASSUME TypeOK, Recorded, call.pc = "request", NEW meet \in Meets, Retry(meet)
  PROVE  Recorded'
<1>1. PICK d \in Delays(call.attempt, meet.after) :
        call' = [call EXCEPT !.pc = "sleep",
                   !.retries = Append(@, [attempt |-> call.attempt + 1,
                                          after |-> meet.after, delay |-> d])]
  BY DEF Retry
<1> DEFINE entry == [attempt |-> call.attempt + 1, after |-> meet.after, delay |-> d]
           old   == call.retries
           new   == Append(old, entry)
<1>2. /\ call'.pc = "sleep" /\ call'.attempt = call.attempt /\ call'.retries = new
      /\ old \in Seq(RetryEvent) /\ call.attempt \in Nat
  <2>1. call' = [call EXCEPT !.pc = "sleep", !.retries = new]
    BY <1>1
  <2> HIDE DEF entry, new
  <2> QED
    BY <2>1, Shape DEF TypeOK, CallType
<1>3. /\ entry.attempt = call.attempt + 1 /\ entry.after = meet.after /\ entry.delay = d
      /\ meet.after \in Headers
  BY DEF Meets, Headers
<1>4. Len(old) = call.attempt /\ Told(old)
  BY <1>2 DEF Recorded
<1> HIDE DEF entry, old
<1>5. /\ Len(new) = Len(old) + 1 /\ DOMAIN new = 1..(Len(old) + 1)
      /\ DOMAIN old = 1..Len(old)
      /\ \A i \in 1..Len(old) : new[i] = old[i]
      /\ new[Len(old) + 1] = entry
  BY <1>2
<1> HIDE DEF new
<1>6. ASSUME NEW i \in DOMAIN new
      PROVE  /\ new[i].attempt = i
             /\ new[i].after \in Headers
             /\ new[i].delay \in Delays(i - 1, new[i].after)
  <2>1. CASE i \in 1..Len(old)
    BY <1>4, <1>5, <2>1 DEF Told
  <2>2. CASE i = Len(old) + 1
    <3>1. i - 1 = call.attempt /\ i = call.attempt + 1
      BY <1>2, <1>4, <2>2
    <3> QED
      BY <1>1, <1>3, <1>5, <2>2, <3>1
  <2> QED
    BY <1>2, <1>4, <1>5, <2>1, <2>2
<1> QED
  BY <1>2, <1>4, <1>5, <1>6 DEF Recorded, Told

\* Every step keeps account of the retries.
LEMMA RecordedStep ==
  ASSUME TypeOK, Recorded, Next
  PROVE  Recorded'
<1>1. CASE Ask \/ Restart
  <2>1. call'.retries = <<>> /\ call'.attempt = 0 /\ call'.pc # "sleep"
    BY <1>1 DEF Ask, Restart, SendFirst, NoCall
  <2> QED
    BY <2>1 DEF Recorded, Told
<1>2. ASSUME call'.pc = "idle", call'.retries = call.retries
      PROVE  Recorded'
  BY <1>2 DEF Recorded
<1>3. CASE Refuse
  BY <1>2, <1>3 DEF Refuse, TypeOK, CallType
<1>4. CASE Wake
  <2>1. call'.pc = "request" /\ call'.attempt = call.attempt + 1 /\ call'.retries = call.retries
    BY <1>4 DEF Wake, TypeOK, CallType
  <2> QED
    BY <1>4, <2>1, Shape DEF Wake, Recorded
<1>5. CASE Tick
  BY <1>5 DEF Tick, Recorded
<1>6. ASSUME NEW meet \in Meets, Meet(meet)
      PROVE  Recorded'
  <2>1. ASSUME NEW how, End(how)
        PROVE  Recorded'
    BY <1>2, <2>1 DEF End, TypeOK, CallType
  <2> QED
    BY <1>6, <2>1, RetryRecorded DEF Meet, Succeed, Fail, Escape
<1> QED
  BY <1>1, <1>3, <1>4, <1>5, <1>6 DEF Next

\* last_retries tells what was done: one entry per attempt given up, no wait shorter
\* than the server asked for, and no backoff shorter than an earlier one, for every
\* base delay and number of retries (_retry_delay, _record_retry).
THEOREM SpecRetriesFaithful == Spec => []RetriesFaithful
<1>1. Init => Recorded
  BY DEF Init, NoCall, Recorded, Told
<1>2. Recorded /\ UNCHANGED vars => Recorded'
  BY DEF vars, Recorded
<1>3. TypeOK /\ Recorded /\ Next => Recorded'
  BY RecordedStep
<1>4. TypeOK /\ Recorded => RetriesFaithful
  <2> SUFFICES ASSUME TypeOK, Recorded, NEW i \in DOMAIN call.retries
               PROVE  LET r == call.retries[i]
                      IN  /\ r.attempt = i
                          /\ r.after # None => r.delay >= r.after
                          /\ \A j \in 1 .. i - 1 :
                               r.after = None /\ call.retries[j].after = None =>
                                 call.retries[j].delay <= r.delay
    BY DEF Recorded, RetriesFaithful
  <2>1. DOMAIN call.retries = 1..Len(call.retries) /\ Len(call.retries) \in Nat
    BY DEF TypeOK, CallType
  <2>2. \A k \in DOMAIN call.retries :
          /\ call.retries[k].attempt = k
          /\ call.retries[k].after \in Headers
          /\ call.retries[k].delay \in Delays(k - 1, call.retries[k].after)
    BY DEF Recorded, Told
  <2>3. ASSUME call.retries[i].after # None
        PROVE  call.retries[i].delay >= call.retries[i].after
    <3>1. call.retries[i].after \in Int
      BY <2>2, <2>3, ClientAssumption DEF Headers
    <3>2. call.retries[i].delay = IF call.retries[i].after > 0 THEN call.retries[i].after ELSE 0
      BY <2>2, <2>3 DEF Delays
    <3> QED
      BY <3>1, <3>2
  <2>4. ASSUME NEW j \in 1 .. i - 1, call.retries[i].after = None, call.retries[j].after = None
        PROVE  call.retries[j].delay <= call.retries[i].delay
    <3>1. j \in DOMAIN call.retries /\ j - 1 \in Nat /\ i - 1 \in Nat /\ j - 1 < i - 1
      BY <2>1
    <3>2. /\ call.retries[j].delay \in Delays(j - 1, None)
          /\ call.retries[i].delay \in Delays(i - 1, None)
      BY <2>2, <2>4, <3>1
    <3> QED
      BY <3>1, <3>2, DelaysGrow
  <2> QED
    BY <2>2, <2>3, <2>4
<1> QED
  BY ClientTypes, <1>1, <1>2, <1>3, <1>4, PTL DEF Spec
=============================================================================
