------------------------ MODULE RetryScenarioProofs -------------------------
(***************************************************************************)
(* Scenario S06: two runs of different tasks do not consume each other's   *)
(* sequence of answers.  Whatever the limits are, what the server has      *)
(* counted for a run is what its client was told, or is about to be told.  *)
(***************************************************************************)
EXTENDS RetryScenario, TLAPS

Runs == {"a", "b"}

(***************************************************************************)
(* What a client does to its call.                                         *)
(***************************************************************************)

Afters == {0, None}
Entry  == [attempt : Nat, after : Afters,
           delay : UNION {A!Delays(n, t) : n \in Nat, t \in Afters}]

Calls ==
  [pc : {"idle", "request", "sleep"}, attempt : Nat, retries : Seq(Entry),
   ended : {"none", "answer", "failed", "refused", "escaped"}]

Begun(c, d) ==
  /\ c.pc = "idle" /\ d.pc = "request"
  /\ d.ended = "none" /\ Len(d.retries) = 0

Woken(c, d) ==
  /\ c.pc = "sleep" /\ d.pc = "request"
  /\ d.ended = c.ended /\ d.retries = c.retries

Ended(c, d, how) ==
  /\ c.pc = "request" /\ d.pc = "idle"
  /\ d.ended = how /\ d.retries = c.retries

GivenUp(c, d) ==
  /\ c.pc = "request" /\ d.pc = "sleep"
  /\ d.ended = c.ended /\ Len(d.retries) = Len(c.retries) + 1

\* What the client makes of a reply.
Heard(c, d, reply) ==
  \/ reply.kind = "ok" /\ Ended(c, d, "answer")
  \/ reply.kind = "busy" /\ (Ended(c, d, "failed") \/ GivenUp(c, d))

Replies == [kind : {"none", "busy", "ok"}, after : Afters]

\* What waking up and giving up an attempt make of a call.
LEMMA CallWoken ==
  ASSUME NEW c \in Calls, c.pc = "sleep"
  PROVE  LET d == [c EXCEPT !.pc = "request", !.attempt = @ + 1]
         IN  d \in Calls /\ Woken(c, d)
<1>1. c.attempt + 1 \in Nat
  BY DEF Calls
<1> QED
  BY <1>1 DEF Woken, Calls

\* A failed attempt leads to another wait.
LEMMA CallGivenUp ==
  ASSUME NEW c \in Calls, c.pc = "request", NEW e \in Entry
  PROVE  LET d == [c EXCEPT !.pc = "sleep", !.retries = Append(@, e)]
         IN  d \in Calls /\ GivenUp(c, d)
<1>1. c.retries \in Seq(Entry)
  BY DEF Calls
<1>2. /\ Append(c.retries, e) \in Seq(Entry)
      /\ Len(Append(c.retries, e)) = Len(c.retries) + 1
  BY <1>1
<1> QED
  BY <1>2 DEF Calls, GivenUp

\* Both clients wait alike.
LEMMA SameDelays ==
  ASSUME NEW n, NEW t
  PROVE  B!Delays(n, t) = A!Delays(n, t)
BY DEF A!Delays, B!Delays

\* What a step of the first client does to its call.
LEMMA ClientA ==
  ASSUME callA \in Calls
  PROVE  /\ A!Ask => callA' \in Calls /\ Begun(callA, callA')
         /\ A!Wake => callA' \in Calls /\ Woken(callA, callA')
         /\ A!Restart => callA' \in Calls /\ callA'.pc = "idle"
         /\ \A reply \in Replies :
              reply # NoReply /\ A!Meet(reply) =>
                callA' \in Calls /\ Heard(callA, callA', reply)
<1>1. A!NoCall \in Calls /\ A!NoCall.retries = <<>> /\ A!NoCall.ended = "none"
  BY DEF A!NoCall, Calls
<1>2. A!Ask => callA' \in Calls /\ Begun(callA, callA')
  BY <1>1 DEF A!Ask, A!SendFirst, Begun, Calls
<1>3. A!Wake => callA' \in Calls /\ Woken(callA, callA')
  BY CallWoken DEF A!Wake
<1>4. A!Restart => callA' \in Calls /\ callA'.pc = "idle"
  BY DEF A!Restart, A!NoCall, Calls
<1>5. ASSUME NEW how \in {"answer", "failed"}, callA.pc = "request", A!End(how)
      PROVE  callA' \in Calls /\ Ended(callA, callA', how)
  BY <1>5 DEF A!End, Ended, Calls
<1>6. ASSUME NEW reply \in Replies, callA.pc = "request", A!Retry(reply)
      PROVE  callA' \in Calls /\ GivenUp(callA, callA')
  <2>1. PICK d \in A!Delays(callA.attempt, reply.after) :
          callA' = [callA EXCEPT !.pc = "sleep",
                      !.retries = Append(@, [attempt |-> callA.attempt + 1,
                                             after |-> reply.after, delay |-> d])]
    BY <1>6 DEF A!Retry
  <2>2. [attempt |-> callA.attempt + 1, after |-> reply.after, delay |-> d] \in Entry
    BY DEF Entry, Calls, Replies
  <2> QED
    BY <1>6, <2>1, <2>2, CallGivenUp
<1>7. ASSUME NEW reply \in Replies, reply # NoReply, A!Meet(reply)
      PROVE  callA' \in Calls /\ Heard(callA, callA', reply)
  <2>1. callA.pc = "request" /\ reply.kind \in {"none", "busy", "ok"}
    BY <1>7 DEF A!Meet, Replies
  <2> QED
    BY <1>5, <1>6, <1>7, <2>1 DEF A!Meet, A!Succeed, A!Fail, Heard
<1> QED
  BY <1>2, <1>3, <1>4, <1>7

\* What a step of the second client does to its call.
LEMMA ClientB ==
  ASSUME callB \in Calls
  PROVE  /\ B!Ask => callB' \in Calls /\ Begun(callB, callB')
         /\ B!Wake => callB' \in Calls /\ Woken(callB, callB')
         /\ B!Restart => callB' \in Calls /\ callB'.pc = "idle"
         /\ \A reply \in Replies :
              reply # NoReply /\ B!Meet(reply) =>
                callB' \in Calls /\ Heard(callB, callB', reply)
<1>1. B!NoCall \in Calls /\ B!NoCall.retries = <<>> /\ B!NoCall.ended = "none"
  BY DEF B!NoCall, Calls
<1>2. B!Ask => callB' \in Calls /\ Begun(callB, callB')
  BY <1>1 DEF B!Ask, B!SendFirst, Begun, Calls
<1>3. B!Wake => callB' \in Calls /\ Woken(callB, callB')
  BY CallWoken DEF B!Wake
<1>4. B!Restart => callB' \in Calls /\ callB'.pc = "idle"
  BY DEF B!Restart, B!NoCall, Calls
<1>5. ASSUME NEW how \in {"answer", "failed"}, callB.pc = "request", B!End(how)
      PROVE  callB' \in Calls /\ Ended(callB, callB', how)
  BY <1>5 DEF B!End, Ended, Calls
<1>6. ASSUME NEW reply \in Replies, callB.pc = "request", B!Retry(reply)
      PROVE  callB' \in Calls /\ GivenUp(callB, callB')
  <2>1. PICK d \in B!Delays(callB.attempt, reply.after) :
          callB' = [callB EXCEPT !.pc = "sleep",
                      !.retries = Append(@, [attempt |-> callB.attempt + 1,
                                             after |-> reply.after, delay |-> d])]
    BY <1>6 DEF B!Retry
  <2>2. [attempt |-> callB.attempt + 1, after |-> reply.after, delay |-> d] \in Entry
    BY SameDelays DEF Entry, Calls, Replies
  <2> QED
    BY <1>6, <2>1, <2>2, CallGivenUp
<1>7. ASSUME NEW reply \in Replies, reply # NoReply, B!Meet(reply)
      PROVE  callB' \in Calls /\ Heard(callB, callB', reply)
  <2>1. callB.pc = "request" /\ reply.kind \in {"none", "busy", "ok"}
    BY <1>7 DEF B!Meet, Replies
  <2> QED
    BY <1>5, <1>6, <1>7, <2>1 DEF B!Meet, B!Succeed, B!Fail, Heard
<1> QED
  BY <1>2, <1>3, <1>4, <1>7

(***************************************************************************)
(* The invariant.                                                          *)
(***************************************************************************)

\* A client asks only for a step that is left.
Shape ==
  /\ callA \in Calls /\ callB \in Calls
  /\ task \in [Runs -> Tasks]
  /\ runs \in [Runs -> [step : 1 .. Done, reply : Replies]]
  /\ counts \in [Tasks \X Steps -> 0 .. 3]
  /\ kills \in Nat
  /\ \A r \in Runs : CallOf(r).pc # "idle" => runs[r].step # Done

\* The server has counted for a run's task and step what the client was told in
\* this call, and one more while an answer is under way; nothing yet for the
\* steps to come.
Served(r) ==
  LET c == CallOf(r)
      given == Len(c.retries)
  IN  /\ \A s \in Steps : s > runs[r].step => counts[<<task[r], s>>] = 0
      /\ c.pc = "idle" =>
           /\ runs[r].reply = NoReply
           /\ c.ended = "answer" => given = 2
           /\ Asking(r) => counts[CountKey(r)] = 0
      /\ c.pc # "idle" => c.ended = "none" /\ given <= 2
      /\ c.pc = "request" =>
           \/ runs[r].reply = NoReply /\ counts[CountKey(r)] = given
           \/ runs[r].reply = ReplyAt(given) /\ counts[CountKey(r)] = given + 1
      /\ c.pc = "sleep" => runs[r].reply = NoReply /\ counts[CountKey(r)] = given

Apart == task["a"] # task["b"] /\ kills = 0

IInv == Shape /\ (Apart => \A r \in Runs : Served(r))

\* The invariant holds before the runs begin.
LEMMA InitIInv == Init => IInv
<1> SUFFICES ASSUME Init PROVE IInv
  OBVIOUS
<1>1. callA = A!NoCall /\ callB = B!NoCall
  BY DEF Init, A!Init, B!Init
<1>2. A!NoCall \in Calls /\ B!NoCall = A!NoCall
  BY DEF A!NoCall, B!NoCall, Calls
<1>3. NoReply \in Replies
  BY DEF NoReply, Replies, Afters
<1>4. runs = [r \in Runs |-> [step |-> 1, reply |-> NoReply]]
  BY DEF Init, Runs
<1>5. \A t \in Tasks, s \in Steps : counts[<<t, s>>] = 0
  BY DEF Init
<1>6. Shape
  <2>1. runs \in [Runs -> [step : 1 .. Done, reply : Replies]]
    BY <1>3, <1>4 DEF Done
  <2>2. counts \in [Tasks \X Steps -> 0 .. 3]
    BY DEF Init
  <2> QED
    BY <1>1, <1>2, <2>1, <2>2 DEF Shape, Init, Runs, CallOf, A!NoCall
<1>7. ASSUME NEW r \in Runs PROVE Served(r)
  <2>1. CallOf(r).pc = "idle" /\ CallOf(r).ended = "none"
    BY <1>1, <1>2 DEF CallOf, A!NoCall
  <2>2. runs[r].step = 1 /\ runs[r].reply = NoReply /\ task[r] \in Tasks
    BY <1>4, <1>6 DEF Shape
  <2>3. 1 \in Steps
    BY DEF Steps
  <2> QED
    BY <1>5, <2>1, <2>2, <2>3 DEF Served, CountKey
<1> QED
  BY <1>6, <1>7 DEF IInv


(***************************************************************************)
(* Steps.                                                                  *)
(***************************************************************************)

\* The other run's call is left alone.
OnlyCallOf(r) ==
  /\ callA' \in Calls /\ callB' \in Calls
  /\ \A q \in Runs : q # r => CallOf(q)' = CallOf(q)

\* The steps of a run, whichever client it has.
LEMMA OfEither ==
  ASSUME Shape, NEW r \in Runs
  PROVE  /\ AskOrWake(r) =>
              /\ OnlyCallOf(r)
              /\ Begun(CallOf(r), CallOf(r)') \/ Woken(CallOf(r), CallOf(r)')
         /\ Receive(r) => OnlyCallOf(r) /\ Heard(CallOf(r), CallOf(r)', runs[r].reply)
         /\ KillAndResume(r) => OnlyCallOf(r) /\ CallOf(r)'.pc = "idle"
<1>1. runs[r].reply \in Replies
  BY DEF Shape
<1>2. CASE r = "a"
  <2>1. callA \in Calls /\ callB \in Calls
    BY DEF Shape
  <2>2. CallOf("a") = callA /\ CallOf("b") = callB /\ CallOf("a")' = callA' /\ CallOf("b")' = callB'
    BY DEF CallOf
  <2>3. AskOrWake(r) => (A!Ask \/ A!Wake) /\ callB' = callB
    BY <1>2 DEF AskOrWake, OnlyA
  <2>4. Receive(r) => runs[r].reply # NoReply /\ A!Meet(runs[r].reply) /\ callB' = callB
    BY <1>2 DEF Receive, OnlyA
  <2>5. KillAndResume(r) => A!Restart /\ callB' = callB
    BY <1>2 DEF KillAndResume, OnlyA
  <2> QED
    BY <1>1, <1>2, <2>1, <2>2, <2>3, <2>4, <2>5, ClientA DEF OnlyCallOf, Runs
<1>3. CASE r = "b"
  <2>1. callA \in Calls /\ callB \in Calls
    BY DEF Shape
  <2>2. CallOf("a") = callA /\ CallOf("b") = callB /\ CallOf("a")' = callA' /\ CallOf("b")' = callB'
    BY DEF CallOf
  <2>3. AskOrWake(r) => (B!Ask \/ B!Wake) /\ callA' = callA
    BY <1>3 DEF AskOrWake, OnlyB
  <2>4. Receive(r) => runs[r].reply # NoReply /\ B!Meet(runs[r].reply) /\ callA' = callA
    BY <1>3 DEF Receive, OnlyB
  <2>5. KillAndResume(r) => B!Restart /\ callA' = callA
    BY <1>3 DEF KillAndResume, OnlyB
  <2> QED
    BY <1>1, <1>3, <2>1, <2>2, <2>3, <2>4, <2>5, ClientB DEF OnlyCallOf, Runs
<1> QED
  BY <1>2, <1>3 DEF Runs

\* The calls are in the shape of calls.
LEMMA CallShape ==
  ASSUME Shape, NEW r \in Runs
  PROVE  /\ CallOf(r) \in Calls
         /\ CallOf(r).pc \in {"idle", "request", "sleep"}
         /\ Len(CallOf(r).retries) \in Nat
         /\ runs[r].step \in 1 .. Done /\ runs[r].reply \in Replies
         /\ task[r] \in Tasks
<1>1. CallOf(r) \in Calls
  BY DEF Shape, CallOf
<1>2. CallOf(r).retries \in Seq(Entry)
  BY <1>1 DEF Calls
<1> QED
  BY <1>1, <1>2 DEF Shape, Calls

\* A run is served as before while nothing of it, and no count of its task, changes.
LEMMA Unmoved ==
  ASSUME Shape, NEW r \in Runs, Served(r),
         task' = task, CallOf(r)' = CallOf(r), runs'[r] = runs[r],
         \A s \in Steps : counts'[<<task[r], s>>] = counts[<<task[r], s>>]
  PROVE  Served(r)'
<1>1. runs[r].step # Done => counts'[<<task[r], runs[r].step>>] = counts[<<task[r], runs[r].step>>]
  BY CallShape DEF Steps, Done
<1>2. CallOf(r).pc # "idle" => runs[r].step # Done
  BY DEF Shape
<1>3. CallOf(r).pc \in {"idle", "request", "sleep"}
  BY CallShape
<1> QED
  BY <1>1, <1>2, <1>3 DEF Served, CountKey, Asking

\* Answers, and counts, are in range.
LEMMA Ranges ==
  ASSUME NEW n \in 0 .. 3
  PROVE  /\ ReplyAt(n) \in Replies /\ ReplyAt(n) # NoReply
         /\ NextCount(n) \in 0 .. 3
         /\ n <= 2 => NextCount(n) = n + 1
BY DEF ReplyAt, Replies, NoReply, NextCount, Afters

\* The server counts a request and makes its answer.
LEMMA ServeStep ==
  ASSUME IInv, NEW r \in Runs, Serve(r)
  PROVE  IInv'
<1> DEFINE key == <<task[r], runs[r].step>>
           n   == counts[key]
<1>1. /\ CallOf(r).pc = "request" /\ runs[r].reply = NoReply
      /\ runs' = [runs EXCEPT ![r].reply = ReplyAt(n)]
      /\ counts' = [counts EXCEPT ![key] = NextCount(n)]
      /\ UNCHANGED <<task, callA, callB, kills>>
  BY DEF Serve, CountKey
<1>2. Shape
  BY DEF IInv
<1>3. key \in Tasks \X Steps /\ runs[r].step \in Steps /\ n \in 0 .. 3
  BY <1>1, <1>2, CallShape DEF Shape, Steps, Done
<1>4. ReplyAt(n) \in Replies /\ NextCount(n) \in 0 .. 3
  BY <1>3, Ranges
<1>5. /\ runs'[r].step = runs[r].step /\ runs'[r].reply = ReplyAt(n)
      /\ \A q \in Runs : q # r => runs'[q] = runs[q]
      /\ counts'[key] = NextCount(n)
      /\ \A k \in Tasks \X Steps : k # key => counts'[k] = counts[k]
      /\ \A q \in Runs : CallOf(q)' = CallOf(q)
  BY <1>1, <1>2, <1>3 DEF Shape, CallOf
<1>6. Shape'
  <2>1. runs' \in [Runs -> [step : 1 .. Done, reply : Replies]]
    BY <1>1, <1>2, <1>4 DEF Shape
  <2>2. counts' \in [Tasks \X Steps -> 0 .. 3]
    BY <1>1, <1>2, <1>4 DEF Shape
  <2>3. \A q \in Runs : CallOf(q)'.pc # "idle" => runs'[q].step # Done
    BY <1>2, <1>5 DEF Shape
  <2> QED
    BY <1>1, <1>2, <2>1, <2>2, <2>3 DEF Shape
<1>7. ASSUME Apart', NEW q \in Runs
      PROVE  Served(q)'
  <2>1. Apart /\ \A x \in Runs : Served(x)
    BY <1>1, <1>7 DEF Apart, IInv
  <2>2. CASE q # r
    <3>1. \A t \in Steps : <<task[q], t>> \in Tasks \X Steps /\ <<task[q], t>> # key
      BY <1>2, <2>1, <2>2, CallShape DEF Apart, Runs
    <3> QED
      BY <1>1, <1>2, <1>5, <2>1, <2>2, <3>1, Unmoved
  <2>3. CASE q = r
    <3> DEFINE given == Len(CallOf(r).retries)
    <3>1. given \in Nat /\ given <= 2 /\ n = given /\ CallOf(r).ended = "none"
      BY <1>1, <1>2, <2>1, CallShape, Ranges DEF Served, CountKey
    <3>2. NextCount(n) = given + 1
      BY <1>3, <3>1, Ranges
    <3>3. ASSUME NEW t \in Steps, t > runs[r].step
          PROVE  counts'[<<task[r], t>>] = 0
      <4>1. <<task[r], t>> \in Tasks \X Steps /\ <<task[r], t>> # key
        BY <1>2, <1>3, <3>3, CallShape DEF Steps
      <4> QED
        BY <1>5, <2>1, <3>3, <4>1 DEF Served
    <3>4. /\ CallOf(r)' = CallOf(r) /\ task' = task /\ CountKey(r)' = key
          /\ runs'[r].step = runs[r].step /\ runs'[r].reply = ReplyAt(given)
          /\ counts'[key] = given + 1
      BY <1>1, <1>5, <3>1, <3>2 DEF CountKey
    <3> HIDE DEF key, given
    <3> QED
      BY <1>1, <2>3, <3>1, <3>3, <3>4 DEF Served, given
  <2> QED
    BY <2>2, <2>3
<1> QED
  BY <1>6, <1>7 DEF IInv

\* A step that moves one call and leaves the counts alone serves the other run as
\* before.
LEMMA OtherRun ==
  ASSUME IInv, Apart, NEW r \in Runs, OnlyCallOf(r), UNCHANGED <<task, counts>>,
         NEW q \in Runs, q # r, runs'[q] = runs[q]
  PROVE  Served(q)'
BY Unmoved DEF IInv, OnlyCallOf

\* A call begins with a step the server has not counted, or goes on with one it
\* has counted as often as the client was told.
LEMMA AskOrWakeStep ==
  ASSUME IInv, NEW r \in Runs, AskOrWake(r)
  PROVE  IInv'
<1>1. /\ OnlyCallOf(r) /\ UNCHANGED <<task, runs, counts, kills>> /\ Asking(r)
      /\ Begun(CallOf(r), CallOf(r)') \/ Woken(CallOf(r), CallOf(r)')
      /\ Shape
  BY OfEither DEF AskOrWake, IInv
<1>2. Shape'
  <2>1. \A q \in Runs : CallOf(q)'.pc # "idle" => runs'[q].step # Done
    BY <1>1 DEF Shape, OnlyCallOf, Asking
  <2> QED
    BY <1>1, <2>1 DEF Shape, OnlyCallOf
<1>3. ASSUME Apart', NEW q \in Runs
      PROVE  Served(q)'
  <2>1. Apart /\ \A x \in Runs : Served(x)
    BY <1>1, <1>3 DEF Apart, IInv
  <2>2. CASE q # r
    BY <1>1, <2>1, <2>2, OtherRun
  <2>3. CASE q = r
    <3>1. CASE Begun(CallOf(r), CallOf(r)')
      BY <1>1, <2>1, <2>3, <3>1 DEF Begun, Served, CountKey
    <3>2. CASE Woken(CallOf(r), CallOf(r)')
      BY <1>1, <2>1, <2>3, <3>2 DEF Woken, Served, CountKey
    <3> QED
      BY <1>1, <3>1, <3>2
  <2> QED
    BY <2>2, <2>3
<1> QED
  BY <1>2, <1>3 DEF IInv

\* An answer ends the call and the step; being turned away ends the call or gives up
\* an attempt.
LEMMA ReceiveStep ==
  ASSUME IInv, NEW r \in Runs, Receive(r)
  PROVE  IInv'
<1> DEFINE reply == runs[r].reply
           left  == runs[r].step + (IF reply.kind = "ok" THEN 1 ELSE 0)
<1>1. /\ OnlyCallOf(r) /\ UNCHANGED <<task, counts, kills>>
      /\ Heard(CallOf(r), CallOf(r)', reply) /\ reply # NoReply
      /\ runs' = [runs EXCEPT ![r] = [step |-> left, reply |-> NoReply]]
      /\ Shape
  BY OfEither DEF Receive, IInv
<1>2. CallOf(r).pc = "request" /\ runs[r].step \in Steps
  BY <1>1, CallShape DEF Heard, Ended, GivenUp, Shape, Steps, Done
<1>3. left \in 1 .. Done /\ (reply.kind # "ok" => left = runs[r].step)
  BY <1>2 DEF Steps, Done
<1>4. /\ runs'[r].step = left /\ runs'[r].reply = NoReply
      /\ \A q \in Runs : q # r => runs'[q] = runs[q]
  BY <1>1 DEF Shape
<1>5. Shape'
  <2>1. NoReply \in Replies
    BY DEF NoReply, Replies, Afters
  <2>2. runs' \in [Runs -> [step : 1 .. Done, reply : Replies]]
    <3>1. [step |-> left, reply |-> NoReply] \in [step : 1 .. Done, reply : Replies]
      BY <1>3, <2>1
    <3> HIDE DEF left
    <3> QED
      BY <1>1, <3>1 DEF Shape
  <2>3. CallOf(r)'.pc # "idle" => left # Done
    BY <1>1, <1>2, <1>3 DEF Heard, Ended, Steps, Done
  <2>4. \A q \in Runs : CallOf(q)'.pc # "idle" => runs'[q].step # Done
    BY <1>1, <1>4, <2>3 DEF Shape, OnlyCallOf
  <2> QED
    BY <1>1, <2>2, <2>4 DEF Shape, OnlyCallOf
<1>6. ASSUME Apart', NEW q \in Runs
      PROVE  Served(q)'
  <2>1. Apart /\ \A x \in Runs : Served(x)
    BY <1>1, <1>6 DEF Apart, IInv
  <2>2. CASE q # r
    BY <1>1, <1>4, <2>1, <2>2, OtherRun
  <2>3. CASE q = r
    <3> DEFINE given == Len(CallOf(r).retries)
    <3>1. /\ given \in Nat /\ given <= 2 /\ CallOf(r).ended = "none"
          /\ reply = ReplyAt(given) /\ counts[CountKey(r)] = given + 1
          /\ \A t \in Steps : t > runs[r].step => counts[<<task[r], t>>] = 0
      BY <1>1, <1>2, <2>1, CallShape DEF Served
    <3>2. CASE Ended(CallOf(r), CallOf(r)', "answer") /\ reply.kind = "ok"
      <4>1. given = 2
        <5>1. ReplyAt(given).kind = "ok"
          BY <3>1, <3>2
        <5>2. ~(given < 2)
          <6> HIDE DEF given
          <6> QED
            BY <5>1 DEF ReplyAt
        <5>3. given \in Nat /\ given <= 2
          BY <3>1
        <5> HIDE DEF given
        <5> QED
          BY <5>2, <5>3
      <4>2. /\ left = runs[r].step + 1
            /\ left # Done => counts[<<task[r], left>>] = 0
            /\ \A t \in Steps : t > left => counts[<<task[r], t>>] = 0
        BY <1>2, <3>1, <3>2 DEF Steps, Done
      <4>3. /\ CallOf(r)'.pc = "idle" /\ CallOf(r)'.ended = "answer"
            /\ Len(CallOf(r)'.retries) = 2
        BY <3>2, <4>1 DEF Ended
      <4> HIDE DEF left
      <4> QED
        BY <1>1, <1>4, <2>3, <4>2, <4>3 DEF Served, Asking, CountKey
    <3>3. CASE Ended(CallOf(r), CallOf(r)', "failed") /\ reply.kind = "busy"
      <4>1. CallOf(r)'.pc = "idle" /\ CallOf(r)'.ended = "failed" /\ left = runs[r].step
        BY <1>3, <3>3 DEF Ended
      <4> HIDE DEF left
      <4> QED
        BY <1>1, <1>4, <2>3, <3>1, <4>1 DEF Served, Asking
    <3>4. CASE GivenUp(CallOf(r), CallOf(r)') /\ reply.kind = "busy"
      <4>1. given < 2
        BY <3>1, <3>4 DEF ReplyAt
      <4>2. /\ CallOf(r)'.pc = "sleep" /\ CallOf(r)'.ended = "none"
            /\ Len(CallOf(r)'.retries) = given + 1 /\ left = runs[r].step
        BY <1>3, <3>1, <3>4 DEF GivenUp
      <4>3. CountKey(r)' = CountKey(r)
        BY <1>1, <1>4, <4>2 DEF CountKey
      <4> HIDE DEF left, given
      <4> QED
        BY <1>1, <1>4, <2>3, <3>1, <4>1, <4>2, <4>3 DEF Served
    <3> QED
      BY <1>1, <3>2, <3>3, <3>4 DEF Heard
  <2> QED
    BY <2>2, <2>3
<1> QED
  BY <1>5, <1>6 DEF IInv

\* A run that is killed is counted.
LEMMA KillStep ==
  ASSUME IInv, NEW r \in Runs, KillAndResume(r)
  PROVE  IInv'
<1>1. /\ OnlyCallOf(r) /\ CallOf(r)'.pc = "idle" /\ UNCHANGED <<task, counts>>
      /\ runs' = [runs EXCEPT ![r].reply = NoReply] /\ kills' = kills + 1
      /\ Shape
  BY OfEither DEF KillAndResume, IInv
<1>2. NoReply \in Replies
  BY DEF NoReply, Replies, Afters
<1>3. runs' \in [Runs -> [step : 1 .. Done, reply : Replies]]
  BY <1>1, <1>2 DEF Shape
<1>4. \A q \in Runs : CallOf(q)'.pc # "idle" => runs'[q].step # Done
  BY <1>1 DEF Shape, OnlyCallOf
<1>5. Shape' /\ ~Apart'
  BY <1>1, <1>3, <1>4 DEF Shape, OnlyCallOf, Apart
<1> QED
  BY <1>5 DEF IInv

\* The clients' requests are what the server has counted, in every state.
LEMMA NextIInv == IInv /\ [Next]_vars => IInv'
<1> SUFFICES ASSUME IInv, [Next]_vars PROVE IInv'
  OBVIOUS
<1>1. ASSUME NEW r \in Runs, Serve(r) \/ AskOrWake(r) \/ Receive(r) \/ KillAndResume(r)
      PROVE  IInv'
  BY <1>1, ServeStep, AskOrWakeStep, ReceiveStep, KillStep
<1>2. CASE UNCHANGED vars
  <2>1. \A r \in Runs : CallOf(r)' = CallOf(r)
    BY <1>2 DEF vars, CallOf
  <2>2. Shape' /\ (Apart' <=> Apart)
    BY <1>2, <2>1 DEF vars, IInv, Shape, Apart
  <2>3. Apart => \A r \in Runs : Served(r)'
    BY <1>2, <2>1, Unmoved DEF vars, IInv
  <2> QED
    BY <2>2, <2>3 DEF IInv
<1> QED
  BY <1>1, <1>2 DEF Next, Runs

\* Runs of different tasks meet the rate limit and the overload once each at every
\* step they get an answer for, whatever the limits of the client, and however the
\* requests, sleeps and answers of the two fall (ScenarioState._s06).
THEOREM SpecScriptMetApart == Spec => []ScriptMetApart
<1>1. IInv => ScriptMetApart
  <2> SUFFICES ASSUME IInv, Apart, NEW r \in Runs, CallOf(r).ended = "answer"
               PROVE  Len(CallOf(r).retries) = 2
    BY DEF ScriptMetApart, ScriptMet, Apart, Runs
  <2>1. Shape /\ Served(r)
    BY DEF IInv
  <2> QED
    BY <2>1 DEF Served
<1> QED
  BY InitIInv, NextIInv, <1>1, PTL DEF Spec
=============================================================================
