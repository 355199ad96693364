---------------------------- MODULE RetryScenario ----------------------------
(***************************************************************************)
(* Two runs exercise scenario S06 against one mock server, each through a  *)
(* ModelClient of its own.  The server rate-limits the first request it    *)
(* counts for a task and step, is overloaded for the second, and answers   *)
(* every later one: a write at step 1, the final text at any other step.   *)
(* A run may be killed at any time and resumed at the step it was asking.  *)
(***************************************************************************)
EXTENDS Integers, Sequences

CONSTANTS
  MaxRetries, MaxFailures, Cooldown, BaseDelay, None,   \* as in ModelClient
  Tasks,           \* what a run may be asked to do
  MaxKills         \* bound: how often processes are killed

VARIABLES
  task,      \* the task of each run
  breakerA, callA, requestsA,   \* the client of the first run
  breakerB, callB, requestsB,   \* the client of the second run
  runs,      \* step of each run, and what the server has sent back to it but
             \* has not arrived
  counts,    \* ScenarioState.retry_counts, by task and step
  kills

vars == <<task, breakerA, callA, requestsA, breakerB, callB, requestsB, runs, counts, kills>>

RetryAfters == {0}

A == INSTANCE ModelClient WITH
  breaker <- breakerA, call <- callA, requests <- requestsA
B == INSTANCE ModelClient WITH
  breaker <- breakerB, call <- callB, requests <- requestsB

Steps == 1 .. 2
Done  == 3

CallOf(r) == IF r = "a" THEN callA ELSE callB

NoReply == [kind |-> "none", after |-> None]

Init ==
  /\ task \in [{"a", "b"} -> Tasks]
  /\ A!Init
  /\ B!Init
  /\ runs = [r \in {"a", "b"} |-> [step |-> 1, reply |-> NoReply]]
  /\ counts = [key \in Tasks \X Steps |-> 0]
  /\ kills = 0

\* Mutant: the counter is put back once the sequence is through.
NextCountWraps(n) == (n + 1) % 3

\* Beyond 2 the answer is the same for every count: the bound is 3.
NextCount(n) == IF n = 3 THEN n ELSE n + 1

\* ScenarioState._s06: 429 with Retry-After 0, then 529 without, then answers.
ReplyAt(n) ==
  [kind  |-> IF n < 2 THEN "busy" ELSE "ok",
   after |-> IF n = 0 THEN 0 ELSE None]

\* Mutant: the task is not part of the key.
CountKeyOfStep(r) == <<CHOOSE t \in Tasks : TRUE, runs[r].step>>

CountKey(r) == <<task[r], runs[r].step>>

\* The handler thread of a request: the counter is read and advanced under the
\* lock.
Serve(r) ==
  LET key == CountKey(r)
  IN  /\ CallOf(r).pc = "request"
      /\ runs[r].reply = NoReply
      /\ runs' = [runs EXCEPT ![r].reply = ReplyAt(counts[key])]
      /\ counts' = [counts EXCEPT ![key] = NextCount(@)]
      /\ UNCHANGED <<task, breakerA, callA, requestsA, breakerB, callB, requestsB,
                    kills>>

OnlyA == UNCHANGED <<breakerB, callB, requestsB>>
OnlyB == UNCHANGED <<breakerA, callA, requestsA>>

\* The next step of a run asks the model; a run ends with its second answer, or
\* with the error of a call that failed.
Asking(r) == runs[r].step # Done /\ CallOf(r).ended # "failed"

AskOrWake(r) ==
  /\ Asking(r)
  /\ \/ r = "a" /\ (A!Ask \/ A!Wake) /\ OnlyA
     \/ r = "b" /\ (B!Ask \/ B!Wake) /\ OnlyB
  /\ UNCHANGED <<task, runs, counts, kills>>

Receive(r) ==
  LET reply == runs[r].reply
  IN  /\ reply # NoReply
      /\ \/ r = "a" /\ A!Meet(reply) /\ OnlyA
         \/ r = "b" /\ B!Meet(reply) /\ OnlyB
      /\ runs' = [runs EXCEPT ![r] = [step  |-> @.step + (IF reply.kind = "ok" THEN 1 ELSE 0),
                                      reply |-> NoReply]]
      /\ UNCHANGED <<task, counts, kills>>

\* The resumed process asks the same step again; a request the server has
\* counted stays counted, and its answer is lost.
KillAndResume(r) ==
  /\ kills < MaxKills
  /\ Asking(r)
  /\ \/ r = "a" /\ A!Restart /\ OnlyA
     \/ r = "b" /\ B!Restart /\ OnlyB
  /\ runs' = [runs EXCEPT ![r].reply = NoReply]
  /\ kills' = kills + 1
  /\ UNCHANGED <<task, counts>>

Next ==
  \E r \in {"a", "b"} : Serve(r) \/ AskOrWake(r) \/ Receive(r) \/ KillAndResume(r)

Spec ==
  /\ Init /\ [][Next]_vars
  /\ \A r \in {"a", "b"} : WF_vars(Serve(r) \/ AskOrWake(r) \/ Receive(r))

(***************************************************************************)
(* Properties.                                                             *)
(***************************************************************************)

\* Both runs get through the rate limit and the overload of every step and
\* finish, however they share the counters and are killed (README: "Runtime
\* retries 429/529 responses and then finishes").
BothFinish == <>(\A r \in {"a", "b"} : runs[r].step = Done)

\* Every call that was answered met the rate limit and the overload.
ScriptMet == \A r \in {"a", "b"} : CallOf(r).ended = "answer" => Len(CallOf(r).retries) = 2

\* Runs of different tasks do not consume each other's sequence.
ScriptMetApart == task["a"] # task["b"] /\ kills = 0 => ScriptMet

\* Repeated runs, of whatever task, do not consume each other's sequence (the
\* comment of ScenarioState._s06).
ScriptMetAlways == kills = 0 => ScriptMet
=============================================================================
