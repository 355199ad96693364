------------------------------ MODULE Scenarios ------------------------------
(***************************************************************************)
(* The agent, the mock model server and the chaos harness together: the    *)
(* agent of AgentLoop works on one of the scenarios S01 to S12 while the   *)
(* harness kills and relaunches it.  The server answers by the step alone, *)
(* so an interrupted request is answered alike when it is repeated.  What  *)
(* S05 and S06 do to one request is the matter of ModelClient and          *)
(* RetryScenario; here the request fails, or is answered.                  *)
(***************************************************************************)
EXTENDS AgentLoop

CONSTANT Attempts   \* how many processes the harness kills at most

VARIABLES
  scenario,   \* what the server was started with
  launches,   \* processes launched so far, the last one included
  command,    \* the command of the process that runs, or "none"
  failures,   \* run_agent_chaos.failures
  inspected   \* has the harness counted the emails?

harness == <<launches, command, failures, inspected>>
allVars == <<vars, scenario, harness>>

ScenarioNames ==
  {"S01", "S02", "S03", "S04", "S05", "S06", "S07", "S08", "S09", "S10", "S11", "S12"}

(***************************************************************************)
(* The server.                                                             *)
(***************************************************************************)
ToolCall(id, tool, args) == [id |-> id, tool |-> tool, args |-> args]
Turn(calls) == [text |-> "none", calls |-> calls, incomplete |-> FALSE, cost |-> 1]
Text(text)  == [text |-> text, calls |-> <<>>, incomplete |-> FALSE, cost |-> 1]

\* What the calls of the scenarios name that is not there or is of a wrong type.
\* The call of S10 that hangs is not among them: run_python catches the timeout,
\* and what it returns is the result of a call that succeeded.
Failing == {"unknown", "wrong type", "missing"}

\* The calls of the first steps of a scenario; a text follows them.
Calls(sc) ==
  CASE sc \in {"S01", "S02", "S06"} -> <<<<ToolCall("write", "write", "ok")>>>>
    [] sc = "S03" -> <<<<ToolCall("missing", "read", "unknown"),
                         ToolCall("typed", "write", "wrong type")>>>>
    [] sc = "S07" -> <<<<ToolCall("write", "write", "injection")>>,
                       <<ToolCall("read", "read", "injection")>>,
                       <<ToolCall("email", "email", "attacker")>>>>
    [] sc = "S09" -> <<<<ToolCall("dup", "email", "once"), ToolCall("dup", "email", "once")>>>>
    [] sc = "S10" -> <<<<ToolCall("hang", "read", "hang"), ToolCall("fail", "read", "missing")>>>>
    [] sc = "S11" -> <<<<ToolCall("missing", "read", "missing")>>>>
    [] sc = "S12" -> <<<<ToolCall("first", "write", "ok")>>>>
    [] OTHER -> <<>>

\* response_for: _s01 to _s12.  S02 needs a comma repaired, which the parser does.
ResponseFor(sc, s) ==
  CASE sc = "S04" -> Turn(<<ToolCall("loop", "read", "ok")>>)
    [] sc = "S08" -> Text("over")
    [] s \in DOMAIN Calls(sc) ->
         [Turn(Calls(sc)[s]) EXCEPT !.incomplete = (sc = "S12")]
    [] OTHER -> Text(IF sc = "S11" THEN "success" ELSE "plain")

\* The agent knows the answers of the server, and the task and its results fit.
ASSUME ScenarioAssumption ==
  /\ Attempts \in Nat
  /\ \A sc \in ScenarioNames, s \in Steps : ResponseFor(sc, s) \in Responses
  /\ TaskSizes = {"fits"} /\ ResultSizes = {"fits"} /\ BadArgs = {}

\* The limits leave room for the longest scenario, and for S04 to repeat itself up
\* to the limit although each kill may lose a check.
ASSUME LimitsAssumption ==
  /\ NoProgressLimit > 1
  /\ MaxSteps > 4 /\ MaxSteps > NoProgressLimit + Attempts
  /\ Budget >= MaxSteps

\* S05 breaks every answer off, and the retries end in a network failure.
Serve ==
  IF scenario = "S05" THEN LLMFails ELSE LLMAnswers(ResponseFor(scenario, step))

\* A tool that runs fails when, and only when, what its call names makes it fail.
\* A write that is put back fails without it.
World ==
  \A k \in Keys :
    /\ rows'[k].status = "completed" => k.args \notin Failing
    /\ rows'[k].status = "failed" /\ (k.tool = "read" \/ rows[k].status = "absent")
         => k.args \in Failing

(***************************************************************************)
(* The harness.                                                            *)
(***************************************************************************)
ProcessRuns == command # "none"
LastLaunched == launches > Attempts

\* Mutant: after the first attempt the run is taken to exist.
ResumeIfNotFirst == launches > 0

\* run_exists is asked from the second attempt on.
ResumeIfExists == launches > 0 /\ run.status # "NONE"

LaunchAttempt ==
  /\ ~ProcessRuns
  /\ launches < Attempts
  /\ command' = IF ResumeIfExists THEN "resume" ELSE "run"
  /\ launches' = launches + 1
  /\ UNCHANGED <<vars, scenario, failures, inspected>>

LaunchLast ==
  /\ ~ProcessRuns
  /\ launches = Attempts
  /\ command' = "resume"
  /\ launches' = launches + 1
  /\ UNCHANGED <<vars, scenario, failures, inspected>>

\* The process works; it exits with 0 when the run is finished.
Work ==
  /\ ProcessRuns
  /\ \/ command = "run" /\ Create
     \/ Resume \/ LoopHead \/ Serve
     \/ SendRequest
     \/ RecordText \/ ChargeBudget \/ RejectPartial \/ RejectContradiction \/ Complete
     \/ ParseCalls \/ CheckProgress \/ FinishFailed
     \/ BatchStep /\ World
  /\ command' = IF pc' = "down" THEN "none" ELSE command
  /\ UNCHANGED <<scenario, launches, failures, inspected>>

\* A process that finds the run finished exits at once.
NothingToDo ==
  /\ ProcessRuns
  /\ ResumeFinished
  /\ command' = "none"
  /\ UNCHANGED <<scenario, launches, failures, inspected>>

\* A process exits with 1: the run is unknown, or its memory cannot be rebuilt.
ExitFatally ==
  /\ \/ command = "resume" /\ run.status = "NONE" /\ UNCHANGED vars
     \/ ProcessRuns /\ ResumeFails
  /\ command' = "none"
  /\ failures' = failures + 1
  /\ UNCHANGED <<scenario, launches, inspected>>

\* A process is killed, possibly before it did anything; the last one is not.
Kill ==
  /\ ProcessRuns
  /\ ~LastLaunched
  /\ Crash \/ (pc = "down" /\ UNCHANGED vars)
  /\ command' = "none"
  /\ UNCHANGED <<scenario, launches, failures, inspected>>

ExpectedEmails == IF scenario = "S09" THEN 1 ELSE 0

\* assert_sent_email_count.
Inspect ==
  /\ ~ProcessRuns /\ LastLaunched /\ ~inspected
  /\ inspected' = TRUE
  /\ failures' = failures + (IF Cardinality(sent) = ExpectedEmails THEN 0 ELSE 1)
  /\ UNCHANGED <<vars, scenario, launches, command>>

ScenarioInit ==
  /\ Init
  /\ scenario \in ScenarioNames
  /\ launches = 0
  /\ command = "none"
  /\ failures = 0
  /\ inspected = FALSE

Progress ==
  LaunchAttempt \/ LaunchLast \/ Work \/ NothingToDo \/ ExitFatally \/ Inspect

ScenarioSpec == ScenarioInit /\ [][Progress \/ Kill]_allVars

\* Harness and processes go on; no kill is ever due.
FairScenarioSpec == ScenarioSpec /\ WF_allVars(Progress)

(***************************************************************************)
(* Properties.                                                             *)
(***************************************************************************)
ExpectedReason ==
  CASE scenario = "S04" -> "NoProgressError"
    [] scenario = "S05" -> "NetworkFailureError"
    [] scenario = "S08" -> "ContextLimitExceededError"
    [] scenario = "S11" -> "ModelContradictionError"
    [] scenario = "S12" -> "PartialToolTurnError"
    [] OTHER -> "completed"

\* Wherever its processes are killed, a scenario that finishes does so with the
\* outcome its uninterrupted run is checked for (_check_scenario of
\* live_scenarios.py, run_case of runner.py): its reason, its emails, no call of
\* S12 started, the failed result of S11 there, and in S10 the two results of its
\* calls, the one that hangs ok as test_tools.py has it.
OutcomeAsExpected ==
  run.status = "FINISHED" =>
    /\ run.reason = ExpectedReason
    /\ Cardinality(sent) = ExpectedEmails
    /\ scenario = "S12" => log.starts = {}
    /\ scenario = "S11" => \E e \in log.results : ~e.ok
    /\ scenario = "S10" => {<<e.key.args, e.ok>> : e \in log.results} =
                             {<<"hang", TRUE>>, <<"missing", FALSE>>}

\* The harness fails only when every process was killed before its first commit,
\* and then in the last launch and in the count of emails alone, or when the
\* answer of S08 cannot be read back; in any other case the run is over.
HarnessFailsOnlyIf ==
  inspected /\ scenario # "S08" =>
    \/ failures = 0 /\ run.status = "FINISHED"
    \/ failures = 1 + ExpectedEmails /\ run.status = "NONE"

\* The harness comes to an end.
HarnessEnds == <>inspected

\* The harness exits with 0 in S09.
ChaosExitsZero == inspected /\ scenario = "S09" => failures = 0
=============================================================================
