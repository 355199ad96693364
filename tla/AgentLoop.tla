------------------------------ MODULE AgentLoop ------------------------------
(***************************************************************************)
(* One run of the agent: AgentRuntime.run driving the model, the event log *)
(* and the tools, killed and relaunched at any point.                      *)
(*                                                                         *)
(* Durable state (SQLite): the run's row, its event log, the tool          *)
(* execution rows and the sent emails.  Volatile state (one process): the  *)
(* place in AgentRuntime.run, the accumulated cost, the untrusted-data     *)
(* flag of the conversation memory and the batch being executed.  An       *)
(* action commits at most one SQLite transaction, so Crash between two     *)
(* actions is a kill between two commits.  Workspace files, worker threads *)
(* and the instant between a tool body and its row belong to ToolBatch.    *)
(***************************************************************************)
EXTENDS Integers, FiniteSets, Sequences

CONSTANTS
  MaxSteps,          \* RuntimeConfig.max_steps
  Budget,            \* RuntimeConfig.cost_budget_tokens
  NoProgressLimit,   \* RuntimeConfig.no_progress_limit
  Responses,         \* what the model may answer at a step
  Ids, Args,         \* tool call ids; tool call arguments
  BadArgs,           \* arguments send_email refuses
  TaskSizes,         \* sizes the user's task may have
  ResultSizes,       \* sizes a successful tool result may have
  MaxCrashes,        \* bound: how often the process dies
  None               \* an event that is not in the log

Steps  == 1 .. MaxSteps
Tools  == {"read", "write", "email"}
Call   == [id : Ids, tool : Tools, args : Args]

\* A model answer, after parse_agent_response.  "success" is text that claims
\* success and does not acknowledge a failure; "over" is text that exceeds the
\* token budget on its own; incomplete is _is_incomplete_partial_turn.
Response ==
  [text : {"none", "plain", "success", "over"}, calls : Seq(Call),
   incomplete : BOOLEAN, cost : Nat]

\* Termination reasons: completed, or the name of an exception.  An open
\* circuit breaker is a NetworkFailureError too.
Reasons ==
  {"completed", "MaxStepsReachedError", "NoProgressError", "BudgetExceededError",
   "ContextLimitExceededError", "NetworkFailureError", "PartialToolTurnError",
   "ModelContradictionError"}

ASSUME ConfigAssumption ==
  /\ MaxSteps \in Nat \ {0}
  /\ NoProgressLimit \in Nat \ {0}
  /\ Budget \in Nat \ {0}
  /\ MaxCrashes \in Nat

ASSUME ModelAssumption ==
  /\ Responses \subseteq Response
  /\ BadArgs \subseteq Args
  /\ TaskSizes \subseteq {"fits", "tight", "huge"}
  /\ ResultSizes \subseteq {"fits", "brim", "over"}

ASSUME NoneAssumption ==
  /\ None \notin Response
  /\ None \notin Nat
  /\ None \notin [reason : Reasons, step : 0 .. MaxSteps]

VARIABLES
  task,      \* how large the user's task is
  run,       \* the row of table runs; pending_tool_calls are always calls of
             \* the answer recorded at its step: the row holds their positions
  log,       \* table events, one field per event_type the loop reads back
  rows,      \* table tool_executions: outcome by idempotency key
  sent,      \* table sent_emails: its idempotency keys
  pc,        \* place in AgentRuntime.run; "down" when no process runs
  cost,      \* local total_cost
  tainted,   \* MemoryManager.has_tool_result_data
  idx,       \* index of the call the batch is at
  batch,     \* locals of _execute_tool_calls
  reason,    \* the error being turned into a termination reason
  crashes    \* how often the process died

volatile == <<cost, tainted, idx, batch, reason>>
tables   == <<run, log, rows, sent>>
vars     == <<task, run, log, rows, sent, pc, cost, tainted, idx, batch, reason,
              crashes>>

step    == run.step
pending == run.pending

(***************************************************************************)
(* Keys.  The recipient, subject and body identify an email; id, name and  *)
(* arguments identify any other call.  The run id is left out: there is    *)
(* one run.                                                                *)
(***************************************************************************)
IdempotencyKey(call) ==
  [call EXCEPT !.id = IF call.tool = "email" THEN None ELSE @]

Keys     == [id : Ids \cup {None}, tool : Tools, args : Args]
MailKeys == {k \in Keys : k.tool = "email"}

\* The arguments of a call, and its tool, without its id.
ProgressDigest(calls) ==
  [i \in DOMAIN calls |-> <<calls[i].tool, calls[i].args>>]

(***************************************************************************)
(* Reading the log back.                                                   *)
(***************************************************************************)
HasResponse(s) == log.responses[s] # None
CallsAt(s)     == log.responses[s].calls

\* The call at position i of the current answer, and its execution key.
CallOf(i) == CallsAt(step)[i]
Key(i)    == IdempotencyKey(CallOf(i))

\* Mutant: the cost of the earlier processes is forgotten.
CostForgotten == 0

\* The last recorded total.
CostSoFar ==
  LET charged == {s \in Steps : log.charges[s] # None}
  IN  IF charged = {} THEN 0
      ELSE log.charges[CHOOSE s \in charged : \A t \in charged : t <= s]

\* The last progress_check event of a step before s: its step, or 0.
LatestCheck(s) ==
  LET earlier == {t \in Steps : t < s /\ log.checks[t] # 0}
  IN  IF earlier = {} THEN 0
      ELSE CHOOSE t \in earlier : \A u \in earlier : u <= t

\* Mutant: the recorded verdict is not looked at.
NoProgressForgotten == FALSE

RecordedNoProgress ==
  LET t == LatestCheck(MaxSteps + 1)
  IN  t # 0 /\ log.checks[t] >= NoProgressLimit

\* Mutant: a result of any step answers the call.
RecoveredByAnyResult ==
  IF step \in log.parsed
  THEN {i \in DOMAIN CallsAt(step) : \A e \in log.results : e.key # Key(i)}
  ELSE {}

\* Mutant: the calls with a result are not left out.
RecoveredAll == IF step \in log.parsed THEN DOMAIN CallsAt(step) ELSE {}

\* Parsed calls of the current step without a result event of this step.
RecoveredCalls ==
  IF step \in log.parsed
  THEN {i \in DOMAIN CallsAt(step) :
          \A e \in log.results : e.step = step => e.key # Key(i)}
  ELSE {}

ResponseToProcess == step > 0 /\ HasResponse(step) /\ step \notin log.parsed

\* _latest_failed_tool_results: did a call of the last batch before s fail?
LastBatchFailed(s) ==
  LET earlier == {e \in log.results : e.step < s}
  IN  \E e \in earlier : ~e.ok /\ \A f \in earlier : f.step <= e.step

(***************************************************************************)
(* Initial state: nothing recorded, no process.                            *)
(***************************************************************************)
EmptyLog ==
  [requests  |-> {},                        \* llm_request, by step
   responses |-> [s \in Steps |-> None],    \* llm_response, by step
   messages  |-> {},                        \* assistant_message, by step
   charges   |-> [s \in Steps |-> None],    \* budget_charged.total_cost
   parsed    |-> {},                        \* tool_calls_parsed, by step
   checks    |-> [s \in Steps |-> 0],       \* progress_check.repeat_count
   starts    |-> {},                        \* tool_execution_started
   results   |-> {},                        \* tool_result
   finished  |-> None]                      \* run_finished

NoRow   == [status |-> "absent", size |-> "fits"]
NoBatch == [out |-> <<>>, fresh |-> {}, restored |-> {}]

Init ==
  /\ task \in TaskSizes
  /\ run = [status |-> "NONE", step |-> 0, reason |-> "none", pending |-> {}]
  /\ log = EmptyLog
  /\ rows = [k \in Keys |-> NoRow]
  /\ sent = {}
  /\ pc = "down"
  /\ cost = 0
  /\ tainted = FALSE
  /\ idx = 1
  /\ batch = NoBatch
  /\ reason = "none"
  /\ crashes = 0

(***************************************************************************)
(* Relaunching the process.                                                *)
(***************************************************************************)

\* Rebuilding the memory raises, outside the try block of run, when a single
\* recorded message exceeds the token budget.
MemoryRebuilds ==
  /\ task # "huge"
  /\ \A s \in log.messages : log.responses[s].text # "over"
  /\ \A e \in log.results : ~(e.ok /\ e.size = "over")

\* create_run commits the row and run_started; the task is then added to the
\* memory, which raises when it alone exceeds the token budget.
Create ==
  /\ pc = "down"
  /\ run.status = "NONE"
  /\ run' = [run EXCEPT !.status = "STARTED"]
  /\ pc' = IF task = "huge" THEN "down" ELSE "top"
  /\ UNCHANGED <<task, log, rows, sent, volatile, crashes>>

\* Mutant: a finished run is resumed like any other.
UnfinishedUnchecked == run.status # "NONE"

Unfinished == run.status \notin {"NONE", "FINISHED"}

\* Mutant: the untrusted-data flag is not rebuilt.
TaintForgotten == FALSE

\* from_events adds every recorded result, which sets the flag.
RebuiltTaint == log.results # {}

Resume ==
  /\ pc = "down"
  /\ Unfinished
  /\ MemoryRebuilds
  /\ pc' = "top"
  /\ cost' = CostSoFar
  /\ tainted' = RebuiltTaint
  /\ UNCHANGED <<task, tables, idx, batch, reason, crashes>>

\* The rebuilt memory exceeds the budget: the process exits with an error and
\* leaves every table as it was.
ResumeFails ==
  /\ pc = "down"
  /\ Unfinished
  /\ ~MemoryRebuilds
  /\ UNCHANGED vars

ResumeFinished ==
  /\ pc = "down"
  /\ run.status = "FINISHED"
  /\ UNCHANGED vars

\* The process dies: kill, or an exception nothing in run catches.
Crash ==
  /\ pc # "down"
  /\ crashes < MaxCrashes
  /\ crashes' = crashes + 1
  /\ pc' = "down"
  /\ cost' = 0
  /\ tainted' = FALSE
  /\ idx' = 1
  /\ batch' = NoBatch
  /\ reason' = "none"
  /\ UNCHANGED <<task, tables>>

(***************************************************************************)
(* The head of the loop.                                                   *)
(***************************************************************************)
Raise(why) == pc' = "failing" /\ reason' = why

\* finish_run: the row and the run_finished event in one transaction.
FinishRun(why) ==
  /\ run' = [status |-> "FINISHED", step |-> step, reason |-> why,
             pending |-> {}]
  /\ log' = IF log.finished = None
            THEN [log EXCEPT !.finished = [reason |-> why, step |-> step]]
            ELSE log
  /\ pc' = "down"
  /\ cost' = 0
  /\ tainted' = FALSE
  /\ idx' = 1
  /\ batch' = NoBatch
  /\ reason' = "none"
  /\ UNCHANGED <<task, rows, sent, crashes>>

\* Mutant: the loop runs once more at the limit.
AtTopOffByOne == pc = "top" /\ step <= MaxSteps

AtTop == pc = "top" /\ step < MaxSteps

StepLimit ==
  /\ pc = "top"
  /\ step >= MaxSteps
  /\ FinishRun("MaxStepsReachedError")

StopRecordedNoProgress ==
  /\ AtTop
  /\ RecordedNoProgress
  /\ Raise("NoProgressError")
  /\ UNCHANGED <<task, tables, cost, tainted, idx, batch, crashes>>

BeginTools ==
  /\ AtTop
  /\ ~RecordedNoProgress
  /\ pending # {}
  /\ pc' = "start"
  /\ idx' = 1
  /\ UNCHANGED <<task, tables, cost, tainted, batch, reason, crashes>>

RecoverPending ==
  /\ AtTop
  /\ ~RecordedNoProgress
  /\ pending = {}
  /\ RecoveredCalls # {}
  /\ run' = [run EXCEPT !.status = "RUNNING_TOOLS", !.pending = RecoveredCalls]
  /\ pc' = "start"
  /\ idx' = 1
  /\ UNCHANGED <<task, log, rows, sent, cost, tainted, batch, reason, crashes>>

NothingPending ==
  /\ AtTop
  /\ ~RecordedNoProgress
  /\ pending = {}
  /\ RecoveredCalls = {}

ResumeResponse ==
  /\ NothingPending
  /\ ResponseToProcess
  /\ pc' = "parse"
  /\ UNCHANGED <<task, tables, volatile, crashes>>

\* Mutant: an interrupted request is not repeated.
NextStepSkips == step + 1

\* The step whose request was interrupted is asked again; otherwise the next.
NextStep ==
  IF run.status = "CALLING_LLM" /\ step > 0 /\ ~HasResponse(step)
  THEN step ELSE step + 1

BeginStep ==
  /\ NothingPending
  /\ ~ResponseToProcess
  /\ run' = [run EXCEPT !.status = "CALLING_LLM", !.step = NextStep]
  /\ pc' = "request"
  /\ UNCHANGED <<task, log, rows, sent, volatile, crashes>>

(***************************************************************************)
(* The model turn.                                                         *)
(***************************************************************************)

\* The preamble and the task alone exceed the budget.
ContextTooLarge ==
  /\ pc = "request"
  /\ task = "tight"
  /\ Raise("ContextLimitExceededError")
  /\ UNCHANGED <<task, tables, cost, tainted, idx, batch, crashes>>

SendRequest ==
  /\ pc = "request"
  /\ task = "fits"
  /\ log' = [log EXCEPT !.requests = @ \cup {step}]
  /\ pc' = "await"
  /\ UNCHANGED <<task, run, rows, sent, volatile, crashes>>

LLMFails ==
  /\ pc = "await"
  /\ Raise("NetworkFailureError")
  /\ UNCHANGED <<task, tables, cost, tainted, idx, batch, crashes>>

LLMAnswers(r) ==
  /\ pc = "await"
  /\ log' = [log EXCEPT !.responses =
                IF HasResponse(step) THEN @ ELSE [@ EXCEPT ![step] = r]]
  /\ pc' = "parse"
  /\ UNCHANGED <<task, run, rows, sent, volatile, crashes>>

\* The answer being processed: the one this process received, or, after a
\* relaunch, the recorded one.
Answer == log.responses[step]

\* _record_parsed_response: the text is committed, then added to the memory,
\* which raises when it is too large.  A text already committed is skipped.
RecordText ==
  /\ pc = "parse"
  /\ IF Answer.text = "none" \/ step \in log.messages
     THEN pc' = "charge" /\ UNCHANGED <<log, reason>>
     ELSE /\ log' = [log EXCEPT !.messages = @ \cup {step}]
          /\ IF Answer.text = "over"
             THEN Raise("ContextLimitExceededError")
             ELSE pc' = "charge" /\ UNCHANGED reason
  /\ UNCHANGED <<task, run, rows, sent, cost, tainted, idx, batch, crashes>>

\* Mutant: the verdict of a recorded charge is not repeated.
ExceedsBudgetOnce(total) == log.charges[step] = None /\ total > Budget

ExceedsBudget(total) == total > Budget

\* A charge that is recorded is read back, and its verdict is repeated.
ChargeBudget ==
  /\ pc = "charge"
  /\ LET total == IF log.charges[step] # None THEN log.charges[step]
                  ELSE cost + Answer.cost
     IN  /\ log' = [log EXCEPT !.charges = [@ EXCEPT ![step] = total]]
         /\ IF ExceedsBudget(total)
            THEN Raise("BudgetExceededError") /\ UNCHANGED cost
            ELSE pc' = "decide" /\ cost' = total /\ UNCHANGED reason
  /\ UNCHANGED <<task, run, rows, sent, tainted, idx, batch, crashes>>

RejectPartial ==
  /\ pc = "decide"
  /\ Answer.incomplete
  /\ Raise("PartialToolTurnError")
  /\ UNCHANGED <<task, tables, cost, tainted, idx, batch, crashes>>

\* Mutant: the batch before the last is consulted.
ContradictsOffByOne == Answer.text = "success" /\ LastBatchFailed(step - 1)

Contradicts == Answer.text = "success" /\ LastBatchFailed(step)

RejectContradiction ==
  /\ pc = "decide"
  /\ ~Answer.incomplete
  /\ Answer.calls = <<>>
  /\ Contradicts
  /\ Raise("ModelContradictionError")
  /\ UNCHANGED <<task, tables, cost, tainted, idx, batch, crashes>>

Complete ==
  /\ pc = "decide"
  /\ ~Answer.incomplete
  /\ Answer.calls = <<>>
  /\ ~Contradicts
  /\ FinishRun("completed")

\* Mutant: the row is committed without its event.
ParseCallsRowOnly ==
  /\ pc = "decide"
  /\ ~Answer.incomplete
  /\ Answer.calls # <<>>
  /\ run' = [run EXCEPT !.status = "RUNNING_TOOLS", !.pending = DOMAIN Answer.calls]
  /\ pc' = "progress"
  /\ UNCHANGED <<task, log, rows, sent, volatile, crashes>>

\* update_run_and_append_event: the row and the event in one transaction.
ParseCalls ==
  /\ pc = "decide"
  /\ ~Answer.incomplete
  /\ Answer.calls # <<>>
  /\ run' = [run EXCEPT !.status = "RUNNING_TOOLS", !.pending = DOMAIN Answer.calls]
  /\ log' = [log EXCEPT !.parsed = @ \cup {step}]
  /\ pc' = "progress"
  /\ UNCHANGED <<task, rows, sent, volatile, crashes>>

RepeatCount ==
  LET t == LatestCheck(step)
  IN  IF t # 0 /\ ProgressDigest(CallsAt(t)) = ProgressDigest(CallsAt(step))
      THEN log.checks[t] + 1 ELSE 1

\* Mutant: the first call of its kind is not recorded.
CheckRepeatsOnly ==
  /\ pc = "progress"
  /\ log' = IF RepeatCount = 1 THEN log
            ELSE [log EXCEPT !.checks = [@ EXCEPT ![step] = RepeatCount]]
  /\ IF RepeatCount >= NoProgressLimit
     THEN Raise("NoProgressError")
     ELSE pc' = "top" /\ UNCHANGED reason
  /\ UNCHANGED <<task, run, rows, sent, cost, tainted, idx, batch, crashes>>

CheckProgress ==
  /\ pc = "progress"
  /\ log' = [log EXCEPT !.checks = [@ EXCEPT ![step] = RepeatCount]]
  /\ IF RepeatCount >= NoProgressLimit
     THEN Raise("NoProgressError")
     ELSE pc' = "top" /\ UNCHANGED reason
  /\ UNCHANGED <<task, run, rows, sent, cost, tainted, idx, batch, crashes>>

FinishFailed ==
  /\ pc = "failing"
  /\ FinishRun(reason)

(***************************************************************************)
(* The tool batch: _execute_tool_calls over run.pending.  batch.out holds  *)
(* ordered_results ("none", "ok" or "failed"), batch.fresh the calls with  *)
(* no execution row when the batch began, batch.restored the writes whose  *)
(* file was put back.                                                      *)
(***************************************************************************)
Outcome(k) == IF rows[k].status = "completed" THEN "ok" ELSE "failed"
HasRow(k)  == rows[k].status # "absent"

\* The index of a call in the list of pending calls, and the calls that the
\* loop over that list has yet to reach.
Index(i) == Cardinality({j \in pending : j <= i})
Ahead    == {i \in pending : i >= idx}
Reached(i) == i \in Ahead /\ \A j \in Ahead : i <= j

\* Mutant: the first start suffices.
AllStartedOffByOne == idx > 1

AllStarted == Ahead = {}

StartCall(i) ==
  /\ pc = "start"
  /\ ~AllStarted
  /\ Reached(i)
  /\ log' = [log EXCEPT !.starts =
                @ \cup {[step |-> step, index |-> Index(i), key |-> Key(i)]}]
  /\ idx' = i + 1
  /\ UNCHANGED <<task, run, rows, sent, pc, cost, tainted, batch, reason, crashes>>

LookUpRows ==
  /\ pc = "start"
  /\ AllStarted
  /\ batch' = [out      |-> [i \in pending |->
                              IF HasRow(Key(i)) THEN Outcome(Key(i)) ELSE "none"],
               fresh    |-> {i \in pending : ~HasRow(Key(i))},
               restored |-> {}]
  /\ pc' = "exec"
  /\ idx' = 1
  /\ UNCHANGED <<task, tables, cost, tainted, reason, crashes>>

BatchFailed == \E i \in pending : batch.out[i] = "failed"

\* The calls of a tool class still to run.  Reads run first, in any order;
\* then the writes and then the emails, each in the order of the calls.
Todo(classes) ==
  {i \in pending : batch.out[i] = "none" /\ CallOf(i).tool \in classes}

First(i, classes) == i \in Todo(classes) /\ \A j \in Todo(classes) : i <= j

Settle(i, outcome) == batch' = [batch EXCEPT !.out = [@ EXCEPT ![i] = outcome]]

SetRow(k, st, sz) == rows' = [rows EXCEPT ![k] = [status |-> st, size |-> sz]]

\* A row that is already there is reused and the tool body is not run.
Reuse(i) ==
  /\ HasRow(Key(i))
  /\ Settle(i, Outcome(Key(i)))
  /\ UNCHANGED <<rows, sent>>

\* A side effect after a failed sibling, or an email after untrusted data.
Block(i) ==
  /\ ~HasRow(Key(i))
  /\ Settle(i, "failed")
  /\ SetRow(Key(i), "blocked", "fits")
  /\ UNCHANGED sent

\* Mutant: an email counts as reversible.
WrittenOrMailed ==
  {j \in batch.fresh : CallOf(j).tool # "read" /\ batch.out[j] = "ok"}

\* The writes this batch performed: those with a preimage.
Written == {j \in batch.fresh : CallOf(j).tool = "write" /\ batch.out[j] = "ok"}

\* Call i fails and the writes this batch performed are put back, except
\* those of "lost", whose file cannot be restored.
FailAndRollBack(i) ==
  \E lost \in SUBSET Written :
    batch' = [batch EXCEPT
                !.out = [j \in DOMAIN @ |->
                           IF j = i \/ j \in lost THEN "failed" ELSE @[j]],
                !.restored = @ \cup (Written \ lost)]

Running == pc = "exec" /\ UNCHANGED <<task, run, log, pc, cost, tainted, idx,
                                      reason, crashes>>

\* Two calls with the same key may both find no row and both run.
RunRead(i) ==
  /\ Running
  /\ i \in Todo({"read"})
  /\ \/ Reuse(i)
     \/ \E size \in ResultSizes : SetRow(Key(i), "completed", size)
        /\ Settle(i, "ok") /\ UNCHANGED sent
     \/ SetRow(Key(i), "failed", "fits")
        /\ Settle(i, "failed") /\ UNCHANGED sent

RunWrite(i) ==
  /\ Running
  /\ Todo({"read"}) = {}
  /\ First(i, {"write"})
  /\ \/ Reuse(i)
     \/ BatchFailed /\ Block(i)
     \/ /\ ~BatchFailed
        /\ ~HasRow(Key(i))
        /\ \/ SetRow(Key(i), "completed", "fits") /\ Settle(i, "ok")
           \/ SetRow(Key(i), "failed", "fits") /\ FailAndRollBack(i)
        /\ UNCHANGED sent

\* An email is refused in a tainted conversation before its arguments are
\* looked at; it is queued and its row written in one transaction.
RunEmail(i) ==
  /\ Running
  /\ Todo({"read", "write"}) = {}
  /\ First(i, {"email"})
  /\ \/ Reuse(i)
     \/ BatchFailed /\ Block(i)
     \/ /\ ~BatchFailed
        /\ ~HasRow(Key(i))
        /\ \/ /\ tainted
              /\ SetRow(Key(i), "blocked", "fits")
              /\ FailAndRollBack(i)
              /\ UNCHANGED sent
           \/ /\ ~tainted
              /\ CallOf(i).args \in BadArgs
              /\ SetRow(Key(i), "failed", "fits")
              /\ FailAndRollBack(i)
              /\ UNCHANGED sent
           \/ /\ ~tainted
              /\ CallOf(i).args \notin BadArgs
              /\ sent' = sent \cup {Key(i)}
              /\ \E size \in ResultSizes : SetRow(Key(i), "completed", size)
              /\ Settle(i, "ok")

Collecting == pc = "exec" /\ Todo(Tools) = {}

\* The row of a restored write is corrected before its result is recorded.
MarkRolledBack(i) ==
  /\ Collecting
  /\ Reached(i)
  /\ i \in batch.restored
  /\ rows' = [rows EXCEPT ![Key(i)] = [@ EXCEPT !.status = "failed"]]
  /\ batch' = [batch EXCEPT !.out = [@ EXCEPT ![i] = "failed"],
                            !.restored = @ \ {i}]
  /\ UNCHANGED <<task, run, log, sent, pc, cost, tainted, idx, reason, crashes>>

\* A result is keyed by step, index and call, except that of an email, which is
\* keyed by the email alone.
ResultLogged(i) ==
  \E e \in log.results :
    /\ e.key = Key(i)
    /\ CallOf(i).tool = "email" \/ (e.step = step /\ e.index = Index(i))

\* A result event that is already there changes nothing, the memory included.
\* A new one is committed and then added to the memory, which raises when the
\* rendered payload is too large.
RecordResult(i) ==
  /\ Collecting
  /\ Reached(i)
  /\ i \notin batch.restored
  /\ idx' = i + 1
  /\ LET size == IF batch.out[i] = "ok" THEN rows[Key(i)].size ELSE "fits"
     IN  IF ResultLogged(i)
         THEN UNCHANGED <<log, tainted, pc, reason>>
         ELSE /\ log' = [log EXCEPT !.results = @ \cup
                           {[step |-> step, index |-> Index(i), key |-> Key(i),
                             ok |-> batch.out[i] = "ok", size |-> size]}]
              /\ tainted' = TRUE
              /\ IF size = "fits" THEN UNCHANGED <<pc, reason>>
                 ELSE Raise("ContextLimitExceededError")
  /\ UNCHANGED <<task, run, rows, sent, cost, batch, crashes>>

ToolsDone ==
  /\ Collecting
  /\ Ahead = {}
  /\ run' = [run EXCEPT !.status = "CALLING_LLM", !.pending = {}]
  /\ pc' = "top"
  /\ idx' = 1
  /\ batch' = NoBatch
  /\ UNCHANGED <<task, log, rows, sent, cost, tainted, reason, crashes>>

(***************************************************************************)
(* The specification.                                                      *)
(***************************************************************************)
LoopHead ==
  StepLimit \/ StopRecordedNoProgress \/ BeginTools \/ RecoverPending
    \/ ResumeResponse \/ BeginStep

ModelTurn ==
  \/ ContextTooLarge \/ SendRequest \/ LLMFails
  \/ \E r \in Responses : LLMAnswers(r)
  \/ RecordText \/ ChargeBudget
  \/ RejectPartial \/ RejectContradiction \/ Complete
  \/ ParseCalls \/ CheckProgress \/ FinishFailed

BatchStep ==
  \/ LookUpRows \/ ToolsDone
  \/ \E i \in pending : \/ StartCall(i)
                        \/ RunRead(i) \/ RunWrite(i) \/ RunEmail(i)
                        \/ MarkRolledBack(i) \/ RecordResult(i)

Process == Create \/ Resume \/ LoopHead \/ ModelTurn \/ BatchStep

Next == Process \/ ResumeFails \/ ResumeFinished \/ Crash

Spec == Init /\ [][Next]_vars

\* A live process takes its next step (every call it makes is bounded by a
\* timeout), and a dead one is relaunched until the run is finished, as the
\* chaos harness and the resume command do.  Crashing is never required.
Fairness == WF_vars(Process)

FairSpec == Spec /\ Fairness

(***************************************************************************)
(* Properties.                                                             *)
(***************************************************************************)

Start  == [step : Steps, index : Nat, key : Keys]
Result == [step : Steps, index : Nat, key : Keys, ok : BOOLEAN,
           size : {"fits", "brim", "over"}]

RunRow ==
  [status : {"NONE", "STARTED", "CALLING_LLM", "RUNNING_TOOLS", "FINISHED"},
   step : 0 .. MaxSteps, reason : Reasons \cup {"none"}, pending : SUBSET Nat]
Log ==
  [requests : SUBSET Steps, responses : [Steps -> Responses \cup {None}],
   messages : SUBSET Steps, charges : [Steps -> Nat \cup {None}],
   parsed : SUBSET Steps, checks : [Steps -> Nat],
   starts : SUBSET Start, results : SUBSET Result,
   finished : [reason : Reasons, step : 0 .. MaxSteps] \cup {None}]
Execution ==
  [status : {"absent", "completed", "failed", "blocked"},
   size : {"fits", "brim", "over"}]
Batch ==
  [out : [pending -> {"none", "ok", "failed"}] \cup {<<>>},
   fresh : SUBSET pending, restored : SUBSET pending]

Places ==
  {"down", "top", "request", "await", "parse", "charge", "decide", "progress",
   "start", "exec", "failing"}

\* Every variable has the type its table or local has in the code.
TypeOK ==
  /\ task \in TaskSizes
  /\ run \in RunRow
  /\ log \in Log
  /\ rows \in [Keys -> Execution]
  /\ sent \subseteq Keys
  /\ pc \in Places
  /\ cost \in Nat
  /\ tainted \in BOOLEAN
  /\ idx \in Nat \ {0}
  /\ batch \in Batch
  /\ reason \in Reasons \cup {"none"}
  /\ crashes \in 0 .. MaxCrashes

\* Resume never sees an advanced run row without the evidence that explains it
\* (AgentDatabase.update_run_and_append_event): a finished row has the one
\* run_finished event of its reason and step, and a row that is running tools
\* holds calls of the answer recorded at its step.
CheckpointExplained ==
  /\ (run.status = "FINISHED") <=> (log.finished # None)
  /\ log.finished # None =>
       log.finished = [reason |-> run.reason, step |-> run.step]
  /\ run.status = "RUNNING_TOOLS" =>
       /\ step \in log.parsed
       /\ pending # {} /\ pending \subseteq DOMAIN CallsAt(step)

\* However the process is killed and relaunched, the model is not asked again
\* at a step whose answer is recorded, and no step is left unanswered behind
\* the current one (_recorded_response_to_process and the step arithmetic).
AskedOncePerStep ==
  /\ pc \in {"request", "await"} => ~HasResponse(step)
  /\ \A s \in Steps : s < step => HasResponse(s)

\* Cost accounting has neither holes nor double charges across relaunches:
\* a recorded total is the previous step's total plus the cost of this answer,
\* and every answer whose calls were accepted, or that is behind the current
\* step, is charged.
CostExact ==
  \A s \in Steps :
    /\ log.charges[s] # None =>
         /\ HasResponse(s)
         /\ s > 1 => log.charges[s - 1] # None
         /\ log.charges[s] = log.responses[s].cost
                             + (IF s = 1 THEN 0 ELSE log.charges[s - 1])
    /\ s < step \/ s \in log.parsed => log.charges[s] # None

\* Once the recorded total exceeds the budget the run asks the model no more,
\* accepts no more tool calls and never ends as completed (_charge_budget).
BudgetStopsRun ==
  \A s \in Steps :
    log.charges[s] # None /\ log.charges[s] > Budget =>
      /\ s \notin log.parsed
      /\ \A t \in log.requests : t <= s
      /\ run.reason # "completed"

\* A call list repeated up to the limit is stopped before any of its calls
\* starts, even when the process dies between recording the repetition and
\* finishing the run (_check_progress, _raise_if_recorded_no_progress).
TerminalRepeatNeverStarts ==
  \A e \in log.starts : log.checks[e.step] < NoProgressLimit

\* Every batch that starts a call has recorded its progress check first
\* (the comment at the end of _check_progress).
StartedImpliesChecked ==
  \A e \in log.starts : log.checks[e.step] # 0

\* A crash between tool_calls_parsed and _check_progress costs the check of its
\* step; however the run goes on, no other step starts a batch unchecked.
UncheckedExplained ==
  Cardinality({s \in Steps : log.checks[s] = 0 /\ \E e \in log.starts : e.step = s}) <= crashes

\* A run ends as completed only on a whole answer without tool calls that does
\* not claim success over a failure of the last batch.
CompletedIsHonest ==
  run.reason = "completed" =>
    LET r == log.responses[run.step]
    IN  /\ r # None
        /\ r.calls = <<>> /\ ~r.incomplete
        /\ ~(r.text = "success" /\ LastBatchFailed(run.step))

\* The run leaves a step with tool calls only when each of them has a result
\* event of that step, so the model is always told what its calls did.
EveryCallAnswered ==
  \A s \in log.parsed : s < step =>
    \A i \in DOMAIN CallsAt(s) :
      \E e \in log.results :
        e.step = s /\ e.key = IdempotencyKey(CallsAt(s)[i])

\* A start is recorded for every call of a batch before a result of any.
StartsPrecedeResults ==
  \A e \in log.results :
    \A i \in DOMAIN CallsAt(e.step) :
      \E b \in log.starts :
        b.step = e.step /\ b.key = IdempotencyKey(CallsAt(e.step)[i])

\* A finished run is over: no relaunch changes any of its tables.
FinishedFrozen == [][run.status = "FINISHED" => UNCHANGED tables]_vars

\* What has been decided about an email.
Decision(k) ==
  IF k \notin sent /\ rows[k].status = "absent" THEN "open"
  ELSE IF k \in sent /\ rows[k].status = "completed" THEN "sent"
  ELSE IF k \notin sent /\ rows[k].status # "completed" THEN "refused"
  ELSE "torn"

\* The abstract outbox the run implements.
Outbox == INSTANCE EmailOutbox WITH
  Emails    <- MailKeys,
  outbox    <- [k \in MailKeys |-> Decision(k)],
  untrusted <- log.results # {}

\* Each logical email is sent or refused once and for all over the whole run,
\* whatever is retried or rolled back, and none is sent once a tool result is
\* part of the conversation, even one recorded by an earlier process.
ImplementsOutbox == Outbox!Spec

\* The run reaches a termination reason.
Termination == <>(run.status = "FINISHED")
=============================================================================
