# Formal models of the agent runtime

TLA+ models of the agent runtime under `src/agent`: the loop that asks a model,
accepts tool calls, executes them and records everything in SQLite, so that a
killed process can be relaunched and continue. TLC checks the models on small
instances; TLAPS proves for every value of the parameters each safety property that
TLC checks: of the control loop, the tool batch, the model client, the memory, the
parser, the trace, the scenarios under the harness and the shared run.

## The system

| Part | State it keeps | Operations | Talks to |
|---|---|---|---|
| Agent loop (`runtime.py`, `AgentRuntime.run`) | locals `step`, `status`, `pending`, `total_cost`; everything else is in the store | create, resume, model turn, budget, partial-turn, contradiction and progress checks, tool batch, finish | all others |
| Tool batch (`runtime.py`, `_execute_tool_calls`; `executer.py`) | `ordered_results`, `write_preimages`, `restored_write_indexes`, pool threads | start events, row look-up, parallel reads, ordered side effects, roll-back, result events | store, workspace, memory |
| Durable store (`run.py`, `AgentDatabase`) | tables `runs`, `run_states`, `events`, `tool_executions`, `sent_emails` | one transaction per method; events are ignored when their idempotency key exists | loop, executor |
| Model turn recorder (`validate.py`, `AgentValidator`) | none | request, response and text events, parsing | client, store, memory |
| Model client (`validate.py`, `LLMClient`, `CircuitBreaker`) | failure count, time of opening | call with retries | model server |
| Conversation memory (`message.py`) | messages, summary, untrusted-data flag, token budget | add, compact, rebuild from events | loop |
| Response parser (`response.py`) | none | raw answer to text and tool calls | recorder |
| Trace and replay (`run.py`) | JSONL file | append after commit, format | loop |
| Command line, signals (`user.py`) | none | run, resume, replay; a signal ends the process | loop |
| Chaos harness (`harness/chaos.py`) | none | kill the process, resume, one final uninterrupted resume | command line |
| Mock model (`mockllm/`) | per-scenario state | scripted answers, 429s, broken bodies | client |
| Configuration, exceptions, evaluation suite | none | limits; termination reasons; test drivers | loop |

What is hard in it:

* **Crashes between commits.** Every SQLite call is a transaction of its own; a
  kill falls between any two of them. Local variables (cost, untrusted-data
  flag, preimages of writes, results of the batch) are gone and must be derived
  from the tables.
* **Repetition.** A resumed process runs a batch again from its first call.
  Execution rows, event keys and the email key decide what is repeated. Three
  different keys are in play: the execution key of a call, the event key of a
  start and the event key of a result; the last ignores the step for emails.
* **Threads.** Reads of a batch run in a pool, check for a row, run and upsert
  with nothing between them; writes and emails wait for them.
* **Partial failure.** A failing side effect undoes the writes before it and
  skips the effects after it; restoring can fail as well.
* **Two actors on one resource.** Two processes on one run, two runs on the
  counters of the mock server, two calls of one batch on one row: all read,
  act and write without a lock.
* **Live against rebuilt.** A resumed process rebuilds its memory from events,
  in another rendering and without the compactions its predecessor made in
  between; the trace is continued by a process that does not know what line was
  being written.
* **Retries and time.** An attempt, a sleep, the breaker's cooldown and the kill
  of a process fall in any order.
* **Termination.** A step limit, a no-progress limit, a budget and errors all
  end the run, each must survive a crash between its verdict and `finish_run`.

What makes each part correct:

* loop: the row never runs ahead of the log; no answer is asked twice; cost is
  exact; a budget or no-progress verdict is final; completion is honest; a
  finished run is frozen; the run ends;
* batch: every call is answered; starts precede results; writes are all or
  nothing (what `run_python` leaves stays); results agree with rows; emails follow
  success;
* email: each logical email is decided once, and never sent after tool data;
* client: a server that is down is left alone for a cooldown after a known number
  of requests; nothing is sent while the breaker is open; every call comes back;
* memory: what the model is given fits, holds the task and has no gaps; it
  refuses only the hopeless, and takes after a crash what it took before;
* parser: nothing in an answer is lost, and it is recorded once;
* trace: a subset of the log in its order, whose gaps crashes account for;
* server and harness: a scenario ends as its uninterrupted run does.

## Modules

| Module | What it is |
|---|---|
| `EmailOutbox` | abstract promise about `send_email`: open, then sent or refused for good; no send once untrusted data is in the conversation |
| `AgentLoop` | one run: `AgentRuntime.run`, the validator's events, the batch without files and threads, kill and relaunch |
| `ToolBatch` | one batch in full: pool threads, executor check / body / record, files, preimages, roll-back, kill and rerun |
| `LoopBatch` | the part of `AgentLoop` that executes a batch, by itself |
| `BatchPhase` | `ToolBatch` seen as that part of `AgentLoop` |
| `ModelClient` | `LLMClient.call` attempt by attempt, `CircuitBreaker`, a clock |
| `RetryScenario` | two instances of `ModelClient` against the counters of the mock server's S06 |
| `Memory` | `MemoryWindow`, `MemoryManager`: compaction, fact ledger, rebuilding |
| `ResponseParser` | `parse_agent_response`, and how what it yields is recorded |
| `TracedLoop` | `AgentLoop` with the trace file and the events that nothing reads back |
| `Scenarios` | `AgentLoop` with the mock server's scenarios S01 to S12 and the chaos harness |
| `SharedRun` | several processes on one run |
| `MC...` | answers, batches and header values for TLC |
| `AgentLoopProofs` | types, checkpoints; cost, budget, no-progress, frozen and honest termination; refinement of `EmailOutbox`, starts and results |
| `ToolBatchProofs` | types and places of the batch, its claims and progress, refinement of `EmailOutbox`, starts and results, sends; files, preimages and roll-back; results against rows; refinement of `LoopBatch` |
| `ModelClientProofs` | load, quiet and recorded retries of the client |
| `MemoryProofs` | compaction, ledger and rebuilding |
| `ResponseParserProofs` | no item is lost, and what it yields is recorded once |
| `ExtendedLoopProofs` | what extends the loop: the trace follows the log, and what it misses; the scenarios under the harness |
| `RetryScenarioProofs` | runs of different tasks do not share a sequence of S06 |
| `SharedRunProofs` | a shared run is finished when all are through |

`AgentLoop` is the centre. `ToolBatch`, `ModelClient`, `Memory` and
`ResponseParser` open up what it keeps as one step (a batch, an answer, the memory
refusing a message, an answer's calls). `TracedLoop` and `Scenarios` extend it and
run its actions beside their own. `SharedRun` repeats its commits for several
processes with few answers, because its rows no longer equal the locals.

### AgentLoop and the code

The variables fall into two groups. `run`, `log`, `rows` and `sent` are the
tables `runs`, `events`, `tool_executions` and `sent_emails`; they survive
`Crash`. `cost`, `tainted`, `idx`, `batch`, `reason` and `pc` are one process.
An action performs at most one commit and everything the code does from there to
the next commit, so a `Crash` between two actions is a kill between two
commits.

* `log` has one field per event type the loop reads back: requests, responses,
  texts, charges, parsed calls, progress checks, starts, results, the end. The
  events that nothing reads (`step_start`, `step_limit`, `partial_tool_turn`,
  `model_contradiction`, `tool_parse_error`), the trace file and `run_states`
  are left out; all of these events but parse errors are in `TracedLoop`, and
  parse errors in `ResponseParser`.
* With one process at a time the locals `step`, `status` and `pending` equal
  the row, so they are the row.
* `run.pending` holds positions in the answer recorded at the row's step. Both
  writers of `pending_tool_calls` store a sub-list of that answer's calls
  (`ParseCalls` all of them, `RecoverPending` those without a result), so the
  positions determine the list; `Index` is the index in it.
* Sizes stand for token counts: a task `fits`, is `tight` (with the preamble it
  exceeds the budget at the first request) or `huge` (alone it does); a text is
  `over` when alone it does; a result is `brim` when its live rendering exceeds
  the budget and the one rebuilt from the log does not, `over` when both do.
* Calls are `write` (`write_file`), `email` (`send_email`) or `read`: whatever
  `_is_side_effect_tool` does not name, so also `run_python` and unknown tools.
  Which files a call changes is in `ToolBatch`. An email's key leaves out its id; the run id is left out
  of all keys.
* `StepLimit` fires at `step = MaxSteps`: calls accepted at the last step are
  never executed. That is what the code does.
* An answer counts as incomplete exactly when `_is_incomplete_partial_turn`
  holds; parsing is otherwise done when an answer enters the model.

`RecoverPending` needs an accepted step with no pending calls and a call without
a result of that step. The batch records a result for each call it is given,
except for an email whose result event already exists; so it only ever fires
for an email answered at an earlier step.

### ToolBatch and the code

One batch from the first start event to the last result. A `Reader` is a pool
thread: `CheckRow`, `ReadBody` and `ReadRecord` are the three places where
`ToolExecutor.execute` can interleave with the others. `WriteBody` captures the
preimage and writes the file, `WriteRecord` commits the row. `UndoWrite` puts
one file back. `Faults` enables operating-system failures: `"restore"` makes
putting a file back fail, `"tear"` makes a write fail after truncating.
`bodies`, `before` and `tainted0` are history variables, nothing depends on
them. A read with a content is a `run_python`: its code runs in the workspace
(`executer.py:118`) and may leave its target as it was, with that content or cut
short, and end either way. The scheduler takes it for a read, no preimage is
captured, and nothing it leaves is put back (`README.md:25`,
`DECISIONS.md:23`); a write of the batch that follows has what it left for a
preimage. A batch is any sequence of `Call`: paths, contents, emails and whole calls
may repeat in it. `AgentLoop` has the same batch with a tool body and its row in one
action and the whole roll-back in one action.

`BatchPhase` says what of the state of `ToolBatch` is which state of the loop
(`AsRun`, `AsLog`, `AsRows`, `AsBatch`, `AsPlace`, `AsIdx`). The batch is put at
step 2, so that an earlier result can stand for a conversation that is untrusted
from the start. What the loop does in one action takes `ToolBatch` several: a body
belongs to the step that records its row, and the files that `UndoWrite` puts back
are back for the loop (`PutBack`) with the row of the effect that failed. `fresh`
is a history variable, the calls without a row at the look-up. `LoopBatch` is what
of `AgentLoop` such a batch is compared with: its own `BatchStep` and `Crash`, and
`RestartBatch`, which is `Resume` followed by `BeginTools`; the two commit nothing,
so that a crash between them is one before them. Such a batch has all calls of its
answer and no execution row yet (`BatchRequested`), as those of `ToolBatch` have;
one that is recovered, or that repeats a call of an earlier step, is in `AgentLoop`
only.

### ModelClient, RetryScenario and the code

`call` is the frame of `LLMClient.call`: between calls (`idle`), with a request
sent, or asleep. `Ask` and `Refuse` are `breaker.check`; `Meet` is the `try` of
one attempt and everything up to the next request, sleep or end. `Meets` lists
what an attempt can meet: an answer; a status that is not retried; 429 or 529
with any `Retry-After`; what the `except` clause lists; and an exception it does
not list (`dropped`). The breaker compares the clock with `opened_at` only, so an
age that stops growing at `Cooldown` stands for both. `Tick` falls between any two
steps: requests and sleeps take any time. Delays are integers, and `Delays` is the
set that jitter leaves. There is one call at a
time, as in the runtime; `Restart` is a new process with a new breaker.

In a process of the command line a failed call ends the run, so a breaker that
opens has no next caller there; the model asks again and again, as any other user
of `LLMClient` may.

`RetryScenario` gives two runs a client each (`INSTANCE ModelClient`), and the
server's `retry_counts`, advanced under its lock by `Serve`. A reply is on its way
until `Receive`; `KillAndResume` loses it, while the counter stays advanced.

### Memory and the code

A message is its role, the event it comes from and its size in tokens. Compaction
is `Compacted`, in the order of the code: drop the old summary, summarise what is
neither protected nor the first user message nor recent, then give messages up one
by one, summaries last. `FitContext` is one round of the loop in
`get_compacted_context`: the window keeps what the round compacted even when the
ledger is then trimmed and the round repeated.

`Message(l, i, live)` renders an event. Live, the payload of a tool result is wrapped
whole; rebuilt, `payload["result"]` alone. Clipping counts characters in the code
and tokens here. Whether a text looks like a fact is chosen freely (`marked`).

What is selected from a sequence (`At`, `Positions`) and what is summed (`Total`) are
recursive functions, so that the proofs can reason about them.

User turns after the first are an operation of `MemoryManager` (used by
`evals/test_message.py`) that the runtime never calls; `MaxUserTurns` = 2 has
them, `MaxUserTurns` = 1 is the runtime.

### ResponseParser and the code

`RawItems` collects the items of every shape the code looks for, in its order;
`ParseItem` is one turn of its loop, `Coerce` the arguments with the repair.
`RecordText`, `RecordError` and `Decide` are the commits that follow; `Crash` falls
between any two, and `Resume` parses the recorded answer again. A text of arguments
is one of the classes that `json.loads` and the repair tell apart.

### TracedLoop and the code

`doing` is what the process still has to do with an event: commit it, for an event
that nothing reads back, or write its line. Every step of `AgentLoop` that inserts
an event is followed by its line before the next step; `Inserted` computes the event
from the logs before and after. `Die` ends the process anywhere, also with half a
line in the file when `Tears`; a relaunch that leaves the tables alone (`Idle`) is
possible as well. `Readable` says which lines a reader makes sense of: a whole
line that does not follow a half one.

### Scenarios and the code

`Serve` replaces the free answers of `AgentLoop` by `ResponseFor`, the mock server's
answer to a scenario and a step; `World` decides which calls fail. The call of S10
that hangs is not one of them: `run_python` catches the timeout and returns what
there is (`executer.py:130`), and the call is recorded as completed, which
`evals/test_tools.py:81` expects. `LaunchAttempt`,
`Kill`, `LaunchLast` and `Inspect` are `run_agent_chaos`, `ExitFatally` is exit
code 1 of the command line. A kill may come before the process did anything.

### SharedRun and the code

Each process has its own `step`, `status`, pending call and untrusted-data flag;
the row, the log, the execution rows and the email are shared. `update_run` reads
the row (`ReadRow`) and writes it (`BeginStep`) in two steps, because the code
takes no lock in between; the log is read twice before a step (`LoopHead`,
`LookForAnswer`), as in the code. An answer is one call or the end.

## Runs

| Run | Question | Bounds |
|---|---|---|
| `agent_loop` | does the control loop hold together? | 4 steps, limit 3, budget 5, 3 crashes; answers: plain end, claim of success, the same read under two ids, a write that breaks the repetition, truncated turn; tasks that fit or are tight |
| `agent_tools` | do batches and emails? | 3 steps, limit 2, 2 crashes; a mixed batch, a write undone by a refused email, a duplicate, an email asked again, results and texts of every size |
| `batch_crash` | what holds of a batch, with and without crashes? | every batch of `MixedBatches` (up to four calls; twins, a path written twice, a write repeated after another one, a `run_python` and a write on one file, two `run_python` racing for it), files absent or present, up to 2 crashes, torn writes |
| `model_client` | is the server left alone, and does every call come back? | 4 attempts, limit 3, cooldown of 3 units, `Retry-After` negative, zero and long |
| `retry_scenario` | do two clients get through S06? | equal and different tasks, 2 kills, 2 steps |
| `traced_loop` | what does the trace lose? | 2 steps, 2 crashes, half lines; task too large or not; calls, texts, a contradiction, a truncated turn |
| `memory` | does the context stay sound? | 5 events, budget 240, 1 crash; tasks from 20 to 250, results up to 170 tokens |
| `response_parser` | is every shape of an answer parsed and recorded once? | every combination of shapes of `TestAnswers`, 1 crash |
| `scenarios` | do the scenarios survive the harness? | S01 to S12, 3 kills, 7 steps |
| `shared_run` | what do two processes leave of a run? | 2 processes, 3 steps, every script of answers, 1 kill |
| `repeated_email`, `dropped_connection` | counterexamples, see below | 3 steps; a server that may do anything |

Why the bounds are enough. No-progress needs `NoProgressLimit` identical batches
and one step more (`agent_loop`: 3 of 4 steps); the budget of 5 is exceeded at the
third or fourth answer, or exactly met, and a process that dies after an excess at
the third still has a step left to spend; two crashes let a second process die
where it repeats what the first did, the third crash lets the final relaunch
start from that. Batches have at most four calls because roll-back needs an effect,
a later failing one and one to be skipped. In `model_client` more than one call is
needed to open the breaker, and the backoff passes the longest `Retry-After`. In
`memory` five events are what the recent two, a summary of one and a drop need;
the sizes sit on both sides of the budget alone, beside preamble and ledger, and
live against rebuilt. In `scenarios` a kill may cost a step, so `MaxSteps` is the
no-progress limit, the three kills and one more: with fewer, S04 would end at the
step limit in some behaviours, with the 50 steps of `config_agent.yaml` it does
not. For all safety properties the proofs remove the bounds; for those of
`Scenarios` they keep the condition that the limits leave that room
(`LimitsAssumption`).

What the properties say:

* `agent_loop`: `CheckpointExplained`, `AskedOncePerStep`, `CostExact`,
  `BudgetStopsRun`, `TerminalRepeatNeverStarts`, `CompletedIsHonest`,
  `FinishedFrozen`; `UncheckedExplained` (a batch starts without its progress check
  at most once per crash); `Termination`, where it holds: there are no emails, and
  no text or result too large for the memory.
* `agent_tools`: `EveryCallAnswered`, `StartsPrecedeResults`, and
  `ImplementsOutbox` by refinement.
* `batch_crash`: `AllOrNothing` (a failed batch has undone its writes: a file is as
  it was before the batch or as a `run_python` of the batch left it, but for a
  torn file and, after a crash, for what the batch wrote itself; in one that
  succeeded the last first occurrence of a write to a path wins, over whatever
  `run_python` left there), `SendsFollowSuccess`,
  `ResultMatchesRow` (but for `Outdated` results, see below), `NothingLost`, `RecordedNeverRerun`,
  `BatchCompletes`, and `ImplementsLoop`: with its threads, bodies and files the
  batch is what the loop takes it to be, its emails included.
* `model_client`: `LoadBounded`, `OpenMeansQuiet`, `RetriesFaithful`,
  `KeepsServing`.
* `retry_scenario`: `ScriptMetApart` (runs of different tasks each meet the whole
  sequence), `BothFinish`.
* `traced_loop`: `TraceFollowsLog`, `LossExplained` (one line per crash, one more
  per half line, and messages the memory refused).
* `memory`: `TypeOK` (nothing the system says, and no fact, comes from a tool
  result), `ContextSound`, `NoGaps`, `RaisesOnlyWhenHopeless`, `Resumable` (what the
  live memory took can be rebuilt).
* `response_parser`: `NothingSwallowed`, `RecordedOnce`.
* `scenarios`: `OutcomeAsExpected` (reason and emails of each scenario, no call of
  S12 started, a failed result in S11, and in S10 one that is ok, of the call that
  hangs, and one that failed), `HarnessFailsOnlyIf`, `HarnessEnds`.
* `shared_run`: `EndsFinished`, `AllEnd`. The second is about behaviours without a
  kill: when one process is killed after it queued calls that the other one's
  `update_run` then carries into its own step, the run can go on for ever.

### What the code does not keep

For each of these TLC finds a counterexample to what the documentation or a comment
of the repository says. The first two are findings of `PROJECT.json`; each of the
others can be reproduced with `tlc -config <cfg> <module>`.

| Configuration | Property | What happens |
|---|---|---|
| `MCAgentRepeatedEmail` (`MCAgentLoop`) | `Termination` | the same email asked at a later step: its result event is keyed by the email alone (`runtime.py:1055`) and ignored, recovery looks for a result of this step, finds none and queues the call again. The loop executes it forever; the step never advances, so no limit applies (`DECISIONS.md:11` promises a step ceiling) |
| `MCModelClientDropped` (`MCModelClient`) | `EndsLegibly` | a server that closes the connection without a response raises what `validate.py:112` does not list: no retry, no count, no `finish_run` (`evals/cases.py:20`: "connection reset fails legibly") |
| `MCAgentOversize` (`MCAgentLoop`) | `Termination` | a text or result is committed before the memory refuses it. A crash before `finish_run` makes every later rebuild raise outside the `try`, `runtime.py:293`, and the run never finishes (`README.md:383`) |
| `MCAgentUnchecked` (`MCAgentLoop`) | `StartedImpliesChecked` | a crash between `tool_calls_parsed` and `progress_check`, `runtime.py:449`: the calls run, the step is never checked (comment at `runtime.py:792`) |
| `MCAgentLastStep` (`MCAgentLoop`) | `LastAnswerCounts` | a process dies between `llm_response` and `finish_run` of the last step: the resumed one does not enter the loop (`runtime.py:300`), and a run that had its final answer ends with `MaxStepsReachedError` (`validate.py:201`: "resume can process this durable response") |
| `MCToolBatchRollbackLost` (`MCToolBatch`) | `RolledBackAlways` | a crash after a write and before a later effect fails: the resumed batch has no preimage and ends with a failure and the write in place (`README.md:479`: "reversible writes are restored") |
| `MCToolBatchTwins` (`MCToolBatch`) | `BodyAtMostOnce` | two identical reads in one batch both find no row and both run (comment at `executer.py:304`) |
| `MCToolBatchRerun` (`MCToolBatch`) | `BodyAtMostOnce` | a crash between a body and its row makes the body run again (`runtime.py:319`: "replayed exactly once") |
| `MCToolBatchRestore` (`MCToolBatch`) | `ResultMatchesRow` | a file that cannot be put back, `runtime.py:724`: the model is told `failed`, the row says `completed` (comment at `run.py:412`) |
| `MCToolBatchRepeated` (`MCToolBatch`) | `ResultAlwaysMatchesRow` | a write, an effect that fails, and the first write again under its id: the third call is skipped and answered from the row of the first (`runtime.py:679`), which says `completed` until the results are collected (`runtime.py:616`). The model is told that the file was written, the file is gone and the row says `failed` (comment at `run.py:412`: "rollback/skip handling can correct the durable outcome") |
| `MCRetryScenarioShared` (`RetryScenario`) | `ScriptMetAlways` | two runs of one task share the counters of S06, and one is answered without the refusals (`server.py:75`: "repeated runs do not consume each other's 429 -> 529 -> 200 sequence") |
| `MCTracedLoopFinal` (`MCTracedLoop`) | `FinalDecisionReplayed` | a crash between `finish_run` and its line: a finished run is never traced again, and the replay has no final decision (`README.md:450`) |
| `MCTracedLoopReplay` (`MCTracedLoop`) | `ReplaySucceeds` | half a line makes the reader raise, `run.py:597`, and the replay tells nothing (`README.md:337`: "replay succeeds without a server") |
| `MCMemoryNewest` (`Memory`) | `NewestKept` | the newest message is given up, though it would fit without the ledger (`message.py:285`: the ledger "gets progressively trimmed if it competes with the hard token budget") |
| `MCMemoryLedger` (`Memory`) | `EarlyUserFirst` | the ledger takes facts in the order of time, so one of an assistant keeps out an early user turn that follows it (`message.py:324`: "Early user turns get priority") |
| `MCMemoryRebuilt` (`Memory`) | `ErrorsTold` | a rebuilt memory shows `null` for a failed call, `message.py:258` (`executer.py:337`: errors "stay inside the conversation as data") |
| `MCResponseParserErrors` (`MCResponseParser`) | `ErrorsReturned` | parse errors never reach the memory; an answer whose calls are all unusable ends the run as completed (`validate.py:266`: "returned as conversation evidence, letting the model recover") |
| `MCResponseParserRepair` (`MCResponseParser`) | `ArgumentsAsSaid` | the repair deletes commas inside strings too, `response.py:107` ("only the narrow trailing-comma case") |
| `MCScenariosChaos` (`MCScenarios`) | `ChaosExitsZero` | every attempt is killed before its first commit: the last resume finds no run, and the harness fails (`README.md:333`: exits 0) |
| `MCSharedRunMail` (`SharedRun`) | `MailBeforeResults` | a process whose `tool_result` was already there does not learn that the conversation is untrusted, `runtime.py:654`, and sends an email (`DECISIONS.md:15`) |
| `MCSharedRunTorn` (`SharedRun`) | `EmailNotTorn` | a process that blocks an email overwrites the completed row of the one that sent it, `runtime.py:757` (comment at `run.py:495`) |
| `MCSharedRunLost` (`SharedRun`) | `EveryCallAnswered` | a process reads the log for recovery before, and for an answer after another one accepts the calls, `runtime.py:332`; when the other one is then killed, they never run (`runtime.py:319`) |

## Fairness

`AgentLoop!Fairness` is weak fairness of `Process`: a live process takes its next
step and a dead one is relaunched. The first is justified by the code: requests
have a bounded number of attempts, tools have timeouts, everything else is local.
A request ends under the assumption that the server does not feed it byte by byte,
since the timeout of `urlopen` is one per socket operation, and that `Retry-After`,
which the code does not cap, is finite. The second is what `run_agent_chaos` does,
whose last resume is uninterrupted, and what the `resume` command is for. Crashes
have no fairness and are bounded by `MaxCrashes`: with crashes forever no run need
end. The choice of the answer is never fair: a model that only repeats itself must
be stopped by the limits.

`ToolBatch!FairSpec` has weak fairness of the main thread and of each pool thread:
threads are scheduled, and a body ends. `ModelClient!Fairness` has weak fairness of
a caller that calls again, of the end of a request, of the end of a sleep and of
the clock; which of its outcomes an attempt meets is free, so `KeepsServing` holds
for a server that never answers. `RetryScenario!Spec` has weak fairness of each run
by itself, none of the kills. `Scenarios!FairScenarioSpec` has weak fairness of
`Progress`, what the harness and its process do, and none of `Kill`.
`SharedRun!FairSpec` has weak fairness of each process: none waits for another.

## Proofs

Assumptions: `ConfigAssumption` (limits are positive naturals), `ModelAssumption`
(the menus are of the declared kinds; no menu need be finite), `BatchAssumption`
(batches are sequences of calls), `NoneAssumption` (the absent entry is none of the
values it stands for), `ClientAssumption` (limits of the client are positive,
`Retry-After` is any integer), `SharedAssumption` (there is a process, and a step).
`BudgetAssumption` and `SizesAssumption` (the memory has a budget, and sizes are
numbers; the live payload of a result has tokens besides the result itself, so that
rendering it again is never longer), `AnswersAssumption` (answers are of the
declared shapes), `ScenarioAssumption` (the menus contain the server's answers; its
task and results fit) and `LimitsAssumption` (there are more steps than the longest
script has and than the no-progress limit and the kills take, and the budget allows
them; the 50 steps and the limit of 3 of `config_agent.yaml` do with the 10 attempts
of `chaos.py`). TLC evaluates them in every run of their modules. The number of
crashes, steps, messages, calls per batch, answers, items per answer, attempts and
processes is arbitrary. Three theorems,
`SpecReversible`, `SpecAllOrNothing` and `SpecResultMatchesRow`, assume in addition
`"restore" \notin Faults`: the operating system lets a file be put back. Without it
the last two are false (`MCToolBatchRestore`); writes that tear are allowed.
`SpecImplementsLoop` assumes the same, and that no batch is empty, which the loop
tests (`runtime.py:318`).

**Inductive invariant** (`AgentLoopProofs`). `TypeOK` is not inductive: that the
row's positions are calls needs the answer they index to be recorded, and that
recovery yields positions needs the accepted steps to have answers.
`IInv == TypeOK /\ CheckpointExplained /\ Place` adds what each place of
`AgentRuntime.run` knows: a step being asked has no answer, a step being parsed has
one and is not accepted, a batch exists only while it is executed. `TypeStep` and
`PlaceStep` have a step per action. Reading the log back (`CostSoFar`,
`LatestCheck`) is a `CHOOSE` of a last step; that one exists (`HasLast`) follows
from the well-foundedness of the naturals.

**Ledger** (`AgentLoopProofs`). Every step behind the current one is
accepted, every accepted step is charged within the budget, nothing is recorded
beyond the current step, and a live process's `cost` is `Spent`. So a relaunched
process reads back the same total (`CostSoFarIsSpent`), and a step over the
budget is the current one. This gives `AskedOncePerStep`, `CostExact`,
`BudgetStopsRun`. `Checked` adds that a batch being started has a check below the
limit, or none, hence `TerminalRepeatNeverStarts`. That "or none" cannot be
removed, as `MCAgentUnchecked` shows. `UncheckedExplained` bounds it and is not
inductive, since an accepted step may lose its check before any of its calls
starts: `LostExplained` counts the accepted steps without a check, except the one
whose check is due, and only a crash adds one. `FrozenStep` and `HonestStep` give
`FinishedFrozen` and `CompletedIsHonest`.

**Outbox and loop** (`AgentLoopProofs`). `Mailroom` says that an email is in
the outbox exactly when its row is completed, that a live process knows whether
the conversation is untrusted, and that only writes are ever put back; under
it every step is `Send`, `Refuse`, `Taint` or a stutter of `EmailOutbox`.
`Tracked` follows which calls of the batch have been started and answered; a
recovered batch leaves out exactly the calls that have an answer, whose starts
are therefore recorded. This gives `EveryCallAnswered` and
`StartsPrecedeResults`.

**Batch** (`ToolBatchProofs`). `Base` is the type invariant with what each place of
the main thread and of a pool thread knows. Five invariants build on it. `Claims`:
a thread that found no row still finds none when it records, unless a twin races
with it, which is `RecordedNeverRerun`. `Progress`: starts and results grow call
by call, which is `NothingLost`. `FailuresSeen`: as long as `ordered_results` holds
no failure, no row of the batch does, a predecessor's included. `Mailroom`: an email
is in the outbox exactly when its row is completed, and the flag is that of the
events; under it every step is one of `EmailOutbox` or a stutter. `Sends`: an email
waits for all reads, and nothing is put back after one was sent unless a later
email was refused, which is `SendsFollowSuccess`.

**Files** (`ToolBatchProofs`). Neither `AllOrNothing` nor `ResultMatchesRow` is
inductive: the first speaks of the end of the batch only, the second of results
whose rows are still to be corrected. `Reversible` speaks of every moment: a path
without a preimage holds what rolling back may leave (`Allowed`: the file as it
was or as a `run_python` of the batch left it, a torn one or, after a crash, a
write of the batch), and so does the oldest
preimage of every other path, because `UndoWrite` goes from the newest to the
oldest. `InOrder` says that, while no effect was refused, writes are completed in
the order of the batch, so that at its end the last one to a path decides. That
no `run_python` changes the file afterwards is `EffectsWait`: once a write has its
row every read of the batch has one, hence none runs any more, in this process or
in one that repeats the batch.
`Together` says that repetitions of a write are put back with it, `Answers` that
no result is recorded of a write that may still be put back, and `Agreement` adds
to `ResultMatchesRow` that `ordered_results` agrees with the rows, but for the
writes just restored. The proofs found two cases outside the bounds of the earlier
runs, both with a write repeated in one batch: `AllOrNothing` has to speak of its
first occurrence, and the result of a later one may be `Outdated`. `batch_crash`
has such a batch now.

**Batch and loop** (`ToolBatchProofs`). `SpecImplementsLoop` has a step per action:
`LoopStep` shows that it is one of `LoopBatch`, with the same call, or that the loop
sees nothing of it (`Unseen`). `KeysMap`, `CallsMap` and `RowsMap` translate calls and
the table of executions, `StaysMapped` what an action leaves alone. The hard step is
an effect that fails: the loop rolls back there and then what `Written` says was
written, `ToolBatch` later what has a preimage. `Fresh` says that these are the same
calls as long as nothing has failed, repetitions of a write included. Which files
cannot be put back shows only while rolling back, after the step in which the loop
decides it; a mapping would have to look ahead, so these failures are left out here.

**Client** (`ModelClientProofs`). `LoadBounded` is not inductive: it says nothing of
the calls still to come. `Accounted` adds that the requests sent so far are at most
those of `breaker.failures` failed calls and of the attempts of the current one, so
that what the breaker still lets through fits below the product. `AttemptLeft` says
that a sleep is followed by an attempt. `OpenMeansQuiet` is part of the
invariant: with it an open breaker has no attempt left to count.
`NextIInv` has a step per action. `RetriesFaithful` follows from `Recorded`: each
recorded delay is the server's or one that `_retry_delay` may compute for its
attempt. That the backoff grows in spite of the jitter (`DelaysGrow`) needs
`2^m < 2^n` for `m < n`. The library states induction with an operator as parameter,
which the provers cannot instantiate; `PowersGrow` gets the fact from the
cardinalities of power sets instead, and `MemoryProofs` its inductions from the least
element of a set of naturals (`Least`, `Induction`).

**S06** (`RetryScenarioProofs`). `ScriptMetApart` looks at calls that have been answered.
`Served` speaks of every place of a call: the server's counter for a run's task and
step equals the retries the client has recorded, is one more while an answer is
under way, and is zero for the steps not yet asked for. `ClientA` and `ClientB` say
what a client's actions do to its call, so that the steps are proved once for both
runs (`OfEither`); a step of one leaves the counters of the other alone because
their keys differ in the task (`Unmoved`). No limit of the client is assumed: a
client that may not try three times ends with an error instead.

**Trace** (`ExtendedLoopProofs`). Every step of `TracedLoop` is one of `AgentLoop`, a
stutter, or a death after the last commit that `AgentLoop` does not count
(`TracedStep`), so `LInv` holds beside the trace (`TracedLInv`). `LogOnlyGrows` says
that no event is ever taken back: what was committed stays in the tables and is
committed once (`CommittedOnce`). `InCommitOrder` says that the lines are those of
earlier commits and the one to come is that of the last; `TraceFollowsLog`
follows. `LossExplained` is not inductive because of the line after a half one,
which is lost when it is written, not when the process dies; `Balance` counts it as
lost from the start (`Torn`).

**Memory** (`MemoryProofs`). The messages of a window are in the order of `Rank`
(`Sorted`): preamble, ledger, summary, then events as they happened; so a message
has one place, and what compaction does can be said of sets of messages. `Shrinks`
is what it may do to a window: take messages away that may be given up, and put one
summary in their place. From the order of its steps follows which ones it takes
(`OldestFirst`). `UpTo` says that a window has no gaps up to an event, which is
`NoGaps`; `LastingFits` that what is never given up fits by itself. With these the
loop of `get_compacted_context` either ends with a context that fits or raises when
the task and the preamble alone do not, which is `ContextSound` and
`RaisesOnlyWhenHopeless`. `MemoryInv` has a conjunct per condition of the process:
`Running`, `Stopped`, and `InFront` for one that rebuilds. `Resumable` is about a
future that may not come, so the invariant speaks of rebuilding as of a function:
`RebuiltTo` is a window after `n` events of a log. A rebuilt message is never larger
than the live one was, hence every event the live window took fits by itself, and
each turn of a rebuilding finds a window that has room for it.

**Parser** (`ResponseParserProofs`). `NothingSwallowed` counts: the calls and
errors of an answer account for its items. Neither says so while the loop is under
way, so `ParsedInv` speaks of the items `Seen`: `CallsTold` and `ErrorsTold` count
the usable and the bad ones among them as cardinalities, `IdsTold` says where an
id comes from. `RecordedOnce` needs to know what an earlier process wrote. Parsing
reads nothing but the answer, so that is a prefix of what this process is going to
write (`Written`); `Unknown` and `Known` say which prefix, before and after the text
and each error is looked at.

**Scenarios** (`ExtendedLoopProofs`). A behaviour of the harness is one of
`AgentLoop` (`SpecIsRun`), so everything proved of the loop holds of it. `Scripted`
says that what is recorded is what the server answers to this scenario and step.
`Played` relates it to the end: `Outcomes` which calls can have which rows (a read
has none that failed unless its call names a reason) and that a result says what
its row does, `FirstStepTold` that a run past its first step has a result for each
call of that step, which are the two of S10 (`BothTold`), `Mail`
that the one email of S09 is neither refused nor repeated, `Checks` that the checks
of S04 count up without a hole other than what a kill tore, `Ends` which reason
each scenario can end with. That the step limit is not one of them is
`StepsSuffice`: each step S04 takes is checked, or its check was lost with a kill
(`SpecLostExplained` of the loop), so the limit on repetition is met first.
`Harnessed` says which launches are still to come and that only the last one is
spared; `Tallied` adds the failures counted so far.

**Shared run** (`SharedRunProofs`). `EndsFinished` is inductive with the shape of the
locals (`Threads`): once all processes are through none acts, and the step with
which the last one gets through leaves a finished row (`LeavesFinished`), whether
it finished the run itself or found it so.

Proved, then, for every value of the constants: all invariants and action properties
of the passing runs, the two refinements of `EmailOutbox` and the one between the
two models of a batch. Only model-checked are
`Termination`, `BatchCompletes`, `KeepsServing`, `BothFinish`, `HarnessEnds` and
`AllEnd`: liveness under fairness is out of the prover's reach. The runs that
expect a violation, and the other configurations of the table above, are TLC's as
well.

## Not modelled, and why

* `run_python` code that deletes files or changes several: a call has one target,
  which it may write. Nor a child of `run_python` that outlives an agent ended with
  `SIGKILL`, and writes while the next process is already at work.
* Tool sandboxing, subprocess limits, HTTP parsing, the tokenizer, YAML, argument
  parsing: input and output without state the properties depend on.
* `run_chaos`, the generic mode of the harness: it kills a command it knows nothing
  about.
* Trace lines about retries and parse errors, the wording of replayed lines.
* `run_states`, the DTO methods of the store and `send_email_once`: nothing in the
  loop reads or calls them.
* The evaluation suite: test drivers; what they expect of a scenario is
  `OutcomeAsExpected`.
* Two processes with batches of several calls, or with limits on repetition and
  cost: `SharedRun` has one call per answer, which is where its interleavings are.

## Plan

The refinement of `LoopBatch` with files that cannot be put back, which takes a
prophecy of the faults to come; and the memory, the client and the parser as the
steps of `AgentLoop` that stand for them, as `BatchPhase` does for the batch.
