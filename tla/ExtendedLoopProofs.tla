------------------------- MODULE ExtendedLoopProofs -------------------------
(***************************************************************************)
(* The run of AgentLoop with its trace, and the run the chaos harness plays a*)
(* scenario with.  The trace follows the log, and what it misses is accounted*)
(* for; a scenario ends as it should wherever its processes are killed.    *)
(***************************************************************************)
EXTENDS TracedLoop, Scenarios, AgentLoopProofs

(***************************************************************************)
(* The inductive invariant.                                                *)
(***************************************************************************)
LoopTypes ==
  {"llm_request", "llm_response", "assistant_message", "budget_charged",
   "tool_calls_parsed", "progress_check", "tool_execution_started", "tool_result",
   "run_finished"}
NoteTypes == {"step_start", "partial_tool_turn", "model_contradiction", "step_limit"}

LoopEvents ==
  [type : LoopTypes, step : 0 .. MaxSteps, call : {NoCall} \cup (Nat \X Keys)]
NoteEvents == [type : NoteTypes, step : 0 .. MaxSteps, call : {NoCall}]
RunStarted == Event("run_started", 0)
TracedEvents == LoopEvents \cup NoteEvents \cup {RunStarted}

\* The types of what TracedLoop adds.
TracedTypeOK ==
  /\ notes \subseteq NoteEvents
  /\ commits \in Seq(TracedEvents)
  /\ trace \in Seq([event : TracedEvents, whole : BOOLEAN])
  /\ \/ doing = Nothing
     \/ \E e \in NoteEvents : doing = Commit(e)
     \/ \E e \in TracedEvents : doing = Line(e)

\* Before the run is created nothing is committed, noted or traced.
NothingYet ==
  run.status = "NONE" =>
    commits = <<>> /\ trace = <<>> /\ notes = {} /\ doing = Nothing

\* What was committed is in the tables, and was committed once.
CommittedOnce ==
  /\ \A i \in DOMAIN commits :
       commits[i] \in Events(log) \cup notes \cup {RunStarted}
  /\ \A i, j \in DOMAIN commits : commits[i] = commits[j] => i = j

\* One when a line is about to be written.
Coming == IF doing.stage = "line" THEN 1 ELSE 0

\* The line to come is that of the last commit; the lines in the file are those
\* of earlier ones, in their order.
InCommitOrder ==
  /\ doing.stage = "line" => commits # <<>> /\ doing.event = commits[Len(commits)]
  /\ \A i \in DOMAIN trace :
       \E p \in 1 .. Len(commits) - Coming : commits[p] = trace[i].event
  /\ \A i, j \in DOMAIN trace : \A p, q \in DOMAIN commits :
       i < j /\ commits[p] = trace[i].event /\ commits[q] = trace[j].event => p < q

TraceInv == TracedTypeOK /\ NothingYet /\ CommittedOnce /\ InCommitOrder

\* A text that is recorded belongs to a recorded answer.
TextsAnswered == \A s \in log.messages : HasResponse(s)

ReadLines == {i \in DOMAIN trace : Readable(i)}
HalfLines == {i \in DOMAIN trace : ~trace[i].whole}
RefusedTexts == {s \in log.messages : log.responses[s].text = "over"}

\* One when the file ends in half a line: the line to follow is lost already.
Torn == IF trace # <<>> /\ ~trace[Len(trace)].whole THEN 1 ELSE 0

\* Every commit without a readable line is accounted for.
Balance ==
  Len(commits) - Cardinality(ReadLines) - Coming + Torn
    <= crashes + Cardinality(HalfLines) + Refused

(***************************************************************************)
(* What the steps of AgentLoop do to the log.                              *)
(***************************************************************************)

\* No event is ever taken back, and no row either.
LogGrows ==
  /\ log.requests \subseteq log'.requests
  /\ log.messages \subseteq log'.messages
  /\ log.parsed \subseteq log'.parsed
  /\ log.starts \subseteq log'.starts
  /\ log.results \subseteq log'.results
  /\ \A s \in Steps :
       /\ log.responses[s] # None => log'.responses[s] = log.responses[s]
       /\ log.charges[s] # None => log'.charges[s] # None
       /\ log.checks[s] # 0 => log'.checks[s] # 0
  /\ log.finished # None => log'.finished = log.finished
  /\ run.status # "NONE" => run'.status # "NONE"
  /\ RecordText \/ log'.messages = log.messages
  /\ task' = task

\* append_event is the only statement that touches table events.
LEMMA LogOnlyGrows ==
  ASSUME IInv, Next
  PROVE  LogGrows
<1> USE DEF tables, volatile, vars, step, pending
<1>0. TypeOK /\ Place
  BY DEF IInv
<1>1. ASSUME log' = log, run.status # "NONE" => run'.status # "NONE", task' = task
      PROVE  LogGrows
  BY <1>1 DEF LogGrows
<1>2. CASE Create \/ Resume \/ ResumeFails \/ ResumeFinished \/ Crash
  BY <1>0, <1>1, <1>2 DEF Create, Resume, ResumeFails, ResumeFinished, Crash,
                          TypeOK, RunRow
<1>3. CASE StopRecordedNoProgress \/ BeginTools \/ RecoverPending
             \/ ResumeResponse \/ BeginStep
  BY <1>0, <1>1, <1>3 DEF StopRecordedNoProgress, BeginTools, RecoverPending,
                     ResumeResponse, BeginStep, TypeOK, RunRow
<1>4. CASE ContextTooLarge \/ LLMFails \/ RejectPartial \/ RejectContradiction
  BY <1>1, <1>4 DEF ContextTooLarge, LLMFails, RejectPartial, RejectContradiction
<1>5. CASE SendRequest
  BY <1>0, <1>5 DEF SendRequest, LogGrows, TypeOK, Log
<1>6. ASSUME NEW r \in Responses, LLMAnswers(r)
      PROVE  LogGrows
  BY <1>0, <1>6 DEF LLMAnswers, LogGrows, HasResponse, TypeOK, Log
<1>7. CASE RecordText
  BY <1>0, <1>7 DEF RecordText, Raise, LogGrows, TypeOK, Log
<1>8. CASE ChargeBudget
  <2>1. PICK total :
          /\ log' = [log EXCEPT !.charges = [@ EXCEPT ![step] = total]]
          /\ total = IF log.charges[step] # None THEN log.charges[step]
                     ELSE cost + Answer.cost
    BY <1>8 DEF ChargeBudget
  <2>2. step \in Steps
    BY <1>0, <1>8 DEF ChargeBudget, Place
  <2>3. log.charges[step] # None => log'.charges[step] # None
    BY <1>0, <2>1, <2>2 DEF TypeOK, Log
  <2>4. \A s \in Steps \ {step} : log'.charges[s] = log.charges[s]
    BY <1>0, <2>1 DEF TypeOK, Log
  <2>5. run' = run /\ task' = task
    BY <1>8 DEF ChargeBudget
  <2>6. /\ log'.requests = log.requests /\ log'.messages = log.messages
        /\ log'.parsed = log.parsed /\ log'.starts = log.starts
        /\ log'.results = log.results /\ log'.responses = log.responses
        /\ log'.checks = log.checks /\ log'.finished = log.finished
    BY <1>0, <2>1 DEF TypeOK, Log
  <2> QED
    BY <2>3, <2>4, <2>5, <2>6 DEF LogGrows
<1>9. CASE ParseCalls
  BY <1>0, <1>9 DEF ParseCalls, LogGrows, TypeOK, Log, RunRow
<1>10. CASE CheckProgress
  <2>1. RepeatCount # 0
    BY <1>0, RepeatCountType
  <2>2. /\ log' = [log EXCEPT !.checks = [@ EXCEPT ![step] = RepeatCount]]
        /\ run' = run /\ task' = task
    BY <1>10 DEF CheckProgress
  <2> QED
    BY <1>0, <2>1, <2>2 DEF LogGrows, TypeOK, Log
<1>11. ASSUME NEW why, FinishRun(why)
       PROVE  LogGrows
  BY <1>0, <1>11 DEF FinishRun, LogGrows, TypeOK, Log
<1>12. CASE StepLimit \/ Complete \/ FinishFailed
  BY <1>11, <1>12 DEF StepLimit, Complete, FinishFailed
<1>13. ASSUME NEW i \in pending, StartCall(i)
       PROVE  LogGrows
  BY <1>0, <1>13 DEF StartCall, LogGrows, TypeOK, Log
<1>14. CASE LookUpRows
  BY <1>1, <1>14 DEF LookUpRows
<1>15. ASSUME NEW i \in pending,
              RunRead(i) \/ RunWrite(i) \/ RunEmail(i) \/ MarkRolledBack(i)
       PROVE  LogGrows
  <2>1. log' = log /\ run' = run /\ task' = task
    BY <1>15 DEF RunRead, RunWrite, RunEmail, Running, MarkRolledBack
  <2> QED
    BY <1>1, <2>1
<1>16. ASSUME NEW i \in pending, RecordResult(i)
       PROVE  LogGrows
  <2>1. /\ run' = run /\ task' = task
        /\ log' = log \/ \E e : log' = [log EXCEPT !.results = @ \cup {e}]
    BY <1>16 DEF RecordResult
  <2> QED
    BY <1>0, <1>1, <2>1 DEF LogGrows, TypeOK, Log
<1>17. CASE ToolsDone
  BY <1>0, <1>1, <1>17 DEF ToolsDone, TypeOK, RunRow
<1> QED
  BY <1>2, <1>3, <1>4, <1>5, <1>6, <1>7, <1>8, <1>9, <1>10, <1>12, <1>13, <1>14,
     <1>15, <1>16, <1>17
  DEF Next, Process, LoopHead, ModelTurn, BatchStep

\* So no event disappears.
LEMMA EventsGrow ==
  ASSUME IInv, LogGrows
  PROVE  Events(log) \subseteq Events(log')
BY DEF Events, LogGrows

\* The events of a log have a step and, those of a call, its index and key.
LEMMA EventsType ==
  ASSUME NEW l \in Log
  PROVE  Events(l) \subseteq LoopEvents
<1> SUFFICES ASSUME NEW e \in Events(l)
             PROVE  e \in LoopEvents
  OBVIOUS
<1>1. Steps \subseteq 0 .. MaxSteps
  BY ConfigAssumption DEF Steps
<1>2. \A type \in LoopTypes, s \in 0 .. MaxSteps : Event(type, s) \in LoopEvents
  BY DEF Event, LoopEvents
<1>3. \A type \in LoopTypes, c \in l.starts \cup l.results :
        CallEvent(type, c) \in LoopEvents
  BY <1>1 DEF CallEvent, LoopEvents, Log, Start, Result
<1>4. CASE \E type \in LoopTypes, s \in 0 .. MaxSteps : e = Event(type, s)
  BY <1>2, <1>4
<1>5. CASE \E type \in LoopTypes, c \in l.starts \cup l.results :
             e = CallEvent(type, c)
  BY <1>3, <1>5
<1>6. l.requests \subseteq Steps /\ l.messages \subseteq Steps /\ l.parsed \subseteq Steps
  BY DEF Log
<1> QED
  BY <1>1, <1>4, <1>5, <1>6 DEF Events, LoopTypes

(***************************************************************************)
(* The steps of TracedLoop.                                                *)
(***************************************************************************)

\* A process that was killed after its last commit: no step of AgentLoop.
DieAtTheEnd ==
  /\ pc = "down"
  /\ crashes < MaxCrashes
  /\ crashes' = crashes + 1
  /\ UNCHANGED <<task, tables, pc, volatile>>

\* The traced process does what that of AgentLoop does; only a death after the
\* run finished is one that AgentLoop does not count.
LEMMA TracedStep ==
  ASSUME TracedNext
  PROVE  Next \/ DieAtTheEnd \/ UNCHANGED vars
<1>1. CASE LoopTraced
  BY <1>1 DEF LoopTraced, CreateTraced, Next, Process, LoopHead, ModelTurn
<1>2. CASE NoteStepLimit \/ CommitNote \/ WriteLine
  BY <1>2 DEF NoteStepLimit, CommitNote, WriteLine
<1>3. CASE Die
  BY <1>3 DEF Die, DieAtTheEnd, Next
<1>4. CASE Idle
  BY <1>4 DEF Idle, Next
<1> QED
  BY <1>1, <1>2, <1>3, <1>4 DEF TracedNext, TracedProcess

\* What is proved of AgentLoop holds beside the trace.
LEMMA TracedLInv == TracedSpec => []LInv
<1>1. Init => LInv
  BY InitIInv, InitLedger DEF LInv
<1>2. LInv /\ Next => LInv'
  BY TypeStep, PlaceStep, LedgerStep DEF LInv, IInv
<1>3. LInv /\ DieAtTheEnd => LInv'
  <2>1. SUFFICES ASSUME LInv, DieAtTheEnd
                 PROVE  LInv'
    OBVIOUS
  <2>2. TypeOK'
    BY <2>1, ConfigAssumption
    DEF DieAtTheEnd, LInv, IInv, TypeOK, Batch, pending, tables, volatile
  <2>3. CheckpointExplained'
    BY <2>1 DEF DieAtTheEnd, LInv, IInv, CheckpointExplained, CallsAt, pending, step,
                tables, volatile
  <2>4. Place'
    BY <2>1 DEF DieAtTheEnd, LInv, IInv, Place, HasResponse, pending, step,
                tables, volatile
  <2>5. Ledger'
    BY <2>1 DEF DieAtTheEnd, LInv, Ledger, HasResponse, Spent, step, tables, volatile
  <2> QED
    BY <2>2, <2>3, <2>4, <2>5 DEF LInv, IInv
<1>4. LInv /\ UNCHANGED vars => LInv'
  BY StutterIInv DEF LInv, vars, Ledger, HasResponse, Spent, step
<1>5. LInv /\ [TracedNext]_tracedVars => LInv'
  BY <1>2, <1>3, <1>4, TracedStep DEF tracedVars
<1> QED
  BY <1>1, <1>5, PTL DEF TracedSpec, TracedInit

\* A step of the loop creates the run, notes something, or inserts at most one
\* event, whose line follows; only the first of them finds no run.
LEMMA LoopCases ==
  ASSUME IInv, LoopTraced
  PROVE  /\ doing = Nothing
         /\ Next
         /\ \/ CreateTraced
            \/ /\ run.status # "NONE"
               /\ \E type \in NoteTypes : Note(type)
            \/ run.status # "NONE" /\ Follow
<1> USE DEF step, pending
<1>0. Place
  BY DEF IInv
<1>1. Next /\ doing = Nothing
  BY DEF LoopTraced, CreateTraced, Next, Process, LoopHead, ModelTurn
<1>2. pc # "down" => run.status # "NONE"
  BY <1>0 DEF Place
<1>3. CASE CreateTraced
  BY <1>1, <1>3
<1>4. CASE \/ BeginStep /\ Note("step_start")
           \/ RejectPartial /\ Note("partial_tool_turn")
           \/ RejectContradiction /\ Note("model_contradiction")
  <2>1. pc # "down"
    BY <1>4 DEF BeginStep, NothingPending, AtTop, RejectPartial, RejectContradiction
  <2> QED
    BY <1>1, <1>2, <1>4, <2>1 DEF NoteTypes
<1>5. CASE Follow /\ (StepLimit \/ StopRecordedNoProgress \/ BeginTools
                        \/ RecoverPending \/ ResumeResponse)
  <2>1. pc # "down"
    BY <1>5 DEF StepLimit, StopRecordedNoProgress, BeginTools, RecoverPending,
                ResumeResponse, NothingPending, AtTop
  <2> QED
    BY <1>1, <1>2, <1>5, <2>1
<1>6. CASE Follow /\ (ContextTooLarge \/ SendRequest \/ LLMFails
                        \/ (\E r \in Responses : LLMAnswers(r))
                        \/ RecordText \/ ChargeBudget \/ Complete \/ ParseCalls
                        \/ CheckProgress \/ FinishFailed)
  <2>1. pc # "down"
    BY <1>6 DEF ContextTooLarge, SendRequest, LLMFails, LLMAnswers, RecordText,
                ChargeBudget, Complete, ParseCalls, CheckProgress, FinishFailed
  <2> QED
    BY <1>1, <1>2, <1>6, <2>1
<1>7. CASE Follow /\ BatchStep
  <2>1. pc # "down"
    BY <1>7 DEF BatchStep, StartCall, LookUpRows, Running, RunRead, RunWrite,
                RunEmail, Collecting, MarkRolledBack, RecordResult, ToolsDone
  <2> QED
    BY <1>1, <1>2, <1>7, <2>1
<1>8. CASE Follow /\ Resume
  BY <1>1, <1>8 DEF Resume, Unfinished
<1> QED
  BY <1>3, <1>4, <1>5, <1>6, <1>7, <1>8 DEF LoopTraced

(***************************************************************************)
(* The trace follows the log.                                              *)
(***************************************************************************)

\* A new event is appended to the commits, and its line comes next or never.
LEMMA CommitKeepsOrder ==
  ASSUME TraceInv, IInv, doing.stage # "line", NEW e \in TracedEvents,
         \A i \in DOMAIN commits : commits[i] # e,
         commits' = Append(commits, e), trace' = trace,
         doing' = Nothing \/ doing' = Line(e),
         notes' \subseteq NoteEvents,
         Events(log) \subseteq Events(log'), notes \subseteq notes',
         e \in Events(log') \cup notes' \cup {RunStarted}
  PROVE  TracedTypeOK' /\ CommittedOnce' /\ InCommitOrder'
<1>1. /\ commits \in Seq(TracedEvents) /\ Len(commits) \in Nat
      /\ commits' \in Seq(TracedEvents)
      /\ Len(commits') = Len(commits) + 1
      /\ commits'[Len(commits) + 1] = e
      /\ \A i \in 1 .. Len(commits) : commits'[i] = commits[i]
      /\ DOMAIN commits = 1 .. Len(commits)
      /\ DOMAIN commits' = 1 .. Len(commits) + 1
  BY DEF TraceInv, TracedTypeOK
<1>2. TracedTypeOK'
  BY <1>1 DEF TraceInv, TracedTypeOK
<1>3. CommittedOnce'
  BY <1>1 DEF TraceInv, CommittedOnce
<1>4. Coming = 0 /\ Coming' \in {0, 1}
  BY DEF Coming
<1>5. doing'.stage = "line" => commits' # <<>> /\ doing'.event = commits'[Len(commits')]
  BY <1>1 DEF Nothing, Line
<1>6. \A i \in DOMAIN trace' :
        \E p \in 1 .. Len(commits') - Coming' : commits'[p] = trace'[i].event
  <2>1. SUFFICES ASSUME NEW i \in DOMAIN trace
                 PROVE  \E p \in 1 .. Len(commits') - Coming' :
                          commits'[p] = trace[i].event
    OBVIOUS
  <2>2. PICK p \in 1 .. Len(commits) : commits[p] = trace[i].event
    BY <1>1, <1>4 DEF TraceInv, InCommitOrder
  <2> QED
    BY <1>1, <1>4, <2>2
<1>7. ASSUME NEW i \in DOMAIN trace', NEW j \in DOMAIN trace',
             NEW p \in DOMAIN commits', NEW q \in DOMAIN commits',
             i < j, commits'[p] = trace'[i].event, commits'[q] = trace'[j].event
      PROVE  p < q
  <2>1. PICK x \in 1 .. Len(commits) : commits[x] = trace[i].event
    BY <1>1, <1>4 DEF TraceInv, InCommitOrder
  <2>2. PICK y \in 1 .. Len(commits) : commits[y] = trace[j].event
    BY <1>1, <1>4 DEF TraceInv, InCommitOrder
  <2>3. x < y
    BY <1>1, <1>7, <2>1, <2>2 DEF TraceInv, InCommitOrder
  <2>4. p = x /\ q = y
    BY <1>1, <1>3, <1>7, <2>1, <2>2 DEF CommittedOnce
  <2> QED
    BY <2>3, <2>4
<1> QED
  BY <1>2, <1>3, <1>5, <1>6, <1>7 DEF InCommitOrder

\* A whole or a half line of the last commit is appended to the file.
LEMMA LineKeepsOrder ==
  ASSUME TraceInv, doing.stage = "line", NEW whole \in BOOLEAN,
         trace' = TraceWith(whole), commits' = commits, doing' = Nothing
  PROVE  InCommitOrder' /\ trace' \in Seq([event : TracedEvents, whole : BOOLEAN])
<1>1. /\ commits \in Seq(TracedEvents) /\ Len(commits) \in Nat /\ Len(commits) > 0
      /\ DOMAIN commits = 1 .. Len(commits)
      /\ doing.event = commits[Len(commits)]
  BY DEF TraceInv, TracedTypeOK, InCommitOrder
<1>2. doing.event \in TracedEvents
  BY <1>1
<1> DEFINE line == [event |-> doing.event, whole |-> whole]
<1>3. line \in [event : TracedEvents, whole : BOOLEAN] /\ line.event = doing.event
  BY <1>2
<1> HIDE DEF line
<1>4. /\ trace \in Seq([event : TracedEvents, whole : BOOLEAN])
      /\ trace' = Append(trace, line)
  BY DEF TraceInv, TracedTypeOK, TraceWith, line
<1>5. /\ trace' \in Seq([event : TracedEvents, whole : BOOLEAN])
      /\ Len(trace) \in Nat
      /\ DOMAIN trace = 1 .. Len(trace) /\ DOMAIN trace' = 1 .. Len(trace) + 1
      /\ trace'[Len(trace) + 1] = line
      /\ \A i \in 1 .. Len(trace) : trace'[i] = trace[i]
  BY <1>3, <1>4
<1>6. Coming = 1 /\ Coming' = 0 /\ doing'.stage # "line"
  BY DEF Coming, Nothing
<1>7. \A i \in DOMAIN trace' :
        \E p \in 1 .. Len(commits') - Coming' : commits'[p] = trace'[i].event
  <2>1. SUFFICES ASSUME NEW i \in DOMAIN trace'
                 PROVE  \E p \in 1 .. Len(commits) : commits[p] = trace'[i].event
    BY <1>1, <1>6
  <2>2. CASE i \in DOMAIN trace
    <3>1. PICK p \in 1 .. Len(commits) - 1 : commits[p] = trace[i].event
      BY <1>6, <2>2 DEF TraceInv, InCommitOrder
    <3> QED
      BY <1>1, <1>5, <2>2, <3>1
  <2>3. CASE i = Len(trace) + 1
    BY <1>1, <1>3, <1>5, <2>3
  <2> QED
    BY <1>5, <2>2, <2>3
<1>8. ASSUME NEW i \in DOMAIN trace', NEW j \in DOMAIN trace',
             NEW p \in DOMAIN commits, NEW q \in DOMAIN commits,
             i < j, commits[p] = trace'[i].event, commits[q] = trace'[j].event
      PROVE  p < q
  <2>1. i \in DOMAIN trace
    BY <1>5, <1>8
  <2>2. CASE j \in DOMAIN trace
    BY <1>5, <1>8, <2>1, <2>2 DEF TraceInv, InCommitOrder
  <2>3. CASE j = Len(trace) + 1
    <3>1. q = Len(commits)
      BY <1>1, <1>3, <1>5, <1>8, <2>3 DEF TraceInv, CommittedOnce
    <3>2. PICK x \in 1 .. Len(commits) - 1 : commits[x] = trace[i].event
      BY <1>6, <2>1 DEF TraceInv, InCommitOrder
    <3>3. p = x
      BY <1>1, <1>5, <1>8, <2>1, <3>2 DEF TraceInv, CommittedOnce
    <3> QED
      BY <1>1, <3>1, <3>2, <3>3
  <2> QED
    BY <1>5, <2>2, <2>3
<1> QED
  BY <1>5, <1>6, <1>7, <1>8 DEF InCommitOrder

\* Forgetting what was about to be done changes nothing that was done.
LEMMA NothingKeepsOrder ==
  ASSUME TraceInv, trace' = trace, commits' = commits,
         doing'.stage # "line"
  PROVE  InCommitOrder'
<1>1. Coming' = 0 /\ Coming \in {0, 1}
  BY DEF Coming
<1>2. Len(commits) \in Nat
  BY DEF TraceInv, TracedTypeOK
<1> QED
  BY <1>1, <1>2 DEF TraceInv, InCommitOrder

\* What is committed is committed, however the log and the notes grow.
LEMMA StillCommitted ==
  ASSUME TraceInv, Events(log) \subseteq Events(log'), notes' = notes,
         commits' = commits
  PROVE  CommittedOnce'
BY DEF TraceInv, CommittedOnce

\* The invariant depends on the variables only.
LEMMA StutterTrace ==
  ASSUME TraceInv, UNCHANGED tracedVars
  PROVE  TraceInv'
<1>1. UNCHANGED <<run, log, notes, doing, trace, commits>>
  BY DEF tracedVars, vars, traced
<1> QED
  BY <1>1 DEF TraceInv, TracedTypeOK, NothingYet, CommittedOnce, InCommitOrder, Coming,
              Events

\* Every step preserves the order of the trace.
LEMMA TraceStep ==
  ASSUME LInv, TraceInv, TracedNext, TypeOK'
  PROVE  TraceInv'
<1> USE DEF step
<1>0. IInv /\ TypeOK /\ TracedTypeOK
  BY DEF LInv, IInv, TraceInv
<1>1. Next => Events(log) \subseteq Events(log')
  BY <1>0, LogOnlyGrows, EventsGrow
<1>2. Events(log) \subseteq LoopEvents
  BY <1>0, EventsType DEF TypeOK
<1>3. Events(log') \subseteq LoopEvents
  BY EventsType DEF TypeOK
<1>4. LoopEvents \cap NoteEvents = {} /\ RunStarted \notin LoopEvents \cup NoteEvents
  BY DEF LoopEvents, NoteEvents, RunStarted, Event, LoopTypes, NoteTypes
<1>5. run.status # "NONE" /\ Next => run'.status # "NONE"
  BY <1>0, LogOnlyGrows DEF LogGrows
<1>6. CASE LoopTraced /\ CreateTraced
  <2>1. /\ run.status = "NONE" /\ log' = log /\ run'.status # "NONE"
    BY <1>0, <1>6 DEF CreateTraced, Create, TypeOK, RunRow
  <2>2. /\ commits = <<>> /\ commits' = Append(commits, RunStarted)
        /\ trace' = trace /\ notes' = notes
        /\ doing.stage # "line" /\ (doing' = Nothing \/ doing' = Line(RunStarted))
    BY <1>6, <2>1 DEF CreateTraced, TraceInv, NothingYet, RunStarted, Nothing
  <2>3. TracedTypeOK' /\ CommittedOnce' /\ InCommitOrder'
    BY <1>0, <2>1, <2>2, CommitKeepsOrder DEF TracedEvents, TracedTypeOK
  <2> QED
    BY <2>1, <2>3 DEF TraceInv, NothingYet
<1>7. ASSUME LoopTraced, run.status # "NONE", NEW type \in NoteTypes, Note(type)
      PROVE  TraceInv'
  <2>1. Next /\ doing = Nothing
    BY <1>0, <1>7, LoopCases
  <2>2. /\ doing' = Commit(Event(type, run'.step))
        /\ notes' = notes /\ trace' = trace /\ commits' = commits
    BY <1>7 DEF Note
  <2>3. Event(type, run'.step) \in NoteEvents
    BY <1>0 DEF NoteEvents, Event, TypeOK, RunRow
  <2>4. TracedTypeOK'
    BY <1>0, <2>2, <2>3 DEF TracedTypeOK
  <2>5. CommittedOnce'
    BY <1>1, <2>1, <2>2, StillCommitted
  <2>6. InCommitOrder'
    BY <2>2, NothingKeepsOrder DEF Commit
  <2> QED
    BY <1>5, <1>7, <2>1, <2>4, <2>5, <2>6 DEF TraceInv, NothingYet
<1>8. CASE LoopTraced /\ run.status # "NONE" /\ Follow
  <2>1. Next /\ doing = Nothing
    BY <1>0, <1>8, LoopCases
  <2>2. CASE Inserted = {}
    <3>1. /\ doing' = Nothing /\ notes' = notes /\ trace' = trace
          /\ commits' = commits
      BY <1>8, <2>2 DEF Follow
    <3>2. TracedTypeOK'
      BY <1>0, <3>1 DEF TracedTypeOK
    <3>3. CommittedOnce'
      BY <1>1, <2>1, <3>1, StillCommitted
    <3>4. InCommitOrder'
      BY <3>1, NothingKeepsOrder DEF Nothing
    <3> QED
      BY <1>5, <1>8, <2>1, <3>2, <3>3, <3>4 DEF TraceInv, NothingYet
  <2>3. CASE Inserted # {}
    <3>1. PICK e \in Inserted :
            /\ commits' = Append(commits, e)
            /\ doing' = Nothing \/ doing' = Line(e)
            /\ notes' = notes /\ trace' = trace
      BY <1>8, <2>3 DEF Follow
    <3>2. e \in LoopEvents /\ e \notin Events(log) /\ e \in Events(log')
      BY <1>2, <1>3 DEF Inserted
    <3>3. \A i \in DOMAIN commits : commits[i] # e
      BY <1>0, <1>4, <3>2 DEF TraceInv, CommittedOnce, TracedTypeOK
    <3>4. TracedTypeOK' /\ CommittedOnce' /\ InCommitOrder'
      BY <1>0, <1>1, <2>1, <3>1, <3>2, <3>3, CommitKeepsOrder
      DEF TracedEvents, TracedTypeOK, Nothing
    <3> QED
      BY <1>5, <1>8, <2>1, <3>4 DEF TraceInv, NothingYet
  <2> QED
    BY <2>2, <2>3
<1>9. CASE NoteStepLimit
  <2>1. /\ pc = "top" /\ doing' = Commit(StepLimitNote)
        /\ UNCHANGED <<vars, notes, trace, commits>>
    BY <1>9 DEF NoteStepLimit
  <2>2. StepLimitNote \in NoteEvents
    BY <1>0 DEF StepLimitNote, NoteEvents, NoteTypes, Event, TypeOK, RunRow
  <2>3. run.status # "NONE" /\ run' = run /\ log' = log
    BY <1>0, <2>1 DEF IInv, Place, vars
  <2>4. TracedTypeOK'
    BY <1>0, <2>1, <2>2 DEF TracedTypeOK
  <2>5. CommittedOnce'
    BY <2>1, <2>3, StillCommitted
  <2>6. InCommitOrder'
    BY <2>1, NothingKeepsOrder DEF Commit
  <2> QED
    BY <2>3, <2>4, <2>5, <2>6 DEF TraceInv, NothingYet
<1>10. CASE CommitNote
  <2>1. doing.stage = "commit" /\ doing # Nothing /\ doing.event \in NoteEvents
    BY <1>0, <1>10 DEF CommitNote, TracedTypeOK, Nothing, Commit, Line
  <2>2. run.status # "NONE" /\ run' = run /\ log' = log /\ trace' = trace
    BY <1>10, <2>1 DEF CommitNote, TraceInv, NothingYet, vars
  <2>3. CASE doing.event \in notes
    <3>1. doing' = Nothing /\ notes' = notes /\ commits' = commits
      BY <1>10, <2>3 DEF CommitNote
    <3>2. TracedTypeOK'
      BY <1>0, <2>2, <3>1 DEF TracedTypeOK
    <3>3. CommittedOnce'
      BY <2>2, <3>1, StillCommitted
    <3>4. InCommitOrder'
      BY <2>2, <3>1, NothingKeepsOrder DEF Nothing
    <3> QED
      BY <2>2, <3>2, <3>3, <3>4 DEF TraceInv, NothingYet
  <2>4. CASE doing.event \notin notes
    <3>1. /\ notes' = notes \cup {doing.event}
          /\ commits' = Append(commits, doing.event)
          /\ doing' = Line(doing.event)
      BY <1>10, <2>4 DEF CommitNote
    <3>2. \A i \in DOMAIN commits : commits[i] # doing.event
      BY <1>2, <1>4, <2>1, <2>4 DEF TraceInv, CommittedOnce
    <3>3. TracedTypeOK' /\ CommittedOnce' /\ InCommitOrder'
      BY <1>0, <2>1, <2>2, <3>1, <3>2, CommitKeepsOrder DEF TracedEvents, TracedTypeOK
    <3> QED
      BY <2>2, <3>3 DEF TraceInv, NothingYet
  <2> QED
    BY <2>3, <2>4
<1>11. CASE WriteLine
  <2>1. /\ doing.stage = "line" /\ trace' = TraceWith(TRUE) /\ doing' = Nothing
        /\ notes' = notes /\ commits' = commits /\ run' = run /\ log' = log
    BY <1>11 DEF WriteLine, vars
  <2>2. InCommitOrder' /\ trace' \in Seq([event : TracedEvents, whole : BOOLEAN])
    BY <2>1, LineKeepsOrder
  <2>3. TracedTypeOK'
    BY <1>0, <2>1, <2>2 DEF TracedTypeOK
  <2>4. CommittedOnce'
    BY <2>1, StillCommitted
  <2>5. run.status # "NONE"
    BY <2>1 DEF TraceInv, NothingYet, Nothing
  <2> QED
    BY <2>1, <2>2, <2>3, <2>4, <2>5 DEF TraceInv, NothingYet
<1>12. CASE Die
  <2>1. /\ doing' = Nothing /\ notes' = notes /\ commits' = commits
        /\ run' = run /\ log' = log
    BY <1>12 DEF Die, Crash, tables
  <2>2. run.status # "NONE"
    BY <1>0, <1>12 DEF Die, Crash, IInv, Place, TraceInv, NothingYet
  <2>3. CommittedOnce'
    BY <2>1, StillCommitted
  <2>4. InCommitOrder' /\ trace' \in Seq([event : TracedEvents, whole : BOOLEAN])
    <3>1. CASE trace' = trace
      BY <1>0, <2>1, <3>1, NothingKeepsOrder DEF Nothing, TracedTypeOK
    <3>2. CASE doing.stage = "line" /\ trace' = TraceWith(FALSE)
      BY <2>1, <3>2, LineKeepsOrder
    <3> QED
      BY <1>12, <3>1, <3>2 DEF Die
  <2>5. TracedTypeOK'
    BY <1>0, <2>1, <2>4 DEF TracedTypeOK
  <2> QED
    BY <2>1, <2>2, <2>3, <2>4, <2>5 DEF TraceInv, NothingYet
<1>13. CASE Idle
  <2>1. UNCHANGED <<vars, traced>>
    BY <1>13 DEF Idle, ResumeFails, ResumeFinished
  <2> QED
    BY <2>1, StutterTrace DEF tracedVars
<1> QED
  BY <1>0, <1>6, <1>7, <1>8, <1>9, <1>10, <1>11, <1>12, <1>13, LoopCases
  DEF TracedNext, TracedProcess

\* The order holds in every state of the traced run.
LEMMA SpecTraceInv == TracedSpec => []TraceInv
<1>1. TracedInit => TraceInv
  BY DEF TracedInit, Init, TraceInv, TracedTypeOK, NothingYet, CommittedOnce,
         InCommitOrder, Nothing
<1>2. LInv /\ LInv' /\ TraceInv /\ [TracedNext]_tracedVars => TraceInv'
  BY TraceStep, StutterTrace DEF LInv, IInv
<1> QED
  BY <1>1, <1>2, TracedLInv, PTL DEF TracedSpec

\* log_trace after append_event: the file never tells what was not committed, and
\* tells each event once, in the order of the commits, whatever is repeated after
\* a crash.
THEOREM SpecTraceFollowsLog == TracedSpec => []TraceFollowsLog
<1>1. TraceInv => TraceFollowsLog
  <2>1. SUFFICES ASSUME TraceInv
                 PROVE  TraceFollowsLog
    OBVIOUS
  <2>2. Len(commits) \in Nat /\ DOMAIN commits = 1 .. Len(commits) /\ Coming \in {0, 1}
    BY <2>1 DEF TraceInv, TracedTypeOK, Coming
  <2>3. \A i \in DOMAIN trace : \E j \in DOMAIN commits : commits[j] = trace[i].event
    BY <2>1, <2>2 DEF TraceInv, InCommitOrder
  <2>4. \A i \in DOMAIN trace : /\ Position(trace[i].event) \in DOMAIN commits
                                /\ commits[Position(trace[i].event)] = trace[i].event
    BY <2>3 DEF Position
  <2> QED
    BY <2>1, <2>3, <2>4 DEF TraceInv, InCommitOrder, TraceFollowsLog
<1> QED
  BY <1>1, SpecTraceInv, PTL

(***************************************************************************)
(* What the trace misses.                                                  *)
(***************************************************************************)

\* One when the task is larger than the memory takes.
RefusedTasks == IF task = "huge" /\ run.status # "NONE" THEN 1 ELSE 0

\* The numbers of the balance are numbers.
LEMMA CountsAreNumbers ==
  ASSUME TypeOK, TracedTypeOK
  PROVE  /\ IsFiniteSet(ReadLines) /\ IsFiniteSet(HalfLines) /\ IsFiniteSet(RefusedTexts)
         /\ Cardinality(ReadLines) \in Nat /\ Cardinality(HalfLines) \in Nat
         /\ Cardinality(RefusedTexts) \in Nat
         /\ Refused = Cardinality(RefusedTexts) + RefusedTasks
         /\ Refused \in Nat /\ RefusedTasks \in {0, 1}
         /\ Len(commits) \in Nat /\ Len(trace) \in Nat /\ crashes \in Nat
         /\ Coming \in {0, 1} /\ Torn \in {0, 1}
<1>1. Len(commits) \in Nat /\ Len(trace) \in Nat /\ DOMAIN trace = 1 .. Len(trace)
  BY DEF TracedTypeOK
<1>2. IsFiniteSet(1 .. Len(trace)) /\ IsFiniteSet(Steps)
  BY <1>1, FS_Interval, ConfigAssumption DEF Steps
<1>3. /\ ReadLines \in SUBSET (1 .. Len(trace)) /\ HalfLines \in SUBSET (1 .. Len(trace))
      /\ RefusedTexts \in SUBSET Steps
  BY <1>1 DEF ReadLines, HalfLines, RefusedTexts, TypeOK, Log
<1>4. /\ IsFiniteSet(ReadLines) /\ IsFiniteSet(HalfLines)
      /\ IsFiniteSet(RefusedTexts)
  BY <1>2, <1>3, FS_Subset
<1>5. /\ Cardinality(ReadLines) \in Nat /\ Cardinality(HalfLines) \in Nat
      /\ Cardinality(RefusedTexts) \in Nat
  BY <1>4, FS_CardinalityType
<1>6. Refused = Cardinality(RefusedTexts) + RefusedTasks
  BY DEF Refused, RefusedTexts, RefusedTasks
<1>7. RefusedTasks \in {0, 1} /\ Coming \in {0, 1} /\ Torn \in {0, 1}
  BY DEF RefusedTasks, Coming, Torn
<1>8. crashes \in Nat
  BY DEF TypeOK
<1> QED
  BY <1>1, <1>4, <1>5, <1>6, <1>7, <1>8

\* So they are in the next state.
LEMMA RefusedNext ==
  ASSUME TypeOK'
  PROVE  /\ IsFiniteSet(RefusedTexts') /\ Cardinality(RefusedTexts') \in Nat
         /\ Refused' = Cardinality(RefusedTexts') + RefusedTasks'
         /\ RefusedTasks' \in {0, 1} /\ Refused' \in Nat
<1>1. IsFiniteSet(Steps)
  BY FS_Interval, ConfigAssumption DEF Steps
<1>2. RefusedTexts' \in SUBSET Steps
  BY DEF RefusedTexts, TypeOK, Log
<1>3. IsFiniteSet(RefusedTexts')
  BY <1>1, <1>2, FS_Subset
<1>4. Cardinality(RefusedTexts') \in Nat
  BY <1>3, FS_CardinalityType
<1>5. Refused' = Cardinality(RefusedTexts') + RefusedTasks'
  BY DEF Refused, RefusedTexts, RefusedTasks
<1>6. RefusedTasks' \in {0, 1}
  BY DEF RefusedTasks
<1> QED
  BY <1>3, <1>4, <1>5, <1>6

\* A text is recorded after its answer.
LEMMA TextsStep ==
  ASSUME IInv, TextsAnswered, Next
  PROVE  TextsAnswered'
<1>1. LogGrows /\ TypeOK /\ Place
  BY LogOnlyGrows DEF IInv
<1>2. CASE RecordText
  BY <1>1, <1>2 DEF RecordText, Raise, TextsAnswered, HasResponse, Place, TypeOK, Log
<1>3. CASE log'.messages = log.messages
  BY <1>1, <1>3 DEF LogGrows, TextsAnswered, HasResponse, TypeOK, Log
<1> QED
  BY <1>1, <1>2, <1>3 DEF LogGrows

\* What the memory refused stays refused.
LEMMA RefusedGrows ==
  ASSUME TypeOK, TracedTypeOK, TextsAnswered, LogGrows, TypeOK', TracedTypeOK'
  PROVE  Refused <= Refused'
<1>1. RefusedTexts \in SUBSET RefusedTexts'
  <2>1. SUFFICES ASSUME NEW s \in log.messages, log.responses[s].text = "over"
                 PROVE  s \in log'.messages /\ log'.responses[s].text = "over"
    BY DEF RefusedTexts
  <2>2. s \in Steps /\ log.responses[s] # None
    BY <2>1 DEF TextsAnswered, HasResponse, TypeOK, Log
  <2> QED
    BY <2>1, <2>2 DEF LogGrows
<1>2. IsFiniteSet(RefusedTexts')
  BY RefusedNext
<1>3. Cardinality(RefusedTexts) <= Cardinality(RefusedTexts')
  BY <1>1, <1>2, FS_Subset
<1>4. RefusedTasks <= RefusedTasks'
  <2>1. RefusedTasks \in {0, 1} /\ RefusedTasks' \in {0, 1}
    BY DEF RefusedTasks
  <2>2. RefusedTasks = 1 => RefusedTasks' = 1
    BY DEF RefusedTasks, LogGrows
  <2> QED
    BY <2>1, <2>2
<1> QED
  BY <1>3, <1>4, RefusedNext, CountsAreNumbers

\* A text too large for the memory is one more that is refused.
LEMMA TextRefused ==
  ASSUME IInv, TracedTypeOK, Next, TextLost, Inserted # {}, TypeOK', TracedTypeOK'
  PROVE  Refused' = Refused + 1
<1>1. RecordText
  <2>1. ~LoopHead
    BY DEF TextLost, LoopHead, StepLimit, StopRecordedNoProgress, BeginTools,
           RecoverPending, ResumeResponse, BeginStep, NothingPending, AtTop
  <2>2. ~BatchStep
    BY DEF TextLost, BatchStep, StartCall, LookUpRows, Running, RunRead, RunWrite,
           RunEmail, Collecting, MarkRolledBack, RecordResult, ToolsDone
  <2>3. ModelTurn => RecordText
    BY DEF TextLost, ModelTurn, ContextTooLarge, SendRequest, LLMFails, LLMAnswers,
           RecordText, ChargeBudget, RejectPartial, RejectContradiction, Complete,
           ParseCalls, CheckProgress, FinishFailed
  <2>4. ~(Create \/ Resume \/ ResumeFails \/ ResumeFinished \/ Crash)
    BY DEF TextLost, Create, Resume, ResumeFails, ResumeFinished, Crash
  <2> QED
    BY <2>1, <2>2, <2>3, <2>4 DEF Next, Process
<1>2. log' # log
  BY DEF Inserted
<1>3. /\ log' = [log EXCEPT !.messages = @ \cup {step}]
      /\ step \notin log.messages /\ Answer.text = "over"
      /\ run' = run /\ task' = task
  BY <1>1, <1>2 DEF RecordText, TextLost
<1>4. step \in Steps /\ TypeOK
  BY <1>1 DEF RecordText, IInv, Place
<1>5. RefusedTexts' = RefusedTexts \cup {step} /\ step \notin RefusedTexts
  BY <1>3, <1>4 DEF RefusedTexts, Answer, TypeOK, Log
<1>6. Cardinality(RefusedTexts') = Cardinality(RefusedTexts) + 1
  BY <1>4, <1>5, FS_AddElement, CountsAreNumbers
<1>7. RefusedTasks' = RefusedTasks
  BY <1>3 DEF RefusedTasks
<1> QED
  BY <1>4, <1>6, <1>7, RefusedNext, CountsAreNumbers

\* A whole line can be read unless the file ended in half a line.
LEMMA LineCounts ==
  ASSUME TypeOK, TracedTypeOK, NEW whole \in BOOLEAN, trace' = TraceWith(whole)
  PROVE  /\ whole => /\ Torn' = 0
                     /\ Cardinality(ReadLines') = Cardinality(ReadLines) + 1 - Torn
                     /\ Cardinality(HalfLines') = Cardinality(HalfLines)
         /\ ~whole => /\ Torn' = 1
                      /\ Cardinality(ReadLines') = Cardinality(ReadLines)
                      /\ Cardinality(HalfLines') = Cardinality(HalfLines) + 1
<1> DEFINE line == [event |-> doing.event, whole |-> whole]
<1>1. PICK last \in Nat : last = Len(trace) + 1
  BY DEF TracedTypeOK
<1>2. line.whole = whole
  OBVIOUS
<1>3. trace' = Append(trace, line)
  BY DEF TraceWith
<1> HIDE DEF line
<1>4. /\ Len(trace) \in Nat
      /\ last = Len(trace) + 1
      /\ DOMAIN trace = 1 .. Len(trace) /\ DOMAIN trace' = 1 .. last
      /\ Len(trace') = last
      /\ trace'[last] = line
      /\ \A i \in 1 .. Len(trace) : trace'[i] = trace[i]
      /\ trace = <<>> <=> Len(trace) = 0
      /\ trace' # <<>>
  BY <1>3, <1>1 DEF TracedTypeOK
<1>5. Torn' = IF whole THEN 0 ELSE 1
  BY <1>2, <1>4 DEF Torn
<1>6. ASSUME NEW i \in 1 .. Len(trace)
      PROVE  Readable(i)' <=> Readable(i)
  <2>1. i > 1 => i - 1 \in 1 .. Len(trace)
    BY <1>4
  <2>2. trace'[i] = trace[i] /\ (i > 1 => trace'[i - 1] = trace[i - 1])
    BY <1>4, <2>1
  <2> QED
    BY <2>2 DEF Readable
<1>7. Readable(last)' <=> whole /\ Torn = 0
  BY <1>2, <1>4 DEF Readable, Torn
<1>8. ReadLines' = IF whole /\ Torn = 0 THEN ReadLines \cup {last} ELSE ReadLines
  BY <1>4, <1>6, <1>7 DEF ReadLines
<1>9. HalfLines' = IF whole THEN HalfLines ELSE HalfLines \cup {last}
  BY <1>2, <1>4 DEF HalfLines
<1>10. last \notin ReadLines /\ last \notin HalfLines
  BY <1>4 DEF ReadLines, HalfLines
<1>11. /\ Cardinality(ReadLines \cup {last}) = Cardinality(ReadLines) + 1
       /\ Cardinality(HalfLines \cup {last}) = Cardinality(HalfLines) + 1
  BY <1>10, FS_AddElement, CountsAreNumbers
<1> QED
  BY <1>5, <1>8, <1>9, <1>11, CountsAreNumbers

\* Only a death counts as a crash.
LEMMA LoopCountsNoCrash ==
  ASSUME LoopTraced
  PROVE  crashes' = crashes
<1>1. LoopHead => crashes' = crashes
  BY DEF LoopHead, StepLimit, StopRecordedNoProgress, BeginTools, RecoverPending,
         ResumeResponse, BeginStep, FinishRun
<1>2. ModelTurn => crashes' = crashes
  BY DEF ModelTurn, ContextTooLarge, SendRequest, LLMFails, LLMAnswers, RecordText,
         ChargeBudget, RejectPartial, RejectContradiction, Complete, ParseCalls,
         CheckProgress, FinishFailed, FinishRun
<1>3. BatchStep => crashes' = crashes
  BY DEF BatchStep, StartCall, LookUpRows, Running, RunRead, RunWrite, RunEmail,
         MarkRolledBack, RecordResult, ToolsDone
<1>4. CreateTraced \/ Resume => crashes' = crashes
  BY DEF CreateTraced, Create, Resume
<1> QED
  BY <1>1, <1>2, <1>3, <1>4 DEF LoopTraced, LoopHead, ModelTurn

\* Every step keeps the balance.
LEMMA BalanceStep ==
  ASSUME LInv, TraceInv, TextsAnswered, Balance, TracedNext, TypeOK', TraceInv'
  PROVE  Balance'
<1>0. IInv /\ TypeOK /\ TracedTypeOK /\ TracedTypeOK'
  BY DEF LInv, IInv, TraceInv
<1>1. Next => LogGrows /\ Refused <= Refused'
  BY <1>0, LogOnlyGrows, RefusedGrows
<1>2. log' = log /\ run' = run /\ task' = task => Refused' = Refused
  BY DEF Refused
<1>3. trace' = trace => /\ Cardinality(ReadLines') = Cardinality(ReadLines)
                        /\ Cardinality(HalfLines') = Cardinality(HalfLines)
                        /\ Torn' = Torn
  BY DEF ReadLines, HalfLines, Torn, Readable
<1>4. doing = Nothing => Coming = 0
  BY DEF Coming, Nothing
<1>5. /\ doing' = Nothing => Coming' = 0
      /\ \A e : doing' = Commit(e) => Coming' = 0
      /\ \A e : doing' = Line(e) => Coming' = 1
  BY DEF Coming, Nothing, Commit, Line
<1>6. \A e \in TracedEvents :
        commits' = Append(commits, e) => Len(commits') = Len(commits) + 1
  BY <1>0 DEF TracedTypeOK
<1>7. LoopTraced => crashes' = crashes
  BY LoopCountsNoCrash
<1>n. /\ Len(commits) \in Int /\ crashes \in Int /\ Coming \in {0, 1} /\ Torn \in {0, 1}
      /\ Cardinality(ReadLines) \in Int /\ Cardinality(HalfLines) \in Int
      /\ Refused \in Int /\ Refused' \in Int
  BY <1>0, CountsAreNumbers, RefusedNext
<1>b. Len(commits) - Cardinality(ReadLines) - Coming + Torn
        <= crashes + Cardinality(HalfLines) + Refused
  BY DEF Balance
<1>8. CASE LoopTraced /\ CreateTraced
  <2>1. /\ run.status = "NONE" /\ doing = Nothing /\ trace' = trace
        /\ log' = log /\ task' = task /\ run'.status = "STARTED"
        /\ commits' = Append(commits, RunStarted)
    BY <1>0, <1>8 DEF CreateTraced, Create, LoopTraced, TraceInv, NothingYet,
                      RunStarted, TypeOK, RunRow
  <2>2. Len(commits') = Len(commits) + 1
    BY <1>6, <2>1 DEF TracedEvents
  <2>3. CASE task = "huge"
    <3>1. RefusedTexts' = RefusedTexts /\ RefusedTasks = 0 /\ RefusedTasks' = 1
      BY <2>1, <2>3 DEF RefusedTexts, RefusedTasks
    <3>2. Refused' = Refused + 1
      BY <1>0, <3>1, CountsAreNumbers, RefusedNext
    <3>3. Coming' \in {0, 1}
      BY DEF Coming
    <3> QED
      BY <1>n, <1>b, <1>3, <1>4, <1>7, <1>8, <2>1, <2>2, <3>2, <3>3 DEF Balance
  <2>4. CASE task # "huge"
    <3>1. Coming' = 1
      BY <1>5, <1>8, <2>4 DEF CreateTraced, Create
    <3>2. Refused' = Refused
      BY <2>1, <2>4 DEF Refused
    <3> QED
      BY <1>n, <1>b, <1>3, <1>4, <1>7, <1>8, <2>1, <2>2, <3>1, <3>2 DEF Balance
  <2> QED
    BY <2>3, <2>4
<1>9. ASSUME LoopTraced, NEW type \in NoteTypes, Note(type)
      PROVE  Balance'
  <2>1. Next /\ doing = Nothing
    BY <1>0, <1>9, LoopCases
  <2>2. trace' = trace /\ commits' = commits /\ Coming' = 0
    BY <1>5, <1>9 DEF Note
  <2> QED
    BY <1>n, <1>b, <1>1, <1>3, <1>4, <1>7, <1>9, <2>1, <2>2 DEF Balance
<1>10. CASE LoopTraced /\ Follow
  <2>1. Next /\ doing = Nothing /\ trace' = trace
    BY <1>0, <1>10, LoopCases DEF Follow
  <2>2. CASE Inserted = {}
    <3>1. Coming' = 0 /\ commits' = commits
      BY <1>5, <1>10, <2>2 DEF Follow
    <3> QED
      BY <1>n, <1>b, <1>1, <1>3, <1>4, <1>7, <1>10, <2>1, <3>1 DEF Balance
  <2>3. CASE Inserted # {}
    <3>1. PICK e \in Inserted :
            /\ commits' = Append(commits, e)
            /\ doing' = IF TextLost THEN Nothing ELSE Line(e)
      BY <1>10, <2>3 DEF Follow
    <3>2. e \in TracedEvents
      BY EventsType DEF Inserted, TracedEvents, TypeOK
    <3>3. Len(commits') = Len(commits) + 1
      BY <1>6, <3>1, <3>2
    <3>4. CASE TextLost
      <4>1. Refused' = Refused + 1
        BY <1>0, <2>1, <2>3, <3>4, TextRefused
      <4>2. Coming' = 0
        BY <1>5, <3>1, <3>4
      <4> QED
        BY <1>n, <1>b, <1>3, <1>4, <1>7, <1>10, <2>1, <3>3, <4>1, <4>2 DEF Balance
    <3>5. CASE ~TextLost
      <4>1. Coming' = 1
        BY <1>5, <3>1, <3>5
      <4> QED
        BY <1>n, <1>b, <1>1, <1>3, <1>4, <1>7, <1>10, <2>1, <3>3, <4>1 DEF Balance
    <3> QED
      BY <3>4, <3>5
  <2> QED
    BY <2>2, <2>3
<1>11. CASE NoteStepLimit
  <2>1. /\ doing = Nothing /\ trace' = trace /\ commits' = commits /\ Coming' = 0
        /\ crashes' = crashes /\ log' = log /\ run' = run /\ task' = task
    BY <1>5, <1>11 DEF NoteStepLimit, vars
  <2> QED
    BY <1>n, <1>b, <1>2, <1>3, <1>4, <2>1 DEF Balance
<1>12. CASE CommitNote
  <2>1. /\ doing.stage = "commit" /\ Coming = 0 /\ trace' = trace
        /\ crashes' = crashes /\ log' = log /\ run' = run /\ task' = task
    BY <1>12 DEF CommitNote, vars, Coming
  <2>2. /\ Cardinality(ReadLines') = Cardinality(ReadLines)
        /\ Cardinality(HalfLines') = Cardinality(HalfLines)
        /\ Torn' = Torn /\ Refused' = Refused /\ crashes' = crashes
    BY <1>2, <1>3, <2>1
  <2>3. CASE commits' = commits /\ doing' = Nothing
    <3>1. Coming' = 0 /\ Len(commits') = Len(commits)
      BY <1>5, <2>3
    <3> QED
      BY <1>n, <1>b, <2>1, <2>2, <3>1 DEF Balance
  <2>4. CASE commits' = Append(commits, doing.event) /\ doing' = Line(doing.event)
    <3>1. doing.event \in TracedEvents
      BY <1>0, <2>1 DEF TracedTypeOK, TracedEvents, Nothing, Commit, Line
    <3>2. Len(commits') = Len(commits) + 1 /\ Coming' = 1
      BY <1>5, <1>6, <2>4, <3>1
    <3> QED
      BY <1>n, <1>b, <2>1, <2>2, <3>2 DEF Balance
  <2> QED
    BY <1>12, <2>3, <2>4 DEF CommitNote
<1>13. CASE WriteLine
  <2>1. /\ Coming = 1 /\ Coming' = 0 /\ trace' = TraceWith(TRUE) /\ commits' = commits
        /\ crashes' = crashes /\ log' = log /\ run' = run /\ task' = task
    BY <1>5, <1>13 DEF WriteLine, vars, Coming
  <2>2. /\ Torn' = 0
        /\ Cardinality(ReadLines') = Cardinality(ReadLines) + 1 - Torn
        /\ Cardinality(HalfLines') = Cardinality(HalfLines)
    BY <1>0, <2>1, LineCounts
  <2> QED
    BY <1>n, <1>b, <1>2, <2>1, <2>2 DEF Balance
<1>14. CASE Die
  <2>1. /\ Coming' = 0 /\ commits' = commits
        /\ crashes' = crashes + 1 /\ log' = log /\ run' = run /\ task' = task
    BY <1>5, <1>14 DEF Die, Crash, tables
  <2>2. CASE trace' = trace
    BY <1>n, <1>b, <1>2, <1>3, <2>1, <2>2 DEF Balance
  <2>3. CASE doing.stage = "line" /\ trace' = TraceWith(FALSE)
    <3>1. /\ Torn' = 1
          /\ Cardinality(ReadLines') = Cardinality(ReadLines)
          /\ Cardinality(HalfLines') = Cardinality(HalfLines) + 1
      BY <1>0, <2>3, LineCounts
    <3>2. Coming = 1
      BY <2>3 DEF Coming
    <3> QED
      BY <1>n, <1>b, <1>2, <2>1, <3>1, <3>2 DEF Balance
  <2> QED
    BY <1>14, <2>2, <2>3 DEF Die
<1>15. CASE Idle
  <2>1. /\ doing' = doing /\ trace' = trace /\ commits' = commits
        /\ crashes' = crashes /\ log' = log /\ run' = run /\ task' = task
    BY <1>15 DEF Idle, ResumeFails, ResumeFinished, vars, traced, tables
  <2>2. Coming' = Coming
    BY <2>1 DEF Coming
  <2> QED
    BY <1>n, <1>b, <1>2, <1>3, <2>1, <2>2 DEF Balance
<1> QED
  BY <1>0, <1>8, <1>9, <1>10, <1>11, <1>12, <1>13, <1>14, <1>15, LoopCases
  DEF TracedNext, TracedProcess

\* The balance holds in every state of the traced run.
LEMMA SpecBalance == TracedSpec => [](TextsAnswered /\ Balance)
<1>1. TracedInit => TextsAnswered /\ Balance
  <2>1. SUFFICES ASSUME TracedInit
                 PROVE  TextsAnswered /\ Balance
    OBVIOUS
  <2>2. /\ log.messages = {} /\ commits = <<>> /\ trace = <<>> /\ doing = Nothing
        /\ run.status = "NONE" /\ crashes = 0
    BY <2>1 DEF TracedInit, Init, EmptyLog
  <2>3. /\ ReadLines = {} /\ HalfLines = {} /\ Torn = 0 /\ Coming = 0
        /\ Len(commits) = 0 /\ TextsAnswered
    BY <2>2 DEF ReadLines, HalfLines, Torn, Coming, Nothing, TextsAnswered
  <2>4. Refused = 0
    <3>1. {s \in log.messages : log.responses[s].text = "over"} = {}
      BY <2>2
    <3> QED
      BY <2>2, <3>1, FS_EmptySet DEF Refused
  <2> QED
    BY <2>2, <2>3, <2>4, FS_EmptySet DEF Balance
<1>2. LInv /\ TextsAnswered /\ TracedNext => TextsAnswered'
  <2>1. LInv /\ TextsAnswered /\ Next => TextsAnswered'
    BY TextsStep DEF LInv
  <2>2. DieAtTheEnd \/ UNCHANGED vars => log' = log
    BY DEF DieAtTheEnd, vars, tables
  <2> QED
    BY <2>1, <2>2, TracedStep DEF TextsAnswered, HasResponse
<1>3. UNCHANGED tracedVars /\ TextsAnswered /\ Balance => TextsAnswered' /\ Balance'
  BY DEF tracedVars, vars, traced, TextsAnswered, HasResponse, Balance, ReadLines,
         HalfLines, Readable, Torn, Coming, Refused
<1>4. LInv /\ LInv' /\ TraceInv /\ TraceInv' /\ TextsAnswered /\ Balance
        /\ [TracedNext]_tracedVars => TextsAnswered' /\ Balance'
  BY <1>2, <1>3, BalanceStep DEF LInv, IInv
<1> QED
  BY <1>1, <1>4, TracedLInv, SpecTraceInv, PTL DEF TracedSpec

\* Every committed event has a readable line, except one for each death, one after
\* each half line and one for each message the memory refused (log_trace is called
\* after append_event and after the memory took the message).
THEOREM SpecLossExplained == TracedSpec => []LossExplained
<1>1. LInv /\ TraceInv /\ Balance => LossExplained
  <2>1. SUFFICES ASSUME LInv, TraceInv, Balance
                 PROVE  LossExplained
    OBVIOUS
  <2>2. TypeOK /\ TracedTypeOK
    BY <2>1 DEF LInv, IInv, TraceInv
  <2>3. Len(commits) - Cardinality(ReadLines) - Coming
          <= crashes + Cardinality(HalfLines) + Refused
    BY <2>1, <2>2, CountsAreNumbers DEF Balance
  <2> QED
    BY <2>3 DEF LossExplained, ReadLines, HalfLines, Coming
<1> QED
  BY <1>1, TracedLInv, SpecTraceInv, SpecBalance, PTL

(***************************************************************************)
(* The script of the server.                                               *)
(***************************************************************************)

\* The scenarios that make calls in their first step alone.
OneTurn == {"S01", "S02", "S03", "S06", "S09", "S10", "S11", "S12"}

\* In how many steps a scenario makes calls.
LEMMA Turns ==
  /\ \A sc \in {"S04", "S05", "S08"} : DOMAIN Calls(sc) = {}
  /\ \A sc \in OneTurn : DOMAIN Calls(sc) = {1} /\ Calls(sc)[1] # <<>>
  /\ DOMAIN Calls("S07") = 1 .. 3 /\ \A s \in 1 .. 3 : Calls("S07")[s] # <<>>
<1>1. /\ \A x : DOMAIN <<x>> = {1} /\ <<x>>[1] = x
      /\ \A x, y : <<x>> # <<>> /\ <<x, y>> # <<>>
  OBVIOUS
<1>2. \A sc \in {"S04", "S05", "S08"} : DOMAIN Calls(sc) = {}
  <2>1. DOMAIN <<>> = {}
    OBVIOUS
  <2> QED
    BY <2>1, Zenon DEF Calls
<1>3. \A sc \in OneTurn : DOMAIN Calls(sc) = {1} /\ Calls(sc)[1] # <<>>
  BY <1>1, Zenon DEF Calls, OneTurn
<1>4. DOMAIN Calls("S07") = 1 .. 3 /\ \A s \in 1 .. 3 : Calls("S07")[s] # <<>>
  BY SMT DEF Calls, ToolCall
<1> QED
  BY <1>2, <1>3, <1>4

\* An answer is that of S04, that of S08, calls of the script or a text.
LEMMA Answers ==
  ASSUME NEW sc, NEW s
  PROVE  /\ sc = "S04" => ResponseFor(sc, s) = Turn(<<ToolCall("loop", "read", "ok")>>)
         /\ sc = "S08" => ResponseFor(sc, s) = Text("over")
         /\ sc \notin {"S04", "S08"} /\ s \in DOMAIN Calls(sc) =>
              /\ ResponseFor(sc, s).text = "none"
              /\ ResponseFor(sc, s).calls = Calls(sc)[s]
              /\ ResponseFor(sc, s).cost = 1
              /\ ResponseFor(sc, s).incomplete <=> sc = "S12"
         /\ sc \notin {"S04", "S08"} /\ s \notin DOMAIN Calls(sc) =>
              ResponseFor(sc, s) = Text(IF sc = "S11" THEN "success" ELSE "plain")
<1>1. CASE sc \in {"S04", "S08"}
  <2>1. s \notin DOMAIN Calls(sc)
    BY <1>1, Turns
  <2>2. /\ sc = "S04" => ResponseFor(sc, s) = Turn(<<ToolCall("loop", "read", "ok")>>)
        /\ sc = "S08" => ResponseFor(sc, s) = Text("over")
    BY <2>1, Zenon DEF ResponseFor
  <2> QED
    BY <1>1, <2>2, Zenon
<1>2. CASE sc \notin {"S04", "S08"} /\ s \in DOMAIN Calls(sc)
  <2>1. ResponseFor(sc, s) = [Turn(Calls(sc)[s]) EXCEPT !.incomplete = (sc = "S12")]
    BY <1>2, Zenon DEF ResponseFor
  <2>2. PICK b \in BOOLEAN : b = (sc = "S12")
    OBVIOUS
  <2>3. ResponseFor(sc, s) = [Turn(Calls(sc)[s]) EXCEPT !.incomplete = b]
    BY <2>1, <2>2, Zenon
  <2>4. /\ ResponseFor(sc, s).text = "none" /\ ResponseFor(sc, s).calls = Calls(sc)[s]
        /\ ResponseFor(sc, s).cost = 1
        /\ ResponseFor(sc, s).incomplete = b
    BY <2>3, SMT DEF Turn
  <2> QED
    BY <1>2, <2>2, <2>4, Zenon
<1>3. CASE sc \notin {"S04", "S08"} /\ s \notin DOMAIN Calls(sc)
  <2>1. ResponseFor(sc, s) = Text(IF sc = "S11" THEN "success" ELSE "plain")
    BY <1>3, Zenon DEF ResponseFor
  <2> QED
    BY <1>3, <2>1, Zenon
<1> QED
  BY <1>1, <1>2, <1>3, Zenon

\* What the answers of the scenarios say (response_for).
LEMMA Script ==
  ASSUME NEW sc \in ScenarioNames, NEW s \in Steps
  PROVE  LET r == ResponseFor(sc, s)
         IN  /\ r.cost = 1
             /\ r.text = "over" => sc = "S08"
             /\ r.text = "success" => sc = "S11" /\ s > 1
             /\ sc = "S08" => r.text = "over" /\ r.calls = <<>>
             /\ r.incomplete <=> sc = "S12" /\ s = 1
             /\ r.calls = <<>> => sc # "S04"
             /\ r.calls = <<>> /\ sc \in {"S09", "S10", "S11", "S12"} => s > 1
             /\ r.calls = <<>> /\ sc = "S11" => r.text = "success"
             /\ r.calls # <<>> =>
                  sc = "S04" \/ s = 1 \/ (sc = "S07" /\ s <= 3)
<1>1. CASE sc = "S04"
  BY <1>1, Answers, SMT DEF Turn, ToolCall
<1>2. CASE sc = "S08"
  BY <1>2, Answers, SMT DEF Text
<1>3. ASSUME sc \in OneTurn, s = 1
      PROVE  /\ ResponseFor(sc, s).calls = Calls(sc)[1] /\ ResponseFor(sc, s).cost = 1
             /\ ResponseFor(sc, s).text = "none"
             /\ ResponseFor(sc, s).incomplete <=> sc = "S12"
  <2>1. sc \notin {"S04", "S08"} /\ s \in DOMAIN Calls(sc)
    BY <1>3, Turns DEF OneTurn
  <2> QED
    BY <1>3, <2>1, Answers
<1>4. ASSUME sc \in OneTurn \cup {"S05"}, s # 1 \/ sc = "S05"
      PROVE  ResponseFor(sc, s) = Text(IF sc = "S11" THEN "success" ELSE "plain")
  BY <1>4, Answers, Turns DEF OneTurn
<1>5. CASE sc \in OneTurn \cup {"S05"}
  <2>1. CASE sc \in OneTurn /\ s = 1
    <3>1. sc \notin {"S04", "S08"} /\ Calls(sc)[1] # <<>>
      BY <2>1, Turns DEF OneTurn
    <3> QED
      BY <2>1, <1>3, <3>1
  <2>2. CASE s # 1 \/ sc = "S05"
    BY <2>2, <1>5, <1>4 DEF Text, Steps, OneTurn
  <2> QED
    BY <2>1, <2>2, <1>5
<1>6. CASE sc = "S07"
  <2>1. CASE s <= 3
    <3>1. sc \notin {"S04", "S08"} /\ s \in DOMAIN Calls(sc)
      BY <1>6, <2>1, Turns DEF Steps
    <3>2. /\ ResponseFor(sc, s).calls = Calls(sc)[s] /\ ResponseFor(sc, s).cost = 1
          /\ ResponseFor(sc, s).text = "none"
          /\ ResponseFor(sc, s).incomplete <=> sc = "S12"
      BY <3>1, Answers
    <3>3. ResponseFor(sc, s).calls = Calls("S07")[s]
      BY <1>6, <3>2
    <3>4. Calls("S07")[s] # <<>>
      BY <2>1, Turns DEF Steps
    <3> QED
      BY <1>6, <2>1, <3>2, <3>3, <3>4
  <2>2. CASE s > 3
    <3>1. ResponseFor(sc, s) = Text("plain")
      BY <1>6, <2>2, Answers, Turns DEF Steps
    <3> QED
      BY <1>6, <2>2, <3>1 DEF Text
  <2> QED
    BY <2>1, <2>2 DEF Steps
<1> QED
  BY <1>1, <1>2, <1>5, <1>6 DEF ScenarioNames, OneTurn

\* The entries of short sequences.
LEMMA OneEntry ==
  ASSUME NEW x
  PROVE  <<x>>[1] = x /\ \A i \in DOMAIN <<x>> : <<x>>[i] = x
OBVIOUS

LEMMA TwoEntries ==
  ASSUME NEW x, NEW y, NEW i \in DOMAIN <<x, y>>
  PROVE  <<x, y>>[i] = x \/ <<x, y>>[i] = y
OBVIOUS

\* The calls that matter: the email of S07 and the two of S09, the two calls of S10,
\* and the call of S11 that fails.
LEMMA ScriptedCalls ==
  ASSUME NEW sc \in ScenarioNames, NEW s \in Steps,
         NEW i \in DOMAIN ResponseFor(sc, s).calls
  PROVE  LET c == ResponseFor(sc, s).calls[i]
         IN  /\ c.tool = "email" => sc = "S09" \/ (sc = "S07" /\ s = 3)
             /\ sc = "S09" => c = ToolCall("dup", "email", "once")
             /\ sc = "S10" => c.tool = "read" /\ c.args \in {"hang", "missing"}
             /\ sc = "S11" => c.args \in Failing
<1> DEFINE ok(c) == /\ c.tool = "email" => sc = "S09" \/ (sc = "S07" /\ s = 3)
                    /\ sc = "S09" => c = ToolCall("dup", "email", "once")
                    /\ sc = "S10" => c.tool = "read" /\ c.args \in {"hang", "missing"}
                    /\ sc = "S11" => c.args \in Failing
<1>1. CASE sc = "S04"
  BY <1>1, Answers, SMT DEF Turn, ToolCall
<1>2. CASE ResponseFor(sc, s).calls = <<>>
  BY <1>2
<1>3. CASE sc # "S04" /\ ResponseFor(sc, s).calls # <<>>
  <2>1. sc # "S08" /\ (s = 1 \/ (sc = "S07" /\ s <= 3))
    BY <1>3, Script
  <2>2. s \in DOMAIN Calls(sc)
    <3>1. ASSUME s \notin DOMAIN Calls(sc)
          PROVE  FALSE
      <4>1. ResponseFor(sc, s) = Text(IF sc = "S11" THEN "success" ELSE "plain")
        BY <1>3, <2>1, <3>1, Answers, Zenon
      <4> QED
        BY <1>3, <4>1 DEF Text
    <3> QED
      BY <3>1
  <2>3. ResponseFor(sc, s).calls = Calls(sc)[s]
    BY <1>3, <2>1, <2>2, Answers
  <2>4. CASE sc = "S01"
    BY <2>1, <2>3, <2>4, SMT DEF Calls, ToolCall
  <2>5. CASE sc = "S02"
    BY <2>1, <2>3, <2>5, SMT DEF Calls, ToolCall
  <2>6. CASE sc = "S03"
    <3>1. Calls("S03")[1] = <<ToolCall("missing", "read", "unknown"),
                              ToolCall("typed", "write", "wrong type")>>
      BY OneEntry, Zenon DEF Calls
    <3>2. ResponseFor(sc, s).calls = <<ToolCall("missing", "read", "unknown"),
                                       ToolCall("typed", "write", "wrong type")>>
      BY <2>1, <2>3, <2>6, <3>1
    <3>3. \/ ResponseFor(sc, s).calls[i] = ToolCall("missing", "read", "unknown")
          \/ ResponseFor(sc, s).calls[i] = ToolCall("typed", "write", "wrong type")
      BY <3>2, TwoEntries, Zenon
    <3>4. /\ ToolCall("missing", "read", "unknown").tool # "email"
          /\ ToolCall("typed", "write", "wrong type").tool # "email"
      BY DEF ToolCall
    <3>5. ResponseFor(sc, s).calls[i].tool # "email"
      BY <3>3, <3>4, Zenon
    <3> QED
      BY <2>6, <3>5
  <2>7. CASE sc = "S06"
    BY <2>1, <2>3, <2>7, SMT DEF Calls, ToolCall
  <2>8. CASE sc = "S07"
    <3>1. /\ Calls("S07")[1] = <<ToolCall("write", "write", "injection")>>
          /\ Calls("S07")[2] = <<ToolCall("read", "read", "injection")>>
          /\ Calls("S07")[3] = <<ToolCall("email", "email", "attacker")>>
      BY SMT DEF Calls
    <3>2. s = 1 \/ s = 2 \/ s = 3
      BY <2>1 DEF Steps
    <3>3. s # 3 => ResponseFor(sc, s).calls[i].tool # "email"
      BY <2>3, <2>8, <3>1, <3>2, SMT DEF ToolCall
    <3> QED
      BY <2>8, <3>3
  <2>9. CASE sc = "S09"
    BY <2>1, <2>3, <2>9, SMT DEF Calls, ToolCall
  <2>10. CASE sc = "S10"
    <3>1. Calls("S10")[1] = <<ToolCall("hang", "read", "hang"),
                              ToolCall("fail", "read", "missing")>>
      BY OneEntry, Zenon DEF Calls
    <3>2. ResponseFor(sc, s).calls = <<ToolCall("hang", "read", "hang"),
                                       ToolCall("fail", "read", "missing")>>
      BY <2>1, <2>3, <2>10, <3>1
    <3>3. \/ ResponseFor(sc, s).calls[i] = ToolCall("hang", "read", "hang")
          \/ ResponseFor(sc, s).calls[i] = ToolCall("fail", "read", "missing")
      BY <3>2, TwoEntries, Zenon
    <3>4. /\ ToolCall("hang", "read", "hang").tool = "read"
          /\ ToolCall("fail", "read", "missing").tool = "read"
          /\ ToolCall("hang", "read", "hang").args = "hang"
          /\ ToolCall("fail", "read", "missing").args = "missing"
      BY DEF ToolCall
    <3>5. /\ ResponseFor(sc, s).calls[i].tool = "read"
          /\ ResponseFor(sc, s).calls[i].args \in {"hang", "missing"}
      BY <3>3, <3>4, Zenon
    <3> QED
      BY <2>10, <3>5
  <2>11. CASE sc = "S11"
    <3>1. Calls("S11")[1] = <<ToolCall("missing", "read", "missing")>>
      BY OneEntry, Zenon DEF Calls
    <3>2. ResponseFor(sc, s).calls = <<ToolCall("missing", "read", "missing")>>
      BY <2>1, <2>3, <2>11, <3>1
    <3>3. ResponseFor(sc, s).calls[i] = ToolCall("missing", "read", "missing")
      BY <3>2, OneEntry, Zenon
    <3>4. /\ ResponseFor(sc, s).calls[i].tool # "email"
          /\ ResponseFor(sc, s).calls[i].args \in Failing
      BY <3>3 DEF ToolCall, Failing
    <3> QED
      BY <2>11, <3>4
  <2>12. CASE sc = "S12"
    BY <2>1, <2>3, <2>12, SMT DEF Calls, ToolCall
  <2>13. sc # "S05"
    BY <2>2, Turns
  <2> QED
    BY <1>3, <2>1, <2>4, <2>5, <2>6, <2>7, <2>8, <2>9, <2>10, <2>11, <2>12, <2>13
    DEF ScenarioNames
<1> QED
  BY <1>1, <1>2, <1>3

\* The batches of S07 use different tools.
LEMMA ScriptedTools ==
  ASSUME NEW s \in Steps, NEW t \in Steps, s <= 3, t < s
  PROVE  ProgressDigest(ResponseFor("S07", t).calls)
           # ProgressDigest(ResponseFor("S07", s).calls)
<1> DEFINE tool(n) == IF n = 1 THEN "write" ELSE IF n = 2 THEN "read" ELSE "email"
<1>1. \A n \in 1 .. 3 :
        LET calls == ResponseFor("S07", n).calls
        IN  1 \in DOMAIN calls /\ calls[1].tool = tool(n)
  <2>1. \A n \in 1 .. 3 : ResponseFor("S07", n).calls = Calls("S07")[n]
    BY Answers, Turns
  <2>2. \A n \in 1 .. 3 : 1 \in DOMAIN Calls("S07")[n] /\ Calls("S07")[n][1].tool = tool(n)
    BY SMT DEF Calls, ToolCall
  <2> QED
    BY <2>1, <2>2
<1>2. s \in 1 .. 3 /\ t \in 1 .. 3
  BY DEF Steps
<1>3. \A n \in 1 .. 3 : ProgressDigest(ResponseFor("S07", n).calls)[1][1] = tool(n)
  BY <1>1 DEF ProgressDigest
<1> QED
  BY <1>2, <1>3

(***************************************************************************)
(* The steps of the harness are steps of AgentLoop.                        *)
(***************************************************************************)

\* What a process does in its scenario, or being killed.
ScenarioStep ==
  \/ Create \/ Resume \/ LoopHead \/ SendRequest
  \/ scenario = "S05" /\ LLMFails
  \/ scenario # "S05" /\ LLMAnswers(ResponseFor(scenario, step))
  \/ RecordText \/ ChargeBudget \/ RejectPartial \/ RejectContradiction \/ Complete
  \/ ParseCalls \/ CheckProgress \/ FinishFailed
  \/ BatchStep /\ World
  \/ Crash

\* The scenario stays, and the run makes one of its steps or none.
LEMMA ScenarioSteps ==
  ASSUME [Progress \/ Kill]_allVars
  PROVE  scenario' = scenario /\ (ScenarioStep \/ UNCHANGED vars)
<1>1. CASE UNCHANGED allVars
  BY <1>1 DEF allVars
<1>2. CASE LaunchAttempt \/ LaunchLast \/ Inspect
  BY <1>2 DEF LaunchAttempt, LaunchLast, Inspect
<1>3. CASE NothingToDo \/ ExitFatally
  BY <1>3 DEF NothingToDo, ExitFatally, ResumeFinished, ResumeFails
<1>4. CASE Work
  BY <1>4 DEF Work, Serve, ScenarioStep
<1>5. CASE Kill
  BY <1>5 DEF Kill, ScenarioStep
<1> QED
  BY <1>1, <1>2, <1>3, <1>4, <1>5 DEF Progress

\* A process asks at a step of the run, so its answer is one of the menu.
LEMMA ScenarioNext ==
  ASSUME Place, scenario \in ScenarioNames, ScenarioStep
  PROVE  Next
<1>1. CASE LLMAnswers(ResponseFor(scenario, step))
  <2>1. step \in Steps
    BY <1>1 DEF Place, LLMAnswers
  <2>2. ResponseFor(scenario, step) \in Responses
    BY <2>1, ScenarioAssumption
  <2> QED
    BY <1>1, <2>2 DEF Next, Process, ModelTurn
<1> QED
  BY <1>1 DEF ScenarioStep, Next, Process, ModelTurn

\* The scenario is one of the server's.
LEMMA SpecScenario == ScenarioSpec => [](scenario \in ScenarioNames)
<1>1. ScenarioInit => scenario \in ScenarioNames
  BY DEF ScenarioInit
<1>2. scenario \in ScenarioNames /\ [Progress \/ Kill]_allVars => (scenario \in ScenarioNames)'
  BY ScenarioSteps
<1> QED
  BY <1>1, <1>2, PTL DEF ScenarioSpec

\* A run of the harness is a run of AgentLoop, up to the harness.
LEMMA SpecIsRun == ScenarioSpec => Spec
<1>1. ScenarioInit => Init /\ IInv
  BY InitIInv DEF ScenarioInit
<1>2. IInv /\ scenario \in ScenarioNames /\ [Progress \/ Kill]_allVars => IInv' /\ [Next]_vars
  <2>1. SUFFICES ASSUME IInv, scenario \in ScenarioNames, [Progress \/ Kill]_allVars
                 PROVE  IInv' /\ [Next]_vars
    OBVIOUS
  <2>2. [Next]_vars
    BY <2>1, ScenarioSteps, ScenarioNext DEF IInv
  <2> QED
    BY <2>1, <2>2, TypeStep, PlaceStep, StutterIInv DEF IInv
<1> QED
  BY SpecScenario, <1>1, <1>2, PTL DEF ScenarioSpec, Spec

(***************************************************************************)
(* What is recorded follows the script.                                    *)
(***************************************************************************)

\* Every recorded answer is the scenario's, every step costs one, and calls are
\* accepted of whole answers that have some.  S08 never gets past its text.
Scripted ==
  /\ scenario \in ScenarioNames
  /\ task = "fits"
  /\ \A s \in Steps : HasResponse(s) =>
       scenario # "S05" /\ log.responses[s] = ResponseFor(scenario, s)
  /\ \A s \in Steps : log.charges[s] # None => log.charges[s] = s
  /\ \A s \in log.messages : HasResponse(s)
  /\ \A s \in log.parsed : CallsAt(s) # <<>> /\ ~log.responses[s].incomplete
  /\ scenario = "S08" =>
       /\ pc \notin {"charge", "decide"}
       /\ log.messages # {} => pc \in {"down", "failing"}

\* In S04 the model always calls a tool; in the others it does so at the first
\* step, and in S07 at the first three.
LEMMA AcceptedSteps ==
  ASSUME LInv, Scripted, NEW s \in log.parsed
  PROVE  /\ s \in Steps
         /\ log.responses[s] = ResponseFor(scenario, s)
         /\ scenario = "S04" \/ s = 1 \/ (scenario = "S07" /\ s <= 3)
         /\ scenario \notin {"S05", "S08", "S12"}
<1>1. s \in Steps /\ HasResponse(s)
  BY DEF LInv, IInv, TypeOK, Log, Place
<1>2. log.responses[s] = ResponseFor(scenario, s) /\ scenario # "S05"
  BY <1>1 DEF Scripted
<1>3. ResponseFor(scenario, s).calls # <<>> /\ ~ResponseFor(scenario, s).incomplete
  BY <1>2 DEF Scripted, CallsAt
<1>4. scenario \in ScenarioNames
  BY DEF Scripted
<1> QED
  BY <1>1, <1>2, <1>3, <1>4, Script

\* Every step of the scenario keeps to the script.
LEMMA ScriptedStep ==
  ASSUME LInv, Scripted, ScenarioStep, scenario' = scenario
  PROVE  Scripted'
<1> USE DEF tables, volatile, vars, step, pending
<1>0. TypeOK /\ CheckpointExplained /\ Place /\ Ledger
  BY DEF LInv, IInv
<1>1. ASSUME UNCHANGED task, log'.responses = log.responses, log'.charges = log.charges,
             log'.messages = log.messages, log'.parsed = log.parsed,
             scenario = "S08" =>
               \/ pc' \in {"down", "failing"}
               \/ pc \notin {"down", "failing"} /\ pc' \notin {"charge", "decide"}
      PROVE  Scripted'
  BY <1>1 DEF Scripted, HasResponse, CallsAt
<1>2. CASE Create
  <2>1. step = 0 /\ log.messages = {}
    <3>1. step = 0
      BY <1>0, <1>2 DEF Create, Ledger
    <3>2. \A s \in log.messages : s \in Steps /\ HasResponse(s)
      BY <1>0 DEF Scripted, TypeOK, Log
    <3>3. \A s \in log.messages : s \in 1 .. MaxSteps /\ s <= 0
      BY <1>0, <3>1, <3>2 DEF Place, Steps
    <3> QED
      BY <3>1, <3>3
  <2>2. UNCHANGED <<task, log>> /\ pc' \in {"down", "top"}
    BY <1>2 DEF Create
  <2> QED
    BY <2>1, <2>2 DEF Scripted, HasResponse, CallsAt
<1>3. CASE Resume
  <2>1. UNCHANGED <<task, log>> /\ pc' = "top"
    BY <1>3 DEF Resume
  <2>2. scenario = "S08" => log.messages = {}
    <3>1. SUFFICES ASSUME scenario = "S08", NEW s \in log.messages
                   PROVE  FALSE
      OBVIOUS
    <3>2. s \in Steps /\ HasResponse(s)
      BY <1>0 DEF TypeOK, Log, Scripted
    <3>3. log.responses[s].text = "over"
      BY <3>1, <3>2, Script DEF Scripted
    <3> QED
      BY <1>3, <3>3 DEF Resume, MemoryRebuilds
  <2> QED
    BY <2>1, <2>2 DEF Scripted, HasResponse, CallsAt
<1>4. CASE Crash
  BY <1>1, <1>4 DEF Crash
<1>5. ASSUME NEW why, FinishRun(why)
      PROVE  Scripted'
  BY <1>0, <1>1, <1>5 DEF FinishRun, TypeOK, Log
<1>6. CASE LoopHead
  <2>1. CASE StepLimit
    BY <1>5, <2>1 DEF StepLimit
  <2>2. pc = "top"
    BY <1>6 DEF LoopHead, StepLimit, StopRecordedNoProgress, BeginTools,
                RecoverPending, ResumeResponse, BeginStep, NothingPending, AtTop
  <2>3. CASE ~StepLimit
    <3>1. UNCHANGED <<task, log>> /\ pc' \in {"failing", "start", "parse", "request"}
      BY <1>6, <2>3 DEF LoopHead, StopRecordedNoProgress, BeginTools,
                        RecoverPending, ResumeResponse, BeginStep, Raise
    <3> QED
      BY <1>1, <2>2, <3>1
  <2> QED
    BY <2>1, <2>3
<1>7. CASE SendRequest
  BY <1>0, <1>1, <1>7 DEF SendRequest, TypeOK, Log
<1>8. CASE LLMFails
  BY <1>1, <1>8 DEF LLMFails, Raise
<1>9. CASE scenario # "S05" /\ LLMAnswers(ResponseFor(scenario, step))
  <2>1. step \in Steps /\ ~HasResponse(step)
    BY <1>0, <1>9 DEF Place, LLMAnswers
  <2>2. /\ log'.responses = [log.responses EXCEPT ![step] = ResponseFor(scenario, step)]
        /\ log'.charges = log.charges /\ log'.messages = log.messages
        /\ log'.parsed = log.parsed /\ task' = task /\ pc = "await" /\ pc' = "parse"
    BY <1>0, <1>9, <2>1 DEF LLMAnswers, TypeOK, Log
  <2>3. \A s \in Steps : s # step => log'.responses[s] = log.responses[s]
    BY <1>0, <2>1, <2>2 DEF TypeOK, Log
  <2>4. log'.responses[step] = ResponseFor(scenario, step)
    BY <1>0, <2>1, <2>2 DEF TypeOK, Log
  <2>5. \A s \in log.messages \cup log.parsed : s \in Steps /\ s # step
    BY <1>0, <2>1 DEF TypeOK, Log, Scripted, Place
  <2>6. scenario = "S08" => log.messages = {}
    BY <2>2 DEF Scripted
  <2> QED
    BY <1>9, <2>1, <2>2, <2>3, <2>4, <2>5, <2>6 DEF Scripted, HasResponse, CallsAt
<1>10. CASE RecordText
  <2>1. step \in Steps /\ HasResponse(step) /\ pc = "parse"
    BY <1>0, <1>10 DEF Place, RecordText
  <2>2. scenario = "S08" => Answer.text = "over" /\ step \notin log.messages
    BY <2>1, Script DEF Scripted, Answer
  <2>3. /\ log'.responses = log.responses /\ log'.charges = log.charges
        /\ log'.parsed = log.parsed /\ task' = task
        /\ log'.messages \subseteq log.messages \cup {step}
        /\ scenario = "S08" => pc' = "failing"
        /\ pc' \in {"failing", "charge"}
    BY <1>0, <1>10, <2>2 DEF RecordText, Raise, TypeOK, Log
  <2> QED
    BY <2>1, <2>3 DEF Scripted, HasResponse, CallsAt
<1>11. CASE ChargeBudget
  <2>1. step \in Steps /\ HasResponse(step) /\ pc = "charge"
    BY <1>0, <1>11 DEF Place, ChargeBudget
  <2>2. Answer.cost = 1 /\ scenario # "S08"
    BY <2>1, Script DEF Scripted, Answer
  <2>3. cost = Spent
    BY <1>0, <2>1 DEF Ledger
  <2>4. log.charges[step] = None => cost = step - 1
    <3>1. CASE step = 1
      BY <2>1, <2>3, <3>1 DEF Spent
    <3>2. CASE step > 1 /\ log.charges[step] = None
      <4>1. step - 1 \in Steps /\ step - 1 < step
        BY <2>1, <3>2, ConfigAssumption DEF Steps
      <4>2. log.charges[step - 1] # None
        BY <1>0, <4>1 DEF Ledger
      <4>3. cost = log.charges[step - 1]
        BY <2>1, <2>3, <3>2 DEF Spent, Steps
      <4> QED
        BY <4>1, <4>2, <4>3 DEF Scripted
    <3> QED
      BY <2>1, <3>1, <3>2 DEF Steps
  <2> DEFINE total == IF log.charges[step] # None THEN log.charges[step]
                      ELSE cost + Answer.cost
  <2>5. total = step
    BY <2>1, <2>2, <2>4 DEF Scripted, Steps
  <2>6. /\ log'.responses = log.responses /\ log'.messages = log.messages
        /\ log'.parsed = log.parsed /\ task' = task
        /\ log'.charges = [log.charges EXCEPT ![step] = step]
    <3>1. log' = [log EXCEPT !.charges = [@ EXCEPT ![step] = total]] /\ task' = task
      BY <1>11 DEF ChargeBudget
    <3> HIDE DEF total
    <3> QED
      BY <1>0, <2>5, <3>1 DEF TypeOK, Log
  <2>7. \A s \in Steps : log'.charges[s] = IF s = step THEN s ELSE log.charges[s]
    BY <1>0, <2>1, <2>6 DEF TypeOK, Log
  <2> QED
    BY <2>2, <2>6, <2>7 DEF Scripted, HasResponse, CallsAt
<1>12. CASE RejectPartial \/ RejectContradiction
  BY <1>1, <1>12 DEF RejectPartial, RejectContradiction, Raise
<1>13. CASE Complete \/ FinishFailed
  BY <1>5, <1>13 DEF Complete, FinishFailed
<1>14. CASE ParseCalls
  <2>1. /\ log'.responses = log.responses /\ log'.charges = log.charges
        /\ log'.messages = log.messages /\ log'.parsed = log.parsed \cup {step}
        /\ task' = task /\ pc = "decide"
    BY <1>0, <1>14 DEF ParseCalls, TypeOK, Log
  <2>2. CallsAt(step) # <<>> /\ ~log.responses[step].incomplete
    BY <1>14 DEF ParseCalls, Answer, CallsAt
  <2> QED
    BY <2>1, <2>2 DEF Scripted, HasResponse, CallsAt
<1>15. CASE CheckProgress
  BY <1>0, <1>1, <1>15 DEF CheckProgress, Raise, TypeOK, Log
<1>16. CASE BatchStep
  <2>1. /\ UNCHANGED task /\ log'.responses = log.responses
        /\ log'.charges = log.charges /\ log'.messages = log.messages
        /\ log'.parsed = log.parsed
    BY <1>0, <1>16 DEF BatchStep, StartCall, LookUpRows, Running, RunRead, RunWrite,
                       RunEmail, MarkRolledBack, RecordResult, ToolsDone, TypeOK, Log
  <2>2. pc \in {"start", "exec"} /\ pc' \in {"start", "exec", "failing", "top"}
    BY <1>16 DEF BatchStep, StartCall, LookUpRows, Running, RunRead, RunWrite,
                 RunEmail, Collecting, MarkRolledBack, RecordResult, ToolsDone, Raise
  <2> QED
    BY <1>1, <2>1, <2>2
<1> QED
  BY <1>2, <1>3, <1>4, <1>6, <1>7, <1>8, <1>9, <1>10, <1>11, <1>12, <1>13, <1>14,
     <1>15, <1>16 DEF ScenarioStep

\* What the scenario records is so from the start, and stays so when nothing happens.
LEMMA SpecScripted == ScenarioSpec => []Scripted
<1>1. ScenarioInit => Scripted
  BY ScenarioAssumption DEF ScenarioInit, Init, EmptyLog, Scripted, HasResponse
<1>2. Scripted /\ scenario' = scenario /\ UNCHANGED vars => Scripted'
  BY DEF vars, Scripted, HasResponse, CallsAt
<1>3. LInv /\ Scripted /\ [Progress \/ Kill]_allVars => Scripted'
  BY <1>2, ScenarioSteps, ScriptedStep
<1> QED
  BY SpecIsRun, SpecLInv, <1>1, <1>3, PTL DEF ScenarioSpec

(***************************************************************************)
(* What the tools make of it.                                              *)
(***************************************************************************)

\* Only the batch writes rows, results and emails.
LEMMA OutsideBatch ==
  ASSUME LInv, ScenarioStep, ~(BatchStep /\ World)
  PROVE  UNCHANGED <<rows, sent>> /\ log'.results = log.results /\ pc' # "exec"
<1> USE DEF tables, volatile, vars
<1>0. TypeOK
  BY DEF LInv, IInv
<1>1. CASE Create \/ Resume \/ Crash
  BY <1>1 DEF Create, Resume, Crash
<1>2. CASE LoopHead
  BY <1>0, <1>2 DEF LoopHead, StepLimit, StopRecordedNoProgress, BeginTools,
                    RecoverPending, ResumeResponse, BeginStep, FinishRun, Raise,
                    TypeOK, Log
<1>3. CASE SendRequest \/ LLMFails \/ LLMAnswers(ResponseFor(scenario, step))
  BY <1>0, <1>3 DEF SendRequest, LLMFails, LLMAnswers, Raise, TypeOK, Log
<1>4. CASE RecordText \/ ChargeBudget \/ CheckProgress
  BY <1>0, <1>4 DEF RecordText, ChargeBudget, CheckProgress, Raise, TypeOK, Log
<1>5. CASE \/ RejectPartial \/ RejectContradiction \/ Complete \/ ParseCalls
          \/ FinishFailed
  BY <1>0, <1>5 DEF RejectPartial, RejectContradiction, Complete, ParseCalls,
                    FinishFailed, FinishRun, Raise, TypeOK, Log
<1> QED
  BY <1>1, <1>2, <1>3, <1>4, <1>5 DEF ScenarioStep

\* The email of S09, once for both of its calls (_idempotency_key).
OneEmail == [id |-> None, tool |-> "email", args |-> "once"]

\* The key of a call has its tool and its arguments.
LEMMA KeyFields ==
  ASSUME NEW c \in Call
  PROVE  IdempotencyKey(c).tool = c.tool /\ IdempotencyKey(c).args = c.args
<1>1. c = [id |-> c.id, tool |-> c.tool, args |-> c.args]
  BY DEF Call
<1>2. IdempotencyKey(c) = [id |-> IF c.tool = "email" THEN None ELSE c.id,
                           tool |-> c.tool, args |-> c.args]
  BY <1>1 DEF IdempotencyKey
<1> QED
  BY <1>2

\* Emails are pending in S09 and at the third step of S07 alone, and in S09 nothing
\* else is; in S10 the two calls are.
LEMMA PendingCalls ==
  ASSUME LInv, Scripted, run.status = "RUNNING_TOOLS", NEW i \in pending
  PROVE  /\ step \in log.parsed
         /\ CallOf(i).tool = "email" => scenario = "S09" \/ (scenario = "S07" /\ step = 3)
         /\ scenario = "S09" => CallOf(i).tool = "email" /\ Key(i) = OneEmail
         /\ scenario = "S10" => Key(i).tool = "read" /\ Key(i).args \in {"hang", "missing"}
<1>1. step \in log.parsed /\ i \in DOMAIN CallsAt(step)
  BY DEF LInv, IInv, CheckpointExplained, step, pending
<1>2. /\ step \in Steps /\ scenario \in ScenarioNames
      /\ CallsAt(step) = ResponseFor(scenario, step).calls
  BY <1>1, AcceptedSteps DEF CallsAt, Scripted
<1>3. /\ CallOf(i).tool = "email" => scenario = "S09" \/ (scenario = "S07" /\ step = 3)
      /\ scenario = "S09" => CallOf(i) = ToolCall("dup", "email", "once")
      /\ scenario = "S10" => CallOf(i).tool = "read" /\ CallOf(i).args \in {"hang", "missing"}
  BY <1>1, <1>2, ScriptedCalls DEF CallOf
<1>4. CallOf(i) \in Call
  BY CallType DEF LInv, IInv
<1>5. Key(i).tool = CallOf(i).tool /\ Key(i).args = CallOf(i).args
  BY <1>4, KeyFields DEF Key
<1>6. scenario = "S09" => CallOf(i).tool = "email" /\ Key(i) = OneEmail
  BY <1>3 DEF Key, IdempotencyKey, ToolCall, OneEmail
<1> QED
  BY <1>1, <1>3, <1>5, <1>6

\* A call that was run, or refused, without success.
Lost(status) == status \in {"failed", "blocked"}

\* What runs one call does to its row and to the batch.
LEMMA RunOne ==
  ASSUME LInv, NEW i \in pending, RunRead(i) \/ RunWrite(i) \/ RunEmail(i)
  PROVE  /\ Running /\ Key(i) \in Keys
         /\ \/ rows' = rows
            \/ \E st \in {"completed", "failed", "blocked"} :
                 SetRow(Key(i), st, "fits") /\ (Key(i).tool = "read" => st # "blocked")
         /\ \/ Settle(i, "ok") /\ rows'[Key(i)].status = "completed"
            \/ Settle(i, "failed") /\ (Key(i).tool = "read" => Lost(rows'[Key(i)].status))
            \/ FailAndRollBack(i) /\ Key(i).tool # "read"
<1> USE DEF Lost
<1>1. Running
  BY DEF RunRead, RunWrite, RunEmail
<1>0. Key(i).tool = CallOf(i).tool
  BY <1>1, CallType, KeyFields DEF Running, LInv, IInv, Place, Key
<1>2. TypeOK /\ Key(i) \in Keys
  BY <1>1, CallType DEF Running, LInv, IInv, Place
<1>3. \A st, sz : SetRow(Key(i), st, sz) => rows'[Key(i)].status = st
  BY <1>2 DEF SetRow, TypeOK
<1>4. ASSUME Reuse(i)
      PROVE  /\ rows' = rows
             /\ \/ Settle(i, "ok") /\ rows'[Key(i)].status = "completed"
                \/ Settle(i, "failed") /\ Lost(rows'[Key(i)].status)
  BY <1>2, <1>4 DEF Reuse, Outcome, HasRow, TypeOK, Execution
<1>5. ASSUME Block(i)
      PROVE  SetRow(Key(i), "blocked", "fits") /\ Settle(i, "failed")
  BY <1>5 DEF Block
<1>6. CASE RunRead(i)
  <2> HIDE DEF Lost
  <2>1. Lost("failed")
    BY DEF Lost
  <2> QED
    BY <1>1, <1>2, <1>3, <1>4, <1>6, <2>1, ScenarioAssumption DEF RunRead
<1>7. CASE RunWrite(i)
  <2>1. Key(i).tool # "read"
    BY <1>0, <1>7 DEF RunWrite, First, Todo
  <2> QED
    BY <1>1, <1>2, <1>3, <1>4, <1>5, <1>7, <2>1 DEF RunWrite
<1>8. CASE RunEmail(i)
  <2>1. Key(i).tool # "read"
    BY <1>0, <1>8 DEF RunEmail, First, Todo
  <2> QED
    BY <1>1, <1>2, <1>3, <1>4, <1>5, <1>8, <2>1, ScenarioAssumption DEF RunEmail
<1> QED
  BY <1>6, <1>7, <1>8

\* Nothing that fails by what its call names is ever taken to have succeeded, no read
\* fails without that, every result fits, and those of S10 are of its two calls.
Outcomes ==
  /\ \A k \in Keys :
       /\ rows[k].size = "fits"
       /\ rows[k].status = "completed" => k.args \notin Failing
       /\ k.tool = "read" /\ Lost(rows[k].status) => k.args \in Failing
  /\ pc = "exec" =>
       \A i \in pending :
         /\ batch.out[i] = "ok" => Key(i).args \notin Failing
         /\ Key(i).tool = "read" /\ batch.out[i] = "failed" => Key(i).args \in Failing
  /\ \A e \in log.results :
       /\ e.size = "fits"
       /\ e.ok => e.key.args \notin Failing
       /\ e.key.tool = "read" /\ ~e.ok => e.key.args \in Failing
       /\ scenario = "S10" => e.key.tool = "read" /\ e.key.args \in {"hang", "missing"}

\* Every step of the scenario preserves it.
LEMMA OutcomesStep ==
  ASSUME LInv, Scripted, Outcomes, ScenarioStep, scenario' = scenario
  PROVE  Outcomes'
<1> USE DEF tables, volatile, vars, step, pending
<1>0. TypeOK /\ CheckpointExplained /\ Place
  BY DEF LInv, IInv
<1>1. CASE ~(BatchStep /\ World)
  BY <1>1, OutsideBatch DEF Outcomes
<1>2. CASE BatchStep /\ World
  <2>1. CASE LookUpRows
    <3>1. /\ UNCHANGED <<rows, log, run>> /\ run.status = "RUNNING_TOOLS"
          /\ batch'.out = [i \in pending |->
               IF HasRow(Key(i)) THEN Outcome(Key(i)) ELSE "none"]
      BY <1>0, <2>1 DEF LookUpRows, Place
    <3>3. \A i \in pending : Key(i) \in Keys
      BY <1>0, <3>1, CallType
    <3>2. \A i \in pending :
            /\ batch'.out[i] = "ok" => rows[Key(i)].status = "completed"
            /\ batch'.out[i] = "failed" => Lost(rows[Key(i)].status)
      BY <1>0, <3>1, <3>3 DEF Outcome, HasRow, Lost, TypeOK, Execution
    <3> QED
      BY <3>1, <3>2, <3>3 DEF Outcomes, Key, CallOf, CallsAt
  <2>2. CASE ToolsDone
    BY <2>2 DEF ToolsDone, Outcomes
  <2>3. ASSUME NEW i \in pending, StartCall(i)
        PROVE  Outcomes'
    <3>1. UNCHANGED <<rows, run>> /\ pc' = "start" /\ log'.results = log.results
      BY <1>0, <2>3 DEF StartCall, TypeOK, Log
    <3> QED
      BY <3>1 DEF Outcomes
  <2>4. ASSUME NEW i \in pending, RunRead(i) \/ RunWrite(i) \/ RunEmail(i)
        PROVE  Outcomes'
    <3>1. /\ Running /\ Key(i) \in Keys
          /\ \/ rows' = rows
             \/ \E st \in {"completed", "failed", "blocked"} :
                  SetRow(Key(i), st, "fits") /\ (Key(i).tool = "read" => st # "blocked")
          /\ \/ Settle(i, "ok") /\ rows'[Key(i)].status = "completed"
             \/ Settle(i, "failed") /\ (Key(i).tool = "read" => Lost(rows'[Key(i)].status))
             \/ FailAndRollBack(i) /\ Key(i).tool # "read"
      BY <2>4, RunOne
    <3>2. \A k \in Keys : rows'[k].size = "fits"
      BY <1>0, <3>1 DEF SetRow, Outcomes, TypeOK
    <3>3. batch \in Batch /\ batch.out \in [pending -> {"none", "ok", "failed"}]
      BY <1>0, <3>1 DEF Running, TypeOK, Place
    <3> DEFINE now == rows'[Key(i)].status
    <3>0. \/ batch'.out = [batch.out EXCEPT ![i] = "ok"] /\ now = "completed"
          \/ /\ batch'.out = [batch.out EXCEPT ![i] = "failed"]
             /\ Key(i).tool = "read" => Lost(now)
          \/ /\ Key(i).tool # "read"
             /\ \E lost \in SUBSET Written :
                  batch'.out = [j \in DOMAIN batch.out |->
                                  IF j = i \/ j \in lost THEN "failed" ELSE batch.out[j]]
      <4>1. CASE Settle(i, "ok") /\ now = "completed"
        BY <3>3, <4>1 DEF Settle, Batch
      <4>2. CASE Settle(i, "failed") /\ (Key(i).tool = "read" => Lost(now))
        BY <3>3, <4>2 DEF Settle, Batch
      <4>3. CASE FailAndRollBack(i) /\ Key(i).tool # "read"
        BY <3>3, <4>3 DEF FailAndRollBack, Batch
      <4> QED
        BY <3>1, <4>1, <4>2, <4>3
    <3>4. \A j \in pending : batch'.out[j] = "ok" =>
            batch.out[j] = "ok" \/ (j = i /\ now = "completed")
      <4> HIDE DEF now
      <4> QED
        BY <3>0, <3>3
    <3>5. \A j : Key(j)' = Key(j)
      BY <3>1 DEF Running, Key, CallOf, CallsAt
    <3>6. \A j \in pending : Key(j).tool = CallOf(j).tool /\ Key(j) \in Keys
      BY <1>0, <3>1, CallType, KeyFields DEF Running, Place, Key
    <3>7. \A j \in pending : Key(j).tool = "read" /\ batch'.out[j] = "failed" =>
            batch.out[j] = "failed" \/ (j = i /\ Lost(now))
      <4>1. \A j \in Written : Key(j).tool # "read"
        BY <1>0, <3>1, <3>3, <3>6 DEF Written, Batch
      <4> HIDE DEF now
      <4> QED
        BY <3>0, <3>3, <4>1
    <3>8. \A k \in Keys : k.tool = "read" /\ Lost(rows'[k].status) => k.args \in Failing
      <4>1. \A k \in Keys : k.tool = "read" /\ rows'[k].status = "blocked"
                            => rows[k].status = "blocked"
        BY <1>0, <3>1 DEF SetRow, TypeOK
      <4> QED
        BY <1>2, <4>1 DEF Lost, World, Outcomes
    <3>9. \A k \in Keys : rows'[k].status = "completed" => k.args \notin Failing
      BY <1>2 DEF World
    <3>10. \A j \in pending :
             /\ batch'.out[j] = "ok" => Key(j).args \notin Failing
             /\ Key(j).tool = "read" /\ batch'.out[j] = "failed" => Key(j).args \in Failing
      BY <3>1, <3>4, <3>7, <3>8, <3>9 DEF Running, Outcomes
    <3> QED
      BY <3>1, <3>2, <3>5, <3>8, <3>9, <3>10 DEF Running, Outcomes
  <2>5. ASSUME NEW i \in pending, MarkRolledBack(i)
        PROVE  Outcomes'
    <3>1. pc = "exec" /\ batch.out \in [pending -> {"none", "ok", "failed"}]
      BY <1>0, <2>5 DEF MarkRolledBack, Collecting, Place
    <3>2. Key(i) \in Keys
      BY <1>0, <3>1, CallType DEF Place
    <3>3. /\ UNCHANGED <<log, run, pc>>
          /\ rows' = [rows EXCEPT ![Key(i)] = [@ EXCEPT !.status = "failed"]]
          /\ batch'.out = [batch.out EXCEPT ![i] = "failed"]
      BY <1>0, <2>5 DEF MarkRolledBack, TypeOK, Batch
    <3>4. \A k \in Keys : rows'[k].size = "fits"
      BY <1>0, <3>2, <3>3 DEF Outcomes, TypeOK, Execution
    <3>5. \A j : Key(j)' = Key(j)
      BY <3>3 DEF Key, CallOf, CallsAt
    <3>6. \A j \in pending : batch'.out[j] = "ok" => batch.out[j] = "ok"
      BY <3>1, <3>3
    <3>7. /\ \A k \in Keys : rows'[k].status \in {rows[k].status, "failed"}
          /\ rows'[Key(i)].status = "failed"
      BY <1>0, <3>2, <3>3 DEF TypeOK, Execution
    <3>8. \A k \in Keys :
            /\ rows'[k].status = "completed" => k.args \notin Failing
            /\ k.tool = "read" /\ Lost(rows'[k].status) => k.args \in Failing
      BY <1>2, <3>7 DEF Lost, World, Outcomes
    <3>9. \A j \in pending :
            Key(j).tool = "read" /\ batch'.out[j] = "failed" => Key(j).args \in Failing
      <4>1. \A j \in pending : j # i => batch'.out[j] = batch.out[j]
        BY <3>1, <3>3
      <4>2. Key(i).tool = "read" => Key(i).args \in Failing
        BY <3>2, <3>7, <3>8 DEF Lost
      <4> QED
        BY <3>1, <4>1, <4>2 DEF Outcomes
    <3> QED
      BY <3>1, <3>3, <3>4, <3>5, <3>6, <3>8, <3>9 DEF Outcomes
  <2>6. ASSUME NEW i \in pending, RecordResult(i)
        PROVE  Outcomes'
    <3> DEFINE e == [step |-> step, index |-> Index(i), key |-> Key(i),
                     ok |-> batch.out[i] = "ok",
                     size |-> IF batch.out[i] = "ok" THEN rows[Key(i)].size
                              ELSE "fits"]
    <3>1. /\ log' = log \/ log' = [log EXCEPT !.results = @ \cup {e}]
          /\ UNCHANGED <<rows, run, batch>> /\ pc = "exec"
      BY <2>6 DEF RecordResult, Collecting
    <3>2. Key(i) \in Keys
      BY <1>0, <3>1, CallType DEF Place
    <3>5. Key(i).tool = "read" /\ batch.out[i] # "ok" => Key(i).args \in Failing
      <4>1. batch.out[i] # "none"
        BY <1>0, <2>6, <3>1, CallType DEF RecordResult, Collecting, Todo, Place, Call
      <4>2. batch.out[i] \in {"none", "ok", "failed"}
        BY <1>0, <3>1 DEF Place
      <4> QED
        BY <3>1, <4>1, <4>2 DEF Outcomes
    <3>6. scenario = "S10" => Key(i).tool = "read" /\ Key(i).args \in {"hang", "missing"}
      BY <1>0, <3>1, PendingCalls DEF Place
    <3>3. /\ e.size = "fits"
          /\ e.ok => Key(i).args \notin Failing
          /\ Key(i).tool = "read" /\ ~e.ok => Key(i).args \in Failing
          /\ e.key = Key(i)
      BY <3>1, <3>2, <3>5 DEF Outcomes
    <3> HIDE DEF e
    <3>4. /\ log'.responses = log.responses
          /\ \A f \in log'.results : f \in log.results \/ f = e
      BY <1>0, <3>1 DEF TypeOK, Log
    <3> QED
      BY <3>1, <3>3, <3>4, <3>6 DEF Outcomes, Key, CallOf, CallsAt
  <2> QED
    BY <1>2, <2>1, <2>2, <2>3, <2>4, <2>5, <2>6 DEF BatchStep
<1> QED
  BY <1>1, <1>2

\* What the model is told of an earlier step, the conversation holds.
LEMMA TaintedByStep ==
  ASSUME LInv, Scripted, Tracked, NEW s \in Steps, s < step
  PROVE  /\ s \in log.parsed
         /\ \E i \in DOMAIN CallsAt(s) : Answered(s, i)
         /\ log.results # {}
<1>1. s \in log.parsed
  BY DEF LInv, Ledger
<1>2. CallsAt(s) \in Seq(Call) /\ s \in Steps
  BY <1>1, AnswerType DEF LInv, IInv, Place
<1>3. \A calls \in Seq(Call) : calls # <<>> => 1 \in DOMAIN calls
  OBVIOUS
<1>4. PICK i \in DOMAIN CallsAt(s) : TRUE
  BY <1>1, <1>2, <1>3 DEF Scripted
<1> QED
  BY <1>1, <1>4 DEF Tracked, EveryCallAnswered, Answered

\* A run that is created stays created.
LEMMA StaysCreated ==
  ASSUME LInv, ScenarioStep, run'.status = "NONE"
  PROVE  run.status = "NONE" /\ UNCHANGED sent
<1> USE DEF tables, volatile, vars, step, pending
<1>0. TypeOK /\ Place
  BY DEF LInv, IInv
<1>1. run.status = "NONE"
  <2>1. CASE run' = run
    BY <2>1
  <2>2. ~(Create \/ RecoverPending \/ BeginStep \/ ParseCalls \/ ToolsDone)
    BY <1>0 DEF Create, RecoverPending, BeginStep, ParseCalls, ToolsDone, TypeOK, RunRow
  <2>3. ~(StepLimit \/ Complete \/ FinishFailed)
    BY <1>0 DEF StepLimit, Complete, FinishFailed, FinishRun
  <2>4. CASE \/ Resume \/ StopRecordedNoProgress \/ BeginTools \/ ResumeResponse
             \/ SendRequest \/ LLMFails \/ LLMAnswers(ResponseFor(scenario, step))
             \/ RecordText \/ ChargeBudget \/ RejectPartial \/ RejectContradiction
             \/ CheckProgress \/ Crash
    BY <2>1, <2>4 DEF Resume, StopRecordedNoProgress, BeginTools, ResumeResponse,
                      SendRequest, LLMFails, LLMAnswers, RecordText, ChargeBudget,
                      RejectPartial, RejectContradiction, CheckProgress, Crash
  <2>5. ASSUME NEW i \in pending, \/ StartCall(i) \/ RunRead(i) \/ RunWrite(i)
                                  \/ RunEmail(i) \/ MarkRolledBack(i) \/ RecordResult(i)
        PROVE  run' = run
    BY <2>5 DEF StartCall, Running, RunRead, RunWrite, RunEmail, MarkRolledBack,
                RecordResult
  <2>6. CASE LookUpRows
    BY <2>1, <2>6 DEF LookUpRows
  <2> QED
    BY <2>1, <2>2, <2>3, <2>4, <2>5, <2>6 DEF ScenarioStep, LoopHead, BatchStep
<1>2. ~BatchStep
  <2>1. pc = "down"
    BY <1>0, <1>1 DEF Place
  <2> QED
    BY <2>1 DEF BatchStep, StartCall, LookUpRows, Running, RunRead, RunWrite, RunEmail,
                Collecting, MarkRolledBack, RecordResult, ToolsDone
<1> QED
  BY <1>1, <1>2, OutsideBatch

\* Only S09 sends, and then its one email, before the first result and without fail.
Mail ==
  /\ run.status = "NONE" => sent = {}
  /\ \A k \in sent : scenario = "S09" /\ k = OneEmail
  /\ scenario = "S09" =>
       /\ rows[OneEmail].status \in {"absent", "completed"}
       /\ log.results # {} => rows[OneEmail].status = "completed"
       /\ pc = "exec" =>
            \A i \in pending :
              /\ batch.out[i] # "failed"
              /\ batch.out[i] = "ok" => rows[OneEmail].status = "completed"

\* Every step of the scenario preserves it.
LEMMA MailStep ==
  ASSUME LInv, Tracked, Mailroom, Scripted, Mail, ScenarioStep, scenario' = scenario
  PROVE  Mail'
<1> USE DEF tables, volatile, vars, step, pending
<1>0. TypeOK /\ CheckpointExplained /\ Place
  BY DEF LInv, IInv
<1>1. CASE ~(BatchStep /\ World)
  BY <1>1, OutsideBatch, StaysCreated DEF Mail
<1>2. CASE BatchStep /\ World
  <2>0. run.status = "RUNNING_TOOLS" /\ run'.status # "NONE"
    <3>1. pc \in {"start", "exec"}
      BY <1>2 DEF BatchStep, StartCall, LookUpRows, Running, RunRead, RunWrite, RunEmail,
                  Collecting, MarkRolledBack, RecordResult, ToolsDone
    <3>2. run.status = "RUNNING_TOOLS"
      BY <1>0, <3>1 DEF Place
    <3> QED
      BY <3>2, StaysCreated
  <2>1. CASE LookUpRows
    <3>1. /\ UNCHANGED <<rows, sent, log, run>>
          /\ batch'.out = [i \in pending |->
               IF HasRow(Key(i)) THEN Outcome(Key(i)) ELSE "none"]
      BY <2>1 DEF LookUpRows
    <3>2. scenario = "S09" =>
            \A i \in pending : /\ batch'.out[i] # "failed"
                               /\ batch'.out[i] = "ok" => rows[OneEmail].status = "completed"
      BY <2>0, <3>1, PendingCalls DEF Mail, HasRow, Outcome
    <3> QED
      BY <2>0, <3>1, <3>2 DEF Mail
  <2>2. CASE ToolsDone
    BY <2>0, <2>2 DEF ToolsDone, Mail
  <2>3. ASSUME NEW i \in pending, StartCall(i)
        PROVE  Mail'
    <3>1. UNCHANGED <<rows, sent, run>> /\ pc' = "start" /\ log'.results = log.results
      BY <1>0, <2>3 DEF StartCall, TypeOK, Log
    <3> QED
      BY <2>0, <3>1 DEF Mail
  <2>4. ASSUME NEW i \in pending, MarkRolledBack(i)
        PROVE  Mail'
    <3>1. /\ UNCHANGED <<sent, log, run, pc>> /\ CallOf(i).tool = "write"
          /\ rows' = [rows EXCEPT ![Key(i)] = [@ EXCEPT !.status = "failed"]]
      BY <2>4 DEF MarkRolledBack, Mailroom
    <3>2. scenario # "S09"
      BY <2>0, <3>1, PendingCalls
    <3> QED
      BY <2>0, <3>1, <3>2 DEF Mail
  <2>5. ASSUME NEW i \in pending, RecordResult(i)
        PROVE  Mail'
    <3>1. /\ UNCHANGED <<rows, sent, run, batch>> /\ pc = "exec"
          /\ batch.out[i] # "none"
      <4>1. Collecting /\ UNCHANGED <<rows, sent, run, batch>>
        BY <2>5 DEF RecordResult
      <4>2. CallOf(i).tool \in Tools
        BY <1>0, <2>0, CallType DEF Call
      <4> QED
        BY <4>1, <4>2 DEF Collecting, Todo
    <3>2. scenario = "S09" => rows[OneEmail].status = "completed"
      BY <1>0, <3>1 DEF Mail, Place
    <3> QED
      BY <2>0, <3>1, <3>2 DEF Mail
  <2>6. ASSUME NEW i \in pending, RunRead(i) \/ RunWrite(i) \/ RunEmail(i)
        PROVE  Mail'
    <3>1. Running /\ Key(i) \in Keys
      BY <2>6, RunOne
    <3>2. batch \in Batch /\ batch.out \in [pending -> {"none", "ok", "failed"}]
      BY <1>0, <3>1 DEF Running, TypeOK, Place
    <3>3. CASE scenario # "S09"
      <4>1. sent' = sent
        <5>1. SUFFICES ASSUME sent' # sent
                       PROVE  FALSE
          OBVIOUS
        <5>2. RunEmail(i) /\ ~tainted /\ CallOf(i).tool = "email"
          BY <2>6, <5>1 DEF RunRead, RunWrite, RunEmail, Reuse, Block, First, Todo
        <5>3. scenario = "S07" /\ step = 3
          BY <2>0, <3>3, <5>2, PendingCalls
        <5>4. 1 \in Steps
          BY ConfigAssumption DEF Steps
        <5>5. log.results # {}
          BY <5>3, <5>4, TaintedByStep
        <5> QED
          BY <3>1, <5>2, <5>5 DEF Mailroom, Running
      <4> QED
        BY <2>0, <3>3, <4>1 DEF Mail
    <3>4. CASE scenario = "S09"
      <4>1. Key(i) = OneEmail /\ CallOf(i).tool = "email" /\ OneEmail \in MailKeys
        BY <2>0, <3>1, <3>4, PendingCalls DEF MailKeys, OneEmail
      <4>2. ~BatchFailed
        BY <3>1, <3>4 DEF Mail, BatchFailed, Running
      <4>3. RunEmail(i)
        BY <2>6, <4>1 DEF RunRead, RunWrite, First, Todo
      <4>4. ~HasRow(OneEmail) => ~tainted
        BY <3>1, <3>4 DEF Mail, HasRow, Mailroom, Running
      <4>5. \/ Reuse(i)
            \/ /\ sent' = sent \cup {OneEmail} /\ Settle(i, "ok")
               /\ \E size \in ResultSizes : SetRow(OneEmail, "completed", size)
        BY <4>1, <4>2, <4>3, <4>4, ScenarioAssumption DEF RunEmail, Block
      <4>6. /\ Settle(i, "ok") /\ rows'[OneEmail].status = "completed"
            /\ sent' \subseteq sent \cup {OneEmail}
        BY <1>0, <3>1, <3>4, <4>1, <4>5 DEF Reuse, HasRow, Outcome, SetRow, Mail, TypeOK
      <4>7. \A j \in pending : batch'.out[j] \in {batch.out[j], "ok"}
        BY <3>2, <4>6 DEF Settle, Batch
      <4> QED
        BY <2>0, <3>1, <3>4, <4>6, <4>7 DEF Running, Mail
    <3> QED
      BY <3>3, <3>4
  <2> QED
    BY <1>2, <2>1, <2>2, <2>3, <2>4, <2>5, <2>6 DEF BatchStep
<1> QED
  BY <1>1, <1>2

\* The checked steps up to s.
CheckedUpTo(s) == {t \in Steps : t <= s /\ log.checks[t] # 0}

\* S04 repeats itself with every check; no other scenario does.  Only a count below
\* the limit is left behind.
Checks ==
  /\ scenario # "S04" => \A s \in Steps : log.checks[s] <= 1
  /\ scenario = "S04" => \A s \in Steps :
       log.checks[s] # 0 => Cardinality(CheckedUpTo(s)) <= log.checks[s]
  /\ \A s \in Steps : s < step => log.checks[s] < NoProgressLimit

\* A set of steps is finite.
LEMMA StepsFinite ==
  ASSUME NEW S \in SUBSET Steps
  PROVE  IsFiniteSet(S) /\ Cardinality(S) \in Nat
<1>1. IsFiniteSet(Steps)
  BY FS_Interval, ConfigAssumption DEF Steps
<1> QED
  BY <1>1, FS_Subset, FS_CardinalityType

\* Without the verdict of an earlier process no check is at the limit.
LEMMA VerdictRead ==
  ASSUME LInv, Checked, ~RecordedNoProgress, step \in Steps
  PROVE  log.checks[step] < NoProgressLimit
<1> DEFINE t == LatestCheck(MaxSteps + 1)
<1>1. TypeOK /\ log.checks[step] \in Nat
  BY DEF LInv, IInv, TypeOK, Log
<1>2. CASE log.checks[step] = 0
  BY <1>2, ConfigAssumption
<1>3. CASE log.checks[step] # 0
  <2>1. \A u \in Steps : log.checks[u] # 0 => u <= step
    BY DEF Checked, LInv, Ledger
  <2>2. step < MaxSteps + 1
    BY ConfigAssumption DEF Steps
  <2>3. t \in Steps /\ log.checks[t] # 0 /\ step <= t
    BY <1>1, <1>3, <2>2, LatestCheckIsLast
  <2>4. t = step
    BY <2>1, <2>3 DEF Steps
  <2> QED
    BY <1>1, <1>3, <2>3, <2>4, ConfigAssumption DEF RecordedNoProgress, Steps
<1> QED
  BY <1>2, <1>3

\* A step that is checked repeats the last one only in S04, where it is the next of
\* a growing number.
LEMMA CountedRepeats ==
  ASSUME LInv, Checked, Scripted, Checks, step \in log.parsed
  PROVE  /\ scenario # "S04" => RepeatCount = 1
         /\ scenario = "S04" =>
              Cardinality({s \in Steps : s < step /\ log.checks[s] # 0}) + 1 <= RepeatCount
<1> DEFINE t == LatestCheck(step)
           earlier == {s \in Steps : s < step /\ log.checks[s] # 0}
<1>0. TypeOK /\ step \in Steps
  BY AcceptedSteps DEF LInv, IInv
<1>1. \/ t = 0 /\ \A u \in Steps : u < step => log.checks[u] = 0
      \/ /\ t \in Steps /\ t < step /\ log.checks[t] # 0
         /\ \A u \in Steps : u < step /\ log.checks[u] # 0 => u <= t
  BY <1>0, LatestCheckIsLast
<1>2. CASE t = 0 /\ \A u \in Steps : u < step => log.checks[u] = 0
  <2>1. RepeatCount = 1
    BY <1>2 DEF RepeatCount
  <2>2. earlier = {}
    BY <1>2
  <2>3. Cardinality(earlier) = 0
    BY <2>2, FS_EmptySet
  <2> QED
    BY <2>1, <2>3
<1>3. CASE /\ t \in Steps /\ t < step /\ log.checks[t] # 0
           /\ \A u \in Steps : u < step /\ log.checks[u] # 0 => u <= t
  <2>1. t \in log.parsed
    BY <1>3 DEF Checked
  <2>2. /\ CallsAt(t) = ResponseFor(scenario, t).calls
        /\ CallsAt(step) = ResponseFor(scenario, step).calls
    BY <2>1, AcceptedSteps DEF CallsAt
  <2>3. CASE scenario # "S04"
    <3>1. scenario = "S07" /\ step <= 3
      BY <1>0, <1>3, <2>1, <2>3, AcceptedSteps DEF Steps
    <3>2. ProgressDigest(CallsAt(t)) # ProgressDigest(CallsAt(step))
      BY <1>0, <1>3, <2>2, <3>1, ScriptedTools
    <3> QED
      BY <2>3, <3>2 DEF RepeatCount
  <2>4. CASE scenario = "S04"
    <3>1. RepeatCount = log.checks[t] + 1
      <4>1. ResponseFor("S04", t) = ResponseFor("S04", step)
        BY Answers
      <4>2. CallsAt(t) = CallsAt(step)
        BY <2>2, <2>4, <4>1
      <4>3. t # 0
        BY <1>3 DEF Steps
      <4> QED
        BY <4>2, <4>3 DEF RepeatCount
    <3>2. earlier \subseteq CheckedUpTo(t) /\ CheckedUpTo(t) \in SUBSET Steps
      BY <1>3 DEF CheckedUpTo
    <3>3. Cardinality(earlier) <= Cardinality(CheckedUpTo(t))
      BY <3>2, StepsFinite, FS_Subset
    <3>4. Cardinality(CheckedUpTo(t)) <= log.checks[t] /\ log.checks[t] \in Nat
      BY <1>0, <1>3, <2>4 DEF Checks, TypeOK, Log
    <3>5. Cardinality(earlier) \in Nat /\ Cardinality(CheckedUpTo(t)) \in Nat
      BY <3>2, StepsFinite
    <3> HIDE DEF earlier, t
    <3>6. Cardinality(earlier) + 1 <= RepeatCount
      BY <3>1, <3>3, <3>4, <3>5
    <3> QED
      BY <2>4, <3>6 DEF earlier
  <2> QED
    BY <2>3, <2>4
<1> QED
  BY <1>1, <1>2, <1>3

\* Every step of the scenario preserves what the checks count.
LEMMA ChecksStep ==
  ASSUME LInv, Checked, Scripted, Checks, ScenarioStep, scenario' = scenario
  PROVE  Checks'
<1> USE DEF tables, volatile, vars, step, pending
<1>0. TypeOK /\ CheckpointExplained /\ Place
  BY DEF LInv, IInv
<1>1. ASSUME step' = step, log'.checks = log.checks
      PROVE  Checks'
  BY <1>1 DEF Checks, CheckedUpTo
<1>2. CASE Create
  BY <1>0, <1>1, <1>2 DEF Create, TypeOK, RunRow
<1>3. CASE Resume \/ Crash
  BY <1>1, <1>3 DEF Resume, Crash
<1>4. ASSUME NEW why, FinishRun(why)
      PROVE  Checks'
  BY <1>0, <1>1, <1>4 DEF FinishRun, TypeOK, Log
<1>5. CASE StepLimit \/ Complete \/ FinishFailed
  BY <1>4, <1>5 DEF StepLimit, Complete, FinishFailed
<1>6. CASE StopRecordedNoProgress \/ BeginTools \/ ResumeResponse
  BY <1>1, <1>6 DEF StopRecordedNoProgress, BeginTools, ResumeResponse
<1>7. CASE RecoverPending
  BY <1>0, <1>1, <1>7 DEF RecoverPending, TypeOK, RunRow
<1>8. CASE BeginStep
  <2>1. log' = log /\ step' = NextStep /\ NextStep \in {step, step + 1} /\ step \in Nat
    BY <1>0, <1>8, ConfigAssumption DEF BeginStep, NextStep, TypeOK, RunRow
  <2>2. step \in Steps => log.checks[step] < NoProgressLimit
    BY <1>8, VerdictRead DEF BeginStep, NothingPending
  <2>3. \A s \in Steps : s < NextStep => s < step \/ s = step
    BY <2>1 DEF Steps
  <2> QED
    BY <2>1, <2>2, <2>3 DEF Checks, CheckedUpTo
<1>9. CASE \/ SendRequest \/ LLMFails \/ LLMAnswers(ResponseFor(scenario, step))
           \/ RecordText \/ ChargeBudget \/ RejectPartial \/ RejectContradiction
  BY <1>0, <1>1, <1>9 DEF SendRequest, LLMFails, LLMAnswers, RecordText, ChargeBudget,
                          RejectPartial, RejectContradiction, Raise, TypeOK, Log
<1>10. CASE ParseCalls
  BY <1>0, <1>1, <1>10 DEF ParseCalls, TypeOK, RunRow, Log
<1>11. CASE CheckProgress
  <2>1. step \in log.parsed /\ step \in Steps
    BY <1>0, <1>11 DEF CheckProgress, Place, CheckpointExplained, TypeOK, Log
  <2>2. log' = [log EXCEPT !.checks = [@ EXCEPT ![step] = RepeatCount]] /\ run' = run
    BY <1>11 DEF CheckProgress
  <2>3. \A s \in Steps : log'.checks[s] = IF s = step THEN RepeatCount ELSE log.checks[s]
    BY <1>0, <2>1, <2>2 DEF TypeOK, Log
  <2>4. scenario # "S04" => \A s \in Steps : log'.checks[s] <= 1
    BY <2>1, <2>3, CountedRepeats DEF Checks
  <2>5. ASSUME scenario = "S04", NEW s \in Steps, log'.checks[s] # 0
        PROVE  Cardinality(CheckedUpTo(s)') <= log'.checks[s]
    <3>1. CASE s = step
      <4> DEFINE earlier == {t \in Steps : t < step /\ log.checks[t] # 0}
      <4>1. CheckedUpTo(s)' \subseteq earlier \cup {step}
        BY <2>2, <2>3, <3>1 DEF CheckedUpTo, Steps
      <4>2. IsFiniteSet(earlier) /\ Cardinality(earlier) \in Nat
        <5>1. earlier \in SUBSET Steps
          OBVIOUS
        <5> QED
          BY <5>1, StepsFinite
      <4>3. /\ IsFiniteSet(earlier \cup {step})
            /\ Cardinality(earlier \cup {step}) <= Cardinality(earlier) + 1
        BY <4>2, FS_AddElement
      <4>4. /\ IsFiniteSet(CheckedUpTo(s)')
            /\ Cardinality(CheckedUpTo(s)') <= Cardinality(earlier \cup {step})
        BY <4>1, <4>3, FS_Subset
      <4>5. /\ Cardinality(CheckedUpTo(s)') \in Nat
            /\ Cardinality(earlier \cup {step}) \in Nat
        BY <4>3, <4>4, FS_CardinalityType
      <4>6. Cardinality(earlier) + 1 <= RepeatCount /\ RepeatCount \in Nat
        BY <1>0, <2>1, <2>5, CountedRepeats, RepeatCountType
      <4>7. log'.checks[s] = RepeatCount
        BY <2>3, <3>1
      <4> HIDE DEF earlier
      <4> QED
        BY <4>2, <4>3, <4>4, <4>5, <4>6, <4>7
    <3>2. CASE s # step
      <4>1. log'.checks[s] = log.checks[s] /\ s < step
        <5>1. s \in log.parsed
          BY <2>3, <2>5, <3>2 DEF Checked
        <5>2. s <= step
          BY <5>1 DEF LInv, Ledger
        <5> QED
          BY <2>1, <2>3, <3>2, <5>2 DEF Steps
      <4>2. CheckedUpTo(s)' = CheckedUpTo(s)
        BY <2>1, <2>3, <4>1 DEF CheckedUpTo, Steps
      <4> QED
        BY <2>5, <4>1, <4>2 DEF Checks
    <3> QED
      BY <3>1, <3>2
  <2>6. \A s \in Steps : s < step => log'.checks[s] < NoProgressLimit
    BY <2>1, <2>3 DEF Checks, Steps
  <2> QED
    BY <2>2, <2>4, <2>5, <2>6 DEF Checks
<1>12. CASE BatchStep
  <2>1. step' = step /\ log'.checks = log.checks
    BY <1>0, <1>12 DEF BatchStep, StartCall, LookUpRows, Running, RunRead, RunWrite,
                       RunEmail, MarkRolledBack, RecordResult, ToolsDone, TypeOK, Log,
                       RunRow
  <2> QED
    BY <1>1, <2>1
<1> QED
  BY <1>2, <1>3, <1>5, <1>6, <1>7, <1>8, <1>9, <1>10, <1>11, <1>12
  DEF ScenarioStep, LoopHead

\* The steps suffice: a scenario other than S04 takes four at most, and S04 one for
\* each check up to the limit and one for each check lost.
LEMMA StepsSuffice ==
  ASSUME LInv, LostExplained, Scripted, Checks, crashes <= Attempts, pc = "top"
  PROVE  step < MaxSteps
<1>0. /\ step \in Nat /\ MaxSteps \in Nat /\ step <= MaxSteps
      /\ crashes \in Nat /\ Attempts \in Nat
  BY ScenarioAssumption, ConfigAssumption DEF LInv, IInv, TypeOK, RunRow, step
<1>1. CASE scenario # "S04"
  <2>1. SUFFICES ASSUME step = MaxSteps
                 PROVE  FALSE
    BY <1>0
  <2>2. 4 \in Steps /\ 4 < step
    BY <2>1, LimitsAssumption, ConfigAssumption DEF Steps
  <2>3. 4 \in log.parsed
    BY <2>2 DEF LInv, Ledger
  <2> QED
    BY <1>1, <2>3, AcceptedSteps
<1>2. CASE scenario = "S04" /\ step <= 1
  BY <1>0, <1>2, LimitsAssumption
<1>3. CASE scenario = "S04" /\ step > 1
  <2> DEFINE checked == {s \in Steps : s < step /\ log.checks[s] # 0}
  <2>1. 1 .. (step - 1) \subseteq checked \cup LostChecks
    <3>1. ASSUME NEW s \in 1 .. (step - 1)
          PROVE  s \in checked \cup LostChecks
      <4>1. s \in Steps /\ s < step
        BY <1>0, <3>1 DEF Steps
      <4>2. s \in log.parsed
        BY <4>1 DEF LInv, Ledger
      <4> QED
        BY <4>1, <4>2 DEF LostChecks
    <3> QED
      BY <3>1
  <2>2. IsFiniteSet(checked) /\ Cardinality(checked) \in Nat
    <3>1. checked \in SUBSET Steps
      OBVIOUS
    <3> QED
      BY <3>1, StepsFinite
  <2>3. Cardinality(checked) < NoProgressLimit
    <3>1. CASE checked = {}
      <4>1. Cardinality(checked) = 0
        BY <3>1, FS_EmptySet
      <4> QED
        BY <4>1, ConfigAssumption
    <3>2. CASE checked # {}
      <4>1. PICK s \in checked : \A t \in checked : t <= s
        <5>1. checked \in SUBSET Steps
          OBVIOUS
        <5> HIDE DEF checked
        <5> QED
          BY <3>2, <5>1, HasLast
      <4>2. checked \subseteq CheckedUpTo(s) /\ CheckedUpTo(s) \in SUBSET Steps
        BY <4>1 DEF CheckedUpTo
      <4>3. Cardinality(checked) <= Cardinality(CheckedUpTo(s))
        BY <4>2, StepsFinite, FS_Subset
      <4>4. /\ Cardinality(CheckedUpTo(s)) <= log.checks[s]
            /\ log.checks[s] < NoProgressLimit /\ log.checks[s] \in Nat
        BY <1>3, <4>1 DEF Checks, LInv, IInv, TypeOK, Log
      <4>5. Cardinality(CheckedUpTo(s)) \in Nat
        BY <4>2, StepsFinite
      <4> HIDE DEF checked
      <4> QED
        BY <2>2, <4>3, <4>4, <4>5, ConfigAssumption
    <3> QED
      BY <3>1, <3>2
  <2>4. /\ IsFiniteSet(LostChecks) /\ Cardinality(LostChecks) \in Nat
        /\ Cardinality(LostChecks) <= Attempts
    BY <1>0, LostIsFinite DEF LostExplained
  <2> HIDE DEF checked
  <2>5. /\ IsFiniteSet(checked \cup LostChecks)
        /\ Cardinality(checked \cup LostChecks) <= Cardinality(checked) + Cardinality(LostChecks)
    <3>1. /\ IsFiniteSet(checked \cup LostChecks)
          /\ IsFiniteSet(checked \cap LostChecks)
          /\ Cardinality(checked \cup LostChecks)
               = Cardinality(checked) + Cardinality(LostChecks)
                 - Cardinality(checked \cap LostChecks)
      BY <2>2, <2>4, FS_Union, FS_Intersection
    <3>2. /\ Cardinality(checked \cap LostChecks) \in Nat
          /\ Cardinality(checked \cup LostChecks) \in Nat
      BY <3>1, FS_CardinalityType
    <3> QED
      BY <2>2, <2>4, <3>1, <3>2
  <2>6. Cardinality(1 .. (step - 1)) = step - 1
    BY <1>0, <1>3, FS_Interval
  <2>7. Cardinality(1 .. (step - 1)) <= Cardinality(checked \cup LostChecks)
    BY <2>1, <2>5, FS_Subset
  <2>8. Cardinality(checked \cup LostChecks) \in Nat
    BY <2>5, FS_CardinalityType
  <2> QED
    BY <1>0, <1>3, <2>2, <2>3, <2>4, <2>5, <2>6, <2>7, <2>8, LimitsAssumption,
       ConfigAssumption
<1> QED
  BY <1>0, <1>1, <1>2, <1>3

\* A run that fails, or is over, has the reason its scenario is there for, and in S11
\* has left the step whose call fails.
Ends ==
  /\ pc = "failing" => reason = ExpectedReason
  /\ run.status = "FINISHED" => run.reason = ExpectedReason
  /\ scenario = "S11" /\ (pc = "failing" \/ run.status = "FINISHED") => step > 1

\* The success claimed in S11 contradicts the results of its first step.
LEMMA FirstStepFailed ==
  ASSUME LInv, Tracked, Scripted, Outcomes, scenario = "S11", step \in Steps, step > 1
  PROVE  /\ \E e \in log.results : ~e.ok
         /\ LastBatchFailed(step)
<1>1. 1 \in Steps /\ 1 < step
  BY ConfigAssumption DEF Steps
<1>2. PICK i \in DOMAIN CallsAt(1) : Answered(1, i)
  BY <1>1, TaintedByStep
<1>3. PICK e \in log.results : e.step = 1 /\ e.key = IdempotencyKey(CallsAt(1)[i])
  BY <1>2 DEF Answered
<1>4. CallsAt(1)[i].args \in Failing
  <2>1. 1 \in log.parsed
    BY <1>1, TaintedByStep
  <2>2. CallsAt(1) = ResponseFor("S11", 1).calls
    BY <2>1, AcceptedSteps DEF CallsAt
  <2> QED
    BY <1>1, <1>2, <2>2, ScriptedCalls DEF ScenarioNames
<1>5. e.key.args = CallsAt(1)[i].args
  <2>1. CallsAt(1) \in Seq(Call)
    <3>1. 1 \in log.parsed
      BY <1>1, TaintedByStep
    <3> QED
      BY <1>1, <3>1, AnswerType DEF LInv, IInv, Place
  <2>2. CallsAt(1)[i] \in Call
    BY <1>2, <2>1
  <2> QED
    BY <1>3, <2>2 DEF IdempotencyKey, Call
<1>6. ~e.ok
  BY <1>3, <1>4, <1>5 DEF Outcomes
<1>7. \A f \in log.results : f.step \in log.parsed
  BY DEF Tracked
<1>8. \A f \in log.results : f.step = 1
  BY <1>7, AcceptedSteps
<1> QED
  BY <1>1, <1>3, <1>6, <1>8 DEF LastBatchFailed

\* What the model is told in S10: the call that hangs is ok, the other is not.
BothTold ==
  {<<e.key.args, e.ok>> : e \in log.results} = {<<"hang", TRUE>>, <<"missing", FALSE>>}

\* Once the first step of S10 is left behind both of its calls have their result.
LEMMA FirstStepTold ==
  ASSUME LInv, Tracked, Scripted, Outcomes, scenario = "S10", step \in Steps, step > 1
  PROVE  BothTold
<1>1. 1 \in Steps /\ 1 < step
  BY ConfigAssumption DEF Steps
<1>2. 1 \in log.parsed
  BY <1>1, TaintedByStep
<1>3. CallsAt(1) = <<ToolCall("hang", "read", "hang"), ToolCall("fail", "read", "missing")>>
  <2>1. CallsAt(1) = ResponseFor("S10", 1).calls
    BY <1>2, AcceptedSteps DEF CallsAt
  <2>2. Calls("S10")[1] = <<ToolCall("hang", "read", "hang"),
                            ToolCall("fail", "read", "missing")>>
    BY OneEntry, Zenon DEF Calls
  <2>3. ResponseFor("S10", 1).calls = Calls("S10")[1]
    <3>1. 1 \in DOMAIN Calls("S10")
      BY Turns DEF ScenarioNames, OneTurn
    <3> QED
      BY <1>1, <3>1, Answers DEF ScenarioNames
  <2> QED
    BY <2>1, <2>2, <2>3
<1>4. CallsAt(1) \in Seq(Call) /\ DOMAIN CallsAt(1) = {1, 2}
  <2>1. CallsAt(1) \in Seq(Call)
    BY <1>1, <1>2, AnswerType DEF LInv, IInv, Place
  <2>2. DOMAIN CallsAt(1) = 1 .. 2
    BY <1>3
  <2> QED
    BY <2>1, <2>2
<1>5. ASSUME NEW i \in {1, 2}
      PROVE  \E e \in log.results : e.key.args = CallsAt(1)[i].args
  <2>1. Answered(1, i)
    BY <1>1, <1>2, <1>4 DEF Tracked, EveryCallAnswered, Answered
  <2>2. PICK e \in log.results : e.key = IdempotencyKey(CallsAt(1)[i])
    BY <2>1 DEF Answered
  <2>3. CallsAt(1)[i] \in Call
    BY <1>4
  <2> QED
    BY <2>2, <2>3, KeyFields
<1>6. CallsAt(1)[1].args = "hang" /\ CallsAt(1)[2].args = "missing"
  BY <1>3 DEF ToolCall
<1>7. PICK e, f \in log.results : e.key.args = "hang" /\ f.key.args = "missing"
  BY <1>5, <1>6
<1>8. \A g \in log.results :
        /\ g.key.args \in {"hang", "missing"}
        /\ g.ok \in BOOLEAN
        /\ g.ok <=> g.key.args = "hang"
  <2>1. \A g \in log.results : g.ok \in BOOLEAN
    BY DEF LInv, IInv, TypeOK, Log, Result
  <2>2. "hang" \notin Failing /\ "missing" \in Failing
    BY DEF Failing
  <2> QED
    BY <2>1, <2>2 DEF Outcomes
<1>9. \A g \in log.results :
        \/ g.key.args = "hang" /\ g.ok = TRUE
        \/ g.key.args = "missing" /\ g.ok = FALSE
  BY <1>8
<1> QED
  BY <1>7, <1>9 DEF BothTold

\* What lies ahead of an answer without calls that is whole.
LEMMA Concluded ==
  ASSUME LInv, Tracked, Scripted, Outcomes, pc = "decide", Answer.calls = <<>>,
         ~Answer.incomplete
  PROVE  /\ Contradicts <=> scenario = "S11"
         /\ scenario = "S11" => step > 1
         /\ ~Contradicts => ExpectedReason = "completed"
<1>1. step \in Steps /\ HasResponse(step)
  BY DEF LInv, IInv, Place
<1>2. Answer = ResponseFor(scenario, step) /\ scenario \in ScenarioNames \ {"S05", "S08"}
  BY <1>1 DEF Scripted, Answer
<1>3. /\ Answer.text = "success" => scenario = "S11" /\ step > 1
      /\ scenario \in {"S09", "S11", "S12"} => step > 1
      /\ scenario = "S11" => Answer.text = "success"
      /\ scenario # "S04"
  BY <1>1, <1>2, Script
<1>4. scenario # "S12"
  <2>1. SUFFICES ASSUME scenario = "S12"
                 PROVE  FALSE
    OBVIOUS
  <2>2. 1 \in Steps /\ 1 < step
    BY <1>3, <2>1, ConfigAssumption DEF Steps
  <2>3. 1 \in log.parsed
    BY <2>2 DEF LInv, Ledger
  <2> QED
    BY <2>1, <2>3, AcceptedSteps
<1>5. Contradicts <=> scenario = "S11"
  BY <1>1, <1>3, FirstStepFailed DEF Contradicts
<1> QED
  BY <1>2, <1>3, <1>4, <1>5 DEF ExpectedReason

\* Every step of the scenario preserves it.
LEMMA EndsStep ==
  ASSUME LInv, Checked, LostExplained, Tracked, Scripted, Outcomes, Checks, Ends,
         crashes <= Attempts, ScenarioStep, scenario' = scenario
  PROVE  Ends'
<1> USE DEF tables, volatile, vars, step, pending
<1>0. TypeOK /\ CheckpointExplained /\ Place
  BY DEF LInv, IInv
<1>1. ExpectedReason' = ExpectedReason
  BY DEF ExpectedReason
<1>2. ASSUME run' = run \/ run'.status # "FINISHED", pc' # "failing"
      PROVE  Ends'
  BY <1>1, <1>2 DEF Ends
<1>3. ASSUME run' = run, Raise(ExpectedReason), scenario = "S11" => step > 1
      PROVE  Ends'
  BY <1>1, <1>3 DEF Ends, Raise
<1>4. ASSUME FinishRun(ExpectedReason), scenario = "S11" => step > 1
      PROVE  Ends'
  BY <1>1, <1>4 DEF Ends, FinishRun
<1>5. CASE Create
  BY <1>0, <1>2, <1>5 DEF Create, TypeOK, RunRow
<1>6. CASE Resume \/ Crash
  BY <1>2, <1>6 DEF Resume, Crash
<1>7. ~StepLimit
  <2>1. pc = "top" => step < MaxSteps
    BY StepsSuffice
  <2> QED
    BY <1>0, <2>1, ConfigAssumption DEF StepLimit, TypeOK, RunRow
<1>8. CASE StopRecordedNoProgress
  <2>1. scenario = "S04"
    <3> DEFINE t == LatestCheck(MaxSteps + 1)
    <3>1. t \in Steps /\ log.checks[t] > 1
      BY <1>0, <1>8, LatestCheckIsLast, LimitsAssumption, ConfigAssumption
      DEF StopRecordedNoProgress, RecordedNoProgress, TypeOK, Log
    <3> HIDE DEF t
    <3> QED
      BY <1>0, <3>1 DEF Checks, TypeOK, Log
  <2> QED
    BY <1>3, <1>8, <2>1 DEF StopRecordedNoProgress, ExpectedReason
<1>9. CASE BeginTools \/ ResumeResponse
  BY <1>2, <1>9 DEF BeginTools, ResumeResponse
<1>10. CASE RecoverPending \/ BeginStep
  BY <1>0, <1>2, <1>10 DEF RecoverPending, BeginStep, TypeOK, RunRow
<1>11. CASE SendRequest \/ LLMAnswers(ResponseFor(scenario, step))
  BY <1>2, <1>11 DEF SendRequest, LLMAnswers
<1>12. CASE scenario = "S05" /\ LLMFails
  BY <1>3, <1>12 DEF LLMFails, ExpectedReason
<1>13. CASE RecordText
  <2>1. step \in Steps /\ HasResponse(step) /\ run' = run
    BY <1>0, <1>13 DEF RecordText, Place
  <2>2. Answer.text = "over" => scenario = "S08"
    BY <2>1, Script DEF Scripted, Answer
  <2>3. \/ pc' = "charge"
        \/ scenario = "S08" /\ Raise("ContextLimitExceededError")
    BY <1>13, <2>2 DEF RecordText
  <2> QED
    BY <1>2, <1>3, <2>1, <2>3 DEF ExpectedReason
<1>14. CASE ChargeBudget
  <2>1. step \in Steps /\ HasResponse(step) /\ pc = "charge" /\ run' = run
    BY <1>0, <1>14 DEF ChargeBudget, Place
  <2> DEFINE total == IF log.charges[step] # None THEN log.charges[step]
                      ELSE cost + Answer.cost
  <2>2. total \in Nat
    <3>1. Answer.cost \in Nat
      BY <1>0, <2>1, AnswerType DEF Answer, Response
    <3> QED
      BY <1>0, <2>1, <3>1 DEF TypeOK, Log
  <2>3. log' = [log EXCEPT !.charges = [@ EXCEPT ![step] = total]]
    BY <1>14 DEF ChargeBudget
  <2>4. ~ExceedsBudget(total) => pc' = "decide"
    BY <1>14 DEF ChargeBudget
  <2> HIDE DEF total
  <2>5. log'.charges[step] = total
    BY <1>0, <2>1, <2>3 DEF TypeOK, Log
  <2>6. Scripted'
    BY ScriptedStep
  <2>7. total = step
    BY <2>1, <2>2, <2>5, <2>6, NoneAssumption DEF Scripted
  <2>8. ~ExceedsBudget(total)
    BY <2>1, <2>7, LimitsAssumption, ConfigAssumption DEF ExceedsBudget, Steps
  <2> QED
    BY <1>2, <2>1, <2>4, <2>8
<1>15. CASE RejectPartial
  <2>1. step \in Steps /\ HasResponse(step) /\ Answer.incomplete /\ run' = run
    BY <1>0, <1>15 DEF RejectPartial, Place
  <2>2. scenario = "S12"
    BY <2>1, Script DEF Scripted, Answer
  <2> QED
    BY <1>3, <1>15, <2>2 DEF RejectPartial, ExpectedReason
<1>16. CASE RejectContradiction
  <2>1. scenario = "S11" /\ step > 1
    BY <1>16, Concluded DEF RejectContradiction
  <2> QED
    BY <1>3, <1>16, <2>1 DEF RejectContradiction, ExpectedReason
<1>17. CASE Complete
  <2>1. ExpectedReason = "completed" /\ scenario # "S11"
    BY <1>17, Concluded DEF Complete
  <2> QED
    BY <1>4, <1>17, <2>1 DEF Complete
<1>18. CASE ParseCalls
  BY <1>0, <1>2, <1>18 DEF ParseCalls, TypeOK, RunRow
<1>19. CASE CheckProgress
  <2>1. step \in log.parsed /\ run' = run
    BY <1>0, <1>19 DEF CheckProgress, Place, CheckpointExplained
  <2>2. RepeatCount >= NoProgressLimit => scenario = "S04"
    BY <2>1, CountedRepeats, LimitsAssumption, ConfigAssumption
  <2>3. \/ pc' = "top"
        \/ scenario = "S04" /\ Raise("NoProgressError")
    BY <1>19, <2>2 DEF CheckProgress
  <2> QED
    BY <1>2, <1>3, <2>1, <2>3 DEF ExpectedReason
<1>20. CASE FinishFailed
  BY <1>4, <1>20 DEF FinishFailed, Ends
<1>21. CASE BatchStep
  <2>1. run' = run \/ run'.status # "FINISHED"
    BY <1>0, <1>21 DEF BatchStep, StartCall, LookUpRows, Running, RunRead, RunWrite,
                       RunEmail, MarkRolledBack, RecordResult, ToolsDone, TypeOK, RunRow
  <2>2. pc' # "failing"
    <3>1. ASSUME NEW i \in pending, RecordResult(i)
          PROVE  pc' # "failing"
      <4>1. Key(i) \in Keys /\ pc = "exec"
        BY <1>0, <3>1, CallType DEF RecordResult, Collecting, Place
      <4> QED
        BY <3>1, <4>1 DEF RecordResult, Outcomes
    <3> QED
      BY <1>21, <3>1 DEF BatchStep, StartCall, LookUpRows, Running, RunRead, RunWrite,
                         RunEmail, Collecting, MarkRolledBack, ToolsDone
  <2> QED
    BY <1>2, <2>1, <2>2
<1> QED
  BY <1>5, <1>6, <1>7, <1>8, <1>9, <1>10, <1>11, <1>12, <1>13, <1>14, <1>15, <1>16,
     <1>17, <1>18, <1>19, <1>20, <1>21
  DEF ScenarioStep, LoopHead

(***************************************************************************)
(* What the harness sees.                                                  *)
(***************************************************************************)

\* The harness kills no process but those it launches, and not the last one; only
\* the last one is told to resume a run that may not be there.
Harnessed ==
  /\ launches \in 0 .. Attempts + 1
  /\ command \in {"none", "run", "resume"}
  /\ pc # "down" => ProcessRuns
  /\ crashes <= Attempts /\ crashes <= launches /\ (ProcessRuns => crashes < launches)
  /\ command = "resume" /\ run.status = "NONE" => LastLaunched

\* What a process does that is not killed.
LEMMA WorkStep ==
  ASSUME LInv, Scripted, Work
  PROVE  /\ ScenarioStep /\ crashes' = crashes
         /\ run'.status = "NONE" => run.status = "NONE"
         /\ pc' = "down" => run'.status = "FINISHED"
<1> USE DEF tables, volatile, vars, step, pending
<1>1. ScenarioStep
  BY DEF Work, Serve, ScenarioStep
<1>2. crashes' = crashes
  BY DEF Work, Serve, Create, Resume, LoopHead, StepLimit, StopRecordedNoProgress,
         BeginTools, RecoverPending, ResumeResponse, BeginStep, SendRequest, LLMFails,
         LLMAnswers, RecordText, ChargeBudget, RejectPartial, RejectContradiction,
         Complete, ParseCalls, CheckProgress, FinishFailed, FinishRun, BatchStep,
         StartCall, LookUpRows, Running, RunRead, RunWrite, RunEmail, MarkRolledBack,
         RecordResult, ToolsDone
<1>3. ASSUME pc' = "down"
      PROVE  run'.status = "FINISHED"
  <2>1. ~(Create \/ Resume)
    BY <1>3 DEF Create, Resume, Scripted
  <2>2. StepLimit \/ Complete \/ FinishFailed => run'.status = "FINISHED"
    BY DEF StepLimit, Complete, FinishFailed, FinishRun
  <2>3. ~(\/ StopRecordedNoProgress \/ BeginTools \/ RecoverPending \/ ResumeResponse
          \/ BeginStep \/ Serve \/ SendRequest)
    BY <1>3 DEF StopRecordedNoProgress, BeginTools, RecoverPending, ResumeResponse,
                BeginStep, Serve, SendRequest, LLMFails, LLMAnswers, Raise
  <2>4. ~(\/ RecordText \/ ChargeBudget \/ RejectPartial \/ RejectContradiction
          \/ ParseCalls \/ CheckProgress)
    BY <1>3 DEF RecordText, ChargeBudget, RejectPartial, RejectContradiction,
                ParseCalls, CheckProgress, Raise
  <2>5. ~BatchStep
    BY <1>3 DEF BatchStep, StartCall, LookUpRows, Running, RunRead, RunWrite, RunEmail,
                Collecting, MarkRolledBack, RecordResult, ToolsDone, Raise
  <2> QED
    BY <2>1, <2>2, <2>3, <2>4, <2>5 DEF Work, LoopHead
<1> QED
  BY <1>1, <1>2, <1>3, StaysCreated

\* Every step of harness and process preserves it.
LEMMA HarnessedStep ==
  ASSUME LInv, Scripted, Harnessed, [Progress \/ Kill]_allVars
  PROVE  Harnessed'
<1> USE ScenarioAssumption DEF ProcessRuns, LastLaunched
<1>0. crashes \in Nat /\ Place
  BY DEF LInv, IInv, TypeOK
<1>1. CASE UNCHANGED allVars
  BY <1>1 DEF allVars, vars, harness, Harnessed
<1>2. CASE LaunchAttempt
  BY <1>0, <1>2 DEF LaunchAttempt, ResumeIfExists, vars, Harnessed
<1>3. CASE LaunchLast
  BY <1>0, <1>3 DEF LaunchLast, vars, Harnessed
<1>4. CASE Work
  <2>1. command' \in {"none", command} /\ (pc' # "down" => command' = command)
    BY <1>4 DEF Work
  <2>2. ProcessRuns /\ launches' = launches
    BY <1>4 DEF Work
  <2> QED
    BY <1>0, <1>4, <2>1, <2>2, WorkStep DEF Harnessed
<1>5. CASE NothingToDo
  BY <1>0, <1>5 DEF NothingToDo, ResumeFinished, vars, Harnessed
<1>6. CASE ExitFatally
  <2>1. /\ UNCHANGED <<pc, run, crashes, launches>> /\ pc = "down" /\ command' = "none"
    BY <1>0, <1>6 DEF ExitFatally, ResumeFails, vars, Place
  <2> QED
    BY <1>0, <2>1 DEF Harnessed
<1>7. CASE Inspect
  BY <1>0, <1>7 DEF Inspect, vars, Harnessed
<1>8. CASE Kill
  BY <1>0, <1>8 DEF Kill, Crash, tables, vars, Harnessed
<1> QED
  BY <1>1, <1>2, <1>3, <1>4, <1>5, <1>6, <1>7, <1>8 DEF Progress

\* The harness in every reachable state.
LEMMA SpecHarnessed == ScenarioSpec => []Harnessed
<1>1. ScenarioInit => Harnessed
  BY ScenarioAssumption DEF ScenarioInit, Init, Harnessed, ProcessRuns, LastLaunched
<1> QED
  BY SpecIsRun, SpecLInv, SpecScripted, HarnessedStep, <1>1, PTL DEF ScenarioSpec

(***************************************************************************)
(* The outcomes.                                                           *)
(***************************************************************************)

\* The inductive invariant of a scenario.
Played == Outcomes /\ Mail /\ Checks /\ Ends

\* The agent knows the email of S09.
LEMMA OneEmailType == OneEmail \in Keys
<1>1. 1 \in Steps /\ "S09" \in ScenarioNames /\ "S09" \in OneTurn
  BY ConfigAssumption DEF Steps, ScenarioNames, OneTurn
<1>2. ResponseFor("S09", 1).calls = Calls("S09")[1] /\ Calls("S09")[1] # <<>>
  BY <1>1, Turns, Answers
<1>3. ResponseFor("S09", 1).calls \in Seq(Call)
  BY <1>1, ScenarioAssumption, ModelAssumption DEF Response
<1>4. 1 \in DOMAIN ResponseFor("S09", 1).calls
  BY <1>2, <1>3
<1>5. ToolCall("dup", "email", "once") \in Call
  BY <1>1, <1>3, <1>4, ScriptedCalls
<1> QED
  BY <1>5 DEF ToolCall, Call, OneEmail, Keys

\* It holds at the start.
LEMMA InitPlayed ==
  ASSUME ScenarioInit
  PROVE  Played
<1>1. /\ rows = [k \in Keys |-> [status |-> "absent", size |-> "fits"]]
      /\ log.results = {} /\ log.checks = [s \in Steps |-> 0]
      /\ pc = "down" /\ sent = {} /\ run.status = "NONE" /\ step = 0
  BY DEF ScenarioInit, Init, EmptyLog, NoRow, step
<1>2. Outcomes
  BY <1>1 DEF Outcomes, Lost
<1>3. Mail
  BY <1>1, OneEmailType DEF Mail
<1>4. Checks
  BY <1>1, ConfigAssumption DEF Checks, Steps
<1>5. Ends
  BY <1>1 DEF Ends
<1> QED
  BY <1>2, <1>3, <1>4, <1>5 DEF Played

\* It holds in every reachable state.
LEMMA SpecPlayed == ScenarioSpec => []Played
<1>1. ScenarioInit => Played
  BY InitPlayed
<1>2. Played /\ scenario' = scenario /\ UNCHANGED vars => Played'
  BY DEF vars, step, pending, Played, Outcomes, Mail, Checks, CheckedUpTo, Ends,
         ExpectedReason, Key, CallOf, CallsAt
<1>3. /\ LInv /\ Checked /\ LostExplained /\ Tracked /\ Mailroom
      /\ Scripted /\ Harnessed /\ Played /\ [Progress \/ Kill]_allVars
      => Played'
  <2>1. SUFFICES ASSUME LInv, Checked, LostExplained, Tracked, Mailroom, Scripted,
                        Harnessed, Played, [Progress \/ Kill]_allVars
                 PROVE  Played'
    OBVIOUS
  <2>2. scenario' = scenario /\ (ScenarioStep \/ UNCHANGED vars)
    BY <2>1, ScenarioSteps
  <2>3. CASE ScenarioStep
    BY <2>1, <2>2, <2>3, OutcomesStep, MailStep, ChecksStep, EndsStep
    DEF Played, Harnessed
  <2> QED
    BY <1>2, <2>1, <2>2, <2>3
<1> QED
  BY SpecIsRun, SpecLInv, SpecChecked, SpecLostExplained, SpecTracked, SpecMailroom,
     SpecScripted, SpecHarnessed, <1>1, <1>3, PTL DEF ScenarioSpec

\* A run of a scenario that is over has the outcome its uninterrupted run is checked
\* for, wherever its processes were killed (_check_scenario).
THEOREM SpecOutcomeAsExpected == ScenarioSpec => []OutcomeAsExpected
<1>1. ASSUME LInv, Checked, Tracked, Mailroom, Scripted, Played, CompletedIsHonest
      PROVE  OutcomeAsExpected
  <2>1. SUFFICES ASSUME run.status = "FINISHED"
                 PROVE  /\ run.reason = ExpectedReason
                        /\ Cardinality(sent) = ExpectedEmails
                        /\ scenario = "S12" => log.starts = {}
                        /\ scenario = "S11" => \E e \in log.results : ~e.ok
                        /\ scenario = "S10" => BothTold
    BY DEF OutcomeAsExpected, BothTold
  <2>2. run.reason = ExpectedReason
    BY <1>1, <2>1 DEF Played, Ends
  <2>3. CASE scenario = "S09"
    <3>1. run.reason = "completed"
      BY <2>2, <2>3 DEF ExpectedReason
    <3>2. step \in Steps /\ HasResponse(step) /\ CallsAt(step) = <<>>
      BY <1>1, <3>1 DEF LInv, Ledger, CompletedIsHonest, HasResponse, CallsAt, step
    <3>3. step > 1
      BY <1>1, <2>3, <3>2, Script DEF Scripted, CallsAt
    <3>4. 1 \in Steps /\ 1 < step
      BY <3>3, ConfigAssumption DEF Steps
    <3>5. log.results # {}
      BY <1>1, <3>4, TaintedByStep
    <3>6. OneEmail \in sent
      BY <1>1, <2>3, <3>5, OneEmailType DEF Played, Mail, Mailroom, MailKeys, OneEmail
    <3>7. sent = {OneEmail}
      BY <1>1, <3>6 DEF Played, Mail
    <3>8. Cardinality(sent) = 1
      BY <3>7, FS_Singleton
    <3> QED
      BY <2>2, <2>3, <3>8 DEF ExpectedEmails
  <2>4. CASE scenario # "S09"
    <3>1. Cardinality(sent) = ExpectedEmails
      <4>1. sent = {}
        BY <1>1, <2>4 DEF Played, Mail
      <4> QED
        BY <2>4, <4>1, FS_EmptySet DEF ExpectedEmails
    <3>2. scenario = "S12" => log.starts = {}
      <4>1. scenario = "S12" => log.parsed = {}
        BY <1>1, AcceptedSteps
      <4> QED
        BY <1>1, <4>1 DEF Checked
    <3>3. scenario = "S11" => \E e \in log.results : ~e.ok
      <4>1. SUFFICES ASSUME scenario = "S11"
                     PROVE  \E e \in log.results : ~e.ok
        OBVIOUS
      <4>2. step > 1
        BY <1>1, <2>1, <4>1 DEF Played, Ends
      <4>3. step \in Steps
        BY <1>1, <4>2 DEF LInv, IInv, TypeOK, RunRow, Steps, step
      <4> QED
        BY <1>1, <4>1, <4>2, <4>3, FirstStepFailed DEF Played
    <3>4. scenario = "S10" => BothTold
      <4>1. SUFFICES ASSUME scenario = "S10"
                     PROVE  BothTold
        OBVIOUS
      <4>2. run.reason = "completed"
        BY <2>2, <4>1 DEF ExpectedReason
      <4>3. step \in Steps /\ HasResponse(step) /\ CallsAt(step) = <<>>
        BY <1>1, <4>2 DEF LInv, Ledger, CompletedIsHonest, HasResponse, CallsAt, step
      <4>4. step > 1
        BY <1>1, <4>1, <4>3, Script DEF Scripted, CallsAt
      <4> QED
        BY <1>1, <4>1, <4>3, <4>4, FirstStepTold DEF Played
    <3> QED
      BY <2>2, <3>1, <3>2, <3>3, <3>4
  <2> QED
    BY <2>3, <2>4
<1> QED
  BY SpecIsRun, SpecLInv, SpecChecked, SpecTracked, SpecMailroom, SpecScripted,
     SpecPlayed, SpecCompletedIsHonest, <1>1, PTL

\* The failures counted so far: those of a last process that found no run.
Tallied ==
  /\ scenario # "S08" =>
       /\ LastLaunched /\ ~ProcessRuns => run.status \in {"NONE", "FINISHED"}
       /\ ~inspected =>
            failures = IF LastLaunched /\ ~ProcessRuns /\ run.status = "NONE" THEN 1 ELSE 0
  /\ inspected => LastLaunched /\ ~ProcessRuns
  /\ HarnessFailsOnlyIf

\* Every step of harness and process preserves it.
LEMMA TalliedStep ==
  ASSUME LInv, Scripted, Played, Harnessed, OutcomeAsExpected, Tallied,
         [Progress \/ Kill]_allVars
  PROVE  Tallied'
<1> USE ScenarioAssumption DEF ProcessRuns, LastLaunched
<1>0. TypeOK /\ Place
  BY DEF LInv, IInv
<1>1. CASE UNCHANGED allVars
  BY <1>1 DEF allVars, vars, harness, Tallied, HarnessFailsOnlyIf, ExpectedEmails
<1>2. CASE LaunchAttempt \/ LaunchLast
  BY <1>2 DEF LaunchAttempt, LaunchLast, vars, Harnessed, Tallied, HarnessFailsOnlyIf
<1>3. CASE Work
  <2>1. /\ ProcessRuns /\ UNCHANGED <<scenario, launches, failures, inspected>>
        /\ command' = IF pc' = "down" THEN "none" ELSE command
    BY <1>3 DEF Work
  <2>2. pc' = "down" => run'.status = "FINISHED"
    BY <1>3, WorkStep
  <2>3. ~inspected
    BY <2>1 DEF Tallied
  <2> QED
    BY <2>1, <2>2, <2>3 DEF Tallied, HarnessFailsOnlyIf
<1>4. CASE NothingToDo
  BY <1>4 DEF NothingToDo, ResumeFinished, vars, Tallied, HarnessFailsOnlyIf
<1>5. CASE ExitFatally
  <2>1. /\ ProcessRuns /\ UNCHANGED <<run, scenario, launches, inspected>>
        /\ command' = "none" /\ failures' = failures + 1
    BY <1>5 DEF ExitFatally, ResumeFails, vars
  <2>2. scenario # "S08" => MemoryRebuilds
    <3>1. \A s \in log.messages : log.responses[s].text = "over" => scenario = "S08"
      <4>1. SUFFICES ASSUME NEW s \in log.messages, log.responses[s].text = "over"
                     PROVE  scenario = "S08"
        OBVIOUS
      <4>2. s \in Steps /\ HasResponse(s)
        BY <1>0 DEF TypeOK, Log, Scripted
      <4>3. log.responses[s] = ResponseFor(scenario, s) /\ scenario \in ScenarioNames
        BY <4>2 DEF Scripted
      <4> QED
        BY <4>1, <4>2, <4>3, Script
    <3>2. task # "huge" /\ \A e \in log.results : e.size # "over"
      BY DEF Scripted, Played, Outcomes
    <3> QED
      BY <3>1, <3>2 DEF MemoryRebuilds
  <2>3. scenario # "S08" => command = "resume" /\ run.status = "NONE"
    BY <1>5, <2>2 DEF ExitFatally, ResumeFails
  <2>4. ~inspected
    BY <2>1 DEF Tallied
  <2> QED
    BY <2>1, <2>3, <2>4 DEF Harnessed, Tallied, HarnessFailsOnlyIf
<1>6. CASE Inspect
  <2>1. /\ UNCHANGED <<run, sent, scenario, launches, command>> /\ LastLaunched
        /\ ~ProcessRuns /\ ~inspected /\ inspected'
        /\ failures' = failures + (IF Cardinality(sent) = ExpectedEmails THEN 0 ELSE 1)
    BY <1>6 DEF Inspect, vars
  <2>2. ExpectedEmails' = ExpectedEmails /\ ExpectedEmails \in {0, 1}
    BY <2>1 DEF ExpectedEmails
  <2>3. run.status = "FINISHED" => Cardinality(sent) = ExpectedEmails
    BY DEF OutcomeAsExpected
  <2>4. run.status = "NONE" => Cardinality(sent) = 0
    BY FS_EmptySet DEF Played, Mail
  <2>5. scenario # "S08" => run.status \in {"NONE", "FINISHED"}
    BY <2>1 DEF Tallied
  <2>6. scenario # "S08" => failures = IF run.status = "NONE" THEN 1 ELSE 0
    BY <2>1 DEF Tallied
  <2> QED
    BY <2>1, <2>2, <2>3, <2>4, <2>5, <2>6 DEF Tallied, HarnessFailsOnlyIf
<1>7. CASE Kill
  <2>1. /\ ProcessRuns /\ ~LastLaunched /\ command' = "none"
        /\ UNCHANGED <<run, scenario, launches, failures, inspected>>
    BY <1>7 DEF Kill, Crash, tables, vars
  <2> QED
    BY <2>1 DEF Tallied, HarnessFailsOnlyIf
<1> QED
  BY <1>1, <1>2, <1>3, <1>4, <1>5, <1>6, <1>7 DEF Progress

\* The harness exits with failures only for a run that no process ever committed to,
\* or for S08 (run_agent_chaos).
THEOREM SpecHarnessFailsOnlyIf == ScenarioSpec => []HarnessFailsOnlyIf
<1>1. ScenarioInit => Tallied
  BY ScenarioAssumption DEF ScenarioInit, Init, Tallied, HarnessFailsOnlyIf, LastLaunched
<1>2. Tallied => HarnessFailsOnlyIf
  BY DEF Tallied
<1> QED
  BY SpecIsRun, SpecLInv, SpecScripted, SpecPlayed, SpecHarnessed,
     SpecOutcomeAsExpected, TalliedStep, <1>1, <1>2, PTL DEF ScenarioSpec
=============================================================================
