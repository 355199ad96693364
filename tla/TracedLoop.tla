------------------------------ MODULE TracedLoop ------------------------------
(***************************************************************************)
(* AgentLoop with the JSONL trace beside it, and with the events that      *)
(* AgentLoop leaves out because nothing reads them back.  A line is        *)
(* written after the commit of its event and only when the commit inserted *)
(* it; the process may die in between.  Replay reads the file alone.  The  *)
(* lines about retries, which are no events, and parse errors are left out.*)
(***************************************************************************)
EXTENDS AgentLoop

CONSTANT Tears   \* may a process killed while it writes leave half a line?

VARIABLES
  notes,     \* events of the log that nothing reads back
  doing,     \* what the process is about to do with an event: nothing, commit
             \* it, or write its line
  trace,     \* the lines of the file
  commits    \* history: the events in the order of their commits

traced     == <<notes, doing, trace, commits>>
tracedVars == <<vars, traced>>

NoCall == <<>>
Event(type, s) == [type |-> type, step |-> s, call |-> NoCall]
CallEvent(type, e) == [type |-> type, step |-> e.step, call |-> <<e.index, e.key>>]

Nothing == [stage |-> "none", event |-> None]
Commit(e) == [stage |-> "commit", event |-> e]
Line(e)   == [stage |-> "line", event |-> e]

\* The events of a log that AgentLoop keeps.
Events(l) ==
  {Event("llm_request", s) : s \in l.requests}
    \cup {Event("llm_response", s) : s \in {t \in Steps : l.responses[t] # None}}
    \cup {Event("assistant_message", s) : s \in l.messages}
    \cup {Event("budget_charged", s) : s \in {t \in Steps : l.charges[t] # None}}
    \cup {Event("tool_calls_parsed", s) : s \in l.parsed}
    \cup {Event("progress_check", s) : s \in {t \in Steps : l.checks[t] # 0}}
    \cup {CallEvent("tool_execution_started", e) : e \in l.starts}
    \cup {CallEvent("tool_result", e) : e \in l.results}
    \cup {Event("run_finished", s) : s \in {t \in 0 .. MaxSteps :
                                              l.finished # None /\ l.finished.step = t}}

\* What a step of AgentLoop inserts: one event at most.
Inserted == Events(log') \ Events(log)

TracedInit ==
  /\ Init
  /\ notes = {}
  /\ doing = Nothing
  /\ trace = <<>>
  /\ commits = <<>>

\* run_started is traced once the task is in the memory, never when adding it
\* raised.
CreateTraced ==
  /\ Create
  /\ commits' = <<Event("run_started", 0)>>
  /\ doing' = IF pc' = "top" THEN Line(Event("run_started", 0)) ELSE Nothing
  /\ UNCHANGED <<notes, trace>>

\* Mutant: texts are not traced.
TextNeverTraced == pc = "parse"

\* A text is traced once it is in the memory, never when adding it raised.
TextLost == pc = "parse" /\ pc' = "failing"

\* Every other step that inserts an event is followed by its line.
Follow ==
  /\ IF Inserted = {}
     THEN doing' = Nothing /\ UNCHANGED commits
     ELSE LET e == CHOOSE x \in Inserted : TRUE
          IN  /\ commits' = Append(commits, e)
              /\ doing' = IF TextLost THEN Nothing ELSE Line(e)
  /\ UNCHANGED <<notes, trace>>

\* A step that is followed by an event of no consequence.
Note(type) ==
  /\ doing' = Commit(Event(type, run'.step))
  /\ UNCHANGED <<notes, trace, commits>>

StepLimitNote == Event("step_limit", step)

\* The steps of the process, each when the line before it is written.
LoopTraced ==
  /\ doing = Nothing
  /\ \/ CreateTraced
     \/ BeginStep /\ Note("step_start")
     \/ RejectPartial /\ Note("partial_tool_turn")
     \/ RejectContradiction /\ Note("model_contradiction")
     \/ StepLimit /\ StepLimitNote \in notes /\ Follow
     \/ /\ \/ Resume \/ StopRecordedNoProgress \/ BeginTools \/ RecoverPending
           \/ ResumeResponse
           \/ ContextTooLarge \/ SendRequest \/ LLMFails
           \/ \E r \in Responses : LLMAnswers(r)
           \/ RecordText \/ ChargeBudget \/ Complete \/ ParseCalls
           \/ CheckProgress \/ FinishFailed
           \/ BatchStep
        /\ Follow

\* The step limit is noted, in a commit of its own, before the run finishes.
NoteStepLimit ==
  /\ doing = Nothing
  /\ pc = "top"
  /\ step >= MaxSteps
  /\ StepLimitNote \notin notes
  /\ doing' = Commit(StepLimitNote)
  /\ UNCHANGED <<vars, notes, trace, commits>>

\* Mutant: the line is written whether or not the event was there.
CommitNoteAlways ==
  /\ doing.stage = "commit"
  /\ notes' = notes \cup {doing.event}
  /\ commits' = IF doing.event \in notes THEN commits ELSE Append(commits, doing.event)
  /\ doing' = Line(doing.event)
  /\ UNCHANGED <<vars, trace>>

\* append_event: an event that is there already is neither inserted nor traced.
CommitNote ==
  /\ doing.stage = "commit"
  /\ IF doing.event \in notes
     THEN doing' = Nothing /\ UNCHANGED <<notes, commits>>
     ELSE /\ notes' = notes \cup {doing.event}
          /\ commits' = Append(commits, doing.event)
          /\ doing' = Line(doing.event)
  /\ UNCHANGED <<vars, trace>>

TraceWith(whole) == Append(trace, [event |-> doing.event, whole |-> whole])

\* TraceWriter.log_trace.
WriteLine ==
  /\ doing.stage = "line"
  /\ trace' = TraceWith(TRUE)
  /\ doing' = Nothing
  /\ UNCHANGED <<vars, notes, commits>>

\* The process dies, possibly before its line or in the middle of it, and even
\* when the run is finished but its last line is not written.
Die ==
  /\ \/ Crash
     \/ /\ pc = "down" /\ doing # Nothing
        /\ crashes < MaxCrashes
        /\ crashes' = crashes + 1
        /\ UNCHANGED <<task, tables, pc, volatile>>
  /\ doing' = Nothing
  /\ \/ UNCHANGED trace
     \/ Tears /\ doing.stage = "line" /\ trace' = TraceWith(FALSE)
  /\ UNCHANGED <<notes, commits>>

\* A relaunch that leaves everything as it was.
Idle == doing = Nothing /\ (ResumeFails \/ ResumeFinished) /\ UNCHANGED traced

TracedProcess == LoopTraced \/ NoteStepLimit \/ CommitNote \/ WriteLine

TracedNext == TracedProcess \/ Die \/ Idle

TracedSpec == TracedInit /\ [][TracedNext]_tracedVars

(***************************************************************************)
(* Replay.                                                                 *)
(***************************************************************************)

\* A line ends with its own end: half a line spoils what is appended to it.
Readable(i) == trace[i].whole /\ (i > 1 => trace[i - 1].whole)

\* TraceReader.read and Replayer.replay: one malformed line and nothing is
\* replayed at all.
ReplayFails == \E i \in DOMAIN trace : ~Readable(i)
Replayed == IF ReplayFails THEN {} ELSE {trace[i].event : i \in DOMAIN trace}

(***************************************************************************)
(* Properties.                                                             *)
(***************************************************************************)

Ended == run.status = "FINISHED" /\ doing = Nothing

Position(e) == CHOOSE i \in DOMAIN commits : commits[i] = e

\* The trace never tells what was not committed, tells nothing twice however
\* often the process repeats what it did, and tells it in the order of the
\* commits (log_trace after append_event, the idempotency keys).
TraceFollowsLog ==
  /\ \A i \in DOMAIN trace : \E j \in DOMAIN commits : commits[j] = trace[i].event
  /\ \A i, j \in DOMAIN trace : i < j =>
       Position(trace[i].event) < Position(trace[j].event)

\* Texts and tasks whose line is never written: the memory refused them.
Refused ==
  Cardinality({s \in log.messages : log.responses[s].text = "over"})
    + (IF task = "huge" /\ run.status # "NONE" THEN 1 ELSE 0)

\* A process that dies costs the trace the one line it was about to write, and
\* when it dies inside a line, the line after it as well.  Nothing else is lost
\* but the messages that the memory refused.
LossExplained ==
  LET readable == {i \in DOMAIN trace : Readable(i)}
      halves   == {i \in DOMAIN trace : ~trace[i].whole}
      coming   == IF doing.stage = "line" THEN 1 ELSE 0
  IN  Len(commits) - Cardinality(readable) - coming
        <= crashes + Cardinality(halves) + Refused

\* The replay of a run that is over tells how it ended.
FinalDecisionReplayed == Ended => Event("run_finished", run.step) \in Replayed

\* The replay of a run that is over succeeds.
ReplaySucceeds == Ended => ~ReplayFails
=============================================================================
