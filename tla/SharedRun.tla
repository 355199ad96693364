------------------------------- MODULE SharedRun -------------------------------
(***************************************************************************)
(* Several processes resume one run at the same time.  AgentRuntime.run    *)
(* reads the row once and writes it back without a lock; events are        *)
(* ignored when their key is there; execution rows are overwritten.        *)
(*                                                                         *)
(* Every answer is one call or the end.  The server answers by the step    *)
(* alone, as the mock server does, and always answers.  The limits on      *)
(* repetition and cost are out of reach and no text claims anything, so    *)
(* the checks that AgentLoop models never end the run here.                *)
(***************************************************************************)
EXTENDS Integers

CONSTANTS
  Procs,      \* the processes
  MaxSteps,   \* RuntimeConfig.max_steps
  MaxKills,   \* bound: how often processes are killed
  None        \* no call, no event

ASSUME SharedAssumption == MaxSteps \in Nat \ {0} /\ Procs # {}

VARIABLES
  script,   \* what the server answers at each step
  row,      \* the row of runs: status, step_count, pending_tool_calls
  log,      \* the events that are read back
  execs,    \* tool_executions: the status of the row of each call
  sent,     \* sent_emails: is the email there?
  procs,    \* the locals of each process and where it is
  kills

tables == <<row, log, execs, sent>>
vars   == <<script, tables, procs, kills>>

Steps   == 1 .. MaxSteps
Calls   == {"read", "email"}
Answers == Calls \cup {"end"}

\* At most one email: an email asked twice is never answered again (AgentLoop).
Scripts ==
  {s \in [Steps -> Answers] : \A i, j \in Steps : s[i] = "email" /\ s[j] = "email" => i = j}

Fresh ==
  [pc |-> "start", step |-> 0, status |-> "STARTED", call |-> None, seen |-> None,
   tainted |-> FALSE]

\* The process that created the run was killed at once.
Init ==
  /\ script \in Scripts
  /\ row = [status |-> "STARTED", step |-> 0, pending |-> None]
  /\ log = [responses |-> [s \in Steps |-> None], parsed |-> [s \in Steps |-> None],
            results |-> {}, finished |-> None]
  /\ execs = [c \in Calls |-> "absent"]
  /\ sent = FALSE
  /\ procs = [p \in Procs |-> Fresh]
  /\ kills = 0

At(p, pc) == procs[p].pc = pc
Go(p, pc) == procs' = [procs EXCEPT ![p].pc = pc]

\* An event is there or becomes e: the first one stays.
First(old, e) == IF old = None THEN e ELSE old

LoadRow(p) ==
  /\ At(p, "start")
  /\ procs' = [procs EXCEPT ![p] =
       IF row.status = "FINISHED" THEN [@ EXCEPT !.pc = "over"]
       ELSE [@ EXCEPT !.pc = "load", !.step = row.step, !.status = row.status,
                      !.call = row.pending]]
  /\ UNCHANGED <<script, kills, tables>>

\* The memory is rebuilt from the events, and with it the untrusted-data flag.
LoadEvents(p) ==
  /\ At(p, "load")
  /\ procs' = [procs EXCEPT ![p].pc = "top", ![p].tainted = (log.results # {})]
  /\ UNCHANGED <<script, kills, tables>>

\* Mutant: a run that was finished before is left as it is.
FinishOnce(p) ==
  /\ row' = IF log.finished = None
            THEN [status |-> "FINISHED", step |-> procs[p].step, pending |-> None] ELSE row
  /\ log' = [log EXCEPT !.finished = First(@, procs[p].step)]
  /\ Go(p, "over")
  /\ UNCHANGED <<script, kills, execs, sent>>

\* finish_run: the row is overwritten, the event is not.
Finish(p) ==
  /\ row' = [status |-> "FINISHED", step |-> procs[p].step, pending |-> None]
  /\ log' = [log EXCEPT !.finished = First(@, procs[p].step)]
  /\ Go(p, "over")
  /\ UNCHANGED <<script, kills, execs, sent>>

StepLimit(p) == At(p, "top") /\ procs[p].step >= MaxSteps /\ Finish(p)

\* Mutant: recovery does not look for results.
RecoverableAnyway(s) == s > 0 /\ log.parsed[s] # None

\* _recover_pending_tool_calls: was the call of this step not answered at it?
Recoverable(s) ==
  s > 0 /\ log.parsed[s] # None /\ [call |-> log.parsed[s], step |-> s] \notin log.results

LoopHead(p) ==
  LET s == procs[p].step
  IN  /\ At(p, "top")
      /\ s < MaxSteps
      /\ procs' = [procs EXCEPT ![p] =
           IF @.call # None THEN [@ EXCEPT !.pc = "check"]
           ELSE IF Recoverable(s)
           THEN [@ EXCEPT !.pc = "queue", !.call = log.parsed[s], !.status = "RUNNING_TOOLS"]
           ELSE [@ EXCEPT !.pc = "look"]]
      /\ UNCHANGED <<script, kills, tables>>

\* update_run with what was recovered.
QueueRecovered(p) ==
  /\ At(p, "queue")
  /\ row' = [status |-> "RUNNING_TOOLS", step |-> procs[p].step, pending |-> procs[p].call]
  /\ Go(p, "check")
  /\ UNCHANGED <<script, kills, log, execs, sent>>

\* The events are read a second time: a recorded answer, or the next step.
LookForAnswer(p) ==
  LET s        == procs[p].step
      answered == s > 0 /\ log.responses[s] # None
      open     == answered /\ log.parsed[s] = None /\ log.finished # s
  IN  /\ At(p, "look")
      /\ procs' = [procs EXCEPT ![p] =
           IF open THEN [@ EXCEPT !.pc = "process", !.call = log.responses[s]]
           ELSE [@ EXCEPT !.pc = "begin",
                          !.step = IF @ > 0 /\ ~answered /\ procs[p].status = "CALLING_LLM"
                                   THEN @ ELSE @ + 1]]
      /\ UNCHANGED <<script, kills, tables>>

\* update_run reads the row and keeps its pending calls ...
ReadRow(p) ==
  /\ At(p, "begin")
  /\ procs' = [procs EXCEPT ![p].pc = "write", ![p].seen = row.pending]
  /\ UNCHANGED <<script, kills, tables>>

\* ... and then writes it.
BeginStep(p) ==
  /\ At(p, "write")
  /\ row' = [status |-> "CALLING_LLM", step |-> procs[p].step, pending |-> procs[p].seen]
  /\ procs' = [procs EXCEPT ![p].pc = "ask", ![p].status = "CALLING_LLM"]
  /\ UNCHANGED <<script, kills, log, execs, sent>>

\* The process goes on with the answer it got, recorded or not.
Ask(p) ==
  LET s == procs[p].step
  IN  /\ At(p, "ask")
      /\ log' = [log EXCEPT !.responses[s] = First(@, script[s])]
      /\ procs' = [procs EXCEPT ![p].pc = "process", ![p].call = script[s]]
      /\ UNCHANGED <<script, kills, row, execs, sent>>

Complete(p) == At(p, "process") /\ procs[p].call = "end" /\ Finish(p)

ParseCalls(p) ==
  LET s == procs[p].step
      c == procs[p].call
  IN  /\ At(p, "process")
      /\ c # "end"
      /\ row' = [status |-> "RUNNING_TOOLS", step |-> s, pending |-> c]
      /\ log' = [log EXCEPT !.parsed[s] = First(@, c)]
      /\ procs' = [procs EXCEPT ![p].pc = "top", ![p].status = "RUNNING_TOOLS"]
      /\ UNCHANGED <<script, kills, execs, sent>>

\* The look-up of the batch and the one of the executor, which finds what the
\* first one would.
CheckRow(p) ==
  /\ At(p, "check")
  /\ Go(p, IF execs[procs[p].call] = "absent" THEN "act" ELSE "collect")
  /\ UNCHANGED <<script, kills, tables>>

\* The call runs, or is blocked, and its row is written whatever is there by now.
RunCall(p) ==
  LET c       == procs[p].call
      blocked == c = "email" /\ procs[p].tainted
  IN  /\ At(p, "act")
      /\ execs' = [execs EXCEPT ![c] = IF blocked THEN "blocked" ELSE "completed"]
      /\ sent' = (sent \/ (c = "email" /\ ~blocked))
      /\ Go(p, "collect")
      /\ UNCHANGED <<script, kills, row, log>>

\* _tool_result_event_key: that of an email leaves the step out.
ResultKey(c, s) == IF c = "email" THEN <<c>> ELSE <<c, s>>

\* Only the process whose result is recorded adds it to its memory.
RecordResult(p) ==
  LET s     == procs[p].step
      c     == procs[p].call
      there == \E e \in log.results : ResultKey(e.call, e.step) = ResultKey(c, s)
  IN  /\ At(p, "collect")
      /\ log' = IF there THEN log
                ELSE [log EXCEPT !.results = @ \cup {[call |-> c, step |-> s]}]
      /\ procs' = [procs EXCEPT ![p].pc = "done", ![p].tainted = @ \/ ~there]
      /\ UNCHANGED <<script, kills, row, execs, sent>>

\* The row is open again, even when another process has finished the run.
ToolsDone(p) ==
  /\ At(p, "done")
  /\ row' = [status |-> "CALLING_LLM", step |-> procs[p].step, pending |-> None]
  /\ procs' = [procs EXCEPT ![p].pc = "top", ![p].status = "CALLING_LLM", ![p].call = None]
  /\ UNCHANGED <<script, kills, log, execs, sent>>

Process(p) ==
  \/ LoadRow(p) \/ LoadEvents(p)
  \/ StepLimit(p) \/ LoopHead(p) \/ QueueRecovered(p) \/ LookForAnswer(p)
  \/ ReadRow(p) \/ BeginStep(p) \/ Ask(p) \/ Complete(p) \/ ParseCalls(p)
  \/ CheckRow(p) \/ RunCall(p) \/ RecordResult(p) \/ ToolsDone(p)

\* A process is killed and resumes the run anew.
Kill(p) ==
  /\ kills < MaxKills
  /\ ~At(p, "start") /\ ~At(p, "over")
  /\ kills' = kills + 1
  /\ procs' = [procs EXCEPT ![p] = Fresh]
  /\ UNCHANGED <<script, tables>>

Next == \E p \in Procs : Process(p) \/ Kill(p)

Spec == Init /\ [][Next]_vars

\* Each process goes on on its own; none waits for another.
FairSpec == Spec /\ \A p \in Procs : WF_vars(Process(p))

(***************************************************************************)
(* Properties.                                                             *)
(***************************************************************************)
AllOver == \A p \in Procs : At(p, "over")

\* However the processes overwrite each other's row, the run is finished when the
\* last of them is through (finish_run after another process reopened the row).
EndsFinished == AllOver => row.status = "FINISHED"

\* Every process comes to an end unless one is killed: no two of them make each
\* other recover the same call for ever.
AllEnd == <>(AllOver \/ kills > 0)

\* No email is sent once the log has the result of a tool (DECISIONS.md: "blocked
\* after any tool-result data enters the conversation").
MailBeforeResults == [][~sent /\ sent' => log.results = {}]_vars

\* Every call that was accepted before the last step is answered at its step when
\* the last process is through (runtime.py: "pending calls can survive
\* interruption and be replayed exactly once").
EveryCallAnswered ==
  AllOver => \A s \in 1 .. MaxSteps - 1 :
    log.parsed[s] # None => [call |-> log.parsed[s], step |-> s] \in log.results

\* Nobody observes half of a sent email: its execution row says completed.
EmailNotTorn == sent => execs["email"] = "completed"
=============================================================================
