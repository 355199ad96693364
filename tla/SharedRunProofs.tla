---------------------------- MODULE SharedRunProofs ----------------------------
(***************************************************************************)
(* However many processes share a run, it is finished when all are         *)
(* through.  A row that is open again was opened by a process that is not  *)
(* through: this is what a process does last.                              *)
(***************************************************************************)
EXTENDS SharedRun, TLAPS

\* Every process has its locals, whatever their values are.
Locals(t) ==
  t = [pc |-> t.pc, step |-> t.step, status |-> t.status, call |-> t.call,
       seen |-> t.seen, tainted |-> t.tainted]

Threads == procs = [p \in Procs |-> procs[p]] /\ \A p \in Procs : Locals(procs[p])

IInv == Threads /\ EndsFinished

\* The invariant holds before the processes begin.
LEMMA Initially == Init => IInv
<1> SUFFICES ASSUME Init PROVE IInv
  OBVIOUS
<1>1. procs = [p \in Procs |-> Fresh]
  BY DEF Init
<1>2. Threads
  BY <1>1 DEF Threads, Locals, Fresh
<1>3. ~AllOver
  BY <1>1, SharedAssumption DEF AllOver, At, Fresh
<1> QED
  BY <1>2, <1>3 DEF IInv, EndsFinished

\* A step changes the locals of one process and leaves every process its own.
LEMMA ThreadsStep ==
  ASSUME Threads, NEW p \in Procs, Process(p) \/ Kill(p)
  PROVE  Threads'
<1>1. CASE LoadRow(p)
  BY <1>1 DEF LoadRow, Threads, Locals
<1>2. CASE StepLimit(p) \/ Complete(p)
  BY <1>2 DEF StepLimit, Complete, Finish, Go, Threads, Locals
<1>3. CASE Kill(p)
  BY <1>3 DEF Kill, Fresh, Threads, Locals
<1>4. CASE LoadEvents(p) \/ QueueRecovered(p)
  BY <1>4 DEF LoadEvents, QueueRecovered, Go, Threads, Locals
<1>5. CASE ReadRow(p) \/ BeginStep(p)
  BY <1>5 DEF ReadRow, BeginStep, Threads, Locals
<1>6. CASE Ask(p)
  BY <1>6 DEF Ask, Threads, Locals
<1>7. CASE LoopHead(p)
  BY <1>7 DEF LoopHead, Threads, Locals
<1>8. CASE LookForAnswer(p)
  BY <1>8 DEF LookForAnswer, Threads, Locals
<1>9. CASE ParseCalls(p) \/ CheckRow(p) \/ RunCall(p) \/ RecordResult(p) \/ ToolsDone(p)
  BY <1>9 DEF ParseCalls, CheckRow, RunCall, RecordResult, ToolsDone, Go, Threads, Locals
<1> QED
  BY <1>1, <1>2, <1>3, <1>4, <1>5, <1>6, <1>7, <1>8, <1>9 DEF Process

\* A process that gets through leaves a finished row behind.
LEMMA LeavesFinished ==
  ASSUME Threads, NEW p \in Procs, Process(p) \/ Kill(p), At(p, "over")'
  PROVE  row'.status = "FINISHED"
<1>1. CASE LoadRow(p)
  <2>1. procs' = [procs EXCEPT ![p] =
          IF row.status = "FINISHED" THEN [procs[p] EXCEPT !.pc = "over"]
          ELSE [procs[p] EXCEPT !.pc = "load", !.step = row.step, !.status = row.status,
                                !.call = row.pending]]
    BY <1>1 DEF LoadRow
  <2>2. CASE row.status = "FINISHED"
    BY <1>1, <2>2 DEF LoadRow, tables
  <2>3. CASE row.status # "FINISHED"
    BY <2>1, <2>3 DEF At, Threads, Locals
  <2> QED
    BY <2>2, <2>3
<1>2. CASE StepLimit(p) \/ Complete(p)
  BY <1>2 DEF StepLimit, Complete, Finish
<1>3. CASE Kill(p)
  BY <1>3 DEF Kill, Fresh, At, Threads, Locals
<1>4. CASE LoadEvents(p) \/ QueueRecovered(p)
  BY <1>4 DEF LoadEvents, QueueRecovered, Go, At, Threads, Locals
<1>5. CASE ReadRow(p) \/ BeginStep(p)
  BY <1>5 DEF ReadRow, BeginStep, At, Threads, Locals
<1>6. CASE Ask(p)
  BY <1>6 DEF Ask, At, Threads, Locals
<1>7. CASE LoopHead(p)
  BY <1>7 DEF LoopHead, At, Threads, Locals
<1>8. CASE LookForAnswer(p)
  BY <1>8 DEF LookForAnswer, At, Threads, Locals
<1>9. CASE ParseCalls(p) \/ CheckRow(p) \/ RunCall(p) \/ RecordResult(p) \/ ToolsDone(p)
  BY <1>9 DEF ParseCalls, CheckRow, RunCall, RecordResult, ToolsDone, Go, At, Threads, Locals
<1> QED
  BY <1>1, <1>2, <1>3, <1>4, <1>5, <1>6, <1>7, <1>8, <1>9 DEF Process

\* The invariant is inductive.
LEMMA Inductive == IInv /\ [Next]_vars => IInv'
<1> SUFFICES ASSUME IInv, [Next]_vars PROVE IInv'
  OBVIOUS
<1>1. CASE UNCHANGED vars
  BY <1>1 DEF IInv, Threads, EndsFinished, AllOver, At, vars, tables
<1>2. CASE Next
  <2>1. PICK p \in Procs : Process(p) \/ Kill(p)
    BY <1>2 DEF Next
  <2>2. Threads'
    BY <2>1, ThreadsStep DEF IInv
  <2>3. ASSUME AllOver' PROVE row'.status = "FINISHED"
    <3>1. At(p, "over")'
      BY <2>3 DEF AllOver
    <3> QED
      BY <2>1, <3>1, LeavesFinished DEF IInv
  <2> QED
    BY <2>2, <2>3 DEF IInv, EndsFinished
<1> QED
  BY <1>1, <1>2 DEF Next

\* However many processes resume the run, whatever they overwrite and whoever is
\* killed, the row is finished when the last of them is through.
THEOREM SharedRunFinishes == Spec => []EndsFinished
<1>1. IInv => EndsFinished
  BY DEF IInv
<1> QED
  BY Initially, Inductive, <1>1, PTL DEF Spec
=============================================================================
