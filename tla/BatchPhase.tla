----------------------------- MODULE BatchPhase -----------------------------
(***************************************************************************)
(* ToolBatch as the batch of AgentLoop.  A batch in full is a step of the  *)
(* loop's batch or none at all: the check of a row that finds none, a tool *)
(* body, the capture of a preimage, the putting back of a file and the end *)
(* of a phase change nothing that the loop knows.                          *)
(***************************************************************************)
EXTENDS ToolBatch

\* History: the calls without a row when this process looked the rows up.
VARIABLE fresh

LooksUp == pc = "start" /\ pc' = "reads"

PhaseInit == Init /\ fresh = {}
PhaseNext ==
  /\ Next
  /\ fresh' = IF LooksUp THEN {i \in Indexes : ~HasRow(Key(i))} ELSE fresh
PhaseSpec == PhaseInit /\ [][PhaseNext]_<<vars, fresh>>

\* With the fairness of ToolBatch.
FairPhaseSpec ==
  /\ PhaseSpec
  /\ WF_vars(Main)
  /\ \A i \in Slots : WF_vars(i \in Indexes /\ Reader(i))

(***************************************************************************)
(* The state of the loop.  The batch is that of step 2; an earlier step    *)
(* may have left a result.                                                 *)
(***************************************************************************)
AsArgs == (Paths \cup Emails) \X (Contents \cup {None})

\* A call, or its key, as the loop has it; and the key of the batch it is.
AsCall(c) == [id |-> c.id, tool |-> c.tool, args |-> <<c.target, c.content>>]
FromKey(k) == [id |-> k.id, tool |-> k.tool, target |-> k.args[1], content |-> k.args[2]]

AsKeys == [id : Ids \cup {None}, tool : {"read", "write", "email"}, args : AsArgs]

AsRows ==
  [k \in AsKeys |->
     [status |-> IF FromKey(k) \in Keys THEN rows[FromKey(k)] ELSE "absent",
      size |-> "fits"]]

AsRun ==
  [status |-> IF pc = "done" THEN "CALLING_LLM" ELSE "RUNNING_TOOLS",
   step |-> 2, reason |-> "none", pending |-> IF pc = "done" THEN {} ELSE Indexes]

AnswerOf(b) ==
  [text |-> "none", calls |-> [i \in DOMAIN b |-> AsCall(b[i])],
   incomplete |-> FALSE, cost |-> 0]

AsResponses == [s \in 1 .. 3 |-> IF s = 2 THEN AnswerOf(calls) ELSE None]
AsStart(i) == [step |-> 2, index |-> i, key |-> AsCall(Key(i))]
AsResult(i) ==
  [step |-> 2, index |-> i, key |-> AsCall(Key(i)), ok |-> results[i], size |-> "fits"]

EarlierResult ==
  [step |-> 1, index |-> 1, key |-> [id |-> None, tool |-> "read", args |-> None],
   ok |-> TRUE, size |-> "fits"]

AsStarts == {AsStart(i) : i \in started}
AsResults ==
  {AsResult(i) : i \in {j \in Indexes : results[j] # None}}
    \cup (IF tainted0 THEN {EarlierResult} ELSE {})

\* The steps cost nothing, and none is checked.
Uncharged == [s \in 1 .. 3 |-> None]
Unchecked == [s \in 1 .. 3 |-> 0]

AsLog ==
  [requests  |-> {2},
   responses |-> AsResponses,
   messages  |-> {},
   charges   |-> Uncharged,
   parsed    |-> {2},
   checks    |-> Unchecked,
   starts    |-> AsStarts,
   results   |-> AsResults,
   finished  |-> None]

Executing == pc \in {"reads", "effects", "wrote", "not written", "undo", "collect"}

AsPlace ==
  IF Executing THEN "exec" ELSE IF pc = "done" THEN "top" ELSE pc

AsIdx == IF pc \in {"start", "collect"} THEN at ELSE 1

\* The writes that can be put back; the loop puts all of them back in the step that
\* fails.
Held == {preimages[n].index : n \in DOMAIN preimages}
PutBack == restored \cup (IF pc = "undo" THEN Held ELSE {})

AsBatch ==
  IF Executing THEN [out |-> out, fresh |-> fresh, restored |-> PutBack]
  ELSE [out |-> <<>>, fresh |-> {}, restored |-> {}]

Loop == INSTANCE LoopBatch WITH
  MaxSteps <- 3, Budget <- 1, NoProgressLimit <- 1, Responses <- {AnswerOf(b) : b \in Batches},
  Args <- AsArgs, BadArgs <- BadEmails \X {None},
  TaskSizes <- {"fits"}, ResultSizes <- {"fits"},
  task <- "fits", run <- AsRun, log <- AsLog, rows <- AsRows,
  sent <- {AsCall(k) : k \in sent}, pc <- AsPlace, cost <- 0, idx <- AsIdx,
  batch <- AsBatch, reason <- "none"

\* What _execute_tool_calls does with threads, bodies and files is what the loop
\* takes its batch to be.
ImplementsLoop == Loop!BatchSpec
=============================================================================
