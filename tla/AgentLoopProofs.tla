--------------------------- MODULE AgentLoopProofs ---------------------------
(***************************************************************************)
(* The inductive invariant of AgentLoop, for every menu of answers, every  *)
(* limit and every number of crashes: the types, the agreement of row and  *)
(* log, and what each place of AgentRuntime.run knows about them.  On it   *)
(* rest cost, budget, no-progress and termination, the tool batches and    *)
(* the emails: the run implements the abstract outbox, and the log tells   *)
(* the whole story of each batch.                                          *)
(***************************************************************************)
EXTENDS AgentLoop, FiniteSetTheorems, SequenceTheorems, WellFoundedInduction,
        TLAPS

(***************************************************************************)
(* Reading the log back.                                                   *)
(***************************************************************************)

\* The order of the naturals is well founded, as a relation.
LEMMA OrderIsWellFounded ==
  \E less : /\ IsWellFoundedOn(less, Nat)
            /\ \A m, n \in Nat : m < n => <<m, n>> \in less
<1> DEFINE less == {ss \in Nat \X Nat : ss[1] < ss[2]}
<1>1. IsWellFoundedOn(less, Nat)
  BY NatLessThanWellFounded, Zenon DEF OpToRel
<1>2. \A m, n \in Nat : m < n => <<m, n>> \in less
  OBVIOUS
<1> QED
  BY <1>1, <1>2

\* A non-empty set of steps has a last one; the CHOOSE expressions that read
\* the log back rely on it.
LEMMA HasLast ==
  ASSUME NEW S \in SUBSET Steps, S # {}
  PROVE  \E t \in S : \A u \in S : u <= t
<1> DEFINE gaps == {MaxSteps - s : s \in S}
<1>1. gaps \subseteq Nat
  <2>1. \A s \in S : MaxSteps - s \in Nat
    BY ConfigAssumption DEF Steps
  <2> QED
    BY <2>1
<1>2. gaps # {}
  <2>1. PICK s \in S : TRUE
    OBVIOUS
  <2>2. MaxSteps - s \in gaps
    BY <2>1
  <2> QED
    BY <2>2
<1>3. PICK less : /\ IsWellFoundedOn(less, Nat)
                  /\ \A m, n \in Nat : m < n => <<m, n>> \in less
  BY OrderIsWellFounded
<1>4. PICK g \in gaps : \A h \in gaps : ~ (<<h, g>> \in less)
  <2> HIDE DEF gaps
  <2>1. \E x \in gaps : \A y \in gaps : ~ (<<y, x>> \in less)
    <3>1. IsWellFoundedOn(less, Nat) /\ gaps \subseteq Nat /\ gaps # {}
      BY <1>1, <1>2, <1>3
    <3> QED
      BY <3>1, WFMin
  <2> QED
    BY <2>1
<1>5. \A h \in gaps : g <= h
  <2> HIDE DEF gaps
  <2>1. g \in Nat /\ \A h \in gaps : h \in Nat
    BY <1>1
  <2>2. SUFFICES ASSUME NEW h \in gaps, h < g
                  PROVE  FALSE
    BY <2>1
  <2>3. <<h, g>> \in less
    BY <2>1, <2>2, <1>3
  <2> QED
    BY <2>3, <1>4
<1>6. PICK t \in S : g = MaxSteps - t
  BY <1>4
<1>7. \A u \in S : MaxSteps - t <= MaxSteps - u
  BY <1>5, <1>6
<1> QED
  BY <1>7, ConfigAssumption DEF Steps

\* What each place of AgentRuntime.run knows about the row and the log.
Place ==
  /\ pc \in {"request", "await"} => step \in Steps /\ ~HasResponse(step)
  /\ pc \in {"parse", "charge", "decide"} =>
       step \in Steps /\ HasResponse(step) /\ step \notin log.parsed
  /\ pc \in {"progress", "start", "exec"} => run.status = "RUNNING_TOOLS"
  /\ pc = "failing" => reason # "none"
  /\ pc \notin {"exec", "failing"} => batch = NoBatch
  /\ pc = "exec" => batch.out \in [pending -> {"none", "ok", "failed"}]
  /\ run.status = "NONE" => pc = "down"
  /\ run.status = "FINISHED" => pc = "down"
  /\ pending # {} => run.status = "RUNNING_TOOLS"
  /\ \A s \in log.parsed : HasResponse(s)
  /\ \A s \in Steps : HasResponse(s) => s <= step

\* The inductive invariant of the run.
IInv == TypeOK /\ CheckpointExplained /\ Place

\* Every call has an execution key (_idempotency_key).
LEMMA KeyType ==
  ASSUME NEW c \in Call
  PROVE  IdempotencyKey(c) \in Keys
BY DEF Call, IdempotencyKey, Keys

\* A recorded answer is an answer, and its calls are calls.
LEMMA AnswerType ==
  ASSUME TypeOK, NEW s \in Steps, HasResponse(s)
  PROVE  log.responses[s] \in Response /\ CallsAt(s) \in Seq(Call)
BY ModelAssumption DEF TypeOK, Log, HasResponse, CallsAt, Response

\* While a row runs tools, its pending positions are calls of the recorded
\* answer, with a key and an index.
LEMMA CallType ==
  ASSUME TypeOK, CheckpointExplained, Place, run.status = "RUNNING_TOOLS",
         NEW i \in pending
  PROVE  /\ step \in Steps
         /\ CallOf(i) \in Call
         /\ Key(i) \in Keys
         /\ i \in Nat /\ i > 0
         /\ Index(i) \in Nat
<1>1. step \in Steps /\ HasResponse(step)
  BY DEF TypeOK, Log, CheckpointExplained, Place, step
<1>2. CallsAt(step) \in Seq(Call)
  BY <1>1, AnswerType
<1>3. i \in DOMAIN CallsAt(step) /\ pending \subseteq 1 .. Len(CallsAt(step))
  BY <1>2 DEF CheckpointExplained
<1>4. CallOf(i) \in Call
  BY <1>2, <1>3 DEF CallOf
<1>5. Key(i) \in Keys
  BY <1>4, KeyType DEF Key
<1>6. i \in Nat /\ i > 0
  BY <1>2, <1>3
<1>7. Index(i) \in Nat
  <2> DEFINE before == {j \in pending : j <= i}
  <2>1. IsFiniteSet(1 .. Len(CallsAt(step)))
    BY <1>2, FS_Interval
  <2>2. before \in SUBSET (1 .. Len(CallsAt(step)))
    BY <1>3
  <2>3. IsFiniteSet(before)
    BY <2>1, <2>2, FS_Subset
  <2> QED
    BY <2>3, FS_CardinalityType DEF Index
<1> QED
  BY <1>1, <1>4, <1>5, <1>6, <1>7

\* The cost a relaunched process starts from is a number (_cost_so_far).
LEMMA CostSoFarType ==
  ASSUME TypeOK
  PROVE  CostSoFar \in Nat
<1> DEFINE charged == {s \in Steps : log.charges[s] # None}
<1>1. CASE charged = {}
  BY <1>1 DEF CostSoFar
<1>2. CASE charged # {}
  <2>1. \E s \in charged : \A t \in charged : t <= s
    <3>1. charged \in SUBSET Steps
      OBVIOUS
    <3> HIDE DEF charged
    <3> QED
      BY <1>2, <3>1, HasLast
  <2>2. PICK s \in charged : CostSoFar = log.charges[s]
    <3> DEFINE last == CHOOSE s \in charged : \A t \in charged : t <= s
    <3>1. last \in charged
      <4> HIDE DEF charged
      <4> QED
        BY <2>1
    <3>2. CostSoFar = log.charges[last]
      BY <1>2 DEF CostSoFar
    <3> QED
      BY <3>1, <3>2
  <2>3. log.charges[s] \in Nat
    BY DEF TypeOK, Log
  <2> QED
    BY <2>2, <2>3
<1> QED
  BY <1>1, <1>2

\* _latest_progress_check finds the last recorded check before a step, and no
\* check only when there is none.
LEMMA LatestCheckIsLast ==
  ASSUME TypeOK, NEW s
  PROVE  LET t == LatestCheck(s)
         IN  \/ /\ t = 0
                /\ \A u \in Steps : u < s => log.checks[u] = 0
             \/ /\ t \in Steps /\ t < s
                /\ log.checks[t] # 0
                /\ \A u \in Steps : u < s /\ log.checks[u] # 0 => u <= t
<1> DEFINE earlier == {t \in Steps : t < s /\ log.checks[t] # 0}
<1>1. CASE earlier = {}
  BY <1>1 DEF LatestCheck
<1>2. CASE earlier # {}
  <2> DEFINE last == CHOOSE t \in earlier : \A u \in earlier : u <= t
  <2>1. earlier \in SUBSET Steps
    OBVIOUS
  <2>2. last \in earlier /\ \A u \in earlier : u <= last
    <3>1. \E t \in earlier : \A u \in earlier : u <= t
      <4> HIDE DEF earlier
      <4> QED
        BY <1>2, <2>1, HasLast
    <3> HIDE DEF earlier
    <3> QED
      BY <3>1
  <2>3. LatestCheck(s) = last
    BY <1>2 DEF LatestCheck
  <2> QED
    BY <2>2, <2>3
<1> QED
  BY <1>1, <1>2

\* A recorded repetition count is positive (_check_progress).
LEMMA RepeatCountType ==
  ASSUME TypeOK
  PROVE  RepeatCount \in Nat \ {0}
<1>1. \/ LatestCheck(step) = 0
      \/ LatestCheck(step) \in Steps
  BY LatestCheckIsLast
<1>2. CASE LatestCheck(step) = 0
  BY <1>2 DEF RepeatCount
<1>3. CASE LatestCheck(step) \in Steps
  <2>1. log.checks[LatestCheck(step)] \in Nat
    BY <1>3 DEF TypeOK, Log
  <2> QED
    BY <2>1 DEF RepeatCount
<1> QED
  BY <1>1, <1>2, <1>3

(***************************************************************************)
(* Types, and the agreement of row, log and place.                         *)
(***************************************************************************)

\* Settling one call keeps the batch a batch.
LEMMA SettledBatch ==
  ASSUME IInv, Running, NEW i \in pending, NEW outcome \in {"ok", "failed"},
         Settle(i, outcome)
  PROVE  /\ batch' \in Batch
         /\ batch'.out \in [pending -> {"none", "ok", "failed"}]
<1>1. batch \in Batch /\ batch.out \in [pending -> {"none", "ok", "failed"}]
  BY DEF IInv, Running, TypeOK, Place
<1> QED
  BY <1>1 DEF Settle, Batch

\* Failing a call and putting writes back keeps the batch a batch.
LEMMA RolledBackBatch ==
  ASSUME IInv, Running, NEW i \in pending, FailAndRollBack(i)
  PROVE  /\ batch' \in Batch
         /\ batch'.out \in [pending -> {"none", "ok", "failed"}]
<1>1. batch \in Batch /\ batch.out \in [pending -> {"none", "ok", "failed"}]
  BY DEF IInv, Running, TypeOK, Place
<1>2. PICK lost \in SUBSET Written :
        batch' = [batch EXCEPT
                    !.out = [j \in DOMAIN @ |->
                               IF j = i \/ j \in lost THEN "failed" ELSE @[j]],
                    !.restored = @ \cup (Written \ lost)]
  BY DEF FailAndRollBack
<1>3. Written \subseteq pending
  BY <1>1 DEF Written, Batch
<1>4. batch'.out \in [pending -> {"none", "ok", "failed"}]
  BY <1>1, <1>2 DEF Batch
<1> QED
  BY <1>1, <1>2, <1>3, <1>4 DEF Batch

\* Every step of the run preserves the types.
LEMMA TypeStep ==
  ASSUME IInv, Next
  PROVE  TypeOK'
<1> USE ConfigAssumption, ModelAssumption
    DEF tables, volatile, vars, step, pending
<1>0. TypeOK /\ CheckpointExplained /\ Place
  BY DEF IInv
<1>1. CASE Create
  <2>1. run' \in RunRow
    BY <1>0, <1>1 DEF Create, TypeOK, RunRow
  <2>2. /\ pc' \in {"down", "top"}
        /\ UNCHANGED <<task, log, rows, sent, volatile, crashes>>
    BY <1>1 DEF Create
  <2>3. run'.pending = run.pending
    BY <1>0, <1>1 DEF Create, TypeOK, RunRow
  <2> QED
    BY <1>0, <2>1, <2>2, <2>3 DEF TypeOK, Batch, Places
<1>2. CASE Resume
  <2>1. cost' \in Nat
    BY <1>0, <1>2, CostSoFarType DEF Resume
  <2>2. tainted' \in BOOLEAN
    BY <1>2 DEF Resume, RebuiltTaint
  <2>3. pc' = "top" /\ UNCHANGED <<task, tables, idx, batch, reason, crashes>>
    BY <1>2 DEF Resume
  <2> QED
    BY <1>0, <2>1, <2>2, <2>3 DEF TypeOK, Batch, Places
<1>3. CASE ResumeFails \/ ResumeFinished
  BY <1>0, <1>3 DEF ResumeFails, ResumeFinished, TypeOK, Batch
<1>4. CASE Crash
  <2>1. batch' \in Batch'
    BY <1>0, <1>4 DEF Crash, Batch, NoBatch
  <2>2. crashes' \in 0 .. MaxCrashes
    BY <1>0, <1>4 DEF Crash, TypeOK
  <2>3. tainted' \in BOOLEAN
    BY <1>4 DEF Crash
  <2>4. /\ pc' = "down" /\ cost' = 0 /\ idx' = 1 /\ reason' = "none"
        /\ UNCHANGED <<task, tables>>
    BY <1>4 DEF Crash
  <2> QED
    BY <1>0, <2>1, <2>2, <2>3, <2>4 DEF TypeOK, Places
<1>5. ASSUME NEW why \in Reasons, FinishRun(why)
      PROVE  TypeOK'
  <2>1. run' \in RunRow
    BY <1>0, <1>5 DEF FinishRun, TypeOK, RunRow
  <2>2. batch' \in Batch'
    BY <1>0, <1>5 DEF FinishRun, Batch, NoBatch
  <2>3. log' \in Log
    <3>1. [reason |-> why, step |-> step] \in [reason : Reasons, step : 0 .. MaxSteps]
      BY <1>0, <1>5 DEF TypeOK, RunRow
    <3> QED
      BY <1>0, <1>5, <3>1 DEF FinishRun, TypeOK, Log
  <2>4. tainted' \in BOOLEAN
    BY <1>5 DEF FinishRun
  <2>5. /\ pc' = "down" /\ cost' = 0 /\ idx' = 1 /\ reason' = "none"
        /\ UNCHANGED <<task, rows, sent, crashes>>
    BY <1>5 DEF FinishRun
  <2> QED
    BY <1>0, <2>1, <2>2, <2>3, <2>4, <2>5 DEF TypeOK, Places
<1>6. CASE RecordText
  <2>1. step \in Steps
    BY <1>0, <1>6 DEF RecordText, Place
  <2>2. log' \in Log
    BY <1>0, <1>6, <2>1 DEF RecordText, TypeOK, Log
  <2>3. pc' \in Places /\ reason' \in Reasons \cup {"none"}
    BY <1>0, <1>6 DEF RecordText, Raise, TypeOK, Places, Reasons
  <2>4. UNCHANGED <<task, run, rows, sent, cost, tainted, idx, batch, crashes>>
    BY <1>6 DEF RecordText
  <2> QED
    BY <1>0, <2>2, <2>3, <2>4 DEF TypeOK, Batch, Places
<1>7. ASSUME pc' \in Places, reason' \in Reasons \cup {"none"}, idx' \in Nat \ {0},
             UNCHANGED <<task, tables, cost, tainted, batch, crashes>>
      PROVE  TypeOK'
  BY <1>0, <1>7 DEF TypeOK, Batch
<1>8. CASE StopRecordedNoProgress
  BY <1>0, <1>7, <1>8 DEF StopRecordedNoProgress, Raise, TypeOK, Places, Reasons
<1>9. CASE BeginTools
  BY <1>0, <1>7, <1>9 DEF BeginTools, TypeOK, Places, Reasons
<1>10. CASE ResumeResponse
  BY <1>0, <1>7, <1>10 DEF ResumeResponse, TypeOK, Places, Reasons
<1>11. CASE ContextTooLarge
  BY <1>0, <1>7, <1>11 DEF ContextTooLarge, Raise, TypeOK, Places, Reasons
<1>12. CASE LLMFails
  BY <1>0, <1>7, <1>12 DEF LLMFails, Raise, TypeOK, Places, Reasons
<1>13. CASE RejectPartial
  BY <1>0, <1>7, <1>13 DEF RejectPartial, Raise, TypeOK, Places, Reasons
<1>14. CASE RejectContradiction
  BY <1>0, <1>7, <1>14 DEF RejectContradiction, Raise, TypeOK, Places, Reasons
<1>15. CASE RecoverPending
  <2>1. RecoveredCalls \subseteq Nat
    <3>1. step \in log.parsed => CallsAt(step) \in Seq(Call)
      BY <1>0, AnswerType DEF Place, TypeOK, Log
    <3> QED
      BY <3>1 DEF RecoveredCalls
  <2>2. run' \in RunRow
    BY <1>0, <1>15, <2>1 DEF RecoverPending, TypeOK, RunRow
  <2>3. batch' \in Batch'
    BY <1>0, <1>15 DEF RecoverPending, AtTop, Place, Batch, NoBatch
  <2> QED
    BY <1>0, <1>15, <2>2, <2>3 DEF RecoverPending, TypeOK, Places
<1>16. CASE BeginStep
  <2>1. NextStep \in Steps
    BY <1>0, <1>16 DEF BeginStep, NothingPending, AtTop, NextStep, TypeOK, RunRow,
                       Steps
  <2>2. run' \in RunRow /\ run'.pending = run.pending
    <3>1. NextStep \in 0 .. MaxSteps
      BY <2>1 DEF Steps
    <3> QED
      BY <1>0, <1>16, <3>1 DEF BeginStep, TypeOK, RunRow
  <2> QED
    BY <1>0, <1>16, <2>2 DEF BeginStep, TypeOK, Batch, Places
<1>17. CASE SendRequest
  <2>1. step \in Steps
    BY <1>0, <1>17 DEF SendRequest, Place
  <2>2. log' \in Log
    BY <1>0, <1>17, <2>1 DEF SendRequest, TypeOK, Log
  <2> QED
    BY <1>0, <1>17, <2>2 DEF SendRequest, TypeOK, Batch, Places
<1>18. ASSUME NEW r \in Responses, LLMAnswers(r)
       PROVE  TypeOK'
  <2>1. log' \in Log
    BY <1>0, <1>18 DEF LLMAnswers, TypeOK, Log
  <2> QED
    BY <1>0, <1>18, <2>1 DEF LLMAnswers, TypeOK, Batch, Places
<1>19. CASE ChargeBudget
  <2> DEFINE total == IF log.charges[step] # None THEN log.charges[step]
                      ELSE cost + Answer.cost
  <2>1. step \in Steps /\ HasResponse(step)
    BY <1>0, <1>19 DEF ChargeBudget, Place
  <2>2. Answer.cost \in Nat
    BY <1>0, <2>1, AnswerType DEF Answer, Response
  <2>3. total \in Nat
    BY <1>0, <2>1, <2>2 DEF TypeOK, Log
  <2>4. log' = [log EXCEPT !.charges = [@ EXCEPT ![step] = total]]
    BY <1>19 DEF ChargeBudget
  <2>5. cost' \in Nat
    BY <1>0, <1>19, <2>3 DEF ChargeBudget, TypeOK
  <2>6. pc' \in Places /\ reason' \in Reasons \cup {"none"}
    BY <1>0, <1>19 DEF ChargeBudget, Raise, TypeOK, Places, Reasons
  <2>7. log' \in Log
    <3> HIDE DEF total
    <3> QED
      BY <1>0, <2>3, <2>4 DEF TypeOK, Log
  <2> QED
    BY <1>0, <1>19, <2>5, <2>6, <2>7 DEF ChargeBudget, TypeOK, Batch
<1>20. CASE ParseCalls
  <2>1. Answer.calls \in Seq(Call) /\ step \in Steps
    BY <1>0, <1>20, AnswerType DEF ParseCalls, Answer, CallsAt, Place
  <2>2. run' \in RunRow
    <3>1. DOMAIN Answer.calls \subseteq Nat
      BY <2>1
    <3> QED
      BY <1>0, <1>20, <3>1 DEF ParseCalls, TypeOK, RunRow
  <2>3. log' \in Log
    BY <1>0, <1>20, <2>1 DEF ParseCalls, TypeOK, Log
  <2>4. batch' \in Batch'
    BY <1>0, <1>20 DEF ParseCalls, Place, Batch, NoBatch
  <2> QED
    BY <1>0, <1>20, <2>2, <2>3, <2>4 DEF ParseCalls, TypeOK, Places
<1>21. CASE CheckProgress
  <2>1. RepeatCount \in Nat
    BY <1>0, RepeatCountType
  <2>2. log' \in Log
    BY <1>0, <1>21, <2>1 DEF CheckProgress, TypeOK, Log
  <2>3. pc' \in Places /\ reason' \in Reasons \cup {"none"}
    BY <1>0, <1>21 DEF CheckProgress, Raise, TypeOK, Places, Reasons
  <2> QED
    BY <1>0, <1>21, <2>2, <2>3 DEF CheckProgress, TypeOK, Batch
<1>22. pc \in {"start", "exec"} => \A i \in pending :
         /\ Key(i) \in Keys /\ Index(i) \in Nat /\ i \in Nat /\ i > 0
         /\ step \in Steps /\ CallOf(i) \in Call
  BY <1>0, CallType DEF Place
<1>23. ASSUME NEW i \in pending, StartCall(i)
       PROVE  TypeOK'
  <2>1. [step |-> step, index |-> Index(i), key |-> Key(i)] \in Start
    BY <1>22, <1>23 DEF StartCall, Start
  <2>2. log' \in Log
    BY <1>0, <1>23, <2>1 DEF StartCall, TypeOK, Log
  <2>3. idx' \in Nat \ {0}
    BY <1>22, <1>23 DEF StartCall
  <2> QED
    BY <1>0, <1>23, <2>2, <2>3 DEF StartCall, TypeOK, Batch
<1>24. CASE LookUpRows
  <2>1. batch' \in Batch'
    BY <1>0, <1>24 DEF LookUpRows, Batch, Outcome
  <2> QED
    BY <1>0, <1>24, <2>1 DEF LookUpRows, TypeOK, Places
<1>25. ASSUME Running, batch' \in Batch, rows' \in [Keys -> Execution],
              sent' \subseteq Keys
       PROVE  TypeOK'
  BY <1>0, <1>25 DEF Running, TypeOK, Batch
<1>26. ASSUME Running, NEW i \in pending, NEW outcome \in {"ok", "failed"},
              Settle(i, outcome)
       PROVE  batch' \in Batch
  BY <1>26, SettledBatch
<1>27. ASSUME Running, NEW i \in pending, FailAndRollBack(i)
       PROVE  batch' \in Batch
  BY <1>27, RolledBackBatch
<1>28. ASSUME Running, NEW i \in pending,
              NEW st \in {"absent", "completed", "failed", "blocked"},
              NEW sz \in {"fits", "brim", "over"}, SetRow(Key(i), st, sz)
       PROVE  rows' \in [Keys -> Execution]
  BY <1>0, <1>22, <1>28 DEF Running, SetRow, TypeOK, Execution
<1>29. ASSUME Running, NEW i \in pending, Reuse(i)
       PROVE  TypeOK'
  <2>1. batch' \in Batch
    BY <1>26, <1>29 DEF Reuse, Outcome
  <2> QED
    BY <1>0, <1>25, <1>29, <2>1 DEF Reuse, TypeOK
<1>30. ASSUME Running, NEW i \in pending, Block(i)
       PROVE  TypeOK'
  <2>1. batch' \in Batch
    BY <1>26, <1>30 DEF Block
  <2>2. rows' \in [Keys -> Execution]
    BY <1>28, <1>30 DEF Block
  <2> QED
    BY <1>0, <1>25, <1>30, <2>1, <2>2 DEF Block, TypeOK
<1>31. ASSUME NEW i \in pending, RunRead(i)
       PROVE  TypeOK'
  <2>1. CASE Reuse(i)
    BY <1>29, <1>31, <2>1 DEF RunRead
  <2>2. ASSUME NEW size \in ResultSizes, SetRow(Key(i), "completed", size),
               Settle(i, "ok"), UNCHANGED sent
        PROVE  TypeOK'
    BY <1>0, <1>25, <1>26, <1>28, <1>31, <2>2 DEF RunRead, TypeOK
  <2>3. CASE SetRow(Key(i), "failed", "fits") /\ Settle(i, "failed") /\ UNCHANGED sent
    BY <1>0, <1>25, <1>26, <1>28, <1>31, <2>3 DEF RunRead, TypeOK
  <2> QED
    BY <1>31, <2>1, <2>2, <2>3 DEF RunRead
<1>32. ASSUME NEW i \in pending, RunWrite(i)
       PROVE  TypeOK'
  <2>1. CASE Reuse(i)
    BY <1>29, <1>32, <2>1 DEF RunWrite
  <2>2. CASE Block(i)
    BY <1>30, <1>32, <2>2 DEF RunWrite
  <2>3. CASE SetRow(Key(i), "completed", "fits") /\ Settle(i, "ok") /\ UNCHANGED sent
    BY <1>0, <1>25, <1>26, <1>28, <1>32, <2>3 DEF RunWrite, TypeOK
  <2>4. CASE SetRow(Key(i), "failed", "fits") /\ FailAndRollBack(i) /\ UNCHANGED sent
    BY <1>0, <1>25, <1>27, <1>28, <1>32, <2>4 DEF RunWrite, TypeOK
  <2> QED
    BY <1>32, <2>1, <2>2, <2>3, <2>4 DEF RunWrite
<1>33. ASSUME NEW i \in pending, RunEmail(i)
       PROVE  TypeOK'
  <2>1. CASE Reuse(i)
    BY <1>29, <1>33, <2>1 DEF RunEmail
  <2>2. CASE Block(i)
    BY <1>30, <1>33, <2>2 DEF RunEmail
  <2>3. ASSUME NEW st \in {"blocked", "failed"}, SetRow(Key(i), st, "fits"),
               FailAndRollBack(i), UNCHANGED sent
        PROVE  TypeOK'
    BY <1>0, <1>25, <1>27, <1>28, <1>33, <2>3 DEF RunEmail, TypeOK
  <2>4. ASSUME NEW size \in ResultSizes, SetRow(Key(i), "completed", size),
               Settle(i, "ok"), sent' = sent \cup {Key(i)}
        PROVE  TypeOK'
    <3>1. sent' \subseteq Keys
      BY <1>0, <1>22, <1>33, <2>4 DEF RunEmail, Running, TypeOK
    <3> QED
      BY <1>25, <1>26, <1>28, <1>33, <2>4, <3>1 DEF RunEmail
  <2> QED
    BY <1>33, <2>1, <2>2, <2>3, <2>4 DEF RunEmail
<1>34. ASSUME NEW i \in pending, MarkRolledBack(i)
       PROVE  TypeOK'
  <2>1. batch' \in Batch
    BY <1>0, <1>34 DEF MarkRolledBack, Collecting, TypeOK, Batch, Place
  <2>2. rows' \in [Keys -> Execution]
    BY <1>0, <1>22, <1>34 DEF MarkRolledBack, Collecting, TypeOK, Execution
  <2> QED
    BY <1>0, <1>34, <2>1, <2>2 DEF MarkRolledBack, TypeOK, Batch
<1>35. ASSUME NEW i \in pending, RecordResult(i)
       PROVE  TypeOK'
  <2> DEFINE size == IF batch.out[i] = "ok" THEN rows[Key(i)].size ELSE "fits"
             e == [step |-> step, index |-> Index(i), key |-> Key(i),
                   ok |-> batch.out[i] = "ok", size |-> size]
  <2>1. size \in {"fits", "brim", "over"}
    BY <1>0, <1>22, <1>35 DEF RecordResult, Collecting, TypeOK, Execution
  <2>2. e \in Result
    <3>1. (batch.out[i] = "ok") \in BOOLEAN
      OBVIOUS
    <3> HIDE DEF size
    <3> QED
      BY <1>22, <1>35, <2>1, <3>1 DEF RecordResult, Collecting, Result
  <2>3. log' \in Log
    <3>1. log' = log \/ log' = [log EXCEPT !.results = @ \cup {e}]
      BY <1>35 DEF RecordResult
    <3> HIDE DEF e
    <3> QED
      BY <1>0, <2>2, <3>1 DEF TypeOK, Log
  <2>4. tainted' \in BOOLEAN
    BY <1>0, <1>35 DEF RecordResult, TypeOK
  <2>5. pc' \in Places /\ reason' \in Reasons \cup {"none"}
    BY <1>0, <1>35 DEF RecordResult, Raise, TypeOK, Places, Reasons
  <2>6. idx' \in Nat \ {0}
    BY <1>22, <1>35 DEF RecordResult, Collecting
  <2>7. UNCHANGED <<task, run, rows, sent, cost, batch, crashes>>
    BY <1>35 DEF RecordResult
  <2> QED
    BY <1>0, <2>3, <2>4, <2>5, <2>6, <2>7 DEF TypeOK, Batch
<1>36. CASE ToolsDone
  <2>1. run' \in RunRow
    BY <1>0, <1>36 DEF ToolsDone, TypeOK, RunRow
  <2>2. batch' \in Batch'
    BY <1>36 DEF ToolsDone, Batch, NoBatch
  <2> QED
    BY <1>0, <1>36, <2>1, <2>2 DEF ToolsDone, TypeOK, Places
<1>37. CASE StepLimit \/ Complete
  BY <1>5, <1>37 DEF StepLimit, Complete, Reasons
<1>38. CASE FinishFailed
  <2>1. reason \in Reasons
    BY <1>0, <1>38 DEF FinishFailed, Place, TypeOK
  <2> QED
    BY <1>5, <1>38, <2>1 DEF FinishFailed
<1> QED
  BY <1>1, <1>2, <1>3, <1>4, <1>6, <1>19, <1>8, <1>9, <1>10, <1>11, <1>12, <1>13,
     <1>14, <1>15, <1>16, <1>17, <1>18, <1>20, <1>21, <1>23, <1>24, <1>31, <1>32,
     <1>33, <1>34, <1>35, <1>36, <1>37, <1>38
  DEF Next, Process, LoopHead, ModelTurn, BatchStep

\* Every step of the run preserves the agreement of row, log and place.
LEMMA PlaceStep ==
  ASSUME IInv, Next, TypeOK'
  PROVE  CheckpointExplained' /\ Place'
<1> USE DEF tables, volatile, vars, step, pending
<1>0. TypeOK /\ CheckpointExplained /\ Place
  BY DEF IInv
<1>1. CASE Create
  BY <1>0, <1>1 DEF Create, CheckpointExplained, Place, CallsAt, HasResponse,
                    NoBatch, TypeOK, RunRow, Log
<1>2. CASE Resume
  BY <1>0, <1>2 DEF Resume, Unfinished, CheckpointExplained, Place, CallsAt,
                    HasResponse, NoBatch, TypeOK, RunRow, Log
<1>3. CASE Crash
  BY <1>0, <1>3 DEF Crash, CheckpointExplained, Place, CallsAt, HasResponse,
                    NoBatch, TypeOK, RunRow, Log
<1>4. CASE StopRecordedNoProgress
  BY <1>0, <1>4 DEF StopRecordedNoProgress, Raise, AtTop, CheckpointExplained,
                    Place, CallsAt, HasResponse, NoBatch, TypeOK, RunRow, Log
<1>5. CASE BeginTools
  BY <1>0, <1>5 DEF BeginTools, AtTop, CheckpointExplained, Place, CallsAt,
                    HasResponse, NoBatch, TypeOK, RunRow, Log
<1>6. CASE RecoverPending
  BY <1>0, <1>6 DEF RecoverPending, AtTop, RecoveredCalls, CheckpointExplained,
                    Place, CallsAt, HasResponse, NoBatch, TypeOK, RunRow, Log
<1>7. CASE ResumeResponse
  <2>1. step \in Steps
    BY <1>0, <1>7 DEF ResumeResponse, ResponseToProcess, TypeOK, RunRow, Steps
  <2> QED
    BY <1>0, <1>7, <2>1 DEF ResumeResponse, NothingPending, AtTop,
                            ResponseToProcess, CheckpointExplained, Place, CallsAt,
                            HasResponse
<1>8. CASE BeginStep
  <2>1. run.status \notin {"NONE", "FINISHED", "RUNNING_TOOLS"}
    BY <1>0, <1>8 DEF BeginStep, NothingPending, AtTop, Place, CheckpointExplained
  <2>2. NextStep \in Steps
    BY <1>0, <1>8, ConfigAssumption DEF BeginStep, NothingPending, AtTop, NextStep,
                                        TypeOK, RunRow, Steps
  <2>3. ~HasResponse(NextStep) /\ step <= NextStep
    BY <1>0, <1>8, <2>2 DEF NextStep, Place, TypeOK, RunRow, Steps
  <2>4. run' = [run EXCEPT !.status = "CALLING_LLM", !.step = NextStep]
    BY <1>8 DEF BeginStep
  <2>5. /\ run'.status = "CALLING_LLM" /\ run'.step = NextStep
        /\ run'.pending = run.pending
    BY <1>0, <2>4 DEF TypeOK, RunRow
  <2>6. /\ pc' = "request" /\ log' = log /\ batch' = batch /\ reason' = reason
        /\ run.pending = {} /\ pc = "top"
    BY <1>8 DEF BeginStep, NothingPending, AtTop
  <2>7. CheckpointExplained'
    BY <1>0, <2>1, <2>5, <2>6 DEF CheckpointExplained
  <2>8. \A s \in Steps : HasResponse(s) => s <= NextStep
    BY <1>0, <2>2, <2>3 DEF Place, TypeOK, RunRow, Steps
  <2>9. Place'
    BY <1>0, <2>1, <2>2, <2>3, <2>5, <2>6, <2>8 DEF Place, HasResponse
  <2> QED
    BY <2>7, <2>9
<1>9. CASE ContextTooLarge
  BY <1>0, <1>9 DEF ContextTooLarge, Raise, CheckpointExplained, Place, CallsAt,
                    HasResponse, NoBatch, TypeOK, RunRow, Log
<1>10. CASE SendRequest
  BY <1>0, <1>10 DEF SendRequest, CheckpointExplained, Place, CallsAt, HasResponse,
                     NoBatch, TypeOK, RunRow, Log
<1>11. CASE LLMFails
  BY <1>0, <1>11 DEF LLMFails, Raise, CheckpointExplained, Place, CallsAt,
                     HasResponse, NoBatch, TypeOK, RunRow, Log
<1>12. CASE RecordText
  BY <1>0, <1>12 DEF RecordText, Raise, CheckpointExplained, Place, CallsAt,
                     HasResponse, NoBatch, TypeOK, RunRow, Log
<1>13. CASE ChargeBudget
  BY <1>0, <1>13 DEF ChargeBudget, Raise, CheckpointExplained, Place, CallsAt,
                     HasResponse, NoBatch, TypeOK, RunRow, Log
<1>14. CASE RejectPartial
  BY <1>0, <1>14 DEF RejectPartial, Raise, CheckpointExplained, Place, CallsAt,
                     HasResponse, NoBatch, TypeOK, RunRow, Log
<1>15. CASE RejectContradiction
  BY <1>0, <1>15 DEF RejectContradiction, Raise, CheckpointExplained, Place,
                     CallsAt, HasResponse, NoBatch, TypeOK, RunRow, Log
<1>16. CASE ParseCalls
  <2>1. Answer.calls \in Seq(Call) /\ step \in Steps
    BY <1>0, <1>16, AnswerType DEF ParseCalls, Answer, CallsAt, Place
  <2>2. DOMAIN Answer.calls # {}
    <3>1. Answer.calls # <<>>
      BY <1>16 DEF ParseCalls
    <3>2. Len(Answer.calls) # 0
      BY <2>1, <3>1, EmptySeq
    <3>3. 1 \in DOMAIN Answer.calls
      BY <2>1, <3>2
    <3> QED
      BY <3>3
  <2> QED
    BY <1>0, <1>16, <2>1, <2>2 DEF ParseCalls, Answer, CheckpointExplained, Place,
                                   CallsAt, HasResponse, TypeOK, RunRow, Log
<1>17. CASE CheckProgress
  BY <1>0, <1>17 DEF CheckProgress, Raise, CheckpointExplained, Place, CallsAt,
                     HasResponse, NoBatch, TypeOK, RunRow, Log
<1>18. CASE LookUpRows
  <2>1. batch'.out \in [pending -> {"none", "ok", "failed"}]
    BY <1>18 DEF LookUpRows, Outcome
  <2> QED
    BY <1>0, <1>18, <2>1 DEF LookUpRows, CheckpointExplained, Place, CallsAt,
                             HasResponse
<1>19. CASE ToolsDone
  BY <1>0, <1>19 DEF ToolsDone, Collecting, CheckpointExplained, Place, CallsAt,
                     HasResponse, NoBatch, TypeOK, RunRow, Log
<1>20. CASE ResumeFails \/ ResumeFinished
  BY <1>0, <1>20 DEF ResumeFails, ResumeFinished, CheckpointExplained, Place,
                     CallsAt, HasResponse
<1>21. ASSUME NEW why \in Reasons, FinishRun(why), pc # "down"
       PROVE  CheckpointExplained' /\ Place'
  <2>1. [reason |-> why, step |-> step] # None
    BY <1>0, NoneAssumption DEF TypeOK, RunRow
  <2> QED
    BY <2>1, <1>0, <1>21, NoneAssumption DEF FinishRun, CheckpointExplained, Place,
                                             CallsAt, HasResponse, NoBatch, TypeOK,
                                             RunRow, Log
<1>22. ASSUME NEW r \in Responses, LLMAnswers(r)
       PROVE  CheckpointExplained' /\ Place'
  BY <1>0, <1>22, ModelAssumption, NoneAssumption
  DEF LLMAnswers, CheckpointExplained, Place, CallsAt, HasResponse, TypeOK, RunRow,
      Log
<1>23. ASSUME NEW i \in pending, StartCall(i)
       PROVE  CheckpointExplained' /\ Place'
  BY <1>0, <1>23 DEF StartCall, CheckpointExplained, Place, CallsAt, HasResponse,
                     TypeOK, RunRow, Log
<1>24. ASSUME NEW i \in pending, RunRead(i) \/ RunWrite(i) \/ RunEmail(i)
       PROVE  CheckpointExplained' /\ Place'
  <2>1. Running
    BY <1>24 DEF RunRead, RunWrite, RunEmail
  <2>2. \/ \E outcome \in {"ok", "failed"} : Settle(i, outcome)
        \/ FailAndRollBack(i)
    BY <1>24 DEF RunRead, RunWrite, RunEmail, Reuse, Block, Outcome
  <2>3. batch'.out \in [pending -> {"none", "ok", "failed"}]
    BY <2>1, <2>2, SettledBatch, RolledBackBatch
  <2> QED
    BY <1>0, <2>1, <2>3 DEF Running, CheckpointExplained, Place, CallsAt,
                            HasResponse
<1>25. ASSUME NEW i \in pending, MarkRolledBack(i)
       PROVE  CheckpointExplained' /\ Place'
  BY <1>0, <1>25 DEF MarkRolledBack, Collecting, CheckpointExplained, Place,
                     CallsAt, HasResponse, TypeOK, RunRow, Log, Batch
<1>26. ASSUME NEW i \in pending, RecordResult(i)
       PROVE  CheckpointExplained' /\ Place'
  BY <1>0, <1>26 DEF RecordResult, Collecting, Raise, CheckpointExplained, Place,
                     CallsAt, HasResponse, TypeOK, RunRow, Log
<1>27. CASE StepLimit \/ Complete
  BY <1>21, <1>27 DEF StepLimit, Complete, Reasons
<1>28. CASE FinishFailed
  <2>1. reason \in Reasons
    BY <1>0, <1>28 DEF FinishFailed, Place, TypeOK
  <2> QED
    BY <1>21, <1>28, <2>1 DEF FinishFailed
<1> QED
  BY <1>1, <1>2, <1>3, <1>4, <1>5, <1>6, <1>7, <1>8, <1>9, <1>10, <1>11, <1>12,
     <1>13, <1>14, <1>15, <1>16, <1>17, <1>18, <1>19, <1>20, <1>22, <1>23, <1>24,
     <1>25, <1>26, <1>27, <1>28
  DEF Next, Process, LoopHead, ModelTurn, BatchStep

\* The empty database satisfies the invariant.
LEMMA InitIInv ==
  ASSUME Init
  PROVE  IInv
<1> USE ConfigAssumption DEF Init
<1>1. run \in RunRow
  BY DEF RunRow
<1>2. log \in Log
  BY DEF EmptyLog, Log
<1>3. rows \in [Keys -> Execution]
  BY DEF NoRow, Execution
<1>4. batch \in Batch
  BY DEF NoBatch, Batch
<1>5. TypeOK
  <2>1. tainted \in BOOLEAN
    OBVIOUS
  <2>2. /\ task \in TaskSizes /\ sent \subseteq Keys /\ pc \in Places
        /\ cost \in Nat /\ idx \in Nat \ {0} /\ reason \in Reasons \cup {"none"}
        /\ crashes \in 0 .. MaxCrashes
    BY DEF Places
  <2> HIDE DEF Init
  <2> QED
    BY <1>1, <1>2, <1>3, <1>4, <2>1, <2>2 DEF TypeOK
<1>6. CheckpointExplained
  BY DEF CheckpointExplained, EmptyLog
<1>7. Place
  BY DEF Place, EmptyLog, HasResponse, pending
<1> QED
  BY <1>5, <1>6, <1>7 DEF IInv

\* The invariant depends on the variables only.
LEMMA StutterIInv ==
  ASSUME IInv, UNCHANGED vars
  PROVE  IInv'
BY DEF IInv, vars, TypeOK, Batch, pending, CheckpointExplained, Place, step,
       CallsAt, HasResponse

\* IInv holds in every state of the run, whatever the model answers and wherever
\* the process dies.
THEOREM SpecIInv == Spec => []IInv
<1>1. IInv /\ [Next]_vars => IInv'
  BY TypeStep, PlaceStep, StutterIInv DEF IInv
<1> QED
  BY InitIInv, <1>1, PTL DEF Spec

\* The tables and locals of AgentRuntime.run keep their types.
THEOREM SpecTypeOK == Spec => []TypeOK
  BY SpecIInv, PTL DEF IInv

\* update_run_and_append_event and finish_run never leave a row that the log does
\* not explain.
THEOREM SpecCheckpointExplained == Spec => []CheckpointExplained
  BY SpecIInv, PTL DEF IInv

(***************************************************************************)
(* Cost and budget.                                                        *)
(***************************************************************************)

\* What the steps up to the current one have cost, as far as it is recorded.
Spent ==
  IF step = 0 THEN 0
  ELSE IF log.charges[step] # None THEN log.charges[step]
  ELSE IF step = 1 THEN 0 ELSE log.charges[step - 1]

\* The ledger of the run: accepted steps are charged within the budget, nothing is
\* recorded beyond the current step, and a live process knows the total.
Ledger ==
  /\ \A s \in Steps : s < step => s \in log.parsed
  /\ \A s \in log.parsed :
       s <= step /\ log.charges[s] # None /\ log.charges[s] <= Budget
  /\ \A s \in Steps : log.charges[s] # None => HasResponse(s)
  /\ \A s \in log.requests : s <= step
  /\ \A s \in Steps : log.charges[s] # None =>
       log.charges[s] = log.responses[s].cost
                        + (IF s = 1 THEN 0 ELSE log.charges[s - 1])
  /\ pc \notin {"down", "failing"} => cost = Spent
  /\ pc = "down" => cost = 0
  /\ pc = "decide" => log.charges[step] # None /\ log.charges[step] <= Budget
  /\ run.status \in {"NONE", "STARTED"} => step = 0
  /\ pc = "failing" => reason # "completed"
  /\ run.reason = "completed" =>
       /\ run.status = "FINISHED" /\ step \in Steps
       /\ log.charges[step] # None /\ log.charges[step] <= Budget

\* The inductive invariant with the ledger.
LInv == IInv /\ Ledger

\* The total a relaunched process reads back (_cost_so_far) is what the steps so
\* far have cost.
LEMMA CostSoFarIsSpent ==
  ASSUME LInv
  PROVE  CostSoFar = Spent
<1> USE DEF step
<1> DEFINE charged == {s \in Steps : log.charges[s] # None}
           last == CHOOSE s \in charged : \A t \in charged : t <= s
<1>1. \A s \in charged : s <= step
  BY DEF LInv, IInv, Place, Ledger
<1>2. \A s \in Steps : s < step => s \in charged
  BY DEF LInv, Ledger
<1>3. step \in 0 .. MaxSteps
  BY DEF LInv, IInv, TypeOK, RunRow
<1>4. CASE step \in charged
  <2>1. \A s \in charged : (\A t \in charged : t <= s) => s = step
    BY <1>1, <1>3, <1>4 DEF Steps
  <2>2. last = step
    <3> HIDE DEF charged
    <3> QED
      BY <1>1, <1>4, <2>1
  <2>3. CostSoFar = log.charges[step]
    BY <1>4, <2>2 DEF CostSoFar
  <2> QED
    BY <1>4, <2>3 DEF Spent, Steps
<1>5. CASE step \notin charged /\ step > 1
  <2>1. step - 1 \in charged /\ \A s \in charged : s <= step - 1
    BY <1>1, <1>2, <1>3, <1>5, ConfigAssumption DEF Steps
  <2>2. \A s \in charged : (\A t \in charged : t <= s) => s = step - 1
    BY <1>3, <2>1 DEF Steps
  <2>3. last = step - 1
    <3> HIDE DEF charged
    <3> QED
      BY <2>1, <2>2
  <2>4. CostSoFar = log.charges[step - 1]
    BY <2>1, <2>3 DEF CostSoFar
  <2> QED
    BY <1>3, <1>5, <2>4 DEF Spent, Steps
<1>6. CASE step \notin charged /\ step <= 1
  <2>1. charged = {}
    BY <1>1, <1>3, <1>6 DEF Steps
  <2>2. CostSoFar = 0
    BY <2>1 DEF CostSoFar
  <2> QED
    BY <1>3, <1>6, <2>2, ConfigAssumption DEF Spent, Steps
<1> QED
  BY <1>3, <1>4, <1>5, <1>6

\* Every step of the run preserves the ledger.
LEMMA LedgerStep ==
  ASSUME LInv, Next
  PROVE  Ledger'
<1> USE DEF tables, volatile, vars, step, pending
<1>0. TypeOK /\ CheckpointExplained /\ Place /\ Ledger
  BY DEF LInv, IInv
<1>1. ASSUME step' = step, run'.reason = run.reason,
             log'.requests = log.requests, log'.responses = log.responses,
             log'.charges = log.charges, log'.parsed = log.parsed,
             pc' \notin {"down", "failing"} => cost' = Spent,
             pc' = "down" => cost' = 0,
             pc' = "decide" => pc = "decide",
             run'.status \in {"NONE", "STARTED"} =>
               run.status \in {"NONE", "STARTED"},
             run.status = "FINISHED" => run'.status = "FINISHED",
             pc' = "failing" => reason' # "completed"
      PROVE  Ledger'
  BY <1>0, <1>1 DEF Ledger, HasResponse, Spent
<1>2. Spent \in Nat \/ pc \in {"down", "failing"}
  BY <1>0 DEF Ledger, TypeOK
<1>3. CASE Create
  BY <1>0, <1>1, <1>3 DEF Create, Ledger, Spent, TypeOK, RunRow
<1>4. CASE Resume
  <2>1. cost' = Spent
    BY <1>4, CostSoFarIsSpent DEF Resume
  <2> QED
    BY <1>0, <1>1, <1>4, <2>1 DEF Resume
<1>5. CASE ResumeFails \/ ResumeFinished
  BY <1>0, <1>5 DEF ResumeFails, ResumeFinished, Ledger, HasResponse, Spent
<1>6. CASE Crash
  BY <1>0, <1>1, <1>6 DEF Crash
<1>7. CASE \/ StopRecordedNoProgress \/ ContextTooLarge \/ LLMFails
          \/ RejectPartial \/ RejectContradiction
  BY <1>0, <1>1, <1>7 DEF StopRecordedNoProgress, ContextTooLarge, LLMFails,
                          RejectPartial, RejectContradiction, Raise
<1>8. CASE BeginTools \/ ResumeResponse
  BY <1>0, <1>1, <1>8 DEF BeginTools, ResumeResponse, NothingPending, AtTop, Ledger
<1>9. CASE RecoverPending
  BY <1>0, <1>1, <1>9 DEF RecoverPending, AtTop, Ledger, TypeOK, RunRow, Place
<1>10. CASE ToolsDone
  BY <1>0, <1>1, <1>10 DEF ToolsDone, Collecting, Ledger, TypeOK, RunRow, Place
<1>11. CASE RecordText
  BY <1>0, <1>1, <1>11 DEF RecordText, Raise, Ledger, TypeOK, Log
<1>12. CASE CheckProgress
  BY <1>0, <1>1, <1>12 DEF CheckProgress, Raise, Ledger, TypeOK, Log
<1>13. CASE LookUpRows
  BY <1>0, <1>1, <1>13 DEF LookUpRows, Ledger
<1>14. ASSUME NEW i \in pending, StartCall(i)
       PROVE  Ledger'
  BY <1>0, <1>1, <1>14 DEF StartCall, Ledger, TypeOK, Log
<1>15. ASSUME NEW i \in pending, RunRead(i) \/ RunWrite(i) \/ RunEmail(i)
       PROVE  Ledger'
  <2>1. Running
    BY <1>15 DEF RunRead, RunWrite, RunEmail
  <2> QED
    BY <1>0, <1>1, <2>1 DEF Running, Ledger
<1>16. ASSUME NEW i \in pending, MarkRolledBack(i)
       PROVE  Ledger'
  BY <1>0, <1>1, <1>16 DEF MarkRolledBack, Collecting, Ledger
<1>17. ASSUME NEW i \in pending, RecordResult(i)
       PROVE  Ledger'
  BY <1>0, <1>1, <1>17 DEF RecordResult, Collecting, Raise, Ledger, TypeOK, Log
<1>18. CASE BeginStep
  <2>1. step < NextStep => step = 0 \/ step \in log.parsed
    BY <1>0, <1>18 DEF BeginStep, NothingPending, AtTop, ResponseToProcess,
                       NextStep, Ledger, Place, CheckpointExplained, TypeOK, RunRow
  <2>2. NextStep \in {step, step + 1} /\ NextStep \in Steps /\ step \in 0 .. MaxSteps
    BY <1>0, <1>18, ConfigAssumption DEF BeginStep, NothingPending, AtTop, NextStep,
                                         TypeOK, RunRow, Steps
  <2>3. /\ step' = NextStep /\ run'.reason = run.reason /\ run'.status = "CALLING_LLM"
        /\ log' = log /\ cost' = cost /\ pc' = "request" /\ run.status # "FINISHED"
    BY <1>0, <1>18 DEF BeginStep, NothingPending, AtTop, TypeOK, RunRow, Place
  <2>4. cost = Spent
    BY <1>0, <1>18 DEF BeginStep, NothingPending, AtTop, Ledger
  <2>5. NextStep = step + 1 => log.charges[NextStep] = None
    BY <1>0, <2>2 DEF Ledger, Place
  <2>6. Spent' = Spent
    BY <1>0, <2>1, <2>2, <2>3, <2>5, ConfigAssumption DEF Spent, Steps, Ledger
  <2>7. \A s \in Steps : s < NextStep => s \in log.parsed
    BY <1>0, <2>1, <2>2 DEF Ledger, Steps
  <2>8. \A s \in log.parsed \cup log.requests : s <= NextStep
    BY <1>0, <2>2 DEF Ledger, Steps, TypeOK, Log
  <2> QED
    BY <1>0, <2>2, <2>3, <2>4, <2>6, <2>7, <2>8 DEF Ledger, HasResponse
<1>19. CASE SendRequest
  BY <1>0, <1>19 DEF SendRequest, Ledger, HasResponse, Spent, TypeOK, Log, RunRow
<1>20. ASSUME NEW r \in Responses, LLMAnswers(r)
       PROVE  Ledger'
  <2>1. log.charges[step] = None /\ step \in Steps
    BY <1>0, <1>20 DEF LLMAnswers, Ledger, Place
  <2> QED
    BY <1>0, <1>20, <2>1, ModelAssumption, NoneAssumption
    DEF LLMAnswers, Ledger, HasResponse, Spent, TypeOK, Log, RunRow, Place
<1>21. CASE ChargeBudget
  <2> DEFINE total == IF log.charges[step] # None THEN log.charges[step]
                      ELSE cost + Answer.cost
  <2>1. step \in Steps /\ HasResponse(step) /\ step \notin log.parsed /\ cost = Spent
    BY <1>0, <1>21 DEF ChargeBudget, Place, Ledger
  <2>2. Answer.cost \in Nat /\ Answer = log.responses[step]
    BY <1>0, <2>1, AnswerType DEF Answer, Response
  <2>3. total \in Nat /\ total # None
    BY <1>0, <2>1, <2>2, NoneAssumption DEF TypeOK, Log
  <2>4. total = log.responses[step].cost
                + (IF step = 1 THEN 0 ELSE log.charges[step - 1])
    <3>1. CASE log.charges[step] # None
      BY <1>0, <2>1, <3>1 DEF Ledger
    <3>2. CASE log.charges[step] = None
      BY <1>0, <2>1, <2>2, <3>2 DEF Spent, Steps, Ledger, TypeOK
    <3> QED
      BY <3>1, <3>2
  <2>5. /\ log' = [log EXCEPT !.charges = [@ EXCEPT ![step] = total]]
        /\ run' = run
        /\ IF total > Budget THEN pc' = "failing" /\ reason' = "BudgetExceededError"
           ELSE pc' = "decide" /\ cost' = total
    BY <1>21 DEF ChargeBudget, Raise, ExceedsBudget
  <2> HIDE DEF total
  <2>6. /\ log'.requests = log.requests /\ log'.responses = log.responses
        /\ log'.parsed = log.parsed
        /\ log'.charges = [log.charges EXCEPT ![step] = total]
    BY <1>0, <2>5 DEF TypeOK, Log
  <2>7. /\ log'.charges[step] = total
        /\ \A s \in Steps \ {step} : log'.charges[s] = log.charges[s]
    BY <1>0, <2>1, <2>6 DEF TypeOK, Log
  <2>8. Spent' = total
    BY <2>1, <2>3, <2>5, <2>7 DEF Spent, Steps
  <2>9. \A s \in Steps : s > step => log.charges[s] = None
    BY <1>0, <2>1 DEF Ledger, Place, Steps
  <2>10. \A s \in Steps : log'.charges[s] # None =>
           log'.charges[s] = log.responses[s].cost
                             + (IF s = 1 THEN 0 ELSE log'.charges[s - 1])
    <3>1. SUFFICES ASSUME NEW s \in Steps, log'.charges[s] # None
                   PROVE  log'.charges[s] = log.responses[s].cost
                             + (IF s = 1 THEN 0 ELSE log'.charges[s - 1])
      OBVIOUS
    <3>2. CASE s = step
      BY <2>1, <2>4, <2>7, <3>2, ConfigAssumption DEF Steps
    <3>3. CASE s # step
      <4>1. log'.charges[s] = log.charges[s] /\ s < step
        BY <2>1, <2>7, <2>9, <3>1, <3>3 DEF Steps
      <4>2. s # 1 => log'.charges[s - 1] = log.charges[s - 1]
        BY <2>1, <2>7, <4>1, ConfigAssumption DEF Steps
      <4> QED
        BY <1>0, <3>1, <4>1, <4>2 DEF Ledger
    <3> QED
      BY <3>2, <3>3
  <2>11. total > Budget \/ total <= Budget
    BY <2>3, ConfigAssumption
  <2>12. \A s \in log.parsed : log'.charges[s] = log.charges[s]
    BY <1>0, <2>1, <2>7 DEF TypeOK, Log
  <2>13. \A s \in Steps : log'.charges[s] # None => HasResponse(s)
    BY <1>0, <2>1, <2>7 DEF Ledger
  <2>14. run.reason # "completed"
    BY <1>0, <1>21 DEF ChargeBudget, Ledger, Place
  <2> QED
    BY <1>0, <2>1, <2>3, <2>5, <2>6, <2>7, <2>8, <2>10, <2>11, <2>12, <2>13, <2>14
    DEF Ledger, HasResponse
<1>22. CASE ParseCalls
  BY <1>0, <1>22 DEF ParseCalls, Ledger, HasResponse, Spent, TypeOK, Log, RunRow,
                     Place
<1>23. ASSUME NEW why, FinishRun(why), pc # "down",
              why = "completed" => pc = "decide"
       PROVE  Ledger'
  BY <1>0, <1>23 DEF FinishRun, Ledger, HasResponse, Spent, TypeOK, Log, RunRow,
                     Place
<1>24. CASE StepLimit \/ Complete
  BY <1>23, <1>24 DEF StepLimit, Complete
<1>25. CASE FinishFailed
  BY <1>0, <1>23, <1>25 DEF FinishFailed, Ledger
<1> QED
  BY <1>3, <1>4, <1>5, <1>6, <1>7, <1>8, <1>9, <1>10, <1>11, <1>12, <1>13, <1>14,
     <1>15, <1>16, <1>17, <1>18, <1>19, <1>20, <1>21, <1>22, <1>24, <1>25
  DEF Next, Process, LoopHead, ModelTurn, BatchStep

\* An empty database has an empty ledger.
LEMMA InitLedger ==
  ASSUME Init
  PROVE  Ledger
<1>1. /\ run.step = 0 /\ run.status = "NONE" /\ run.reason = "none"
      /\ pc = "down" /\ cost = 0
  BY DEF Init
<1>2. /\ log.parsed = {} /\ log.requests = {}
      /\ \A s \in Steps : log.charges[s] = None
  BY DEF Init, EmptyLog
<1> QED
  BY <1>1, <1>2, ConfigAssumption DEF Ledger, step, Steps

\* The ledger holds in every state of the run.
THEOREM SpecLInv == Spec => []LInv
<1>1. Init => Ledger
  BY InitLedger
<1>2. LInv /\ UNCHANGED vars => Ledger'
  BY DEF LInv, vars, Ledger, HasResponse, Spent, step
<1>3. LInv /\ IInv' /\ [Next]_vars => LInv'
  BY <1>2, LedgerStep DEF LInv
<1> QED
  BY SpecIInv, <1>1, <1>3, PTL DEF Spec, LInv

\* AgentRuntime.run never asks the model again at a step whose answer is recorded
\* and never leaves an unanswered step behind.
THEOREM SpecAskedOncePerStep == Spec => []AskedOncePerStep
<1>1. LInv => AskedOncePerStep
  BY DEF LInv, IInv, Place, Ledger, AskedOncePerStep
<1> QED
  BY <1>1, SpecLInv, PTL

\* _charge_budget and _cost_so_far charge each step exactly once, across any
\* number of relaunches.
THEOREM SpecCostExact == Spec => []CostExact
<1>1. LInv => CostExact
  <2>1. SUFFICES ASSUME LInv, NEW s \in Steps, log.charges[s] # None, s > 1
                 PROVE  log.charges[s - 1] # None
    BY DEF LInv, Ledger, CostExact
  <2>2. s <= step /\ s - 1 \in Steps /\ step \in 0 .. MaxSteps
    BY <2>1, ConfigAssumption DEF LInv, IInv, Place, Ledger, Steps, TypeOK, RunRow,
                                  step
  <2>3. s - 1 < step
    BY <2>2 DEF Steps
  <2> QED
    BY <2>1, <2>2, <2>3 DEF LInv, Ledger
<1> QED
  BY <1>1, SpecLInv, PTL

\* After _charge_budget recorded an exceeded budget, no relaunch asks the model,
\* accepts calls or completes the run.
THEOREM SpecBudgetStopsRun == Spec => []BudgetStopsRun
<1>1. LInv => BudgetStopsRun
  <2>1. SUFFICES ASSUME LInv, NEW s \in Steps,
                        log.charges[s] # None, log.charges[s] > Budget
                 PROVE  /\ s \notin log.parsed
                        /\ \A t \in log.requests : t <= s
                        /\ run.reason # "completed"
    BY DEF BudgetStopsRun
  <2>2. log.charges[s] \in Nat
    BY <2>1 DEF LInv, IInv, TypeOK, Log
  <2>3. s \notin log.parsed
    BY <2>1, <2>2, ConfigAssumption DEF LInv, Ledger
  <2>4. s = step
    BY <2>1, <2>3 DEF LInv, IInv, Place, Ledger, Steps, TypeOK, RunRow, step
  <2> QED
    BY <2>1, <2>2, <2>3, <2>4, ConfigAssumption DEF LInv, Ledger, step
<1> QED
  BY <1>1, SpecLInv, PTL

(***************************************************************************)
(* No progress.                                                            *)
(***************************************************************************)

\* Checks are those of accepted steps, and only steps whose check passed, or was
\* lost, have started calls.
Checked ==
  /\ \A s \in Steps : log.checks[s] # 0 => s \in log.parsed
  /\ \A e \in log.starts :
       e.step \in log.parsed /\ log.checks[e.step] < NoProgressLimit
  /\ pc = "progress" => \A e \in log.starts : e.step # step
  /\ pc \in {"start", "exec"} => log.checks[step] < NoProgressLimit

\* Every step of the run preserves the record of progress checks.
LEMMA CheckedStep ==
  ASSUME LInv, Checked, Next
  PROVE  Checked'
<1> USE DEF tables, volatile, vars, step, pending
<1>0. TypeOK /\ CheckpointExplained /\ Place /\ Ledger
  BY DEF LInv, IInv
<1>1. ASSUME step' = step, log'.checks = log.checks, log'.starts = log.starts,
             log'.parsed = log.parsed, pc' = "progress" => pc = "progress",
             pc' \in {"start", "exec"} => pc \in {"start", "exec"}
      PROVE  Checked'
  BY <1>1 DEF Checked
<1>2. CASE Create
  BY <1>0, <1>1, <1>2 DEF Create, TypeOK, RunRow
<1>3. CASE Resume
  BY <1>1, <1>3 DEF Resume
<1>4. CASE ResumeFails \/ ResumeFinished
  BY <1>1, <1>4 DEF ResumeFails, ResumeFinished
<1>5. CASE Crash
  BY <1>1, <1>5 DEF Crash
<1>6. CASE \/ StopRecordedNoProgress \/ ContextTooLarge \/ LLMFails
          \/ RejectPartial \/ RejectContradiction
  BY <1>1, <1>6 DEF StopRecordedNoProgress, ContextTooLarge, LLMFails,
                    RejectPartial, RejectContradiction, Raise
<1>7. CASE ResumeResponse
  BY <1>1, <1>7 DEF ResumeResponse
<1>8. CASE BeginTools \/ RecoverPending
  <2>1. /\ log' = log /\ step' = step /\ pc' = "start" /\ ~RecordedNoProgress
    BY <1>0, <1>8 DEF BeginTools, RecoverPending, TypeOK, RunRow
  <2>2. step \in log.parsed /\ step \in Steps
    BY <1>0, <1>8 DEF BeginTools, RecoverPending, RecoveredCalls, Place,
                      CheckpointExplained, TypeOK, Log
  <2>3. log.checks[step] # 0 => LatestCheck(MaxSteps + 1) = step
    <3>1. LatestCheck(MaxSteps + 1) \in Steps =>
            \/ LatestCheck(MaxSteps + 1) <= step
            \/ log.checks[LatestCheck(MaxSteps + 1)] = 0
      BY <1>0 DEF Checked, Ledger
    <3>2. step < MaxSteps + 1
      BY <2>2, ConfigAssumption DEF Steps
    <3> QED
      BY <1>0, <2>2, <3>1, <3>2, LatestCheckIsLast, ConfigAssumption DEF Steps
  <2>4. log.checks[step] < NoProgressLimit
    <3>1. CASE log.checks[step] = 0
      BY <3>1, ConfigAssumption
    <3>2. CASE log.checks[step] # 0
      BY <1>0, <2>1, <2>2, <2>3, <3>2, ConfigAssumption
      DEF RecordedNoProgress, TypeOK, Log, Steps
    <3> QED
      BY <3>1, <3>2
  <2> QED
    BY <2>1, <2>4 DEF Checked
<1>9. CASE BeginStep
  BY <1>9 DEF BeginStep, Checked
<1>10. CASE SendRequest
  BY <1>0, <1>1, <1>10 DEF SendRequest, TypeOK, Log
<1>11. ASSUME NEW r \in Responses, LLMAnswers(r)
       PROVE  Checked'
  BY <1>0, <1>1, <1>11 DEF LLMAnswers, TypeOK, Log
<1>12. CASE RecordText
  BY <1>0, <1>1, <1>12 DEF RecordText, Raise, TypeOK, Log
<1>13. CASE ChargeBudget
  BY <1>0, <1>1, <1>13 DEF ChargeBudget, Raise, TypeOK, Log
<1>14. CASE ParseCalls
  BY <1>0, <1>14 DEF ParseCalls, Checked, Place, TypeOK, Log, RunRow
<1>15. CASE CheckProgress
  <2>1. step \in log.parsed /\ step \in Steps
    BY <1>0, <1>15 DEF CheckProgress, Place, CheckpointExplained, TypeOK, Log
  <2>2. /\ log' = [log EXCEPT !.checks = [@ EXCEPT ![step] = RepeatCount]]
        /\ run' = run /\ pc' \in {"failing", "top"}
    BY <1>15 DEF CheckProgress, Raise
  <2>3. /\ log'.starts = log.starts /\ log'.parsed = log.parsed
        /\ \A s \in Steps \ {step} : log'.checks[s] = log.checks[s]
    BY <1>0, <2>1, <2>2 DEF TypeOK, Log
  <2>4. \A e \in log.starts : e.step \in Steps \ {step}
    BY <1>0, <1>15 DEF CheckProgress, Checked, TypeOK, Log, Start
  <2> QED
    BY <2>1, <2>2, <2>3, <2>4 DEF Checked
<1>16. ASSUME NEW why, FinishRun(why)
       PROVE  Checked'
  BY <1>0, <1>1, <1>16 DEF FinishRun, TypeOK, Log
<1>17. CASE StepLimit \/ Complete \/ FinishFailed
  BY <1>16, <1>17 DEF StepLimit, Complete, FinishFailed
<1>18. ASSUME NEW i \in pending, StartCall(i)
       PROVE  Checked'
  <2>1. step \in log.parsed
    BY <1>0, <1>18 DEF StartCall, Place, CheckpointExplained
  <2> QED
    BY <1>0, <1>18, <2>1 DEF StartCall, Checked, TypeOK, Log
<1>19. CASE LookUpRows
  BY <1>1, <1>19 DEF LookUpRows
<1>20. ASSUME NEW i \in pending, RunRead(i) \/ RunWrite(i) \/ RunEmail(i)
       PROVE  Checked'
  <2>1. Running
    BY <1>20 DEF RunRead, RunWrite, RunEmail
  <2> QED
    BY <1>1, <2>1 DEF Running
<1>21. ASSUME NEW i \in pending, MarkRolledBack(i)
       PROVE  Checked'
  BY <1>1, <1>21 DEF MarkRolledBack
<1>22. ASSUME NEW i \in pending, RecordResult(i)
       PROVE  Checked'
  BY <1>0, <1>1, <1>22 DEF RecordResult, Collecting, Raise, TypeOK, Log
<1>23. CASE ToolsDone
  BY <1>0, <1>1, <1>23 DEF ToolsDone, TypeOK, RunRow
<1> QED
  BY <1>2, <1>3, <1>4, <1>5, <1>6, <1>7, <1>8, <1>9, <1>10, <1>11, <1>12, <1>13,
     <1>14, <1>15, <1>17, <1>18, <1>19, <1>20, <1>21, <1>22, <1>23
  DEF Next, Process, LoopHead, ModelTurn, BatchStep

\* The record of progress checks in every reachable state.
THEOREM SpecChecked == Spec => []Checked
<1>1. Init => Checked
  BY DEF Init, EmptyLog, Checked
<1>2. Checked /\ UNCHANGED vars => Checked'
  BY DEF vars, Checked, step
<1>3. LInv /\ Checked /\ [Next]_vars => Checked'
  BY <1>2, CheckedStep
<1> QED
  BY SpecLInv, <1>1, <1>3, PTL DEF Spec

\* _check_progress and _raise_if_recorded_no_progress let no call of a terminally
\* repeated batch start, in whatever process.
THEOREM SpecTerminalRepeatNeverStarts == Spec => []TerminalRepeatNeverStarts
<1>1. Checked => TerminalRepeatNeverStarts
  BY DEF Checked, TerminalRepeatNeverStarts
<1> QED
  BY SpecChecked, <1>1, PTL

\* The steps whose calls were accepted but never checked, except the one that is
\* about to be.
LostChecks ==
  {s \in log.parsed : log.checks[s] = 0 /\ ~(pc = "progress" /\ s = step)}

\* Every lost check was lost with a process.
LostExplained == Cardinality(LostChecks) <= crashes

\* Only a crash while a check is due adds to the lost checks, and then one.
LEMMA LostStep ==
  ASSUME LInv, Next
  PROVE  \/ LostChecks' \subseteq LostChecks /\ crashes' = crashes
         \/ LostChecks' \subseteq LostChecks \cup {step} /\ crashes' = crashes + 1
<1> USE DEF tables, volatile, vars, step, pending
<1>0. TypeOK /\ CheckpointExplained /\ Place
  BY DEF LInv, IInv
<1>1. ASSUME pc # "progress" \/ (pc' = "progress" /\ step' = step),
             log'.checks = log.checks, log'.parsed = log.parsed, crashes' = crashes
      PROVE  LostChecks' \subseteq LostChecks /\ crashes' = crashes
  BY <1>0, <1>1 DEF LostChecks, TypeOK
<1>2. CASE Create \/ Resume
  BY <1>1, <1>2 DEF Create, Resume
<1>3. CASE ResumeFails \/ ResumeFinished
  BY <1>1, <1>3 DEF ResumeFails, ResumeFinished
<1>4. CASE Crash
  BY <1>0, <1>4 DEF Crash, LostChecks, TypeOK
<1>5. CASE LoopHead
  <2>1. pc = "top"
    BY <1>5 DEF LoopHead, StepLimit, StopRecordedNoProgress, BeginTools,
                RecoverPending, ResumeResponse, BeginStep, NothingPending, AtTop
  <2>2. log'.checks = log.checks /\ log'.parsed = log.parsed /\ crashes' = crashes
    BY <1>0, <1>5 DEF LoopHead, StepLimit, StopRecordedNoProgress, BeginTools,
                      RecoverPending, ResumeResponse, BeginStep, FinishRun, TypeOK, Log
  <2> QED
    BY <1>1, <2>1, <2>2
<1>6. CASE ModelTurn /\ ~ParseCalls /\ ~CheckProgress
  <2>1. pc # "progress"
    BY <1>6 DEF ModelTurn, ContextTooLarge, SendRequest, LLMFails, LLMAnswers,
                RecordText, ChargeBudget, RejectPartial, RejectContradiction,
                Complete, FinishFailed
  <2>2. log'.checks = log.checks /\ log'.parsed = log.parsed /\ crashes' = crashes
    BY <1>0, <1>6 DEF ModelTurn, ContextTooLarge, SendRequest, LLMFails, LLMAnswers,
                      RecordText, ChargeBudget, RejectPartial, RejectContradiction,
                      Complete, FinishFailed, FinishRun, Raise, TypeOK, Log
  <2> QED
    BY <1>1, <2>1, <2>2
<1>7. CASE ParseCalls
  BY <1>0, <1>7 DEF ParseCalls, LostChecks, TypeOK, Log, RunRow
<1>8. CASE CheckProgress
  <2>1. step \in log.parsed /\ step \in Steps
    BY <1>0, <1>8 DEF CheckProgress, Place, CheckpointExplained, TypeOK, Log
  <2>2. /\ log' = [log EXCEPT !.checks = [@ EXCEPT ![step] = RepeatCount]]
        /\ step' = step /\ crashes' = crashes
    BY <1>8 DEF CheckProgress
  <2>3. RepeatCount # 0
    BY <1>0, <1>8, <2>1, RepeatCountType DEF LInv
  <2> QED
    BY <1>0, <2>1, <2>2, <2>3 DEF LostChecks, TypeOK, Log
<1>9. CASE BatchStep
  <2>1. pc # "progress"
    BY <1>9 DEF BatchStep, StartCall, LookUpRows, Running, RunRead, RunWrite,
                RunEmail, Collecting, MarkRolledBack, RecordResult, ToolsDone
  <2>2. log'.checks = log.checks /\ log'.parsed = log.parsed /\ crashes' = crashes
    BY <1>0, <1>9 DEF BatchStep, StartCall, LookUpRows, Running, RunRead, RunWrite,
                      RunEmail, Collecting, MarkRolledBack, RecordResult, ToolsDone,
                      Raise, TypeOK, Log
  <2> QED
    BY <1>1, <2>1, <2>2
<1> QED
  BY <1>2, <1>3, <1>4, <1>5, <1>6, <1>7, <1>8, <1>9 DEF Next, Process, ModelTurn

\* There are finitely many steps whose check was lost.
LEMMA LostIsFinite ==
  ASSUME LInv
  PROVE  IsFiniteSet(LostChecks) /\ Cardinality(LostChecks) \in Nat
<1>1. IsFiniteSet(Steps)
  BY FS_Interval, ConfigAssumption DEF Steps
<1>2. LostChecks \in SUBSET Steps
  BY DEF LInv, IInv, TypeOK, Log, LostChecks
<1> QED
  BY <1>1, <1>2, FS_Subset, FS_CardinalityType

\* However often the process dies, it loses one check at most each time.
LEMMA SpecLostExplained == Spec => []LostExplained
<1>1. Init => LostExplained
  <2>1. SUFFICES ASSUME Init
                 PROVE  LostExplained
    OBVIOUS
  <2>2. LostChecks = {} /\ crashes = 0
    BY <2>1 DEF Init, EmptyLog, LostChecks
  <2> QED
    BY <2>2, FS_EmptySet DEF LostExplained
<1>2. LInv /\ LostExplained /\ Next => LostExplained'
  <2>1. SUFFICES ASSUME LInv, LostExplained, Next
                 PROVE  LostExplained'
    OBVIOUS
  <2>2. crashes \in Nat
    BY <2>1 DEF LInv, IInv, TypeOK
  <2>3. IsFiniteSet(LostChecks) /\ Cardinality(LostChecks) \in Nat
    BY <2>1, LostIsFinite
  <2>4. CASE LostChecks' \subseteq LostChecks /\ crashes' = crashes
    <3>1. /\ IsFiniteSet(LostChecks')
          /\ Cardinality(LostChecks') <= Cardinality(LostChecks)
      BY <2>3, <2>4, FS_Subset
    <3>2. Cardinality(LostChecks') \in Nat
      BY <3>1, FS_CardinalityType
    <3> QED
      BY <2>1, <2>2, <2>3, <2>4, <3>1, <3>2 DEF LostExplained
  <2>5. CASE LostChecks' \subseteq LostChecks \cup {step} /\ crashes' = crashes + 1
    <3>1. /\ IsFiniteSet(LostChecks \cup {step})
          /\ Cardinality(LostChecks \cup {step}) <= Cardinality(LostChecks) + 1
      BY <2>3, FS_AddElement
    <3>2. Cardinality(LostChecks \cup {step}) \in Nat
      BY <3>1, FS_CardinalityType
    <3>3. /\ IsFiniteSet(LostChecks')
          /\ Cardinality(LostChecks') <= Cardinality(LostChecks \cup {step})
      BY <2>5, <3>1, FS_Subset
    <3>4. Cardinality(LostChecks') \in Nat
      BY <3>3, FS_CardinalityType
    <3> QED
      BY <2>1, <2>2, <2>3, <2>5, <3>1, <3>2, <3>3, <3>4 DEF LostExplained
  <2> QED
    BY <2>1, <2>4, <2>5, LostStep
<1>3. LostExplained /\ UNCHANGED vars => LostExplained'
  BY DEF vars, LostExplained, LostChecks, step
<1> QED
  BY SpecLInv, <1>1, <1>2, <1>3, PTL DEF Spec

\* A crash between tool_calls_parsed and _check_progress costs one check; no run
\* starts more unchecked batches than it had crashes.
THEOREM SpecUncheckedExplained == Spec => []UncheckedExplained
<1>1. LInv /\ Checked /\ LostExplained => UncheckedExplained
  <2>1. SUFFICES ASSUME LInv, Checked, LostExplained
                 PROVE  UncheckedExplained
    OBVIOUS
  <2> DEFINE unchecked == {s \in Steps : /\ log.checks[s] = 0
                                         /\ \E e \in log.starts : e.step = s}
  <2>2. unchecked \in SUBSET LostChecks
    BY <2>1 DEF Checked, LostChecks
  <2>3. IsFiniteSet(LostChecks)
    BY <2>1, LostIsFinite
  <2>4. /\ IsFiniteSet(unchecked)
        /\ Cardinality(unchecked) <= Cardinality(LostChecks)
    BY <2>2, <2>3, FS_Subset
  <2>5. Cardinality(unchecked) \in Nat /\ Cardinality(LostChecks) \in Nat
    BY <2>3, <2>4, FS_CardinalityType
  <2>6. crashes \in Nat
    BY <2>1 DEF LInv, IInv, TypeOK
  <2> QED
    BY <2>1, <2>4, <2>5, <2>6 DEF UncheckedExplained, LostExplained
<1> QED
  BY SpecLInv, SpecChecked, SpecLostExplained, <1>1, PTL

(***************************************************************************)
(* Termination.                                                            *)
(***************************************************************************)

\* No action of any process writes to the tables of a finished run.
LEMMA FrozenStep ==
  ASSUME IInv, Next, run.status = "FINISHED"
  PROVE  UNCHANGED tables
<1>1. pc = "down"
  BY DEF IInv, Place
<1>2. ~LoopHead
  BY <1>1 DEF LoopHead, StepLimit, StopRecordedNoProgress, BeginTools,
              RecoverPending,
              ResumeResponse, BeginStep, NothingPending, AtTop
<1>3. ~ModelTurn
  BY <1>1 DEF ModelTurn, ContextTooLarge, SendRequest, LLMFails, LLMAnswers,
              RecordText, ChargeBudget, RejectPartial, RejectContradiction, Complete,
              ParseCalls, CheckProgress, FinishFailed
<1>4. ~BatchStep
  BY <1>1 DEF BatchStep, StartCall, LookUpRows, Running, RunRead, RunWrite,
              RunEmail,
              Collecting, MarkRolledBack, RecordResult, ToolsDone
<1>5. CASE Create \/ Resume
  BY <1>5 DEF Create, Resume, Unfinished
<1>6. CASE ResumeFails \/ ResumeFinished \/ Crash
  BY <1>1, <1>6 DEF ResumeFails, ResumeFinished, Crash, vars, tables
<1> QED
  BY <1>2, <1>3, <1>4, <1>5, <1>6 DEF Next, Process

\* Resuming a finished run changes none of its tables (the early return of run).
THEOREM SpecFinishedFrozen == Spec => FinishedFrozen
<1>1. IInv /\ [Next]_vars => [run.status = "FINISHED" => UNCHANGED tables]_vars
  BY FrozenStep
<1> QED
  BY SpecIInv, <1>1, PTL DEF Spec, FinishedFrozen

\* Every step of the run preserves the honesty of completion.
LEMMA HonestStep ==
  ASSUME LInv, CompletedIsHonest, Next
  PROVE  CompletedIsHonest'
<1> USE DEF tables, volatile, vars, step, pending
<1>0. TypeOK /\ CheckpointExplained /\ Place /\ Ledger
  BY DEF LInv, IInv
<1>1. CASE run.reason = "completed"
  <2>1. UNCHANGED tables
    BY FrozenStep, <1>0, <1>1 DEF Ledger, LInv
  <2> QED
    BY <2>1 DEF CompletedIsHonest, LastBatchFailed
<1>2. CASE run.reason # "completed" /\ run'.reason = "completed"
  <2>1. Complete
    <3>1. ~(Create \/ RecoverPending \/ BeginStep \/ ParseCalls \/ ToolsDone)
      BY <1>0, <1>2 DEF Create, RecoverPending, BeginStep, ParseCalls, ToolsDone,
                        TypeOK, RunRow
    <3>2. ~(StepLimit \/ FinishFailed)
      BY <1>0, <1>2 DEF StepLimit, FinishFailed, FinishRun, Ledger
    <3>3. run' # run
      BY <1>2
    <3>4. ~(Resume \/ ResumeFails \/ ResumeFinished \/ Crash)
      BY <3>3 DEF Resume, ResumeFails, ResumeFinished, Crash
    <3>5. ~(StopRecordedNoProgress \/ BeginTools \/ ResumeResponse)
      BY <3>3 DEF StopRecordedNoProgress, BeginTools, ResumeResponse
    <3>6. ~(ContextTooLarge \/ SendRequest \/ LLMFails \/ RecordText \/ ChargeBudget
            \/ RejectPartial \/ RejectContradiction \/ CheckProgress
            \/ \E r \in Responses : LLMAnswers(r))
      BY <3>3 DEF ContextTooLarge, SendRequest, LLMFails, LLMAnswers, RecordText,
                  ChargeBudget, RejectPartial, RejectContradiction, CheckProgress
    <3>7. ~LookUpRows /\ \A i \in pending :
            ~(StartCall(i) \/ RunRead(i) \/ RunWrite(i) \/ RunEmail(i)
              \/ MarkRolledBack(i) \/ RecordResult(i))
      BY <3>3 DEF LookUpRows, StartCall, Running, RunRead, RunWrite, RunEmail,
                  MarkRolledBack, RecordResult
    <3> QED
      BY <3>1, <3>2, <3>4, <3>5, <3>6, <3>7
      DEF Next, Process, LoopHead, ModelTurn, BatchStep
  <2>2. /\ run'.step = step /\ log'.responses = log.responses
        /\ log'.results = log.results
    BY <1>0, <2>1 DEF Complete, FinishRun, TypeOK, Log
  <2>3. /\ log.responses[step] # None /\ ~log.responses[step].incomplete
        /\ log.responses[step].calls = <<>>
        /\ ~(log.responses[step].text = "success" /\ LastBatchFailed(step))
    BY <1>0, <2>1 DEF Complete, Place, HasResponse, Answer, Contradicts
  <2>4. LastBatchFailed(step)' = LastBatchFailed(step)
    BY <2>2 DEF LastBatchFailed
  <2> QED
    BY <2>2, <2>3, <2>4 DEF CompletedIsHonest, LastBatchFailed
<1> QED
  BY <1>1, <1>2 DEF CompletedIsHonest

\* AgentRuntime.run completes only on a whole answer that does not claim success
\* over a failed batch (_model_contradiction).
THEOREM SpecCompletedIsHonest == Spec => []CompletedIsHonest
<1>1. Init => CompletedIsHonest
  BY DEF Init, CompletedIsHonest
<1>2. CompletedIsHonest /\ UNCHANGED vars => CompletedIsHonest'
  BY DEF vars, CompletedIsHonest, LastBatchFailed
<1>3. LInv /\ CompletedIsHonest /\ [Next]_vars => CompletedIsHonest'
  BY <1>2, HonestStep
<1> QED
  BY SpecLInv, <1>1, <1>3, PTL DEF Spec

(***************************************************************************)
(* Refinement of the outbox.                                               *)
(***************************************************************************)

\* An email is in the outbox exactly when its row is completed, a live process
\* knows whether the conversation is untrusted, and only writes are put back.
Mailroom ==
  /\ \A k \in MailKeys : k \in sent <=> rows[k].status = "completed"
  /\ run.status = "NONE" => log.results = {}
  /\ pc = "down" => tainted = FALSE
  /\ pc # "down" => (tainted <=> log.results # {})
  /\ \A i \in batch.restored : CallOf(i).tool = "write"

\* The execution key of a call names its tool.
LEMMA KeyOfTool ==
  ASSUME NEW c \in Call
  PROVE  IdempotencyKey(c).tool = c.tool
BY DEF IdempotencyKey, Call

\* Every step of the run is a step of the outbox or leaves it alone.
LEMMA OutboxStep ==
  ASSUME IInv, Mailroom, Next
  PROVE  Mailroom' /\ [Outbox!Next]_(Outbox!vars)
<1> USE DEF tables, volatile, vars, step, pending
<1>0. TypeOK /\ CheckpointExplained /\ Place
  BY DEF IInv
<1>1. ASSUME rows' = rows, sent' = sent, log'.results = log.results
      PROVE  [Outbox!Next]_(Outbox!vars)
  BY <1>1 DEF Outbox!vars, Decision
<1>2. ASSUME UNCHANGED <<rows, sent, tainted, batch>>, log'.results = log.results,
             pc # "down", pc' # "down", run'.step = run.step,
             log'.responses = log.responses, run'.status # "NONE"
      PROVE  Mailroom' /\ [Outbox!Next]_(Outbox!vars)
  BY <1>1, <1>2 DEF Mailroom, CallOf, CallsAt
<1>3. CASE Create
  BY <1>0, <1>1, <1>3 DEF Create, Mailroom, CallOf, CallsAt, TypeOK, RunRow
<1>4. CASE Resume
  <2>1. /\ UNCHANGED <<rows, sent, batch, log, run>> /\ pc' = "top"
        /\ (tainted' <=> log.results # {}) /\ run.status # "NONE"
    BY <1>4 DEF Resume, RebuiltTaint, Unfinished
  <2> QED
    BY <1>1, <2>1 DEF Mailroom, CallOf, CallsAt
<1>5. CASE ResumeFails \/ ResumeFinished
  BY <1>1, <1>5 DEF ResumeFails, ResumeFinished, Mailroom, CallOf, CallsAt
<1>6. ASSUME UNCHANGED <<rows, sent>>, log'.results = log.results, pc' = "down",
             tainted' = FALSE, batch' = NoBatch, run'.status # "NONE"
      PROVE  Mailroom' /\ [Outbox!Next]_(Outbox!vars)
  BY <1>1, <1>6 DEF Mailroom, NoBatch
<1>7. CASE Crash
  BY <1>0, <1>6, <1>7 DEF Crash, Place
<1>8. ASSUME NEW why, FinishRun(why)
      PROVE  Mailroom' /\ [Outbox!Next]_(Outbox!vars)
  BY <1>0, <1>6, <1>8 DEF FinishRun, TypeOK, Log
<1>9. CASE StepLimit \/ Complete \/ FinishFailed
  BY <1>8, <1>9 DEF StepLimit, Complete, FinishFailed
<1>10. CASE StopRecordedNoProgress \/ BeginTools \/ ResumeResponse
  BY <1>0, <1>2, <1>10 DEF StopRecordedNoProgress, BeginTools, ResumeResponse,
                           NothingPending, AtTop, Raise, Place
<1>11. CASE RecoverPending
  BY <1>0, <1>2, <1>11 DEF RecoverPending, AtTop, Place, TypeOK, RunRow
<1>12. CASE BeginStep
  <2>1. batch = NoBatch
    BY <1>0, <1>12 DEF BeginStep, NothingPending, AtTop, Place
  <2> QED
    BY <1>0, <1>1, <1>12, <2>1 DEF BeginStep, NothingPending, AtTop, Mailroom,
                                   NoBatch, Place, TypeOK, RunRow
<1>13. CASE \/ ContextTooLarge \/ SendRequest \/ LLMFails \/ RecordText
           \/ RejectPartial \/ RejectContradiction
  BY <1>0, <1>2, <1>13 DEF ContextTooLarge, SendRequest, LLMFails, RecordText,
                           RejectPartial, RejectContradiction, Raise, Place, TypeOK,
                           Log
<1>14. ASSUME NEW r \in Responses, LLMAnswers(r)
       PROVE  Mailroom' /\ [Outbox!Next]_(Outbox!vars)
  <2>1. batch = NoBatch /\ run.status # "NONE"
    BY <1>0, <1>14 DEF LLMAnswers, Place
  <2> QED
    BY <1>0, <1>1, <1>14, <2>1 DEF LLMAnswers, Mailroom, NoBatch, TypeOK, Log
<1>15. CASE ChargeBudget \/ CheckProgress
  BY <1>0, <1>2, <1>15 DEF ChargeBudget, CheckProgress, Raise, Place, TypeOK, Log
<1>16. CASE ParseCalls
  BY <1>0, <1>2, <1>16 DEF ParseCalls, Place, TypeOK, Log, RunRow
<1>17. ASSUME NEW i \in pending, StartCall(i)
       PROVE  Mailroom' /\ [Outbox!Next]_(Outbox!vars)
  BY <1>0, <1>2, <1>17 DEF StartCall, Place, TypeOK, Log
<1>18. CASE LookUpRows
  <2>1. batch'.restored = {}
    BY <1>18 DEF LookUpRows
  <2> QED
    BY <1>0, <1>1, <1>18, <2>1 DEF LookUpRows, Mailroom, Place
<1>19. CASE ToolsDone
  <2>1. batch'.restored = {}
    BY <1>19 DEF ToolsDone, NoBatch
  <2> QED
    BY <1>0, <1>1, <1>19, <2>1 DEF ToolsDone, Collecting, Mailroom, Place, TypeOK,
                                   RunRow
<1>20. pc = "exec" => \A i \in pending :
         /\ CallOf(i) \in Call /\ Key(i) \in Keys
         /\ (Key(i) \in MailKeys <=> CallOf(i).tool = "email")
  BY <1>0, CallType, KeyOfTool DEF Place, Key, MailKeys
<1>21. ASSUME Running, NEW i \in pending,
              \/ \E outcome \in {"ok", "failed"} : Settle(i, outcome)
              \/ FailAndRollBack(i)
       PROVE  \A j \in batch'.restored : CallOf(j)'.tool = "write"
  <2>1. CallOf(i)' = CallOf(i) /\ \A j : CallOf(j)' = CallOf(j)
    BY <1>21 DEF Running, CallOf, CallsAt
  <2>2. CASE \E outcome \in {"ok", "failed"} : Settle(i, outcome)
    BY <1>0, <2>1, <2>2 DEF Settle, Mailroom, TypeOK, Batch
  <2>3. CASE FailAndRollBack(i)
    BY <1>0, <2>1, <2>3 DEF FailAndRollBack, Written, Mailroom, TypeOK, Batch
  <2> QED
    BY <1>21, <2>2, <2>3
<1>22. ASSUME Running, NEW i \in pending,
              \/ \E outcome \in {"ok", "failed"} : Settle(i, outcome)
              \/ FailAndRollBack(i),
              sent' = sent, \A k \in MailKeys : rows'[k] = rows[k]
       PROVE  Mailroom' /\ [Outbox!Next]_(Outbox!vars)
  <2>1. \A j \in batch'.restored : CallOf(j)'.tool = "write"
    BY <1>21, <1>22
  <2>2. Mailroom'
    BY <1>22, <2>1 DEF Running, Mailroom
  <2>3. [Outbox!Next]_(Outbox!vars)
    BY <1>22 DEF Running, Outbox!vars, Decision
  <2> QED
    BY <2>2, <2>3
<1>23. ASSUME NEW i \in pending, RunRead(i) \/ RunWrite(i)
       PROVE  Mailroom' /\ [Outbox!Next]_(Outbox!vars)
  <2>1. Running /\ CallOf(i).tool # "email"
    BY <1>23 DEF RunRead, RunWrite, First, Todo
  <2>2. Key(i) \notin MailKeys
    BY <1>20, <2>1 DEF Running
  <2>3. \/ \E outcome \in {"ok", "failed"} : Settle(i, outcome)
        \/ FailAndRollBack(i)
    BY <1>23 DEF RunRead, RunWrite, Reuse, Block, Outcome
  <2>4. sent' = sent
    BY <1>23 DEF RunRead, RunWrite, Reuse, Block
  <2>5. \A k \in MailKeys : rows'[k] = rows[k]
    BY <1>0, <1>23, <2>2 DEF RunRead, RunWrite, Reuse, Block, SetRow, TypeOK,
                             MailKeys
  <2> QED
    BY <1>22, <2>1, <2>3, <2>4, <2>5
<1>24. ASSUME NEW i \in pending, RunEmail(i)
       PROVE  Mailroom' /\ [Outbox!Next]_(Outbox!vars)
  <2>1. Running /\ Key(i) \in MailKeys
    BY <1>20, <1>24 DEF RunEmail, First, Todo, Running
  <2>2. \/ \E outcome \in {"ok", "failed"} : Settle(i, outcome)
        \/ FailAndRollBack(i)
    BY <1>24 DEF RunEmail, Reuse, Block, Outcome
  <2>3. \A j \in batch'.restored : CallOf(j)'.tool = "write"
    BY <1>21, <2>1, <2>2
  <2>4. CASE Reuse(i)
    BY <1>22, <2>1, <2>2, <2>4 DEF Reuse
  <2>5. ASSUME ~HasRow(Key(i)), NEW st \in {"blocked", "failed"},
               SetRow(Key(i), st, "fits"), sent' = sent
        PROVE  Mailroom' /\ [Outbox!Next]_(Outbox!vars)
    <3>1. rows' = [rows EXCEPT ![Key(i)] = [status |-> st, size |-> "fits"]]
      BY <2>5 DEF SetRow
    <3>2. Key(i) \in Keys /\ rows[Key(i)].status = "absent" /\ Key(i) \notin sent
      BY <2>1, <2>5 DEF MailKeys, HasRow, Mailroom
    <3>3. Mailroom'
      BY <1>0, <2>1, <2>3, <2>5, <3>1, <3>2 DEF Running, Mailroom, TypeOK, MailKeys
    <3>4. Outbox!Refuse(Key(i))
      BY <1>0, <2>1, <2>5, <3>1, <3>2 DEF Running, Outbox!Refuse, Decision, TypeOK,
                                          MailKeys
    <3> QED
      BY <2>1, <3>3, <3>4 DEF Outbox!Next
  <2>6. ASSUME ~HasRow(Key(i)), ~tainted, NEW size \in ResultSizes,
               SetRow(Key(i), "completed", size), sent' = sent \cup {Key(i)}
        PROVE  Mailroom' /\ [Outbox!Next]_(Outbox!vars)
    <3>1. rows' = [rows EXCEPT ![Key(i)] = [status |-> "completed", size |-> size]]
      BY <2>6 DEF SetRow
    <3>2. Key(i) \in Keys /\ rows[Key(i)].status = "absent" /\ Key(i) \notin sent
      BY <2>1, <2>6 DEF MailKeys, HasRow, Mailroom
    <3>3. Mailroom'
      BY <1>0, <2>1, <2>3, <2>6, <3>1, <3>2 DEF Running, Mailroom, TypeOK, MailKeys
    <3>4. log.results = {}
      BY <2>1, <2>6 DEF Running, Mailroom
    <3>5. Outbox!Send(Key(i))
      BY <1>0, <2>1, <2>6, <3>1, <3>2, <3>4 DEF Running, Outbox!Send, Decision,
                                                TypeOK, MailKeys
    <3> QED
      BY <2>1, <3>3, <3>5 DEF Outbox!Next
  <2>7. CASE Block(i)
    BY <2>5, <2>7 DEF Block
  <2> QED
    BY <1>24, <2>4, <2>5, <2>6, <2>7 DEF RunEmail
<1>25. ASSUME NEW i \in pending, MarkRolledBack(i)
       PROVE  Mailroom' /\ [Outbox!Next]_(Outbox!vars)
  <2>1. pc = "exec" /\ CallOf(i).tool = "write"
    BY <1>25 DEF MarkRolledBack, Collecting, Mailroom
  <2>2. Key(i) \notin MailKeys
    BY <1>20, <2>1
  <2>3. \A k \in MailKeys : rows'[k] = rows[k]
    BY <1>0, <1>25, <2>2 DEF MarkRolledBack, TypeOK, MailKeys
  <2>4. batch'.restored \subseteq batch.restored
    BY <1>0, <1>25 DEF MarkRolledBack, TypeOK, Batch
  <2> QED
    BY <1>25, <2>1, <2>3, <2>4 DEF MarkRolledBack, Mailroom, CallOf, CallsAt,
                                   Outbox!vars, Decision
<1>26. ASSUME NEW i \in pending, RecordResult(i)
       PROVE  Mailroom' /\ [Outbox!Next]_(Outbox!vars)
  <2>1. CASE ResultLogged(i)
    BY <1>0, <1>1, <1>26, <2>1 DEF RecordResult, Collecting, Mailroom, CallOf,
                                   CallsAt
  <2>2. CASE ~ResultLogged(i)
    <3>1. /\ tainted' = TRUE /\ log'.results # {} /\ log'.responses = log.responses
          /\ UNCHANGED <<run, rows, sent, batch>> /\ pc = "exec" /\ pc' # "down"
      <4>1. \E e : log' = [log EXCEPT !.results = @ \cup {e}]
        BY <1>26, <2>2 DEF RecordResult
      <4>2. log'.results # {} /\ log'.responses = log.responses
        BY <1>0, <4>1 DEF TypeOK, Log
      <4>3. /\ pc = "exec" /\ pc' # "down" /\ tainted' = TRUE
            /\ UNCHANGED <<run, rows, sent, batch>>
        BY <1>26, <2>2 DEF RecordResult, Collecting, Raise
      <4> QED
        BY <4>2, <4>3
    <3>2. Mailroom'
      BY <1>0, <3>1 DEF Mailroom, CallOf, CallsAt, Place
    <3>3. Outbox!Taint
      BY <3>1 DEF Outbox!Taint, Decision
    <3> QED
      BY <3>2, <3>3 DEF Outbox!Next
  <2> QED
    BY <2>1, <2>2
<1> QED
  BY <1>3, <1>4, <1>5, <1>7, <1>9, <1>10, <1>11, <1>12, <1>13, <1>14, <1>15, <1>16,
     <1>17, <1>18, <1>19, <1>23, <1>24, <1>25, <1>26
  DEF Next, Process, LoopHead, ModelTurn, BatchStep

\* Outbox, rows and flag agree in every reachable state.
LEMMA SpecMailroom == Spec => []Mailroom
<1>1. Init => Mailroom
  BY DEF Init, EmptyLog, NoRow, NoBatch, Mailroom, MailKeys
<1>2. Mailroom /\ UNCHANGED vars => Mailroom'
  BY DEF vars, Mailroom, CallOf, CallsAt, step
<1>3. IInv /\ Mailroom /\ [Next]_vars => Mailroom'
  BY <1>2, OutboxStep
<1> QED
  BY SpecIInv, <1>1, <1>3, PTL DEF Spec

\* The run implements the abstract outbox: send_email_tool_once and the blocking
\* of run_one decide each email once, and never send after a tool result.
THEOREM SpecImplementsOutbox == Spec => ImplementsOutbox
<1>1. Init => Mailroom /\ Outbox!Init
  BY DEF Init, EmptyLog, NoRow, NoBatch, Mailroom, MailKeys, Outbox!Init, Decision
<1>2. IInv /\ Mailroom /\ [Next]_vars => Mailroom' /\ [Outbox!Next]_(Outbox!vars)
  <2>1. IInv /\ Mailroom /\ UNCHANGED vars => Mailroom' /\ [Outbox!Next]_(Outbox!vars)
    BY DEF vars, Mailroom, CallOf, CallsAt, step, Outbox!vars, Decision
  <2> QED
    BY <2>1, OutboxStep
<1> QED
  BY SpecIInv, <1>1, <1>2, PTL DEF Spec, ImplementsOutbox, Outbox!Spec

(***************************************************************************)
(* The record of a batch.                                                  *)
(***************************************************************************)

\* Call i of step s has a start event.
Started(s, i) ==
  \E b \in log.starts : b.step = s /\ b.key = IdempotencyKey(CallsAt(s)[i])

\* Call i of step s has a result event of that step.
Answered(s, i) ==
  \E e \in log.results : e.step = s /\ e.key = IdempotencyKey(CallsAt(s)[i])

\* Which calls of the current batch have been started and answered.
Tracked ==
  /\ EveryCallAnswered
  /\ \A e \in log.results :
       e.step \in log.parsed /\ \A i \in DOMAIN CallsAt(e.step) : Started(e.step, i)
  /\ pc = "start" => \A i \in pending : i < idx => Started(step, i)
  /\ pc = "exec" => \A i \in pending : Started(step, i)
  /\ run.status = "RUNNING_TOOLS" =>
       \A i \in DOMAIN CallsAt(step) \ pending : Answered(step, i)

\* Every step of the run preserves the record of starts and results.
LEMMA TrackedStep ==
  ASSUME LInv, Tracked, Next
  PROVE  Tracked'
<1> USE DEF tables, volatile, vars, step, pending
<1>0. TypeOK /\ CheckpointExplained /\ Place /\ Ledger
  BY DEF LInv, IInv
<1>1. ASSUME run'.step = run.step, run'.pending = run.pending,
             run'.status = "RUNNING_TOOLS" => run.status = "RUNNING_TOOLS",
             log'.responses = log.responses, log'.parsed = log.parsed,
             log'.starts = log.starts, log'.results = log.results,
             pc' = "start" => pc = "start" /\ idx' = idx, pc' = "exec" => pc = "exec"
      PROVE  Tracked'
  BY <1>1 DEF Tracked, EveryCallAnswered, Started, Answered, CallsAt
<1>2. CASE Create
  BY <1>0, <1>1, <1>2 DEF Create, TypeOK, RunRow
<1>3. CASE Resume \/ Crash
  BY <1>1, <1>3 DEF Resume, Crash
<1>4. CASE ResumeFails \/ ResumeFinished
  BY <1>1, <1>4 DEF ResumeFails, ResumeFinished
<1>5. CASE \/ StopRecordedNoProgress \/ ContextTooLarge \/ LLMFails
          \/ RejectPartial \/ RejectContradiction
  BY <1>1, <1>5 DEF StopRecordedNoProgress, ContextTooLarge, LLMFails,
                    RejectPartial, RejectContradiction, Raise
<1>6. CASE ResumeResponse
  BY <1>1, <1>6 DEF ResumeResponse
<1>7. CASE SendRequest \/ RecordText \/ ChargeBudget \/ CheckProgress
  BY <1>0, <1>1, <1>7 DEF SendRequest, RecordText, ChargeBudget, CheckProgress,
                          Raise, TypeOK, Log
<1>8. ASSUME NEW i \in pending, RunRead(i) \/ RunWrite(i) \/ RunEmail(i)
      PROVE  Tracked'
  <2>1. Running
    BY <1>8 DEF RunRead, RunWrite, RunEmail
  <2> QED
    BY <1>1, <2>1 DEF Running
<1>9. ASSUME NEW i \in pending, MarkRolledBack(i)
       PROVE  Tracked'
  BY <1>1, <1>9 DEF MarkRolledBack, Collecting
<1>10. ASSUME NEW why, FinishRun(why)
       PROVE  Tracked'
  <2>1. /\ run'.step = run.step /\ run'.status = "FINISHED" /\ pc' = "down"
        /\ log'.responses = log.responses /\ log'.parsed = log.parsed
        /\ log'.starts = log.starts /\ log'.results = log.results
    BY <1>0, <1>10 DEF FinishRun, TypeOK, Log
  <2> QED
    BY <2>1 DEF Tracked, EveryCallAnswered, Started, Answered, CallsAt
<1>11. CASE StepLimit \/ Complete \/ FinishFailed
  BY <1>10, <1>11 DEF StepLimit, Complete, FinishFailed
<1>12. CASE BeginTools
  <2>1. \A i \in pending : i \in Nat /\ ~(i < 1)
    BY <1>0, <1>12, CallType DEF BeginTools, Place
  <2> QED
    BY <1>12, <2>1 DEF BeginTools, AtTop, Tracked, EveryCallAnswered, Started,
                       Answered, CallsAt
<1>13. CASE RecoverPending
  <2>1. /\ run'.step = run.step /\ run'.pending = RecoveredCalls /\ pc' = "start"
        /\ log' = log /\ idx' = 1
    BY <1>0, <1>13 DEF RecoverPending, TypeOK, RunRow
  <2>2. step \in log.parsed /\ CallsAt(step) \in Seq(Call)
    BY <1>0, <1>13, AnswerType DEF RecoverPending, RecoveredCalls, Place, TypeOK,
                                   Log
  <2>3. \A i \in DOMAIN CallsAt(step) : i \in Nat /\ ~(i < 1)
    BY <2>2
  <2>4. RecoveredCalls \subseteq DOMAIN CallsAt(step)
    BY <2>2 DEF RecoveredCalls
  <2>5. \A i \in DOMAIN CallsAt(step) \ RecoveredCalls : Answered(step, i)
    BY <2>2 DEF RecoveredCalls, Answered, Key, CallOf
  <2> QED
    BY <2>1, <2>3, <2>4, <2>5 DEF Tracked, EveryCallAnswered, Started, Answered,
                                  CallsAt
<1>14. CASE BeginStep
  <2>1. /\ run'.step = NextStep /\ run'.status = "CALLING_LLM" /\ pc' = "request"
        /\ log' = log
    BY <1>0, <1>14 DEF BeginStep, TypeOK, RunRow
  <2>2. NextStep \in {step, step + 1} /\ step \in Nat
    BY <1>0, ConfigAssumption DEF NextStep, TypeOK, RunRow
  <2>3. step \in log.parsed => \A i \in DOMAIN CallsAt(step) : Answered(step, i)
    BY <1>14 DEF BeginStep, NothingPending, RecoveredCalls, Answered, Key, CallOf
  <2>4. \A s \in log.parsed : s < NextStep => s < step \/ s = step
    BY <1>0, <2>2 DEF TypeOK, Log, Steps
  <2>5. EveryCallAnswered'
    BY <2>1, <2>3, <2>4 DEF Tracked, EveryCallAnswered, Answered, CallsAt
  <2> QED
    BY <2>1, <2>5 DEF Tracked, Started, CallsAt
<1>15. ASSUME NEW r \in Responses, LLMAnswers(r)
       PROVE  Tracked'
  <2>1. /\ run' = run /\ pc' = "parse" /\ run.status # "RUNNING_TOOLS"
        /\ log'.parsed = log.parsed /\ log'.starts = log.starts
        /\ log'.results = log.results
    BY <1>0, <1>15 DEF LLMAnswers, Place, CheckpointExplained, TypeOK, Log
  <2>2. \A s \in log.parsed : log'.responses[s] = log.responses[s]
    BY <1>0, <1>15 DEF LLMAnswers, Place, TypeOK, Log
  <2> QED
    BY <2>1, <2>2 DEF Tracked, EveryCallAnswered, Started, Answered, CallsAt
<1>16. CASE ParseCalls
  <2>1. /\ run'.step = run.step /\ run'.pending = DOMAIN CallsAt(step)
        /\ pc' = "progress"
        /\ log'.parsed = log.parsed \cup {step} /\ log'.responses = log.responses
        /\ log'.starts = log.starts /\ log'.results = log.results
    BY <1>0, <1>16 DEF ParseCalls, Answer, CallsAt, TypeOK, Log, RunRow
  <2>2. step \in Nat
    BY <1>0 DEF TypeOK, RunRow
  <2> QED
    BY <2>1, <2>2 DEF Tracked, EveryCallAnswered, Started, Answered, CallsAt
<1>17. ASSUME NEW i \in pending, StartCall(i)
       PROVE  Tracked'
  <2> DEFINE b == [step |-> step, index |-> Index(i), key |-> Key(i)]
  <2>1. log' = [log EXCEPT !.starts = @ \cup {b}]
    BY <1>17 DEF StartCall
  <2>2. /\ log'.parsed = log.parsed /\ log'.responses = log.responses
        /\ log'.starts = log.starts \cup {b} /\ log'.results = log.results
    BY <1>0, <2>1 DEF TypeOK, Log
  <2>3. pc = "start" /\ pc' = "start" /\ run' = run /\ idx' = i + 1 /\ Reached(i)
    BY <1>17 DEF StartCall
  <2>4. \A j \in pending : j < i + 1 => j < idx \/ j = i
    <3>1. \A j \in pending : j \in Nat
      BY <1>0, <2>3, CallType DEF Place
    <3> QED
      BY <1>0, <2>3, <3>1 DEF Reached, Ahead, TypeOK
  <2>5. b.step = step /\ b.key = IdempotencyKey(CallsAt(step)[i])
    BY DEF Key, CallOf
  <2> HIDE DEF b
  <2>6. \A s, j : Started(s, j) => Started(s, j)'
    BY <2>2 DEF Started, CallsAt
  <2>7. Started(step, i)'
    BY <2>2, <2>3, <2>5 DEF Started, CallsAt
  <2> QED
    BY <2>2, <2>3, <2>4, <2>6, <2>7 DEF Tracked, EveryCallAnswered, Answered,
                                        CallsAt
<1>18. CASE LookUpRows
  <2>1. \A i \in pending : i < idx
    <3>1. \A j \in pending : j \in Nat
      BY <1>0, <1>18, CallType DEF LookUpRows, Place
    <3> QED
      BY <1>0, <1>18, <3>1 DEF LookUpRows, AllStarted, Ahead, TypeOK
  <2> QED
    BY <1>18, <2>1 DEF LookUpRows, Tracked, EveryCallAnswered, Started, Answered,
                       CallsAt
<1>19. ASSUME NEW i \in pending, RecordResult(i)
       PROVE  Tracked'
  <2>1. \/ log' = log
        \/ \E e : e.step = step /\ log' = [log EXCEPT !.results = @ \cup {e}]
    <3> DEFINE e == [step |-> step, index |-> Index(i), key |-> Key(i),
                     ok |-> batch.out[i] = "ok",
                     size |-> IF batch.out[i] = "ok" THEN rows[Key(i)].size
                              ELSE "fits"]
    <3>1. log' = log \/ log' = [log EXCEPT !.results = @ \cup {e}]
      BY <1>19 DEF RecordResult
    <3>2. e.step = step
      OBVIOUS
    <3> HIDE DEF e
    <3> QED
      BY <3>1, <3>2
  <2>2. /\ log'.parsed = log.parsed /\ log'.responses = log.responses
        /\ log'.starts = log.starts /\ log.results \subseteq log'.results
        /\ \A e \in log'.results : e \in log.results \/ e.step = step
    BY <1>0, <2>1 DEF TypeOK, Log
  <2>3. pc = "exec" /\ run' = run /\ pc' \in {"exec", "failing"}
    BY <1>19 DEF RecordResult, Collecting, Raise
  <2>4. run.status = "RUNNING_TOOLS" /\ step \in log.parsed
    BY <1>0, <2>3 DEF Place, CheckpointExplained
  <2>5. \A j \in DOMAIN CallsAt(step) : Started(step, j)
    BY <2>3, <2>4 DEF Tracked, Answered
  <2>6. \A s, j : Started(s, j) <=> Started(s, j)'
    BY <2>2 DEF Started, CallsAt
  <2>7. \A s, j : Answered(s, j) => Answered(s, j)'
    BY <2>2 DEF Answered, CallsAt
  <2>8. EveryCallAnswered'
    BY <2>2, <2>3 DEF Tracked, EveryCallAnswered, CallsAt
  <2> QED
    BY <2>2, <2>3, <2>4, <2>5, <2>6, <2>7, <2>8 DEF Tracked, CallsAt
<1>20. CASE ToolsDone
  <2>1. /\ run'.step = run.step /\ run'.status = "CALLING_LLM"
        /\ pc' = "top" /\ log' = log
    BY <1>0, <1>20 DEF ToolsDone, TypeOK, RunRow
  <2> QED
    BY <2>1 DEF Tracked, EveryCallAnswered, Started, Answered, CallsAt
<1> QED
  BY <1>2, <1>3, <1>4, <1>5, <1>6, <1>7, <1>8, <1>9, <1>11, <1>12, <1>13, <1>14,
     <1>15, <1>16, <1>17, <1>18, <1>19, <1>20
  DEF Next, Process, LoopHead, ModelTurn, BatchStep

\* Starts and results are recorded as the batch goes on.
LEMMA SpecTracked == Spec => []Tracked
<1>1. Init => Tracked
  BY DEF Init, EmptyLog, Tracked, EveryCallAnswered
<1>2. Tracked /\ UNCHANGED vars => Tracked'
  BY DEF vars, Tracked, EveryCallAnswered, Started, Answered, CallsAt, step, pending
<1>3. LInv /\ Tracked /\ [Next]_vars => Tracked'
  BY <1>2, TrackedStep
<1> QED
  BY SpecLInv, <1>1, <1>3, PTL DEF Spec

\* _recover_pending_tool_calls and the batch leave no call of a finished step
\* without a result event of that step.
THEOREM SpecEveryCallAnswered == Spec => []EveryCallAnswered
  BY SpecTracked, PTL DEF Tracked

\* _execute_tool_calls records the start of every call before any result, also
\* in a batch that is run again after a crash.
THEOREM SpecStartsPrecedeResults == Spec => []StartsPrecedeResults
<1>1. Tracked => StartsPrecedeResults
  BY DEF Tracked, StartsPrecedeResults, Started
<1> QED
  BY SpecTracked, <1>1, PTL
=============================================================================
