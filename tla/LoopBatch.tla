----------------------------- MODULE LoopBatch -----------------------------
(***************************************************************************)
(* The part of AgentLoop that executes a batch: from its first start event *)
(* to update_run of the loop after its last result.  A process that dies   *)
(* in between is relaunched, rebuilds what it knows and begins the calls   *)
(* again.                                                                  *)
(***************************************************************************)
EXTENDS AgentLoop

\* A batch that is requested: nothing of it is started, and no call has a row.
BatchRequested ==
  /\ pc = "start" /\ idx = 1 /\ batch = NoBatch
  /\ run.status = "RUNNING_TOOLS" /\ pending = DOMAIN CallsAt(step)
  /\ \A e \in log.starts \cup log.results : e.step < step
  /\ \A i \in pending : ~HasRow(Key(i))
  /\ tainted = RebuiltTaint
  /\ crashes = 0

\* Resume followed by BeginTools.
RestartBatch ==
  /\ pc = "down" /\ Unfinished /\ MemoryRebuilds
  /\ step < MaxSteps /\ ~RecordedNoProgress /\ pending # {}
  /\ pc' = "start"
  /\ idx' = 1
  /\ cost' = CostSoFar
  /\ tainted' = RebuiltTaint
  /\ UNCHANGED <<task, tables, batch, reason, crashes>>

BatchSpec == BatchRequested /\ [][BatchStep \/ Crash \/ RestartBatch]_vars
=============================================================================
