--------------------------- MODULE ToolBatchProofs ---------------------------
(***************************************************************************)
(* Theorems of ToolBatch about emails, recorded outcomes, lost calls, the  *)
(* workspace and the results, for every batch and any number of crashes,   *)
(* and that it implements the batch of AgentLoop.  The invariant is a      *)
(* conjunction of parts, each proved on top of the ones before it.         *)
(***************************************************************************)
EXTENDS BatchPhase, FiniteSetTheorems, SequenceTheorems, TLAPS

FileStates == {None, "old", "torn"} \cup Contents
Preimages == [index : Of("write"), path : Paths, content : FileStates]

\* Type invariant.
TypeOK ==
  /\ calls \in Batches
  /\ rows \in [Keys -> {"absent", "completed", "failed", "blocked"}]
  /\ sent \subseteq Mails
  /\ started \subseteq Indexes
  /\ results \in [Indexes -> BOOLEAN \cup {None}]
  /\ files \in [Paths -> FileStates]
  /\ pc \in {"start", "reads", "effects", "wrote", "not written", "undo", "collect",
             "done", "down"}
  /\ worker \in [Indexes -> {"off", "check", "body", "completed", "failed"}]
  /\ out \in [Indexes -> {"none", "ok", "failed"}]
  /\ at \in Nat \ {0}
  /\ preimages \in Seq(Preimages)
  /\ restored \subseteq Of("write")
  /\ tainted \in BOOLEAN
  /\ bodies \in [Keys -> Nat]
  /\ before \in [Paths -> FileStates]
  /\ tainted0 \in BOOLEAN
  /\ crashes \in Nat

Looked == pc \notin {"start", "down"}
Writing == pc \in {"wrote", "not written"}

\* What each place of the main thread and of the readers says about the outcomes.
Stages ==
  /\ ~Looked => out = Blank /\ preimages = <<>> /\ restored = {}
  /\ pc = "down" => at = 1 /\ tainted = FALSE
  /\ pc # "reads" => ReadersDone
  /\ \A i \in Indexes : worker[i] # "off" => i \in Of("read") /\ out[i] = "none"
  /\ Looked => \A i \in Of("read") : worker[i] = "off" => out[i] # "none"
  /\ Looked => \A i \in Indexes : out[i] # "none" => HasRow(Key(i))
  /\ Writing =>
       /\ at \in Todo("write") /\ ~HasRow(Key(at)) /\ ~BatchFailed
       /\ \A j \in Of("write") : j < at => out[j] # "none"
  /\ pc \in {"collect", "done"} => \A i \in Indexes : out[i] # "none"

\* Only a write that is settled, or just done, can be put back.
HeldSettled == \A i \in Held : out[i] # "none" \/ (pc = "wrote" /\ i = at)

Base == TypeOK /\ Stages /\ HeldSettled


(***************************************************************************)
(* Calls and their keys.                                                   *)
(***************************************************************************)

\* A call is one of the three kinds; a write has a content for its file.
LEMMA CallFields ==
  ASSUME NEW c \in Call
  PROVE  /\ c.tool \in {"read", "write", "email"}
         /\ KeyOf(c).tool = c.tool
         /\ c.tool = "write" => c.target \in Paths /\ c.content \in Contents
         /\ c.content \in Contents \cup {None}
<1>1. c = [id |-> c.id, tool |-> c.tool, target |-> c.target, content |-> c.content]
  BY DEF Call
<1>2. KeyOf(c) = [id |-> KeyOf(c).id, tool |-> c.tool, target |-> c.target,
                  content |-> c.content]
  BY <1>1 DEF KeyOf
<1> QED
  BY <1>1, <1>2 DEF Call

\* The calls of a batch, by index.
LEMMA CallType ==
  ASSUME calls \in Batches
  PROVE  /\ Len(calls) \in Nat /\ Indexes = 1..Len(calls)
         /\ \A i \in Indexes :
              /\ calls[i] \in Call /\ Key(i) \in Keys
              /\ calls[i].tool \in {"read", "write", "email"}
              /\ Key(i).tool = calls[i].tool
              /\ Key(i) \in Mails <=> calls[i].tool = "email"
              /\ calls[i].tool = "write" =>
                   calls[i].target \in Paths /\ calls[i].content \in Contents
              /\ calls[i].content \in Contents \cup {None}
<1>1. calls \in Seq(Call)
  BY BatchAssumption
<1>2. Len(calls) \in Nat /\ Indexes = 1..Len(calls) /\ \A i \in Indexes : calls[i] \in Call
  BY <1>1 DEF Indexes
<1>3. \A i \in Indexes : Key(i) \in Keys
  BY DEF Key, Keys, Indexes
<1> QED
  BY <1>2, <1>3, CallFields DEF Key, Mails

(***************************************************************************)
(* Types and stages.                                                       *)
(***************************************************************************)

\* The batch is fixed, and the program is in the middle of it.
LEMMA Frame ==
  ASSUME Next
  PROVE  /\ calls' = calls /\ Indexes' = Indexes
         /\ \A t : Of(t)' = Of(t)
         /\ \A i : Key(i)' = Key(i)
<1>1. calls' = calls
  BY DEF Next, Main, Reader, StartCall, LookUpRows, CheckRow, ReadBody, ReadRecord,
         JoinReaders, SkipEffect, ReuseEffect, WriteBody, SendEmail, RefuseEmail,
         WriteRecord, UndoWrite, UndoDone, Collect, MarkRolledBack, RecordResult,
         BatchDone, Crash, Resume, Finished, vars
<1> QED
  BY <1>1 DEF Indexes, Of, Key

\* A loop index that has not passed the end is the index of a call.
LEMMA AtCall ==
  ASSUME calls \in Batches, at \in Nat \ {0}
  PROVE  CallLeft <=> at \in Indexes
BY CallType DEF CallLeft

\* The indexes count from one.
LEMMA IndexPositive ==
  ASSUME calls \in Batches
  PROVE  \A i \in Indexes : i \in Nat \ {0}
BY CallType

\* Undoing a write takes the newest preimage and leaves the others as they are.
LEMMA Popped ==
  ASSUME NEW S, preimages \in Seq(S), preimages # <<>>
  PROVE  /\ Len(preimages) \in Nat \ {0} /\ preimages[Len(preimages)] \in S
         /\ PoppedPreimages \in Seq(S) /\ Len(PoppedPreimages) = Len(preimages) - 1
         /\ DOMAIN PoppedPreimages = 1..(Len(preimages) - 1)
         /\ \A n \in 1..(Len(preimages) - 1) : PoppedPreimages[n] = preimages[n]
<1>1. Len(preimages) \in Nat \ {0} /\ \A n \in 1..Len(preimages) : preimages[n] \in S
  BY EmptySeq
<1>2. \A n \in 1..(Len(preimages) - 1) : preimages[n] \in S
  BY <1>1
<1>3. /\ PoppedPreimages \in Seq(S)
      /\ Len(PoppedPreimages) =
           IF 1 <= Len(preimages) - 1 THEN Len(preimages) - 1 - 1 + 1 ELSE 0
      /\ \A n \in 1..(Len(preimages) - 1 - 1 + 1) :
           PoppedPreimages[n] = preimages[1 + n - 1]
  <2>1. 1 \in Int /\ Len(preimages) - 1 \in Int
    BY <1>1
  <2> QED
    BY <1>2, <2>1, SubSeqProperties DEF PoppedPreimages
<1>4. Len(PoppedPreimages) = Len(preimages) - 1
  <2> DEFINE n == Len(preimages)
  <2>1. /\ n \in Nat \ {0}
        /\ Len(PoppedPreimages) = IF 1 <= n - 1 THEN n - 1 - 1 + 1 ELSE 0
    BY <1>1, <1>3
  <2> HIDE DEF n
  <2>2. Len(PoppedPreimages) = n - 1
    BY <2>1
  <2> QED
    BY <2>2 DEF n
<1>5. \A n \in 1..(Len(preimages) - 1) : PoppedPreimages[n] = preimages[n]
  <2> SUFFICES ASSUME NEW n \in 1..(Len(preimages) - 1)
               PROVE  PoppedPreimages[n] = preimages[n]
    OBVIOUS
  <2>1. n \in 1..(Len(preimages) - 1 - 1 + 1) /\ 1 + n - 1 = n
    BY <1>1
  <2> QED
    BY <1>3, <2>1
<1>6. DOMAIN PoppedPreimages = 1..(Len(preimages) - 1)
  BY <1>3, <1>4
<1>7. preimages[Len(preimages)] \in S
  BY <1>1
<1> QED
  BY <1>1, <1>3, <1>4, <1>5, <1>6, <1>7

\* Which writes can be put back before and after a step.
LEMMA HeldStep ==
  ASSUME NEW S, preimages \in Seq(S)
  PROVE  /\ preimages' = preimages => Held' = Held
         /\ \A x \in S : preimages' = Append(preimages, x) => Held' = Held \cup {x.index}
         /\ preimages # <<>> /\ preimages' = PoppedPreimages =>
              /\ preimages[Len(preimages)].index \in Held
              /\ Held' \subseteq Held
              /\ Held = Held' \cup {preimages[Len(preimages)].index}
         /\ preimages = <<>> => Held = {}
         /\ preimages' = <<>> => Held' = {}
<1>1. preimages' = preimages => Held' = Held
  BY DEF Held
<1>2. ASSUME NEW x \in S, preimages' = Append(preimages, x)
      PROVE  Held' = Held \cup {x.index}
  <2>1. /\ DOMAIN preimages' = 1..(Len(preimages) + 1)
        /\ DOMAIN preimages = 1..Len(preimages) /\ Len(preimages) \in Nat
        /\ \A n \in 1..Len(preimages) : preimages'[n] = preimages[n]
        /\ preimages'[Len(preimages) + 1] = x
    BY <1>2, AppendProperties
  <2>2. DOMAIN preimages' = DOMAIN preimages \cup {Len(preimages) + 1}
    BY <2>1
  <2> QED
    BY <2>1, <2>2 DEF Held
<1>3. ASSUME preimages # <<>>, preimages' = PoppedPreimages
      PROVE  /\ preimages[Len(preimages)].index \in Held
             /\ Held' \subseteq Held
             /\ Held = Held' \cup {preimages[Len(preimages)].index}
  <2>1. /\ Len(preimages) \in Nat \ {0} /\ DOMAIN preimages = 1..Len(preimages)
        /\ DOMAIN preimages' = 1..(Len(preimages) - 1)
        /\ \A n \in 1..(Len(preimages) - 1) : preimages'[n] = preimages[n]
    BY <1>3, Popped
  <2>2. DOMAIN preimages = DOMAIN preimages' \cup {Len(preimages)}
    BY <2>1
  <2>3. \A n \in DOMAIN preimages' : preimages'[n] = preimages[n]
    BY <2>1
  <2> QED
    BY <2>2, <2>3 DEF Held
<1>4. preimages = <<>> => Held = {}
  BY DEF Held
<1>5. preimages' = <<>> => Held' = {}
  BY DEF Held
<1>6. \A x \in S : preimages' = Append(preimages, x) => Held' = Held \cup {x.index}
  BY <1>2
<1> QED
  BY <1>1, <1>3, <1>4, <1>5, <1>6

\* Every step keeps the types.
LEMMA TypeStep ==
  ASSUME Base, Next
  PROVE  TypeOK'
<1> USE DEF table, volatile, history, vars
<1>0. TypeOK /\ Stages
  BY DEF Base
<1>1. /\ calls' = calls /\ Indexes' = Indexes /\ \A t : Of(t)' = Of(t)
      /\ calls \in Batches /\ Preimages' = Preimages
  BY <1>0, Frame DEF TypeOK, Preimages
<1>2. \A i \in Indexes : /\ Key(i) \in Keys
                         /\ Key(i) \in Mails <=> calls[i].tool = "email"
                         /\ i \in Nat \ {0}
  BY <1>1, CallType
<1>3. \A i \in Of("write") :
        i \in Indexes /\ calls[i].target \in Paths /\ calls[i].content \in Contents
  BY <1>1, CallType DEF Of
<1>4. ASSUME NEW k \in Keys, HasRow(k)
      PROVE  Outcome(k) \in {"ok", "failed"}
  BY DEF Outcome
<1>24. ASSUME NEW i \in Indexes, RunBody(i)
       PROVE  bodies' \in [Keys -> Nat]
  <2>1. bodies \in [Keys -> Nat] /\ Key(i) \in Keys
    BY <1>0, <1>2 DEF TypeOK
  <2>2. bodies' = [bodies EXCEPT ![Key(i)] = @ + 1]
    BY <1>24 DEF RunBody
  <2> HIDE DEF table, volatile, history, vars
  <2> QED
    BY <2>1, <2>2
<1>5. CASE StartCall
  <2>1. at \in Indexes /\ at' \in Nat \ {0}
    BY <1>0, <1>1, <1>5, AtCall DEF StartCall, TypeOK
  <2> QED
    BY <1>0, <1>1, <1>5, <2>1 DEF StartCall, TypeOK
<1>6. CASE LookUpRows
  <2>1. out' \in [Indexes -> {"none", "ok", "failed"}]
    BY <1>2, <1>4, <1>6 DEF LookUpRows
  <2>2. worker' \in [Indexes -> {"off", "check", "body", "completed", "failed"}]
    BY <1>6 DEF LookUpRows
  <2> QED
    BY <1>0, <1>1, <1>6, <2>1, <2>2 DEF LookUpRows, TypeOK
<1>7. ASSUME NEW i \in Indexes, CheckRow(i)
      PROVE  TypeOK'
  <2>1. CASE HasRow(Key(i))
    <3>1. Outcome(Key(i)) \in {"ok", "failed"}
      BY <1>2, <1>4, <2>1
    <3> HIDE DEF Outcome
    <3> QED
      BY <1>0, <1>1, <1>7, <2>1, <3>1 DEF CheckRow, Settle, TypeOK
  <2>2. CASE ~HasRow(Key(i))
    BY <1>0, <1>1, <1>7, <2>2 DEF CheckRow, TypeOK
  <2> QED
    BY <2>1, <2>2
<1>8. ASSUME NEW i \in Indexes, ReadBody(i)
      PROVE  TypeOK'
  <2>1. bodies' \in [Keys -> Nat]
    BY <1>2, <1>8, <1>24 DEF ReadBody
  <2>2. files' \in [Paths -> FileStates]
    <3>1. files \in [Paths -> FileStates] /\ calls[i].content \in Contents \cup {None}
      BY <1>0, CallType DEF TypeOK
    <3>2. CASE UNCHANGED files
      BY <3>1, <3>2
    <3>3. ASSUME NEW left \in {calls[i].content, "torn"}, calls[i].content # None,
                 files' = [files EXCEPT ![calls[i].target] = left]
          PROVE  files' \in [Paths -> FileStates]
      <4>1. left \in FileStates
        BY <3>1, <3>3 DEF FileStates
      <4> QED
        BY <3>1, <3>3, <4>1
    <3> QED
      BY <1>8, <3>2, <3>3 DEF ReadBody
  <2> QED
    BY <1>0, <1>1, <1>8, <2>1, <2>2 DEF ReadBody, TypeOK
<1>9. ASSUME NEW i \in Indexes, ReadRecord(i)
      PROVE  TypeOK'
  BY <1>0, <1>1, <1>2, <1>9 DEF ReadRecord, SetRow, Settle, TypeOK
<1>10. CASE JoinReaders \/ UndoDone \/ BatchDone \/ Finished
  BY <1>0, <1>1, <1>10 DEF JoinReaders, UndoDone, BatchDone, Finished, TypeOK
<1>11. ASSUME NEW i \in Indexes, SkipEffect(i)
       PROVE  TypeOK'
  BY <1>0, <1>1, <1>2, <1>4, <1>11 DEF SkipEffect, SetRow, Settle, TypeOK
<1>12. ASSUME NEW i \in Of("write")
       PROVE  Preimage(i) \in Preimages
  BY <1>0, <1>3, <1>12 DEF Preimage, Preimages, TypeOK
<1>13. ASSUME NEW i \in Indexes, ReuseEffect(i)
       PROVE  TypeOK'
  <2>1. preimages' \in Seq(Preimages)
    BY <1>0, <1>12, <1>13, AppendProperties DEF ReuseEffect, TypeOK, Of
  <2> QED
    BY <1>0, <1>1, <1>2, <1>4, <1>13, <2>1 DEF ReuseEffect, Settle, TypeOK
<1>14. ASSUME NEW i \in Indexes, WriteBody(i)
       PROVE  TypeOK'
  <2>1. i \in Of("write")
    BY <1>14 DEF WriteBody
  <2>2. preimages' \in Seq(Preimages)
    <3>1. preimages \in Seq(Preimages)
      BY <1>0 DEF TypeOK
    <3>2. preimages' \in {preimages, Append(preimages, Preimage(i))}
      BY <1>14 DEF WriteBody
    <3>3. Append(preimages, Preimage(i)) \in
            Seq(Preimages)
      BY <1>12, <2>1, <3>1, AppendProperties
    <3> QED
      BY <3>1, <3>2, <3>3
  <2>3. files' \in [Paths -> FileStates]
    BY <1>0, <1>3, <1>14, <2>1 DEF WriteBody, TypeOK, FileStates
  <2>4. bodies' \in [Keys -> Nat]
    BY <1>14, <1>24 DEF WriteBody
  <2>5. pc' \in {"wrote", "not written"} /\ at' \in Nat \ {0}
    BY <1>2, <1>14 DEF WriteBody
  <2> QED
    BY <1>0, <1>1, <1>14, <2>2, <2>3, <2>4, <2>5 DEF WriteBody, TypeOK
<1>15. CASE WriteRecord
  <2>1. at \in Indexes
    BY <1>0, <1>15 DEF WriteRecord, Stages, Writing, Todo, Of
  <2> QED
    BY <1>0, <1>1, <1>2, <1>15, <2>1 DEF WriteRecord, SetRow, Settle, TypeOK
<1>16. ASSUME NEW i \in Indexes, SendEmail(i)
       PROVE  TypeOK'
  <2>1. Key(i) \in Mails
    BY <1>2, <1>16 DEF SendEmail, Of
  <2> QED
    BY <1>0, <1>1, <1>2, <1>16, <2>1 DEF SendEmail, SetRow, Settle, TypeOK
<1>17. ASSUME NEW i \in Indexes, RefuseEmail(i)
       PROVE  TypeOK'
  BY <1>0, <1>1, <1>2, <1>17 DEF RefuseEmail, SetRow, Settle, TypeOK
<1>18. CASE UndoWrite
  <2> DEFINE last == preimages[Len(preimages)]
  <2>1. last \in Preimages
    BY <1>0, <1>18, Popped DEF UndoWrite, TypeOK
  <2>2. preimages' \in Seq(Preimages)
    BY <1>0, <1>18, Popped DEF UndoWrite, TypeOK
  <2>3. last.index \in Indexes
    BY <1>3, <2>1 DEF Preimages
  <2>4. last.path \in Paths /\ last.content \in FileStates
    BY <2>1 DEF Preimages
  <2>5. files' \in [Paths -> FileStates] /\ out' \in [Indexes -> {"none", "ok", "failed"}]
    BY <1>0, <1>18, <2>3, <2>4 DEF UndoWrite, TypeOK
  <2>6. restored' \subseteq Of("write")
    BY <1>0, <1>18, <2>1 DEF UndoWrite, TypeOK, Preimages
  <2> QED
    BY <1>0, <1>1, <1>18, <2>2, <2>5, <2>6 DEF UndoWrite, TypeOK
<1>19. CASE Collect
  <2>1. at' \in Nat \ {0} /\ pc' = "collect"
    BY <1>19 DEF Collect
  <2> QED
    BY <1>0, <1>1, <1>19, <2>1 DEF Collect, TypeOK
<1>20. CASE MarkRolledBack
  <2>1. at \in Indexes
    BY <1>0, <1>3, <1>20 DEF MarkRolledBack, TypeOK
  <2> QED
    BY <1>0, <1>1, <1>2, <1>20, <2>1 DEF MarkRolledBack, MarkRow, SetRow, Settle, TypeOK
<1>21. CASE RecordResult
  <2>1. at \in Indexes /\ at' \in Nat \ {0}
    BY <1>0, <1>1, <1>21, AtCall DEF RecordResult, TypeOK
  <2>2. results' \in [Indexes -> BOOLEAN \cup {None}] /\ tainted' \in BOOLEAN
    BY <1>0, <1>21, <2>1 DEF RecordResult, TypeOK
  <2> QED
    BY <1>0, <1>1, <1>21, <2>1, <2>2 DEF RecordResult, TypeOK
<1>22. CASE Crash
  <2>1. at' \in Nat \ {0} /\ crashes' \in Nat
    <3>1. at' = 1 /\ crashes' = crashes + 1 /\ crashes \in Nat
      BY <1>0, <1>22 DEF Crash, TypeOK
    <3> QED
      BY <3>1
  <2>2. preimages' \in Seq(Preimages)
    BY <1>22, EmptySeq DEF Crash
  <2> QED
    BY <1>0, <1>1, <1>22, <2>1, <2>2 DEF Crash, Idle, Blank, TypeOK
<1>23. CASE Resume
  BY <1>0, <1>1, <1>23 DEF Resume, RebuiltTaint, TypeOK
<1> QED
  BY <1>5, <1>6, <1>7, <1>8, <1>9, <1>10, <1>11, <1>13, <1>14, <1>15, <1>16, <1>17,
     <1>18, <1>19, <1>20, <1>21, <1>22, <1>23 DEF Next, Main, Reader

\* A row, once there, stays, and a failure stays while the process lives.
LEMMA Monotone ==
  ASSUME Base, Next
  PROVE  /\ \A k \in Keys : HasRow(k) => HasRow(k)'
         /\ pc' # "down" => \A i \in Indexes : out[i] = "failed" => out'[i] = "failed"
         /\ pc' # "down" => (BatchFailed => BatchFailed')
<1> USE DEF table, volatile, history, vars, HasRow
<1>0. TypeOK /\ Stages /\ Indexes' = Indexes /\ calls \in Batches
  BY Frame DEF Base, TypeOK
<1>1. /\ \A i \in Indexes : Key(i) \in Keys
      /\ at \in Indexes => Key(at) \in Keys
  BY <1>0, CallType
<1>2. ASSUME NEW i \in Indexes, NEW outcome \in {"ok", "failed"}, Settle(i, outcome),
             out[i] = "none" \/ outcome = "failed"
      PROVE  \A j \in Indexes : out[j] = "failed" => out'[j] = "failed"
  BY <1>0, <1>2 DEF Settle, TypeOK
<1>3. ASSUME NEW i \in Indexes, NEW status \in {"completed", "failed", "blocked"},
             SetRow(i, status)
      PROVE  \A k \in Keys : HasRow(k) => HasRow(k)'
  BY <1>0, <1>3 DEF SetRow, TypeOK
<1>4. \A k : Outcome(k) \in {"ok", "failed"}
  BY DEF Outcome
<1>5. \A k \in Keys : HasRow(k) => HasRow(k)'
  <2>1. CASE UNCHANGED rows
    BY <2>1
  <2>2. ASSUME NEW i \in Indexes, NEW status \in {"completed", "failed"},
               SetRow(i, status)
        PROVE  \A k \in Keys : HasRow(k) => HasRow(k)'
    BY <1>3, <2>2
  <2>3. CASE StartCall \/ LookUpRows \/ JoinReaders \/ UndoWrite \/ UndoDone
             \/ Collect \/ RecordResult \/ BatchDone \/ Resume \/ Crash \/ Finished
    BY <2>1, <2>3 DEF StartCall, LookUpRows, JoinReaders, UndoWrite, UndoDone,
       Collect, RecordResult, BatchDone, Resume, Crash, Finished
  <2>4. ASSUME NEW i \in Indexes, CheckRow(i) \/ ReadBody(i) \/ ReuseEffect(i) \/ WriteBody(i)
        PROVE  UNCHANGED rows
    BY <2>4 DEF CheckRow, ReadBody, ReuseEffect, WriteBody
  <2>5. ASSUME NEW i \in Indexes, ReadRecord(i)
        PROVE  \A k \in Keys : HasRow(k) => HasRow(k)'
    BY <1>3, <2>5 DEF ReadRecord
  <2>6. ASSUME NEW i \in Indexes, SkipEffect(i) \/ SendEmail(i) \/ RefuseEmail(i)
        PROVE  \A k \in Keys : HasRow(k) => HasRow(k)'
    BY <1>3, <2>1, <2>6 DEF SkipEffect, SendEmail, RefuseEmail
  <2>7. CASE WriteRecord
    BY <1>0, <1>3, <2>7 DEF WriteRecord, Stages, Writing, Todo, Of
  <2>8. CASE MarkRolledBack
    BY <1>0, <1>3, <2>8 DEF MarkRolledBack, MarkRow, TypeOK, Of
  <2> QED
    BY <2>1, <2>3, <2>4, <2>5, <2>6, <2>7, <2>8 DEF Next, Main, Reader
<1>6. ASSUME pc' # "down"
      PROVE  \A i \in Indexes : out[i] = "failed" => out'[i] = "failed"
  <2>1. CASE UNCHANGED out
    BY <2>1
  <2>2. CASE StartCall \/ JoinReaders \/ UndoDone \/ Collect \/ RecordResult
             \/ BatchDone \/ Resume \/ Finished
    BY <2>1, <2>2 DEF StartCall, JoinReaders, UndoDone, Collect, RecordResult,
       BatchDone, Resume, Finished
  <2>3. CASE LookUpRows
    BY <1>0, <2>3 DEF LookUpRows, Stages, Looked, Blank
  <2>4. ASSUME NEW i \in Indexes, CheckRow(i) \/ ReadBody(i) \/ ReadRecord(i)
        PROVE  \A j \in Indexes : out[j] = "failed" => out'[j] = "failed"
    <3>1. worker[i] # "off"
      BY <2>4 DEF CheckRow, ReadBody, ReadRecord
    <3>2. out[i] = "none"
      BY <1>0, <3>1 DEF Stages
    <3> QED
      BY <1>2, <1>4, <2>1, <2>4, <3>2 DEF CheckRow, ReadBody, ReadRecord
  <2>5. ASSUME NEW i \in Indexes, SkipEffect(i) \/ ReuseEffect(i) \/ WriteBody(i)
                                 \/ SendEmail(i) \/ RefuseEmail(i)
        PROVE  \A j \in Indexes : out[j] = "failed" => out'[j] = "failed"
    <3>1. out[i] = "none"
      BY <2>5 DEF SkipEffect, ReuseEffect, WriteBody, SendEmail, RefuseEmail, Effect,
                  NextEffect, Todo
    <3> QED
      BY <1>2, <1>4, <2>1, <2>5, <3>1 DEF SkipEffect, ReuseEffect, WriteBody,
                                          SendEmail, RefuseEmail
  <2>6. CASE WriteRecord
    BY <1>0, <1>2, <2>6 DEF WriteRecord, Stages, Writing, Todo, Of
  <2>7. CASE UndoWrite
    <3>1. UNCHANGED out \/ \E i : out' = [out EXCEPT ![i] = "failed"]
      BY <2>7 DEF UndoWrite
    <3> QED
      BY <1>0, <2>1, <3>1 DEF TypeOK
  <2>8. CASE MarkRolledBack
    BY <1>0, <1>2, <2>8 DEF MarkRolledBack, TypeOK, Of
  <2>9. ~Crash
    BY <1>6 DEF Crash
  <2> QED
    BY <2>2, <2>3, <2>4, <2>5, <2>6, <2>7, <2>8, <2>9 DEF Next, Main, Reader
<1> QED
  BY <1>0, <1>5, <1>6 DEF BatchFailed

\* The writes that can be put back after a step of a batch.
LEMMA HeldNext ==
  ASSUME TypeOK
  PROVE  /\ UNCHANGED preimages => Held' = Held
         /\ preimages = <<>> => Held = {}
         /\ preimages' = <<>> => Held' = {}
         /\ \A i \in Of("write") :
              preimages' = Append(preimages, Preimage(i)) => Held' = Held \cup {i}
         /\ Held \subseteq Of("write")
<1>1. preimages \in Seq(Preimages)
  BY DEF TypeOK
<1>2. \A i \in Of("write") :
        /\ Preimage(i) \in Preimages
        /\ Preimage(i).index = i
  BY CallType DEF Preimage, Preimages, TypeOK, Of
<1>3. Held \subseteq Of("write")
  <2>1. \A n \in DOMAIN preimages :
          preimages[n] \in Preimages
    BY <1>1
  <2>2. \A n \in DOMAIN preimages : preimages[n].index \in Of("write")
    BY <2>1 DEF Preimages
  <2> QED
    BY <2>2 DEF Held
<1>4. \A i \in Of("write") :
        preimages' = Append(preimages, Preimage(i)) => Held' = Held \cup {i}
  BY <1>1, <1>2, HeldStep
<1> QED
  BY <1>1, <1>3, <1>4, HeldStep

\* Every step keeps what the places say about the outcomes.
LEMMA StagesStep ==
  ASSUME Base, Next
  PROVE  Stages'
<1> USE DEF table, volatile, history, vars, Looked, Writing
<1>0. /\ TypeOK /\ Stages /\ calls \in Batches /\ calls' = calls /\ Indexes' = Indexes
      /\ \A t : Of(t)' = Of(t)
      /\ \A i : Key(i)' = Key(i)
  BY Frame DEF Base, TypeOK
<1>1. \A i \in Indexes : Key(i) \in Keys /\ i \in Nat \ {0} /\ calls[i].tool \in {"read", "write", "email"}
  BY <1>0, CallType
<1>2. \A k : Outcome(k) \in {"ok", "failed"}
  BY DEF Outcome
<1>3. \A i \in Indexes : HasRow(Key(i)) => HasRow(Key(i))'
  BY <1>0, <1>1, Monotone DEF HasRow
<1>4. CASE StartCall
  BY <1>0, <1>4 DEF StartCall, Stages, Blank, ReadersDone, HasRow
<1>5. CASE LookUpRows
  <2>1. \A i \in Indexes :
          /\ out'[i] = IF HasRow(Key(i)) THEN Outcome(Key(i)) ELSE "none"
          /\ worker'[i] = IF i \in Of("read") /\ ~HasRow(Key(i)) THEN "check" ELSE "off"
    BY <1>5 DEF LookUpRows
  <2>2. pc' = "reads" /\ rows' = rows
    BY <1>5 DEF LookUpRows
  <2>3. \A i \in Indexes : HasRow(Key(i))' = HasRow(Key(i))
    BY <1>0, <2>2 DEF HasRow
  <2>4. \A i \in Of("read") : i \in Indexes
    BY DEF Of
  <2> QED
    BY <1>0, <1>2, <2>1, <2>2, <2>3, <2>4 DEF Stages
<1>6. ASSUME NEW i \in Indexes, NEW w, worker[i] # "off", pc' = pc, at' = at,
             worker' = [worker EXCEPT ![i] = w],
             \/ w # "off" /\ UNCHANGED out
             \/ /\ w = "off" /\ HasRow(Key(i))'
                /\ \E outcome \in {"ok", "failed"} : Settle(i, outcome)
      PROVE  Stages'
  <2>1. pc = "reads" /\ i \in Of("read") /\ out[i] = "none"
    BY <1>0, <1>6 DEF Stages, ReadersDone
  <2>2. \A j \in Indexes : j # i => worker'[j] = worker[j] /\ out'[j] = out[j]
    BY <1>0, <1>6 DEF TypeOK, Settle
  <2>3. worker'[i] = w
    BY <1>0, <1>6 DEF TypeOK
  <2>4. (w # "off" => out'[i] = "none") /\ (w = "off" => out'[i] # "none" /\ HasRow(Key(i))')
    BY <1>0, <1>6, <2>1 DEF TypeOK, Settle
  <2>5. Of("read") \subseteq Indexes
    BY DEF Of
  <2> QED
    BY <1>0, <1>3, <1>6, <2>1, <2>2, <2>3, <2>4, <2>5 DEF Stages
<1>7. ASSUME NEW i \in Indexes, CheckRow(i)
      PROVE  Stages'
  <2>1. worker[i] # "off" /\ pc' = pc /\ at' = at /\ rows' = rows
    BY <1>7 DEF CheckRow
  <2>2. HasRow(Key(i))' = HasRow(Key(i))
    BY <1>0, <2>1 DEF HasRow
  <2> QED
    BY <1>2, <1>6, <1>7, <2>1, <2>2 DEF CheckRow
<1>8. ASSUME NEW i \in Indexes, ReadBody(i)
      PROVE  Stages'
  BY <1>6, <1>8 DEF ReadBody
<1>9. ASSUME NEW i \in Indexes, ReadRecord(i)
      PROVE  Stages'
  <2>1. HasRow(Key(i))'
    BY <1>0, <1>1, <1>9 DEF ReadRecord, SetRow, HasRow, TypeOK
  <2> QED
    BY <1>6, <1>9, <2>1 DEF ReadRecord
<1>10. CASE JoinReaders \/ UndoDone \/ BatchDone \/ Finished \/ Collect
  <2>1. UNCHANGED <<rows, out, worker, preimages, restored, tainted>> /\ pc' \notin {"down", "wrote", "not written"}
    BY <1>0, <1>10 DEF JoinReaders, UndoDone, BatchDone, Finished, Collect, Stages
  <2>2. Collect => Todo("write") = {} /\ Todo("email") = {}
    BY DEF Collect
  <2>3. Collect => \A i \in Indexes : out[i] # "none"
    BY <1>0, <1>1, <2>2 DEF Collect, Todo, Of, Stages, ReadersDone
  <2>4. pc' # "reads" => ReadersDone
    BY <1>0, <1>10 DEF JoinReaders, UndoDone, BatchDone, Finished, Collect, Stages
  <2>5. Looked /\ Looked'
    BY <1>10 DEF JoinReaders, UndoDone, BatchDone, Finished, Collect
  <2>6. pc' \in {"collect", "done"} => \A i \in Indexes : out[i] # "none"
    BY <1>0, <1>10, <2>3 DEF JoinReaders, UndoDone, BatchDone, Finished, Stages
  <2> QED
    BY <1>0, <2>1, <2>4, <2>5, <2>6 DEF Stages, ReadersDone, HasRow
<1>11. ASSUME NEW i \in Indexes, NEW outcome \in {"ok", "failed"}, Settle(i, outcome),
              pc \in {"effects", "wrote", "not written", "collect"}, UNCHANGED <<worker, at>>,
              pc' \in {"effects", "undo", "collect"}, pc' = "collect" => pc = "collect",
              HasRow(Key(i))'
       PROVE  Stages'
  <2>1. \A j \in Indexes : j # i => out'[j] = out[j]
    BY <1>0, <1>11 DEF TypeOK, Settle
  <2>2. out'[i] = outcome
    BY <1>0, <1>11 DEF TypeOK, Settle
  <2>3. ReadersDone /\ ReadersDone'
    BY <1>0, <1>11 DEF Stages, ReadersDone
  <2>4. Of("read") \subseteq Indexes
    BY DEF Of
  <2>5. pc' \in {"collect", "done"} => \A j \in Indexes : out'[j] # "none"
    BY <1>0, <1>11, <2>1, <2>2 DEF Stages
  <2> QED
    BY <1>0, <1>3, <1>11, <2>1, <2>2, <2>3, <2>4, <2>5 DEF Stages, ReadersDone
<1>12. ASSUME NEW i \in Indexes, SkipEffect(i) \/ ReuseEffect(i) \/ SendEmail(i) \/ RefuseEmail(i)
       PROVE  Stages'
  <2>1. pc = "effects" /\ UNCHANGED <<worker, at>> /\ pc' \in {"effects", "undo"}
    BY <1>12 DEF SkipEffect, ReuseEffect, SendEmail, RefuseEmail, Effect
  <2>2. \E outcome \in {"ok", "failed"} : Settle(i, outcome)
    BY <1>2, <1>12 DEF SkipEffect, ReuseEffect, SendEmail, RefuseEmail
  <2>3. HasRow(Key(i)) \/ \E status \in {"completed", "failed", "blocked"} : SetRow(i, status)
    BY <1>12 DEF SkipEffect, ReuseEffect, SendEmail, RefuseEmail
  <2>4. HasRow(Key(i))'
    BY <1>0, <1>1, <1>3, <2>3 DEF SetRow, HasRow, TypeOK
  <2>5. PICK outcome \in {"ok", "failed"} : Settle(i, outcome)
    BY <2>2
  <2> QED
    BY <1>11, <2>1, <2>4, <2>5
<1>13. ASSUME NEW i \in Indexes, WriteBody(i)
       PROVE  Stages'
  <2>1. /\ UNCHANGED <<rows, worker, out>> /\ pc = "effects"
        /\ pc' \in {"wrote", "not written"} /\ at' = i
        /\ i \in Todo("write") /\ ~BatchFailed /\ ~HasRow(Key(i))
    BY <1>13 DEF WriteBody, Effect, NextEffect, Skips, Todo
  <2>2. \A j \in Of("write") : j < i => out[j] # "none"
    <3>1. \A j \in Todo("write") : i <= j
      BY <1>13, <2>1 DEF WriteBody, Effect, NextEffect
    <3> QED
      BY <1>1, <3>1 DEF Todo, Of
  <2>3. Todo("write")' = Todo("write") /\ BatchFailed' = BatchFailed
    BY <1>0, <2>1 DEF Todo, BatchFailed
  <2> QED
    BY <1>0, <2>1, <2>2, <2>3 DEF Stages, HasRow, ReadersDone
<1>14. CASE WriteRecord
  <2>1. at \in Indexes
    BY <1>0, <1>14 DEF WriteRecord, Stages, Todo, Of
  <2>2. HasRow(Key(at))'
    BY <1>0, <1>1, <1>14, <2>1 DEF WriteRecord, SetRow, HasRow, TypeOK
  <2> QED
    <3>1. PICK outcome \in {"ok", "failed"} : Settle(at, outcome)
      BY <1>14 DEF WriteRecord
    <3>2. /\ pc \in {"wrote", "not written"} /\ pc' \in {"effects", "undo"}
          /\ UNCHANGED <<worker, at>>
      BY <1>14 DEF WriteRecord
    <3> QED
      BY <1>11, <2>1, <2>2, <3>1, <3>2
<1>15. CASE UndoWrite
  <2> DEFINE last == preimages[Len(preimages)]
  <2>1. last.index \in Of("write")
    <3>1. last \in Preimages
      BY <1>0, <1>15, Popped DEF UndoWrite, TypeOK
    <3> QED
      BY <3>1 DEF Preimages
  <2>2. UNCHANGED <<rows, worker, at>> /\ pc = "undo" /\ pc' = "undo"
    BY <1>15 DEF UndoWrite
  <2>3. UNCHANGED out \/ out' = [out EXCEPT ![last.index] = "failed"]
    BY <1>15 DEF UndoWrite
  <2>4. last.index \in Held /\ Held' \subseteq Held
    BY <1>0, <1>15, HeldStep DEF UndoWrite, TypeOK
  <2>5. HasRow(Key(last.index))
    BY <1>0, <2>1, <2>2, <2>4 DEF Stages, HeldSettled, Base, Of
  <2>6. \A j \in Indexes : out'[j] = out[j] \/ (j = last.index /\ out'[j] = "failed")
    BY <1>0, <2>3 DEF TypeOK
  <2>7. ReadersDone /\ ReadersDone'
    BY <1>0, <2>2 DEF Stages, ReadersDone
  <2> QED
    BY <1>0, <1>3, <2>2, <2>5, <2>6, <2>7 DEF Stages, ReadersDone, Of
<1>16. CASE MarkRolledBack
  <2>1. at \in Indexes
    BY <1>0, <1>16 DEF MarkRolledBack, TypeOK, Of
  <2>2. HasRow(Key(at))'
    BY <1>0, <1>1, <1>16, <2>1 DEF MarkRolledBack, MarkRow, SetRow, HasRow, TypeOK
  <2> QED
    BY <1>11, <1>16, <2>1, <2>2 DEF MarkRolledBack
<1>17. CASE RecordResult
  BY <1>0, <1>17 DEF RecordResult, Stages, ReadersDone, HasRow
<1>18. CASE Crash \/ Resume
  BY <1>0, <1>18 DEF Crash, Resume, Stages, ReadersDone, Idle, Blank
<1> QED
  BY <1>4, <1>5, <1>7, <1>8, <1>9, <1>10, <1>12, <1>13, <1>14, <1>15, <1>16, <1>17,
     <1>18 DEF Next, Main, Reader

\* Every step leaves only settled writes to put back.
LEMMA HeldSettledStep ==
  ASSUME Base, Next
  PROVE  HeldSettled'
<1> USE DEF table, volatile, history, vars, Looked
<1>0. /\ TypeOK /\ Stages /\ HeldSettled /\ calls \in Batches /\ Indexes' = Indexes
      /\ Of("write") \subseteq Indexes
  BY Frame DEF Base, TypeOK, Of
<1>1. /\ UNCHANGED preimages => Held' = Held
      /\ preimages = <<>> => Held = {}
      /\ preimages' = <<>> => Held' = {}
      /\ \A i \in Of("write") :
           preimages' = Append(preimages, Preimage(i)) => Held' = Held \cup {i}
      /\ Held \subseteq Indexes
  BY <1>0, HeldNext
<1>2. ASSUME UNCHANGED preimages, pc # "wrote",
             \A i \in Indexes : out[i] # "none" => out'[i] # "none"
      PROVE  HeldSettled'
  BY <1>0, <1>1, <1>2 DEF HeldSettled
<1>3. ASSUME NEW i \in Indexes, NEW outcome \in {"ok", "failed"}, Settle(i, outcome)
      PROVE  /\ \A j \in Indexes : out[j] # "none" => out'[j] # "none"
             /\ out'[i] # "none"
  BY <1>0, <1>3 DEF Settle, TypeOK
<1>4. \A k : Outcome(k) \in {"ok", "failed"}
  BY DEF Outcome
<1>5. CASE StartCall \/ JoinReaders \/ UndoDone \/ BatchDone \/ Finished \/ Collect
            \/ RecordResult \/ Resume
  BY <1>2, <1>5 DEF StartCall, JoinReaders, UndoDone, BatchDone, Finished, Collect,
     RecordResult, Resume
<1>6. CASE LookUpRows
  BY <1>0, <1>1, <1>6 DEF LookUpRows, Stages, HeldSettled
<1>7. CASE Crash
  BY <1>0, <1>1, <1>7 DEF Crash, HeldSettled
<1>8. ASSUME NEW i \in Indexes, Reader(i)
      PROVE  HeldSettled'
  <2>1. worker[i] # "off" /\ UNCHANGED preimages
    BY <1>8 DEF Reader, CheckRow, ReadBody, ReadRecord
  <2>2. pc = "reads"
    BY <1>0, <2>1 DEF Stages, ReadersDone
  <2>3. \A j \in Indexes : out[j] # "none" => out'[j] # "none"
    BY <1>3, <1>4, <1>8 DEF Reader, CheckRow, ReadBody, ReadRecord
  <2> QED
    BY <1>2, <2>1, <2>2, <2>3
<1>9. ASSUME NEW i \in Indexes, SkipEffect(i) \/ SendEmail(i) \/ RefuseEmail(i)
      PROVE  HeldSettled'
  <2>1. UNCHANGED preimages /\ pc = "effects"
    BY <1>9 DEF SkipEffect, SendEmail, RefuseEmail, Effect
  <2>2. \A j \in Indexes : out[j] # "none" => out'[j] # "none"
    BY <1>3, <1>4, <1>9 DEF SkipEffect, SendEmail, RefuseEmail
  <2> QED
    BY <1>2, <2>1, <2>2
<1>10. ASSUME NEW i \in Indexes, ReuseEffect(i)
       PROVE  HeldSettled'
  <2>1. /\ pc = "effects" /\ \A j \in Indexes : out[j] # "none" => out'[j] # "none"
        /\ out'[i] # "none"
    BY <1>3, <1>4, <1>10 DEF ReuseEffect, Effect
  <2>2. Held' \in {Held, Held \cup {i}}
    BY <1>1, <1>10 DEF ReuseEffect, Of
  <2> QED
    BY <1>0, <1>1, <2>1, <2>2 DEF HeldSettled
<1>11. ASSUME NEW i \in Indexes, WriteBody(i)
       PROVE  HeldSettled'
  <2>1. pc = "effects" /\ UNCHANGED out /\ at' = i
    BY <1>11 DEF WriteBody, Effect
  <2>2. Held' = Held \/ (Held' = Held \cup {i} /\ pc' = "wrote")
    BY <1>1, <1>11 DEF WriteBody
  <2> QED
    BY <1>0, <1>1, <2>1, <2>2 DEF HeldSettled
<1>12. CASE WriteRecord
  <2>1. at \in Indexes
    BY <1>0, <1>12 DEF WriteRecord, Stages, Writing, Todo
  <2>2. /\ \A j \in Indexes : out[j] # "none" => out'[j] # "none"
        /\ out'[at] # "none"
    BY <1>3, <1>12, <2>1 DEF WriteRecord
  <2>3. UNCHANGED preimages
    BY <1>12 DEF WriteRecord
  <2> QED
    BY <1>0, <1>1, <2>1, <2>2, <2>3 DEF HeldSettled
<1>13. CASE UndoWrite
  <2>1. Held' \subseteq Held
    BY <1>0, <1>13, HeldStep DEF UndoWrite, TypeOK
  <2>2. UNCHANGED out \/ \E i : out' = [out EXCEPT ![i] = "failed"]
    BY <1>13 DEF UndoWrite
  <2>3. \A j \in Indexes : out[j] # "none" => out'[j] # "none"
    BY <1>0, <2>2 DEF TypeOK
  <2>4. pc = "undo"
    BY <1>13 DEF UndoWrite
  <2> QED
    BY <1>0, <1>1, <2>1, <2>3, <2>4 DEF HeldSettled
<1>14. CASE MarkRolledBack
  <2>1. at \in Indexes /\ UNCHANGED preimages /\ pc = "collect"
    BY <1>0, <1>14 DEF MarkRolledBack, TypeOK
  <2>2. \A j \in Indexes : out[j] # "none" => out'[j] # "none"
    BY <1>3, <1>14, <2>1 DEF MarkRolledBack
  <2> QED
    BY <1>2, <2>1, <2>2
<1> QED
  BY <1>5, <1>6, <1>7, <1>8, <1>9, <1>10, <1>11, <1>12, <1>13, <1>14 DEF Next, Main

\* Each batch keeps its types and its stages.
THEOREM SpecBase == Spec => []Base
<1>1. Init => Base
  <2> SUFFICES ASSUME Init PROVE Base
    OBVIOUS
  <2>1. preimages \in Seq(Preimages) /\ Held = {}
    BY EmptySeq DEF Init, Held
  <2>2. at \in Nat \ {0} /\ crashes \in Nat
    BY DEF Init
  <2>3. bodies \in [Keys -> Nat]
    BY DEF Init
  <2>4. files \in [Paths -> FileStates]
    BY DEF Init, FileStates
  <2>5. TypeOK
    BY <2>1, <2>2, <2>3, <2>4 DEF Init, TypeOK, Idle, Blank
  <2>6. Stages
    BY DEF Init, Stages, Idle, ReadersDone, Looked, Writing
  <2> QED
    BY <2>1, <2>5, <2>6 DEF Base, HeldSettled
<1>2. Base /\ UNCHANGED vars => Base'
  <2> SUFFICES ASSUME Base, UNCHANGED vars PROVE Base'
    OBVIOUS
  <2> USE DEF table, volatile, history, vars
  <2>1. TypeOK'
    BY DEF Base, TypeOK, Indexes, Preimages, Of
  <2>2. Stages'
    BY DEF Base, Stages, ReadersDone, Looked, Writing, BatchFailed, HasRow, Key, Todo,
           Indexes, Of, Blank
  <2> QED
    BY <2>1, <2>2 DEF Base, HeldSettled, Held
<1>3. Base /\ Next => Base'
  BY TypeStep, StagesStep, HeldSettledStep DEF Base
<1> QED
  BY <1>1, <1>2, <1>3, PTL DEF Spec

\* An email is in the outbox exactly when its row is completed, and a live process
\* knows whether the conversation is untrusted.
Mailroom ==
  /\ \A k \in Mails : k \in sent <=> rows[k] = "completed"
  /\ pc # "down" => tainted = RebuiltTaint

\* Every step of the batch is a step of the outbox or leaves it alone.
LEMMA OutboxStep ==
  ASSUME Base, Mailroom, Next
  PROVE  Mailroom' /\ [Outbox!Next]_(Outbox!vars)
<1> USE DEF table, volatile, history, vars
<1>0. /\ TypeOK /\ Stages /\ calls \in Batches /\ Indexes' = Indexes
      /\ Of("write") \subseteq Indexes
  BY Frame DEF Base, TypeOK, Of
<1>1. \A i \in Indexes : /\ Key(i) \in Keys
                         /\ Key(i) \in Mails <=> i \in Of("email")
                         /\ i \in Of("read") \cup Of("write") => i \notin Of("email")
  BY <1>0, CallType DEF Of
<1>2. ASSUME sent' = sent, \A k \in Mails : rows'[k] = rows[k],
             RebuiltTaint' = RebuiltTaint, pc' # "down" => tainted' = RebuiltTaint
      PROVE  Mailroom' /\ [Outbox!Next]_(Outbox!vars)
  BY <1>2 DEF Mailroom, Outbox!vars, Decision
<1>3. ASSUME UNCHANGED <<results, tainted0>>
      PROVE  RebuiltTaint' = RebuiltTaint
  BY <1>0, <1>3 DEF RebuiltTaint
<1>4. ASSUME UNCHANGED <<sent, results, tainted0, tainted>>, pc # "down",
             \/ UNCHANGED rows
             \/ \E i \in Of("read") \cup Of("write") : \E st : i \in Indexes /\ SetRow(i, st)
      PROVE  Mailroom' /\ [Outbox!Next]_(Outbox!vars)
  <2>1. \A k \in Mails : rows'[k] = rows[k]
    BY <1>0, <1>1, <1>4 DEF SetRow, TypeOK, Mails
  <2> QED
    BY <1>2, <1>3, <1>4, <2>1 DEF Mailroom
<1>5. CASE StartCall \/ LookUpRows \/ JoinReaders \/ UndoWrite \/ UndoDone \/ Collect
            \/ BatchDone
  BY <1>4, <1>5 DEF StartCall, LookUpRows, JoinReaders, UndoWrite, UndoDone, Collect,
                    BatchDone
<1>6. ASSUME NEW i \in Indexes, Reader(i)
      PROVE  Mailroom' /\ [Outbox!Next]_(Outbox!vars)
  <2>1. worker[i] # "off" /\ UNCHANGED <<sent, results, tainted0, tainted>>
    BY <1>6 DEF Reader, CheckRow, ReadBody, ReadRecord
  <2>2. pc # "down" /\ i \in Of("read")
    BY <1>0, <2>1 DEF Stages, ReadersDone
  <2>3. UNCHANGED rows \/ \E st : SetRow(i, st)
    BY <1>6 DEF Reader, CheckRow, ReadBody, ReadRecord
  <2> QED
    BY <1>4, <2>1, <2>2, <2>3
<1>7. ASSUME NEW i \in Indexes, ReuseEffect(i) \/ WriteBody(i)
      PROVE  Mailroom' /\ [Outbox!Next]_(Outbox!vars)
  BY <1>4, <1>7 DEF ReuseEffect, WriteBody, Effect
<1>8. CASE WriteRecord
  <2>1. at \in Of("write") /\ at \in Indexes
    BY <1>0, <1>8 DEF WriteRecord, Stages, Writing, Todo
  <2> QED
    BY <1>4, <1>8, <2>1 DEF WriteRecord
<1>9. CASE MarkRolledBack
  <2>1. at \in Of("write") /\ at \in Indexes
    BY <1>0, <1>9 DEF MarkRolledBack, TypeOK
  <2> QED
    BY <1>4, <1>9, <2>1 DEF MarkRolledBack, MarkRow
<1>10. ASSUME NEW i \in Of("email"), i \in Indexes, ~HasRow(Key(i)),
              NEW st \in {"blocked", "failed"}, SetRow(i, st), pc # "down",
              UNCHANGED <<sent, results, tainted0, tainted>>
       PROVE  Mailroom' /\ [Outbox!Next]_(Outbox!vars)
  <2>1. Key(i) \in Mails /\ Key(i) \in Keys /\ Key(i) \notin sent
        /\ rows[Key(i)] = "absent"
    BY <1>1, <1>10 DEF HasRow, Mailroom
  <2>2. rows' = [rows EXCEPT ![Key(i)] = st]
    BY <1>10 DEF SetRow
  <2>3. \A k \in Mails : rows'[k] = IF k = Key(i) THEN st ELSE rows[k]
    BY <1>0, <2>1, <2>2 DEF TypeOK, Mails
  <2>4. Mailroom'
    BY <1>3, <1>10, <2>1, <2>3 DEF Mailroom
  <2>5. /\ \A k \in Mails : Decision(k)' = IF k = Key(i) THEN "refused" ELSE Decision(k)
        /\ Decision(Key(i)) = "open"
    BY <1>10, <2>1, <2>3 DEF Decision
  <2>6. Outbox!Refuse(Key(i))
    BY <1>0, <1>3, <1>10, <2>1, <2>5 DEF Outbox!Refuse
  <2> QED
    BY <2>1, <2>4, <2>6 DEF Outbox!Next
<1>11. ASSUME NEW i \in Indexes, SkipEffect(i)
       PROVE  Mailroom' /\ [Outbox!Next]_(Outbox!vars)
  <2>1. /\ UNCHANGED <<sent, results, tainted0, tainted>> /\ pc = "effects"
        /\ UNCHANGED rows \/ (~HasRow(Key(i)) /\ SetRow(i, "blocked"))
        /\ i \in Of("write") \/ i \in Of("email")
    BY <1>11 DEF SkipEffect, Effect, NextEffect, Todo
  <2>2. CASE UNCHANGED rows \/ i \in Of("write")
    BY <1>4, <2>1, <2>2
  <2>3. CASE ~HasRow(Key(i)) /\ SetRow(i, "blocked") /\ i \in Of("email")
    BY <1>10, <2>1, <2>3
  <2> QED
    BY <2>1, <2>2, <2>3
<1>12. ASSUME NEW i \in Indexes, RefuseEmail(i)
       PROVE  Mailroom' /\ [Outbox!Next]_(Outbox!vars)
  BY <1>10, <1>12 DEF RefuseEmail, Effect
<1>13. ASSUME NEW i \in Indexes, SendEmail(i)
       PROVE  Mailroom' /\ [Outbox!Next]_(Outbox!vars)
  <2>1. Key(i) \in Mails /\ Key(i) \in Keys /\ Key(i) \notin sent
        /\ rows[Key(i)] = "absent" /\ ~RebuiltTaint
    BY <1>1, <1>13 DEF SendEmail, HasRow, Mailroom, Effect
  <2>2. rows' = [rows EXCEPT ![Key(i)] = "completed"]
    BY <1>13 DEF SendEmail, SetRow
  <2>3. /\ \A k \in Mails : rows'[k] = IF k = Key(i) THEN "completed" ELSE rows[k]
        /\ sent' = sent \cup {Key(i)}
    BY <1>0, <1>13, <2>1, <2>2 DEF TypeOK, Mails, SendEmail
  <2>4. Mailroom'
    BY <1>3, <1>13, <2>1, <2>3 DEF Mailroom, SendEmail, Effect
  <2>5. /\ \A k \in Mails : Decision(k)' = IF k = Key(i) THEN "sent" ELSE Decision(k)
        /\ Decision(Key(i)) = "open"
    BY <2>1, <2>3 DEF Decision
  <2>6. Outbox!Send(Key(i))
    BY <1>3, <1>13, <2>1, <2>5 DEF SendEmail, Outbox!Send
  <2> QED
    BY <2>1, <2>4, <2>6 DEF Outbox!Next
<1>14. CASE RecordResult
  <2>1. UNCHANGED <<sent, rows, tainted0, pc>> /\ pc = "collect"
    BY <1>14 DEF RecordResult
  <2>2. CASE ResultLogged(at)
    BY <1>4, <1>14, <2>1, <2>2 DEF RecordResult
  <2>3. CASE ~ResultLogged(at)
    <3>1. at \in Indexes /\ tainted' = TRUE /\ results' = [results EXCEPT ![at] = (out[at] = "ok")]
      BY <1>0, <1>14, <2>3, AtCall DEF RecordResult, TypeOK
    <3>2. results'[at] # None
      BY <1>0, <3>1, BatchAssumption DEF TypeOK
    <3>3. RebuiltTaint' = TRUE
      BY <1>0, <3>1, <3>2 DEF RebuiltTaint
    <3>4. Mailroom'
      BY <2>1, <3>1, <3>3 DEF Mailroom
    <3>5. Outbox!Taint
      BY <2>1, <3>3 DEF Outbox!Taint, Decision
    <3> QED
      BY <3>4, <3>5 DEF Outbox!Next
  <2> QED
    BY <2>2, <2>3
<1>15. CASE Crash \/ Resume
  BY <1>2, <1>3, <1>15 DEF Crash, Resume
<1>16. CASE Finished
  BY <1>2, <1>3, <1>16 DEF Finished, Mailroom
<1> QED
  BY <1>5, <1>6, <1>7, <1>8, <1>9, <1>11, <1>12, <1>13, <1>14, <1>15, <1>16
  DEF Next, Main

\* A batch implements the abstract outbox, whatever it asks and however often the
\* process dies: send_email_tool_once and the check in run_one decide each email
\* once, and never send it after a tool result.
THEOREM SpecImplementsOutbox == Spec => ImplementsOutbox
<1>1. Init => Mailroom /\ Outbox!Init
  BY BatchAssumption DEF Init, Mailroom, Mails, RebuiltTaint, Outbox!Init, Decision
<1>2. Base /\ Mailroom /\ [Next]_vars => Mailroom' /\ [Outbox!Next]_(Outbox!vars)
  <2>1. Base /\ Mailroom /\ UNCHANGED vars => Mailroom' /\ [Outbox!Next]_(Outbox!vars)
    BY DEF vars, table, volatile, history, Mailroom, RebuiltTaint, Indexes,
           Outbox!vars, Decision
  <2> QED
    BY <2>1, OutboxStep
<1> QED
  BY SpecBase, <1>1, <1>2, PTL DEF Spec, ImplementsOutbox, Outbox!Spec

(***************************************************************************)
(* Recorded outcomes and the pool of readers.                              *)
(***************************************************************************)

\* A thread that is past its check has no row yet, but for one its twin wrote.
Claims ==
  \A i \in Indexes :
    worker[i] \in {"body", "completed", "failed"} => ~HasRow(Key(i)) \/ Twins(Key(i))

\* Two reads of one key are twins.
LEMMA TwoAreTwins ==
  ASSUME calls \in Batches, NEW i \in Of("read"), NEW j \in Of("read"), i # j,
         Key(i) = Key(j)
  PROVE  Twins(Key(i))
<1> DEFINE S == {n \in Of("read") : Key(n) = Key(i)}
<1>1. IsFiniteSet(S)
  <2>1. IsFiniteSet(Indexes) /\ S \subseteq Indexes
    BY CallType, FS_Interval DEF Of
  <2> QED
    BY <2>1, FS_Subset
<1>2. {i} \cup {j} \in SUBSET S
  OBVIOUS
<1>3. Cardinality({i} \cup {j}) = 2
  <2>1. IsFiniteSet({i}) /\ Cardinality({i}) = 1 /\ j \notin {i}
    BY FS_Singleton
  <2>2. Cardinality({i} \cup {j}) = Cardinality({i}) + 1
    BY <2>1, FS_AddElement
  <2> QED
    BY <2>1, <2>2
<1>4. Cardinality(S) \in Nat /\ 2 <= Cardinality(S)
  <2>1. Cardinality({i} \cup {j}) <= Cardinality(S)
    BY <1>1, <1>2, FS_Subset
  <2> QED
    BY <1>1, <1>3, <2>1, FS_CardinalityType
<1> HIDE DEF S
<1>5. Cardinality(S) > 1
  BY <1>4
<1> QED
  BY <1>5 DEF S, Twins

\* Every step keeps the claims of the threads.
LEMMA ClaimsStep ==
  ASSUME Base, Claims, Next
  PROVE  Claims'
<1> USE DEF table, volatile, history, vars
<1>0. /\ TypeOK /\ Stages /\ calls \in Batches /\ Indexes' = Indexes
      /\ \A i : Key(i)' = Key(i) /\ Twins(Key(i))' = Twins(Key(i))
      /\ Stages'
  BY Frame, StagesStep DEF Base, TypeOK, Twins
<1>1. \A i \in Indexes : Key(i) \in Keys
  BY <1>0, CallType
<1>2. CASE pc' # "reads"
  BY <1>0, <1>2 DEF Stages, ReadersDone, Claims
<1>3. CASE LookUpRows
  BY <1>0, <1>3 DEF LookUpRows, Claims
<1>4. ASSUME NEW i \in Indexes, CheckRow(i)
      PROVE  Claims'
  <2>1. rows' = rows /\ \A j : HasRow(Key(j))' = HasRow(Key(j))
    BY <1>0, <1>4 DEF CheckRow, HasRow
  <2>2. \A j \in Indexes : \/ worker'[j] = worker[j]
                           \/ worker'[j] = "off"
                           \/ ~HasRow(Key(j))
    BY <1>0, <1>4 DEF CheckRow, TypeOK
  <2> QED
    BY <1>0, <2>1, <2>2 DEF Claims
<1>5. ASSUME NEW i \in Indexes, ReadBody(i)
      PROVE  Claims'
  <2>1. rows' = rows /\ \A j : HasRow(Key(j))' = HasRow(Key(j))
    BY <1>0, <1>5 DEF ReadBody, HasRow
  <2>2. \A j \in Indexes : worker'[j] = worker[j] \/ (j = i /\ worker[j] = "body")
    BY <1>0, <1>5 DEF ReadBody, TypeOK
  <2> QED
    BY <1>0, <2>1, <2>2 DEF Claims
<1>6. ASSUME NEW i \in Indexes, ReadRecord(i)
      PROVE  Claims'
  <2>1. \A j \in Indexes : worker'[j] = IF j = i THEN "off" ELSE worker[j]
    BY <1>0, <1>6 DEF ReadRecord, TypeOK
  <2>2. \A k \in Keys : k # Key(i) => rows'[k] = rows[k]
    BY <1>0, <1>6 DEF ReadRecord, SetRow, TypeOK
  <2>3. ASSUME NEW j \in Indexes, j # i, worker[j] # "off", Key(j) = Key(i)
        PROVE  Twins(Key(j))
    <3>1. i \in Of("read") /\ j \in Of("read")
      BY <1>0, <1>6, <2>3 DEF ReadRecord, Stages
    <3> QED
      BY <1>0, <2>3, <3>1, TwoAreTwins
  <2> QED
    BY <1>0, <1>1, <2>1, <2>2, <2>3 DEF Claims, HasRow
<1>7. CASE UNCHANGED vars
  BY <1>0, <1>7 DEF Claims, HasRow
<1>8. pc' = "reads" => \/ LookUpRows \/ UNCHANGED vars
                       \/ \E i \in Indexes : CheckRow(i) \/ ReadBody(i) \/ ReadRecord(i)
  BY DEF Next, Main, Reader, StartCall, JoinReaders, SkipEffect, ReuseEffect,
     WriteBody, SendEmail, RefuseEmail, WriteRecord, UndoWrite, UndoDone, Collect,
     MarkRolledBack, RecordResult, BatchDone, Crash, Resume, Finished, Effect
<1> QED
  BY <1>2, <1>3, <1>4, <1>5, <1>6, <1>7, <1>8

\* A thread that passed its check has no recorded outcome, unless a twin recorded one.
THEOREM SpecClaims == Spec => []Claims
<1>1. Init => Claims
  BY DEF Init, Claims, Idle
<1>2. Base /\ Claims /\ UNCHANGED vars => Claims'
  BY DEF vars, table, volatile, history, Claims, HasRow, Key, Indexes, Twins, Of
<1>3. Base /\ Claims /\ Next => Claims'
  BY ClaimsStep
<1> QED
  BY SpecBase, <1>1, <1>2, <1>3, PTL DEF Spec

\* A body runs only where no outcome is recorded (the check of ToolExecutor.execute
\* and the look-up before the pool), in every process that works on the batch; the
\* one exception is a thread whose twin records while it runs.
THEOREM SpecRecordedNeverRerun == Spec => RecordedNeverRerun
<1> DEFINE Rerun == \A k \in Keys : bodies'[k] # bodies[k] => rows[k] = "absent" \/ Twins(k)
<1>1. Base /\ Claims /\ [Next]_vars => [Rerun]_vars
  <2> SUFFICES ASSUME Base, Claims, Next PROVE Rerun
    OBVIOUS
  <2> USE DEF table, volatile, history, vars
  <2>1. bodies \in [Keys -> Nat]
    BY DEF Base, TypeOK
  <2>2. CASE UNCHANGED bodies
    BY <2>2
  <2>3. ASSUME NEW i \in Indexes, RunBody(i), ~HasRow(Key(i)) \/ Twins(Key(i))
        PROVE  Rerun
    BY <2>1, <2>3 DEF RunBody, HasRow
  <2>4. ASSUME NEW i \in Indexes, ReadBody(i)
        PROVE  Rerun
    BY <2>3, <2>4 DEF ReadBody, Claims
  <2>5. ASSUME NEW i \in Indexes, WriteBody(i)
        PROVE  Rerun
    BY <2>3, <2>5 DEF WriteBody
  <2>6. \/ UNCHANGED bodies
        \/ \E i \in Indexes : ReadBody(i) \/ WriteBody(i)
    BY DEF Next, Main, Reader, StartCall, LookUpRows, CheckRow, ReadRecord,
       JoinReaders, SkipEffect, ReuseEffect, SendEmail, RefuseEmail, WriteRecord,
       UndoWrite, UndoDone, Collect, MarkRolledBack, RecordResult, BatchDone, Crash,
       Resume, Finished
  <2> QED
    BY <2>2, <2>4, <2>5, <2>6
<1> QED
  BY SpecBase, SpecClaims, <1>1, PTL DEF Spec, RecordedNeverRerun

(***************************************************************************)
(* Starts and results.                                                     *)
(***************************************************************************)

\* Which calls have been started and answered.
Progress ==
  /\ pc = "start" => \A i \in Indexes : i < at => i \in started
  /\ Looked => started = Indexes
  /\ pc = "collect" => \A i \in Indexes : i < at => ResultLogged(i)
  /\ pc = "done" => \A i \in Indexes : ResultLogged(i)

\* A result, once recorded, stays.
LEMMA ResultsStay ==
  ASSUME Base, Next
  PROVE  /\ \A i \in Indexes : results[i] # None => results'[i] = results[i]
         /\ \A i \in Indexes : ResultLogged(i) => ResultLogged(i)'
         /\ UNCHANGED results \/ RecordResult
<1> USE DEF table, volatile, history, vars
<1>0. /\ TypeOK /\ calls' = calls /\ Indexes' = Indexes /\ \A i : Key(i)' = Key(i)
  BY Frame DEF Base, TypeOK
<1>1. UNCHANGED results \/ RecordResult
  BY DEF Next, Main, Reader, StartCall, LookUpRows, CheckRow, ReadBody, ReadRecord,
     JoinReaders, SkipEffect, ReuseEffect, WriteBody, SendEmail, RefuseEmail,
     WriteRecord, UndoWrite, UndoDone, Collect, MarkRolledBack, BatchDone, Crash,
     Resume, Finished
<1>2. \A i \in Indexes : results[i] # None => results'[i] = results[i]
  <2>1. CASE UNCHANGED results
    BY <2>1
  <2>2. CASE RecordResult
    BY <1>0, <2>2 DEF RecordResult, ResultLogged, TypeOK
  <2> QED
    BY <1>1, <2>1, <2>2
<1>3. ASSUME NEW i \in Indexes, ResultLogged(i)
      PROVE  ResultLogged(i)'
  BY <1>0, <1>2, <1>3 DEF ResultLogged
<1> QED
  BY <1>1, <1>2, <1>3

\* Every step keeps account of starts and results.
LEMMA ProgressStep ==
  ASSUME Base, Progress, Next
  PROVE  Progress'
<1> USE DEF table, volatile, history, vars, Looked
<1>0. /\ TypeOK /\ Stages /\ calls \in Batches /\ calls' = calls /\ Indexes' = Indexes
      /\ \A i \in Indexes : ResultLogged(i) => ResultLogged(i)'
      /\ \A i : Key(i)' = Key(i)
      /\ at \in Nat \ {0} /\ \A i \in Indexes : i \in Nat \ {0}
  <2>1. calls \in Batches
    BY DEF Base, TypeOK
  <2> QED
    BY <2>1, Frame, ResultsStay, IndexPositive DEF Base, TypeOK
<1>1. CallLeft <=> at \in Indexes
  BY <1>0, AtCall
<1>2. ~CallLeft => \A i \in Indexes : i < at
  BY <1>0, CallType DEF CallLeft
<1>3. CASE StartCall
  BY <1>0, <1>1, <1>3 DEF StartCall, Progress
<1>4. CASE LookUpRows
  BY <1>0, <1>2, <1>4 DEF LookUpRows, Progress, TypeOK
<1>5. ASSUME UNCHANGED started, Looked, pc' \notin {"start", "collect", "done"}
      PROVE  Progress'
  BY <1>0, <1>5 DEF Progress
<1>6. CASE JoinReaders \/ WriteRecord \/ UndoWrite \/ UndoDone
  BY <1>5, <1>6 DEF JoinReaders, WriteRecord, UndoWrite, UndoDone
<1>7. ASSUME NEW i \in Indexes, Reader(i)
      PROVE  Progress'
  <2>1. worker[i] # "off" /\ UNCHANGED <<started, pc>>
    BY <1>7 DEF Reader, CheckRow, ReadBody, ReadRecord
  <2>2. pc = "reads"
    BY <1>0, <2>1 DEF Stages, ReadersDone
  <2> QED
    BY <1>5, <2>1, <2>2
<1>8. ASSUME NEW i \in Indexes, SkipEffect(i) \/ ReuseEffect(i) \/ WriteBody(i)
                               \/ SendEmail(i) \/ RefuseEmail(i)
      PROVE  Progress'
  BY <1>5, <1>8 DEF SkipEffect, ReuseEffect, WriteBody, SendEmail, RefuseEmail, Effect
<1>9. CASE Collect
  BY <1>0, <1>9 DEF Collect, Progress
<1>10. CASE MarkRolledBack
  BY <1>0, <1>10 DEF MarkRolledBack, Progress
<1>11. CASE RecordResult
  <2>1. pc = "collect" /\ pc' = "collect" /\ at' = at + 1 /\ UNCHANGED started
    BY <1>11 DEF RecordResult
  <2>3. ASSUME NEW i \in Indexes, i = at
        PROVE  ResultLogged(i)'
    <3>1. CASE ResultLogged(i)
      BY <1>0, <3>1
    <3>2. CASE ~ResultLogged(i)
      <4>1. results' = [results EXCEPT ![i] = (out[i] = "ok")]
        BY <1>11, <2>3, <3>2 DEF RecordResult
      <4>2. results'[i] # None
        BY <1>0, <4>1, BatchAssumption DEF TypeOK
      <4> QED
        BY <4>2 DEF ResultLogged
    <3> QED
      BY <3>1, <3>2
  <2>4. \A i \in Indexes : i < at + 1 => i < at \/ i = at
    BY <1>0
  <2> QED
    BY <1>0, <2>1, <2>3, <2>4 DEF Progress
<1>12. CASE BatchDone
  BY <1>0, <1>2, <1>12 DEF BatchDone, Progress
<1>13. CASE Crash \/ Resume
  BY <1>0, <1>13 DEF Crash, Resume, Progress, Stages
<1>14. CASE Finished
  BY <1>0, <1>14 DEF Finished, Progress
<1> QED
  BY <1>3, <1>4, <1>6, <1>7, <1>8, <1>9, <1>10, <1>11, <1>12, <1>13, <1>14
  DEF Next, Main

\* When a batch is over each of its calls has a start event and a result event, its
\* own or that of the same email, whatever crashed in between.
THEOREM SpecNothingLost == Spec => []NothingLost
<1>1. Init => Progress
  <2> SUFFICES ASSUME Init PROVE Progress
    OBVIOUS
  <2>1. \A i \in Indexes : i \in Nat \ {0} /\ ~(i < 1)
    BY CallType DEF Init
  <2> QED
    BY <2>1 DEF Init, Progress, Looked
<1>2. Base /\ Progress /\ [Next]_vars => Progress'
  <2>1. Base /\ Progress /\ UNCHANGED vars => Progress'
    BY DEF vars, table, volatile, history, Progress, Looked, ResultLogged, Key, Indexes
  <2> QED
    BY <2>1, ProgressStep
<1>3. Progress => NothingLost
  BY DEF Progress, NothingLost, Looked
<1> QED
  BY SpecBase, <1>1, <1>2, <1>3, PTL DEF Spec

(***************************************************************************)
(* Verdicts.                                                               *)
(***************************************************************************)

\* Until an outcome of the batch is a failure, no row of its calls is.
FailuresSeen ==
  Looked /\ ~BatchFailed => \A i \in Indexes : rows[Key(i)] \in {"absent", "completed"}

RefusedEmail == \E i \in Of("email") : rows[Key(i)] \in {"failed", "blocked"}

\* After an email has left nothing of the batch is read again, and writes are put
\* back only when another email was refused.
Sends ==
  /\ SendsFollowSuccess
  /\ sent # {} => ReadersDone
  /\ pc = "undo" \/ restored # {} => BatchFailed /\ (sent = {} \/ RefusedEmail)

Verdict(status) == IF status = "completed" THEN "ok" ELSE "failed"

\* Calls of one key are of one kind.
LEMMA OneKind ==
  ASSUME calls \in Batches
  PROVE  /\ \A i, j \in Indexes : Key(i) = Key(j) => calls[i].tool = calls[j].tool
         /\ \A i, j \in Indexes : \A t : Key(i) = Key(j) /\ i \in Of(t) => j \in Of(t)
         /\ \A i \in Indexes : i \in Of("read") \/ i \in Of("write") \/ i \in Of("email")
         /\ Of("read") \cap Of("write") = {} /\ Of("read") \cap Of("email") = {}
         /\ Of("write") \cap Of("email") = {}
         /\ \A t : Of(t) \subseteq Indexes
BY CallType DEF Of

\* A row is written by a reader, by an effect that had none, or for a write that was
\* put back; the outcome of the call says the same.
LEMMA RowChange ==
  ASSUME Base, Next, ~UNCHANGED rows
  PROVE  \E i \in Indexes, status \in {"completed", "failed", "blocked"} :
           /\ SetRow(i, status) /\ Settle(i, Verdict(status)) /\ pc' # "down"
           /\ \/ /\ i \in Of("read") /\ worker[i] = status /\ pc = "reads"
                 /\ UNCHANGED <<pc, sent, restored, files, preimages, results>>
              \/ /\ i \in Of("write") \cup Of("email") /\ ~HasRow(Key(i)) /\ out[i] = "none"
                 /\ pc \in {"effects", "wrote", "not written"}
                 /\ UNCHANGED <<restored, files, preimages, results>>
              \/ /\ i \in Of("write") /\ i = at /\ at \in restored /\ status = "failed"
                 /\ pc = "collect" /\ restored' = restored \ {at}
                 /\ UNCHANGED <<pc, at, sent, files, preimages, results>>
<1> USE DEF table, volatile, history, vars, Verdict
<1>0. TypeOK /\ Stages /\ \A t : Of(t) \subseteq Indexes
  BY DEF Base, Of
<1>1. CASE \E i \in Indexes : ReadRecord(i)
  <2>1. PICK i \in Indexes : ReadRecord(i)
    BY <1>1
  <2>2. /\ i \in Of("read") /\ worker[i] \in {"completed", "failed"} /\ pc = "reads"
    BY <1>0, <2>1 DEF ReadRecord, Stages, ReadersDone
  <2> QED
    BY <2>1, <2>2 DEF ReadRecord
<1>2. ASSUME NEW i \in Indexes, SkipEffect(i) \/ SendEmail(i) \/ RefuseEmail(i)
      PROVE  \/ UNCHANGED rows
             \/ \E status \in {"completed", "failed", "blocked"} :
                  /\ SetRow(i, status) /\ Settle(i, Verdict(status)) /\ pc' # "down"
                  /\ i \in Of("write") \cup Of("email") /\ ~HasRow(Key(i)) /\ out[i] = "none"
                  /\ pc = "effects"
                  /\ UNCHANGED <<restored, files, preimages, results>>
  <2>1. pc = "effects" /\ i \in Of("write") \cup Of("email") /\ out[i] = "none"
    BY <1>2 DEF SkipEffect, SendEmail, RefuseEmail, Effect, NextEffect, Todo
  <2>2. pc' # "down" /\ UNCHANGED <<restored, files, preimages, results>>
    BY <1>2, <2>1 DEF SkipEffect, SendEmail, RefuseEmail
  <2> QED
    BY <1>2, <2>1, <2>2 DEF SkipEffect, SendEmail, RefuseEmail
<1>3. CASE WriteRecord
  <2>1. at \in Of("write") /\ ~HasRow(Key(at)) /\ at \in Indexes /\ out[at] = "none"
    BY <1>0, <1>3 DEF WriteRecord, Stages, Writing, Todo
  <2> QED
    BY <1>3, <2>1 DEF WriteRecord
<1>4. CASE MarkRolledBack
  <2>1. at \in Of("write") /\ at \in Indexes
    BY <1>0, <1>4 DEF MarkRolledBack, TypeOK
  <2> QED
    BY <1>4, <2>1 DEF MarkRolledBack, MarkRow
<1>5. \/ WriteRecord \/ MarkRolledBack \/ \E i \in Indexes : ReadRecord(i)
      \/ \E i \in Indexes : SkipEffect(i) \/ SendEmail(i) \/ RefuseEmail(i)
  BY DEF Next, Main, Reader, StartCall, LookUpRows, CheckRow, ReadBody, JoinReaders,
     ReuseEffect, WriteBody, UndoWrite, UndoDone, Collect, RecordResult, BatchDone,
     Crash, Resume, Finished
<1> QED
  BY <1>1, <1>2, <1>3, <1>4, <1>5

\* Every failure that is recorded is seen by the batch, also after a restart.
LEMMA FailuresSeenStep ==
  ASSUME Base, FailuresSeen, Next
  PROVE  FailuresSeen'
<1> USE DEF table, volatile, history, vars, Looked
<1>0. /\ TypeOK /\ Stages /\ calls \in Batches /\ calls' = calls /\ Indexes' = Indexes
      /\ \A i : Key(i)' = Key(i)
      /\ \A i \in Indexes : Key(i) \in Keys
  <2>1. calls \in Batches
    BY DEF Base, TypeOK
  <2> QED
    BY <2>1, Frame, CallType DEF Base
<1> SUFFICES ASSUME Looked', ~BatchFailed', NEW i \in Indexes
             PROVE  rows'[Key(i)] \in {"absent", "completed"}
  BY <1>0 DEF FailuresSeen
<1>1. ~BatchFailed
  BY Monotone
<1>2. CASE ~Looked
  <2>1. LookUpRows
    BY <1>2, <1>0 DEF Next, Main, Reader, StartCall, CheckRow, ReadBody, ReadRecord,
       JoinReaders, SkipEffect, ReuseEffect, WriteBody, SendEmail, RefuseEmail,
       WriteRecord, UndoWrite, UndoDone, Collect, MarkRolledBack, RecordResult,
       BatchDone, Crash, Resume, Finished, Effect, Stages, ReadersDone
  <2>2. rows' = rows /\ out'[i] = IF HasRow(Key(i)) THEN Outcome(Key(i)) ELSE "none"
    BY <2>1 DEF LookUpRows
  <2>3. out'[i] # "failed"
    BY <1>0 DEF BatchFailed
  <2> QED
    BY <1>0, <2>2, <2>3 DEF HasRow, Outcome
<1>3. CASE Looked /\ UNCHANGED rows
  BY <1>1, <1>3 DEF FailuresSeen
<1>4. CASE Looked /\ ~UNCHANGED rows
  <2>1. PICK j \in Indexes, status \in {"completed", "failed", "blocked"} :
          SetRow(j, status) /\ Settle(j, Verdict(status))
    BY <1>4, RowChange
  <2>2. out'[j] = Verdict(status) /\ out'[j] # "failed"
    BY <1>0, <2>1 DEF Settle, TypeOK, BatchFailed
  <2>3. status = "completed"
    BY <2>2 DEF Verdict
  <2> QED
    BY <1>0, <1>1, <1>4, <2>1, <2>3 DEF SetRow, TypeOK, FailuresSeen
<1> QED
  BY <1>2, <1>3, <1>4

\* Every step keeps the order of effects.
LEMMA SendsStep ==
  ASSUME Base, Mailroom, FailuresSeen, Sends, Next
  PROVE  Sends'
<1> USE DEF table, volatile, history, vars, Looked
<1>0. /\ TypeOK /\ Stages /\ calls \in Batches /\ calls' = calls /\ Indexes' = Indexes
      /\ \A i : Key(i)' = Key(i)
      /\ \A t : Of(t)' = Of(t)
      /\ \A i \in Indexes : Key(i) \in Keys
  <2>1. calls \in Batches
    BY DEF Base, TypeOK
  <2> QED
    BY <2>1, Frame, CallType DEF Base, TypeOK
<1>1. /\ \A i, j \in Indexes : Key(i) = Key(j) => calls[i].tool = calls[j].tool
      /\ \A i, j \in Indexes : \A t : Key(i) = Key(j) /\ i \in Of(t) => j \in Of(t)
      /\ Of("read") \cap Of("write") = {} /\ Of("read") \cap Of("email") = {}
      /\ Of("write") \cap Of("email") = {}
      /\ \A t : Of(t) \subseteq Indexes
  BY <1>0, OneKind
<1>2. ASSUME NEW i \in Indexes, NEW status, SetRow(i, status)
      PROVE  \A j \in Indexes : rows'[Key(j)] = IF Key(j) = Key(i) THEN status ELSE rows[Key(j)]
  BY <1>0, <1>2 DEF SetRow, TypeOK
<1>3. RefusedEmail => RefusedEmail'
  <2>1. CASE UNCHANGED rows
    BY <1>0, <2>1 DEF RefusedEmail
  <2>2. CASE ~UNCHANGED rows
    <3>1. PICK i \in Indexes, status \in {"completed", "failed", "blocked"} :
            SetRow(i, status) /\ (i \in Of("email") => ~HasRow(Key(i)))
      BY <1>1, <2>2, RowChange
    <3>2. \A j \in Of("email") : HasRow(Key(j)) => rows'[Key(j)] = rows[Key(j)]
      BY <1>1, <1>2, <3>1
    <3> QED
      BY <1>0, <3>2 DEF RefusedEmail, HasRow
  <2> QED
    BY <2>1, <2>2
<1>4. ASSUME NEW i \in Indexes, SendEmail(i)
      PROVE  Sends'
  <2>1. /\ pc = "effects" /\ pc' = pc /\ i \in Of("email") /\ ~BatchFailed
        /\ Todo("write") = {} /\ ReadersDone /\ UNCHANGED <<worker, restored>>
    BY <1>0, <1>1, <1>4 DEF SendEmail, Effect, NextEffect, Todo, Skips, Stages
  <2>2. \A j \in Of("read") \cup Of("write") : out[j] # "none"
    BY <1>0, <1>1, <2>1 DEF Stages, ReadersDone, Todo
  <2>3. \A j \in Of("read") \cup Of("write") : rows[Key(j)] = "completed"
    BY <1>0, <1>1, <2>1, <2>2 DEF Stages, FailuresSeen, HasRow
  <2>4. \A j \in Of("read") \cup Of("write") : rows'[Key(j)] = "completed"
    BY <1>1, <1>2, <1>4, <2>1, <2>3 DEF SendEmail
  <2>5. restored = {}
    BY <2>1 DEF Sends
  <2> QED
    BY <1>0, <2>1, <2>4, <2>5 DEF Sends, SendsFollowSuccess, ReadersDone
<1>5. ASSUME UNCHANGED sent
      PROVE  /\ SendsFollowSuccess'
             /\ sent' # {} => ReadersDone'
  <2>1. CASE UNCHANGED rows
    <3>1. SendsFollowSuccess'
      BY <1>0, <1>5, <2>1 DEF Sends, SendsFollowSuccess
    <3>2. CASE LookUpRows
      <4>1. \A j \in Of("read") : sent # {} => rows[Key(j)] = "completed"
        BY DEF Sends, SendsFollowSuccess
      <4> QED
        BY <1>0, <1>1, <1>5, <3>1, <3>2, <4>1 DEF LookUpRows, ReadersDone, HasRow
    <3>3. CASE UNCHANGED worker
      BY <1>0, <1>5, <3>1, <3>3 DEF Sends, ReadersDone
    <3>4. CASE Crash
      BY <1>0, <1>5, <3>1, <3>4 DEF Crash, Idle, ReadersDone
    <3>5. ASSUME NEW i \in Indexes, Reader(i)
          PROVE  sent = {}
      BY <3>5 DEF Sends, Reader, CheckRow, ReadBody, ReadRecord, ReadersDone
    <3>6. UNCHANGED worker \/ LookUpRows \/ Crash \/ \E i \in Indexes : Reader(i)
      BY DEF Next, Main, StartCall, JoinReaders, SkipEffect, ReuseEffect, WriteBody,
         SendEmail, RefuseEmail, WriteRecord, UndoWrite, UndoDone, Collect,
         MarkRolledBack, RecordResult, BatchDone, Resume, Finished
    <3> QED
      BY <1>5, <3>1, <3>2, <3>3, <3>4, <3>5, <3>6
  <2>2. CASE ~UNCHANGED rows
    <3>1. PICK i \in Indexes, status \in {"completed", "failed", "blocked"} :
            /\ SetRow(i, status)
            /\ \/ i \in Of("read") /\ worker[i] = status
               \/ i \in Of("write") \cup Of("email") /\ ~HasRow(Key(i)) /\ pc # "reads"
               \/ i \in Of("write") /\ restored # {} /\ pc = "collect"
      BY <2>2, RowChange
    <3>2. CASE sent = {}
      BY <1>5, <3>2 DEF SendsFollowSuccess
    <3>3. CASE sent # {}
      <4>1. ReadersDone
        BY <3>3 DEF Sends
      <4>2. i \notin Of("read")
        BY <1>1, <3>1, <4>1 DEF ReadersDone
      <4>3. \A j \in Of("read") : rows'[Key(j)] = rows[Key(j)]
        BY <1>1, <1>2, <3>1, <4>2
      <4>4. i \in Of("write") => RefusedEmail
        BY <3>1, <3>3, <4>2 DEF Sends, SendsFollowSuccess, HasRow, RefusedEmail
      <4>5. i \in Of("email") => \A j \in Of("write") : rows'[Key(j)] = rows[Key(j)]
        BY <1>1, <1>2, <3>1
      <4>6. SendsFollowSuccess'
        BY <1>0, <1>3, <1>5, <3>1, <4>2, <4>3, <4>4, <4>5
        DEF Sends, SendsFollowSuccess, RefusedEmail
      <4>7. UNCHANGED worker
        BY <2>2, <1>1, <4>1 DEF Next, Main, Reader, StartCall, LookUpRows, CheckRow, ReadBody,
           ReadRecord, JoinReaders, SkipEffect, ReuseEffect, WriteBody, SendEmail,
           RefuseEmail, WriteRecord, UndoWrite, UndoDone, Collect, MarkRolledBack,
           RecordResult, BatchDone, Crash, Resume, Finished, ReadersDone
      <4> QED
        BY <1>0, <4>1, <4>6, <4>7 DEF ReadersDone
    <3> QED
      BY <3>2, <3>3
  <2> QED
    BY <2>1, <2>2
<1>6. ASSUME pc = "undo" \/ restored # {}, pc' # "down", UNCHANGED sent
      PROVE  BatchFailed' /\ (sent' = {} \/ RefusedEmail')
  BY <1>3, <1>6, Monotone DEF Sends
<1>7. ASSUME UNCHANGED sent, pc' = "undo" \/ restored' # {}
      PROVE  BatchFailed' /\ (sent' = {} \/ RefusedEmail')
  <2>1. CASE WriteRecord
    <3>1. at \in Of("write") /\ ~HasRow(Key(at)) /\ at \in Indexes
      BY <1>0, <1>1, <2>1 DEF WriteRecord, Stages, Writing, Todo
    <3>2. sent = {} \/ RefusedEmail
      BY <3>1 DEF Sends, SendsFollowSuccess, HasRow, RefusedEmail
    <3>3. CASE pc = "not written"
      <4>1. out'[at] = "failed"
        BY <1>0, <2>1, <3>1, <3>3 DEF WriteRecord, Settle, TypeOK
      <4> QED
        BY <1>0, <1>3, <1>7, <3>1, <3>2, <4>1 DEF BatchFailed
    <3>4. CASE pc = "wrote"
      BY <1>6, <1>7, <2>1, <3>4 DEF WriteRecord
    <3> QED
      BY <2>1, <3>3, <3>4 DEF WriteRecord
  <2>2. ASSUME NEW i \in Indexes, RefuseEmail(i)
        PROVE  BatchFailed' /\ RefusedEmail'
    <3>1. out'[i] = "failed" /\ i \in Of("email")
      BY <1>0, <2>2 DEF RefuseEmail, Settle, TypeOK
    <3>2. rows'[Key(i)] \in {"failed", "blocked"}
      BY <1>0, <2>2 DEF RefuseEmail, SetRow, TypeOK
    <3> QED
      BY <1>0, <3>1, <3>2 DEF BatchFailed, RefusedEmail
  <2>3. \/ WriteRecord \/ \E i \in Indexes : RefuseEmail(i)
        \/ (pc = "undo" \/ restored # {}) /\ pc' # "down"
    BY <1>0, <1>7 DEF Next, Main, Reader, StartCall, LookUpRows, CheckRow, ReadBody,
       ReadRecord, JoinReaders, SkipEffect, ReuseEffect, WriteBody, SendEmail,
       UndoWrite, UndoDone, Collect, MarkRolledBack, RecordResult, BatchDone, Crash,
       Resume, Finished, Stages
  <2> QED
    BY <1>6, <1>7, <2>1, <2>2, <2>3
<1>8. UNCHANGED sent \/ \E i \in Indexes : SendEmail(i)
  BY DEF Next, Main, Reader, StartCall, LookUpRows, CheckRow, ReadBody, ReadRecord,
     JoinReaders, SkipEffect, ReuseEffect, WriteBody, RefuseEmail, WriteRecord,
     UndoWrite, UndoDone, Collect, MarkRolledBack, RecordResult, BatchDone, Crash,
     Resume, Finished
<1> QED
  BY <1>4, <1>5, <1>7, <1>8 DEF Sends

\* The failures a batch has seen are those its rows tell.
THEOREM SpecFailuresSeen == Spec => []FailuresSeen
<1>1. Init => FailuresSeen
  BY DEF Init, FailuresSeen, Looked
<1>2. Base /\ FailuresSeen /\ UNCHANGED vars => FailuresSeen'
  BY DEF vars, table, volatile, history, FailuresSeen, Looked, BatchFailed, Key, Indexes
<1>3. Base /\ FailuresSeen /\ Next => FailuresSeen'
  BY FailuresSeenStep
<1> QED
  BY SpecBase, <1>1, <1>2, <1>3, PTL DEF Spec

\* Nothing is put back after an email left unless another email was refused.
THEOREM SpecSends == Spec => []Sends
<1>1. Init => Mailroom /\ Sends
  BY BatchAssumption DEF Init, Mailroom, Mails, RebuiltTaint, Sends, SendsFollowSuccess
<1>2. Base /\ Mailroom /\ FailuresSeen /\ Sends /\ UNCHANGED vars => Mailroom' /\ Sends'
  BY DEF vars, table, volatile, history, Mailroom, RebuiltTaint, Sends,
         SendsFollowSuccess, ReadersDone, RefusedEmail, BatchFailed, Key, Indexes, Of
<1>3. Base /\ Mailroom /\ FailuresSeen /\ Sends /\ Next => Mailroom' /\ Sends'
  BY OutboxStep, SendsStep
<1> QED
  BY SpecBase, SpecFailuresSeen, <1>1, <1>2, <1>3, PTL DEF Spec

\* An email leaves only after every read and every write of the batch succeeded, in
\* this process or an earlier one; a write is put back later only because another
\* email was refused (the two loops over side effects, runtime.py:554-605).
THEOREM SpecSendsFollowSuccess == Spec => []SendsFollowSuccess
<1>1. Sends => SendsFollowSuccess
  BY DEF Sends
<1> QED
  BY SpecSends, <1>1, PTL

(***************************************************************************)
(* The workspace and the results: what a batch leaves in the files, and    *)
(* what the model is told.  This holds where a file that was written can   *)
(* be put back ("restore" \notin Faults).                                  *)
(***************************************************************************)

\* What every proof below knows of a step.
LEMMA StepFacts ==
  ASSUME Base, Next
  PROVE  /\ TypeOK /\ Stages /\ HeldSettled /\ calls \in Batches
         /\ calls' = calls /\ Indexes' = Indexes
         /\ \A t : Of(t)' = Of(t)
         /\ \A i : Key(i)' = Key(i) /\ Twins(Key(i))' = Twins(Key(i)) /\ First(i)' = First(i)
         /\ \A i \in Indexes : Key(i) \in Keys /\ i \in Nat \ {0}
         /\ \A i, j \in Indexes : \A t : Key(i) = Key(j) /\ i \in Of(t) => j \in Of(t)
         /\ \A i \in Indexes : i \in Of("read") \/ i \in Of("write") \/ i \in Of("email")
         /\ Of("read") \cap Of("write") = {} /\ Of("read") \cap Of("email") = {}
         /\ Of("write") \cap Of("email") = {}
         /\ \A t : Of(t) \subseteq Indexes
         /\ Stages'
<1>1. TypeOK /\ Stages /\ HeldSettled /\ calls \in Batches
  BY DEF Base, TypeOK
<1>2. calls' = calls /\ Indexes' = Indexes /\ Stages'
  BY Frame, StagesStep
<1>3. \A i \in Indexes : Key(i) \in Keys /\ i \in Nat \ {0}
  BY <1>1, CallType, IndexPositive
<1>4. /\ \A t : Of(t)' = Of(t)
      /\ \A i : Key(i)' = Key(i) /\ Twins(Key(i))' = Twins(Key(i)) /\ First(i)' = First(i)
  BY Frame DEF Twins, First
<1> QED
  BY <1>1, <1>2, <1>3, <1>4, OneKind

(***************************************************************************)
(* Files.                                                                  *)
(***************************************************************************)

\* What a file may hold before the writes of the batch, which is what run_python
\* may have made of it, and after them.
Kept(p)    == {before[p], "torn"} \cup PythonLeaves(p)
Written(p) == Kept(p) \cup {calls[i].content : i \in {j \in Of("write") : calls[j].target = p}}

\* What rolling back may leave: the writes of a process that died stay.
Allowed(p) == IF crashes > 0 THEN Written(p) ELSE Kept(p)

Covered(p) == \E n \in DOMAIN preimages : preimages[n].path = p

\* Putting the preimages back, newest first, leaves in each file what it may hold:
\* the oldest preimage of a path, or the file if there is none, is such a content.
\* Nothing is left to put back once a failure was dealt with.
Reversible ==
  /\ \A p \in Paths : files[p] \in Written(p) /\ (~Covered(p) => files[p] \in Allowed(p))
  /\ \A p \in Paths, n \in DOMAIN preimages :
       preimages[n].path = p =>
         /\ preimages[n].content \in Written(p)
         /\ \/ \E m \in 1..(n - 1) : preimages[m].path = p
            \/ preimages[n].content \in Allowed(p)
  /\ BatchFailed /\ pc # "undo" => preimages = <<>>
  /\ pc = "reads" => preimages = <<>>

\* A step of the process leaves what a file may hold; a crash allows more.
LEMMA ContentsStep ==
  ASSUME Base, Next
  PROVE  /\ \A p : Written(p)' = Written(p) /\ Allowed(p) \subseteq Written(p)
         /\ ~Crash => UNCHANGED crashes /\ \A p : Allowed(p)' = Allowed(p)
         /\ Crash => \A p : Allowed(p)' = Written(p)
<1>1. before' = before
  BY DEF Next, Main, Reader, StartCall, LookUpRows, CheckRow, ReadBody, ReadRecord,
     JoinReaders, SkipEffect, ReuseEffect, WriteBody, SendEmail, RefuseEmail,
     WriteRecord, UndoWrite, UndoDone, Collect, MarkRolledBack, RecordResult,
     BatchDone, Crash, Resume, Finished, vars, history
<1>2. \A p : Kept(p)' = Kept(p) /\ Written(p)' = Written(p)
  BY <1>1, Frame DEF Kept, Written, PythonLeaves
<1>3. \A p : Allowed(p) \subseteq Written(p)
  BY DEF Allowed, Written
<1>4. ~Crash => UNCHANGED crashes
  BY DEF Next, Main, Reader, StartCall, LookUpRows, CheckRow, ReadBody, ReadRecord,
     JoinReaders, SkipEffect, ReuseEffect, WriteBody, SendEmail, RefuseEmail,
     WriteRecord, UndoWrite, UndoDone, Collect, MarkRolledBack, RecordResult,
     BatchDone, Resume, Finished, vars
<1>5. Crash => crashes' > 0
  <2>1. crashes \in Nat /\ (Crash => crashes' = crashes + 1)
    BY DEF Crash, Base, TypeOK
  <2> QED
    BY <2>1
<1> QED
  BY <1>2, <1>3, <1>4, <1>5 DEF Allowed

\* Nothing is left to put back when a batch goes on after a failure.
LEMMA NothingToUndo ==
  ASSUME Base, FailuresSeen, Sends, Reversible, Next, BatchFailed', pc' # "undo"
  PROVE  preimages' = <<>>
<1> USE DEF table, volatile, history, vars, Looked
<1>0. /\ TypeOK /\ Stages /\ Indexes' = Indexes /\ Of("write") \subseteq Indexes
      /\ BatchFailed /\ pc # "undo" => preimages = <<>>
      /\ pc = "reads" => preimages = <<>>
  BY StepFacts DEF Base, Reversible
<1>1. ASSUME NEW i \in Indexes, Settle(i, "ok")
      PROVE  BatchFailed
  BY <1>0, <1>1 DEF Settle, TypeOK, BatchFailed
<1>2. CASE StartCall \/ LookUpRows \/ Resume
  BY <1>0, <1>2 DEF StartCall, LookUpRows, Resume, Stages
<1>3. ASSUME NEW i \in Indexes, Reader(i)
      PROVE  preimages' = <<>>
  <2>1. worker[i] # "off" /\ UNCHANGED preimages
    BY <1>3 DEF Reader, CheckRow, ReadBody, ReadRecord
  <2> QED
    BY <1>0, <2>1 DEF Stages, ReadersDone
<1>4. CASE JoinReaders \/ UndoDone \/ Collect \/ RecordResult \/ BatchDone \/ Finished
  BY <1>0, <1>4 DEF JoinReaders, UndoDone, Collect, RecordResult, BatchDone, Finished,
     BatchFailed
<1>5. ASSUME NEW i \in Indexes, SkipEffect(i)
      PROVE  preimages' = <<>>
  BY <1>0, <1>5 DEF SkipEffect, Effect, Skips
<1>6. ASSUME NEW i \in Indexes
      PROVE  ~ReuseEffect(i) /\ ~WriteBody(i) /\ ~SendEmail(i) /\ ~RefuseEmail(i)
  <2>1. ReuseEffect(i) => pc = "effects" /\ ~BatchFailed /\ Settle(i, "ok")
    BY <1>0 DEF ReuseEffect, Effect, Skips, FailuresSeen, HasRow, Outcome
  <2>2. ~ReuseEffect(i)
    BY <1>1, <2>1
  <2>3. ~SendEmail(i)
    BY <1>1 DEF SendEmail, Skips
  <2>4. ~WriteBody(i) /\ ~RefuseEmail(i)
    BY <1>0 DEF WriteBody, RefuseEmail, Skips, BatchFailed
  <2> QED
    BY <2>2, <2>3, <2>4
<1>7. ~WriteRecord
  <2>1. SUFFICES ASSUME WriteRecord PROVE FALSE
    OBVIOUS
  <2>2. pc = "wrote" /\ Settle(at, "ok") /\ at \in Indexes /\ ~BatchFailed
    BY <1>0, <2>1 DEF WriteRecord, Stages, Writing, Todo
  <2> QED
    BY <1>1, <2>2
<1>8. ~UndoWrite
  BY DEF UndoWrite
<1>9. CASE MarkRolledBack
  BY <1>0, <1>9 DEF MarkRolledBack, Sends
<1>10. CASE Crash
  BY <1>10 DEF Crash
<1> QED
  BY <1>2, <1>3, <1>4, <1>5, <1>6, <1>7, <1>8, <1>9, <1>10 DEF Next, Main

\* Capturing a preimage, and writing the file, keeps the writes reversible.
LEMMA CaptureStep ==
  ASSUME Base, Reversible, NEW i \in Of("write"), Next, ~Crash, pc' # "reads",
         preimages' = Append(preimages, Preimage(i)), ~BatchFailed' \/ pc' = "undo",
         UNCHANGED files \/ files' = [files EXCEPT ![calls[i].target] = calls[i].content]
  PROVE  Reversible'
<1> DEFINE path == calls[i].target
           len  == Len(preimages)
<1>0. /\ files \in [Paths -> FileStates] /\ path \in Paths
      /\ calls[i].content \in Written(path)
  BY CallType DEF Base, TypeOK, Of, Written
<1>1. /\ len \in Nat /\ DOMAIN preimages = 1..len
      /\ DOMAIN preimages' = 1..(len + 1)
      /\ \A n \in 1..len : preimages'[n] = preimages[n]
      /\ preimages'[len + 1] = Preimage(i)
  <2>1. preimages \in Seq(Preimages) /\ Preimage(i) \in Preimages
    BY <1>0 DEF Base, TypeOK, Preimage, Preimages
  <2> QED
    BY <2>1, AppendProperties
<1>2. Preimage(i).path = path /\ Preimage(i).content = files[path]
  BY DEF Preimage
<1>3. /\ \A p : Written(p)' = Written(p) /\ Allowed(p)' = Allowed(p)
  BY ContentsStep
<1>4. ASSUME NEW p \in Paths
      PROVE  files'[p] \in Written(p) /\ (~Covered(p)' => files'[p] \in Allowed(p))
  <2>1. ASSUME ~Covered(p)'
        PROVE  ~Covered(p) /\ p # path
    BY <1>1, <1>2, <2>1 DEF Covered
  <2>2. files'[p] \in Written(p)
    BY <1>0 DEF Reversible
  <2>3. p # path /\ ~Covered(p) => files'[p] \in Allowed(p)
    BY <1>0 DEF Reversible
  <2> QED
    BY <2>1, <2>2, <2>3
<1>5. ASSUME NEW p \in Paths, NEW n \in DOMAIN preimages', preimages'[n].path = p
      PROVE  /\ preimages'[n].content \in Written(p)
             /\ \/ \E m \in 1..(n - 1) : preimages'[m].path = p
                \/ preimages'[n].content \in Allowed(p)
  <2>1. CASE n \in 1..len
    <3>1. n \in DOMAIN preimages /\ preimages'[n] = preimages[n]
      BY <1>1, <2>1
    <3>2. \A m \in 1..(n - 1) : preimages'[m] = preimages[m]
      BY <1>1, <2>1
    <3> QED
      BY <1>5, <3>1, <3>2 DEF Reversible
  <2>2. CASE n = len + 1
    <3>1. p = path /\ preimages'[n].content = files[path] /\ n - 1 = len
      BY <1>1, <1>2, <1>5, <2>2
    <3>2. \A m \in 1..len : m \in DOMAIN preimages /\ preimages'[m] = preimages[m]
      BY <1>1
    <3>3. files[path] \in Written(path) /\ (~Covered(path) => files[path] \in Allowed(path))
      BY <1>0 DEF Reversible
    <3>4. Covered(path) => \E m \in 1..len : preimages'[m].path = path
      BY <1>1, <3>2 DEF Covered
    <3> QED
      BY <3>1, <3>3, <3>4
  <2> QED
    BY <1>1, <2>1, <2>2
<1>6. /\ BatchFailed' /\ pc' # "undo" => preimages' = <<>>
      /\ pc' = "reads" => preimages' = <<>>
  OBVIOUS
<1> HIDE DEF path, len
<1> QED
  BY <1>3, <1>4, <1>5, <1>6 DEF Reversible

\* Putting the newest preimage back keeps the older writes reversible.
LEMMA PutBackStep ==
  ASSUME Base, Reversible, Next, UndoWrite, "restore" \notin Faults
  PROVE  Reversible'
<1> DEFINE len  == Len(preimages)
           last == preimages[len]
<1>1. /\ len \in Nat \ {0} /\ last \in Preimages
      /\ DOMAIN preimages = 1..len /\ DOMAIN preimages' = 1..(len - 1)
      /\ \A n \in 1..(len - 1) : preimages'[n] = preimages[n]
  BY Popped DEF UndoWrite, Base, TypeOK
<1>2. /\ files \in [Paths -> FileStates] /\ last.path \in Paths
      /\ files' = [files EXCEPT ![last.path] = last.content]
      /\ pc' = "undo"
  BY <1>1 DEF UndoWrite, Base, TypeOK, Preimages
<1>3. /\ \A p : Written(p)' = Written(p) /\ Allowed(p)' = Allowed(p)
  <2>1. ~Crash
    BY <1>2 DEF Crash
  <2> QED
    BY <2>1, ContentsStep
<1>4. last.content \in Written(last.path) /\ len \in DOMAIN preimages
  <2>1. len \in DOMAIN preimages
    BY <1>1
  <2> QED
    BY <1>2, <2>1 DEF Reversible
<1>5. \A n \in DOMAIN preimages' :
        /\ n \in DOMAIN preimages /\ preimages'[n] = preimages[n]
        /\ \A m \in 1..(n - 1) : preimages'[m] = preimages[m]
  BY <1>1
<1>6. ASSUME NEW p \in Paths
      PROVE  files'[p] \in Written(p) /\ (~Covered(p)' => files'[p] \in Allowed(p))
  <2>1. files[p] \in Written(p) /\ (~Covered(p) => files[p] \in Allowed(p))
    BY DEF Reversible
  <2>2. CASE p = last.path
    <3>1. files'[p] = last.content
      BY <1>2, <2>2
    <3>2. ~Covered(p)' => ~\E m \in 1..(len - 1) : preimages[m].path = p
      BY <1>1 DEF Covered
    <3>3. last.content \in Allowed(p) \/ \E m \in 1..(len - 1) : preimages[m].path = p
      BY <1>4, <2>2 DEF Reversible
    <3> QED
      BY <1>4, <2>2, <3>1, <3>2, <3>3
  <2>3. CASE p # last.path
    <3>1. \A m \in 1..len : m = len \/ m \in 1..(len - 1)
      <4>1. \A l \in Nat \ {0} : \A m \in 1..l : m = l \/ m \in 1..(l - 1)
        OBVIOUS
      <4> QED
        BY <1>1, <4>1
    <3>2. Covered(p) => Covered(p)'
      BY <1>1, <2>3, <3>1 DEF Covered
    <3>3. files'[p] = files[p]
      BY <1>2, <2>3
    <3> QED
      BY <2>1, <3>2, <3>3
  <2> QED
    BY <2>2, <2>3
<1>7. ASSUME NEW p \in Paths, NEW n \in DOMAIN preimages', preimages'[n].path = p
      PROVE  /\ preimages'[n].content \in Written(p)
             /\ \/ \E m \in 1..(n - 1) : preimages'[m].path = p
                \/ preimages'[n].content \in Allowed(p)
  BY <1>5, <1>7 DEF Reversible
<1> HIDE DEF len, last
<1> QED
  BY <1>2, <1>3, <1>6, <1>7 DEF Reversible

\* Every step keeps the writes reversible.
LEMMA ReversibleStep ==
  ASSUME Base, FailuresSeen, Sends, Reversible, Next, "restore" \notin Faults
  PROVE  Reversible'
<1> USE DEF table, volatile, history, vars, Looked
<1>0. /\ TypeOK /\ Stages /\ Indexes' = Indexes
      /\ \A p : Written(p)' = Written(p) /\ Allowed(p) \subseteq Written(p)
      /\ BatchFailed' => pc' = "undo" \/ preimages' = <<>>
      /\ pc' # "reads" \/ UNCHANGED preimages
      /\ pc' = "reads" => preimages' = <<>>
  <2>1. BatchFailed' => pc' = "undo" \/ preimages' = <<>>
    BY NothingToUndo
  <2>2. pc' = "reads" => pc = "reads" \/ LookUpRows
    BY DEF Next, Main, Reader, StartCall, CheckRow, ReadBody, ReadRecord, JoinReaders,
       SkipEffect, ReuseEffect, WriteBody, SendEmail, RefuseEmail, WriteRecord,
       UndoWrite, UndoDone, Collect, MarkRolledBack, RecordResult, BatchDone, Crash,
       Resume, Finished, Effect
  <2>3. pc = "reads" /\ pc' = "reads" => UNCHANGED preimages
    BY DEF Next, Main, Reader, StartCall, LookUpRows, CheckRow, ReadBody, ReadRecord,
       JoinReaders, SkipEffect, ReuseEffect, WriteBody, SendEmail, RefuseEmail,
       WriteRecord, UndoWrite, UndoDone, Collect, MarkRolledBack, RecordResult,
       BatchDone, Crash, Resume, Finished, Effect
  <2>4. LookUpRows => preimages' = <<>> /\ UNCHANGED preimages
    BY DEF LookUpRows, Base, Stages
  <2> QED
    BY <2>1, <2>2, <2>3, <2>4, StepFacts, ContentsStep DEF Reversible
<1>1. ASSUME UNCHANGED <<files, preimages>>, ~Crash
      PROVE  Reversible'
  <2>1. \A p : Allowed(p)' = Allowed(p) /\ Covered(p)' = Covered(p)
    BY <1>1, ContentsStep DEF Covered
  <2> QED
    BY <1>0, <1>1, <2>1 DEF Reversible
<1>2. CASE Crash
  <2>1. preimages' = <<>> /\ UNCHANGED files /\ DOMAIN preimages' = {}
    BY <1>2 DEF Crash
  <2>2. \A p : Allowed(p)' = Written(p)
    BY <1>2, ContentsStep
  <2> QED
    BY <1>0, <2>1, <2>2 DEF Reversible
<1>3. ASSUME NEW i \in Indexes, ReuseEffect(i)
      PROVE  Reversible'
  <2>1. ~Crash /\ pc' # "reads" /\ pc' # "undo" /\ UNCHANGED files
    BY <1>3 DEF ReuseEffect, Effect, Crash
  <2>2. CASE preimages' = preimages
    BY <1>1, <2>1, <2>2
  <2>3. CASE i \in Of("write") /\ preimages' = Append(preimages, Preimage(i))
    <3>1. preimages' # <<>>
      <4>1. preimages \in Seq(Preimages) /\ Preimage(i) \in Preimages
        BY <1>0, <2>3, CallType DEF TypeOK, Preimage, Preimages, Of
      <4>2. Len(preimages') = Len(preimages) + 1 /\ Len(preimages) \in Nat
        BY <2>3, <4>1, AppendProperties
      <4> QED
        BY <4>2
    <3>2. ~BatchFailed'
      BY <1>0, <2>1, <3>1
    <3> QED
      BY <2>1, <2>3, <3>2, CaptureStep
  <2> QED
    BY <1>3, <2>2, <2>3 DEF ReuseEffect, Of
<1>4. ASSUME NEW i \in Indexes, WriteBody(i)
      PROVE  Reversible'
  <2>1. ~Crash /\ pc' # "reads" /\ i \in Of("write") /\ ~BatchFailed'
    <3>1. pc' \in {"wrote", "not written"} /\ i \in Of("write") /\ ~BatchFailed
      BY <1>4 DEF WriteBody, Skips
    <3>2. out' = out
      BY <1>4 DEF WriteBody
    <3> QED
      BY <1>0, <3>1, <3>2 DEF Crash, BatchFailed
  <2>2. CASE /\ preimages' = Append(preimages, Preimage(i))
             /\ files' = [files EXCEPT ![calls[i].target] = calls[i].content]
    BY <2>1, <2>2, CaptureStep
  <2>3. CASE UNCHANGED <<files, preimages>>
    BY <1>1, <2>1, <2>3
  <2>4. CASE UNCHANGED preimages /\ files' = [files EXCEPT ![calls[i].target] = "torn"]
    <3>1. \A p : Allowed(p)' = Allowed(p) /\ Covered(p)' = Covered(p) /\ "torn" \in Allowed(p)
      BY <2>1, <2>4, ContentsStep DEF Covered, Allowed, Written, Kept
    <3>2. \A p \in Paths : files'[p] = files[p] \/ files'[p] = "torn"
      BY <1>0, <2>4 DEF TypeOK
    <3> QED
      BY <1>0, <2>1, <2>4, <3>1, <3>2 DEF Reversible
  <2> QED
    BY <1>4, <2>2, <2>3, <2>4 DEF WriteBody
<1>5. CASE UndoWrite
  BY <1>5, PutBackStep
<1>6. ASSUME NEW i \in Indexes, ReadBody(i)
      PROVE  Reversible'
  <2>1. pc = "reads" /\ i \in Of("read") /\ preimages = <<>>
    BY <1>0, <1>6 DEF ReadBody, Stages, ReadersDone, Reversible
  <2>2. ~Crash /\ UNCHANGED preimages
    BY <1>6, <2>1 DEF ReadBody, Crash
  <2>3. \A p : /\ Allowed(p)' = Allowed(p) /\ Kept(p) \subseteq Allowed(p)
              /\ Covered(p)' = Covered(p)
    BY <2>2, ContentsStep DEF Covered, Allowed, Written
  <2>4. ASSUME NEW p \in Paths
        PROVE  files'[p] \in Allowed(p)
    <3>1. files[p] \in Allowed(p) /\ files \in [Paths -> FileStates]
      BY <1>0, <2>1 DEF Reversible, Covered, TypeOK
    <3>2. CASE UNCHANGED files
      BY <3>1, <3>2
    <3>3. ASSUME NEW left \in {calls[i].content, "torn"}, calls[i].content # None,
                 files' = [files EXCEPT ![calls[i].target] = left]
          PROVE  files'[p] \in Allowed(p)
      <4>1. files'[p] = IF p = calls[i].target THEN left ELSE files[p]
        BY <3>1, <3>3
      <4>2. p = calls[i].target => left \in Kept(p)
        BY <2>1, <3>3 DEF Kept, PythonLeaves
      <4> QED
        BY <2>3, <3>1, <4>1, <4>2
    <3> QED
      BY <1>6, <3>2, <3>3 DEF ReadBody
  <2>5. DOMAIN preimages' = {} /\ BatchFailed' = BatchFailed
    BY <1>0, <1>6, <2>1, <2>2 DEF ReadBody, BatchFailed
  <2> QED
    BY <1>0, <2>1, <2>2, <2>3, <2>4, <2>5 DEF Reversible
<1>7. \/ UNCHANGED <<files, preimages>>
      \/ Crash \/ UndoWrite
      \/ \E i \in Indexes : ReadBody(i) \/ ReuseEffect(i) \/ WriteBody(i)
  BY DEF Next, Main, Reader, StartCall, LookUpRows, CheckRow, ReadRecord,
     JoinReaders, SkipEffect, SendEmail, RefuseEmail, WriteRecord, UndoDone, Collect,
     MarkRolledBack, RecordResult, BatchDone, Resume, Finished
<1> QED
  BY <1>1, <1>2, <1>3, <1>4, <1>5, <1>6, <1>7

\* Once a write has its row every read has one: no run_python of the batch is
\* left that could change the file again.
EffectsWait ==
  (\E i \in Of("write") : HasRow(Key(i)))
    => ReadersDone /\ \A j \in Of("read") : HasRow(Key(j))

\* The rows of the reads are there before the first row of a write is.
LEMMA EffectsWaitStep ==
  ASSUME Base, EffectsWait, Next
  PROVE  EffectsWait'
<1> USE DEF table, volatile, history, vars, Looked
<1>0. /\ TypeOK /\ Stages /\ Stages' /\ Indexes' = Indexes
      /\ \A i : Key(i)' = Key(i)
      /\ \A t : Of(t)' = Of(t) /\ Of(t) \subseteq Indexes
      /\ \A i \in Indexes : Key(i) \in Keys
      /\ \A i, j \in Indexes : \A t : Key(i) = Key(j) /\ i \in Of(t) => j \in Of(t)
      /\ Of("read") \cap Of("write") = {} /\ Of("write") \cap Of("email") = {}
      /\ \A k \in Keys : HasRow(k) => HasRow(k)'
  BY StepFacts, Monotone
<1> SUFFICES ASSUME NEW i \in Of("write"), HasRow(Key(i))'
             PROVE  ReadersDone' /\ \A j \in Of("read") : HasRow(Key(j))'
  BY <1>0 DEF EffectsWait
<1>1. CASE HasRow(Key(i))
  <2>1. ReadersDone /\ \A j \in Of("read") : HasRow(Key(j))
    BY <1>1 DEF EffectsWait
  <2>2. \A j \in Of("read") : HasRow(Key(j))'
    BY <1>0, <2>1
  <2>3. CASE LookUpRows
    <3>1. \A j \in Indexes : worker'[j] = "off"
      BY <2>1, <2>3 DEF LookUpRows
    <3> QED
      BY <1>0, <2>2, <3>1 DEF ReadersDone
  <2>4. CASE ~LookUpRows
    <3>1. UNCHANGED worker \/ worker' = Idle
      BY <2>1, <2>4 DEF Next, Main, Reader, StartCall, CheckRow, ReadBody, ReadRecord,
         JoinReaders, SkipEffect, ReuseEffect, WriteBody, SendEmail, RefuseEmail,
         WriteRecord, UndoWrite, UndoDone, Collect, MarkRolledBack, RecordResult,
         BatchDone, Crash, Resume, Finished, ReadersDone
    <3> QED
      BY <1>0, <2>1, <2>2, <3>1 DEF ReadersDone, Idle
  <2> QED
    BY <2>3, <2>4
<1>2. CASE ~HasRow(Key(i))
  <2>1. ~UNCHANGED rows
    BY <1>0, <1>2 DEF HasRow
  <2>2. PICK j \in Indexes, status \in {"completed", "failed", "blocked"} :
          /\ SetRow(j, status)
          /\ \/ j \in Of("read")
             \/ pc \in {"effects", "wrote", "not written", "collect"}
          /\ pc' # "down"
    BY <2>1, RowChange
  <2>3. Key(j) = Key(i)
    <3>1. rows'[Key(i)] = IF Key(i) = Key(j) THEN status ELSE rows[Key(i)]
      BY <1>0, <2>2 DEF SetRow, TypeOK
    <3> QED
      BY <1>0, <1>2, <3>1 DEF HasRow
  <2>4. pc \in {"effects", "wrote", "not written", "collect"}
    BY <1>0, <2>2, <2>3
  <2>5. ReadersDone /\ \A k \in Of("read") : HasRow(Key(k))
    BY <1>0, <2>4 DEF Stages, ReadersDone
  <2>6. ~LookUpRows
    BY <2>4 DEF LookUpRows
  <2>7. UNCHANGED worker \/ worker' = Idle
    BY <2>5, <2>6 DEF Next, Main, Reader, StartCall, CheckRow, ReadBody, ReadRecord,
       JoinReaders, SkipEffect, ReuseEffect, WriteBody, SendEmail, RefuseEmail,
       WriteRecord, UndoWrite, UndoDone, Collect, MarkRolledBack, RecordResult,
       BatchDone, Crash, Resume, Finished, ReadersDone
  <2> QED
    BY <1>0, <2>5, <2>7 DEF ReadersDone, Idle
<1> QED
  BY <1>1, <1>2

\* No tool of the pool is still to run once a write of the batch is recorded, in
\* this process or an earlier one (the pool is joined before the side effects).
THEOREM SpecEffectsWait == Spec => []EffectsWait
<1>1. Init => EffectsWait
  <2>1. Init => \A i \in Of("write") : Key(i) \in Keys /\ rows[Key(i)] = "absent"
    BY CallType DEF Init, Of
  <2> QED
    BY <2>1 DEF EffectsWait, HasRow
<1>2. Base /\ EffectsWait /\ UNCHANGED vars => EffectsWait'
  BY DEF vars, table, volatile, history, EffectsWait, ReadersDone, HasRow, Key, Indexes, Of
<1>3. Base /\ EffectsWait /\ Next => EffectsWait'
  BY EffectsWaitStep
<1> QED
  BY SpecBase, <1>1, <1>2, <1>3, PTL DEF Spec

FirstWrites == {i \in Of("write") : First(i)}

\* No effect of the batch was refused, failed or put back.
Unrefused ==
  \A i \in Of("write") \cup Of("email") : rows[Key(i)] \in {"absent", "completed"}

\* While no effect was refused the writes are completed in their order, and each
\* completed one is in its file or has a successor for the same path.
InOrder ==
  /\ pc = "undo" => ~Unrefused
  /\ pc = "wrote" => files[calls[at].target] = calls[at].content
  /\ Unrefused =>
       \A i \in FirstWrites : rows[Key(i)] = "completed" =>
         /\ \A j \in FirstWrites : j < i => rows[Key(j)] = "completed"
         /\ \/ files[calls[i].target] = calls[i].content
            \/ \E j \in FirstWrites : j > i /\ calls[j].target = calls[i].target

\* An effect that was refused, failed or put back stays so.
LEMMA Refusals ==
  ASSUME Base, Next, Unrefused'
  PROVE  Unrefused
<1>0. /\ TypeOK /\ Indexes' = Indexes
      /\ \A i : Key(i)' = Key(i)
      /\ \A t : Of(t)' = Of(t) /\ Of(t) \subseteq Indexes
      /\ \A i \in Indexes : Key(i) \in Keys
      /\ \A i, j \in Indexes : \A t : Key(i) = Key(j) /\ i \in Of(t) => j \in Of(t)
      /\ Of("read") \cap Of("write") = {} /\ Of("read") \cap Of("email") = {}
  BY StepFacts
<1>1. CASE UNCHANGED rows
  BY <1>0, <1>1 DEF Unrefused
<1>2. CASE ~UNCHANGED rows
  <2>1. PICK i \in Indexes, status \in {"completed", "failed", "blocked"} :
          /\ SetRow(i, status)
          /\ \/ i \in Of("read")
             \/ i \in Of("write") \cup Of("email") /\ ~HasRow(Key(i))
             \/ i \in Of("write") /\ status = "failed"
    BY <1>2, RowChange
  <2>2. \A j \in Indexes : rows'[Key(j)] = IF Key(j) = Key(i) THEN status ELSE rows[Key(j)]
    BY <1>0, <2>1 DEF SetRow, TypeOK
  <2>3. i \in Of("write") => status # "failed"
    BY <1>0, <2>2 DEF Unrefused
  <2>4. ASSUME NEW j \in Of("write") \cup Of("email")
        PROVE  rows[Key(j)] \in {"absent", "completed"}
    <3>1. j \in Indexes /\ rows'[Key(j)] \in {"absent", "completed"}
      BY <1>0 DEF Unrefused
    <3>2. Key(j) = Key(i) => rows[Key(j)] = "absent"
      BY <1>0, <2>1, <2>3, <2>4, <3>1 DEF HasRow
    <3> QED
      BY <2>2, <3>1, <3>2
  <2> QED
    BY <2>4 DEF Unrefused
<1> QED
  BY <1>1, <1>2

\* A write without a row is no repetition once the writes before it are settled,
\* and those were performed unless the batch failed.
LEMMA NextWrite ==
  ASSUME Base, FailuresSeen, Looked, ~BatchFailed, NEW i \in Of("write"),
         ~HasRow(Key(i)), \A j \in Of("write") : j < i => out[j] # "none"
  PROVE  /\ i \in FirstWrites
         /\ \A j \in FirstWrites : j < i => rows[Key(j)] = "completed"
<1>0. /\ Stages /\ calls \in Batches /\ Of("write") \subseteq Indexes
      /\ \A j \in Indexes : j \in Nat \ {0}
      /\ \A j, k \in Indexes : \A t : Key(j) = Key(k) /\ j \in Of(t) => k \in Of(t)
  <2>1. calls \in Batches /\ Stages
    BY DEF Base, TypeOK
  <2> QED
    BY <2>1, OneKind, IndexPositive
<1>1. \A j \in Of("write") : j < i => HasRow(Key(j)) /\ rows[Key(j)] = "completed"
  BY <1>0 DEF Stages, FailuresSeen, HasRow
<1>2. ASSUME NEW j \in Indexes, Key(j) = Key(i)
      PROVE  i <= j
  <2>1. j \in Of("write") /\ ~HasRow(Key(j))
    BY <1>0, <1>2
  <2>2. ~(j < i)
    BY <1>1, <2>1
  <2> QED
    BY <1>0, <2>2
<1> QED
  BY <1>1, <1>2 DEF FirstWrites, First

\* A write goes to its file before any later write does.
LEMMA InOrderWriteBody ==
  ASSUME Base, FailuresSeen, InOrder, Next, NEW i \in Indexes, WriteBody(i)
  PROVE  InOrder'
<1>0. /\ TypeOK /\ Stages /\ calls' = calls /\ FirstWrites' = FirstWrites
      /\ \A j : Key(j)' = Key(j)
      /\ Of("write") \subseteq Indexes
      /\ \A j \in Indexes : j \in Nat \ {0}
  BY StepFacts DEF FirstWrites
<1>1. /\ pc = "effects" /\ ~BatchFailed /\ ~HasRow(Key(i)) /\ i \in Of("write")
      /\ rows' = rows /\ pc' \in {"wrote", "not written"} /\ at' = i
      /\ \A j \in Of("write") : j < i => out[j] # "none"
  <2>1. /\ pc = "effects" /\ ~BatchFailed /\ ~HasRow(Key(i)) /\ i \in Of("write")
        /\ rows' = rows /\ pc' \in {"wrote", "not written"} /\ at' = i
    BY DEF WriteBody, Effect, Skips, table
  <2>2. i \in Todo("write") /\ \A j \in Todo("write") : i <= j
    BY <2>1, OneKind, <1>0 DEF WriteBody, Effect, NextEffect, Todo, TypeOK
  <2>3. \A j \in Of("write") : i <= j => ~(j < i)
    BY <1>0
  <2>4. \A j \in Of("write") : j < i => out[j] # "none"
    BY <2>2, <2>3 DEF Todo
  <2> QED
    BY <2>1, <2>4
<1>2. /\ i \in FirstWrites /\ rows[Key(i)] = "absent"
  BY <1>1, NextWrite DEF Looked, HasRow
<1>3. /\ calls[i].target \in Paths /\ files \in [Paths -> FileStates]
      /\ \A j \in Of("write") : calls[j].target \in Paths
  BY <1>0, <1>1, CallType DEF TypeOK, Of
<1>4. pc' = "wrote" => files'[calls[i].target] = calls[i].content
  BY <1>3 DEF WriteBody
<1>5. \A p \in Paths : p # calls[i].target => files'[p] = files[p]
  BY <1>3 DEF WriteBody
<1>6. ASSUME Unrefused, NEW k \in FirstWrites, rows[Key(k)] = "completed"
      PROVE  /\ \A j \in FirstWrites : j < k => rows[Key(j)] = "completed"
             /\ \/ files'[calls[k].target] = calls[k].content
                \/ \E j \in FirstWrites : j > k /\ calls[j].target = calls[k].target
  <2>1. /\ \A j \in FirstWrites : j < k => rows[Key(j)] = "completed"
        /\ \/ files[calls[k].target] = calls[k].content
           \/ \E j \in FirstWrites : j > k /\ calls[j].target = calls[k].target
    BY <1>6 DEF InOrder
  <2>2. i # k /\ ~(i < k) /\ k \in Of("write")
    BY <1>2, <1>6, <2>1 DEF FirstWrites
  <2>3. i > k
    BY <1>0, <2>2
  <2> QED
    BY <1>2, <1>3, <1>5, <2>1, <2>2, <2>3
<1>7. Unrefused' => Unrefused
  BY Refusals
<1> QED
  BY <1>0, <1>1, <1>4, <1>6, <1>7 DEF InOrder

\* The row of a write follows those of the writes before it.
LEMMA InOrderWriteRecord ==
  ASSUME Base, FailuresSeen, InOrder, Next, WriteRecord
  PROVE  InOrder'
<1>0. /\ TypeOK /\ Stages /\ calls' = calls /\ FirstWrites' = FirstWrites
      /\ \A j : Key(j)' = Key(j)
      /\ \A t : Of(t)' = Of(t)
      /\ Of("write") \subseteq Indexes
      /\ \A j \in Indexes : j \in Nat \ {0} /\ Key(j) \in Keys
  BY StepFacts DEF FirstWrites
<1>1. /\ at \in Of("write") /\ ~HasRow(Key(at)) /\ ~BatchFailed /\ Looked
      /\ \A j \in Of("write") : j < at => out[j] # "none"
      /\ pc \in {"wrote", "not written"} /\ files' = files /\ at' = at
      /\ pc' = IF pc = "wrote" THEN "effects" ELSE "undo"
      /\ SetRow(at, IF pc = "wrote" THEN "completed" ELSE "failed")
  BY <1>0 DEF WriteRecord, Stages, Writing, Todo, Looked
<1>2. \A j \in Indexes : rows'[Key(j)] = IF Key(j) = Key(at)
                                         THEN IF pc = "wrote" THEN "completed" ELSE "failed"
                                         ELSE rows[Key(j)]
  BY <1>0, <1>1 DEF SetRow, TypeOK
<1>3. PICK i \in Of("write") : i = at
  BY <1>1
<1>4. /\ i \in FirstWrites
      /\ \A j \in FirstWrites : j < i => rows[Key(j)] = "completed"
  BY <1>1, <1>3, NextWrite
<1>5. CASE pc = "not written"
  <2>1. ~Unrefused'
    BY <1>0, <1>1, <1>2, <1>5 DEF Unrefused
  <2> QED
    BY <1>1, <1>5, <2>1 DEF InOrder
<1>6. CASE pc = "wrote"
  <2>1. Unrefused' => Unrefused
    BY Refusals
  <2>2. \A j \in Indexes : rows[Key(j)] = "completed" => rows'[Key(j)] = "completed"
    BY <1>2, <1>6
  <2>3. files[calls[i].target] = calls[i].content
    BY <1>3, <1>6 DEF InOrder
  <2>4. ASSUME Unrefused, NEW k \in FirstWrites, rows'[Key(k)] = "completed"
        PROVE  /\ \A j \in FirstWrites : j < k => rows'[Key(j)] = "completed"
               /\ \/ files[calls[k].target] = calls[k].content
                  \/ \E j \in FirstWrites : j > k /\ calls[j].target = calls[k].target
    <3>1. k \in Indexes /\ FirstWrites \subseteq Indexes
      BY <1>0 DEF FirstWrites
    <3>2. CASE Key(k) = Key(i)
      <4>1. i <= k /\ k <= i
        BY <1>0, <1>4, <3>1, <3>2 DEF FirstWrites, First
      <4>2. k = i
        BY <1>0, <3>1, <4>1
      <4> QED
        BY <1>4, <2>2, <2>3, <3>1, <4>2
    <3>3. CASE Key(k) # Key(i)
      <4>1. rows[Key(k)] = "completed"
        BY <1>2, <1>3, <2>4, <3>1, <3>3
      <4>2. /\ \A j \in FirstWrites : j < k => rows[Key(j)] = "completed"
            /\ \/ files[calls[k].target] = calls[k].content
               \/ \E j \in FirstWrites : j > k /\ calls[j].target = calls[k].target
        BY <2>4, <4>1 DEF InOrder
      <4> QED
        BY <2>2, <3>1, <4>2
    <3> QED
      BY <3>2, <3>3
  <2> QED
    BY <1>0, <1>1, <1>6, <2>1, <2>4 DEF InOrder
<1> QED
  BY <1>1, <1>5, <1>6

\* Every step keeps the order of the writes.
LEMMA InOrderStep ==
  ASSUME Base, FailuresSeen, EffectsWait, InOrder, Next
  PROVE  InOrder'
<1> USE DEF table, volatile, history, vars
<1>0. /\ TypeOK /\ Stages /\ calls' = calls /\ Indexes' = Indexes
      /\ FirstWrites' = FirstWrites
      /\ \A j : Key(j)' = Key(j)
      /\ \A t : Of(t)' = Of(t) /\ Of(t) \subseteq Indexes
      /\ \A j \in Indexes : Key(j) \in Keys
      /\ \A i, j \in Indexes : \A t : Key(i) = Key(j) /\ i \in Of(t) => j \in Of(t)
      /\ Of("read") \cap Of("write") = {}
      /\ Of("write") \cap Of("email") = {}
  BY StepFacts DEF FirstWrites
<1>1. Unrefused' => Unrefused
  BY Refusals
<1>2. ASSUME UNCHANGED files, \A j \in Of("write") : rows'[Key(j)] = rows[Key(j)],
             pc' \notin {"undo", "wrote"} \/ UNCHANGED <<pc, at>>, pc' # "undo" \/ UNCHANGED rows
      PROVE  InOrder'
  <2>1. pc' = "undo" => ~Unrefused'
    BY <1>1, <1>2 DEF InOrder
  <2>2. pc' = "wrote" => files'[calls'[at'].target] = calls'[at'].content
    BY <1>0, <1>2 DEF InOrder
  <2>3. \A j \in FirstWrites : rows'[Key(j)] = rows[Key(j)]
    BY <1>2 DEF FirstWrites
  <2> QED
    BY <1>0, <1>1, <1>2, <2>1, <2>2, <2>3 DEF InOrder
<1>3. ASSUME NEW i \in Indexes, NEW status, SetRow(i, status)
      PROVE  /\ \A j \in Indexes : rows'[Key(j)] = IF Key(j) = Key(i) THEN status ELSE rows[Key(j)]
             /\ i \notin Of("write") => \A j \in Of("write") : rows'[Key(j)] = rows[Key(j)]
             /\ i \in Of("write") \cup Of("email") /\ status \in {"failed", "blocked"}
                  => ~Unrefused'
  <2>1. \A j \in Indexes : rows'[Key(j)] = IF Key(j) = Key(i) THEN status ELSE rows[Key(j)]
    BY <1>0, <1>3 DEF SetRow, TypeOK
  <2> QED
    BY <1>0, <2>1 DEF Unrefused
<1>4. ASSUME ~Unrefused', pc' # "wrote"
      PROVE  InOrder'
  BY <1>4 DEF InOrder
<1>5. CASE StartCall \/ LookUpRows \/ JoinReaders \/ UndoDone \/ Collect \/ RecordResult
             \/ BatchDone \/ Resume \/ Crash \/ Finished
  BY <1>2, <1>5 DEF StartCall, LookUpRows, JoinReaders, UndoDone, Collect, RecordResult,
     BatchDone, Resume, Crash, Finished
<1>6. ASSUME NEW i \in Indexes, CheckRow(i) \/ ReuseEffect(i)
      PROVE  InOrder'
  <2>1. UNCHANGED <<files, rows, pc, at>>
    BY <1>6 DEF CheckRow, ReuseEffect
  <2> QED
    BY <1>2, <2>1
<1>13. ASSUME NEW i \in Indexes, ReadBody(i)
       PROVE  InOrder'
  <2>1. pc' = "reads" /\ UNCHANGED rows /\ ~ReadersDone
    BY <1>0, <1>13 DEF ReadBody, Stages, ReadersDone
  <2>2. \A j \in FirstWrites : rows'[Key(j)] # "completed"
    BY <2>1 DEF EffectsWait, HasRow, FirstWrites
  <2> QED
    BY <1>0, <2>1, <2>2 DEF InOrder
<1>7. ASSUME NEW i \in Indexes, ReadRecord(i)
      PROVE  InOrder'
  <2>1. i \in Of("read") /\ UNCHANGED <<files, pc, at>> /\ pc # "undo"
    BY <1>0, <1>7 DEF ReadRecord, Stages, ReadersDone
  <2>2. \A j \in Of("write") : rows'[Key(j)] = rows[Key(j)]
    BY <1>0, <1>3, <1>7, <2>1 DEF ReadRecord
  <2> QED
    BY <1>2, <2>1, <2>2
<1>8. ASSUME NEW i \in Indexes, SkipEffect(i)
      PROVE  InOrder'
  <2>1. /\ UNCHANGED <<files, pc, at>> /\ pc = "effects"
        /\ i \in Of("write") \cup Of("email")
        /\ UNCHANGED rows \/ SetRow(i, "blocked")
    BY <1>8 DEF SkipEffect, Effect, NextEffect, Todo
  <2> QED
    BY <1>2, <1>3, <1>4, <2>1
<1>9. ASSUME NEW i \in Indexes, SendEmail(i)
      PROVE  InOrder'
  <2>1. i \notin Of("write") /\ SetRow(i, "completed") /\ UNCHANGED <<files, pc, at>> /\ pc = "effects"
    BY <1>0, <1>9 DEF SendEmail, Effect
  <2> QED
    BY <1>2, <1>3, <2>1
<1>10. ASSUME NEW i \in Indexes, RefuseEmail(i)
       PROVE  InOrder'
  <2>1. SetRow(i, "blocked") \/ SetRow(i, "failed")
    BY <1>10 DEF RefuseEmail
  <2>2. i \in Of("email") /\ pc' = "undo"
    BY <1>10 DEF RefuseEmail
  <2> QED
    BY <1>3, <1>4, <2>1, <2>2
<1>11. CASE UndoWrite
  BY <1>0, <1>4, <1>11 DEF UndoWrite, InOrder, Unrefused
<1>12. CASE MarkRolledBack
  <2>1. at \in Of("write") /\ at \in Indexes /\ SetRow(at, "failed") /\ pc' = "collect"
    BY <1>0, <1>12 DEF MarkRolledBack, MarkRow, TypeOK
  <2> QED
    BY <1>3, <1>4, <2>1
<1> QED
  BY <1>5, <1>6, <1>7, <1>8, <1>9, <1>10, <1>11, <1>12, <1>13, InOrderWriteBody,
     InOrderWriteRecord DEF Next, Main, Reader

\* The writes of a batch are completed in their order (the loop over writes of
\* runtime.py:554-579), whatever fails and however often the process dies.
THEOREM SpecInOrder == Spec => []InOrder
<1>1. Init => InOrder
  <2>1. Init => \A i \in Of("write") : Key(i) \in Keys /\ rows[Key(i)] = "absent"
    BY CallType DEF Init, Of
  <2> QED
    BY <2>1 DEF Init, InOrder, FirstWrites
<1>2. Base /\ FailuresSeen /\ InOrder /\ UNCHANGED vars => InOrder'
  BY DEF vars, table, volatile, history, InOrder, Unrefused, FirstWrites, First, Key,
         Indexes, Of
<1>3. Base /\ FailuresSeen /\ EffectsWait /\ InOrder /\ Next => InOrder'
  BY InOrderStep
<1> QED
  BY SpecBase, SpecFailuresSeen, SpecEffectsWait, <1>1, <1>2, <1>3, PTL DEF Spec

\* Where files can be put back, rolling the writes of a batch back is always
\* possible; what run_python did to the workspace is not undone.
THEOREM SpecReversible ==
  ASSUME "restore" \notin Faults
  PROVE  Spec => []Reversible
<1>1. Init => Reversible
  <2>1. Init => ~BatchFailed /\ DOMAIN preimages = {}
    BY DEF Init, BatchFailed, Blank
  <2>2. Init => \A p \in Paths : files[p] \in Allowed(p) /\ files[p] \in Written(p)
    BY DEF Init, Allowed, Written, Kept
  <2> QED
    BY <2>1, <2>2 DEF Init, Reversible
<1>2. Base /\ FailuresSeen /\ Sends /\ Reversible /\ UNCHANGED vars => Reversible'
  <2> SUFFICES ASSUME Reversible, UNCHANGED vars PROVE Reversible'
    OBVIOUS
  <2>1. UNCHANGED <<calls, files, preimages, out, pc, before, crashes>>
    BY DEF vars, table, volatile, history
  <2>2. \A p : Kept(p)' = Kept(p) /\ Written(p)' = Written(p)
    BY <2>1 DEF Kept, Written, PythonLeaves, Of, Indexes
  <2>3. \A p : Allowed(p)' = Allowed(p) /\ Covered(p)' = Covered(p)
    BY <2>1, <2>2 DEF Allowed, Covered
  <2>4. BatchFailed' = BatchFailed
    BY <2>1 DEF BatchFailed, Indexes
  <2> QED
    BY <2>1, <2>2, <2>3, <2>4 DEF Reversible
<1>3. Base /\ FailuresSeen /\ Sends /\ Reversible /\ Next => Reversible'
  BY ReversibleStep
<1> QED
  BY SpecBase, SpecFailuresSeen, SpecSends, <1>1, <1>2, <1>3, PTL DEF Spec

\* A batch that ends with a failure has put every file that it wrote back to what
\* it was or what a run_python of the batch made of it, but for what was cut short
\* and what a process that died had written; one that ends without has performed
\* every write in its order (_rollback_writes and the loop over writes).
THEOREM SpecAllOrNothing ==
  ASSUME "restore" \notin Faults
  PROVE  Spec => []AllOrNothing
<1>1. Base /\ FailuresSeen /\ Reversible /\ InOrder => AllOrNothing
  <2> SUFFICES ASSUME Base, FailuresSeen, Reversible, InOrder, pc = "done"
               PROVE  AllOrNothing
    BY DEF AllOrNothing
  <2>1. CASE BatchFailed
    <3>1. preimages = <<>>
      BY <2>1 DEF Reversible
    <3>2. \A p \in Paths : files[p] \in Allowed(p)
      BY <3>1 DEF Reversible, Covered
    <3>3. \A p \in Paths :
            \/ files[p] \in {before[p], "torn"} \cup PythonLeaves(p)
            \/ crashes > 0 /\ \E i \in Of("write") :
                 calls[i].target = p /\ calls[i].content = files[p]
      BY <3>2 DEF Allowed, Written, Kept
    <3> QED
      BY <2>1, <3>3 DEF AllOrNothing
  <2>2. CASE ~BatchFailed
    <3>1. \A i \in Indexes : rows[Key(i)] = "completed"
      BY <2>2 DEF Base, Stages, Looked, FailuresSeen, HasRow
    <3>2. Unrefused
      BY <3>1 DEF Unrefused, Of
    <3>3. ASSUME NEW i \in Of("write"), First(i)
          PROVE  \/ files[calls[i].target] = calls[i].content
                 \/ \E j \in Of("write") :
                      First(j) /\ j > i /\ calls[j].target = calls[i].target
      BY <3>1, <3>2, <3>3 DEF InOrder, FirstWrites, Of
    <3> QED
      BY <2>2, <3>3 DEF AllOrNothing
  <2> QED
    BY <2>1, <2>2
<1> QED
  BY SpecBase, SpecFailuresSeen, SpecInOrder, SpecReversible, <1>1, PTL

(***************************************************************************)
(* Results.                                                                *)
(***************************************************************************)

\* Writes that are or may still be put back.
Open(i) == i \in Held \cup restored

\* Repetitions of a write that is put back are put back with it.
Together ==
  /\ \A i, j \in Indexes :
       Open(i) /\ j < i /\ Key(j) = Key(i) => Open(j) \/ out[j] = "failed"
  /\ Looked /\ ~BatchFailed =>
       \A i \in Todo("write") : HasRow(Key(i)) =>
         \A j \in Indexes : Key(j) = Key(i) /\ out[j] # "none" => j \in Held
  /\ pc = "wrote" => at \in Held

\* Every step keeps the repetitions of a write together.
LEMMA TogetherStep ==
  ASSUME Base, FailuresSeen, Sends, Together, Next
  PROVE  Together'
<1> USE DEF table, volatile, history, vars, Looked
<1>0. /\ TypeOK /\ Stages /\ Indexes' = Indexes
      /\ \A j : Key(j)' = Key(j)
      /\ \A t : Of(t)' = Of(t) /\ Of(t) \subseteq Indexes
      /\ \A j \in Indexes : Key(j) \in Keys /\ j \in Nat \ {0}
      /\ \A i, j \in Indexes : \A t : Key(i) = Key(j) /\ i \in Of(t) => j \in Of(t)
      /\ Of("read") \cap Of("write") = {}
      /\ Of("write") \cap Of("email") = {}
  BY StepFacts
<1>1. /\ pc' # "down" => \A j \in Indexes : out[j] = "failed" => out'[j] = "failed"
      /\ pc' # "down" => (BatchFailed => BatchFailed')
  BY Monotone
<1>2. /\ UNCHANGED preimages => Held' = Held
      /\ preimages = <<>> => Held = {}
      /\ preimages' = <<>> => Held' = {}
      /\ \A i \in Of("write") :
           preimages' = Append(preimages, Preimage(i)) => Held' = Held \cup {i}
      /\ Held \subseteq Of("write")
  BY <1>0, HeldNext
<1>3. ASSUME UNCHANGED <<preimages, restored>>, pc' # "down",
             pc' # "wrote" \/ UNCHANGED <<pc, at>>,
             \/ BatchFailed' \/ ~Looked'
             \/ Looked /\ \A j \in Of("write") :
                            out'[j] = out[j] /\ rows'[Key(j)] = rows[Key(j)]
      PROVE  Together'
  <2>1. Held' = Held /\ \A i : Open(i)' = Open(i)
    BY <1>2, <1>3 DEF Open
  <2>2. Looked' /\ ~BatchFailed' => Looked /\ ~BatchFailed /\ Todo("write")' = Todo("write")
    BY <1>0, <1>1, <1>3 DEF Todo
  <2>3. ASSUME Looked', ~BatchFailed', NEW i \in Todo("write")', HasRow(Key(i))',
               NEW j \in Indexes, Key(j) = Key(i), out'[j] # "none"
        PROVE  j \in Held
    <3>1. i \in Of("write") /\ j \in Of("write")
      BY <1>0, <2>3 DEF Todo
    <3>2. i \in Todo("write") /\ HasRow(Key(i)) /\ out[j] # "none"
      BY <1>0, <1>3, <2>2, <2>3, <3>1 DEF HasRow
    <3> QED
      BY <2>2, <2>3, <3>2 DEF Together
  <2>4. \A i, j \in Indexes : Open(i) /\ j < i /\ Key(j) = Key(i) => Open(j) \/ out'[j] = "failed"
    BY <1>1, <1>3 DEF Together
  <2>5. pc' = "wrote" => at' \in Held
    BY <1>3 DEF Together
  <2> QED
    BY <1>0, <2>1, <2>3, <2>4, <2>5 DEF Together
<1>4. CASE StartCall \/ JoinReaders \/ UndoDone \/ Collect \/ RecordResult \/ BatchDone
             \/ Resume \/ Finished
  BY <1>3, <1>4 DEF StartCall, JoinReaders, UndoDone, Collect, RecordResult, BatchDone,
     Resume, Finished
<1>5. CASE LookUpRows \/ Crash
  <2>1. Held' = {} /\ restored' = {} /\ pc' \in {"reads", "down"}
    BY <1>0, <1>2, <1>5 DEF LookUpRows, Crash, Stages
  <2>2. \A i : ~Open(i)'
    BY <2>1 DEF Open
  <2>3. Looked' => \A i \in Todo("write")' : ~HasRow(Key(i))'
    <3>1. Crash => ~Looked'
      BY DEF Crash
    <3>2. LookUpRows => \A i \in Todo("write")' : ~HasRow(Key(i))'
      BY <1>0 DEF LookUpRows, Todo, HasRow, Outcome
    <3> QED
      BY <1>5, <3>1, <3>2
  <2> QED
    BY <2>1, <2>2, <2>3 DEF Together
<1>6. ASSUME NEW i \in Indexes, Reader(i)
      PROVE  Together'
  <2>1. i \in Of("read") /\ UNCHANGED <<preimages, restored, pc, at>> /\ pc = "reads"
    BY <1>0, <1>6 DEF Reader, CheckRow, ReadBody, ReadRecord, Stages, ReadersDone
  <2>2. \A j \in Of("write") : j # i /\ Key(j) # Key(i)
    BY <1>0, <2>1
  <2>3. /\ UNCHANGED rows \/ \E status : SetRow(i, status)
        /\ UNCHANGED out \/ \E outcome : Settle(i, outcome)
    BY <1>6 DEF Reader, CheckRow, ReadBody, ReadRecord
  <2>4. \A j \in Of("write") : out'[j] = out[j] /\ rows'[Key(j)] = rows[Key(j)]
    BY <1>0, <2>2, <2>3 DEF SetRow, Settle, TypeOK
  <2> QED
    BY <1>3, <2>1, <2>4
<1>7. ASSUME NEW i \in Indexes, SkipEffect(i)
      PROVE  Together'
  BY <1>1, <1>3, <1>7 DEF SkipEffect, Skips, Effect
<1>8. ASSUME NEW i \in Indexes, SendEmail(i) \/ (ReuseEffect(i) /\ i \notin Of("write"))
      PROVE  Together'
  <2>1. i \notin Of("write") /\ UNCHANGED <<preimages, restored, pc, at>> /\ pc = "effects"
    BY <1>0, <1>8 DEF SendEmail, ReuseEffect, Effect, Of
  <2>2. \A j \in Of("write") : j # i /\ Key(j) # Key(i)
    BY <1>0, <2>1
  <2>3. /\ UNCHANGED rows \/ \E status : SetRow(i, status)
        /\ \E outcome : Settle(i, outcome)
    BY <1>8 DEF SendEmail, ReuseEffect
  <2>4. \A j \in Of("write") : out'[j] = out[j] /\ rows'[Key(j)] = rows[Key(j)]
    BY <1>0, <2>2, <2>3 DEF SetRow, Settle, TypeOK
  <2> QED
    BY <1>3, <2>1, <2>4
<1>9. ASSUME NEW i \in Indexes, RefuseEmail(i)
      PROVE  Together'
  <2>1. out'[i] = "failed" /\ UNCHANGED <<preimages, restored>> /\ pc' = "undo"
    BY <1>0, <1>9 DEF RefuseEmail, Settle, TypeOK
  <2> QED
    BY <1>0, <1>3, <2>1 DEF BatchFailed
<1>10. ASSUME NEW i \in Indexes, WriteBody(i)
       PROVE  Together'
  <2>1. /\ i \in Of("write") /\ ~BatchFailed /\ ~HasRow(Key(i)) /\ pc = "effects"
        /\ UNCHANGED <<rows, out, restored>> /\ i \in Todo("write")
        /\ \A j \in Todo("write") : i <= j
    BY <1>10 DEF WriteBody, Effect, NextEffect, Skips, Todo
  <2>2. CASE UNCHANGED preimages /\ pc' = "not written"
    BY <1>3, <2>1, <2>2
  <2>3. CASE preimages' = Append(preimages, Preimage(i)) /\ pc' = "wrote"
    <3>1. Held' = Held \cup {i} /\ at' = i
      BY <1>2, <1>10, <2>1, <2>3 DEF WriteBody
    <3>2. \A j \in Indexes : Key(j) = Key(i) => i <= j
      BY <1>0, <2>1 DEF Todo, Stages
    <3>3. \A j \in Indexes : i <= j => ~(j < i)
      BY <1>0
    <3>4. \A k, j \in Indexes : Open(k)' /\ j < k /\ Key(j) = Key(k) => Open(j)' \/ out'[j] = "failed"
      BY <2>1, <3>1, <3>2, <3>3 DEF Open, Together
    <3>5. \A k \in Todo("write")' : HasRow(Key(k))' =>
            \A j \in Indexes : Key(j) = Key(k) /\ out'[j] # "none" => j \in Held'
      BY <1>0, <2>1, <3>1 DEF Todo, HasRow, Together
    <3> QED
      BY <1>0, <3>1, <3>4, <3>5 DEF Together
  <2> QED
    BY <1>10, <2>2, <2>3 DEF WriteBody
<1>11. ASSUME NEW i \in Of("write"), ReuseEffect(i)
       PROVE  Together'
  <2>1. /\ ~BatchFailed /\ HasRow(Key(i)) /\ pc = "effects" /\ i \in Todo("write")
        /\ \A j \in Todo("write") : i <= j
        /\ UNCHANGED <<rows, restored, pc>>
        /\ Settle(i, Outcome(Key(i))) /\ Held' = Held \cup {i}
    BY <1>2, <1>11 DEF ReuseEffect, Effect, NextEffect, Skips, Todo, Of
  <2>2. \A j \in Indexes : Key(j) = Key(i) /\ out[j] # "none" => j \in Held
    BY <2>1 DEF Together
  <2>3. \A j \in Indexes : j < i => ~(i <= j)
    BY <1>0
  <2>4. \A j \in Indexes : j < i /\ Key(j) = Key(i) => j \in Held
    BY <1>0, <2>1, <2>2, <2>3 DEF Todo
  <2>5. /\ \A j \in Indexes : j # i => out'[j] = out[j]
        /\ out'[i] # "none"
        /\ \A j \in Indexes : out[j] = "failed" => out'[j] = "failed"
    BY <1>0, <1>1, <2>1 DEF Settle, TypeOK, Outcome
  <2>6. \A k, j \in Indexes : Open(k)' /\ j < k /\ Key(j) = Key(k) => Open(j)' \/ out'[j] = "failed"
    BY <2>1, <2>4, <2>5 DEF Open, Together
  <2>7. \A k \in Todo("write")' : HasRow(Key(k))' =>
          \A j \in Indexes : Key(j) = Key(k) /\ out'[j] # "none" => j \in Held'
    <3>1. \A k \in Todo("write")' : k \in Todo("write")
      BY <1>0, <2>5 DEF Todo
    <3> QED
      BY <1>0, <2>1, <2>5, <3>1 DEF HasRow, Together
  <2> QED
    BY <1>0, <2>1, <2>6, <2>7 DEF Together
<1>12. CASE WriteRecord
  <2>1. PICK i \in Of("write") :
          /\ i = at /\ ~HasRow(Key(i)) /\ ~BatchFailed /\ i \in Todo("write")
          /\ UNCHANGED <<preimages, restored>>
          /\ SetRow(i, IF pc = "wrote" THEN "completed" ELSE "failed")
          /\ Settle(i, IF pc = "wrote" THEN "ok" ELSE "failed")
          /\ pc' = IF pc = "wrote" THEN "effects" ELSE "undo"
          /\ pc \in {"wrote", "not written"}
    BY <1>0, <1>12 DEF WriteRecord, Stages, Writing, Todo
  <2>2. CASE pc = "not written"
    <3>1. out'[i] = "failed"
      BY <1>0, <2>1, <2>2 DEF Settle, TypeOK
    <3> QED
      BY <1>0, <1>3, <2>1, <2>2, <3>1 DEF BatchFailed
  <2>3. CASE pc = "wrote"
    <3>1. Held' = Held /\ i \in Held /\ \A k : Open(k)' = Open(k)
      BY <1>2, <2>1, <2>3 DEF Together, Open
    <3>2. /\ \A j \in Indexes : j # i => out'[j] = out[j]
          /\ out'[i] # "none"
          /\ \A j \in Indexes : Key(j) # Key(i) => rows'[Key(j)] = rows[Key(j)]
      BY <1>0, <2>1, <2>3 DEF Settle, SetRow, TypeOK
    <3>3. ASSUME NEW k \in Todo("write")', HasRow(Key(k))',
                 NEW j \in Indexes, Key(j) = Key(k), out'[j] # "none"
          PROVE  j \in Held
      <4>1. k \in Todo("write")
        BY <1>0, <3>2, <3>3 DEF Todo
      <4>2. CASE Key(k) = Key(i)
        <5>1. j = i \/ out[j] # "none"
          BY <3>2, <3>3
        <5> QED
          BY <1>0, <2>1, <2>3, <3>1, <3>3, <4>2, <5>1 DEF Stages
      <4>3. CASE Key(k) # Key(i)
        <5>1. HasRow(Key(k)) /\ out[j] # "none"
          BY <1>0, <3>2, <3>3, <4>1, <4>3 DEF HasRow, Todo
        <5> QED
          BY <2>1, <2>3, <3>3, <4>1, <5>1 DEF Together
      <4> QED
        BY <4>2, <4>3
    <3>4. \A k, j \in Indexes : Open(k) /\ j < k /\ Key(j) = Key(k) => Open(j) \/ out'[j] = "failed"
      BY <1>1, <2>1, <2>3 DEF Together
    <3> QED
      BY <1>0, <2>1, <2>3, <3>1, <3>3, <3>4 DEF Together
  <2> QED
    BY <2>1, <2>2, <2>3
<1>13. CASE UndoWrite
  <2>1. pc' = "undo" /\ BatchFailed'
    BY <1>1, <1>13 DEF UndoWrite, Sends
  <2>2. PICK x \in Held : /\ Held = Held' \cup {x} /\ Held' \subseteq Held
                          /\ \/ restored' = restored \cup {x}
                             \/ restored' = restored /\ out' = [out EXCEPT ![x] = "failed"]
    <3>1. preimages \in Seq(Preimages)
      BY <1>0 DEF TypeOK
    <3> QED
      BY <1>13, <3>1, HeldStep DEF UndoWrite
  <2>3. \A j \in Indexes : /\ Open(j)' => Open(j)
                           /\ Open(j) => Open(j)' \/ out'[j] = "failed"
    BY <1>0, <2>2 DEF Open, TypeOK
  <2>4. \A j \in Indexes : out[j] = "failed" => out'[j] = "failed"
    BY <1>1, <2>1
  <2>5. \A k, j \in Indexes : Open(k)' /\ j < k /\ Key(j) = Key(k) => Open(j)' \/ out'[j] = "failed"
    BY <2>3, <2>4 DEF Together
  <2> QED
    BY <1>0, <2>1, <2>5 DEF Together
<1>14. CASE MarkRolledBack
  <2>1. /\ pc' = "collect" /\ Held' = Held /\ restored' = restored \ {at} /\ at \in Indexes
        /\ out'[at] = "failed"
    BY <1>0, <1>2, <1>14 DEF MarkRolledBack, Settle, TypeOK
  <2>2. \A j \in Indexes : /\ Open(j)' => Open(j)
                           /\ Open(j) => Open(j)' \/ out'[j] = "failed"
                           /\ out[j] = "failed" => out'[j] = "failed"
    BY <1>1, <2>1 DEF Open
  <2>3. \A k, j \in Indexes : Open(k)' /\ j < k /\ Key(j) = Key(k) => Open(j)' \/ out'[j] = "failed"
    BY <2>2 DEF Together
  <2>4. BatchFailed'
    BY <1>0, <2>1 DEF BatchFailed
  <2> QED
    BY <1>0, <2>1, <2>3, <2>4 DEF Together
<1>15. ASSUME NEW i \in Indexes, ReuseEffect(i)
       PROVE  Together'
  BY <1>8, <1>11, <1>15
<1> QED
  BY <1>4, <1>5, <1>6, <1>7, <1>8, <1>9, <1>10, <1>12, <1>13, <1>14, <1>15 DEF Next, Main

Working == pc \in {"reads", "effects", "wrote", "not written", "undo"}

\* Only a call with a row has been answered; a write of this process has not been
\* before the results are collected.
Answers ==
  /\ \A i \in Indexes : results[i] # None => HasRow(Key(i))
  /\ Working =>
       \A i \in Of("write") : out[i] = "none" \/ Open(i) =>
         \A j \in Indexes : Key(j) = Key(i) => results[j] = None
  /\ pc = "collect" =>
       \A i \in restored :
         /\ at <= i
         /\ \A j \in Indexes : Key(j) = Key(i) /\ results[j] # None => j < at

\* Every step keeps the place of the results.
LEMMA AnswersStep ==
  ASSUME Base, Answers, Next
  PROVE  Answers'
<1> USE DEF table, volatile, history, vars, Looked
<1>0. /\ TypeOK /\ Stages /\ Indexes' = Indexes
      /\ \A j : Key(j)' = Key(j)
      /\ \A t : Of(t)' = Of(t) /\ Of(t) \subseteq Indexes
      /\ \A j \in Indexes : Key(j) \in Keys /\ j \in Nat \ {0}
      /\ \A i, j \in Indexes : \A t : Key(i) = Key(j) /\ i \in Of(t) => j \in Of(t)
  BY StepFacts
<1>1. /\ UNCHANGED preimages => Held' = Held
      /\ preimages = <<>> => Held = {}
      /\ preimages' = <<>> => Held' = {}
      /\ \A i \in Of("write") :
           preimages' = Append(preimages, Preimage(i)) => Held' = Held \cup {i}
      /\ Held \subseteq Of("write")
  BY <1>0, HeldNext
<1>2. ASSUME UNCHANGED results
      PROVE  \A i \in Indexes : results'[i] # None => HasRow(Key(i))'
  BY <1>0, <1>2, Monotone DEF HasRow, Answers
<1>3. ASSUME UNCHANGED results, pc' # "collect" \/ UNCHANGED <<pc, at, restored>>,
             \/ pc' \in {"start", "done", "down"}
             \/ UNCHANGED <<pc, preimages, restored, out>>
             \/ /\ Working
                /\ \A i \in Of("write") : out'[i] = "none" \/ Open(i)' => out[i] = "none" \/ Open(i)
      PROVE  Answers'
  <2>1. CASE pc' = "collect"
    BY <1>0, <1>2, <1>3, <2>1 DEF Answers, Working
  <2>2. CASE pc' # "collect"
    <3>1. CASE pc' \in {"start", "done", "down"}
      BY <1>0, <1>2, <1>3, <3>1 DEF Answers, Working
    <3>2. CASE UNCHANGED <<pc, preimages, restored, out>>
      BY <1>0, <1>1, <1>2, <1>3, <2>2, <3>2 DEF Answers, Working, Open
    <3>3. CASE /\ Working
               /\ \A i \in Of("write") : out'[i] = "none" \/ Open(i)' => out[i] = "none" \/ Open(i)
      <4>1. \A i \in Of("write") : out'[i] = "none" \/ Open(i)' =>
              \A j \in Indexes : Key(j) = Key(i) => results[j] = None
        BY <3>3 DEF Answers
      <4> QED
        BY <1>0, <1>2, <1>3, <2>2, <4>1 DEF Answers
    <3> QED
      BY <1>3, <3>1, <3>2, <3>3
  <2> QED
    BY <2>1, <2>2
<1>4. CASE StartCall \/ BatchDone \/ Resume \/ Crash \/ Finished
  BY <1>3, <1>4 DEF StartCall, BatchDone, Resume, Crash, Finished
<1>5. CASE LookUpRows
  <2>1. Held' = {} /\ restored' = {} /\ pc' = "reads" /\ UNCHANGED <<rows, results>>
    BY <1>0, <1>1, <1>5 DEF LookUpRows, Stages
  <2>2. \A i \in Of("write") : out'[i] = "none" => ~HasRow(Key(i))
    BY <1>0, <1>5 DEF LookUpRows, Outcome
  <2>3. \A i \in Of("write") : out'[i] = "none" \/ Open(i)' =>
          \A j \in Indexes : Key(j) = Key(i) => results[j] = None
    BY <2>1, <2>2 DEF Answers, Open
  <2> QED
    BY <1>0, <1>2, <2>1, <2>3 DEF Answers
<1>6. ASSUME NEW i \in Indexes, NEW outcome \in {"ok", "failed"}, Settle(i, outcome)
      PROVE  \A j \in Indexes : out'[j] = "none" => out[j] = "none"
  BY <1>0, <1>6 DEF Settle, TypeOK
<1>7. \A k : Outcome(k) \in {"ok", "failed"}
  BY DEF Outcome
<1>8. CASE JoinReaders \/ UndoDone
  <2>1. Working /\ UNCHANGED <<results, preimages, restored, out>> /\ pc' = "effects"
    BY <1>8 DEF JoinReaders, UndoDone, Working
  <2>2. \A i : Open(i)' = Open(i)
    BY <1>1, <2>1 DEF Open
  <2> QED
    BY <1>3, <2>1, <2>2
<1>9. ASSUME NEW i \in Indexes, Reader(i)
      PROVE  Answers'
  <2>1. pc = "reads" /\ UNCHANGED <<results, preimages, restored, pc>>
    BY <1>0, <1>9 DEF Reader, CheckRow, ReadBody, ReadRecord, Stages, ReadersDone
  <2>2. \A j \in Indexes : out'[j] = "none" => out[j] = "none"
    BY <1>6, <1>7, <1>9 DEF Reader, CheckRow, ReadBody, ReadRecord
  <2>3. \A j : Open(j)' = Open(j)
    BY <1>1, <2>1 DEF Open
  <2> QED
    BY <1>0, <1>3, <2>1, <2>2, <2>3 DEF Working
<1>10. ASSUME NEW i \in Indexes,
              SkipEffect(i) \/ ReuseEffect(i) \/ WriteBody(i) \/ SendEmail(i) \/ RefuseEmail(i)
       PROVE  Answers'
  <2>1. /\ pc = "effects" /\ out[i] = "none" /\ UNCHANGED <<results, restored>>
        /\ pc' \in {"effects", "wrote", "not written", "undo"}
    BY <1>10 DEF SkipEffect, ReuseEffect, WriteBody, SendEmail, RefuseEmail, Effect,
                 NextEffect, Todo
  <2>2. \A j \in Indexes : out'[j] = "none" => out[j] = "none"
    BY <1>6, <1>7, <1>10 DEF SkipEffect, ReuseEffect, WriteBody, SendEmail, RefuseEmail
  <2>3. Held' \subseteq Held \cup {i}
    <3>1. UNCHANGED preimages \/ (i \in Of("write") /\ preimages' = Append(preimages, Preimage(i)))
      BY <1>10 DEF SkipEffect, ReuseEffect, WriteBody, SendEmail, RefuseEmail, Of
    <3> QED
      BY <1>1, <3>1
  <2>4. \A j \in Of("write") : out'[j] = "none" \/ Open(j)' => out[j] = "none" \/ Open(j)
    BY <1>0, <2>1, <2>2, <2>3 DEF Open
  <2> QED
    BY <1>3, <2>1, <2>4 DEF Working
<1>11. CASE WriteRecord
  <2>1. /\ Working /\ UNCHANGED <<results, preimages, restored>> /\ pc' \in {"effects", "undo"}
        /\ at \in Indexes
    BY <1>0, <1>11 DEF WriteRecord, Working, Stages, Writing, Todo
  <2>2. \A j \in Indexes : out'[j] = "none" => out[j] = "none"
    BY <1>6, <1>11, <2>1 DEF WriteRecord
  <2>3. \A j : Open(j)' = Open(j)
    BY <1>1, <2>1 DEF Open
  <2> QED
    BY <1>0, <1>3, <2>1, <2>2, <2>3
<1>12. CASE UndoWrite
  <2>1. /\ Working /\ UNCHANGED results /\ pc' = "undo"
    BY <1>12 DEF UndoWrite, Working
  <2>2. PICK x \in Held : /\ Held = Held' \cup {x} /\ Held' \subseteq Held
                          /\ restored' \subseteq restored \cup {x}
    <3>1. preimages \in Seq(Preimages)
      BY <1>0 DEF TypeOK
    <3> QED
      BY <1>12, <3>1, HeldStep DEF UndoWrite
  <2>3. \A j \in Indexes : out'[j] = "none" => out[j] = "none"
    BY <1>0, <1>12 DEF UndoWrite, TypeOK
  <2>4. \A j : Open(j)' => Open(j)
    BY <2>2 DEF Open
  <2> QED
    BY <1>0, <1>3, <2>1, <2>3, <2>4
<1>13. CASE Collect
  <2>1. Working /\ UNCHANGED <<results, restored>> /\ pc' = "collect" /\ at' = 1
    BY <1>13 DEF Collect, Working
  <2>2. restored \subseteq Of("write")
    BY <1>0 DEF TypeOK
  <2>3. \A i \in restored : 1 <= i /\ \A j \in Indexes : Key(j) = Key(i) => results[j] = None
    BY <1>0, <2>1, <2>2 DEF Answers, Open
  <2> QED
    BY <1>0, <1>2, <2>1, <2>3 DEF Answers, Working
<1>14. CASE MarkRolledBack
  <2>1. UNCHANGED <<results, at>> /\ pc = "collect" /\ pc' = "collect" /\ restored' \subseteq restored
    BY <1>14 DEF MarkRolledBack
  <2> QED
    BY <1>0, <1>2, <2>1 DEF Answers, Working
<1>15. CASE RecordResult
  <2>1. PICK a \in Indexes : a = at
    BY <1>0, <1>15, AtCall DEF RecordResult, TypeOK
  <2>2. /\ pc = "collect" /\ pc' = "collect" /\ at' = a + 1 /\ a \notin restored
        /\ UNCHANGED <<rows, restored>>
        /\ \A j \in Indexes : j # a => results'[j] = results[j]
    BY <1>0, <1>15, <2>1 DEF RecordResult, TypeOK
  <2>3. HasRow(Key(a))
    BY <1>0, <2>2 DEF Stages
  <2>4. \A j \in Indexes : results'[j] # None => HasRow(Key(j))'
    BY <1>0, <2>2, <2>3 DEF Answers, HasRow
  <2>5. ASSUME NEW i \in restored
        PROVE  /\ a + 1 <= i
               /\ \A j \in Indexes : Key(j) = Key(i) /\ results'[j] # None => j < a + 1
    <3>1. /\ a <= i /\ i # a /\ i \in Indexes
          /\ \A j \in Indexes : Key(j) = Key(i) /\ results[j] # None => j < a
      BY <1>0, <2>1, <2>2 DEF Answers, TypeOK
    <3>2. a \in Nat /\ i \in Nat /\ \A j \in Indexes : j \in Nat
      BY <1>0, <3>1
    <3>3. a + 1 <= i
      BY <3>1, <3>2
    <3>4. \A j \in Indexes : j = a \/ j < a => j < a + 1
      BY <3>2
    <3> QED
      BY <2>2, <3>1, <3>3, <3>4
  <2> QED
    BY <1>0, <2>2, <2>4, <2>5 DEF Answers, Working
<1> QED
  BY <1>4, <1>5, <1>8, <1>9, <1>10, <1>11, <1>12, <1>13, <1>14, <1>15 DEF Next, Main

\* The outcome of a call agrees with its row, and so does the result.
Agreement ==
  /\ Looked =>
       \A i \in Indexes : out[i] # "none" /\ ~Twins(Key(i)) /\ i \notin restored =>
         \/ out[i] = "ok" <=> rows[Key(i)] = "completed"
         \/ Outdated(i) /\ out[i] = "ok"
  /\ ResultMatchesRow

\* Marking a write that was put back keeps the results true: those of its
\* repetitions that were recorded before are failures too.
LEMMA AgreementMark ==
  ASSUME Base, Sends, Reversible, Together, Answers, Agreement, Next, MarkRolledBack
  PROVE  Agreement'
<1>0. /\ TypeOK /\ Stages /\ Indexes' = Indexes
      /\ \A j : Key(j)' = Key(j) /\ Twins(Key(j))' = Twins(Key(j)) /\ First(j)' = First(j)
      /\ \A t : Of(t)' = Of(t) /\ Of(t) \subseteq Indexes
      /\ \A j \in Indexes : Key(j) \in Keys /\ j \in Nat \ {0}
      /\ \A i, j \in Indexes : \A t : Key(i) = Key(j) /\ i \in Of(t) => j \in Of(t)
  BY StepFacts
<1>1. PICK a \in Of("write") : a = at /\ a \in restored
  BY <1>0 DEF MarkRolledBack, TypeOK
<1>2. /\ pc = "collect" /\ pc' = "collect" /\ UNCHANGED <<results, preimages>>
      /\ restored' = restored \ {a}
      /\ SetRow(a, "failed") /\ Settle(a, "failed") /\ a \in Indexes
  BY <1>0, <1>1 DEF MarkRolledBack, MarkRow, table
<1>3. /\ \A j \in Indexes : rows'[Key(j)] = IF Key(j) = Key(a) THEN "failed" ELSE rows[Key(j)]
      /\ \A j \in Indexes : out'[j] = IF j = a THEN "failed" ELSE out[j]
  BY <1>0, <1>2 DEF SetRow, Settle, TypeOK
<1>4. \A j \in Indexes : Key(j) # Key(a) => Outdated(j)' = Outdated(j)
  BY <1>0, <1>3 DEF Outdated
<1>5. \A j \in Indexes : Key(j) = Key(a) => (Outdated(j)' <=> ~First(j))
  BY <1>0, <1>3 DEF Outdated
<1>6. Held = {}
  <2>1. preimages = <<>>
    BY <1>1, <1>2 DEF Sends, Reversible
  <2> QED
    BY <1>0, <2>1, HeldNext
<1>7. ASSUME NEW j \in Indexes, Key(j) = Key(a), j < a
      PROVE  out[j] = "failed" /\ j \notin restored
  <2>1. a <= j => ~(j < a)
    BY <1>0, <1>1
  <2>2. j \notin restored
    BY <1>1, <1>2, <1>7, <2>1 DEF Answers
  <2>3. out[j] = "failed"
    BY <1>1, <1>2, <1>6, <1>7, <2>2 DEF Together, Open
  <2> QED
    BY <2>2, <2>3
<1>8. ASSUME NEW j \in Indexes, Key(j) = Key(a), ~(j < a), j # a
      PROVE  ~First(j)
  <2>1. j <= a => j < a \/ j = a
    BY <1>0, <1>2
  <2> QED
    BY <1>2, <1>8, <2>1 DEF First
<1>9. ASSUME NEW j \in Indexes, out'[j] # "none", ~Twins(Key(j)), j \notin restored'
      PROVE  \/ out'[j] = "ok" <=> rows'[Key(j)] = "completed"
             \/ Outdated(j)' /\ out'[j] = "ok"
  <2>1. CASE Key(j) # Key(a)
    <3>1. out'[j] = out[j] /\ rows'[Key(j)] = rows[Key(j)] /\ j \notin restored
      BY <1>2, <1>3, <1>9, <2>1
    <3>2. Outdated(j)' = Outdated(j)
      BY <1>4, <2>1
    <3> QED
      BY <1>2, <1>9, <3>1, <3>2 DEF Agreement, Looked
  <2>2. CASE Key(j) = Key(a)
    <3>1. out'[j] \in {"ok", "failed"} /\ rows'[Key(j)] = "failed"
      BY <1>0, <1>3, <1>9, <2>2 DEF TypeOK
    <3>2. CASE j = a \/ j < a
      BY <1>3, <1>7, <2>2, <3>1, <3>2
    <3>3. CASE ~(j < a) /\ j # a
      <4>1. Outdated(j)'
        BY <1>5, <1>8, <2>2, <3>3
      <4> QED
        BY <3>1, <4>1
    <3> QED
      BY <3>2, <3>3
  <2> QED
    BY <2>1, <2>2
<1>10. ASSUME NEW j \in Indexes, results'[j] # None, ~Twins(Key(j))
       PROVE  (results'[j] <=> rows'[Key(j)] = "completed") \/ Outdated(j)'
  <2>1. results'[j] = results[j]
    BY <1>2
  <2>2. (results[j] <=> rows[Key(j)] = "completed") \/ Outdated(j)
    BY <1>10, <2>1 DEF Agreement, ResultMatchesRow
  <2>3. CASE Key(j) # Key(a)
    <3>1. rows'[Key(j)] = rows[Key(j)] /\ Outdated(j)' = Outdated(j)
      BY <1>3, <1>4, <2>3
    <3> QED
      BY <2>1, <2>2, <3>1
  <2>4. CASE Key(j) = Key(a)
    <3>1. j < a
      BY <1>1, <1>2, <1>10, <2>1, <2>4 DEF Answers
    <3>2. out[j] = "failed" /\ j \notin restored
      BY <1>7, <2>4, <3>1
    <3>3. ~(rows[Key(j)] = "completed")
      BY <1>2, <1>10, <3>2 DEF Agreement, Looked
    <3>4. rows'[Key(j)] = "failed"
      BY <1>3, <2>4
    <3>5. Outdated(j) => Outdated(j)'
      BY <1>5, <2>4 DEF Outdated
    <3>6. ~(rows'[Key(j)] = "completed")
      BY <3>4
    <3> QED
      BY <2>1, <2>2, <3>3, <3>5, <3>6
  <2> QED
    BY <2>3, <2>4
<1> QED
  BY <1>0, <1>9, <1>10 DEF Agreement, ResultMatchesRow

\* A result tells the outcome of its call.
LEMMA AgreementRecord ==
  ASSUME Base, Agreement, Next, RecordResult
  PROVE  Agreement'
<1>0. /\ TypeOK /\ Stages /\ Indexes' = Indexes /\ calls \in Batches
      /\ \A j : Key(j)' = Key(j) /\ Twins(Key(j))' = Twins(Key(j)) /\ First(j)' = First(j)
      /\ \A t : Of(t)' = Of(t)
  BY StepFacts
<1>1. PICK a \in Indexes : a = at
  BY <1>0, AtCall DEF RecordResult, TypeOK
<1>2. /\ pc = "collect" /\ UNCHANGED <<rows, out, restored>> /\ a \notin restored
      /\ UNCHANGED results \/ results' = [results EXCEPT ![a] = (out[a] = "ok")]
  BY <1>1 DEF RecordResult
<1>3. \A j : Outdated(j)' = Outdated(j)
  BY <1>0, <1>2 DEF Outdated
<1>4. ASSUME NEW j \in Indexes, results'[j] # None, ~Twins(Key(j))
      PROVE  (results'[j] <=> rows[Key(j)] = "completed") \/ Outdated(j)
  <2>1. CASE results'[j] = results[j]
    BY <1>4, <2>1 DEF Agreement, ResultMatchesRow
  <2>2. CASE results'[j] # results[j]
    <3>1. j = a /\ results'[j] = (out[j] = "ok")
      BY <1>0, <1>2, <2>2 DEF TypeOK
    <3>2. (out[j] = "ok" <=> rows[Key(j)] = "completed") \/ Outdated(j)
      BY <1>0, <1>2, <1>4, <3>1 DEF Agreement, Looked, Stages
    <3> QED
      BY <3>1, <3>2
  <2> QED
    BY <2>1, <2>2
<1> QED
  BY <1>0, <1>2, <1>3, <1>4 DEF Agreement, ResultMatchesRow, Looked, RecordResult

\* Every step keeps outcomes, rows and results in agreement.
LEMMA AgreementStep ==
  ASSUME Base, Claims, Sends, Reversible, Together, Answers, Agreement, Next,
         "restore" \notin Faults
  PROVE  Agreement'
<1> USE DEF table, volatile, history, vars, Looked
<1>0. /\ TypeOK /\ Stages /\ Indexes' = Indexes /\ calls \in Batches
      /\ \A j : Key(j)' = Key(j) /\ Twins(Key(j))' = Twins(Key(j)) /\ First(j)' = First(j)
      /\ \A t : Of(t)' = Of(t) /\ Of(t) \subseteq Indexes
      /\ \A j \in Indexes : Key(j) \in Keys /\ j \in Nat \ {0}
      /\ \A i, j \in Indexes : \A t : Key(i) = Key(j) /\ i \in Of(t) => j \in Of(t)
  BY StepFacts
<1>1. ASSUME UNCHANGED <<rows, results>>,
             Looked' => \A j \in Indexes : out'[j] # "none" /\ j \notin restored' =>
                          \/ Looked /\ out'[j] = out[j] /\ j \notin restored
                          \/ out'[j] = Outcome(Key(j))
      PROVE  Agreement'
  <2>1. \A j : Outdated(j)' = Outdated(j)
    BY <1>0, <1>1 DEF Outdated
  <2>2. \A k : Outcome(k) = "ok" <=> rows[k] = "completed"
    BY DEF Outcome
  <2>3. ASSUME Looked', NEW j \in Indexes, out'[j] # "none", ~Twins(Key(j)), j \notin restored'
        PROVE  \/ out'[j] = "ok" <=> rows[Key(j)] = "completed"
               \/ Outdated(j) /\ out'[j] = "ok"
    <3>1. CASE out'[j] = Outcome(Key(j))
      BY <2>2, <3>1
    <3>2. CASE Looked /\ out'[j] = out[j] /\ j \notin restored
      BY <2>3, <3>2 DEF Agreement
    <3> QED
      BY <1>1, <2>3, <3>1, <3>2
  <2> QED
    BY <1>0, <1>1, <2>1, <2>3 DEF Agreement, ResultMatchesRow
<1>2. CASE StartCall \/ JoinReaders \/ UndoDone \/ Collect \/ BatchDone \/ Resume
             \/ Crash \/ Finished
  <2>1. UNCHANGED <<rows, results>>
    BY <1>2 DEF StartCall, JoinReaders, UndoDone, Collect, BatchDone, Resume, Crash,
       Finished
  <2>2. ~Looked' \/ (Looked /\ UNCHANGED <<out, restored>>)
    BY <1>2 DEF StartCall, JoinReaders, UndoDone, Collect, BatchDone, Resume, Crash,
       Finished
  <2> QED
    BY <1>1, <2>1, <2>2
<1>3. CASE LookUpRows
  BY <1>0, <1>1, <1>3 DEF LookUpRows
<1>4. CASE UndoWrite
  <2>1. UNCHANGED <<rows, results, out>> /\ restored \subseteq restored' /\ Looked
    BY <1>4 DEF UndoWrite
  <2> QED
    BY <1>1, <2>1
<1>5. ASSUME NEW i \in Indexes, UNCHANGED <<rows, results, restored>>, Looked,
             UNCHANGED out \/ Settle(i, Outcome(Key(i)))
      PROVE  Agreement'
  <2>1. \A j \in Indexes : out'[j] = out[j] \/ out'[j] = Outcome(Key(j))
    BY <1>0, <1>5 DEF Settle, TypeOK
  <2> QED
    BY <1>1, <1>5, <2>1
<1>6. ASSUME NEW i \in Indexes, NEW status \in {"completed", "failed", "blocked"},
             SetRow(i, status), Settle(i, Verdict(status)),
             UNCHANGED <<results, restored>>, Looked,
             \A j \in Indexes : Key(j) = Key(i) /\ ~Twins(Key(j)) =>
                                  results[j] = None /\ (j = i \/ out[j] = "none")
      PROVE  Agreement'
  <2>1. /\ \A j \in Indexes : rows'[Key(j)] = IF Key(j) = Key(i) THEN status ELSE rows[Key(j)]
        /\ \A j \in Indexes : out'[j] = IF j = i THEN Verdict(status) ELSE out[j]
    BY <1>0, <1>6 DEF SetRow, Settle, TypeOK
  <2>2. \A j \in Indexes : Key(j) # Key(i) => Outdated(j)' = Outdated(j)
    BY <1>0, <2>1 DEF Outdated
  <2>3. ASSUME NEW j \in Indexes, out'[j] # "none", ~Twins(Key(j)), j \notin restored
        PROVE  \/ out'[j] = "ok" <=> rows'[Key(j)] = "completed"
               \/ Outdated(j)' /\ out'[j] = "ok"
    <3>1. CASE j = i
      BY <2>1, <3>1 DEF Verdict
    <3>2. CASE Key(j) # Key(i)
      <4>1. out'[j] = out[j] /\ rows'[Key(j)] = rows[Key(j)]
        BY <2>1, <3>2
      <4> QED
        BY <1>6, <2>2, <2>3, <3>2, <4>1 DEF Agreement
    <3>3. CASE j # i /\ Key(j) = Key(i)
      BY <1>6, <2>1, <2>3, <3>3
    <3> QED
      BY <3>1, <3>2, <3>3
  <2>4. ASSUME NEW j \in Indexes, results[j] # None, ~Twins(Key(j))
        PROVE  (results[j] <=> rows'[Key(j)] = "completed") \/ Outdated(j)'
    <3>1. Key(j) # Key(i)
      BY <1>6, <2>4
    <3>2. rows'[Key(j)] = rows[Key(j)] /\ Outdated(j)' = Outdated(j)
      BY <2>1, <2>2, <3>1
    <3>3. (results[j] <=> rows[Key(j)] = "completed") \/ Outdated(j)
      BY <2>4 DEF Agreement, ResultMatchesRow
    <3> QED
      BY <3>2, <3>3
  <2> QED
    BY <1>0, <1>6, <2>3, <2>4 DEF Agreement, ResultMatchesRow
<1>7. ASSUME NEW i \in Indexes, ~HasRow(Key(i)), Looked
      PROVE  \A j \in Indexes : Key(j) = Key(i) => results[j] = None /\ out[j] = "none"
  BY <1>0, <1>7 DEF Answers, Stages
<1>8. ASSUME NEW i \in Indexes, Reader(i)
      PROVE  Agreement'
  <2>1. Looked /\ i \in Of("read") /\ UNCHANGED <<results, restored>>
    BY <1>0, <1>8 DEF Reader, CheckRow, ReadBody, ReadRecord, Stages, ReadersDone
  <2>2. CASE CheckRow(i) \/ ReadBody(i)
    <3>1. UNCHANGED rows /\ (UNCHANGED out \/ Settle(i, Outcome(Key(i))))
      BY <2>2 DEF CheckRow, ReadBody
    <3> QED
      BY <1>5, <2>1, <3>1
  <2>3. CASE ReadRecord(i)
    <3>1. /\ worker[i] \in {"completed", "failed"}
          /\ SetRow(i, worker[i]) /\ Settle(i, Verdict(worker[i]))
      BY <2>3 DEF ReadRecord, Verdict
    <3>2. ~HasRow(Key(i)) \/ Twins(Key(i))
      BY <3>1 DEF Claims
    <3>3. \A j \in Indexes : Key(j) = Key(i) /\ ~Twins(Key(j)) =>
                               results[j] = None /\ (j = i \/ out[j] = "none")
      BY <1>7, <2>1, <3>2
    <3> QED
      BY <1>6, <2>1, <3>1, <3>3
  <2> QED
    BY <1>8, <2>2, <2>3 DEF Reader
<1>9. ASSUME NEW i \in Indexes, SkipEffect(i)
      PROVE  Agreement'
  <2>1. Looked /\ UNCHANGED <<results, restored>>
    BY <1>9 DEF SkipEffect, Effect
  <2>2. CASE HasRow(Key(i))
    BY <1>5, <1>9, <2>1, <2>2 DEF SkipEffect
  <2>3. CASE ~HasRow(Key(i))
    <3>1. SetRow(i, "blocked") /\ Settle(i, Verdict("blocked"))
      BY <1>9, <2>3 DEF SkipEffect, Verdict
    <3> QED
      BY <1>6, <1>7, <2>1, <2>3, <3>1
  <2> QED
    BY <2>2, <2>3
<1>10. ASSUME NEW i \in Indexes, ReuseEffect(i) \/ WriteBody(i)
       PROVE  Agreement'
  <2>1. Looked /\ UNCHANGED <<rows, results, restored>>
    BY <1>10 DEF ReuseEffect, WriteBody, Effect
  <2>2. UNCHANGED out \/ Settle(i, Outcome(Key(i)))
    BY <1>10 DEF ReuseEffect, WriteBody
  <2> QED
    BY <1>5, <2>1, <2>2
<1>11. ASSUME NEW i \in Indexes, SendEmail(i) \/ RefuseEmail(i)
       PROVE  Agreement'
  <2>1. Looked /\ UNCHANGED <<results, restored>> /\ ~HasRow(Key(i))
    BY <1>11 DEF SendEmail, RefuseEmail, Effect
  <2>2. \E status \in {"completed", "failed", "blocked"} :
          SetRow(i, status) /\ Settle(i, Verdict(status))
    BY <1>11 DEF SendEmail, RefuseEmail, Verdict
  <2> QED
    BY <1>6, <1>7, <2>1, <2>2
<1>12. CASE WriteRecord
  <2>1. PICK i \in Indexes :
          /\ i = at /\ ~HasRow(Key(i)) /\ Looked /\ UNCHANGED <<results, restored>>
          /\ SetRow(i, IF pc = "wrote" THEN "completed" ELSE "failed")
          /\ Settle(i, IF pc = "wrote" THEN "ok" ELSE "failed")
    BY <1>0, <1>12 DEF WriteRecord, Stages, Writing, Todo
  <2>2. \E status \in {"completed", "failed", "blocked"} :
          SetRow(i, status) /\ Settle(i, Verdict(status))
    BY <2>1 DEF Verdict
  <2> QED
    BY <1>6, <1>7, <2>1, <2>2
<1> QED
  BY <1>2, <1>3, <1>4, <1>8, <1>9, <1>10, <1>11, <1>12, AgreementMark, AgreementRecord
  DEF Next, Main

\* Where files can be put back, the result the model is shown agrees with the row a
\* retry reads, but for twins and for a write repeated in a batch that fails
\* (_record_tool_result, _rollback_writes and record_tool_rollback).
THEOREM SpecResultMatchesRow ==
  ASSUME "restore" \notin Faults
  PROVE  Spec => []ResultMatchesRow
<1> DEFINE Inv == Together /\ Answers /\ Agreement
<1>1. Init => Inv
  <2>1. Init => /\ \A i \in Indexes : results[i] = None
                /\ Held = {} /\ restored = {} /\ pc = "start"
    BY DEF Init, Held
  <2>2. Init => \A i : ~Open(i)
    BY <2>1 DEF Open
  <2> QED
    BY <2>1, <2>2 DEF Together, Answers, Working, Agreement, ResultMatchesRow, Looked
<1>2. Inv /\ UNCHANGED vars => Inv'
  <2> SUFFICES ASSUME Inv, UNCHANGED vars PROVE Inv'
    OBVIOUS
  <2> USE DEF vars, table, volatile, history
  <2>1. /\ Held' = Held /\ Indexes' = Indexes
        /\ \A t : Of(t)' = Of(t)
        /\ \A i : Key(i)' = Key(i)
    BY DEF Held, Indexes, Of, Key
  <2>2. /\ \A i : Open(i)' = Open(i) /\ First(i)' = First(i)
        /\ \A k : Twins(k)' = Twins(k) /\ HasRow(k)' = HasRow(k)
        /\ Todo("write")' = Todo("write") /\ BatchFailed' = BatchFailed
        /\ Looked' = Looked /\ Working' = Working
    BY <2>1 DEF Open, First, Twins, HasRow, Todo, BatchFailed, Looked, Working
  <2>3. \A i : Outdated(i)' = Outdated(i)
    BY <2>1, <2>2 DEF Outdated
  <2>4. Together'
    BY <2>1, <2>2 DEF Together
  <2>5. Answers'
    BY <2>1, <2>2 DEF Answers
  <2>6. Agreement'
    BY <2>1, <2>2, <2>3 DEF Agreement, ResultMatchesRow
  <2> QED
    BY <2>4, <2>5, <2>6
<1>3. Base /\ Claims /\ FailuresSeen /\ Sends /\ Reversible /\ Inv /\ Next => Inv'
  BY TogetherStep, AnswersStep, AgreementStep
<1>4. Inv => ResultMatchesRow
  BY DEF Agreement
<1> QED
  BY SpecBase, SpecClaims, SpecFailuresSeen, SpecSends, SpecReversible,
     <1>1, <1>2, <1>3, <1>4, PTL DEF Spec


(***************************************************************************)
(* The batch of the loop.  What cannot be put back is known only when      *)
(* rolling back, and the loop decides it in the step that fails: this      *)
(* holds where a file that was written can be put back.                    *)
(***************************************************************************)

\* A key of the batch is found under the key that the loop has for it.
LEMMA KeysMap ==
  ASSUME calls \in Batches
  PROVE  /\ \A k \in Keys : AsCall(k) \in AsKeys /\ FromKey(AsCall(k)) = k
         /\ \A j, k \in Keys : AsCall(j) = AsCall(k) => j = k
         /\ \A i \in Indexes : /\ Key(i) \in Keys
                               /\ AsCall(Key(i)) \in AsKeys
                               /\ FromKey(AsCall(Key(i))) = Key(i)
<1>1. ASSUME NEW c \in Call
      PROVE  /\ AsCall(KeyOf(c)) \in AsKeys
             /\ FromKey(AsCall(KeyOf(c))) = KeyOf(c)
  <2>1. /\ c.tool \in {"read", "write", "email"} /\ c.id \in Ids
        /\ c.target \in Paths \cup Emails /\ c.content \in Contents \cup {None}
        /\ c = [id |-> c.id, tool |-> c.tool, target |-> c.target, content |-> c.content]
    BY DEF Call
  <2>2. KeyOf(c) = [id |-> IF c.tool = "email" THEN None ELSE c.id, tool |-> c.tool,
                    target |-> c.target, content |-> c.content]
    BY <2>1 DEF KeyOf
  <2>3. AsCall(KeyOf(c)) = [id |-> IF c.tool = "email" THEN None ELSE c.id,
                            tool |-> c.tool, args |-> <<c.target, c.content>>]
    BY <2>2 DEF AsCall
  <2>4. <<c.target, c.content>> \in AsArgs
    BY <2>1 DEF AsArgs
  <2>5. AsCall(KeyOf(c)) \in AsKeys
    BY <2>1, <2>3, <2>4 DEF AsKeys
  <2>6. FromKey(AsCall(KeyOf(c))) = KeyOf(c)
    BY <2>2, <2>3 DEF FromKey
  <2> QED
    BY <2>5, <2>6
<1>2. \A k \in Keys : \E c \in Call : k = KeyOf(c)
  <2> SUFFICES ASSUME NEW b \in Batches, NEW i \in DOMAIN b
               PROVE  b[i] \in Call
    BY DEF Keys
  <2> QED
    BY BatchAssumption
<1>3. \A k \in Keys : AsCall(k) \in AsKeys /\ FromKey(AsCall(k)) = k
  BY <1>1, <1>2
<1>4. \A j, k \in Keys : AsCall(j) = AsCall(k) => j = k
  BY <1>3
<1> QED
  BY <1>3, <1>4, CallType

\* A call of the batch as the loop sees it.
LEMMA CallsMap ==
  ASSUME calls \in Batches, NEW i \in Indexes
  PROVE  /\ Loop!CallOf(i) = AsCall(calls[i])
         /\ Loop!CallOf(i).tool = calls[i].tool
         /\ Loop!CallOf(i).args = <<calls[i].target, calls[i].content>>
         /\ Loop!Key(i) = AsCall(Key(i))
         /\ AsRows[AsCall(Key(i))] = [status |-> rows[Key(i)], size |-> "fits"]
         /\ Loop!HasRow(AsCall(Key(i))) <=> HasRow(Key(i))
         /\ Loop!Outcome(AsCall(Key(i))) = Outcome(Key(i))
<1>1. Loop!step = 2
  BY DEF Loop!step, AsRun
<1>2. Loop!CallsAt(2) = [j \in Indexes |-> AsCall(calls[j])]
  BY DEF Loop!CallsAt, AsLog, AsResponses, AnswerOf, Indexes
<1>3. Loop!CallOf(i) = AsCall(calls[i])
  BY <1>1, <1>2 DEF Loop!CallOf
<1>4. /\ Loop!CallOf(i).tool = calls[i].tool
      /\ Loop!CallOf(i).args = <<calls[i].target, calls[i].content>>
  BY <1>3 DEF AsCall
<1>5. Loop!Key(i) = AsCall(Key(i))
  <2>1. calls[i] \in Call
    BY CallType
  <2>2. calls[i] = [id |-> calls[i].id, tool |-> calls[i].tool,
                    target |-> calls[i].target, content |-> calls[i].content]
    BY <2>1 DEF Call
  <2>3. Key(i) = [id |-> IF calls[i].tool = "email" THEN None ELSE calls[i].id,
                  tool |-> calls[i].tool,
                  target |-> calls[i].target, content |-> calls[i].content]
    BY <2>2 DEF Key, KeyOf
  <2>4. Loop!IdempotencyKey(AsCall(calls[i])) =
          [id |-> IF calls[i].tool = "email" THEN None ELSE calls[i].id,
           tool |-> calls[i].tool, args |-> <<calls[i].target, calls[i].content>>]
    BY DEF Loop!IdempotencyKey, AsCall
  <2> QED
    BY <1>3, <2>3, <2>4 DEF Loop!Key, AsCall
<1>6. AsRows[AsCall(Key(i))] = [status |-> rows[Key(i)], size |-> "fits"]
  BY KeysMap DEF AsRows
<1> QED
  BY <1>3, <1>4, <1>5, <1>6 DEF Loop!HasRow, Loop!Outcome, HasRow, Outcome

\* A row that is written is written in the loop's table.
LEMMA RowsMap ==
  ASSUME TypeOK, calls' = calls, NEW i \in Indexes, NEW status, SetRow(i, status)
  PROVE  AsRows' = [AsRows EXCEPT ![AsCall(Key(i))] = [status |-> status, size |-> "fits"]]
<1>0. calls \in Batches /\ rows \in [Keys -> {"absent", "completed", "failed", "blocked"}]
  BY DEF TypeOK
<1>1. rows' = [rows EXCEPT ![Key(i)] = status]
  BY DEF SetRow
<1>2. \A k \in AsKeys :
        AsRows'[k] = IF k = AsCall(Key(i)) THEN [status |-> status, size |-> "fits"]
                     ELSE AsRows[k]
  <2> SUFFICES ASSUME NEW k \in AsKeys
               PROVE  AsRows'[k] = IF k = AsCall(Key(i))
                                   THEN [status |-> status, size |-> "fits"] ELSE AsRows[k]
    OBVIOUS
  <2>1. CASE FromKey(k) = Key(i)
    <3>1. k = AsCall(Key(i))
      <4>1. /\ k = [id |-> k.id, tool |-> k.tool, args |-> k.args]
            /\ k.args = <<k.args[1], k.args[2]>>
        BY DEF AsKeys, AsArgs
      <4> QED
        BY <2>1, <4>1 DEF FromKey, AsCall
    <3> QED
      BY <1>0, <1>1, <2>1, <3>1, KeysMap DEF AsRows
  <2>2. CASE FromKey(k) # Key(i)
    <3>1. k # AsCall(Key(i))
      BY <1>0, <2>2, KeysMap
    <3> QED
      BY <1>0, <1>1, <2>2, <3>1, KeysMap DEF AsRows
  <2> QED
    BY <2>1, <2>2
<1> QED
  BY <1>2 DEF AsRows

\* What a step leaves alone, the loop sees unchanged.
LEMMA StaysMapped ==
  /\ UNCHANGED <<calls, started, results, tainted0>> => AsLog' = AsLog
  /\ UNCHANGED <<calls, results, tainted0>> => AsLog' = [AsLog EXCEPT !.starts = AsStarts']
  /\ UNCHANGED <<calls, started>> => AsLog' = [AsLog EXCEPT !.results = AsResults']
  /\ UNCHANGED rows => AsRows' = AsRows
  /\ UNCHANGED sent => {AsCall(k) : k \in sent}' = {AsCall(k) : k \in sent}
  /\ UNCHANGED calls /\ pc # "done" /\ pc' # "done" => AsRun' = AsRun
<1>4. UNCHANGED <<calls, started>> => AsStarts' = AsStarts
  BY DEF AsStarts, AsStart, Key
<1>5. UNCHANGED <<calls, results, tainted0>> => AsResults' = AsResults
  BY DEF AsResults, AsResult, EarlierResult, Key, Indexes
<1>6. UNCHANGED calls =>
        AsResponses' = AsResponses /\ Uncharged' = Uncharged /\ Unchecked' = Unchecked
  BY DEF AsResponses, AnswerOf, Uncharged, Unchecked
<1>7. UNCHANGED <<calls, results, tainted0>> => AsLog' = [AsLog EXCEPT !.starts = AsStarts']
  BY <1>5, <1>6 DEF AsLog
<1>8. UNCHANGED <<calls, started>> => AsLog' = [AsLog EXCEPT !.results = AsResults']
  BY <1>4, <1>6 DEF AsLog
<1>1. UNCHANGED <<calls, started, results, tainted0>> => AsLog' = AsLog
  BY <1>4, <1>5, <1>6 DEF AsLog
<1>2. UNCHANGED rows => AsRows' = AsRows
  BY DEF AsRows
<1>3. UNCHANGED calls /\ pc # "done" /\ pc' # "done" => AsRun' = AsRun
  BY DEF AsRun, Indexes
<1> QED
  BY <1>1, <1>2, <1>3, <1>7, <1>8

\* The batch that is executed, as the loop sees it.
LEMMA BatchMap ==
  ASSUME calls \in Batches, pc # "done"
  PROVE  /\ Loop!step = 2 /\ Loop!pending = Indexes
         /\ \A i \in Indexes : Loop!Index(i) = i
         /\ Loop!Ahead = {i \in Indexes : i >= AsIdx}
<1>1. Loop!step = 2 /\ Loop!pending = Indexes
  BY DEF Loop!step, Loop!pending, AsRun
<1>2. ASSUME NEW i \in Indexes
      PROVE  Loop!Index(i) = i
  <2>1. Len(calls) \in Nat /\ Indexes = 1 .. Len(calls)
    BY CallType
  <2>2. {j \in Indexes : j <= i} = 1 .. i
    BY <2>1
  <2>3. Cardinality(1 .. i) = i
    BY <2>1, FS_Interval
  <2>4. Loop!Cardinality(1 .. i) = Cardinality(1 .. i)
    BY DEF Loop!Cardinality, Cardinality
  <2> QED
    BY <1>1, <2>2, <2>3, <2>4 DEF Loop!Index
<1> QED
  BY <1>1, <1>2 DEF Loop!Ahead
\* While the batch is executed, the loop sees its calls, outcomes and writes.
LEMMA ExecutingMap ==
  ASSUME TypeOK, Executing
  PROVE  /\ AsPlace = "exec" /\ pc # "done" /\ Looked
         /\ AsBatch.out = out /\ AsBatch.fresh = fresh /\ AsBatch.restored = PutBack
         /\ \A classes : Loop!Todo(classes) =
              {i \in Indexes : out[i] = "none" /\ calls[i].tool \in classes}
         /\ Loop!BatchFailed <=> BatchFailed
         /\ fresh \subseteq Indexes =>
              Loop!Written = {i \in fresh : i \in Of("write") /\ out[i] = "ok"}
<1>1. calls \in Batches /\ pc # "done" /\ AsPlace = "exec" /\ Looked
  BY DEF TypeOK, Executing, AsPlace, Looked
<1>2. AsBatch.out = out /\ AsBatch.fresh = fresh /\ AsBatch.restored = PutBack
  BY DEF AsBatch
<1>3. Loop!pending = Indexes
  BY <1>1, BatchMap
<1>4. \A i \in Indexes : Loop!CallOf(i).tool = calls[i].tool
  BY <1>1, CallsMap
<1>5. \A classes : Loop!Todo(classes) =
        {i \in Indexes : out[i] = "none" /\ calls[i].tool \in classes}
  BY <1>2, <1>3, <1>4 DEF Loop!Todo
<1>6. Loop!BatchFailed <=> BatchFailed
  BY <1>2, <1>3 DEF Loop!BatchFailed, BatchFailed
<1>7. ASSUME fresh \subseteq Indexes
      PROVE  Loop!Written = {i \in fresh : i \in Of("write") /\ out[i] = "ok"}
  BY <1>2, <1>4, <1>7 DEF Loop!Written, Of
<1> QED
  BY <1>1, <1>2, <1>5, <1>6, <1>7

\* A step that executes a call leaves the events and the place alone.
LEMMA RunningMap ==
  ASSUME Executing, Executing', AsIdx' = AsIdx,
         UNCHANGED <<calls, started, results, tainted0, tainted, crashes>>
  PROVE  Loop!Running
<1>1. AsPlace = "exec" /\ AsPlace' = "exec" /\ pc # "done" /\ pc' # "done"
  BY DEF AsPlace, Executing
<1>2. AsLog' = AsLog /\ AsRun' = AsRun
  BY <1>1, StaysMapped
<1> QED
  BY <1>1, <1>2 DEF Loop!Running

\* A call that is settled is settled in the loop.
LEMMA SettleMap ==
  ASSUME Executing, Executing', UNCHANGED fresh, PutBack' = PutBack,
         NEW i, NEW outcome, Settle(i, outcome)
  PROVE  Loop!Settle(i, outcome)
BY DEF Settle, Loop!Settle, AsBatch

\* A step that nobody sees.
LEMMA Unseen ==
  ASSUME Executing, Executing', AsIdx' = AsIdx, PutBack' = PutBack,
         UNCHANGED <<calls, table, tainted0, tainted, crashes, out, fresh>>
  PROVE  UNCHANGED Loop!vars
<1>1. Loop!Running
  BY RunningMap DEF table
<1>2. AsRows' = AsRows /\ {AsCall(k) : k \in sent}' = {AsCall(k) : k \in sent}
  BY StaysMapped DEF table
<1>3. AsBatch' = AsBatch
  BY DEF AsBatch
<1> QED
  BY <1>1, <1>2, <1>3 DEF Loop!Running, Loop!vars

\* When nothing happens, the loop sees nothing happen.
LEMMA StutterMap ==
  ASSUME UNCHANGED <<vars, fresh>>
  PROVE  UNCHANGED Loop!vars
<1> USE DEF vars, table, volatile, history
<1>1. AsLog' = AsLog /\ AsRows' = AsRows /\ {AsCall(k) : k \in sent}' = {AsCall(k) : k \in sent}
  BY StaysMapped
<1>2. AsRun' = AsRun /\ AsPlace' = AsPlace /\ AsIdx' = AsIdx
  BY DEF AsRun, AsPlace, AsIdx, Executing, Indexes
<1>3. AsBatch' = AsBatch
  BY DEF AsBatch, PutBack, Held, Executing
<1> QED
  BY <1>1, <1>2, <1>3 DEF Loop!vars

\* The calls without a row at the look-up: they are what is still to be executed,
\* and, until something fails, the writes among them can be put back.
Fresh ==
  /\ fresh \subseteq Indexes
  /\ Looked => \A i \in Indexes : out[i] = "none" => i \in fresh
  /\ Held \subseteq fresh
  /\ pc \in {"reads", "effects", "wrote", "not written"} /\ ~BatchFailed =>
       \A i \in fresh \cap Of("write") : out[i] = "ok" => i \in Held
  /\ pc = "undo" => BatchFailed
  /\ pc = "wrote" => at \in Held

\* Every step preserves it.
LEMMA FreshStep ==
  ASSUME Base, Fresh, PhaseNext
  PROVE  Fresh'
<1> USE DEF table, volatile, history, vars
<1>0. /\ TypeOK /\ Stages /\ HeldSettled /\ Next /\ calls' = calls /\ Indexes' = Indexes
      /\ Stages' /\ Of("write")' = Of("write") /\ \A i : Key(i)' = Key(i)
      /\ \A t : Of(t) \subseteq Indexes /\ Of(t)' = Of(t)
      /\ Of("read") \cap Of("write") = {} /\ Of("write") \cap Of("email") = {}
  BY StepFacts DEF PhaseNext
<1>1. /\ UNCHANGED preimages => Held' = Held
      /\ preimages = <<>> => Held = {}
      /\ preimages' = <<>> => Held' = {}
      /\ \A i \in Of("write") :
           preimages' = Append(preimages, Preimage(i)) => Held' = Held \cup {i}
      /\ Held \subseteq Of("write")
  BY <1>0, HeldNext
<1>2. CASE LookUpRows
  <2>1. fresh' = {i \in Indexes : ~HasRow(Key(i))}
    BY <1>2 DEF PhaseNext, LooksUp, LookUpRows
  <2>2. Held' = {} /\ pc' = "reads"
    BY <1>0, <1>1, <1>2 DEF LookUpRows, Stages, Looked
  <2>3. \A i \in Indexes :
          out'[i] = IF HasRow(Key(i)) THEN Outcome(Key(i)) ELSE "none"
    BY <1>2 DEF LookUpRows
  <2>4. \A i \in Indexes : Outcome(Key(i)) # "none"
    BY DEF Outcome
  <2>5. \A i \in Indexes : i \in fresh' <=> out'[i] = "none"
    BY <2>1, <2>3, <2>4
  <2> QED
    BY <1>0, <2>1, <2>2, <2>5 DEF Fresh
<1>3. CASE ~LookUpRows
  <2>1. fresh' = fresh
    <3>1. ~LooksUp
      BY <1>0, <1>3 DEF LooksUp, Next, Main, Reader, StartCall, LookUpRows, CheckRow,
            ReadBody, ReadRecord, JoinReaders, SkipEffect, ReuseEffect, WriteBody,
            SendEmail, RefuseEmail, WriteRecord, UndoWrite, UndoDone, Collect,
            MarkRolledBack, RecordResult, BatchDone, Crash, Resume, Finished, Effect
    <3> QED
      BY <3>1 DEF PhaseNext
  <2>2. CASE StartCall \/ Crash \/ Resume
    BY <1>0, <1>1, <2>1, <2>2 DEF Fresh, StartCall, Crash, Resume, Stages, Looked
  <2>3. ASSUME UNCHANGED <<out, preimages>>, pc # "wrote" \/ UNCHANGED at,
               \/ pc' = pc \/ (pc = "reads" /\ pc' = "effects") \/ pc' = "collect"
               \/ (pc = "undo" /\ pc' = "effects") \/ pc' = "done"
        PROVE  Fresh'
    <3>1. Held' = Held /\ BatchFailed' = BatchFailed
      BY <1>0, <1>1, <2>3 DEF BatchFailed
    <3>2. pc' \notin {"collect", "done"} => Looked' = Looked
      BY <2>3 DEF Looked
    <3>3. pc' \in {"collect", "done"} => \A i \in Indexes : out'[i] # "none"
      BY <1>0 DEF Stages
    <3>4. Looked' => \A i \in Indexes : out'[i] = "none" => i \in fresh
      BY <2>3, <3>2, <3>3 DEF Fresh
    <3>5. /\ pc' \in {"reads", "effects", "wrote", "not written"} /\ ~BatchFailed =>
               \A i \in fresh \cap Of("write") : out[i] = "ok" => i \in Held
          /\ pc' = "undo" => BatchFailed
          /\ pc' = "wrote" => at' \in Held
      BY <2>3 DEF Fresh
    <3>6. fresh \subseteq Indexes /\ Held \subseteq fresh
      BY DEF Fresh
    <3>7. UNCHANGED <<out, fresh>>
      BY <2>1, <2>3
    <3> QED
      BY <1>0, <3>1, <3>4, <3>5, <3>6, <3>7 DEF Fresh
  <2>4. CASE JoinReaders \/ UndoDone \/ Collect \/ RecordResult \/ BatchDone \/ Finished
             \/ \E i \in Indexes : ReadBody(i)
    BY <1>0, <2>3, <2>4 DEF Stages, ReadersDone, JoinReaders, UndoDone, Collect, RecordResult, BatchDone, Finished, ReadBody
  <2>5. ASSUME NEW i \in Indexes, NEW outcome \in {"ok", "failed"}, Settle(i, outcome),
               out[i] = "none" \/ outcome = "failed", UNCHANGED preimages,
               i \notin Of("write") \/ BatchFailed \/ outcome = "failed", Looked,
               pc # "wrote",
               pc' = pc \/ (pc' = "undo" /\ outcome = "failed")
        PROVE  Fresh'
    <3>1. out' = [out EXCEPT ![i] = outcome] /\ out \in [Indexes -> {"none", "ok", "failed"}]
      BY <1>0, <2>5 DEF Settle, TypeOK
    <3>2. \A j \in Indexes : out'[j] = IF j = i THEN outcome ELSE out[j]
      BY <3>1
    <3>3. (pc = "undo" \/ BatchFailed) => BatchFailed'
      <4>1. CASE outcome = "failed"
        BY <1>0, <2>5, <3>2, <4>1 DEF BatchFailed
      <4>2. CASE outcome # "failed"
        <5>1. BatchFailed => \E j \in Indexes : out[j] = "failed" /\ j # i
          BY <2>5, <4>2 DEF BatchFailed
        <5> QED
          BY <1>0, <3>2, <5>1 DEF BatchFailed, Fresh
      <4> QED
        BY <4>1, <4>2
    <3>4. Held' = Held /\ Looked' /\ fresh' = fresh
      BY <1>1, <2>1, <2>5 DEF Looked
    <3>5. \A j \in Indexes : out'[j] = "none" => j \in fresh
      BY <2>5, <3>2 DEF Fresh
    <3>6. pc' \in {"reads", "effects", "wrote", "not written"} /\ ~BatchFailed' =>
            \A j \in fresh \cap Of("write") : out'[j] = "ok" => j \in Held
      <4> SUFFICES ASSUME pc' \in {"reads", "effects", "wrote", "not written"}, ~BatchFailed',
                          NEW j \in fresh \cap Of("write"), out'[j] = "ok"
                   PROVE  j \in Held
        OBVIOUS
      <4>1. ~BatchFailed /\ outcome # "failed"
        BY <1>0, <2>5, <3>2, <3>3 DEF BatchFailed
      <4>2. j # i /\ pc' = pc
        BY <2>5, <4>1
      <4> QED
        BY <1>0, <3>2, <4>1, <4>2 DEF Fresh
    <3>7. pc' = "undo" => BatchFailed'
      BY <1>0, <2>5, <3>2, <3>3 DEF BatchFailed
    <3>8. fresh \subseteq Indexes /\ Held \subseteq fresh /\ pc' # "wrote"
      BY <2>5 DEF Fresh
    <3> QED
      BY <1>0, <3>4, <3>5, <3>6, <3>7, <3>8 DEF Fresh
  <2>6. ASSUME NEW i \in Indexes, CheckRow(i)
        PROVE  Fresh'
    <3>1. pc' = pc /\ UNCHANGED <<preimages, at>>
      BY <2>6 DEF CheckRow
    <3>2. i \in Of("read") /\ out[i] = "none" /\ Looked /\ pc = "reads"
      BY <1>0, <2>6 DEF CheckRow, Stages, Looked, ReadersDone
    <3>3. UNCHANGED out \/ Settle(i, Outcome(Key(i)))
      BY <2>6 DEF CheckRow
    <3> QED
      BY <1>0, <2>3, <2>5, <3>1, <3>2, <3>3 DEF Outcome
  <2>7. ASSUME NEW i \in Indexes, ReadRecord(i)
        PROVE  Fresh'
    <3>1. i \in Of("read") /\ out[i] = "none" /\ Looked /\ pc = "reads"
      BY <1>0, <2>7 DEF ReadRecord, Stages, Looked, ReadersDone
    <3> QED
      BY <1>0, <2>5, <2>7, <3>1 DEF ReadRecord
  <2>8. ASSUME NEW i \in Indexes,
               SkipEffect(i) \/ SendEmail(i) \/ RefuseEmail(i)
        PROVE  Fresh'
    <3>1. /\ out[i] = "none" /\ Looked /\ Outcome(Key(i)) \in {"ok", "failed"}
          /\ pc = "effects"
      BY <2>8 DEF SkipEffect, SendEmail, RefuseEmail, Effect, NextEffect, Todo, Looked, Outcome
    <3> QED
      BY <1>0, <2>5, <2>8, <3>1 DEF SkipEffect, SendEmail, RefuseEmail, Skips
  <2>9. CASE MarkRolledBack
    <3>1. at \in Indexes /\ Looked
      BY <1>0, <2>9 DEF MarkRolledBack, TypeOK, Looked
    <3> QED
      BY <2>5, <2>9, <3>1 DEF MarkRolledBack
  <2>10. ASSUME NEW i \in Indexes, ReuseEffect(i)
         PROVE  Fresh'
    <3>1. /\ out[i] = "none" /\ Looked /\ Outcome(Key(i)) \in {"ok", "failed"}
          /\ Settle(i, Outcome(Key(i))) /\ pc' = pc /\ pc = "effects"
      BY <2>10 DEF ReuseEffect, Effect, NextEffect, Todo, Looked, Outcome
    <3>2. CASE i \notin Of("write")
      <4>1. UNCHANGED preimages
        BY <2>10, <3>2 DEF ReuseEffect, Of
      <4> QED
        BY <2>5, <3>1, <3>2, <4>1
    <3>3. CASE i \in Of("write")
      <4>1. preimages' = Append(preimages, Preimage(i))
        BY <2>10, <3>3 DEF ReuseEffect, Of
      <4>2. Held' = Held \cup {i} /\ i \in fresh /\ Looked'
        BY <1>1, <3>1, <3>3, <4>1 DEF Fresh, Looked
      <4>3. \A j \in Indexes : out'[j] = IF j = i THEN Outcome(Key(i)) ELSE out[j]
        BY <1>0, <3>1 DEF Settle, TypeOK
      <4>4. ~BatchFailed' => ~BatchFailed
        BY <1>0, <3>1, <4>3 DEF BatchFailed
      <4>5. \A j \in Indexes : out'[j] = "none" => j \in fresh
        BY <3>1, <4>3 DEF Fresh
      <4>6. ~BatchFailed' => \A j \in fresh \cap Of("write") : out'[j] = "ok" => j \in Held'
        BY <1>0, <3>1, <4>2, <4>3, <4>4 DEF Fresh
      <4>7. fresh \subseteq Indexes /\ Held' \subseteq fresh /\ pc' \notin {"undo", "wrote"}
        BY <3>1, <4>2 DEF Fresh
      <4> QED
        BY <1>0, <2>1, <4>5, <4>6, <4>7 DEF Fresh
    <3> QED
      BY <3>2, <3>3
  <2>11. ASSUME NEW i \in Indexes, WriteBody(i)
         PROVE  Fresh'
    <3>1. /\ i \in Of("write") /\ i \in fresh /\ UNCHANGED out
          /\ pc = "effects" /\ pc' \in {"wrote", "not written"} /\ ~BatchFailed
      BY <2>11 DEF WriteBody, Effect, NextEffect, Todo, Looked, Fresh, Skips
    <3>2. Held' \in {Held, Held \cup {i}} /\ (pc' = "wrote" => at' \in Held')
      BY <1>1, <2>11, <3>1 DEF WriteBody
    <3> QED
      BY <1>0, <2>1, <3>1, <3>2 DEF Fresh, Looked
  <2>12. CASE WriteRecord
    <3>1. /\ at \in Indexes /\ at \in Of("write") /\ out[at] = "none" /\ Looked /\ at \in fresh
          /\ UNCHANGED preimages
      BY <1>0, <2>12 DEF WriteRecord, Stages, Writing, Todo, Looked, Fresh
    <3>2. CASE pc = "not written"
      BY <2>5, <2>12, <3>1, <3>2 DEF WriteRecord
    <3>3. CASE pc = "wrote"
      <4>1. at \in Held /\ Held' = Held /\ pc' = "effects" /\ fresh' = fresh
        BY <1>1, <2>1, <2>12, <3>1, <3>3 DEF Fresh, WriteRecord
      <4>2. \A j \in Indexes : out'[j] = IF j = at THEN "ok" ELSE out[j]
        BY <1>0, <2>12, <3>3 DEF WriteRecord, Settle, TypeOK
      <4>3. ~BatchFailed
        BY <1>0, <3>3 DEF Stages, Writing
      <4>4. \A j \in Indexes : out'[j] = "none" => j \in fresh
        BY <3>1, <4>2 DEF Fresh
      <4>5. \A j \in fresh \cap Of("write") : out'[j] = "ok" => j \in Held
        BY <1>0, <3>3, <4>1, <4>2, <4>3 DEF Fresh
      <4>6. fresh \subseteq Indexes /\ Held \subseteq fresh
        BY DEF Fresh
      <4> QED
        BY <1>0, <4>1, <4>4, <4>5, <4>6 DEF Fresh
    <3> QED
      BY <2>12, <3>2, <3>3 DEF WriteRecord
  <2>13. CASE UndoWrite
    <3>1. pc = "undo" /\ pc' = "undo" /\ BatchFailed /\ Held' \subseteq Held
      <4>1. preimages \in Seq(Preimages)
        BY <1>0 DEF TypeOK
      <4> QED
        BY <2>13, <4>1, HeldStep DEF UndoWrite, Fresh
    <3>2. \A j \in Indexes : out'[j] \in {out[j], "failed"}
      <4>1. out \in [Indexes -> {"none", "ok", "failed"}]
        BY <1>0 DEF TypeOK
      <4> QED
        BY <2>13, <4>1 DEF UndoWrite
    <3>3. BatchFailed'
      BY <1>0, <3>1, <3>2 DEF BatchFailed
    <3> QED
      BY <1>0, <2>1, <3>1, <3>2, <3>3 DEF Fresh, Looked
  <2> QED
    BY <1>0, <1>3, <2>2, <2>4, <2>6, <2>7, <2>8, <2>9, <2>10, <2>11, <2>12, <2>13
       DEF Next, Main, Reader
<1> QED
  BY <1>2, <1>3

\* A step of the batch in full is one of the loop's batch, or none.
LEMMA LoopStep ==
  ASSUME "restore" \notin Faults, <<>> \notin Batches, Base, Fresh, PhaseNext
  PROVE  Loop!BatchStep \/ Loop!Crash \/ Loop!RestartBatch \/ UNCHANGED Loop!vars
<1> USE DEF table, volatile, history, vars
<1>0. /\ TypeOK /\ Stages /\ HeldSettled /\ Next /\ calls' = calls /\ Indexes' = Indexes
      /\ calls \in Batches
      /\ \A i : Key(i)' = Key(i)
      /\ \A t : Of(t) \subseteq Indexes
      /\ \A i \in Indexes : i \in Of("read") \/ i \in Of("write") \/ i \in Of("email")
      /\ Of("read") \cap Of("write") = {} /\ Of("read") \cap Of("email") = {}
      /\ Of("write") \cap Of("email") = {}
      /\ fresh \subseteq Indexes
  BY StepFacts DEF PhaseNext, Fresh
<1>1. /\ Len(calls) \in Nat /\ Indexes = 1 .. Len(calls) /\ at \in Nat \ {0}
      /\ CallLeft <=> at \in Indexes
  BY <1>0, CallType, AtCall DEF TypeOK
<1>2. \A i \in Indexes :
        /\ Loop!CallOf(i).tool = calls[i].tool
        /\ Loop!CallOf(i).args = <<calls[i].target, calls[i].content>>
        /\ Loop!Key(i) = AsCall(Key(i))
        /\ Loop!HasRow(AsCall(Key(i))) <=> HasRow(Key(i))
        /\ Loop!Outcome(AsCall(Key(i))) = Outcome(Key(i))
  BY <1>0, CallsMap
<1>3. pc # "done" => /\ Loop!step = 2 /\ Loop!pending = Indexes
                     /\ \A i \in Indexes : Loop!Index(i) = i
                     /\ Loop!Ahead = {i \in Indexes : i >= AsIdx}
  BY <1>0, BatchMap
<1>4. CASE StartCall
  <2>1. /\ pc = "start" /\ pc' = "start" /\ at \in Indexes /\ at' = at + 1 /\ AsIdx = at
        /\ started' = started \cup {at} /\ UNCHANGED <<calls, rows, sent, results, tainted,
                                                       tainted0, crashes>>
    BY <1>1, <1>4 DEF StartCall, AsIdx
  <2>2. /\ AsPlace = "start" /\ AsPlace' = "start" /\ AsIdx' = at + 1 /\ AsBatch' = AsBatch
    BY <2>1 DEF AsPlace, AsIdx, AsBatch, Executing
  <2>3. /\ AsRun' = AsRun /\ AsRows' = AsRows
        /\ {AsCall(k) : k \in sent}' = {AsCall(k) : k \in sent}
    BY <2>1, StaysMapped
  <2>4. AsLog' = [AsLog EXCEPT !.starts =
                    @ \cup {[step |-> 2, index |-> at, key |-> AsCall(Key(at))]}]
    <3>1. AsStarts' = AsStarts \cup {AsStart(at)}
      BY <1>0, <2>1 DEF AsStarts, AsStart
    <3>2. AsLog.starts = AsStarts
      BY DEF AsLog
    <3> QED
      BY <2>1, <3>1, <3>2, StaysMapped DEF AsStart
  <2>5. Loop!StartCall(at)
    <3>1. Loop!Ahead = {i \in Indexes : i >= at} /\ at \in Loop!Ahead
      BY <1>1, <1>3, <2>1
    <3>2. ~Loop!AllStarted /\ Loop!Reached(at)
      BY <1>1, <3>1 DEF Loop!AllStarted, Loop!Reached
    <3>3. Loop!step = 2 /\ Loop!Index(at) = at /\ Loop!Key(at) = AsCall(Key(at))
      BY <1>2, <1>3, <2>1
    <3> QED
      BY <2>1, <2>2, <2>3, <2>4, <3>2, <3>3 DEF Loop!StartCall
  <2> QED
    BY <1>3, <2>1, <2>5 DEF Loop!BatchStep
<1>5. CASE LookUpRows
  <2>1. /\ pc = "start" /\ pc' = "reads" /\ AsIdx = at /\ preimages = <<>> /\ restored = {}
        /\ UNCHANGED <<calls, rows, sent, started, results, tainted, tainted0, crashes,
                       preimages, restored>>
        /\ fresh' = {i \in Indexes : ~HasRow(Key(i))}
    BY <1>0, <1>5 DEF LookUpRows, AsIdx, Stages, Looked, PhaseNext, LooksUp
  <2>2. /\ AsPlace = "start" /\ AsPlace' = "exec" /\ AsIdx' = 1
    BY <2>1 DEF AsPlace, AsIdx, Executing
  <2>3. /\ AsRun' = AsRun /\ AsRows' = AsRows /\ AsLog' = AsLog
        /\ {AsCall(k) : k \in sent}' = {AsCall(k) : k \in sent}
    BY <2>1, StaysMapped
  <2>4. AsBatch' = [out |-> [i \in Indexes |->
                               IF HasRow(Key(i)) THEN Outcome(Key(i)) ELSE "none"],
                    fresh |-> {i \in Indexes : ~HasRow(Key(i))}, restored |-> {}]
    BY <1>5, <2>1 DEF AsBatch, Executing, PutBack, LookUpRows
  <2>5. Loop!AllStarted
    BY <1>1, <1>3, <1>5, <2>1 DEF Loop!AllStarted, LookUpRows
  <2>6. AsBatch' = [out      |-> [i \in Loop!pending |-> IF Loop!HasRow(Loop!Key(i))
                                     THEN Loop!Outcome(Loop!Key(i)) ELSE "none"],
                    fresh    |-> {i \in Loop!pending : ~Loop!HasRow(Loop!Key(i))},
                    restored |-> {}]
    BY <1>2, <1>3, <2>1, <2>4
  <2>7. Loop!LookUpRows
    BY <2>1, <2>2, <2>3, <2>5, <2>6 DEF Loop!LookUpRows, Loop!tables
  <2> QED
    BY <2>7 DEF Loop!BatchStep
<1>6. CASE Crash
  <2>1. /\ AsPlace # "down" /\ AsPlace' = "down" /\ AsIdx' = 1 /\ AsBatch' = Loop!NoBatch
    BY <1>0, <1>6 DEF Crash, AsPlace, AsIdx, AsBatch, Executing, Loop!NoBatch, TypeOK
  <2>2. /\ AsRun' = AsRun /\ AsRows' = AsRows /\ AsLog' = AsLog
        /\ {AsCall(k) : k \in sent}' = {AsCall(k) : k \in sent}
    BY <1>6, StaysMapped DEF Crash
  <2>3. Loop!Crash
    BY <1>6, <2>1, <2>2 DEF Crash, Loop!Crash, Loop!tables
  <2> QED
    BY <2>3
<1>7. CASE Resume
  <2>1. /\ AsPlace = "down" /\ AsPlace' = "start" /\ AsIdx' = 1 /\ AsBatch' = AsBatch
    BY <1>0, <1>7 DEF Resume, AsPlace, AsIdx, AsBatch, Executing, Stages
  <2>2. /\ AsRun' = AsRun /\ AsRows' = AsRows /\ AsLog' = AsLog
        /\ {AsCall(k) : k \in sent}' = {AsCall(k) : k \in sent}
    BY <1>7, StaysMapped DEF Resume
  <2>3. Loop!Unfinished /\ Loop!MemoryRebuilds
    BY <1>7 DEF Resume, Loop!Unfinished, Loop!MemoryRebuilds, AsRun, AsLog, AsResults, AsResult,
                EarlierResult
  <2>4. ~Loop!RecordedNoProgress /\ Loop!CostSoFar = 0
    BY DEF Loop!RecordedNoProgress, Loop!LatestCheck, Loop!CostSoFar, Loop!Steps, AsLog,
          Uncharged, Unchecked
  <2>5. Loop!RebuiltTaint <=> RebuiltTaint
    BY DEF Loop!RebuiltTaint, RebuiltTaint, AsLog, AsResults
  <2>6. Loop!pending # {}
    <3>1. calls # <<>>
      BY <1>0
    <3>2. Len(calls) # 0
      BY <1>0, <3>1, BatchAssumption, EmptySeq
    <3> QED
      BY <1>1, <1>3, <1>7, <3>2 DEF Resume
  <2>7. Loop!step < 3
    BY <1>3, <1>7 DEF Resume
  <2>8. Loop!RestartBatch
    BY <1>7, <2>1, <2>2, <2>3, <2>4, <2>5, <2>6, <2>7
       DEF Resume, Loop!RestartBatch, Loop!tables, Loop!RebuiltTaint, RebuiltTaint
  <2> QED
    BY <2>8
<1>8. ~LookUpRows => UNCHANGED fresh
  <2>1. LooksUp => LookUpRows
    BY <1>0 DEF LooksUp, Next, Main, Reader, StartCall, LookUpRows, CheckRow,
          ReadBody, ReadRecord, JoinReaders, SkipEffect, ReuseEffect, WriteBody,
          SendEmail, RefuseEmail, WriteRecord, UndoWrite, UndoDone, Collect,
          MarkRolledBack, RecordResult, BatchDone, Crash, Resume, Finished, Effect
  <2> QED
    BY <2>1 DEF PhaseNext
<1>9. Executing /\ pc # "reads" => \A i \in Of("read") : out[i] # "none"
  BY <1>0 DEF Executing, Stages, Looked, ReadersDone
<1>10. CASE JoinReaders \/ Collect \/ \E i \in Indexes : ReadBody(i)
  <2>1. UNCHANGED <<calls, table, tainted0, tainted, crashes, out, preimages, restored>>
    BY <1>10 DEF JoinReaders, Collect, ReadBody
  <2>2. /\ Executing /\ Executing' /\ AsIdx' = AsIdx /\ pc # "undo" /\ pc' # "undo"
    BY <1>0, <1>10 DEF Executing, AsIdx, JoinReaders, Collect, ReadBody, Stages, ReadersDone
  <2> QED
    BY <1>8, <1>10, <2>1, <2>2, Unseen DEF PutBack, LookUpRows, JoinReaders, Collect, ReadBody
<1>11. CASE \E i \in Indexes : WriteBody(i)
  <2>1. UNCHANGED <<calls, table, tainted0, tainted, crashes, out, restored>>
    BY <1>11 DEF WriteBody
  <2>2. /\ Executing /\ Executing' /\ AsIdx' = AsIdx /\ pc # "undo" /\ pc' # "undo"
    BY <1>11 DEF Executing, AsIdx, WriteBody, Effect
  <2> QED
    BY <1>8, <1>11, <2>1, <2>2, Unseen DEF PutBack, LookUpRows, WriteBody, Effect
<1>12. CASE UndoWrite
  <2>1. UNCHANGED <<calls, table, tainted0, tainted, crashes, out>>
    BY <1>12 DEF UndoWrite
  <2>2. /\ Executing /\ Executing' /\ AsIdx' = AsIdx /\ pc = "undo" /\ pc' = "undo"
    BY <1>12 DEF Executing, AsIdx, UndoWrite
  <2>3. /\ restored' = restored \cup {preimages[Len(preimages)].index}
        /\ preimages # <<>> /\ preimages' = PoppedPreimages /\ preimages \in Seq(Preimages)
    BY <1>0, <1>12 DEF UndoWrite, TypeOK
  <2>4. Held = Held' \cup {preimages[Len(preimages)].index}
    BY <2>3, HeldStep
  <2>5. PutBack' = PutBack
    BY <2>2, <2>3, <2>4 DEF PutBack
  <2> QED
    BY <1>8, <2>1, <2>2, <2>5, Unseen DEF LookUpRows
<1>13. CASE UndoDone
  <2>1. UNCHANGED <<calls, table, tainted0, tainted, crashes, out, restored>>
    BY <1>13 DEF UndoDone
  <2>2. /\ Executing /\ Executing' /\ AsIdx' = AsIdx /\ pc = "undo" /\ pc' = "effects"
    BY <1>13 DEF Executing, AsIdx, UndoDone
  <2>3. Held = {}
    BY <1>0, <1>13, HeldNext DEF UndoDone
  <2>4. PutBack' = PutBack
    BY <2>1, <2>2, <2>3 DEF PutBack
  <2> QED
    BY <1>8, <2>1, <2>2, <2>4, Unseen DEF LookUpRows
<1>14. CASE Finished
  <2>1. UNCHANGED <<vars, fresh>>
    BY <1>8, <1>14 DEF Finished, LookUpRows
  <2> QED
    BY <2>1, StutterMap
<1>15. CASE BatchDone
  <2>1. /\ pc = "collect" /\ pc' = "done" /\ ~CallLeft /\ Executing
        /\ UNCHANGED <<calls, table, tainted0, tainted, crashes>>
    BY <1>15 DEF BatchDone, Executing
  <2>2. /\ AsPlace = "exec" /\ AsPlace' = "top" /\ AsIdx' = 1 /\ AsIdx = at
        /\ AsBatch' = Loop!NoBatch
    BY <2>1 DEF AsPlace, AsIdx, AsBatch, Executing, Loop!NoBatch
  <2>3. AsLog' = AsLog /\ AsRows' = AsRows /\ {AsCall(k) : k \in sent}' = {AsCall(k) : k \in sent}
    BY <2>1, StaysMapped
  <2>4. AsRun' = [AsRun EXCEPT !.status = "CALLING_LLM", !.pending = {}]
    <3> DEFINE nothing == {}
    <3>1. AsRun = [status |-> "RUNNING_TOOLS", step |-> 2, reason |-> "none",
                   pending |-> Indexes]
      BY <2>1 DEF AsRun
    <3>2. AsRun' = [status |-> "CALLING_LLM", step |-> 2, reason |-> "none",
                    pending |-> nothing]
      BY <2>1 DEF AsRun
    <3> HIDE DEF nothing
    <3> DEFINE f == [AsRun EXCEPT !.status = "CALLING_LLM"]
    <3>3. f = [status |-> "CALLING_LLM", step |-> 2, reason |-> "none",
               pending |-> Indexes]
      BY <3>1
    <3> HIDE DEF f
    <3>4. [f EXCEPT !.pending = nothing] =
            [status |-> "CALLING_LLM", step |-> 2, reason |-> "none", pending |-> nothing]
      BY <3>3
    <3>5. [f EXCEPT !.pending = nothing] = AsRun'
      BY <3>2, <3>4, Zenon
    <3> QED
      BY <3>5, Zenon DEF nothing, f
  <2>5. Loop!Collecting
    BY <1>0, <2>1, <2>2, ExecutingMap DEF Loop!Collecting, Stages
  <2>6. Loop!Ahead = {}
    BY <1>1, <1>3, <2>1, <2>2
  <2>7. Loop!ToolsDone
    BY <2>1, <2>2, <2>3, <2>4, <2>5, <2>6 DEF Loop!ToolsDone
  <2> QED
    BY <2>7 DEF Loop!BatchStep
<1>16. ASSUME NEW i \in Indexes, CheckRow(i)
       PROVE  Loop!BatchStep \/ UNCHANGED Loop!vars
  <2>1. UNCHANGED <<calls, table, tainted0, tainted, crashes, preimages, restored, pc>>
    BY <1>16 DEF CheckRow
  <2>2. /\ pc = "reads" /\ i \in Of("read") /\ out[i] = "none"
    BY <1>0, <1>16 DEF CheckRow, Stages, ReadersDone
  <2>3. /\ Executing /\ Executing' /\ AsIdx' = AsIdx /\ PutBack' = PutBack /\ UNCHANGED fresh
    BY <1>8, <2>1, <2>2 DEF Executing, AsIdx, PutBack, LookUpRows
  <2>4. CASE ~HasRow(Key(i))
    BY <1>16, <2>1, <2>3, <2>4, Unseen DEF CheckRow
  <2>5. CASE HasRow(Key(i))
    <3>1. Loop!Running
      BY <2>1, <2>3, RunningMap
    <3>2. Loop!Settle(i, Outcome(Key(i)))
      BY <1>16, <2>3, <2>5, SettleMap DEF CheckRow
    <3>3. AsRows' = AsRows /\ {AsCall(k) : k \in sent}' = {AsCall(k) : k \in sent}
      BY <2>1, StaysMapped
    <3>4. Loop!Reuse(i)
      BY <1>2, <2>5, <3>2, <3>3 DEF Loop!Reuse
    <3>5. i \in Loop!Todo({"read"})
      BY <1>0, <2>2, <2>3, ExecutingMap DEF Of
    <3>6. Loop!RunRead(i)
      BY <3>1, <3>4, <3>5 DEF Loop!RunRead
    <3> QED
      BY <1>3, <2>2, <3>6 DEF Loop!BatchStep
  <2> QED
    BY <2>4, <2>5
<1>17. ASSUME NEW i \in Indexes, ReadRecord(i)
       PROVE  Loop!BatchStep
  <2>1. UNCHANGED <<calls, sent, started, results, tainted0, tainted, crashes, preimages,
                    restored, pc>>
    BY <1>17 DEF ReadRecord
  <2>2. pc = "reads" /\ i \in Of("read") /\ out[i] = "none"
    BY <1>0, <1>17 DEF ReadRecord, Stages, ReadersDone
  <2>3. /\ Executing /\ Executing' /\ AsIdx' = AsIdx /\ PutBack' = PutBack /\ UNCHANGED fresh
    BY <1>8, <2>1, <2>2 DEF Executing, AsIdx, PutBack, LookUpRows
  <2>4. Loop!Running
    BY <2>1, <2>3, RunningMap
  <2>5. i \in Loop!Todo({"read"})
    BY <1>0, <2>2, <2>3, ExecutingMap DEF Of
  <2>6. {AsCall(k) : k \in sent}' = {AsCall(k) : k \in sent}
    BY <2>1, StaysMapped
  <2>7. CASE worker[i] = "completed"
    <3>1. SetRow(i, "completed") /\ Settle(i, "ok")
      BY <1>17, <2>7 DEF ReadRecord
    <3>2. Loop!SetRow(Loop!Key(i), "completed", "fits") /\ Loop!Settle(i, "ok")
      BY <1>0, <1>2, <2>3, <3>1, RowsMap, SettleMap DEF Loop!SetRow
    <3>3. Loop!RunRead(i)
      BY <2>4, <2>5, <2>6, <3>2 DEF Loop!RunRead
    <3> QED
      BY <1>3, <2>2, <3>3 DEF Loop!BatchStep
  <2>8. CASE worker[i] = "failed"
    <3>1. SetRow(i, "failed") /\ Settle(i, "failed")
      BY <1>17, <2>8 DEF ReadRecord
    <3>2. Loop!SetRow(Loop!Key(i), "failed", "fits") /\ Loop!Settle(i, "failed")
      BY <1>0, <1>2, <2>3, <3>1, RowsMap, SettleMap DEF Loop!SetRow
    <3>3. Loop!RunRead(i)
      BY <2>4, <2>5, <2>6, <3>2 DEF Loop!RunRead
    <3> QED
      BY <1>3, <2>2, <3>3 DEF Loop!BatchStep
  <2> QED
    BY <1>17, <2>7, <2>8 DEF ReadRecord
<1>18. ASSUME NEW i \in Indexes, out[i] = "none", Executing,
              \/ i \in Of("write") /\ \A j \in Todo("write") : i <= j
              \/ /\ i \in Of("email") /\ Todo("write") = {}
                 /\ \A j \in Todo("email") : i <= j,
              pc # "reads"
       PROVE  /\ i \in Of("write") =>
                   Loop!Todo({"read"}) = {} /\ Loop!First(i, {"write"})
              /\ i \in Of("email") =>
                   Loop!Todo({"read", "write"}) = {} /\ Loop!First(i, {"email"})
  <2>1. /\ Loop!Todo({"read"}) = {j \in Indexes : out[j] = "none" /\ calls[j].tool \in {"read"}}
        /\ Loop!Todo({"write"}) = {j \in Indexes : out[j] = "none" /\ calls[j].tool \in {"write"}}
        /\ Loop!Todo({"email"}) = {j \in Indexes : out[j] = "none" /\ calls[j].tool \in {"email"}}
        /\ Loop!Todo({"read", "write"}) =
             {j \in Indexes : out[j] = "none" /\ calls[j].tool \in {"read", "write"}}
    BY <1>0, <1>18, ExecutingMap
  <2>2. Loop!Todo({"read"}) = {}
    BY <1>9, <1>18, <2>1 DEF Of
  <2>3. Loop!Todo({"write"}) = Todo("write") /\ Loop!Todo({"email"}) = Todo("email")
    BY <2>1 DEF Todo, Of
  <2>4. Todo("write") = {} => Loop!Todo({"read", "write"}) = {}
    BY <2>1, <2>2, <2>3
  <2>5. i \in Of("write") => i \in Todo("write") /\ \A j \in Todo("write") : i <= j
    BY <1>0, <1>18 DEF Todo
  <2>6. i \in Of("email") => /\ i \in Todo("email") /\ Todo("write") = {}
                             /\ \A j \in Todo("email") : i <= j
    BY <1>0, <1>18 DEF Todo
  <2> QED
    BY <2>2, <2>3, <2>4, <2>5, <2>6 DEF Loop!First
<1>19. ASSUME NEW i, Effect(i)
       PROVE  /\ i \in Indexes /\ pc = "effects" /\ Executing /\ out[i] = "none"
              /\ i \in Of("write") \/ i \in Of("email")
              /\ i \in Of("write") =>
                   Loop!Todo({"read"}) = {} /\ Loop!First(i, {"write"})
              /\ i \in Of("email") =>
                   Loop!Todo({"read", "write"}) = {} /\ Loop!First(i, {"email"})
  <2>1. pc = "effects" /\ Executing /\ NextEffect(i)
    BY <1>19 DEF Effect, Executing
  <2>2. \/ i \in Todo("write") /\ \A j \in Todo("write") : i <= j
        \/ i \in Todo("email") /\ Todo("write") = {} /\ \A j \in Todo("email") : i <= j
    BY <2>1 DEF NextEffect
  <2>3. i \in Indexes /\ out[i] = "none" /\ (i \in Of("write") \/ i \in Of("email"))
    BY <1>0, <2>2 DEF Todo
  <2> QED
    BY <1>18, <2>1, <2>2, <2>3 DEF Todo
<1>20. ASSUME NEW i, SkipEffect(i) \/ ReuseEffect(i)
       PROVE  Loop!BatchStep
  <2>1. /\ Effect(i) /\ pc = "effects" /\ pc' = "effects"
        /\ UNCHANGED <<calls, sent, started, results, tainted0, tainted, crashes, at,
                       restored>>
    BY <1>20 DEF SkipEffect, ReuseEffect, Effect
  <2>2. /\ Executing /\ Executing' /\ AsIdx' = AsIdx /\ PutBack' = PutBack /\ UNCHANGED fresh
    BY <1>8, <2>1 DEF Executing, AsIdx, PutBack, LookUpRows
  <2>3. Loop!Running /\ {AsCall(k) : k \in sent}' = {AsCall(k) : k \in sent}
    BY <2>1, <2>2, RunningMap, StaysMapped
  <2>4. i \in Indexes
    BY <1>19, <2>1
  <2>5. CASE HasRow(Key(i))
    <3>1. Settle(i, Outcome(Key(i))) /\ UNCHANGED rows
      BY <1>20, <2>5 DEF SkipEffect, ReuseEffect
    <3>2. Loop!Settle(i, Outcome(Key(i))) /\ AsRows' = AsRows
      BY <2>2, <3>1, SettleMap, StaysMapped
    <3>3. Loop!Reuse(i)
      BY <1>2, <2>3, <2>4, <2>5, <3>2 DEF Loop!Reuse
    <3> QED
      BY <1>3, <1>19, <2>1, <2>3, <2>4, <3>3 DEF Loop!BatchStep, Loop!RunWrite, Loop!RunEmail
  <2>6. CASE ~HasRow(Key(i))
    <3>1. BatchFailed /\ Settle(i, "failed") /\ SetRow(i, "blocked")
      BY <1>20, <2>6 DEF SkipEffect, ReuseEffect, Skips
    <3>2. Loop!Settle(i, "failed") /\ Loop!SetRow(Loop!Key(i), "blocked", "fits")
      BY <1>0, <1>2, <2>2, <2>4, <3>1, RowsMap, SettleMap DEF Loop!SetRow
    <3>3. Loop!Block(i)
      BY <1>2, <2>3, <2>4, <2>6, <3>2 DEF Loop!Block
    <3>4. Loop!BatchFailed
      BY <1>0, <2>2, <3>1, ExecutingMap
    <3> QED
      BY <1>3, <1>19, <2>1, <2>3, <2>4, <3>3, <3>4 DEF Loop!BatchStep, Loop!RunWrite, Loop!RunEmail
  <2> QED
    BY <2>5, <2>6
<1>21. ASSUME NEW i \in Indexes, Settle(i, "failed"), Executing, Executing',
              pc \in {"effects", "not written"}, pc' = "undo", ~BatchFailed,
              UNCHANGED <<preimages, restored, fresh>>
       PROVE  Loop!FailAndRollBack(i)
  <2>1. Loop!Written = Held
    <3>1. \A j \in Held : j \in fresh /\ j \in Of("write") /\ out[j] = "ok"
      <4>1. \A j \in Held : j \in fresh /\ j \in Of("write") /\ out[j] # "none"
        BY <1>0, <1>21, HeldNext DEF Fresh, HeldSettled
      <4>2. \A j \in Indexes : out[j] \in {"none", "ok"}
        BY <1>0, <1>21 DEF TypeOK, BatchFailed
      <4> QED
        BY <1>0, <4>1, <4>2
    <3>2. \A j \in fresh : j \in Of("write") /\ out[j] = "ok" => j \in Held
      BY <1>21 DEF Fresh
    <3> QED
      BY <1>0, <1>21, <3>1, <3>2, ExecutingMap
  <2>2. AsBatch = [out |-> out, fresh |-> fresh, restored |-> restored]
    BY <1>21 DEF AsBatch, PutBack
  <2>3. AsBatch' = [out |-> out', fresh |-> fresh, restored |-> restored \cup Held]
    BY <1>21 DEF AsBatch, PutBack, Held
  <2>4. out' = [j \in DOMAIN out |-> IF j = i THEN "failed" ELSE out[j]]
    BY <1>21 DEF Settle
  <2> DEFINE failed == [j \in DOMAIN AsBatch.out |->
                          IF j = i \/ j \in {} THEN "failed" ELSE AsBatch.out[j]]
  <2> DEFINE back == AsBatch.restored \cup (Loop!Written \ {})
  <2>5. failed = out' /\ back = restored \cup Held
    BY <2>1, <2>2, <2>4
  <2> HIDE DEF failed, back
  <2>6. AsBatch' = [AsBatch EXCEPT !.out = failed, !.restored = back]
    <3> DEFINE b == [AsBatch EXCEPT !.out = failed]
    <3>1. b = [out |-> failed, fresh |-> fresh, restored |-> restored]
      BY <2>2
    <3> HIDE DEF b
    <3>2. [b EXCEPT !.restored = back] = [out |-> failed, fresh |-> fresh, restored |-> back]
      BY <3>1
    <3> QED
      BY <2>3, <2>5, <3>2 DEF b
  <2> QED
    BY <2>6 DEF Loop!FailAndRollBack, failed, back
<1>22. \A i \in Of("email") : Loop!CallOf(i).args \in BadEmails \X {None} <=> ~Accepts(i)
  <2> SUFFICES ASSUME NEW i \in Of("email")
               PROVE  Loop!CallOf(i).args \in BadEmails \X {None} <=> ~Accepts(i)
    OBVIOUS
  <2>1. calls[i] \in Call /\ calls[i].tool = "email" /\ i \in Indexes
    BY <1>0, CallType DEF Of
  <2>2. calls[i].content = None
    BY <2>1 DEF Call
  <2>3. Loop!CallOf(i).args = <<calls[i].target, None>>
    BY <1>2, <2>1, <2>2
  <2>4. <<calls[i].target, None>> \in BadEmails \X {None} <=> calls[i].target \in BadEmails
    OBVIOUS
  <2> QED
    BY <2>3, <2>4, Zenon DEF Accepts
<1>23. ASSUME NEW i, SendEmail(i)
       PROVE  Loop!BatchStep
  <2>1. /\ Effect(i) /\ pc = "effects" /\ pc' = "effects" /\ i \in Of("email") /\ i \in Indexes
        /\ ~BatchFailed /\ ~HasRow(Key(i)) /\ ~tainted /\ Accepts(i)
        /\ sent' = sent \cup {Key(i)} /\ SetRow(i, "completed") /\ Settle(i, "ok")
        /\ UNCHANGED <<calls, started, results, tainted0, tainted, crashes, at, preimages,
                       restored>>
    BY <1>0, <1>23 DEF SendEmail, Effect, Skips
  <2>2. /\ Executing /\ Executing' /\ AsIdx' = AsIdx /\ PutBack' = PutBack /\ UNCHANGED fresh
    BY <1>8, <2>1 DEF Executing, AsIdx, PutBack, LookUpRows
  <2>3. Loop!Running
    BY <2>1, <2>2, RunningMap
  <2>4. {AsCall(k) : k \in sent}' = {AsCall(k) : k \in sent} \cup {Loop!Key(i)}
    BY <1>2, <2>1
  <2>5. Loop!Settle(i, "ok") /\ Loop!SetRow(Loop!Key(i), "completed", "fits")
    BY <1>0, <1>2, <2>1, <2>2, RowsMap, SettleMap DEF Loop!SetRow
  <2>6. ~Loop!BatchFailed /\ ~Loop!HasRow(Loop!Key(i))
    BY <1>0, <1>2, <2>1, <2>2, ExecutingMap
  <2>7. Loop!CallOf(i).args \notin BadEmails \X {None}
    BY <1>22, <2>1
  <2>8. Loop!RunEmail(i)
    BY <1>19, <2>1, <2>3, <2>4, <2>5, <2>6, <2>7 DEF Loop!RunEmail
  <2> QED
    BY <1>3, <2>1, <2>8 DEF Loop!BatchStep
<1>24. ASSUME NEW i, RefuseEmail(i)
       PROVE  Loop!BatchStep
  <2>1. /\ Effect(i) /\ pc = "effects" /\ pc' = "undo" /\ i \in Of("email") /\ i \in Indexes
        /\ ~BatchFailed /\ ~HasRow(Key(i)) /\ (tainted \/ ~Accepts(i))
        /\ SetRow(i, IF tainted THEN "blocked" ELSE "failed") /\ Settle(i, "failed")
        /\ UNCHANGED <<calls, sent, started, results, tainted0, tainted, crashes, at,
                       preimages, restored>>
    BY <1>0, <1>24 DEF RefuseEmail, Effect, Skips
  <2>2. /\ Executing /\ Executing' /\ AsIdx' = AsIdx /\ UNCHANGED fresh
    BY <1>8, <2>1 DEF Executing, AsIdx, LookUpRows
  <2>3. Loop!Running /\ {AsCall(k) : k \in sent}' = {AsCall(k) : k \in sent}
    BY <2>1, <2>2, RunningMap, StaysMapped
  <2>4. Loop!FailAndRollBack(i)
    BY <1>21, <2>1, <2>2
  <2>5. ~Loop!BatchFailed /\ ~Loop!HasRow(Loop!Key(i))
    BY <1>0, <1>2, <2>1, <2>2, ExecutingMap
  <2>6. Loop!RunEmail(i)
    <3>1. CASE tainted
      <4>1. Loop!SetRow(Loop!Key(i), "blocked", "fits")
        BY <1>0, <1>2, <2>1, <3>1, RowsMap DEF Loop!SetRow
      <4> QED
        BY <1>19, <2>1, <2>3, <2>4, <2>5, <3>1, <4>1 DEF Loop!RunEmail
    <3>2. CASE ~tainted
      <4>1. Loop!SetRow(Loop!Key(i), "failed", "fits")
        BY <1>0, <1>2, <2>1, <3>2, RowsMap DEF Loop!SetRow
      <4>2. Loop!CallOf(i).args \in BadEmails \X {None}
        BY <1>22, <2>1, <3>2
      <4> QED
        BY <1>19, <2>1, <2>3, <2>4, <2>5, <3>2, <4>1, <4>2 DEF Loop!RunEmail
    <3> QED
      BY <3>1, <3>2
  <2> QED
    BY <1>3, <2>1, <2>6 DEF Loop!BatchStep
<1>25. CASE WriteRecord
  <2>1. /\ Writing /\ at \in Of("write") /\ at \in Indexes /\ out[at] = "none"
        /\ ~HasRow(Key(at)) /\ ~BatchFailed
        /\ UNCHANGED <<calls, sent, started, results, tainted0, tainted, crashes, at,
                       preimages, restored>>
    BY <1>0, <1>25 DEF WriteRecord, Writing, Stages, Todo
  <2>2. /\ Executing /\ Executing' /\ AsIdx' = AsIdx /\ pc # "done" /\ pc # "reads"
        /\ UNCHANGED fresh
    BY <1>8, <1>25, <2>1 DEF WriteRecord, Executing, AsIdx, LookUpRows
  <2>3. Loop!Running /\ {AsCall(k) : k \in sent}' = {AsCall(k) : k \in sent}
    BY <2>1, <2>2, RunningMap, StaysMapped
  <2>4. \A j \in Todo("write") : at <= j
    <3>1. \A j \in Of("write") : j < at => out[j] # "none"
      BY <1>0, <2>1 DEF Stages
    <3> QED
      BY <1>0, <1>1, <2>1, <3>1 DEF Todo
  <2>5. Loop!Todo({"read"}) = {} /\ Loop!First(at, {"write"})
    BY <1>18, <2>1, <2>2, <2>4
  <2>6. ~Loop!BatchFailed /\ ~Loop!HasRow(Loop!Key(at))
    BY <1>0, <1>2, <2>1, <2>2, ExecutingMap
  <2>7. CASE pc = "wrote"
    <3>1. pc' = "effects" /\ SetRow(at, "completed") /\ Settle(at, "ok")
      BY <1>25, <2>7 DEF WriteRecord
    <3>2. PutBack' = PutBack
      BY <2>1, <2>7, <3>1 DEF PutBack
    <3>3. Loop!Settle(at, "ok") /\ Loop!SetRow(Loop!Key(at), "completed", "fits")
      BY <1>0, <1>2, <2>1, <2>2, <3>1, <3>2, RowsMap, SettleMap DEF Loop!SetRow
    <3>4. Loop!RunWrite(at)
      BY <2>3, <2>5, <2>6, <3>3 DEF Loop!RunWrite
    <3> QED
      BY <1>3, <2>1, <2>2, <3>4 DEF Loop!BatchStep
  <2>8. CASE pc = "not written"
    <3>1. pc' = "undo" /\ SetRow(at, "failed") /\ Settle(at, "failed")
      BY <1>25, <2>8 DEF WriteRecord
    <3>2. Loop!FailAndRollBack(at)
      BY <1>21, <2>1, <2>2, <2>8, <3>1
    <3>3. Loop!SetRow(Loop!Key(at), "failed", "fits")
      BY <1>0, <1>2, <2>1, <3>1, RowsMap DEF Loop!SetRow
    <3>4. Loop!RunWrite(at)
      BY <2>3, <2>5, <2>6, <3>2, <3>3 DEF Loop!RunWrite
    <3> QED
      BY <1>3, <2>1, <2>2, <3>4 DEF Loop!BatchStep
  <2> QED
    BY <2>1, <2>7, <2>8 DEF Writing
<1>26. pc = "collect" => Loop!Collecting
  BY <1>0, ExecutingMap DEF Loop!Collecting, Stages, Executing
<1>27. pc = "collect" /\ at \in Indexes => Loop!Reached(at)
  BY <1>1, <1>3 DEF Loop!Reached, AsIdx
<1>28. CASE MarkRolledBack
  <2>1. /\ pc = "collect" /\ pc' = "collect" /\ at \in restored /\ at \in Indexes
        /\ SetRow(at, "failed") /\ Settle(at, "failed") /\ restored' = restored \ {at}
        /\ UNCHANGED <<calls, sent, started, results, tainted0, tainted, crashes, at>>
    BY <1>0, <1>28 DEF MarkRolledBack, MarkRow, TypeOK
  <2>2. Executing /\ Executing' /\ AsIdx' = AsIdx /\ pc # "done" /\ UNCHANGED fresh
    BY <1>8, <2>1 DEF Executing, AsIdx, LookUpRows
  <2>3. Loop!Running /\ {AsCall(k) : k \in sent}' = {AsCall(k) : k \in sent}
    BY <2>1, <2>2, RunningMap, StaysMapped
  <2>4. AsRows' = [AsRows EXCEPT ![Loop!Key(at)] = [@ EXCEPT !.status = "failed"]]
    <3>1. AsRows' = [AsRows EXCEPT ![AsCall(Key(at))] = [status |-> "failed", size |-> "fits"]]
      BY <1>0, <2>1, RowsMap
    <3>2. AsRows[AsCall(Key(at))] = [status |-> rows[Key(at)], size |-> "fits"]
      BY <1>0, <2>1, CallsMap
    <3>3. [AsRows[AsCall(Key(at))] EXCEPT !.status = "failed"] =
            [status |-> "failed", size |-> "fits"]
      BY <3>2
    <3> QED
      BY <1>2, <2>1, <3>1, <3>3, Zenon
  <2>5. AsBatch' = [AsBatch EXCEPT !.out = [@ EXCEPT ![at] = "failed"],
                                   !.restored = @ \ {at}]
    <3>1. AsBatch = [out |-> out, fresh |-> fresh, restored |-> restored]
      BY <2>1, <2>2 DEF AsBatch, PutBack
    <3>2. AsBatch' = [out |-> out', fresh |-> fresh, restored |-> restored']
      BY <2>1, <2>2 DEF AsBatch, PutBack
    <3> DEFINE o == [AsBatch.out EXCEPT ![at] = "failed"]
    <3> DEFINE r == AsBatch.restored \ {at}
    <3> DEFINE b == [AsBatch EXCEPT !.out = o]
    <3>3. o = out' /\ r = restored'
      BY <2>1, <3>1 DEF Settle
    <3> HIDE DEF o, r
    <3>4. b = [out |-> o, fresh |-> fresh, restored |-> restored]
      BY <3>1
    <3> HIDE DEF b
    <3>5. [b EXCEPT !.restored = r] = [out |-> o, fresh |-> fresh, restored |-> r]
      BY <3>4
    <3>6. AsBatch' = [b EXCEPT !.restored = r]
      BY <3>2, <3>3, <3>5
    <3> QED
      BY <3>6 DEF b, o, r
  <2>6. at \in AsBatch.restored
    BY <2>1, <2>2 DEF AsBatch, PutBack
  <2>7. Loop!MarkRolledBack(at)
    BY <1>26, <1>27, <2>1, <2>3, <2>4, <2>5, <2>6 DEF Loop!MarkRolledBack, Loop!Running
  <2> QED
    BY <1>3, <2>1, <2>2, <2>7 DEF Loop!BatchStep
<1>29. CASE RecordResult
  <2>1. /\ pc = "collect" /\ pc' = "collect" /\ at \notin restored /\ at \in Indexes
        /\ at' = at + 1
        /\ UNCHANGED <<calls, rows, sent, started, out, preimages, restored, tainted0, crashes>>
    BY <1>1, <1>29 DEF RecordResult
  <2>2. Executing /\ Executing' /\ AsIdx = at /\ AsIdx' = at + 1 /\ pc # "done" /\ UNCHANGED fresh
    BY <1>8, <2>1 DEF Executing, AsIdx, LookUpRows
  <2>3. /\ AsPlace = "exec" /\ AsPlace' = "exec" /\ AsRun' = AsRun /\ AsRows' = AsRows
        /\ {AsCall(k) : k \in sent}' = {AsCall(k) : k \in sent} /\ AsBatch' = AsBatch
        /\ at \notin AsBatch.restored
    BY <2>1, <2>2, StaysMapped DEF AsPlace, AsBatch, PutBack
  <2>4. AsRows[Loop!Key(at)].size = "fits" /\ AsBatch.out = out
    <3>1. AsRows[AsCall(Key(at))] = [status |-> rows[Key(at)], size |-> "fits"]
      BY <1>0, <2>1, CallsMap
    <3>2. AsRows[AsCall(Key(at))].size = "fits"
      BY <3>1
    <3>3. AsBatch.out = out
      BY <2>2 DEF AsBatch
    <3>4. Loop!Key(at) = AsCall(Key(at))
      BY <1>2, <2>1
    <3> QED
      BY <3>2, <3>3, <3>4
  <2>5. Loop!ResultLogged(at) <=> ResultLogged(at)
    <3>1. \A j : /\ AsResult(j).key = AsCall(Key(j)) /\ AsResult(j).step = 2
                 /\ AsResult(j).index = j
      BY DEF AsResult
    <3>2. EarlierResult.key.tool = "read" /\ EarlierResult.step = 1
      BY DEF EarlierResult
    <3>3. AsCall(Key(at)).tool = calls[at].tool
      BY <1>0, <2>1, CallType DEF AsCall
    <3>4. AsLog.results = AsResults
      BY DEF AsLog
    <3>5. Loop!ResultLogged(at) <=>
            \E e \in AsResults : /\ e.key = AsCall(Key(at))
                                 /\ calls[at].tool = "email" \/ (e.step = 2 /\ e.index = at)
      BY <1>2, <1>3, <2>1, <2>2, <3>4 DEF Loop!ResultLogged
    <3>6. ASSUME NEW e \in AsResults, e.key = AsCall(Key(at)),
                 calls[at].tool = "email" \/ (e.step = 2 /\ e.index = at)
          PROVE  ResultLogged(at)
      <4>1. e # EarlierResult
        BY <3>2, <3>3, <3>6
      <4>2. PICK j \in Indexes : results[j] # None /\ e = AsResult(j)
        BY <4>1 DEF AsResults
      <4>3. Key(j) = Key(at)
        BY <1>0, <2>1, <3>1, <3>6, <4>2, KeysMap
      <4> QED
        BY <3>1, <3>6, <4>2, <4>3 DEF ResultLogged
    <3>7. ASSUME ResultLogged(at)
          PROVE  \E e \in AsResults :
                   /\ e.key = AsCall(Key(at))
                   /\ calls[at].tool = "email" \/ (e.step = 2 /\ e.index = at)
      <4>1. PICK j \in Indexes :
              /\ results[j] # None /\ Key(j) = Key(at)
              /\ j = at \/ calls[at].tool = "email"
        BY <2>1, <3>7 DEF ResultLogged
      <4>2. AsResult(j) \in AsResults
        BY <4>1 DEF AsResults
      <4> QED
        BY <3>1, <4>1, <4>2
    <3> QED
      BY <3>5, <3>6, <3>7
  <2>6. CASE ResultLogged(at)
    <3>1. AsLog' = AsLog /\ tainted' = tainted
      BY <1>29, <2>1, <2>6, StaysMapped DEF RecordResult
    <3>2. Loop!RecordResult(at)
      BY <1>26, <1>27, <2>1, <2>2, <2>3, <2>4, <2>5, <2>6, <3>1 DEF Loop!RecordResult
    <3> QED
      BY <1>3, <2>1, <2>2, <3>2 DEF Loop!BatchStep
  <2>7. CASE ~ResultLogged(at)
    <3> DEFINE ok == out[at] = "ok"
    <3>1. results' = [results EXCEPT ![at] = ok] /\ tainted' = TRUE
      BY <1>29, <2>7 DEF RecordResult
    <3>2. AsResults' = AsResults \cup {[step |-> 2, index |-> at, key |-> AsCall(Key(at)),
                                       ok |-> ok, size |-> "fits"]}
      <4>1. results[at] = None /\ results \in [Indexes -> BOOLEAN \cup {None}]
        BY <1>0, <2>7 DEF ResultLogged, TypeOK
      <4>2. ok \in BOOLEAN /\ ok # None
        BY BatchAssumption
      <4> HIDE DEF ok
      <4>3. \A j \in Indexes : results'[j] = IF j = at THEN ok ELSE results[j]
        BY <3>1, <4>1
      <4> DEFINE new == [step |-> 2, index |-> at, key |-> AsCall(Key(at)), ok |-> ok,
                         size |-> "fits"]
      <4> DEFINE Logged(j) == results[j] # None
      <4>4. \A j \in Indexes : Logged(j)' <=> Logged(j) \/ j = at
        BY <4>1, <4>2, <4>3
      <4>5. \A j \in Indexes : j # at => AsResult(j)' = AsResult(j)
        BY <1>0, <4>3 DEF AsResult
      <4>6. \A j \in Indexes : j = at => AsResult(j)' = new
        BY <1>0, <4>3 DEF AsResult
      <4>7. EarlierResult' = EarlierResult /\ tainted0' = tainted0
        BY <2>1 DEF EarlierResult
      <4> DEFINE Earlier(x) == tainted0 /\ x = EarlierResult
      <4>8. \A x : x \in AsResults <=> (\E j \in Indexes : Logged(j) /\ x = AsResult(j)) \/ Earlier(x)
        BY DEF AsResults
      <4>9. \A x : x \in AsResults' <=>
                     (\E j \in Indexes : Logged(j)' /\ x = AsResult(j)') \/ Earlier(x)
        BY <1>0, <4>7 DEF AsResults
      <4>10. ~Logged(at)
        BY <4>1
      <4> HIDE DEF new, Logged, Earlier
      <4>11. \A x : x \in AsResults' <=> x \in AsResults \/ x = new
        BY <2>1, <4>4, <4>5, <4>6, <4>8, <4>9, <4>10
      <4>12. AsResults' = AsResults \cup {new}
        BY <4>11
      <4> QED
        BY <4>12 DEF new
    <3>3. AsLog' = [AsLog EXCEPT !.results = @ \cup
                      {[step |-> 2, index |-> at, key |-> AsCall(Key(at)),
                        ok |-> ok, size |-> "fits"]}]
      BY <2>1, <3>2, StaysMapped DEF AsLog
    <3>4. Loop!RecordResult(at)
      BY <1>2, <1>3, <1>26, <1>27, <2>1, <2>2, <2>3, <2>4, <2>5, <2>7, <3>1, <3>3
         DEF Loop!RecordResult
    <3> QED
      BY <1>3, <2>1, <2>2, <3>4 DEF Loop!BatchStep
  <2> QED
    BY <2>6, <2>7
<1> QED
  BY <1>0, <1>4, <1>5, <1>6, <1>7, <1>10, <1>11, <1>12, <1>13, <1>14, <1>15, <1>16, <1>17,
     <1>20, <1>23, <1>24, <1>25, <1>28, <1>29 DEF Next, Main, Reader

\* A batch in full that begins is a batch that the loop has requested.
LEMMA LoopInit ==
  ASSUME PhaseInit
  PROVE  Loop!BatchRequested
<1>1. /\ calls \in Batches /\ pc = "start" /\ at = 1 /\ started = {} /\ crashes = 0
      /\ rows = [k \in Keys |-> "absent"] /\ results = [i \in Indexes |-> None]
      /\ tainted = tainted0 /\ tainted0 \in BOOLEAN
  BY DEF PhaseInit, Init
<1>2. AsPlace = "start" /\ AsIdx = 1 /\ AsBatch = Loop!NoBatch
  BY <1>1 DEF AsPlace, AsIdx, AsBatch, Executing, Loop!NoBatch
<1>3. AsRun.status = "RUNNING_TOOLS" /\ Loop!step = 2 /\ Loop!pending = Indexes
  BY <1>1 DEF AsRun, Loop!step, Loop!pending
<1>4. DOMAIN Loop!CallsAt(2) = Indexes
  BY DEF Loop!CallsAt, AsLog, AsResponses, AnswerOf, Indexes
<1>5. AsLog.starts = {} /\ AsLog.results = IF tainted0 THEN {EarlierResult} ELSE {}
  BY <1>1 DEF AsLog, AsStarts, AsResults
<1>6. EarlierResult.step = 1
  BY DEF EarlierResult
<1>7. \A i \in Indexes : ~Loop!HasRow(Loop!Key(i))
  <2>1. \A i \in Indexes : Key(i) \in Keys
    BY <1>1, CallType
  <2> QED
    BY <1>1, <2>1, CallsMap DEF HasRow
<1>8. tainted = Loop!RebuiltTaint
  BY <1>1, <1>5 DEF Loop!RebuiltTaint
<1> QED
  BY <1>1, <1>2, <1>3, <1>4, <1>5, <1>6, <1>7, <1>8 DEF Loop!BatchRequested

\* What _execute_tool_calls does, thread by thread and file by file, is what the
\* loop takes its batch to be: what is proved of the loop's batch holds of it.
THEOREM SpecImplementsLoop ==
  ASSUME "restore" \notin Faults, <<>> \notin Batches
  PROVE  PhaseSpec => ImplementsLoop
<1>1. PhaseSpec => Spec
  <2>1. PhaseInit => Init
    BY DEF PhaseInit
  <2>2. [PhaseNext]_<<vars, fresh>> => [Next]_vars
    BY DEF PhaseNext
  <2> QED
    BY <2>1, <2>2, PTL DEF PhaseSpec, Spec
<1>2. PhaseInit => Fresh
  BY DEF PhaseInit, Init, Fresh, Held, Looked
<1>3. Base /\ Fresh /\ [PhaseNext]_<<vars, fresh>> => Fresh'
  <2>1. ASSUME Base, Fresh, UNCHANGED <<vars, fresh>>
        PROVE  Fresh'
    BY <2>1 DEF Fresh, Held, Looked, BatchFailed, Indexes, Of, vars, volatile, table, history
  <2> QED
    BY <2>1, FreshStep
<1>4. Base /\ Fresh /\ [PhaseNext]_<<vars, fresh>> =>
        [Loop!BatchStep \/ Loop!Crash \/ Loop!RestartBatch]_Loop!vars
  BY LoopStep, StutterMap
<1> QED
  BY <1>1, <1>2, <1>3, <1>4, LoopInit, SpecBase, PTL DEF PhaseSpec, ImplementsLoop, Loop!BatchSpec
=============================================================================
