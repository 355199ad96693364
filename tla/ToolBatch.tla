------------------------------ MODULE ToolBatch ------------------------------
(***************************************************************************)
(* One batch of tool calls in full: AgentRuntime._execute_tool_calls with  *)
(* its pool of reader threads, the executor's check, body and record, the  *)
(* preimages and the rollback of writes, and a process that may die        *)
(* between any two steps and then runs the same pending calls again.       *)
(*                                                                         *)
(* A call that is neither write_file nor send_email (read_file, http_get,  *)
(* run_python, an unknown tool) is a "read" for the scheduler.  A read     *)
(* with a content is a run_python whose code may leave that content in its *)
(* target: it runs in the workspace, and nothing it does is rolled back.   *)
(***************************************************************************)
EXTENDS Integers, FiniteSets, Sequences

CONSTANTS
  Batches,      \* the batches the model may ask for
  Ids,          \* ids of calls; one batch may repeat an id
  Paths,        \* workspace files
  Contents,     \* what a write or a run_python may put into a file
  Emails,       \* logical emails
  BadEmails,    \* emails with arguments send_email refuses
  Faults,       \* operating-system failures: subset of {"restore", "tear"}
  MaxCrashes,   \* bound: how often the process dies
  None          \* no file, no result, no argument

Call ==
  [id : Ids, tool : {"read"}, target : Paths, content : Contents \cup {None}]
  \cup [id : Ids, tool : {"write"}, target : Paths, content : Contents]
  \cup [id : Ids, tool : {"email"}, target : Emails, content : {None}]

ASSUME BatchAssumption == Batches \subseteq Seq(Call) /\ None \notin BOOLEAN

VARIABLES
  calls,     \* pending_tool_calls of the run's row
  rows,      \* table tool_executions: status by call key
  sent,      \* table sent_emails: its keys
  started,   \* indexes with a tool_execution_started event
  results,   \* ok of the tool_result event of an index, or None
  files,     \* the workspace
  pc,        \* place of the main thread in _execute_tool_calls
  worker,    \* place of the pool thread of each call
  out,       \* ordered_results
  at,        \* index of the call the main thread is at
  preimages, \* write_preimages, oldest first
  restored,  \* restored_write_indexes
  tainted,   \* memory.has_untrusted_tool_results()
  bodies,    \* history: how often the body of each call's key ran
  before,    \* history: the workspace when the batch was requested
  tainted0,  \* history: the flag when the batch was requested
  crashes    \* how often the process died

table    == <<rows, sent, started, results>>
volatile == <<worker, out, at, preimages, restored, tainted>>
history  == <<bodies, before, tainted0>>
vars     == <<calls, table, files, pc, volatile, history, crashes>>

Indexes == DOMAIN calls
Slots   == UNION {DOMAIN b : b \in Batches}
Of(tool) == {i \in Indexes : calls[i].tool = tool}

\* An email is identified by its content, any other call also by its id.
KeyOf(call) == [call EXCEPT !.id = IF call.tool = "email" THEN None ELSE @]
Key(i) == KeyOf(calls[i])
Keys   == UNION {{KeyOf(b[i]) : i \in DOMAIN b} : b \in Batches}
Mails  == {k \in Keys : k.tool = "email"}

\* Mutant: a call that failed is taken to be open.
HasCompletedRow(k) == rows[k] = "completed"

HasRow(k)  == rows[k] # "absent"
Outcome(k) == IF rows[k] = "completed" THEN "ok" ELSE "failed"
BatchFailed == \E i \in Indexes : out[i] = "failed"

Idle == [i \in Indexes |-> "off"]
Blank == [i \in Indexes |-> "none"]

Init ==
  /\ calls \in Batches
  /\ rows = [k \in Keys |-> "absent"]
  /\ sent = {}
  /\ started = {}
  /\ results = [i \in Indexes |-> None]
  /\ files \in [Paths -> {None, "old"}]
  /\ pc = "start"
  /\ worker = Idle
  /\ out = Blank
  /\ at = 1
  /\ preimages = <<>>
  /\ restored = {}
  /\ tainted \in BOOLEAN
  /\ bodies = [k \in Keys |-> 0]
  /\ before = files
  /\ tainted0 = tainted
  /\ crashes = 0

(***************************************************************************)
(* Starts, look-up of earlier executions.                                  *)
(***************************************************************************)
\* Mutant: the loop over the calls is one short.
CallLeftTooFew == at < Len(calls)

CallLeft == at <= Len(calls)

StartCall ==
  /\ pc = "start"
  /\ CallLeft
  /\ started' = started \cup {at}
  /\ at' = at + 1
  /\ UNCHANGED <<calls, rows, sent, results, files, pc, worker, out, preimages,
                 restored, tainted, history, crashes>>

\* One thread per call without a row and without side effects.
LookUpRows ==
  /\ pc = "start"
  /\ ~CallLeft
  /\ out' = [i \in Indexes |-> IF HasRow(Key(i)) THEN Outcome(Key(i)) ELSE "none"]
  /\ worker' = [i \in Indexes |-> IF i \in Of("read") /\ ~HasRow(Key(i))
                                  THEN "check" ELSE "off"]
  /\ pc' = "reads"
  /\ UNCHANGED <<calls, table, files, at, preimages, restored, tainted, history,
                 crashes>>

(***************************************************************************)
(* The pool: ToolExecutor.execute of each read, in a thread of its own.    *)
(***************************************************************************)
Settle(i, outcome) == out' = [out EXCEPT ![i] = outcome]
SetRow(i, status)  == rows' = [rows EXCEPT ![Key(i)] = status]
RunBody(i)         == bodies' = [bodies EXCEPT ![Key(i)] = @ + 1]

CheckRow(i) ==
  /\ worker[i] = "check"
  /\ IF HasRow(Key(i))
     THEN Settle(i, Outcome(Key(i))) /\ worker' = [worker EXCEPT ![i] = "off"]
     ELSE worker' = [worker EXCEPT ![i] = "body"] /\ UNCHANGED out
  /\ UNCHANGED <<calls, table, files, pc, at, preimages, restored, tainted,
                 history, crashes>>

\* A run_python may leave its file as it was, or written, or cut short when its
\* time is up, however the call ends.
ReadBody(i) ==
  /\ worker[i] = "body"
  /\ RunBody(i)
  /\ \E done \in {"completed", "failed"} : worker' = [worker EXCEPT ![i] = done]
  /\ \/ UNCHANGED files
     \/ /\ calls[i].content # None
        /\ \E left \in {calls[i].content, "torn"} :
             files' = [files EXCEPT ![calls[i].target] = left]
  /\ UNCHANGED <<calls, table, pc, out, at, preimages, restored, tainted, before,
                 tainted0, crashes>>

ReadRecord(i) ==
  /\ worker[i] \in {"completed", "failed"}
  /\ SetRow(i, worker[i])
  /\ Settle(i, IF worker[i] = "completed" THEN "ok" ELSE "failed")
  /\ worker' = [worker EXCEPT ![i] = "off"]
  /\ UNCHANGED <<calls, sent, started, results, files, pc, at, preimages, restored,
                 tainted, history, crashes>>

\* Mutant: the readers are not waited for.
ReadersLeft == TRUE

ReadersDone == \A i \in Indexes : worker[i] = "off"

JoinReaders ==
  /\ pc = "reads"
  /\ ReadersDone
  /\ pc' = "effects"
  /\ UNCHANGED <<calls, table, files, volatile, history, crashes>>

(***************************************************************************)
(* Side effects, on the main thread: the writes in the order of the calls, *)
(* then the emails.  One after a failed sibling is skipped.                *)
(***************************************************************************)
Todo(tool) == {i \in Of(tool) : out[i] = "none"}

\* Mutant: an email does not wait for the writes.
NextEffectUnordered(i) == i \in Todo("write") \cup Todo("email")

NextEffect(i) ==
  LET first == IF Todo("write") # {} THEN Todo("write") ELSE Todo("email")
  IN  i \in first /\ \A j \in first : i <= j

\* Mutant: the results of the siblings are not looked at.
SiblingsIgnored == FALSE

Skips == BatchFailed

Effect(i) == pc = "effects" /\ NextEffect(i)

SkipEffect(i) ==
  /\ Effect(i)
  /\ Skips
  /\ IF HasRow(Key(i))
     THEN Settle(i, Outcome(Key(i))) /\ UNCHANGED rows
     ELSE Settle(i, "failed") /\ SetRow(i, "blocked")
  /\ UNCHANGED <<calls, sent, started, results, files, pc, worker, at, preimages,
                 restored, tainted, history, crashes>>

Preimage(i) == [index |-> i, path |-> calls[i].target,
                content |-> files[calls[i].target]]

\* A duplicate of an effect this batch already settled.
ReuseEffect(i) ==
  /\ Effect(i)
  /\ ~Skips
  /\ HasRow(Key(i))
  /\ Settle(i, Outcome(Key(i)))
  /\ preimages' = IF calls[i].tool = "write" THEN Append(preimages, Preimage(i))
                  ELSE preimages
  /\ UNCHANGED <<calls, table, files, pc, worker, at, restored, tainted, history,
                 crashes>>

\* The preimage is captured and the file written.  A failing write leaves the
\* file alone, or truncated when it fails after opening it.
WriteBody(i) ==
  /\ Effect(i)
  /\ i \in Of("write")
  /\ ~Skips
  /\ ~HasRow(Key(i))
  /\ at' = i
  /\ RunBody(i)
  /\ \/ /\ files' = [files EXCEPT ![calls[i].target] = calls[i].content]
        /\ preimages' = Append(preimages, Preimage(i))
        /\ pc' = "wrote"
     \/ /\ files' = files
        /\ pc' = "not written"
        /\ UNCHANGED preimages
     \/ /\ "tear" \in Faults
        /\ files' = [files EXCEPT ![calls[i].target] = "torn"]
        /\ pc' = "not written"
        /\ UNCHANGED preimages
  /\ UNCHANGED <<calls, table, worker, out, restored, tainted, before, tainted0,
                 crashes>>

WriteRecord ==
  /\ pc \in {"wrote", "not written"}
  /\ SetRow(at, IF pc = "wrote" THEN "completed" ELSE "failed")
  /\ Settle(at, IF pc = "wrote" THEN "ok" ELSE "failed")
  /\ pc' = IF pc = "wrote" THEN "effects" ELSE "undo"
  /\ UNCHANGED <<calls, sent, started, results, files, worker, at, preimages,
                 restored, tainted, history, crashes>>

Accepts(i) == calls[i].target \notin BadEmails

\* Mutant: the email is committed before its row.
SendEmailFirst(i) ==
  /\ Effect(i)
  /\ i \in Of("email")
  /\ ~Skips /\ ~HasRow(Key(i)) /\ ~tainted /\ Accepts(i)
  /\ sent' = sent \cup {Key(i)}
  /\ Settle(i, "ok")
  /\ UNCHANGED <<calls, rows, started, results, files, pc, worker, at, preimages,
                 restored, tainted, history, crashes>>

\* The email and its execution row are one transaction.
SendEmail(i) ==
  /\ Effect(i)
  /\ i \in Of("email")
  /\ ~Skips
  /\ ~HasRow(Key(i))
  /\ ~tainted
  /\ Accepts(i)
  /\ sent' = sent \cup {Key(i)}
  /\ SetRow(i, "completed")
  /\ Settle(i, "ok")
  /\ UNCHANGED <<calls, started, results, files, pc, worker, at, preimages,
                 restored, tainted, history, crashes>>

RefuseEmail(i) ==
  /\ Effect(i)
  /\ i \in Of("email")
  /\ ~Skips
  /\ ~HasRow(Key(i))
  /\ tainted \/ ~Accepts(i)
  /\ SetRow(i, IF tainted THEN "blocked" ELSE "failed")
  /\ Settle(i, "failed")
  /\ pc' = "undo"
  /\ UNCHANGED <<calls, sent, started, results, files, worker, at, preimages,
                 restored, tainted, history, crashes>>

\* Mutant: the same write is put back again and again.
KeptPreimages == preimages

PoppedPreimages == SubSeq(preimages, 1, Len(preimages) - 1)

\* _rollback_writes, newest write first.  A file that cannot be restored turns
\* the result of its write into a failure; its row is left as it is.
UndoWrite ==
  /\ pc = "undo"
  /\ preimages # <<>>
  /\ LET last == preimages[Len(preimages)]
     IN  \/ /\ files' = [files EXCEPT ![last.path] = last.content]
            /\ restored' = restored \cup {last.index}
            /\ UNCHANGED out
         \/ /\ "restore" \in Faults
            /\ out' = [out EXCEPT ![last.index] = "failed"]
            /\ UNCHANGED <<files, restored>>
  /\ preimages' = PoppedPreimages
  /\ UNCHANGED <<calls, table, pc, worker, at, tainted, history, crashes>>

UndoDone ==
  /\ pc = "undo"
  /\ preimages = <<>>
  /\ pc' = "effects"
  /\ UNCHANGED <<calls, table, files, volatile, history, crashes>>

(***************************************************************************)
(* Results, in the order of the calls.                                     *)
(***************************************************************************)
Collect ==
  /\ pc = "effects"
  /\ Todo("write") = {} /\ Todo("email") = {}
  /\ pc' = "collect"
  /\ at' = 1
  /\ UNCHANGED <<calls, table, files, worker, out, preimages, restored, tainted,
                 history, crashes>>

\* Mutant: the row of a restored write is left as it is.
MarkNothing == UNCHANGED rows

MarkRow == SetRow(at, "failed")

MarkRolledBack ==
  /\ pc = "collect"
  /\ at \in restored
  /\ MarkRow
  /\ Settle(at, "failed")
  /\ restored' = restored \ {at}
  /\ UNCHANGED <<calls, sent, started, results, files, pc, worker, at, preimages,
                 tainted, history, crashes>>

\* Result events of an email are keyed by the email, others by the index.
ResultLogged(i) ==
  \/ results[i] # None
  \/ calls[i].tool = "email" /\ \E j \in Indexes : results[j] # None /\ Key(j) = Key(i)

RecordResult ==
  /\ pc = "collect"
  /\ CallLeft
  /\ at \notin restored
  /\ IF ResultLogged(at)
     THEN UNCHANGED <<results, tainted>>
     ELSE results' = [results EXCEPT ![at] = (out[at] = "ok")] /\ tainted' = TRUE
  /\ at' = at + 1
  /\ UNCHANGED <<calls, rows, sent, started, files, pc, worker, out, preimages,
                 restored, history, crashes>>

BatchDone ==
  /\ pc = "collect"
  /\ ~CallLeft
  /\ pc' = "done"
  /\ UNCHANGED <<calls, table, files, volatile, history, crashes>>

(***************************************************************************)
(* The process dies; its successor runs the same calls from the beginning. *)
(***************************************************************************)
Crash ==
  /\ pc \notin {"down", "done"}
  /\ crashes < MaxCrashes
  /\ crashes' = crashes + 1
  /\ pc' = "down"
  /\ worker' = Idle
  /\ out' = Blank
  /\ at' = 1
  /\ preimages' = <<>>
  /\ restored' = {}
  /\ tainted' = FALSE
  /\ UNCHANGED <<calls, table, files, history>>

RebuiltTaint == tainted0 \/ \E i \in Indexes : results[i] # None

Resume ==
  /\ pc = "down"
  /\ pc' = "start"
  /\ tainted' = RebuiltTaint
  /\ UNCHANGED <<calls, table, files, worker, out, at, preimages, restored, history,
                 crashes>>

Finished == pc = "done" /\ UNCHANGED vars

Main ==
  \/ StartCall \/ LookUpRows \/ JoinReaders
  \/ \E i \in Indexes : \/ SkipEffect(i) \/ ReuseEffect(i) \/ WriteBody(i)
                         \/ SendEmail(i) \/ RefuseEmail(i)
  \/ WriteRecord \/ UndoWrite \/ UndoDone
  \/ Collect \/ MarkRolledBack \/ RecordResult \/ BatchDone
  \/ Resume

Reader(i) == CheckRow(i) \/ ReadBody(i) \/ ReadRecord(i)

Next == Main \/ (\E i \in Indexes : Reader(i)) \/ Crash \/ Finished

Spec == Init /\ [][Next]_vars

\* Tool bodies end (each has a timeout or is a local file operation), threads
\* are scheduled, and a dead process is relaunched.
FairSpec ==
  /\ Spec
  /\ WF_vars(Main)
  /\ \A i \in Slots : WF_vars(i \in Indexes /\ Reader(i))

(***************************************************************************)
(* Properties.                                                             *)
(***************************************************************************)
\* What the tables say about a logical email.
Decision(k) ==
  IF k \notin sent /\ rows[k] = "absent" THEN "open"
  ELSE IF k \in sent /\ rows[k] = "completed" THEN "sent"
  ELSE IF k \notin sent /\ rows[k] # "completed" THEN "refused"
  ELSE "torn"

\* The abstract outbox this batch implements.
Outbox == INSTANCE EmailOutbox WITH
  Emails    <- Mails,
  outbox    <- [k \in Mails |-> Decision(k)],
  untrusted <- RebuiltTaint

\* Each logical email is sent or refused once and for all, in one step with
\* its execution row, and never after untrusted data (send_email_tool_once,
\* _blocked_tool_result and the run_one check).
ImplementsOutbox == Outbox!Spec

\* An email leaves only when every other kind of call of the batch succeeded:
\* no failed read, and no failed or skipped write unless a later email of the
\* batch was refused and the writes were rolled back.
SendsFollowSuccess ==
  sent # {} =>
    /\ \A i \in Of("read") : rows[Key(i)] = "completed"
    /\ \/ \A i \in Of("write") : rows[Key(i)] = "completed"
       \/ \E i \in Of("email") : rows[Key(i)] \in {"failed", "blocked"}

\* Reads of one batch that share id, name and arguments: each has a thread.
Twins(k) == Cardinality({i \in Of("read") : Key(i) = k}) > 1

\* Call i is not a repetition of an earlier call of the batch.
First(i) == \A j \in Indexes : Key(j) = Key(i) => i <= j

\* A repeated write that was answered from the row of the first one, which was
\* rolled back afterwards.
Outdated(i) == i \in Of("write") /\ ~First(i) /\ rows[Key(i)] = "failed"

\* The result the model is shown agrees with the durable outcome that later
\* retries of the same call will reuse; twins race for their one row, and a
\* repeated write may keep the answer of a write that is rolled back.
ResultMatchesRow ==
  \A i \in Indexes :
    results[i] # None /\ ~Twins(Key(i)) =>
      (results[i] <=> rows[Key(i)] = "completed") \/ Outdated(i)

\* The same for every call that is not a twin (run.py: "rollback/skip handling can
\* correct the durable outcome").
ResultAlwaysMatchesRow ==
  \A i \in Indexes :
    results[i] # None /\ ~Twins(Key(i)) => (results[i] <=> rows[Key(i)] = "completed")

\* What the run_python calls of the batch may leave at p.
PythonLeaves(p) ==
  {calls[i].content : i \in {j \in Of("read") : calls[j].target = p}} \ {None}

\* A batch that ends with a failure has undone its writes: a file holds what it
\* did before the batch or what a run_python of the batch left there (README:
\* reversible writes are restored, files that run_python makes are not), but for
\* a file cut short and, after a crash, for what the batch itself wrote.  A batch
\* that ends without a failure has performed every write, the last one to a path
\* winning, over anything run_python left; a repeated write is performed once, at
\* its first place.
AllOrNothing ==
  pc = "done" =>
    IF BatchFailed
    THEN \A p \in Paths :
           \/ files[p] \in {before[p], "torn"} \cup PythonLeaves(p)
           \/ crashes > 0 /\ \E i \in Of("write") :
                calls[i].target = p /\ calls[i].content = files[p]
    ELSE \A i \in Of("write") : First(i) =>
           \/ files[calls[i].target] = calls[i].content
           \/ \E j \in Of("write") :
                First(j) /\ j > i /\ calls[j].target = calls[i].target

\* A batch that fails leaves every file as it was, whether or not the process
\* died (README: "reversible writes are restored").
RolledBackAlways == pc = "done" /\ BatchFailed => files = before

\* No body runs once its outcome is recorded, in this process or an earlier one,
\* except in a thread that looked before its twin recorded (executer.py: "the
\* tool body is not rerun").
RecordedNeverRerun ==
  [][\A k \in Keys : bodies'[k] # bodies[k] => rows[k] = "absent" \/ Twins(k)]_vars

\* No call's body runs twice.
BodyAtMostOnce == \A k \in Keys : bodies[k] <= 1

\* Every call of a batch that is over has a start and a result, its own or, for
\* an email asked twice, that of its twin.
NothingLost ==
  pc = "done" => started = Indexes /\ \A i \in Indexes : ResultLogged(i)

\* The batch comes to an end.
BatchCompletes == <>(pc = "done")
=============================================================================
