-------------------------------- MODULE Memory --------------------------------
(***************************************************************************)
(* Conversation memory: MemoryWindow with its compaction, MemoryManager    *)
(* with its ledger of facts, and the rebuilding of both from the event log *)
(* after a crash.  Sizes are token counts.  A text is its size and whether *)
(* it looks like a fact; clipping, which counts characters, is a limit in  *)
(* tokens.                                                                 *)
(***************************************************************************)
EXTENDS Integers, FiniteSets, Sequences, SequencesExt

CONSTANTS
  Budget,         \* MemoryWindow.token_budget
  Recent,         \* RECENT_MESSAGE_COUNT
  SummaryLimit,   \* SUMMARY_MESSAGE_LIMIT
  FactLimit,      \* DURABLE_FACT_LIMIT
  EarlyTurns,     \* the user turns that are always facts
  Preamble, LedgerBase, FactBase, SummaryBase, OmittedNote, ToolNote,
                  \* tokens of the fixed texts
  Wrapper,        \* tokens around the payload of a tool result
  Envelope,       \* tokens of a live payload besides its result or its error
  FactClip, SnippetClip,   \* what clipping leaves of a text
  TaskSizes, TextSizes, ResultSizes,   \* sizes of what is added
  MaxEvents, MaxUserTurns, MaxCrashes  \* bounds

ASSUME BudgetAssumption == Budget \in Nat \ {0} /\ Recent \in Nat \ {0}

ASSUME SizesAssumption ==
  /\ {SummaryLimit, FactLimit, EarlyTurns, MaxCrashes} \subseteq Nat
  /\ {Preamble, LedgerBase, FactBase, SummaryBase, OmittedNote, ToolNote, Wrapper,
      FactClip, SnippetClip} \subseteq Nat
  /\ Envelope \in Nat \ {0}
  /\ TaskSizes \cup TextSizes \cup ResultSizes \subseteq Nat

VARIABLES
  log,       \* run_started, user_message, assistant_message, tool_result
  window,    \* MemoryWindow.messages, and whether it raised
  facts,     \* MemoryManager.durable_facts: the events they come from
  selected,  \* the facts get_compacted_context still tries to keep
  stage,     \* what the process is doing
  crashes

vars == <<log, window, facts, selected, stage, crashes>>

Size(a, b) == IF a <= b THEN a ELSE b

\* The sum of a sequence of numbers.
Total(ns) ==
  LET upTo[n \in 0 .. Len(ns)] == IF n = 0 THEN 0 ELSE upTo[n - 1] + ns[n]
  IN  upTo[Len(ns)]

\* count_message_tokens: every message brings its own tokens.
Tokens(ms) == Total([i \in DOMAIN ms |-> ms[i].size])

\* The entries of a sequence that stand at some positions, in order.
At(s, places) ==
  LET upTo[n \in 0 .. Len(s)] ==
        IF n = 0 THEN <<>>
        ELSE IF n \in places THEN Append(upTo[n - 1], s[n]) ELSE upTo[n - 1]
  IN  upTo[Len(s)]

\* Those of the positions a sequence has.
Positions(s, places) == At([i \in DOMAIN s |-> i], places)

(***************************************************************************)
(* Messages.  "told" is what a tool result tells of a failure.             *)
(***************************************************************************)
System(role, size) == [role |-> role, at |-> 0, size |-> size, told |-> FALSE]

Protected(m) == m.role \in {"preamble", "ledger"}

FirstUser(ms) ==
  {i \in DOMAIN ms : ms[i].role = "user" /\ \A j \in 1 .. i - 1 : ms[j].role # "user"}

\* Mutant: a rebuilt memory wraps the whole payload, and wraps it twice.
WrappedTwice(l, i, live) ==
  LET e == l[i]
  IN  IF e.role # "tool"
      THEN [role |-> e.role, at |-> i, size |-> 1 + e.size, told |-> FALSE]
      ELSE [role |-> "tool", at |-> i, told |-> TRUE,
            size |-> Wrapper + Envelope + e.size + (IF live THEN 0 ELSE Wrapper)]

\* add_user_message and add_assistant_message render the text; add_tool_result
\* wraps the whole payload in a live process and payload["result"] alone, which
\* a failed tool has not, in a rebuilt one.
Message(l, i, live) ==
  LET e == l[i]
  IN  IF e.role # "tool"
      THEN [role |-> e.role, at |-> i, size |-> 1 + e.size, told |-> FALSE]
      ELSE [role |-> "tool", at |-> i, told |-> live,
            size |-> Wrapper + (IF live THEN Envelope + e.size
                                ELSE IF e.ok THEN e.size ELSE 1)]

\* _build_summary.
Summary(ms) ==
  LET shown   == SubSeq(ms, 1, Size(Len(ms), SummaryLimit))
      snippet == [i \in DOMAIN shown |->
                    IF shown[i].role = "tool" THEN ToolNote
                    ELSE 2 + Size(shown[i].size, SnippetClip)]
  IN  System("summary", SummaryBase + Total(snippet)
                          + (IF Len(ms) > SummaryLimit THEN OmittedNote ELSE 0))

(***************************************************************************)
(* Compaction.                                                             *)
(***************************************************************************)

\* _compacted_messages: an earlier summary goes; when that is not enough, what
\* is neither protected, nor the first user message, nor recent is summarised.
Summarised(ms) ==
  LET source  == At(ms, {i \in DOMAIN ms : ms[i].role # "summary"})
      keep    == {i \in DOMAIN source : i > Len(source) - Recent \/ Protected(source[i])}
                   \cup FirstUser(source)
      removed == At(source, DOMAIN source \ keep)
      kept    == At(source, keep)
      front   == CHOOSE n \in 0 .. Len(kept) :
                   /\ \A i \in 1 .. n : Protected(kept[i])
                   /\ n < Len(kept) => ~Protected(kept[n + 1])
  IN  IF Tokens(source) <= Budget \/ removed = <<>> THEN source
      ELSE SubSeq(kept, 1, front) \o <<Summary(removed)>>
             \o SubSeq(kept, front + 1, Len(kept))

\* Mutant: the newest goes first.
NewestFirst(ms) ==
  Reverse(Positions(ms, {i \in DOMAIN ms \ FirstUser(ms) : ~Protected(ms[i])}))

\* The order in which _oldest_droppable_index gives messages up.
DropOrder(ms) ==
  LET free == {i \in DOMAIN ms \ FirstUser(ms) : ~Protected(ms[i])}
      summaries == {i \in free : ms[i].role = "summary"}
  IN  Positions(ms, free \ summaries) \o Positions(ms, summaries)

\* _drop_droppable_messages_until_fit.
DropUntilFit(ms) ==
  LET order   == DropOrder(ms)
      Rest(n) == At(ms, DOMAIN ms \ {order[k] : k \in 1 .. n})
      last    == CHOOSE n \in 0 .. Len(order) :
                   /\ Tokens(Rest(n)) <= Budget \/ n = Len(order)
                   /\ \A k \in 0 .. n - 1 : Tokens(Rest(k)) > Budget
  IN  Rest(last)

\* compact_if_needed; it raises when the outcome is still too large.
Compacted(ms) ==
  IF Tokens(ms) <= Budget \/ Len(ms) <= 1 THEN ms ELSE DropUntilFit(Summarised(ms))

\* MemoryWindow.add.
Add(w, m) ==
  IF w.raised \/ m.size > Budget THEN [w EXCEPT !.raised = TRUE]
  ELSE LET ms == Compacted(Append(w.messages, m))
       IN  [messages |-> ms, raised |-> Tokens(ms) > Budget]

EmptyWindow == [messages |-> <<>>, raised |-> FALSE]

(***************************************************************************)
(* The ledger of facts.  A fact is the event it comes from.                *)
(***************************************************************************)
Turn(l, i) == Cardinality({j \in 1 .. i : l[j].role = l[i].role})
Early(l, i) == l[i].role = "user" /\ Turn(l, i) <= EarlyTurns

\* Mutant: every message is looked at, tool results too.
IsFactOfAnyRole(l, i) == Early(l, i) \/ l[i].marked

\* _preserve_fact.
IsFact(l, i) == l[i].role # "tool" /\ (Early(l, i) \/ l[i].marked)

Priority(l, i) ==
  IF Early(l, i) THEN 100 ELSE IF l[i].role = "user" THEN 90 ELSE 40

LedgerTokens(fs) ==
  LedgerBase + Total([k \in DOMAIN fs |-> FactBase + Size(log[fs[k]].size, FactClip)])

LedgerBudget ==
  LET third == Budget \div 3
  IN  Size(2400, IF third < 24 THEN 24 ELSE third)

\* _bounded_fact_entries: first come, first served.
Bounded(fs) ==
  LET chosen[n \in 0 .. Len(fs)] ==
        IF n = 0 THEN <<>>
        ELSE LET before == chosen[n - 1]
                 more   == Append(before, fs[n])
             IN  IF LedgerTokens(more) <= LedgerBudget THEN more ELSE before
  IN  chosen[Len(fs)]

\* _trim_fact_entries: the oldest fact of the lowest priority goes.
Trimmed(fs) ==
  LET least == CHOOSE k \in DOMAIN fs :
                 \A j \in DOMAIN fs :
                   /\ Priority(log, fs[k]) <= Priority(log, fs[j])
                   /\ j < k => Priority(log, fs[k]) < Priority(log, fs[j])
  IN  RemoveAt(fs, least)

\* _ensure_safety_preamble.
WithPreamble(ms) ==
  IF \E i \in DOMAIN ms : ms[i].role = "preamble" THEN ms
  ELSE <<System("preamble", Preamble)>> \o ms

\* Mutant: the ledger of the last context stays.
LedgerAdded(ms, fs) ==
  IF fs = <<>> THEN ms
  ELSE <<Head(ms), System("ledger", LedgerTokens(fs))>> \o Tail(ms)

\* _sync_durable_facts_message: the ledger stands right after the preamble.
Synced(ms, fs) ==
  LET rest == At(ms, {i \in DOMAIN ms : ms[i].role # "ledger"})
  IN  IF fs = <<>> THEN rest
      ELSE <<Head(rest), System("ledger", LedgerTokens(fs))>> \o Tail(rest)

(***************************************************************************)
(* The process.                                                            *)
(***************************************************************************)
Init ==
  /\ log = <<>>
  /\ window = EmptyWindow
  /\ facts = <<>>
  /\ selected = <<>>
  /\ stage = "new"
  /\ crashes = 0

UserTurns == Cardinality({i \in DOMAIN log : log[i].role = "user"})

\* An event is committed and its message then added; a memory that raises ends
\* the run.
Record(e, next) ==
  LET l == Append(log, e)
      i == Len(l)
      w == Add(window, Message(l, i, TRUE))
  IN  /\ Len(log) < MaxEvents
      /\ log' = l
      /\ facts' = IF IsFact(l, i) THEN Append(facts, i) ELSE facts
      /\ window' = w
      /\ stage' = IF w.raised THEN "raised" ELSE next
      /\ UNCHANGED <<selected, crashes>>

Event(role, size, marked, ok) ==
  [role |-> role, size |-> size, marked |-> marked, ok |-> ok]

Start ==
  /\ stage = "new"
  /\ \E size \in TaskSizes, marked \in BOOLEAN :
       Record(Event("user", size, marked, TRUE), "ready")

AddUserMessage ==
  /\ stage \in {"asked", "answered"}
  /\ UserTurns < MaxUserTurns
  /\ \E size \in TextSizes, marked \in BOOLEAN :
       Record(Event("user", size, marked, TRUE), "answered")

AddAssistantMessage ==
  /\ stage = "asked"
  /\ \E size \in TextSizes, marked \in BOOLEAN :
       Record(Event("assistant", size, marked, TRUE), "answered")

\* Whatever a tool returns may look like a fact.
AddToolResult ==
  /\ stage \in {"asked", "answered"}
  /\ \E size \in ResultSizes, ok \in BOOLEAN :
       Record(Event("tool", size, TRUE, ok), "answered")

\* get_compacted_context up to its loop.
BeginContext ==
  /\ stage \in {"ready", "asked", "answered"}
  /\ window' = [window EXCEPT !.messages = WithPreamble(@)]
  /\ selected' = Bounded(SubSeq(facts, 1, Size(Len(facts), FactLimit)))
  /\ stage' = "building"
  /\ UNCHANGED <<log, facts, crashes>>

\* Mutant: the error is raised although facts could still go.
FitContextOnce ==
  /\ stage = "building"
  /\ LET ms == Compacted(Synced(window.messages, selected))
     IN  /\ window' = [window EXCEPT !.messages = ms]
         /\ stage' = IF Tokens(ms) <= Budget THEN "asked" ELSE "raised"
  /\ UNCHANGED <<log, facts, selected, crashes>>

\* One round of the loop: what compaction gave up is gone, even when the round
\* ends with trimming the ledger instead.
FitContext ==
  /\ stage = "building"
  /\ LET ms   == Compacted(Synced(window.messages, selected))
         fits == Tokens(ms) <= Budget
     IN  /\ window' = [window EXCEPT !.messages = ms]
         /\ IF ~fits /\ selected # <<>>
            THEN selected' = Trimmed(selected) /\ UNCHANGED stage
            ELSE /\ stage' = IF fits THEN "asked" ELSE "raised"
                 /\ UNCHANGED selected
  /\ UNCHANGED <<log, facts, crashes>>

Crash ==
  /\ stage \notin {"new", "down"}
  /\ crashes < MaxCrashes
  /\ crashes' = crashes + 1
  /\ stage' = "down"
  /\ window' = EmptyWindow
  /\ facts' = <<>>
  /\ selected' = <<>>
  /\ UNCHANGED log

\* MemoryManager.from_events.
Rebuilt ==
  LET after[n \in 0 .. Len(log)] ==
        IF n = 0 THEN EmptyWindow ELSE Add(after[n - 1], Message(log, n, FALSE))
  IN  after[Len(log)]

Resume ==
  /\ stage = "down"
  /\ ~Rebuilt.raised
  /\ window' = Rebuilt
  /\ facts' = Positions(log, {i \in DOMAIN log : IsFact(log, i)})
  /\ stage' = "ready"
  /\ UNCHANGED <<log, selected, crashes>>

Next ==
  \/ Start \/ AddUserMessage \/ AddAssistantMessage \/ AddToolResult
  \/ BeginContext \/ FitContext
  \/ Crash \/ Resume

Spec == Init /\ [][Next]_vars

(***************************************************************************)
(* Properties.                                                             *)
(***************************************************************************)
Window == window.messages

\* The messages of the window that come from events, besides the first user
\* message.
Conversation == {i \in DOMAIN Window : Window[i].at > 1}

\* The state has its types; no fact and no text of the system comes from a tool
\* result (render_untrusted_tool_result, _build_summary, _preserve_fact).
TypeOK ==
  /\ stage \in {"new", "ready", "building", "asked", "answered", "raised", "down"}
  /\ \A i \in DOMAIN log : log[i].role \in {"user", "assistant", "tool"}
  /\ window.raised \in BOOLEAN
  /\ \A i \in DOMAIN Window :
       LET m == Window[i]
       IN  /\ m.size \in Nat
           /\ IF m.at = 0 THEN m.role \in {"preamble", "ledger", "summary"}
              ELSE m.at \in DOMAIN log /\ m.role = log[m.at].role
  /\ \A k \in DOMAIN facts : log[facts[k]].role \in {"user", "assistant"}
  /\ \A k \in DOMAIN selected : selected[k] \in Range(facts)
  /\ crashes \in 0 .. MaxCrashes

\* A context that is handed to the model fits the budget, begins with the one
\* preamble, has the ledger next if any and at most one summary, which comes
\* before the conversation, and holds the task.
ContextSound ==
  stage = "asked" =>
    /\ Tokens(Window) <= Budget
    /\ {i \in DOMAIN Window : Window[i].role = "preamble"} = {1}
    /\ {i \in DOMAIN Window : Window[i].role = "ledger"}
         = (IF selected = <<>> THEN {} ELSE {2})
    /\ \A i, j \in DOMAIN Window :
         i < j /\ Window[j].role = "summary" => Protected(Window[i])
    /\ \E i \in DOMAIN Window : Window[i].at = 1

\* However often it is compacted, and rebuilt in between, the conversation has no
\* gaps and keeps its order: it is the end of the log.
NoGaps ==
  stage # "raised" =>
    /\ \A i \in Conversation : \A k \in Window[i].at .. Len(log) :
         \E j \in Conversation : Window[j].at = k
    /\ \A i, j \in DOMAIN Window :
         i < j /\ Window[i].at > 0 => Window[j].at > Window[i].at

\* The memory refuses only what cannot be helped: a single message larger than
\* the budget, or a task that does not fit beside the preamble.
RaisesOnlyWhenHopeless ==
  stage = "raised" =>
    \/ Message(log, Len(log), TRUE).size > Budget
    \/ Preamble + Message(log, 1, TRUE).size > Budget

\* A memory that took every event can be rebuilt from them: what a rebuilt memory
\* renders differently, and compacts without preamble and ledger, never makes it
\* raise where the live one did not (from_events is called outside any handler).
Resumable == stage \in {"ready", "building", "asked", "answered"} => ~Rebuilt.raised

\* The newest message reaches the model whenever it fits beside the preamble and
\* the task.
NewestKept ==
  stage = "asked" /\ Len(log) > 1
    /\ Preamble + Message(log, 1, TRUE).size + Message(log, Len(log), TRUE).size <= Budget
  => \E i \in DOMAIN Window : Window[i].at = Len(log)

\* No fact of an assistant is in the ledger while one of an early user turn that
\* would fit is not.
EarlyUserFirst ==
  stage = "asked" =>
    \A f \in Range(facts) \ Range(selected) : \A g \in Range(selected) :
      Early(log, f) /\ LedgerTokens(<<f>>) <= LedgerBudget => log[g].role = "user"

\* A failed call in the context tells its error.
ErrorsTold ==
  stage = "asked" =>
    \A i \in DOMAIN Window :
      Window[i].role = "tool" /\ ~log[Window[i].at].ok => Window[i].told
=============================================================================
