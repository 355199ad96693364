---------------------------- MODULE ResponseParser ----------------------------
(***************************************************************************)
(* One recorded answer of the model on its way to tool calls:              *)
(* parse_agent_response over the shapes a mock answer may have, and the    *)
(* recording of what came out, killed and repeated at any point.  Texts of *)
(* arguments are classes: what json.loads and the repair make of them.     *)
(***************************************************************************)
EXTENDS Integers, FiniteSets, Sequences, SequencesExt

CONSTANTS
  Answers,      \* the answers the model may give
  MaxCrashes,   \* bound: how often the process dies
  None,         \* a key that is absent, or whose value is of no use
  NotObject     \* an item that is no object

VARIABLES
  answer,    \* the recorded llm_response
  raw,       \* raw_items
  calls,     \* the calls so far
  errors,    \* the parse errors so far
  next,      \* the item the loop is at
  stage,     \* where the process is; "down" when there is none
  events,    \* the log: what was committed of this answer, in order
  outcome,   \* what the loop makes of it
  crashes

vars == <<answer, raw, calls, errors, next, stage, events, outcome, crashes>>

(***************************************************************************)
(* Answers.  An item is an object with an id, a name and arguments, or no  *)
(* object at all.  The content is absent, a list of entries, a text, or a  *)
(* text that is a JSON object with calls of its own.                       *)
(***************************************************************************)
ArgsClasses ==
  {"absent", "null", "object",
   "json",         \* a text that is a JSON object
   "comma",        \* one but for a trailing comma
   "commaInside",  \* likewise, with ",}" in one of its strings too
   "garbled",      \* any other text
   "number"}

Item  == [id : {None, "a", "b"}, name : {None, "tool"}, args : ArgsClasses]
Items == Item \cup {NotObject}
Entry == [type : {"text", "tool_use", "other"}, item : Item]
Content ==
  [form : {"absent", "list", "text", "json"}, entries : Seq(Entry),
   tool_call : Item \cup {None}, tool_calls : Seq(Items) \cup {None}]
Answer ==
  [tool_calls : Seq(Items) \cup {None}, tool_call : Item \cup {None},
   tool_use : Seq(Items) \cup {None}, content : Content, message : BOOLEAN,
   partial : BOOLEAN, expected : Nat]   \* expected: 0 when it is not told

ASSUME AnswersAssumption == Answers \subseteq Answer

Listed(items) == IF items = None THEN <<>> ELSE items
Single(item)  == IF item = None THEN <<>> ELSE <<item>>

\* Mutant: a single call is looked for only when there is no list.
EitherShape(a) ==
  IF a.tool_calls # None THEN a.tool_calls ELSE Single(a.tool_call)

\* The k-th smallest of a set of positions.
Nth(places, k) ==
  CHOOSE i \in places : Cardinality({j \in places : j <= i}) = k

\* The items of every supported shape, in the order they are looked for.
RawItems(a) ==
  LET c    == a.content
      used == {i \in DOMAIN c.entries : c.entries[i].type = "tool_use"}
  IN  Listed(a.tool_calls) \o Single(a.tool_call) \o Listed(a.tool_use)
        \o CASE c.form = "list" ->
                  [k \in 1 .. Cardinality(used) |-> c.entries[Nth(used, k)].item]
             [] c.form = "json" -> Single(c.tool_call) \o Listed(c.tool_calls)
             [] OTHER -> <<>>

\* _assistant_text: is there any?  A JSON text is text as well.
HasText(a) ==
  CASE a.content.form \in {"text", "json"} -> TRUE
    [] a.content.form = "list" ->
         \E i \in DOMAIN a.content.entries : a.content.entries[i].type = "text"
    [] OTHER -> a.message

Malformed == "malformed"

\* _coerce_arguments: the object that was said, an empty one, or an error.  The
\* repair deletes every comma before a closing bracket, those in strings too.
Coerce(args) ==
  CASE args \in {"absent", "null"} -> "empty"
    [] args \in {"object", "json", "comma"} -> "said"
    [] args = "commaInside" -> "altered"
    [] OTHER -> Malformed

\* A missing id is replaced by the place of the item, counted from 0.
CallId(item, i) ==
  IF item.id = None THEN <<"place", i - 1>> ELSE <<"given", item.id>>

(***************************************************************************)
(* The process.                                                            *)
(***************************************************************************)
Fresh ==
  /\ calls = <<>> /\ errors = <<>> /\ next = 1

Init ==
  /\ answer \in Answers
  /\ raw = RawItems(answer)
  /\ Fresh
  /\ stage = "items"
  /\ events = <<>>
  /\ outcome = "open"
  /\ crashes = 0

Reject(why) == errors' = Append(errors, <<why, next>>) /\ UNCHANGED calls

\* Arguments that cannot be read make an error and a call that tells of it.
Accept(item) ==
  LET args == Coerce(item.args)
  IN  /\ calls' = Append(calls, [id |-> CallId(item, next), args |-> args])
      /\ errors' = IF args = Malformed THEN Append(errors, <<Malformed>>) ELSE errors

\* An item of the loop of _parse_tool_calls.
ParseItem ==
  /\ stage = "items"
  /\ next <= Len(raw)
  /\ next' = next + 1
  /\ LET item == raw[next]
     IN  \/ item = NotObject /\ Reject("not an object")
         \/ item # NotObject /\ item.name = None /\ Reject("no name")
         \/ item # NotObject /\ item.name # None /\ Accept(item)
  /\ UNCHANGED <<answer, raw, stage, events, outcome, crashes>>

\* Mutant: the key of an error is its text alone.
KeyWithoutIndex(i) == <<"error", errors[i]>>

\* An event is keyed by its text, and that of an error by its index as well.
ErrorKey(i) == <<"error", i, errors[i]>>

\* append_event: a key that is there already changes nothing.
Commit(key) ==
  events' = IF key \in Range(events) THEN events ELSE Append(events, key)

\* The text of the answer.
RecordText ==
  /\ stage = "items"
  /\ next > Len(raw)
  /\ IF HasText(answer) THEN Commit(<<"text">>) ELSE UNCHANGED events
  /\ stage' = "errors"
  /\ next' = 1
  /\ UNCHANGED <<answer, raw, calls, errors, outcome, crashes>>

RecordError ==
  /\ stage = "errors"
  /\ next <= Len(errors)
  /\ Commit(ErrorKey(next))
  /\ next' = next + 1
  /\ UNCHANGED <<answer, raw, calls, errors, stage, outcome, crashes>>

\* _is_incomplete_partial_turn.
Incomplete ==
  answer.partial /\ (answer.expected = 0 \/ Len(calls) < answer.expected)

\* What AgentRuntime.run does with the parsed answer.
Decide ==
  /\ stage = "errors"
  /\ next > Len(errors)
  /\ stage' = "done"
  /\ IF Incomplete
     THEN outcome' = "partial" /\ Commit(<<"partial">>)
     ELSE IF calls = <<>>
     THEN outcome' = "completed" /\ UNCHANGED events
     ELSE outcome' = "tools" /\ Commit(<<"parsed", calls>>)
  /\ UNCHANGED <<answer, raw, calls, errors, next, crashes>>

Crash ==
  /\ stage \in {"items", "errors"}
  /\ crashes < MaxCrashes
  /\ crashes' = crashes + 1
  /\ stage' = "down"
  /\ calls' = <<>> /\ errors' = <<>> /\ next' = 1
  /\ UNCHANGED <<answer, raw, events, outcome>>

\* validate_recorded_response: the recorded answer is parsed again.
Resume ==
  /\ stage = "down"
  /\ stage' = "items"
  /\ UNCHANGED <<answer, raw, calls, errors, next, events, outcome, crashes>>

Process == ParseItem \/ RecordText \/ RecordError \/ Decide \/ Resume

Next == Process \/ Crash

Spec == Init /\ [][Next]_vars

(***************************************************************************)
(* Properties.                                                             *)
(***************************************************************************)

\* The items that shapes contribute, told by where they are and not by how they
\* are collected.
ItemsOf(a) ==
  {<<"tool_calls", i>> : i \in DOMAIN Listed(a.tool_calls)}
    \cup {<<"tool_call", i>> : i \in DOMAIN Single(a.tool_call)}
    \cup {<<"tool_use", i>> : i \in DOMAIN Listed(a.tool_use)}
    \cup (IF a.content.form = "list"
          THEN {<<"entry", i>> : i \in {j \in DOMAIN a.content.entries :
                                          a.content.entries[j].type = "tool_use"}}
          ELSE {})
    \cup (IF a.content.form = "json"
          THEN {<<"json", i>> : i \in DOMAIN (Single(a.content.tool_call)
                                               \o Listed(a.content.tool_calls))}
          ELSE {})

Usable(i) == raw[i] # NotObject /\ raw[i].name # None

\* No item is lost whatever shapes an answer mixes: each is a call or an error,
\* a call that cannot be read is both, and calls without an id are told apart.
NothingSwallowed ==
  stage = "errors" =>
    /\ Cardinality(ItemsOf(answer)) = Len(raw)
    /\ Len(calls) = Cardinality({i \in DOMAIN raw : Usable(i)})
    /\ Len(errors) = Cardinality({i \in DOMAIN raw : ~Usable(i)})
                       + Cardinality({i \in DOMAIN calls : calls[i].args = Malformed})
    /\ \A i, j \in DOMAIN calls :
         i # j /\ calls[i].id = calls[j].id => calls[i].id[1] = "given"

\* An answer that was processed in pieces leaves the events of one that was
\* processed at once: every error, even one equal to another, once, in order,
\* and what was decided last.
RecordedOnce ==
  stage = "done" =>
    events =
      (IF HasText(answer) THEN <<<<"text">>>> ELSE <<>>)
        \o [i \in DOMAIN errors |-> <<"error", i, errors[i]>>]
        \o CASE outcome = "partial" -> <<<<"partial">>>>
             [] outcome = "tools" -> <<<<"parsed", calls>>>>
             [] OTHER -> <<>>

\* The model is asked again after an error in its calls.
ErrorsReturned == outcome = "completed" => errors = <<>>

\* The arguments of a call are those the answer gave.
ArgumentsAsSaid == \A i \in DOMAIN calls : calls[i].args # "altered"
=============================================================================
