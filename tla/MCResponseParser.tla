--------------------------- MODULE MCResponseParser ---------------------------
(***************************************************************************)
(* Answers for ResponseParser: every shape alone with every item, and the  *)
(* shapes mixed.                                                           *)
(***************************************************************************)
EXTENDS ResponseParser

SomeItem(id, name, args) == [id |-> id, name |-> name, args |-> args]

NoContent == [form |-> "absent", entries |-> <<>>, tool_call |-> None, tool_calls |-> None]
NoAnswer ==
  [tool_calls |-> None, tool_call |-> None, tool_use |-> None,
   content |-> NoContent, message |-> FALSE, partial |-> FALSE, expected |-> 0]

Good      == SomeItem("a", "tool", "object")
Anonymous == SomeItem(None, "tool", "comma")
Nameless  == SomeItem("b", None, "json")
Broken    == SomeItem("b", "tool", "garbled")

Few  == {Good, Anonymous, Nameless, Broken, NotObject}
Objects == Few \ {NotObject}
Lists == UNION {[1 .. n -> Few] : n \in 0 .. 2}
EntryOf(item) == [type |-> "tool_use", item |-> item]
TextEntry == [type |-> "text", item |-> Good]
OtherEntry == [type |-> "other", item |-> Good]

\* Every class of arguments; lists of two; every two shapes at once; turns that
\* were cut; contents of every form.
TestAnswers ==
  {[NoAnswer EXCEPT !.tool_calls = <<i>>] : i \in Item}
    \cup {[NoAnswer EXCEPT !.tool_calls = l, !.partial = p, !.expected = e] :
            l \in Lists, p \in BOOLEAN, e \in 0 .. 2}
    \cup {[NoAnswer EXCEPT !.tool_calls = <<i>>, !.tool_call = j, !.tool_use = <<k>>,
                           !.message = TRUE] :
            i \in Few, j \in Objects, k \in Few}
    \cup {[NoAnswer EXCEPT !.tool_use = <<i>>,
             !.content = [NoContent EXCEPT !.form = "list",
                            !.entries = <<TextEntry, EntryOf(j), OtherEntry, EntryOf(k)>>]] :
            i \in Few, j, k \in Objects}
    \cup {[NoAnswer EXCEPT !.tool_call = i,
             !.content = [NoContent EXCEPT !.form = f, !.tool_call = j,
                                           !.tool_calls = <<k>>]] :
            i \in Objects, f \in {"text", "json"}, j \in Objects, k \in Few}
=============================================================================
