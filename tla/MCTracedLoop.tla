---------------------------- MODULE MCTracedLoop ----------------------------
(***************************************************************************)
(* Instances of TracedLoop for TLC.                                        *)
(***************************************************************************)
EXTENDS TracedLoop

TracedCall(t) == [id |-> "c1", tool |-> t, args |-> "a"]
Reply(text, calls, cut) ==
  [text |-> text, calls |-> calls, incomplete |-> cut, cost |-> 1]

\* A plain end, a claim of success, a text too large, text with calls, a cut
\* turn, an email.
TraceMenu ==
  {Reply("plain", <<>>, FALSE), Reply("success", <<>>, FALSE),
   Reply("over", <<>>, FALSE), Reply("plain", <<TracedCall("read")>>, FALSE),
   Reply("none", <<TracedCall("read")>>, TRUE),
   Reply("none", <<TracedCall("write"), TracedCall("email")>>, FALSE)}
=============================================================================
