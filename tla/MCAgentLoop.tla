---------------------------- MODULE MCAgentLoop ----------------------------
(***************************************************************************)
(* Instances of AgentLoop for TLC: menus of model answers.                 *)
(***************************************************************************)
EXTENDS AgentLoop

TheCall(i, t, a) == [id |-> i, tool |-> t, args |-> a]
Say(text, n)     == [text |-> text, calls |-> <<>>, incomplete |-> FALSE, cost |-> n]
Ask(calls, n)    == [text |-> "none", calls |-> calls, incomplete |-> FALSE, cost |-> n]

Read1  == TheCall("c1", "read", "a")
Read2  == TheCall("c2", "read", "a")
Write1 == TheCall("c1", "write", "a")
Mail1  == TheCall("c1", "email", "a")
Mail2  == TheCall("c2", "email", "a")
MailX  == TheCall("c1", "email", "bad")

\* Answers about the loop: the same call repeated under new ids, a call that
\* breaks the repetition, a truncated turn, a plain end, a claim of success.
LoopMenu ==
  {Say("plain", 1), Say("success", 2),
   Ask(<<Read1>>, 1), Ask(<<Read2>>, 1), Ask(<<Write1>>, 2),
   [text |-> "plain", calls |-> <<Read1>>, incomplete |-> TRUE, cost |-> 1]}

\* Answers about the tools: a mixed batch, a batch whose email is refused after
\* a write, a repeated call, the email again under another id, a duplicate, a text
\* too large for the memory.
ToolMenu ==
  {Say("success", 1),
   Ask(<<Mail1, Write1, Read1>>, 1),
   Ask(<<Write1, Mail1, MailX>>, 1),
   Ask(<<Read1, Read1>>, 1),
   Ask(<<Mail2>>, 1),
   Say("over", 1)}

\* Only the email, under two ids, and an end.
MailMenu == {Say("plain", 1), Ask(<<Mail1>>, 1), Ask(<<Mail2>>, 1)}

\* Texts and results of every size.
SizeMenu == {Say("plain", 1), Say("over", 1), Ask(<<Read1>>, 1)}

\* A run stops at the step limit only when its last recorded answer asks for
\* more: a resumed process finishes what a recorded answer decides.
LastAnswerCounts ==
  run.reason = "MaxStepsReachedError" /\ HasResponse(run.step)
    => CallsAt(run.step) # <<>>
=============================================================================
