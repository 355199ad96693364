---------------------------- MODULE EmailOutbox ----------------------------
(***************************************************************************)
(* What the runtime promises about send_email, whatever the model asks and *)
(* however often the process dies: each logical email is decided once,     *)
(* sent or refused for good, and none is sent after untrusted tool data    *)
(* has entered the conversation.  AgentLoop and ToolBatch implement it.    *)
(***************************************************************************)
CONSTANT Emails

VARIABLES
  outbox,     \* the decision about each logical email
  untrusted   \* has a tool result entered the conversation?

vars == <<outbox, untrusted>>

Init ==
  /\ outbox = [e \in Emails |-> "open"]
  /\ untrusted \in BOOLEAN

Send(e) ==
  /\ outbox[e] = "open"
  /\ ~untrusted
  /\ outbox' = [outbox EXCEPT ![e] = "sent"]
  /\ UNCHANGED untrusted

Refuse(e) ==
  /\ outbox[e] = "open"
  /\ outbox' = [outbox EXCEPT ![e] = "refused"]
  /\ UNCHANGED untrusted

Taint == untrusted' = TRUE /\ UNCHANGED outbox

Next == Taint \/ \E e \in Emails : Send(e) \/ Refuse(e)

Spec == Init /\ [][Next]_vars
=============================================================================
