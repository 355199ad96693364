---------------------------- MODULE MCToolBatch ----------------------------
(***************************************************************************)
(* Instances of BatchPhase for TLC: batches of up to four calls.           *)
(***************************************************************************)
EXTENDS BatchPhase

Read(i, p)     == [id |-> i, tool |-> "read", target |-> p, content |-> None]
Python(i, p, c) == [id |-> i, tool |-> "read", target |-> p, content |-> c]
Write(i, p, c) == [id |-> i, tool |-> "write", target |-> p, content |-> c]
Mail(i, m)     == [id |-> i, tool |-> "email", target |-> m, content |-> None]

\* Two reads that share id, name and arguments.
TwinReads == {<<Read("c1", "f"), Read("c1", "f")>>}

\* One read and three side effects; two reads and an email; two writes to one
\* file and an email that is refused; one email asked under two ids; a write
\* asked twice, at once and with another write in between; an email sent before
\* another one is refused; two reads that share everything.
PlainBatches ==
  TwinReads
  \cup {<<Mail("c1", "m"), Write("c2", "f", "x"), Read("c3", "f"), Write("c4", "g", "y")>>,
        <<Read("c1", "f"), Mail("c2", "m"), Read("c3", "g")>>,
        <<Write("c1", "f", "x"), Write("c2", "f", "y"), Mail("c3", "bad")>>,
        <<Mail("c1", "m"), Mail("c2", "m"), Write("c3", "f", "x")>>,
        <<Write("c1", "f", "x"), Write("c1", "f", "x"), Mail("c3", "bad")>>,
        <<Write("c1", "f", "x"), Write("c2", "f", "y"), Write("c1", "f", "x")>>,
        <<Write("c1", "g", "x"), Mail("c2", "m"), Mail("c3", "bad")>>}

\* A run_python and a write that share a file, in both orders of the calls, with
\* an email that is refused; two run_python that race for a file.
PythonBatches ==
  {<<Python("c1", "f", "x"), Write("c2", "f", "y"), Mail("c3", "bad")>>,
   <<Write("c1", "f", "y"), Python("c2", "f", "x"), Write("c3", "g", "y")>>,
   <<Python("c1", "g", "x"), Python("c2", "g", "y"), Write("c3", "g", "x")>>}

MixedBatches == PlainBatches \cup PythonBatches
=============================================================================
