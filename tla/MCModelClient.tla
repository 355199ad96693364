---------------------------- MODULE MCModelClient ----------------------------
(***************************************************************************)
(* Instances of ModelClient for TLC.                                       *)
(***************************************************************************)
EXTENDS ModelClient

\* A header that is negative, zero, or longer than the first backoff delays.
HeaderValues == {-1, 0, 3}
=============================================================================
