----------------------------- MODULE MCScenarios -----------------------------
(***************************************************************************)
(* Scenarios for TLC: all twelve.                                          *)
(***************************************************************************)
EXTENDS Scenarios

AllResponses == {ResponseFor(sc, s) : sc \in ScenarioNames, s \in Steps}
CallsMade == UNION {{r.calls[i] : i \in DOMAIN r.calls} : r \in AllResponses}
AllIds  == {c.id : c \in CallsMade}
AllArgs == {c.args : c \in CallsMade}
=============================================================================
