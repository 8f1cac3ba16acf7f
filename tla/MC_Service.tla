----------------------------- MODULE MC_Service -----------------------------
(***************************************************************************)
(* Two calls at once, each of any kind, with one token, tool call and two  *)
(* inputs at most, or one call of up to three tokens.                      *)
(***************************************************************************)
EXTENDS Service

\* Inputs of one token and of as many as can be, too many, and none.
MCInputs == {"one", "two", "three", "none"}
MCLength == [i \in MCInputs |-> CASE i = "one" -> 1 [] i = "two" -> 2 [] i = "three" -> 3 [] i = "none" -> 0]
=============================================================================
