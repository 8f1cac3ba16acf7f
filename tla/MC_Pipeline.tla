---------------------------- MODULE MC_Pipeline ----------------------------
(***************************************************************************)
(* Two letters and a character of two bytes, so that the same text can     *)
(* occur twice and a chunk can be held for either reason.                  *)
(***************************************************************************)
EXTENDS Pipeline

MCByte  == {"x", "y", "lead", "cont"}
MCWidth == [b \in MCByte |-> CASE b \in {"x", "y"} -> 1 [] b = "lead" -> 2 [] b = "cont" -> 0]
MCPieces == {<<"x">>, <<"y">>, <<"x", "y">>, <<"lead">>, <<"cont", "x">>}
MCStopLists == {<<>>, <<<<"y", "x">>, <<"x", "x", "y">>>>}
=============================================================================
