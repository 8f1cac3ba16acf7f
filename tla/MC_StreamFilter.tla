-------------------------- MODULE MC_StreamFilter --------------------------
(***************************************************************************)
(* Two ASCII bytes, the lead bytes of characters of two and three bytes,   *)
(* their continuation, and a byte that is never valid.                     *)
(***************************************************************************)
EXTENDS StreamFilter

MCByte  == {"a", "b", "lead2", "lead3", "cont", "bad"}
MCWidth == [x \in MCByte |->
  CASE x \in {"a", "b"} -> 1 [] x = "lead2" -> 2 [] x = "lead3" -> 3 [] x = "cont" -> Cont [] x = "bad" -> Bad]

\* Empty pieces, characters, halves of characters, and pieces that end one
\* character and begin the next.
MCPieces == {<<>>, <<"a">>, <<"b">>, <<"a", "b">>, <<"lead2">>, <<"cont">>, <<"bad">>,
             <<"lead3", "cont">>, <<"cont", "a">>, <<"b", "a", "b", "b">>}

\* No stop string; an empty one; one inside another; two that overlap, the later
\* one completed first; one that repeats itself; one that is not ASCII; and one,
\* not UTF-8, that begins inside a character.
MCStopLists == {
  <<>>, <<<<>>>>,
  <<<<"a", "b", "b">>, <<"b">>>>,
  <<<<"b", "b">>, <<"a", "b", "a">>>>,
  <<<<"a", "b", "a", "b", "b">>, <<>>>>,
  <<<<"lead2", "cont", "a">>, <<"a", "lead3", "cont", "cont">>>>,
  <<<<"cont", "a">>>> }
=============================================================================
