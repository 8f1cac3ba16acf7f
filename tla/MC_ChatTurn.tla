---------------------------- MODULE MC_ChatTurn ----------------------------
\* Two letters and a space, each a token of its own, a token for both letters, and the end.
EXTENDS ChatTurn

CONSTANTS a, b

MCChar == {a, b, Space}
MCPiece == <<<<a>>, <<b>>, <<a, b>>, <<Space>>, <<>>>>

\* The longest token that w begins with, until nothing is left.
RECURSIVE Longest(_)
Longest(w) ==
  IF w = <<>> THEN <<>>
  ELSE LET fits == {t \in Token \ Eog : IsPrefix(Piece[t], w)}
           t    == CHOOSE u \in fits : \A v \in fits : Len(Piece[v]) <= Len(Piece[u])
       IN  <<t>> \o Longest(SubSeq(w, Len(Piece[t]) + 1, Len(w)))

\* Plain text is what does not begin with the text of a special token, here <<b>>.
MCTokenizer(adds, w) ==
  Longest(IF adds /\ w # <<>> /\ w[1] \notin {Space, b} THEN <<Space>> \o w ELSE w)

\* Greedy, top-k below the vocabulary, the defaults, and no top-k.
Samplings == {<<0, 0>>, <<1, 2>>, <<Unset, Unset>>, <<1, 0>>}

User == [role |-> "user", content |-> <<"text">>]
System == [role |-> "system", content |-> <<"text">>]
Plain == [kind |-> "Chat", messages |-> <<User>>, tools |-> <<>>, schema |-> "none",
          temperature |-> 0, top_k |-> 0, stop |-> <<"stop">>]

MCTurns ==
  {[Plain EXCEPT !.temperature = s[1], !.top_k = s[2], !.tools = t[1], !.schema = t[2], !.kind = t[3]] :
     s \in Samplings, t \in {<<<<>>, "none", "Generate">>, <<<<>>, "object", "Chat">>, <<<<"none", "object">>, "none", "Chat">>}}
  \cup {[Plain EXCEPT !.schema = s] : s \in {"none", "broken", "array", "empty"}}
  \cup {[Plain EXCEPT !.tools = <<"object", t>>, !.schema = "object"] : t \in {"none", "broken"}}
  \cup {[Plain EXCEPT !.tools = <<"object", "broken">>]}
  \cup {[Plain EXCEPT !.messages = <<System, User>>, !.schema = "object"]}

\* Openings that a space is put in front of, that are a space, and that are special;
\* with a thinking block that can be closed, and one that cannot.
Style == [header |-> <<>>, thinks |-> FALSE, obeys |-> TRUE, opened |-> <<b>>, closed |-> <<b, b>>,
          json |-> {<<b>>, <<a, b>>, <<a, Space, a>>}, parses |-> TRUE]
MCStyles ==
  {[Style EXCEPT !.header = h, !.parses = p] : h \in {<<>>, <<a>>, <<Space>>, <<b>>}, p \in BOOLEAN}
  \cup {[Style EXCEPT !.json = {<<b, a>>, <<Space, b>>, <<a>>}]}
  \cup {[Style EXCEPT !.header = <<b>>, !.thinks = TRUE, !.obeys = o, !.json = {<<a>>, <<a, Space>>}] : o \in BOOLEAN}

\* A word that is one token, preserved or not, and one that begins in the middle of it;
\* tokens with and without a text; patterns for a part and for the whole of the reply.
MCToolFormats ==
  {[call |-> {<<b, a>>, <<a, b>>, <<a, b, a>>}, triggers |-> w \cup p, preserved |-> v] :
     w \in {{[type |-> "WORD", text |-> <<a, b>>]}, {[type |-> "TOKEN", text |-> <<b>>], [type |-> "TOKEN", text |-> <<>>]},
            {[type |-> "WORD", text |-> <<b, a>>], [type |-> "WORD", text |-> <<a, b>>]}},
     p \in {{}, {[type |-> "PATTERN", text |-> <<b, a>>]}, {[type |-> "PATTERN_FULL", text |-> x] : x \in {<<>>, <<a>>}}},
     v \in {{}, {<<a, b>>, <<b>>}}}
=============================================================================
