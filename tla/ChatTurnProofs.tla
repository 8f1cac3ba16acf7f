--------------------------- MODULE ChatTurnProofs ---------------------------
(***************************************************************************)
(* Theorems about ChatTurn and the Sampler under it, for every vocabulary, *)
(* grammar, template and reply of any length.                              *)
(***************************************************************************)
EXTENDS ChatTurn, Extremes, SequenceTheorems, FiniteSetTheorems, TLAPS

-----------------------------------------------------------------------------
(* Texts *)

USE DEF Text

\* x is in s, behind the first m tokens.
At(x, s, m) == m + Len(x) <= Len(s) /\ \A j \in 1..Len(x) : s[m + j] = x[j]

\* What a stretch of a text is made of.
LEMMA StretchIs ==
  ASSUME NEW s \in Seq(Char), NEW m \in 0..Len(s), NEW n \in m..Len(s)
  PROVE  /\ SubSeq(s, m + 1, n) \in Seq(Char) /\ Len(SubSeq(s, m + 1, n)) = n - m
         /\ \A j \in 1..(n - m) : SubSeq(s, m + 1, n)[j] = s[m + j]
<1>1. Len(s) \in Nat /\ \A i \in (m + 1)..n : s[i] \in Char
  BY LenProperties, ElementOfSeq
<1>2. /\ SubSeq(s, m + 1, n) \in Seq(Char)
      /\ Len(SubSeq(s, m + 1, n)) = IF m + 1 <= n THEN n - (m + 1) + 1 ELSE 0
      /\ \A j \in 1..(n - (m + 1) + 1) : SubSeq(s, m + 1, n)[j] = s[(m + 1) + j - 1]
  BY <1>1, SubSeqProperties
<1>3. n - (m + 1) + 1 = n - m /\ \A j \in 1..(n - m) : (m + 1) + j - 1 = m + j
  BY <1>1
<1>4. Len(SubSeq(s, m + 1, n)) = n - m
  BY <1>1, <1>2
<1> QED BY <1>2, <1>3, <1>4

\* A stretch of s is x exactly if x is at its place.
LEMMA StretchAt ==
  ASSUME NEW x \in Seq(Char), NEW s \in Seq(Char), NEW m \in Nat, m + Len(x) <= Len(s)
  PROVE  SubSeq(s, m + 1, m + Len(x)) = x <=> At(x, s, m)
<1>1. Len(x) \in Nat /\ Len(s) \in Nat /\ m \in 0..Len(s) /\ m + Len(x) \in m..Len(s)
  BY LenProperties
<1> DEFINE u == SubSeq(s, m + 1, m + Len(x))
<1>2. u \in Seq(Char) /\ Len(u) = Len(x) /\ \A j \in 1..Len(x) : u[j] = s[m + j]
  <2>1. (m + Len(x)) - m = Len(x)
    BY <1>1
  <2> QED BY <1>1, <2>1, StretchIs
<1> HIDE DEF u
<1>3. ASSUME At(x, s, m) PROVE u = x
  <2>1. \A j \in 1..Len(u) : u[j] = x[j]
    BY <1>2, <1>3 DEF At
  <2> QED BY <1>2, <2>1, SeqEqual
<1>4. ASSUME u = x PROVE At(x, s, m)
  BY <1>2, <1>4 DEF At
<1> QED BY <1>3, <1>4 DEF u

\* A prefix of what s has behind its first m tokens.
LEMMA PrefixAt ==
  ASSUME NEW x \in Seq(Char), NEW s \in Seq(Char), NEW m \in 0..Len(s)
  PROVE  IsPrefix(x, SubSeq(s, m + 1, Len(s))) <=> At(x, s, m)
<1>1. Len(x) \in Nat /\ Len(s) \in Nat
  BY LenProperties
<1> DEFINE u == SubSeq(s, m + 1, Len(s))
<1>2. u \in Seq(Char) /\ Len(u) = Len(s) - m /\ \A j \in 1..(Len(s) - m) : u[j] = s[m + j]
  BY <1>1, StretchIs
<1>3. SubSeq(x, 1, Len(x)) = x
  BY SubSeqFull
<1> HIDE DEF u
<1>4. CASE m + Len(x) <= Len(s)
  <2>1. Len(x) <= Len(u) /\ 0 + Len(x) <= Len(u)
    BY <1>1, <1>2, <1>4
  <2>2. SubSeq(u, 0 + 1, 0 + Len(x)) = x <=> At(x, u, 0)
    BY <1>2, <2>1, StretchAt
  <2>3. 0 + 1 = 1 /\ 0 + Len(x) = Len(x)
    BY <1>1
  <2>4. At(x, u, 0) <=> At(x, s, m)
    <3>1. \A j \in 1..Len(x) : u[0 + j] = s[m + j]
      BY <1>1, <1>2, <1>4
    <3> QED BY <1>1, <1>4, <2>1, <3>1 DEF At
  <2> QED BY <1>3, <2>1, <2>2, <2>3, <2>4 DEF IsPrefix, u
<1>5. CASE ~(m + Len(x) <= Len(s))
  <2>1. ~(Len(x) <= Len(u))
    BY <1>1, <1>2, <1>5
  <2> QED BY <1>5, <2>1 DEF IsPrefix, At, u
<1> QED BY <1>4, <1>5

\* A prefix of s.
LEMMA PrefixIs ==
  ASSUME NEW x \in Seq(Char), NEW s \in Seq(Char)
  PROVE  IsPrefix(x, s) <=> At(x, s, 0)
<1>1. 0 \in 0..Len(s) /\ SubSeq(s, 0 + 1, Len(s)) = s
  BY LenProperties, SubSeqFull
<1> QED BY <1>1, PrefixAt

\* A part of s.
LEMMA PartAt ==
  ASSUME NEW x \in Seq(Char), NEW s \in Seq(Char)
  PROVE  x \in SubSeqs(s) <=> \E m \in 0..Len(s) : At(x, s, m)
<1>1. Len(x) \in Nat /\ Len(s) \in Nat
  BY LenProperties
<1>2. ASSUME x \in SubSeqs(s) PROVE \E m \in 0..Len(s) : At(x, s, m)
  <2>1. PICK i \in 0..Len(s), j \in 0..Len(s) : x = SubSeq(s, i + 1, j)
    BY <1>2 DEF SubSeqs
  <2>2. CASE i <= j
    <3>1. j \in i..Len(s)
      BY <1>1, <2>2
    <3>2. Len(x) = j - i /\ i + Len(x) = j
      BY <1>1, <2>1, <3>1, StretchIs
    <3>3. At(x, s, i)
      <4>1. x = SubSeq(s, i + 1, i + Len(x)) /\ i \in Nat /\ i + Len(x) <= Len(s)
        BY <1>1, <2>1, <3>2
      <4> QED BY <4>1, StretchAt
    <3> QED BY <3>3
  <2>3. CASE ~(i <= j)
    <3>1. x = <<>>
      BY <2>1, <2>3, SubSeqEmpty
    <3>2. Len(x) = 0
      BY <3>1
    <3>3. At(x, s, 0)
      BY <1>1, <3>2 DEF At
    <3> QED BY <1>1, <3>3
  <2> QED BY <2>2, <2>3
<1>3. ASSUME NEW m \in 0..Len(s), At(x, s, m) PROVE x \in SubSeqs(s)
  <2>1. m + Len(x) <= Len(s) /\ m + Len(x) \in 0..Len(s) /\ m \in Nat
    BY <1>1, <1>3 DEF At
  <2>2. x = SubSeq(s, m + 1, m + Len(x))
    BY <1>3, <2>1, StretchAt
  <2>3. \E i, j \in 0..Len(s) : x = SubSeq(s, i + 1, j)
    BY <2>1, <2>2
  <2> QED BY <2>3 DEF SubSeqs
<1> QED BY <1>2, <1>3

\* What is put in front of a sequence can be taken away again.
LEMMA InFront ==
  ASSUME NEW S, NEW e \in S, NEW s \in Seq(S)
  PROVE  /\ <<e>> \o s \in Seq(S) /\ <<e>> \o s # <<>>
         /\ (<<e>> \o s)[1] = e /\ Tail(<<e>> \o s) = s
<1> DEFINE q == <<e>> \o s
<1>1. <<e>> \in Seq(S) /\ Len(<<e>>) = 1 /\ <<e>>[1] = e /\ Len(s) \in Nat
  BY LenProperties
<1>2. q \in Seq(S) /\ Len(q) = 1 + Len(s)
      /\ \A i \in 1..(1 + Len(s)) : q[i] = IF i <= 1 THEN <<e>>[i] ELSE s[i - 1]
  BY <1>1, ConcatProperties
<1> HIDE DEF q
<1>3. q[1] = e /\ q # <<>>
  <2>1. 1 \in 1..(1 + Len(s)) /\ 1 <= 1
    BY <1>1
  <2>2. q[1] = e
    BY <1>1, <1>2, <2>1
  <2>3. Len(q) # 0
    BY <1>1, <1>2
  <2> QED BY <2>2, <2>3, EmptySeq
<1>4. Tail(q) \in Seq(S) /\ Len(Tail(q)) = Len(s) /\ \A i \in 1..Len(s) : Tail(q)[i] = q[i + 1]
  <2>1. Len(q) - 1 = Len(s)
    BY <1>1, <1>2
  <2> QED BY <1>2, <1>3, <2>1, HeadTailProperties
<1>5. ASSUME NEW i \in 1..Len(s) PROVE q[i + 1] = s[i]
  <2>1. i + 1 \in 1..(1 + Len(s)) /\ ~(i + 1 <= 1) /\ (i + 1) - 1 = i
    BY <1>1
  <2>2. q[i + 1] = s[(i + 1) - 1]
    BY <1>2, <2>1
  <2> QED BY <2>1, <2>2
<1>6. Tail(q) = s
  <2>1. \A i \in 1..Len(Tail(q)) : Tail(q)[i] = s[i]
    BY <1>4, <1>5
  <2> QED BY <1>4, <2>1, SeqEqual
<1> QED BY <1>2, <1>3, <1>6 DEF q

\* A text with another one behind it.
LEMMA TextExtended ==
  ASSUME NEW s \in Text, NEW p \in Text
  PROVE  /\ s \o p \in Text /\ Len(s) \in Nat /\ Len(p) \in Nat /\ Len(s \o p) = Len(s) + Len(p)
         /\ At(p, s \o p, Len(s))
         /\ \A x \in Text, n \in Nat : At(x, s, n) => At(x, s \o p, n)
         /\ \A n \in 0..Len(s) : SubSeq(s \o p, n + 1, Len(s \o p)) = SubSeq(s, n + 1, Len(s)) \o p
<1> DEFINE w == s \o p
<1>1. /\ w \in Seq(Char) /\ Len(s) \in Nat /\ Len(p) \in Nat /\ Len(w) = Len(s) + Len(p)
      /\ \A i \in 1..(Len(s) + Len(p)) : w[i] = IF i <= Len(s) THEN s[i] ELSE p[i - Len(s)]
  BY ConcatProperties, LenProperties
<1> HIDE DEF w
<1>2. At(p, w, Len(s))
  <2>1. ASSUME NEW j \in 1..Len(p) PROVE w[Len(s) + j] = p[j]
    <3>1. Len(s) + j \in 1..(Len(s) + Len(p)) /\ ~(Len(s) + j <= Len(s)) /\ (Len(s) + j) - Len(s) = j
      BY <1>1
    <3> QED BY <1>1, <3>1
  <2> QED BY <1>1, <2>1 DEF At
<1>3. ASSUME NEW x \in Text, NEW n \in Nat, At(x, s, n) PROVE At(x, w, n)
  <2>1. Len(x) \in Nat /\ n + Len(x) <= Len(s)
    BY <1>3, LenProperties DEF At
  <2>2. ASSUME NEW j \in 1..Len(x) PROVE w[n + j] = x[j]
    <3>1. n + j \in 1..(Len(s) + Len(p)) /\ n + j <= Len(s)
      BY <1>1, <2>1
    <3> QED BY <1>1, <1>3, <3>1 DEF At
  <2> QED BY <1>1, <2>1, <2>2 DEF At
<1>4. ASSUME NEW n \in 0..Len(s) PROVE SubSeq(w, n + 1, Len(w)) = SubSeq(s, n + 1, Len(s)) \o p
  <2> DEFINE u == SubSeq(w, n + 1, Len(w))  v == SubSeq(s, n + 1, Len(s))
  <2>1. u \in Seq(Char) /\ Len(u) = Len(w) - n /\ \A j \in 1..(Len(w) - n) : u[j] = w[n + j]
    <3>1. n \in 0..Len(w) /\ Len(w) \in n..Len(w)
      BY <1>1
    <3> QED BY <1>1, <3>1, StretchIs
  <2>2. v \in Seq(Char) /\ Len(v) = Len(s) - n /\ \A j \in 1..(Len(s) - n) : v[j] = s[n + j]
    <3>1. Len(s) \in n..Len(s)
      BY <1>1
    <3> QED BY <3>1, StretchIs
  <2> HIDE DEF u, v
  <2>3. /\ v \o p \in Seq(Char) /\ Len(v \o p) = Len(v) + Len(p)
        /\ \A j \in 1..(Len(v) + Len(p)) : (v \o p)[j] = IF j <= Len(v) THEN v[j] ELSE p[j - Len(v)]
    BY <2>2, ConcatProperties
  <2>4. ASSUME NEW j \in 1..Len(u) PROVE u[j] = (v \o p)[j]
    <3>1. /\ u[j] = w[n + j] /\ j \in 1..(Len(v) + Len(p)) /\ n + j \in 1..(Len(s) + Len(p))
          /\ (j <= Len(v) <=> n + j <= Len(s)) /\ j - Len(v) = (n + j) - Len(s)
      BY <1>1, <2>1, <2>2
    <3>2. CASE j <= Len(v)
      <4>1. v[j] = s[n + j]
        BY <2>2, <3>2
      <4> QED BY <1>1, <2>3, <3>1, <3>2, <4>1
    <3>3. CASE ~(j <= Len(v))
      BY <1>1, <2>3, <3>1, <3>3
    <3> QED BY <3>2, <3>3
  <2>5. Len(u) = Len(v \o p)
    BY <1>1, <2>1, <2>2, <2>3
  <2>6. u = v \o p
    BY <2>1, <2>3, <2>4, <2>5, SeqEqual
  <2> QED BY <2>6 DEF u, v
<1> QED BY <1>1, <1>2, <1>3, <1>4 DEF w

\* The empty text, and what a sleeping grammar has instead of a text.
LEMMA TextsAre == <<>> \in Text /\ \A s \in Text : s # Asleep
<1>1. ASSUME NEW s \in Text PROVE s # Asleep
  <2> SUFFICES ASSUME s = Asleep PROVE FALSE
    OBVIOUS
  <2>1. Len(s) = 1 /\ s[1] = 0
    BY DEF Asleep
  <2>2. s[1] \in Char
    BY <2>1, ElementOfSeq
  <2> QED BY <2>1, <2>2, VocabularyTyped
<1> QED BY <1>1, EmptySeq

\* The piece of a token is a text, and empty only if it ends the reply.
LEMMA PieceIs == \A t \in Token : Piece[t] \in Text /\ (Piece[t] = <<>> <=> t \in Eog)
BY VocabularyTyped

-----------------------------------------------------------------------------
(* Rendering and resolving *)

\* Nothing is spelled by no tokens.
LEMMA NothingSpelled == Spelled(<<>>) = <<>>
<1>1. [i \in DOMAIN <<>> |-> Piece[<<>>[i]]] = <<>>
  OBVIOUS
<1> QED BY <1>1 DEF Spelled, FlattenSeq

\* The opening that render() asks a template for is one that its grammar begins with,
\* but for a thinking block that the template leaves open against the asking.
LEMMA OpeningIsViable ==
  ASSUME NEW s \in Styles, schema_turn
  PROVE  /\ s.header \o Opening(s) \in Text /\ SchemaGrammar(s) \subseteq Text /\ SchemaGrammar(s) # {}
         /\ ~(s.thinks /\ ~s.obeys) => Viable(SchemaGrammar(s), s.header \o Opening(s))
<1>1. s.header \in Text /\ s.opened \in Text /\ s.closed \in Text /\ s.json \subseteq Text /\ s.json # {}
  BY StylesTyped
<1>2. \A x, y \in Text : x \o y \in Text
  BY ConcatProperties DEF Text
<1>3. Opening(s) \in Text /\ Closed(s) \in Text
  BY <1>1, TextsAre DEF Opening, Closed
<1>4. s.header \o Opening(s) \in Text /\ s.header \o Closed(s) \in Text
  BY <1>1, <1>2, <1>3
<1>5. SchemaGrammar(s) \subseteq Text
  <2>1. \A x \in s.json : (s.header \o Closed(s)) \o x \in Text
    BY <1>1, <1>2, <1>4
  <2> QED BY <2>1 DEF SchemaGrammar
<1>6. PICK x \in s.json : TRUE
  BY <1>1
<1>7. (s.header \o Closed(s)) \o x \in SchemaGrammar(s)
  BY <1>6 DEF SchemaGrammar
<1>8. ASSUME ~(s.thinks /\ ~s.obeys) PROVE Viable(SchemaGrammar(s), s.header \o Opening(s))
  <2>1. Opening(s) = Closed(s)
    BY <1>8 DEF Opening, Closed, enable_thinking
  <2> DEFINE p == s.header \o Closed(s)
  <2>2. p \in Seq(Char) /\ x \in Seq(Char)
    BY <1>1, <1>4, <1>6, TextsAre
  <2> HIDE DEF p
  <2>3. p \o x \in Seq(Char) /\ Len(p) \in Nat /\ Len(x) \in Nat /\ Len(p \o x) = Len(p) + Len(x)
        /\ \A i \in 1..(Len(p) + Len(x)) : (p \o x)[i] = IF i <= Len(p) THEN p[i] ELSE x[i - Len(p)]
    BY <2>2, ConcatProperties, LenProperties
  <2>4. At(p, p \o x, 0)
    BY <2>3 DEF At
  <2>5. IsPrefix(p, p \o x)
    BY <2>2, <2>3, <2>4, PrefixIs
  <2> QED BY <1>7, <2>1, <2>5 DEF Viable, p
<1> QED BY <1>4, <1>5, <1>7, <1>8

\* The prefill of a schema turn is one of those that the tokenizer is known to spell.
LEMMA PrefillKnown == \A s \in Styles : s.header \o Opening(s) \in Prefills
<1> SUFFICES ASSUME NEW s \in Styles PROVE s.header \o Opening(s) \in Prefills
  OBVIOUS
<1>1. Opening(s) \in {<<>>, s.opened, s.closed}
  BY DEF Opening
<1>2. s.header \o Opening(s) \in {s.header \o o : o \in {<<>>, s.opened, s.closed}}
  BY <1>1
<1> QED BY <1>2 DEF Prefills

\* What the tokens of a known text spell, one by one.
LEMMA TokenizedIs ==
  ASSUME adds_space \in BOOLEAN, NEW w \in Prefills \cup Names
  PROVE  /\ tokenize(w) \in Seq(Token \ Eog)
         /\ Spelled(tokenize(w)) = w \/ (adds_space /\ Spelled(tokenize(w)) = <<Space>> \o w)
         /\ tokenize(w) # <<>> =>
              /\ tokenize(w)[1] \in Token \ Eog /\ Spelled(Tail(tokenize(w))) \in Text
              /\ Spelled(tokenize(w)) = Piece[tokenize(w)[1]] \o Spelled(Tail(tokenize(w)))
<1>1. /\ tokenize(w) \in Seq(Token \ Eog)
      /\ Spelled(tokenize(w)) = w \/ (adds_space /\ Spelled(tokenize(w)) = <<Space>> \o w)
      /\ tokenize(w) # <<>> =>
           /\ Spelled(Tail(tokenize(w))) \in Text
           /\ Spelled(tokenize(w)) = Piece[tokenize(w)[1]] \o Spelled(Tail(tokenize(w)))
  BY TokenizerSpells DEF tokenize
<1>2. tokenize(w) # <<>> => tokenize(w)[1] \in Token \ Eog
  <2>1. tokenize(w) # <<>> => 1 \in 1..Len(tokenize(w))
    BY <1>1, EmptySeq, LenProperties
  <2> QED BY <1>1, <2>1, ElementOfSeq
<1> QED BY <1>1, <1>2

\* Where an added space stands alone, resolve() takes it from the prefill and nothing else.
LEMMA NothingElseErased ==
  ASSUME AddedSpaceStandsAlone, adds_space \in BOOLEAN, NEW w \in Prefills, w \in Text, w # <<>>
  PROVE  Spelled(WithoutAddedSpace(w)) = w
<1> DEFINE ids == tokenize(w)
<1>1. /\ Spelled(ids) = w \/ (adds_space /\ Spelled(ids) = <<Space>> \o w)
      /\ ids # <<>> => /\ ids[1] \in Token \ Eog /\ Spelled(Tail(ids)) \in Text
                       /\ Spelled(ids) = Piece[ids[1]] \o Spelled(Tail(ids))
  BY TokenizedIs
<1>2. adds_space /\ Spelled(ids) # w => w[1] # Space /\ Piece[ids[1]] = <<Space>>
  BY DEF AddedSpaceStandsAlone, tokenize
<1>3. /\ Space \in Char /\ <<Space>> \o w # <<>> /\ Tail(<<Space>> \o w) = w
      /\ \A x \in Text : Tail(<<Space>> \o x) = x
  <2>1. Space \in Char
    BY VocabularyTyped
  <2> QED BY <2>1, InFront
<1>4. ids # <<>>
  BY <1>1, <1>3, NothingSpelled
<1>5. WithoutAddedSpace(w) = IF Piece[ids[1]][1] = Space /\ w[1] # Space THEN Tail(ids) ELSE ids
  BY <1>4 DEF WithoutAddedSpace
<1> HIDE DEF ids
<1>6. CASE Spelled(ids) = w
  <2>1. w[1] = Piece[ids[1]][1]
    <3> DEFINE p == Piece[ids[1]]  q == Spelled(Tail(ids))
    <3>1. p \in Seq(Char) /\ p # <<>> /\ q \in Seq(Char) /\ w = p \o q
      BY <1>1, <1>4, <1>6, PieceIs
    <3> HIDE DEF p, q
    <3>2. Len(p) \in Nat \ {0} /\ Len(q) \in Nat
      BY <3>1, EmptySeq, LenProperties
    <3>3. 1 \in 1..(Len(p) + Len(q)) /\ 1 <= Len(p)
      BY <3>2
    <3>4. w[1] = p[1]
      BY <3>1, <3>3, ConcatProperties
    <3> QED BY <3>4 DEF p
  <2> QED BY <1>5, <1>6, <2>1
<1>7. CASE Spelled(ids) # w
  <2>1. w[1] # Space /\ Piece[ids[1]] = <<Space>> /\ Spelled(ids) = <<Space>> \o w
    BY <1>1, <1>2, <1>7
  <2>2. WithoutAddedSpace(w) = Tail(ids)
    BY <1>5, <2>1
  <2>3. <<Space>> \o Spelled(Tail(ids)) = <<Space>> \o w /\ Spelled(Tail(ids)) \in Text
    BY <1>1, <1>4, <2>1
  <2>4. Spelled(Tail(ids)) = w
    BY <1>3, <2>3
  <2> QED BY <2>2, <2>4
<1> QED BY <1>6, <1>7

\* Where an added space stands alone, a name that is one token is that token's text.
LEMMA SingleIs ==
  ASSUME AddedSpaceStandsAlone, adds_space \in BOOLEAN, NEW w \in Names, w \in Text, w # <<>>,
         Len(tokenize(w)) = 1
  PROVE  Piece[tokenize(w)[1]] = w
<1> DEFINE ids == tokenize(w)
<1>1. /\ ids \in Seq(Token \ Eog) /\ ids # <<>>
      /\ Spelled(ids) = w \/ (adds_space /\ Spelled(ids) = <<Space>> \o w)
      /\ ids[1] \in Token \ Eog
      /\ Spelled(ids) = Piece[ids[1]] \o Spelled(Tail(ids))
  <2>1. ids # <<>>
    OBVIOUS
  <2> QED BY <2>1, TokenizedIs
<1>2. adds_space /\ Spelled(ids) # w => Piece[ids[1]] = <<Space>>
  BY DEF AddedSpaceStandsAlone, tokenize
<1>3. Tail(ids) = <<>>
  <2>1. Tail(ids) \in Seq(Token \ Eog) /\ Len(Tail(ids)) = 0
    BY <1>1, HeadTailProperties
  <2> QED BY <2>1, EmptySeq
<1> HIDE DEF ids
<1>4. Spelled(ids) = Piece[ids[1]]
  <2>1. Piece[ids[1]] \in Seq(Char)
    BY <1>1, PieceIs
  <2> QED BY <1>1, <1>3, <2>1, NothingSpelled, ConcatEmptySeq
<1>5. CASE Spelled(ids) # w
  <2>1. <<Space>> = <<Space>> \o w
    BY <1>1, <1>2, <1>4, <1>5
  <2>2. Tail(<<Space>> \o w) = w
    <3>1. Space \in Char
      BY VocabularyTyped
    <3> QED BY <3>1, InFront
  <2>3. Tail(<<Space>>) = <<>>
    OBVIOUS
  <2> QED BY <2>1, <2>2, <2>3
<1> QED BY <1>4, <1>5 DEF ids

-----------------------------------------------------------------------------
(* The invariant *)

TypeInv ==
  /\ turn \in Turns /\ adds_space \in BOOLEAN
  /\ phase \in {"rendering", "called", "building", "loop", "over"}
  /\ said \in Seq(Token) /\ (phase = "loop" => said \in Seq(Token \ Eog))
  /\ text \in Text
  /\ phase \in {"rendering", "called", "building"} =>
       said = <<>> /\ text = <<>> /\ texts = {} /\ cause = "none"
  /\ phase = "loop" => cause = "none"
  /\ {req.temperature, req.top_k} \subseteq Int
  /\ phase \in {"building", "loop"} \/ (phase = "over" /\ cause \in {"none", "prefill"}) => resolved = resolve(req)
  /\ logits \in Logits

\* What a template asks of the reply: nothing, a schema's grammar from its opening
\* on, or a grammar of calls from one of its triggers on.
Free == style = <<>> /\ format = <<>> /\ req.grammar = {} /\ req.lazy = FALSE
Schematic(s) ==
  /\ style = <<s>> /\ format = <<>> /\ schema_turn /\ req.lazy = FALSE
  /\ req.grammar = SchemaGrammar(s) /\ req.prefill = s.header \o Opening(s)
Calling(f) ==
  /\ style = <<>> /\ format = <<f>> /\ req.lazy = TRUE /\ req.parses = TRUE /\ req.grammar = f.call
  /\ req.trigger_words = split_triggers(f.triggers).words
  /\ req.trigger_patterns = split_triggers(f.triggers).patterns
  /\ req.preserved_tokens = f.preserved

RequestInv ==
  \/ Free
  \/ phase # "rendering" /\ cause # "render" /\
       ((\E s \in Styles : Schematic(s)) \/ (\E f \in ToolFormats : Calling(f)))

\* One of the triggers that resolve() handed on has come into the reply.
Heard ==
  \/ \E u \in resolved.trigger_tokens : u \in Range(said)
  \/ \E p \in resolved.trigger_patterns :
       p.text # <<>> /\ IF p.full THEN p.text \in texts ELSE \E n \in 0..Len(text) : At(p.text, text, n)

\* The pattern p is in the reply, behind its first n characters.
Called(p, n) == p.text # <<>> /\ At(p.text, text, n) /\ (p.full => n = 0 /\ p.text \in texts)

\* x is what the reply has from one of them on.
Behind(x) == \E n \in 0..Len(text) :
  /\ x = SubSeq(text, n + 1, Len(text))
  /\ (\E u \in resolved.trigger_tokens : At(Piece[u], text, n)) \/ (\E p \in resolved.trigger_patterns : Called(p, n))

Eager == req.grammar # {} /\ ~req.lazy
Lazy  == req.grammar # {} /\ req.lazy

\* Where the grammar is: an eager one has consumed what the resolved prefill spells and
\* the reply, a lazy one sleeps as long as no trigger is heard, and then has consumed
\* all from one on.
GrammarInv ==
  /\ phase = "building" =>
       grammar = IF req.grammar = {} \/ ~req.parses THEN <<>> ELSE IF req.lazy THEN <<Asleep>> ELSE <<<<>>>>
  /\ phase = "loop" =>
       /\ req.grammar = {} => grammar = <<>>
       /\ Eager => LET x == Spelled(resolved.prefill) \o text
                   IN  grammar = <<x>> /\ Viable(req.grammar, x)
       /\ Lazy => \/ grammar = <<Asleep>> /\ ~Heard
                  \/ Heard /\ \E x \in Text : Behind(x) /\ grammar = <<x>> /\ Viable(req.grammar, x)

\* What a run that was not broken off leaves; in the loop this follows from GrammarInv.
Ended == said # <<>> /\ Last(said) \in Eog
Fits(x) == IF Ended THEN x \in req.grammar ELSE Viable(req.grammar, x)
Followed ==
  /\ Eager => Fits(Spelled(resolved.prefill) \o text)
  /\ Lazy /\ Heard => \E x \in Text : Behind(x) /\ Fits(x)
ReplyInv == phase = "over" /\ cause = "none" => Followed

\* What the grammar refuses before the loop, and in it.
CauseInv ==
  /\ cause = "prefill" => phase = "over" /\ Eager /\ ~Viable(req.grammar, Spelled(resolved.prefill))
  /\ cause = "accept"  => req.lazy

IInv == TypeInv /\ RequestInv /\ GrammarInv /\ ReplyInv /\ CauseInv /\ AskedForIsBinding

-----------------------------------------------------------------------------
(* Triggers *)

\* A text has its words, a word triggers anywhere.
LEMMA AsTextIs == \A w : AsText(w).text = w /\ AsText(w).full = FALSE
BY DEF AsText

\* The names of a tool format.
LEMMA NamesAre ==
  ASSUME NEW f \in ToolFormats
  PROVE  /\ \A g \in f.triggers : g.text \in Names /\ g.text \in Text
         /\ \A w \in f.preserved : w \in Names /\ w \in Text
BY ToolFormatsTyped DEF Names

\* What resolve() makes of a format's triggers: token triggers of those that are
\* preserved tokens, and patterns of all others.
LEMMA ResolvedIs ==
  ASSUME NEW f \in ToolFormats, Calling(f), resolved = resolve(req), adds_space \in BOOLEAN
  PROVE  /\ \A u \in resolved.trigger_tokens :
              u \in Token \ Eog /\ \E g \in f.triggers : g.text # <<>> /\ AsToken(f, g) /\ u = tokenize(g.text)[1]
         /\ \A p \in resolved.trigger_patterns :
              /\ p.text \in Text /\ p.full \in BOOLEAN /\ (p.text = <<>> => p.full)
              /\ \E g \in f.triggers : ~AsToken(f, g) /\ p.text = g.text /\ p.full = (g.type = "PATTERN_FULL")
         /\ \A g \in f.triggers : g.text # <<>> =>
              IF AsToken(f, g) THEN tokenize(g.text)[1] \in resolved.trigger_tokens
              ELSE \E p \in resolved.trigger_patterns : p.text = g.text /\ p.full = (g.type = "PATTERN_FULL")
<1> DEFINE single == {w \in req.trigger_words : Len(tokenize(w)) = 1 /\ tokenize(w)[1] \in SingleTokens(req.preserved_tokens)}
<1>1. /\ resolved.trigger_tokens = SingleTokens(single)
      /\ resolved.trigger_patterns = req.trigger_patterns \cup {AsText(w) : w \in req.trigger_words \ single}
  <2>1. req.grammar # {} /\ req.lazy
    BY ToolFormatsTyped DEF Calling
  <2> QED BY <2>1 DEF resolve
<1>2. SingleTokens(single) = {tokenize(w)[1] : w \in single}
  <2>1. {u \in single : Len(tokenize(u)) = 1} = single
    OBVIOUS
  <2> QED BY <2>1 DEF SingleTokens
<1>3. \A g \in f.triggers : /\ g.type \in {"WORD", "TOKEN", "PATTERN", "PATTERN_FULL"}
                            /\ g.text = <<>> => g.type \in {"TOKEN", "PATTERN_FULL"}
  BY ToolFormatsTyped
<1>4. req.trigger_words = {g.text : g \in {h \in f.triggers : h.type \in {"WORD", "TOKEN"} /\ h.text # <<>>}}
  <2>1. req.trigger_words = Texts(f.triggers, {"WORD"}) \cup (Texts(f.triggers, {"TOKEN"}) \ {<<>>})
    BY DEF Calling, split_triggers
  <2> QED BY <1>3, <2>1 DEF Texts
<1>5. req.trigger_patterns = {AsText(x) : x \in Texts(f.triggers, {"PATTERN"})}
                               \cup {[text |-> x, full |-> TRUE] : x \in Texts(f.triggers, {"PATTERN_FULL"})}
  BY DEF Calling, split_triggers, Anchored
<1>6. ASSUME NEW g \in f.triggers, g.text # <<>>
      PROVE  AsToken(f, g) <=> g.type \in {"WORD", "TOKEN"} /\ g.text \in single
  <2>1. req.preserved_tokens = f.preserved
    BY DEF Calling
  <2>2. g.type \in {"WORD", "TOKEN"} => g.text \in req.trigger_words
    BY <1>4, <1>6
  <2> QED BY <2>1, <2>2 DEF AsToken
<1>7. ASSUME NEW u \in resolved.trigger_tokens
      PROVE  u \in Token \ Eog /\ \E g \in f.triggers : g.text # <<>> /\ AsToken(f, g) /\ u = tokenize(g.text)[1]
  <2>1. PICK w \in single : u = tokenize(w)[1]
    BY <1>1, <1>2
  <2>2. PICK g \in f.triggers : g.type \in {"WORD", "TOKEN"} /\ g.text # <<>> /\ w = g.text
    BY <1>4, <2>1
  <2>3. AsToken(f, g)
    BY <1>6, <2>1, <2>2
  <2>4. u \in Token \ Eog
    <3>1. Len(tokenize(w)) = 1 /\ w \in Names
      BY <2>1, <2>2, NamesAre
    <3>2. tokenize(w) # <<>>
      <4>1. tokenize(w) = <<>> => Len(tokenize(w)) = 0
        OBVIOUS
      <4> QED BY <3>1, <4>1
    <3> QED BY <2>1, <3>1, <3>2, TokenizedIs
  <2> QED BY <2>1, <2>2, <2>3, <2>4
<1>8. ASSUME NEW p \in resolved.trigger_patterns
      PROVE  /\ p.text \in Text /\ p.full \in BOOLEAN /\ (p.text = <<>> => p.full)
             /\ \E g \in f.triggers : ~AsToken(f, g) /\ p.text = g.text /\ p.full = (g.type = "PATTERN_FULL")
  <2>1. CASE p \in {AsText(x) : x \in Texts(f.triggers, {"PATTERN"})}
    <3>1. PICK g \in f.triggers : g.type = "PATTERN" /\ p = AsText(g.text)
      BY <2>1 DEF Texts
    <3>2. ~AsToken(f, g) /\ p.text = g.text /\ p.full = FALSE
      BY <3>1, AsTextIs DEF AsToken
    <3> QED BY <1>3, <3>1, <3>2, NamesAre
  <2>2. CASE p \in {[text |-> x, full |-> TRUE] : x \in Texts(f.triggers, {"PATTERN_FULL"})}
    <3>1. PICK g \in f.triggers : g.type = "PATTERN_FULL" /\ p = [text |-> g.text, full |-> TRUE]
      BY <2>2 DEF Texts
    <3>2. ~AsToken(f, g) /\ p.text = g.text /\ p.full = TRUE
      BY <3>1 DEF AsToken
    <3> QED BY <3>1, <3>2, NamesAre
  <2>3. CASE p \in {AsText(w) : w \in req.trigger_words \ single}
    <3>1. PICK w \in req.trigger_words \ single : p = AsText(w)
      BY <2>3
    <3>2. PICK g \in f.triggers : g.type \in {"WORD", "TOKEN"} /\ g.text # <<>> /\ w = g.text
      BY <1>4, <3>1
    <3>3. ~AsToken(f, g) /\ p.text = g.text /\ p.full = FALSE
      BY <1>6, <3>1, <3>2, AsTextIs
    <3> QED BY <3>2, <3>3, NamesAre
  <2> QED BY <1>1, <1>5, <1>8, <2>1, <2>2, <2>3
<1>9. ASSUME NEW g \in f.triggers, g.text # <<>>
      PROVE  IF AsToken(f, g) THEN tokenize(g.text)[1] \in resolved.trigger_tokens
             ELSE \E p \in resolved.trigger_patterns : p.text = g.text /\ p.full = (g.type = "PATTERN_FULL")
  <2>1. CASE AsToken(f, g)
    BY <1>1, <1>2, <1>6, <1>9, <2>1
  <2>2. CASE ~AsToken(f, g) /\ g.type \in {"WORD", "TOKEN"}
    <3>1. g.text \in req.trigger_words \ single
      BY <1>4, <1>6, <1>9, <2>2
    <3>2. AsText(g.text) \in resolved.trigger_patterns
      BY <1>1, <3>1
    <3> QED BY <2>2, <3>2, AsTextIs
  <2>3. CASE g.type = "PATTERN"
    <3>1. AsText(g.text) \in resolved.trigger_patterns
      BY <1>1, <1>5, <2>3 DEF Texts
    <3> QED BY <2>3, <3>1, AsTextIs DEF AsToken
  <2>4. CASE g.type = "PATTERN_FULL"
    <3> DEFINE p == [text |-> g.text, full |-> TRUE]
    <3>1. p \in resolved.trigger_patterns
      BY <1>1, <1>5, <2>4 DEF Texts
    <3>2. p.text = g.text /\ p.full = (g.type = "PATTERN_FULL") /\ ~AsToken(f, g)
      BY <2>4 DEF AsToken
    <3> HIDE DEF p
    <3> QED BY <3>1, <3>2
  <2> QED BY <1>3, <2>1, <2>2, <2>3, <2>4
<1> QED BY <1>7, <1>8, <1>9

\* A format's trigger is in the reply exactly if one that resolve() handed on is heard.
LEMMA TriggeredIs ==
  ASSUME NEW f \in ToolFormats, Calling(f), resolved = resolve(req), adds_space \in BOOLEAN, text \in Text
  PROVE  Triggered(f) <=> Heard
<1>1. \A x \in Text : x \in SubSeqs(text) <=> \E n \in 0..Len(text) : At(x, text, n)
  BY PartAt
<1>2. ASSUME Triggered(f) PROVE Heard
  <2>1. PICK g \in f.triggers : g.text # <<>> /\
          IF AsToken(f, g) THEN tokenize(g.text)[1] \in Range(said)
          ELSE IF g.type = "PATTERN_FULL" THEN g.text \in texts ELSE g.text \in SubSeqs(text)
    BY <1>2 DEF Triggered
  <2>2. CASE AsToken(f, g)
    <3>1. tokenize(g.text)[1] \in resolved.trigger_tokens
      BY <2>1, <2>2, ResolvedIs
    <3> QED BY <2>1, <2>2, <3>1 DEF Heard
  <2>3. CASE ~AsToken(f, g)
    <3>1. PICK p \in resolved.trigger_patterns : p.text = g.text /\ p.full = (g.type = "PATTERN_FULL")
      BY <2>1, <2>3, ResolvedIs
    <3>2. IF p.full THEN p.text \in texts ELSE \E n \in 0..Len(text) : At(p.text, text, n)
      BY <1>1, <2>1, <2>3, <3>1, NamesAre
    <3> QED BY <2>1, <3>1, <3>2 DEF Heard
  <2> QED BY <2>2, <2>3
<1>3. ASSUME NEW u \in resolved.trigger_tokens, u \in Range(said) PROVE Triggered(f)
  <2>1. PICK g \in f.triggers : g.text # <<>> /\ AsToken(f, g) /\ u = tokenize(g.text)[1]
    BY <1>3, ResolvedIs
  <2> QED BY <1>3, <2>1 DEF Triggered
<1>4. ASSUME NEW p \in resolved.trigger_patterns, p.text # <<>>,
             IF p.full THEN p.text \in texts ELSE \E n \in 0..Len(text) : At(p.text, text, n)
      PROVE  Triggered(f)
  <2>1. PICK g \in f.triggers : ~AsToken(f, g) /\ p.text = g.text /\ p.full = (g.type = "PATTERN_FULL")
    BY <1>4, ResolvedIs
  <2>2. IF g.type = "PATTERN_FULL" THEN g.text \in texts ELSE g.text \in SubSeqs(text)
    BY <1>1, <1>4, <2>1, NamesAre
  <2> QED BY <1>4, <2>1, <2>2 DEF Triggered
<1> QED BY <1>2, <1>3, <1>4 DEF Heard

\* Where an added space stands alone, what is behind a trigger that was handed on is
\* behind one of the format's.
LEMMA BehindIsFromTrigger ==
  ASSUME AddedSpaceStandsAlone, NEW f \in ToolFormats, Calling(f), resolved = resolve(req),
         adds_space \in BOOLEAN, text \in Text, NEW x, Behind(x)
  PROVE  x \in FromTrigger(f)
<1>1. PICK n \in 0..Len(text) :
        /\ x = SubSeq(text, n + 1, Len(text))
        /\ (\E u \in resolved.trigger_tokens : At(Piece[u], text, n)) \/ (\E p \in resolved.trigger_patterns : Called(p, n))
  BY DEF Behind
<1>2. \E g \in f.triggers : g.text # <<>> /\ At(g.text, text, n) /\ (g.type = "PATTERN_FULL" => n = 0 /\ g.text \in texts)
  <2>1. ASSUME NEW u \in resolved.trigger_tokens, At(Piece[u], text, n)
        PROVE  \E g \in f.triggers : g.text # <<>> /\ At(g.text, text, n) /\ g.type # "PATTERN_FULL"
    <3>1. PICK g \in f.triggers : g.text # <<>> /\ AsToken(f, g) /\ u = tokenize(g.text)[1]
      BY <2>1, ResolvedIs
    <3>2. Piece[u] = g.text
      <4>1. g.text \in Names /\ g.text \in Text /\ Len(tokenize(g.text)) = 1
        BY <3>1, NamesAre DEF AsToken
      <4> QED BY <3>1, <4>1, SingleIs
    <3>3. g.type # "PATTERN_FULL"
      BY <3>1 DEF AsToken
    <3> QED BY <2>1, <3>1, <3>2, <3>3
  <2>2. ASSUME NEW p \in resolved.trigger_patterns, Called(p, n)
        PROVE  \E g \in f.triggers : g.text # <<>> /\ At(g.text, text, n) /\ (g.type = "PATTERN_FULL" => n = 0 /\ g.text \in texts)
    <3>1. PICK g \in f.triggers : p.text = g.text /\ p.full = (g.type = "PATTERN_FULL")
      BY <2>2, ResolvedIs
    <3> QED BY <2>2, <3>1 DEF Called
  <2> QED BY <1>1, <2>1, <2>2
<1>3. \A g \in f.triggers : IsPrefix(g.text, SubSeq(text, n + 1, Len(text))) <=> At(g.text, text, n)
  BY NamesAre, PrefixAt
<1> QED BY <1>1, <1>2, <1>3 DEF FromTrigger

-----------------------------------------------------------------------------
(* A token *)

\* What the resolved triggers are like, where there is a lazy grammar.
Handed ==
  /\ resolved.trigger_tokens \subseteq Token \ Eog
  /\ \A p \in resolved.trigger_patterns : p.text \in Text /\ (p.text = <<>> => p.full)

\* A token t is said that does not end the reply.
Speaks(t) ==
  /\ said' = Append(said, t) /\ text' = text \o Piece[t] /\ texts' = texts \cup {text'}
  /\ resolved' = resolved

\* The tokens of a reply that has another one.
LEMMA RangeAppended ==
  ASSUME NEW S, NEW s \in Seq(S), NEW t \in S
  PROVE  Range(Append(s, t)) = Range(s) \cup {t}
<1>1. /\ DOMAIN s = 1..Len(s) /\ DOMAIN Append(s, t) = 1..(Len(s) + 1) /\ Len(s) \in Nat
      /\ \A i \in 1..Len(s) : Append(s, t)[i] = s[i]
      /\ Append(s, t)[Len(s) + 1] = t
  <2>1. Append(s, t) \in Seq(S) /\ Len(Append(s, t)) = Len(s) + 1
    BY AppendProperties
  <2> QED BY <2>1, AppendProperties, LenProperties
<1>2. \A i : i \in 1..(Len(s) + 1) <=> i \in 1..Len(s) \/ i = Len(s) + 1
  BY <1>1
<1> QED BY <1>1, <1>2 DEF Range

\* What has been heard stays heard, and what is behind it goes on with the reply.
LEMMA StillBehind ==
  ASSUME text \in Text, said \in Seq(Token), Handed, NEW t \in Token, Speaks(t)
  PROVE  /\ Heard => Heard'
         /\ \A x \in Text : Behind(x) => (x \o Piece[t]) \in Text /\ Behind(x \o Piece[t])'
<1>1. Piece[t] \in Text
  BY PieceIs
<1>2. /\ Len(text) \in Nat /\ text' \in Text /\ Len(text') = Len(text) + Len(Piece[t]) /\ Len(Piece[t]) \in Nat
      /\ \A x \in Text, n \in Nat : At(x, text, n) => At(x, text', n)
      /\ \A n \in 0..Len(text) : SubSeq(text', n + 1, Len(text')) = SubSeq(text, n + 1, Len(text)) \o Piece[t]
  BY <1>1, TextExtended DEF Speaks
<1>3. Range(said') = Range(said) \cup {t} /\ texts \subseteq texts' /\ resolved' = resolved
  BY RangeAppended DEF Speaks
<1>4. \A n \in 0..Len(text) : n \in 0..Len(text') /\ n \in Nat
  BY <1>2
<1>5. ASSUME Heard PROVE Heard'
  <2>1. CASE \E u \in resolved.trigger_tokens : u \in Range(said)
    BY <1>3, <2>1 DEF Heard
  <2>2. ASSUME NEW p \in resolved.trigger_patterns, p.text # <<>>,
               IF p.full THEN p.text \in texts ELSE \E n \in 0..Len(text) : At(p.text, text, n)
        PROVE  Heard'
    <3>1. p.text \in Text
      BY DEF Handed
    <3>2. IF p.full THEN p.text \in texts' ELSE \E n \in 0..Len(text') : At(p.text, text', n)
      BY <1>2, <1>3, <1>4, <2>2, <3>1
    <3> QED BY <1>3, <2>2, <3>2 DEF Heard
  <2> QED BY <1>5, <2>1, <2>2 DEF Heard
<1>6. ASSUME NEW x \in Text, Behind(x) PROVE (x \o Piece[t]) \in Text /\ Behind(x \o Piece[t])'
  <2>1. PICK n \in 0..Len(text) :
          /\ x = SubSeq(text, n + 1, Len(text))
          /\ (\E u \in resolved.trigger_tokens : At(Piece[u], text, n)) \/ (\E p \in resolved.trigger_patterns : Called(p, n))
    BY <1>6 DEF Behind
  <2>2. x \o Piece[t] = SubSeq(text', n + 1, Len(text')) /\ n \in 0..Len(text')
    BY <1>2, <1>4, <2>1
  <2>3. ASSUME NEW u \in resolved.trigger_tokens, At(Piece[u], text, n) PROVE At(Piece[u], text', n)
    <3>1. Piece[u] \in Text
      BY PieceIs DEF Handed
    <3> QED BY <1>2, <1>4, <2>3, <3>1
  <2>4. ASSUME NEW p \in resolved.trigger_patterns, Called(p, n) PROVE Called(p, n)'
    <3>1. p.text \in Text
      BY DEF Handed
    <3>2. At(p.text, text', n)
      BY <1>2, <1>4, <2>4, <3>1 DEF Called
    <3> QED BY <1>3, <2>4, <3>2 DEF Called
  <2>5. (\E u \in resolved.trigger_tokens : At(Piece[u], text', n)) \/ (\E p \in resolved.trigger_patterns : Called(p, n)')
    BY <2>1, <2>3, <2>4
  <2>6. x \o Piece[t] \in Text
    BY <1>1, <1>6, TextExtended
  <2> QED BY <1>3, <2>2, <2>5, <2>6 DEF Behind
<1> QED BY <1>5, <1>6

\* What a token wakes the grammar with is behind a trigger that is heard then; and a
\* trigger that is heard after a token wakes the grammar at that token.
LEMMA WokenByToken ==
  ASSUME text \in Text, said \in Seq(Token), Handed, NEW t \in Token \ Eog, Speaks(t)
  PROVE  /\ \A x \in Trigger(t) : x \in Text /\ Heard' /\ Behind(x)'
         /\ ~Heard /\ Trigger(t) = {} => ~Heard'
<1> DEFINE s == text \o Piece[t]
<1>1. Piece[t] \in Text /\ Piece[t] # <<>>
  BY PieceIs
<1>2. /\ Len(text) \in Nat /\ s \in Text /\ Len(s) = Len(text) + Len(Piece[t]) /\ Len(Piece[t]) \in Nat \ {0}
      /\ At(Piece[t], s, Len(text))
      /\ \A n \in 0..Len(text) : SubSeq(s, n + 1, Len(s)) = SubSeq(text, n + 1, Len(text)) \o Piece[t]
  BY <1>1, TextExtended, EmptySeq
<1>3. Range(said') = Range(said) \cup {t} /\ texts' = texts \cup {s} /\ resolved' = resolved /\ text' = s
  BY RangeAppended DEF Speaks
<1> HIDE DEF s
<1>4. ASSUME NEW p \in resolved.trigger_patterns
      PROVE  /\ p.text \in Text /\ Starts(p, s) \subseteq 0..Len(s)
             /\ p.full => (Starts(p, s) # {} <=> s = p.text)
             /\ ~p.full => \A n \in 0..Len(s) : n \in Starts(p, s) <=> At(p.text, s, n)
  <2>1. p.text \in Text
    BY <1>4 DEF Handed
  <2>2. \A n \in 0..Len(s) : IsPrefix(p.text, SubSeq(s, n + 1, Len(s))) <=> At(p.text, s, n)
    BY <1>2, <2>1, PrefixAt
  <2> QED BY <1>2, <2>1, <2>2 DEF Starts
<1>5. ASSUME NEW x \in Trigger(t), t \in resolved.trigger_tokens
      PROVE  x \in Text /\ Heard' /\ Behind(x)'
  <2>1. x = Piece[t]
    BY <1>5 DEF Trigger
  <2>2. x = SubSeq(s, Len(text) + 1, Len(s))
    <3>1. SubSeq(text, Len(text) + 1, Len(text)) = <<>>
      BY <1>2, SubSeqEmpty
    <3>2. Len(text) \in 0..Len(text)
      BY <1>2
    <3>3. SubSeq(s, Len(text) + 1, Len(s)) = <<>> \o Piece[t]
      BY <1>2, <3>1, <3>2
    <3> QED BY <1>1, <2>1, <3>3, ConcatEmptySeq
  <2>3. Len(text) \in 0..Len(s)
    BY <1>2
  <2>4. Behind(x)'
    BY <1>2, <1>3, <1>5, <2>2, <2>3 DEF Behind
  <2>5. Heard'
    BY <1>3, <1>5 DEF Heard
  <2> QED BY <1>1, <2>1, <2>4, <2>5
<1>6. ASSUME NEW x \in Trigger(t), t \notin resolved.trigger_tokens
      PROVE  x \in Text /\ Heard' /\ Behind(x)'
  <2>1. PICK p \in resolved.trigger_patterns : Starts(p, s) # {} /\ x = SubSeq(s, Min(Starts(p, s)) + 1, Len(s))
    BY <1>6 DEF Trigger, s
  <2>2. PICK n \in 0..Len(s) : n \in Starts(p, s) /\ x = SubSeq(s, n + 1, Len(s))
    <3>1. Starts(p, s) \subseteq Nat
      BY <1>2, <1>4
    <3>2. Min(Starts(p, s)) \in Starts(p, s)
      BY <2>1, <3>1, LeastMember
    <3> QED BY <1>4, <2>1, <3>2
  <2>3. x = SubSeq(s, n + 1, Len(s))
    BY <2>2
  <2>4. x \in Text
    <3>1. Len(s) \in n..Len(s)
      BY <1>2, <2>2
    <3> QED BY <1>2, <2>2, <2>3, <3>1, StretchIs
  <2>5. CASE p.full
    <3>1. s = p.text /\ n = 0
      BY <1>4, <2>1, <2>2, <2>5 DEF Starts
    <3>2. p.text # <<>> /\ At(p.text, s, n)
      BY <1>2, <3>1 DEF At
    <3>3. p.text \in texts'
      BY <1>3, <3>1
    <3>4. Called(p, n)'
      BY <1>3, <3>1, <3>2, <3>3 DEF Called
    <3>5. Heard'
      BY <1>3, <2>5, <3>2, <3>3 DEF Heard
    <3>6. Behind(x)'
      BY <1>3, <2>2, <2>3, <3>4 DEF Behind
    <3> QED BY <2>4, <3>5, <3>6
  <2>6. CASE ~p.full
    <3>1. At(p.text, s, n) /\ p.text # <<>>
      BY <1>4, <2>2, <2>6 DEF Handed
    <3>2. Called(p, n)'
      BY <1>3, <2>6, <3>1 DEF Called
    <3>3. Heard'
      BY <1>3, <2>2, <2>6, <3>1 DEF Heard
    <3>4. Behind(x)'
      BY <1>3, <2>2, <2>3, <3>2 DEF Behind
    <3> QED BY <2>4, <3>3, <3>4
  <2> QED BY <2>5, <2>6
<1>7. ASSUME Heard', ~Heard, Trigger(t) = {} PROVE FALSE
  <2>1. t \notin resolved.trigger_tokens /\ \A p \in resolved.trigger_patterns : Starts(p, s) = {}
    BY <1>7 DEF Trigger, s
  <2>2. \A u \in resolved.trigger_tokens : u \notin Range(said')
    BY <1>3, <1>7, <2>1 DEF Heard
  <2>3. PICK p \in resolved.trigger_patterns :
          p.text # <<>> /\ IF p.full THEN p.text \in texts' ELSE \E n \in 0..Len(s) : At(p.text, s, n)
    BY <1>3, <1>7, <2>2 DEF Heard
  <2>4. CASE p.full
    BY <1>3, <1>4, <1>7, <2>1, <2>3, <2>4 DEF Heard
  <2>5. CASE ~p.full
    BY <1>4, <2>1, <2>3, <2>5
  <2> QED BY <2>4, <2>5
<1> QED BY <1>5, <1>6, <1>7

-----------------------------------------------------------------------------
(* Drawing *)

\* The tokens with the highest logit.
Maxima(logit) == {i \in Token : \A u \in Token : logit[u] <= logit[i]}
Vocabulary == [i \in 1..n_vocab |-> i]

\* Of the first k tokens one has the highest logit.
LEMMA HighestExists ==
  ASSUME NEW logit \in [Token -> Int]
  PROVE  Maxima(logit) # {}
<1> DEFINE Has(k) == \E i \in 1..k : \A u \in 1..k : logit[u] <= logit[i]
           Without == {k \in 1..n_vocab : ~Has(k)}
<1>1. n_vocab \in Nat \ {0} /\ Token = 1..n_vocab
  BY VocabularyTyped DEF Token
<1>2. \A i \in 1..n_vocab : logit[i] \in Int
  BY <1>1
<1>3. Without = {}
  <2> SUFFICES ASSUME Without # {} PROVE FALSE
    OBVIOUS
  <2>1. Without \subseteq Nat
    BY <1>1
  <2> DEFINE m == Min(Without)
  <2>2. m \in Without /\ \A y \in Without : m <= y
    <3> HIDE DEF Without
    <3> QED BY <2>1, LeastMember
  <2> HIDE DEF m
  <2>3. m \in 1..n_vocab /\ ~Has(m)
    BY <2>2
  <2>4. CASE m = 1
    <3>1. \A u \in 1..m : logit[u] <= logit[1]
      BY <1>1, <1>2, <2>4
    <3> QED BY <2>3, <2>4, <3>1
  <2>5. CASE m # 1
    <3>1. m - 1 \in 1..n_vocab /\ ~(m <= m - 1)
      BY <1>1, <2>3, <2>5
    <3>2. Has(m - 1)
      BY <2>2, <3>1
    <3>3. PICK i \in 1..(m - 1) : \A u \in 1..(m - 1) : logit[u] <= logit[i]
      BY <3>2
    <3>4. i \in 1..m /\ m \in 1..m /\ logit[i] \in Int /\ logit[m] \in Int
      BY <1>1, <1>2, <2>3, <3>3
    <3>5. \A u \in 1..m : u \in 1..(m - 1) \/ u = m
      BY <2>3
    <3>6. CASE logit[m] <= logit[i]
      <4>1. \A u \in 1..m : logit[u] <= logit[i]
        BY <3>3, <3>5, <3>6
      <4> QED BY <2>3, <3>4, <4>1
    <3>7. CASE ~(logit[m] <= logit[i])
      <4>1. \A u \in 1..m : logit[u] <= logit[m]
        <5> TAKE u \in 1..m
        <5>1. CASE u = m
          BY <3>4, <5>1
        <5>2. CASE u \in 1..(m - 1)
          <6>1. logit[u] <= logit[i] /\ logit[u] \in Int
            BY <1>1, <1>2, <2>3, <3>3, <5>2
          <6> QED BY <3>4, <3>7, <6>1
        <5> QED BY <3>5, <5>1, <5>2
      <4> QED BY <2>3, <3>4, <4>1
    <3> QED BY <3>6, <3>7
  <2> QED BY <2>4, <2>5
<1>4. Has(n_vocab)
  <2>1. n_vocab \in 1..n_vocab
    BY <1>1
  <2> HIDE DEF Has
  <2> QED BY <1>3, <2>1
<1> QED BY <1>1, <1>4 DEF Maxima

\* The first of the highest in the vocabulary is the least of them.
LEMMA FirstOfAll ==
  ASSUME NEW logit \in [Token -> Int]
  PROVE  /\ FirstHighest(Vocabulary, logit) = Min(Maxima(logit))
         /\ Min(Maxima(logit)) \in Maxima(logit) /\ \A y \in Maxima(logit) : Min(Maxima(logit)) <= y
<1>1. n_vocab \in Nat \ {0} /\ Token = 1..n_vocab
  BY VocabularyTyped DEF Token
<1>2. DOMAIN Vocabulary = Token /\ \A i \in Token : Vocabulary[i] = i
  BY <1>1 DEF Vocabulary
<1>3. Maxima(logit) \subseteq Nat /\ Maxima(logit) # {}
  BY <1>1, HighestExists DEF Maxima
<1>4. Min(Maxima(logit)) \in Maxima(logit) /\ \A y \in Maxima(logit) : Min(Maxima(logit)) <= y
  <2> DEFINE M == Maxima(logit)
  <2> HIDE DEF M
  <2>1. M \subseteq Nat /\ M # {} => Min(M) \in M /\ \A y \in M : Min(M) <= y
    BY LeastMember
  <2> QED BY <1>3, <2>1 DEF M
<1>5. {i \in DOMAIN Vocabulary : \A j \in DOMAIN Vocabulary : logit[Vocabulary[j]] <= logit[Vocabulary[i]]} = Maxima(logit)
  BY <1>2 DEF Maxima
<1>6. FirstHighest(Vocabulary, logit) = Vocabulary[Min(Maxima(logit))]
  BY <1>5 DEF FirstHighest
<1>7. Min(Maxima(logit)) \in Token
  BY <1>4 DEF Maxima
<1> QED BY <1>2, <1>4, <1>6, <1>7

\* The logits with those masked that the grammar refuses.
Masked == [t \in Token |-> IF t \notin Allowed THEN MinusInf ELSE logits[t]]

\* Masking leaves the highest of those that are allowed, if any is.
LEMMA MaskedHighest ==
  ASSUME logits \in Logits, Allowed \subseteq Token, Allowed # {}
  PROVE  /\ Masked \in [Token -> Int] /\ \A t \in Token : t \in Allowed <=> Masked[t] # MinusInf
         /\ Maxima(Masked) = {t \in Allowed : \A u \in Allowed : logits[u] <= logits[t]}
<1>1. \A t \in Token : logits[t] \in Nat
  BY LogitsAreFinite DEF Logits
<1>2. /\ \A t \in Allowed : Masked[t] = logits[t] /\ logits[t] \in Nat
      /\ \A t \in Token \ Allowed : Masked[t] = -1
      /\ Masked \in [Token -> Int]
  BY <1>1 DEF Masked, MinusInf
<1>3. \A t \in Token : t \in Allowed <=> Masked[t] # MinusInf
  BY <1>2 DEF MinusInf
<1>4. PICK a \in Allowed : TRUE
  OBVIOUS
<1>5. ASSUME NEW t \in Maxima(Masked)
      PROVE  t \in Allowed /\ \A u \in Allowed : logits[u] <= logits[t]
  <2>1. t \in Token /\ \A u \in Token : Masked[u] <= Masked[t]
    BY <1>5 DEF Maxima
  <2>2. Masked[a] <= Masked[t] /\ Masked[a] \in Nat
    BY <1>2, <1>4, <2>1
  <2>3. t \in Allowed
    BY <1>2, <2>1, <2>2
  <2> QED BY <1>2, <2>1, <2>3
<1>6. ASSUME NEW t \in Allowed, \A u \in Allowed : logits[u] <= logits[t]
      PROVE  t \in Maxima(Masked)
  <2> SUFFICES ASSUME NEW u \in Token PROVE Masked[u] <= Masked[t]
    BY DEF Maxima
  <2>1. CASE u \in Allowed
    BY <1>2, <1>6, <2>1
  <2>2. CASE u \notin Allowed
    <3>1. Masked[u] = -1 /\ Masked[t] \in Nat
      BY <1>2, <2>2
    <3> QED BY <3>1
  <2> QED BY <2>1, <2>2
<1> QED BY <1>2, <1>3, <1>5, <1>6

\* The array of the whole vocabulary.
LEMMA VocabularyIs ==
  Vocabulary \in Seq(Token) /\ Len(Vocabulary) = n_vocab /\ Range(Vocabulary) = Token /\ n_vocab \in Nat \ {0}
  /\ SubSeq(Vocabulary, 1, n_vocab) = Vocabulary
<1>1. n_vocab \in Nat \ {0} /\ Token = 1..n_vocab
  BY VocabularyTyped DEF Token
<1>2. Vocabulary \in [1..n_vocab -> Token] /\ DOMAIN Vocabulary = 1..n_vocab /\ \A i \in 1..n_vocab : Vocabulary[i] = i
  BY <1>1 DEF Vocabulary
<1>3. Vocabulary \in Seq(Token)
  BY <1>1, <1>2, SeqDef
<1>4. Len(Vocabulary) = n_vocab
  <2>1. Len(Vocabulary) \in Nat /\ 1..Len(Vocabulary) = 1..n_vocab
    BY <1>2, <1>3, LenProperties
  <2> QED BY <1>1, <2>1
<1>5. Range(Vocabulary) = Token
  BY <1>1, <1>2 DEF Range
<1>6. SubSeq(Vocabulary, 1, n_vocab) = Vocabulary
  BY <1>3, <1>4, SubSeqFull
<1> QED BY <1>1, <1>3, <1>4, <1>5, <1>6

\* The draw behind the grammar sees the whole vocabulary, masked.
LEMMA SecondDraw == choose(n_vocab, TRUE) = Select(Vocabulary, Masked, FALSE)
<1>1. Candidates(n_vocab) = {Vocabulary}
  BY DEF Candidates, Vocabulary
<1>2. Sorted(n_vocab) = FALSE
  BY VocabularyIs DEF Sorted
<1>3. [t \in Token |-> IF TRUE /\ t \notin Allowed THEN MinusInf ELSE logits[t]] = Masked
  BY DEF Masked
<1>4. choose(n_vocab, TRUE) = UNION {Select(array, Masked, FALSE) : array \in {Vocabulary}}
  BY <1>1, <1>2, <1>3 DEF choose
<1> QED BY <1>4

\* The first draw sees the logits as they are.
LEMMA FirstDraw ==
  ASSUME logits \in Logits, NEW count
  PROVE  choose(count, FALSE) = UNION {Select(array, logits, Sorted(count)) : array \in Candidates(count)}
<1>1. [t \in Token |-> IF FALSE /\ t \notin Allowed THEN MinusInf ELSE logits[t]] = logits
  BY DEF Logits
<1> QED BY <1>1 DEF choose

\* Whichever draw a token is from, the grammar allows it.
LEMMA SampleIsAllowed ==
  ASSUME logits \in Logits, Allowed \subseteq Token, Allowed # {}
  PROVE  sample \subseteq Allowed
<1> SUFFICES ASSUME NEW t \in Select(Vocabulary, Masked, FALSE) PROVE t \in Allowed
  BY SecondDraw DEF sample
<1>1. CASE req.temperature <= 0
  <2>1. t = FirstHighest(Vocabulary, Masked)
    BY <1>1 DEF Select
  <2>2. t \in Maxima(Masked)
    BY <2>1, MaskedHighest, FirstOfAll
  <2> QED BY <2>2, MaskedHighest
<1>2. CASE ~(req.temperature <= 0)
  <2> DEFINE k == IF req.top_k > 0 /\ req.top_k < Len(Vocabulary) THEN req.top_k ELSE Len(Vocabulary)
             kept == IF FALSE \/ k = Len(Vocabulary) THEN {SubSeq(Vocabulary, 1, k)} ELSE Highest(Range(Vocabulary), Masked, k)
  <2>1. t \in UNION {Range(s) : s \in kept} /\ Masked[t] # MinusInf
    BY <1>2 DEF Select
  <2>2. ASSUME NEW s \in kept PROVE Range(s) \subseteq Token
    <3>1. CASE k = Len(Vocabulary)
      BY <3>1, VocabularyIs
    <3>2. CASE k # Len(Vocabulary)
      <4>1. s \in [1..k -> Token]
        BY <3>2, VocabularyIs DEF Highest
      <4> HIDE DEF k
      <4> QED BY <4>1 DEF Range
    <3> QED BY <3>1, <3>2
  <2> HIDE DEF kept
  <2>3. t \in Token
    BY <2>1, <2>2
  <2> QED BY <2>1, <2>3, MaskedHighest
<1> QED BY <1>1, <1>2

\* A sequence of one token has it as its first highest.
LEMMA OnlyOne ==
  ASSUME NEW x, NEW logit, logit[x] \in Int
  PROVE  FirstHighest(<<x>>, logit) = x
<1> DEFINE S == {i \in DOMAIN <<x>> : \A j \in DOMAIN <<x>> : logit[<<x>>[j]] <= logit[<<x>>[i]]}
<1>1. DOMAIN <<x>> = {1} /\ <<x>>[1] = x
  OBVIOUS
<1>2. S = {1}
  <2>1. logit[<<x>>[1]] <= logit[<<x>>[1]]
    BY <1>1
  <2> QED BY <1>1, <2>1
<1> HIDE DEF S
<1>3. S \subseteq Nat /\ S # {}
  BY <1>2
<1>4. Min(S) \in S
  BY <1>3, LeastMember
<1>5. Min(S) = 1
  BY <1>2, <1>4
<1> QED BY <1>1, <1>5 DEF FirstHighest, S

\* Greedy decoding: the highest of all if it is allowed, else the highest of the masked,
\* and that is the same token.
LEMMA GreedyIsBest ==
  ASSUME logits \in Logits, Allowed \subseteq Token, req.temperature <= 0, NEW t \in sample, t \in Allowed
  PROVE  t = Min({x \in Allowed : \A u \in Allowed : logits[u] <= logits[x]})
<1> DEFINE G == {x \in Allowed : \A u \in Allowed : logits[u] <= logits[x]}
<1>1. logits \in [Token -> Int] /\ \A x \in Token : logits[x] \in Int
  <2>1. Logit \subseteq Int /\ logits \in [Token -> Logit]
    BY LogitsAreFinite DEF Logits
  <2> QED BY <2>1
<1>2. Allowed # {}
  OBVIOUS
<1>3. CASE t \in choose(n_vocab, TRUE)
  <2>1. t = FirstHighest(Vocabulary, Masked)
    BY <1>3, SecondDraw DEF Select
  <2>2. Masked \in [Token -> Int] /\ Maxima(Masked) = G
    BY <1>2, MaskedHighest
  <2> QED BY <2>1, <2>2, FirstOfAll
<1>4. CASE t \in choose(n_selectable, FALSE)
  <2>1. n_selectable = 1
    BY DEF n_selectable
  <2>2. PICK array \in Candidates(1) : t \in Select(array, logits, Sorted(1))
    BY <1>4, <2>1, FirstDraw
  <2>3. t = FirstHighest(array, logits)
    BY <2>2 DEF Select
  <2>4. max_element = Min(Maxima(logits)) /\ max_element \in Maxima(logits) /\ \A y \in Maxima(logits) : max_element <= y
    BY <1>1, FirstOfAll DEF max_element, Vocabulary
  <2>5. t = max_element
    <3>1. CASE array = Vocabulary
      BY <2>3, <3>1 DEF max_element, Vocabulary
    <3>2. CASE array = <<max_element>>
      <4>1. logits[max_element] \in Int
        BY <1>1, <2>4 DEF Maxima
      <4> QED BY <2>3, <3>2, <4>1, OnlyOne
    <3> QED BY <2>2, <3>1, <3>2 DEF Candidates, Vocabulary
  <2>6. t \in G /\ \A u \in Token : logits[u] <= logits[t]
    BY <2>4, <2>5 DEF Maxima
  <2>7. \A y \in G : y \in Maxima(logits)
    <3> SUFFICES ASSUME NEW y \in G, NEW u \in Token PROVE logits[u] <= logits[y]
      BY DEF Maxima
    <3>1. logits[t] <= logits[y] /\ logits[u] <= logits[t]
      BY <2>6
    <3>2. logits[t] \in Int /\ logits[y] \in Int /\ logits[u] \in Int
      BY <1>1
    <3> QED BY <3>1, <3>2
  <2>8. G \subseteq Nat /\ G # {}
    <3>1. Token \subseteq Nat
      BY VocabularyTyped DEF Token
    <3>2. G \subseteq Allowed
      OBVIOUS
    <3> QED BY <2>6, <3>1, <3>2
  <2> HIDE DEF G
  <2>9. Min(G) \in G /\ \A y \in G : Min(G) <= y
    BY <2>8, LeastMember
  <2>10. Min(G) <= t /\ t <= Min(G)
    BY <2>4, <2>5, <2>6, <2>7, <2>9
  <2>11. Min(G) \in Nat /\ t \in Nat
    BY <2>6, <2>8, <2>9
  <2>12. t = Min(G)
    BY <2>10, <2>11
  <2> QED BY <2>12 DEF G
<1> QED BY <1>3, <1>4 DEF sample

\* A sequence has no more values than places.
LEMMA FewValues ==
  ASSUME NEW k \in Nat, NEW T, NEW s \in [1..k -> T], NEW i \in 1..k, NEW B \in SUBSET (Range(s) \ {s[i]})
  PROVE  Cardinality(B) < k /\ Cardinality(B) \in Nat
<1>1. IsFiniteSet(1..k) /\ Cardinality(1..k) = k
  <2>1. 1 \in Int /\ k \in Int /\ ~(1 > k) /\ k - 1 + 1 = k
    OBVIOUS
  <2> QED BY <2>1, FS_Interval
<1>2. s \in Surjection(1..k, Range(s))
  BY DEF Surjection, Range
<1>3. IsFiniteSet(Range(s)) /\ Cardinality(Range(s)) <= k
  BY <1>1, <1>2, FS_Surjection
<1>4. s[i] \in Range(s)
  BY DEF Range
<1>5. /\ IsFiniteSet(Range(s) \ {s[i]}) /\ Cardinality(Range(s) \ {s[i]}) = Cardinality(Range(s)) - 1
      /\ Cardinality(Range(s)) \in Nat
  BY <1>3, <1>4, FS_RemoveElement, FS_CardinalityType
<1>6. Cardinality(B) <= Cardinality(Range(s) \ {s[i]}) /\ Cardinality(B) \in Nat
  BY <1>5, FS_Subset, FS_CardinalityType
<1> QED BY <1>3, <1>5, <1>6

\* Fewer than k tokens are above one of the k highest.
LEMMA FewAreHigher ==
  ASSUME NEW logit \in [Token -> Int], NEW k \in Nat, NEW s \in Highest(Token, logit, k), NEW i \in 1..k,
         NEW B \in SUBSET Token, \A u \in B : logit[u] > logit[s[i]]
  PROVE  Cardinality(B) < k
<1>1. /\ s \in [1..k -> Token]
      /\ \A m, n \in 1..k : m < n => s[m] # s[n] /\ logit[s[n]] <= logit[s[m]]
      /\ \A u \in Token \ Range(s) : logit[u] <= logit[s[k]]
  BY DEF Highest
<1>2. k \in 1..k /\ s[i] \in Token /\ s[k] \in Token
  BY <1>1
<1>3. logit[s[k]] <= logit[s[i]]
  <2>1. CASE i = k
    BY <1>2, <2>1
  <2>2. CASE i < k
    BY <1>1, <1>2, <2>2
  <2> QED BY <2>1, <2>2
<1>4. ASSUME NEW u \in B PROVE u \in Range(s) \ {s[i]}
  <2>1. logit[u] > logit[s[i]] /\ logit[u] \in Int /\ logit[s[i]] \in Int /\ logit[s[k]] \in Int
    BY <1>2
  <2>2. u # s[i]
    BY <2>1
  <2>3. u \in Range(s)
    <3> SUFFICES ASSUME u \notin Range(s) PROVE FALSE
      OBVIOUS
    <3>1. logit[u] <= logit[s[k]]
      BY <1>1
    <3> QED BY <1>3, <2>1, <3>1
  <2> QED BY <2>2, <2>3
<1> QED BY <1>1, <1>4, FewValues

\* Whichever draw a token is from, fewer than top_k of those allowed are above it.
LEMMA DrawIsHigh ==
  ASSUME logits \in Logits, Allowed \subseteq Token, {req.temperature, req.top_k} \subseteq Int,
         req.temperature > 0, req.top_k > 0, NEW t \in sample, t \in Allowed
  PROVE  Cardinality({u \in Allowed : logits[u] > logits[t]}) < req.top_k
<1> DEFINE k == req.top_k
           B == {u \in Allowed : logits[u] > logits[t]}
<1>1. logits \in [Token -> Int] /\ \A x \in Token : logits[x] \in Int
  <2>1. Logit \subseteq Int /\ logits \in [Token -> Logit]
    BY LogitsAreFinite DEF Logits
  <2> QED BY <2>1
<1>2. k \in Nat \ {0} /\ ~(req.temperature <= 0) /\ n_vocab \in Nat \ {0} /\ t \in Token /\ Allowed # {}
  BY VocabularyIs
<1>3. B \in SUBSET Token /\ \A u \in B : u \in Allowed /\ u \in Token /\ logits[u] > logits[t]
  OBVIOUS
<1>4. req.top_k = k
  OBVIOUS
<1>a. SUFFICES Cardinality(B) < k
  OBVIOUS
<1> HIDE DEF k, B
<1>5. CASE ~(k < n_vocab)
  <2>1. Vocabulary \in [1..n_vocab -> Token] /\ t \in 1..n_vocab /\ Vocabulary[t] = t
    BY <1>2 DEF Vocabulary, Token
  <2>2. B \in SUBSET (Range(Vocabulary) \ {Vocabulary[t]})
    <3>1. \A u \in B : u # t
      BY <1>1, <1>2, <1>3
    <3> QED BY <1>3, <2>1, <3>1, VocabularyIs
  <2>3. Cardinality(B) < n_vocab /\ Cardinality(B) \in Nat
    BY <1>2, <2>1, <2>2, FewValues
  <2> QED BY <1>2, <1>5, <2>3
<1>6. CASE k < n_vocab /\ t \in choose(n_vocab, TRUE)
  <2>1. k < Len(Vocabulary) /\ k # Len(Vocabulary) /\ Range(Vocabulary) = Token
    BY <1>2, <1>6, VocabularyIs
  <2>2. t \in UNION {Range(s) : s \in Highest(Token, Masked, k)}
    <3>1. t \in Select(Vocabulary, Masked, FALSE)
      BY <1>6, SecondDraw
    <3> QED BY <1>2, <1>4, <2>1, <3>1 DEF Select
  <2>3. PICK s \in Highest(Token, Masked, k) : t \in Range(s)
    BY <2>2
  <2>4. s \in [1..k -> Token]
    BY <2>3 DEF Highest
  <2>5. PICK i \in 1..k : t = s[i]
    BY <2>3, <2>4 DEF Range
  <2>6. Masked \in [Token -> Int] /\ Masked[t] = logits[t] /\ \A u \in B : Masked[u] = logits[u]
    BY <1>2, <1>3, MaskedHighest DEF Masked
  <2>7. \A u \in B : Masked[u] > Masked[s[i]]
    BY <1>3, <2>5, <2>6
  <2> QED BY <1>2, <1>3, <2>6, <2>7, FewAreHigher
<1>7. CASE k < n_vocab /\ t \in choose(n_selectable, FALSE)
  <2>1. n_selectable = k
    BY <1>2, <1>4, <1>7 DEF n_selectable
  <2>2. PICK array \in Candidates(k) : t \in Select(array, logits, Sorted(k))
    BY <1>7, <2>1, FirstDraw
  <2>3. Sorted(k)
    BY <1>7 DEF Sorted
  <2>4. CASE k = 1
    <3>1. array = <<max_element>>
      BY <1>2, <1>7, <2>2, <2>4 DEF Candidates
    <3>2. max_element = Min(Maxima(logits)) /\ max_element \in Maxima(logits)
      BY <1>1, FirstOfAll DEF max_element, Vocabulary
    <3>3. max_element \in Token /\ \A u \in Token : logits[u] <= logits[max_element]
      BY <3>2 DEF Maxima
    <3>4. array \in Seq(Token) /\ Len(array) = 1 /\ Range(array) = {max_element}
      BY <3>1, <3>3 DEF Range
    <3>5. SubSeq(array, 1, 1) = array
      <4>1. SubSeq(array, 1, Len(array)) = array
        BY <3>4, SubSeqFull
      <4> QED BY <3>4, <4>1
    <3>6. t \in Range(array)
      BY <1>2, <1>4, <2>2, <2>4, <3>4, <3>5 DEF Select
    <3>7. B = {}
      BY <1>1, <1>2, <1>3, <3>3, <3>4, <3>6
    <3> QED BY <1>2, <3>7, FS_EmptySet
  <2>5. CASE k # 1
    <3>1. array \in Highest(Token, logits, k)
      BY <1>2, <1>7, <2>2, <2>5 DEF Candidates
    <3>2. array \in [1..k -> Token]
      BY <3>1 DEF Highest
    <3>3. array \in Seq(Token) /\ Len(array) = k
      <4>1. array \in Seq(Token)
        BY <1>2, <3>2, SeqDef
      <4>2. Len(array) \in Nat /\ 1..Len(array) = 1..k
        BY <3>2, <4>1, LenProperties
      <4> QED BY <1>2, <4>1, <4>2
    <3>4. SubSeq(array, 1, k) = array
      BY <3>3, SubSeqFull
    <3>5. t \in Range(array)
      <4>1. ~(k < Len(array))
        BY <1>2, <3>3
      <4> QED BY <1>2, <1>4, <2>2, <2>3, <3>3, <3>4, <4>1 DEF Select
    <3>6. PICK i \in 1..k : t = array[i]
      BY <3>2, <3>5 DEF Range
    <3> QED BY <1>1, <1>2, <1>3, <3>1, <3>6, FewAreHigher
  <2> QED BY <2>4, <2>5
<1> QED BY <1>5, <1>6, <1>7 DEF sample

-----------------------------------------------------------------------------
(* The grammar of a run *)

\* Appending and taking away again.
LEMMA AppendedIs ==
  ASSUME NEW S, NEW s \in Seq(S), NEW t \in S
  PROVE  /\ Append(s, t) \in Seq(S) /\ Append(s, t) # <<>>
         /\ Last(Append(s, t)) = t /\ Front(Append(s, t)) = s
<1>1. /\ Append(s, t) \in Seq(S) /\ Append(s, t) # <<>> /\ Len(Append(s, t)) = Len(s) + 1 /\ Len(s) \in Nat
      /\ \A i \in 1..Len(s) : Append(s, t)[i] = s[i] /\ s[i] \in S
      /\ Append(s, t)[Len(s) + 1] = t
  BY AppendProperties, LenProperties, ElementOfSeq
<1> DEFINE u == Append(s, t)  f == SubSeq(u, 1, Len(u) - 1)
<1>2. Last(u) = t
  BY <1>1 DEF Last
<1>3. Len(u) - 1 = Len(s) /\ Len(s) \in Int /\ 1 \in Int
  BY <1>1
<1>4. /\ f \in Seq(S) /\ Len(f) = IF 1 <= Len(s) THEN Len(s) - 1 + 1 ELSE 0
      /\ \A i \in 1..(Len(s) - 1 + 1) : f[i] = u[1 + i - 1]
  <2>1. \A i \in 1..Len(s) : u[i] \in S
    BY <1>1
  <2> HIDE DEF u
  <2> QED BY <1>3, <2>1, SubSeqProperties
<1>5. Len(f) = Len(s)
  BY <1>1, <1>4
<1>6. \A i \in 1..Len(f) : f[i] = s[i]
  <2> TAKE i \in 1..Len(f)
  <2>1. i \in 1..Len(s) /\ i \in 1..(Len(s) - 1 + 1) /\ 1 + i - 1 = i
    BY <1>1, <1>5
  <2>2. f[i] = u[1 + i - 1]
    BY <1>4, <2>1
  <2> QED BY <1>1, <2>1, <2>2
<1>7. f = s
  <2> HIDE DEF f
  <2> QED BY <1>4, <1>5, <1>6, SeqEqual
<1> QED BY <1>1, <1>2, <1>7 DEF Front

\* A grammar that has consumed the beginning of a sentence can go on.
LEMMA GoesOn ==
  ASSUME NEW x \in Text, req.grammar \subseteq Text, grammar = <<x>>, Viable(req.grammar, x)
  PROVE  Awake /\ Allowed \subseteq Token /\ Allowed # {}
<1>1. Awake
  <2>1. x # Asleep
    BY TextsAre
  <2> QED BY <2>1 DEF Awake
<1>2. grammar[1] = x
  OBVIOUS
<1>3. PICK y \in req.grammar : IsPrefix(x, y)
  BY DEF Viable
<1>4. x \in Seq(Char) /\ y \in Seq(Char) /\ Len(x) \in Nat /\ Len(y) \in Nat /\ \A i \in 1..Len(y) : y[i] \in Char
  BY <1>3, LenProperties, ElementOfSeq
<1>5. Len(x) <= Len(y) /\ \A i \in 1..Len(x) : y[i] = x[i]
  <2>1. At(x, y, 0)
    BY <1>3, <1>4, PrefixIs
  <2>2. \A i \in 1..Len(x) : 0 + i = i
    BY <1>4
  <2> QED BY <1>4, <2>1, <2>2 DEF At
<1>6. Allowed \subseteq Token
  BY <1>1, VocabularyTyped DEF Allowed
<1>7. CASE Len(x) = Len(y)
  <2>1. \A i \in 1..Len(y) : x[i] = y[i]
    BY <1>5, <1>7
  <2>2. x = y
    BY <1>4, <1>7, <2>1, SeqEqual
  <2>3. Eog \subseteq Allowed
    BY <1>1, <1>2, <1>3, <2>2 DEF Allowed
  <2> QED BY <1>1, <1>6, <2>3, VocabularyTyped
<1>8. CASE Len(x) < Len(y)
  <2>1. Len(x) + 1 \in 1..Len(y)
    BY <1>4, <1>8
  <2>2. PICK c \in Char : c = y[Len(x) + 1]
    BY <1>4, <2>1
  <2>3. PICK t \in Token \ Eog : Piece[t] = <<c>>
    BY EveryCharIsAToken
  <2> DEFINE z == x \o <<c>>
  <2>4. z \in Seq(Char) /\ Len(z) = Len(x) + 1 /\ \A i \in 1..(Len(x) + 1) : z[i] = IF i <= Len(x) THEN x[i] ELSE c
    <3>1. <<c>> \in Seq(Char) /\ Len(<<c>>) = 1 /\ <<c>>[1] = c
      OBVIOUS
    <3>2. \A i \in 1..(Len(x) + 1) : ~(i <= Len(x)) => i - Len(x) = 1
      BY <1>4
    <3> QED BY <1>4, <3>1, <3>2, ConcatProperties
  <2> HIDE DEF z
  <2>5. At(z, y, 0)
    <3>1. \A i \in 1..Len(z) : y[0 + i] = z[i]
      <4> TAKE i \in 1..Len(z)
      <4>1. 0 + i = i /\ (i \in 1..Len(x) \/ i = Len(x) + 1)
        BY <1>4, <2>4
      <4> QED BY <1>4, <1>5, <2>2, <2>4, <4>1
    <3>2. 0 + Len(z) <= Len(y)
      BY <1>4, <1>8, <2>4
    <3> QED BY <3>1, <3>2 DEF At
  <2>6. IsPrefix(z, y)
    BY <1>4, <2>4, <2>5, PrefixIs
  <2>7. Viable(req.grammar, grammar[1] \o Piece[t])
    BY <1>2, <1>3, <2>3, <2>6 DEF Viable, z
  <2>8. t \in Allowed
    BY <1>1, <2>3, <2>7 DEF Allowed
  <2> QED BY <1>1, <1>6, <2>8
<1> QED BY <1>1, <1>4, <1>5, <1>6, <1>7, <1>8

\* Sentences are texts, and so is a prefill, which the tokenizer is known to spell.
LEMMA GrammarTyped ==
  ASSUME RequestInv
  PROVE  /\ req.grammar \subseteq Text
         /\ Eager => /\ req.prefill \in Text /\ req.prefill \in Prefills
                     /\ \E s \in Styles : Schematic(s)
         /\ req.lazy => \E f \in ToolFormats : Calling(f)
         /\ req.lazy \in BOOLEAN
<1>1. CASE Free
  BY <1>1 DEF Free, Eager
<1>2. CASE \E s \in Styles : Schematic(s)
  <2>1. PICK s \in Styles : Schematic(s)
    BY <1>2
  <2>2. req.grammar = SchemaGrammar(s) /\ req.prefill = s.header \o Opening(s) /\ schema_turn /\ req.lazy = FALSE
    BY <2>1 DEF Schematic
  <2>3. s.header \o Opening(s) \in Text /\ SchemaGrammar(s) \subseteq Text
    BY <2>2, OpeningIsViable
  <2> QED BY <1>2, <2>2, <2>3, PrefillKnown
<1>3. CASE \E f \in ToolFormats : Calling(f)
  <2>1. PICK f \in ToolFormats : Calling(f)
    BY <1>3
  <2>2. req.grammar = f.call /\ req.lazy = TRUE
    BY <2>1 DEF Calling
  <2>3. f.call \subseteq Text
    BY ToolFormatsTyped
  <2> QED BY <1>3, <2>2, <2>3 DEF Eager
<1> QED BY <1>1, <1>2, <1>3 DEF RequestInv

\* What resolve() makes of an eager grammar's prefill spells a text, and where an added
\* space stands alone it spells the prefill.
LEMMA PrefillStands ==
  ASSUME RequestInv, adds_space \in BOOLEAN, resolved = resolve(req), Eager
  PROVE  /\ Spelled(resolved.prefill) \in Text
         /\ AddedSpaceStandsAlone => Spelled(resolved.prefill) = req.prefill
<1> DEFINE w == req.prefill
<1>1. w \in Text /\ w \in Prefills
  BY GrammarTyped
<1>2. resolved.prefill = IF w # <<>> THEN WithoutAddedSpace(w) ELSE <<>>
  BY DEF resolve, Eager
<1> HIDE DEF w
<1>3. CASE w = <<>>
  BY <1>1, <1>2, <1>3, NothingSpelled DEF w
<1>4. CASE w # <<>>
  <2>1. /\ Spelled(tokenize(w)) \in Text
        /\ tokenize(w) # <<>> => Spelled(Tail(tokenize(w))) \in Text
    <3>1. <<Space>> \o w \in Text
      BY <1>1, VocabularyTyped, InFront
    <3> QED BY <1>1, <3>1, TokenizedIs
  <2>2. Spelled(WithoutAddedSpace(w)) \in Text
    BY <2>1 DEF WithoutAddedSpace
  <2>3. AddedSpaceStandsAlone => Spelled(WithoutAddedSpace(w)) = w
    BY <1>1, <1>4, NothingElseErased
  <2> QED BY <1>2, <1>4, <2>2, <2>3 DEF w
<1> QED BY <1>3, <1>4

\* What a lazy grammar is handed are tokens that do not end the reply, and texts.
LEMMA TriggersHanded ==
  ASSUME RequestInv, adds_space \in BOOLEAN, resolved = resolve(req), req.lazy
  PROVE  Handed
<1>1. PICK f \in ToolFormats : Calling(f)
  BY GrammarTyped
<1> QED BY <1>1, ResolvedIs DEF Handed

\* In the loop something can always be drawn, and what is drawn is allowed.
LEMMA DrawsAllowed ==
  ASSUME TypeInv, RequestInv, GrammarInv, phase = "loop"
  PROVE  /\ Allowed \subseteq Token /\ sample \subseteq Allowed /\ sample \subseteq Token
         /\ logits \in Logits /\ said \in Seq(Token \ Eog) /\ said \in Seq(Token) /\ text \in Text
         /\ resolved = resolve(req) /\ adds_space \in BOOLEAN
<1>1. /\ logits \in Logits /\ said \in Seq(Token \ Eog) /\ said \in Seq(Token) /\ text \in Text
      /\ resolved = resolve(req) /\ adds_space \in BOOLEAN
  BY DEF TypeInv
<1>2. Allowed \subseteq Token /\ Allowed # {}
  <2>1. CASE ~Awake
    BY <2>1, VocabularyTyped DEF Allowed, Token
  <2>2. CASE Awake /\ Eager
    <3> DEFINE x == Spelled(resolved.prefill) \o text
    <3>1. x \in Text
      BY <1>1, <2>2, PrefillStands, TextExtended
    <3>2. grammar = <<x>> /\ Viable(req.grammar, x)
      BY <2>2 DEF GrammarInv
    <3> HIDE DEF x
    <3> QED BY <3>1, <3>2, GrammarTyped, GoesOn
  <2>3. CASE Awake /\ Lazy
    <3>1. PICK x \in Text : grammar = <<x>> /\ Viable(req.grammar, x)
      BY <2>3 DEF GrammarInv, Awake
    <3> QED BY <3>1, GrammarTyped, GoesOn
  <2>4. Awake => req.grammar # {}
    BY DEF GrammarInv, Awake
  <2> QED BY <2>1, <2>2, <2>3, <2>4 DEF Eager, Lazy
<1>3. sample \subseteq Allowed
  BY <1>1, <1>2, SampleIsAllowed
<1> QED BY <1>1, <1>2, <1>3

\* A schema turn's prompt begins with a system message that ends in the instruction,
\* and without it is what the caller sent.
LEMMA InstructedIs ==
  ASSUME NEW q \in Turns, q.kind = "Chat", schema_turn
  PROVE  /\ Instructed(q.messages)[1].role = "system"
         /\ Last(Instructed(q.messages)[1].content) = Instruction
         /\ q.messages \in {Tail(Instructed(q.messages)), [Instructed(q.messages) EXCEPT ![1].content = Front(@)]}
<1> DEFINE S == STRING \cup {Instruction, "system"}
           L == [role: STRING, content: Seq(STRING)]
           M == [role: S, content: Seq(S)]
           p == Instructed(q.messages)
           o == [role |-> "system", content |-> <<Instruction>>]
           m == q.messages
<1>1. m \in Seq(M) /\ m # <<>> /\ Instruction \in S /\ "system" \in S
  <2>1. m \in Seq(L) /\ m # <<>>
    BY TurnsTyped
  <2>2. \A c \in Seq(STRING) : c \in Seq(S)
    <3>1. STRING \subseteq S
      OBVIOUS
    <3> HIDE DEF S
    <3> QED BY <3>1, SeqMonotonic
  <2>3. L \subseteq M
    BY <2>2
  <2>4. m \in Seq(M)
    <3> HIDE DEF L, M, m
    <3> QED BY <2>1, <2>3, SeqMonotonic
  <2> QED BY <2>1, <2>4
<1> HIDE DEF S
<1>2. Len(m) \in Nat \ {0} /\ m[1] \in M /\ m \in [1..Len(m) -> M] /\ 1 \in 1..Len(m)
  <2>1. Len(m) \in Nat \ {0} /\ m \in [1..Len(m) -> M]
    <3> HIDE DEF M, m
    <3> QED BY <1>1, EmptySeq, LenProperties
  <2> QED BY <2>1
<1>3. CASE m[1].role = "system"
  <2> DEFINE c == m[1].content
             e == [m[1] EXCEPT !.content = Append(@, Instruction)]
  <2>1. p = [m EXCEPT ![1] = e]
    BY <1>3 DEF Instructed
  <2>2. c \in Seq(S) /\ m[1] = [role |-> "system", content |-> c]
    BY <1>2, <1>3
  <2>3. Last(Append(c, Instruction)) = Instruction /\ Front(Append(c, Instruction)) = c
    <3> HIDE DEF c
    <3> QED BY <1>1, <2>2, AppendedIs
  <2>4. e = [role |-> "system", content |-> Append(c, Instruction)]
    <3> HIDE DEF c, m
    <3> QED BY <2>2
  <2>5. p[1] = e /\ DOMAIN p = 1..Len(m)
    <3> HIDE DEF e, m
    <3> QED BY <1>2, <2>1
  <2>6. [p EXCEPT ![1].content = Front(@)] = m
    <3>1. [e EXCEPT !.content = Front(@)] = m[1]
      <4> HIDE DEF c, m, e
      <4> QED BY <2>2, <2>3, <2>4
    <3>2. [p EXCEPT ![1].content = Front(@)] = [p EXCEPT ![1] = [e EXCEPT !.content = Front(@)]]
      <4> HIDE DEF p, e
      <4> QED BY <2>5
    <3>3. [p EXCEPT ![1] = m[1]] = m
      <4> HIDE DEF m, e, p
      <4> QED BY <1>2, <2>1
    <3> QED BY <3>1, <3>2, <3>3
  <2>7. p[1].role = "system" /\ Last(p[1].content) = Instruction
    <3> HIDE DEF p, e, c
    <3> QED BY <2>3, <2>4, <2>5
  <2> QED BY <2>6, <2>7
<1>4. CASE m[1].role # "system"
  <2>1. p = <<o>> \o m
    BY <1>4 DEF Instructed
  <2>2. o \in M
    <3>1. <<Instruction>> \in Seq(S) /\ "system" \in S
      <4> HIDE DEF M, m
      <4> QED BY <1>1
    <3> QED BY <3>1
  <2>3. p[1] = o /\ Tail(p) = m
    <3> HIDE DEF o, M, m, p
    <3> QED BY <1>1, <2>1, <2>2, InFront
  <2>4. Last(<<Instruction>>) = Instruction
    BY DEF Last
  <2>5. p[1].role = "system" /\ Last(p[1].content) = Instruction
    <3> HIDE DEF p
    <3> QED BY <2>3, <2>4
  <2> QED BY <2>3, <2>5
<1> QED BY <1>3, <1>4

\* The defaults stand where the client set nothing.
LEMMA FromProtoIs ==
  ASSUME NEW q \in Turns
  PROVE  \E temperature, top_k \in Int :
           from_proto(q) = [NoRequest EXCEPT !.temperature = temperature, !.top_k = top_k, !.stop = q.stop]
<1>1. {q.temperature, q.top_k} \subseteq Int \cup {Unset}
  BY TurnsTyped
<1>2. NoRequest.temperature = 1 /\ NoRequest.top_k = 40
  BY DEF NoRequest
<1> DEFINE t == IF q.temperature = Unset THEN NoRequest.temperature ELSE q.temperature
           k == IF q.top_k = Unset THEN NoRequest.top_k ELSE q.top_k
<1>3. t \in Int /\ k \in Int
  BY <1>1, <1>2
<1>4. from_proto(q) = [NoRequest EXCEPT !.temperature = t, !.top_k = k, !.stop = q.stop]
  BY DEF from_proto, NoRequest
<1> QED BY <1>3, <1>4

-----------------------------------------------------------------------------
(* The steps *)

\* Before a request is rendered nothing is asked of the reply.
LEMMA InitEstablishes == Init => IInv
<1> SUFFICES ASSUME Init PROVE IInv
  OBVIOUS
<1>1. /\ turn \in Turns /\ adds_space \in BOOLEAN /\ phase = "rendering" /\ cause = "none"
      /\ said = <<>> /\ text = <<>> /\ texts = {} /\ style = <<>> /\ format = <<>> /\ req = NoRequest
  BY DEF Init, SamplerInit
<1>2. req.temperature = 1 /\ req.top_k = 40 /\ req.grammar = {} /\ req.lazy = FALSE
  BY <1>1 DEF NoRequest
<1>3. logits \in Logits
  <2>1. PICK l \in Logit : TRUE
    BY LogitsAreFinite
  <2>2. [t \in Token |-> l] \in Logits
    BY DEF Logits
  <2>3. logits = CHOOSE x \in Logits : TRUE
    BY DEF Init, SamplerInit
  <2> QED BY <2>2, <2>3
<1>4. said \in Seq(Token) /\ text \in Text
  BY <1>1, EmptySeq
<1>5. TypeInv
  BY <1>1, <1>2, <1>3, <1>4 DEF TypeInv
<1>6. RequestInv
  BY <1>1, <1>2 DEF RequestInv, Free
<1>7. GrammarInv /\ ReplyInv /\ CauseInv /\ AskedForIsBinding
  BY <1>1 DEF GrammarInv, ReplyInv, CauseInv, AskedForIsBinding
<1> QED BY <1>5, <1>6, <1>7 DEF IInv

\* A step that ends rendering leaves what the sampler has alone.
LEMMA RenderKeeps ==
  ASSUME IInv, phase = "rendering", phase' = "called", {req.temperature, req.top_k}' \subseteq Int,
         UNCHANGED <<adds_space, resolved, logits, reply, cause, turn>>
  PROVE  TypeInv' /\ GrammarInv' /\ ReplyInv' /\ CauseInv'
<1>1. TypeInv'
  BY DEF IInv, TypeInv, reply
<1>2. cause' = "none"
  BY DEF IInv, TypeInv
<1> QED BY <1>1, <1>2 DEF GrammarInv, ReplyInv, CauseInv

\* Generate asks for no grammar.
LEMMA GenerateKeeps == IInv /\ Generate => IInv'
<1> SUFFICES ASSUME IInv, Generate PROVE IInv'
  OBVIOUS
<1>1. turn \in Turns /\ turn' = turn /\ turn.kind = "Generate" /\ phase = "rendering" /\ phase' = "called"
  BY DEF IInv, TypeInv, Generate
<1>2. PICK temperature \in Int, top_k \in Int :
        req' = [NoRequest EXCEPT !.temperature = temperature, !.top_k = top_k, !.stop = turn.stop]
  BY <1>1, FromProtoIs DEF Generate
<1>3. {req.temperature, req.top_k}' \subseteq Int /\ req'.grammar = {} /\ req'.lazy = FALSE
  BY <1>2 DEF NoRequest
<1>4. TypeInv' /\ GrammarInv' /\ ReplyInv' /\ CauseInv'
  BY <1>1, <1>3, RenderKeeps DEF Generate
<1>5. style = <<>> /\ format = <<>>
  BY <1>1 DEF IInv, RequestInv, Free
<1>6. RequestInv'
  BY <1>3, <1>5 DEF RequestInv, Free, Generate
<1>7. AskedForIsBinding'
  BY <1>1 DEF AskedForIsBinding
<1> QED BY <1>4, <1>6, <1>7 DEF IInv

\* A request that is not rendered samples nothing.
LEMMA RenderFailsKeeps == IInv /\ RenderFails => IInv'
<1> SUFFICES ASSUME IInv, RenderFails PROVE IInv'
  OBVIOUS
<1>1. phase = "rendering" /\ phase' = "over" /\ cause' = "render"
  BY DEF RenderFails
<1>2. TypeInv'
  BY <1>1 DEF IInv, TypeInv, RenderFails, reply
<1>3. style = <<>> /\ format = <<>> /\ req.grammar = {} /\ req.lazy = FALSE
  BY <1>1 DEF IInv, RequestInv, Free
<1>4. RequestInv'
  BY <1>3 DEF RequestInv, Free, RenderFails
<1>5. GrammarInv' /\ CauseInv' /\ AskedForIsBinding'
  BY <1>1 DEF GrammarInv, CauseInv, AskedForIsBinding
<1>6. ReplyInv'
  BY <1>1 DEF ReplyInv
<1> QED BY <1>2, <1>4, <1>5, <1>6 DEF IInv

\* A turn without tools and schema asks for no grammar either.
LEMMA RenderPlainKeeps == IInv /\ RenderPlain => IInv'
<1> SUFFICES ASSUME IInv, RenderPlain PROVE IInv'
  OBVIOUS
<1>1. turn \in Turns /\ turn' = turn /\ phase = "rendering" /\ phase' = "called" /\ cause' = cause /\ cause = "none"
  BY DEF IInv, TypeInv, RenderPlain, Rendered, Render
<1>2. PICK temperature \in Int, top_k \in Int :
        from_proto(turn) = [NoRequest EXCEPT !.temperature = temperature, !.top_k = top_k, !.stop = turn.stop]
  BY <1>1, FromProtoIs
<1>3. req' = [from_proto(turn) EXCEPT !.stop = @ \o <<"end">>]
  BY DEF RenderPlain, Render
<1>4. {req.temperature, req.top_k}' \subseteq Int /\ req'.grammar = {} /\ req'.lazy = FALSE
  BY <1>2, <1>3 DEF NoRequest
<1>5. TypeInv' /\ GrammarInv' /\ ReplyInv' /\ CauseInv'
  BY <1>1, <1>4, RenderKeeps DEF RenderPlain, Render
<1>6. style' = <<>> /\ format' = <<>>
  BY <1>1 DEF IInv, RequestInv, Free, RenderPlain
<1>7. RequestInv'
  BY <1>4, <1>6 DEF RequestInv, Free
<1>8. turn'.tools = <<>> /\ turn'.schema = "none"
  BY <1>1 DEF RenderPlain, Rendered, Refusal, schema_turn, Constrains
<1>9. AskedForIsBinding'
  BY <1>8 DEF AskedForIsBinding
<1> QED BY <1>5, <1>7, <1>9 DEF IInv

\* A schema turn takes the grammar of the style that the template turns out to have.
LEMMA RenderSchemaKeeps == IInv /\ RenderSchema => IInv'
<1> SUFFICES ASSUME IInv, RenderSchema PROVE IInv'
  OBVIOUS
<1>1. /\ turn \in Turns /\ turn' = turn /\ phase = "rendering" /\ phase' = "called" /\ cause' = cause /\ cause = "none"
      /\ turn.kind = "Chat" /\ turn.tools = <<>> /\ turn.schema = "object" /\ schema_turn
  BY DEF IInv, TypeInv, RenderSchema, Rendered, Render, schema_turn
<1>2. PICK temperature \in Int, top_k \in Int :
        from_proto(turn) = [NoRequest EXCEPT !.temperature = temperature, !.top_k = top_k, !.stop = turn.stop]
  BY <1>1, FromProtoIs
<1>3. PICK s \in Styles :
        /\ style' = <<s>>
        /\ Render([from_proto(turn) EXCEPT !.grammar = SchemaGrammar(s), !.parses = s.parses,
                                           !.prefill = s.header \o Opening(s)])
  BY DEF RenderSchema
<1>4. /\ {req.temperature, req.top_k}' \subseteq Int /\ req'.lazy = FALSE
      /\ req'.grammar = SchemaGrammar(s) /\ req'.prefill = s.header \o Opening(s)
  BY <1>2, <1>3 DEF NoRequest, Render
<1>5. TypeInv' /\ GrammarInv' /\ ReplyInv' /\ CauseInv'
  BY <1>1, <1>3, <1>4, RenderKeeps DEF Render
<1>6. format' = <<>>
  BY <1>1 DEF IInv, RequestInv, Free, RenderSchema
<1>7. SchemaGrammar(s)' = SchemaGrammar(s) /\ Opening(s)' = Opening(s) /\ schema_turn'
  BY <1>1 DEF SchemaGrammar, Opening, Closed, enable_thinking, schema_turn
<1>8. Schematic(s)'
  BY <1>3, <1>4, <1>6, <1>7 DEF Schematic
<1>9. RequestInv'
  BY <1>1, <1>8 DEF RequestInv
<1>10. prompt' = Instructed(turn.messages)
  BY <1>3 DEF Render
<1>11. /\ prompt'[1].role = "system" /\ Last(prompt'[1].content) = Instruction
       /\ turn.messages \in {Tail(prompt'), [prompt' EXCEPT ![1].content = Front(@)]}
  BY <1>1, <1>10, InstructedIs
<1>12. style' # <<>> /\ ~req'.lazy /\ req'.grammar # {}
  BY <1>1, <1>3, <1>4, OpeningIsViable
<1>13. AskedForIsBinding'
  BY <1>1, <1>11, <1>12 DEF AskedForIsBinding
<1> QED BY <1>5, <1>9, <1>13 DEF IInv

\* A turn with tools takes the grammar of its calls, lazily, and has no schema.
LEMMA RenderToolsKeeps == IInv /\ RenderTools => IInv'
<1> SUFFICES ASSUME IInv, RenderTools PROVE IInv'
  OBVIOUS
<1>1. /\ turn \in Turns /\ turn' = turn /\ phase = "rendering" /\ phase' = "called" /\ cause' = cause /\ cause = "none"
      /\ turn.schema = "none"
  BY DEF IInv, TypeInv, RenderTools, Rendered, Render, Refusal, schema_turn
<1>2. PICK temperature \in Int, top_k \in Int :
        from_proto(turn) = [NoRequest EXCEPT !.temperature = temperature, !.top_k = top_k, !.stop = turn.stop]
  BY <1>1, FromProtoIs
<1>3. PICK f \in ToolFormats :
        /\ format' = <<f>>
        /\ Render([from_proto(turn) EXCEPT !.grammar = f.call, !.lazy = TRUE,
                     !.trigger_words = split_triggers(f.triggers).words,
                     !.trigger_patterns = split_triggers(f.triggers).patterns,
                     !.preserved_tokens = f.preserved])
  BY DEF RenderTools
<1>4. /\ {req.temperature, req.top_k}' \subseteq Int /\ req'.lazy = TRUE /\ req'.parses = TRUE /\ req'.grammar = f.call
      /\ req'.trigger_words = split_triggers(f.triggers).words
      /\ req'.trigger_patterns = split_triggers(f.triggers).patterns
      /\ req'.preserved_tokens = f.preserved
  BY <1>2, <1>3 DEF NoRequest, Render
<1>5. TypeInv' /\ GrammarInv' /\ ReplyInv' /\ CauseInv'
  BY <1>1, <1>3, <1>4, RenderKeeps DEF Render
<1>6. style' = <<>>
  BY <1>1 DEF IInv, RequestInv, Free, RenderTools
<1>7. Calling(f)'
  BY <1>3, <1>4, <1>6 DEF Calling
<1>8. RequestInv'
  BY <1>1, <1>7 DEF RequestInv
<1>9. format' # <<>> /\ req'.lazy /\ req'.grammar = format'[1].call
  BY <1>3, <1>4
<1>10. AskedForIsBinding'
  BY <1>1, <1>9 DEF AskedForIsBinding
<1> QED BY <1>5, <1>8, <1>10 DEF IInv

\* Once rendered, a request stays what it is.
LEMMA RequestStands ==
  ASSUME IInv, phase \notin {"rendering", "over"}, phase' # "rendering", cause' # "render",
         UNCHANGED <<adds_space, req, turn, prompt, style, format>>
  PROVE  RequestInv' /\ AskedForIsBinding' /\ (resolve(req))' = resolve(req)
<1>1. cause # "render" /\ phase # "rendering"
  BY DEF IInv, TypeInv
<1>2. AskedForIsBinding'
  BY <1>1 DEF IInv, AskedForIsBinding
<1>3. ASSUME Free PROVE RequestInv'
  BY <1>3 DEF RequestInv, Free
<1>4. ASSUME NEW s \in Styles, Schematic(s) PROVE RequestInv'
  <2>1. Schematic(s)'
    BY <1>4 DEF Schematic, SchemaGrammar, Opening, Closed, enable_thinking, schema_turn
  <2> QED BY <2>1 DEF RequestInv
<1>5. ASSUME NEW f \in ToolFormats, Calling(f) PROVE RequestInv'
  <2>1. Calling(f)'
    BY <1>5 DEF Calling
  <2> QED BY <2>1 DEF RequestInv
<1>6. (resolve(req))' = resolve(req)
  BY DEF resolve, SingleTokens, tokenize, WithoutAddedSpace
<1> QED BY <1>2, <1>3, <1>4, <1>5, <1>6 DEF IInv, RequestInv

\* A run that ends with an error before it samples.
LEMMA OpenFailsKeeps == IInv /\ OpenFails /\ UNCHANGED <<turn, prompt, style, format>> => IInv'
<1> SUFFICES ASSUME IInv, OpenFails, UNCHANGED <<turn, prompt, style, format>> PROVE IInv'
  OBVIOUS
<1>1. phase = "called" /\ phase' = "over" /\ cause' = "llama"
  BY DEF OpenFails
<1>2. TypeInv'
  BY <1>1 DEF IInv, TypeInv, OpenFails, reply
<1>3. RequestInv' /\ AskedForIsBinding'
  BY <1>1, RequestStands DEF OpenFails
<1>4. GrammarInv' /\ CauseInv'
  BY <1>1 DEF GrammarInv, CauseInv
<1>5. ReplyInv'
  BY <1>1 DEF ReplyInv
<1> QED BY <1>2, <1>3, <1>4, <1>5 DEF IInv

\* The grammar is where its kind starts.
LEMMA OpenKeeps == IInv /\ Open /\ UNCHANGED <<turn, prompt, style, format>> => IInv'
<1> SUFFICES ASSUME IInv, Open, UNCHANGED <<turn, prompt, style, format>> PROVE IInv'
  OBVIOUS
<1>1. phase = "called" /\ phase' = "building" /\ cause' = cause /\ cause = "none" /\ req' = req
  BY DEF Open, IInv, TypeInv
<1>2. RequestInv' /\ AskedForIsBinding' /\ (resolve(req))' = resolve(req)
  BY <1>1, RequestStands DEF Open
<1>3. TypeInv'
  BY <1>1, <1>2 DEF IInv, TypeInv, Open, reply
<1>4. GrammarInv'
  BY <1>1 DEF GrammarInv, Open
<1>5. CauseInv' /\ ReplyInv'
  BY <1>1 DEF CauseInv, ReplyInv
<1> QED BY <1>2, <1>3, <1>4, <1>5 DEF IInv

\* What the grammar refuses before the loop is what the resolved prefill spells.
LEMMA BuildFailsKeeps == IInv /\ BuildFails /\ UNCHANGED <<turn, prompt, style, format>> => IInv'
<1> SUFFICES ASSUME IInv, BuildFails, UNCHANGED <<turn, prompt, style, format>> PROVE IInv'
  OBVIOUS
<1>1. /\ phase = "building" /\ phase' = "over" /\ cause' = GrammarFault /\ resolved = resolve(req)
      /\ UNCHANGED <<adds_space, req, resolved, logits, said, text, texts>>
  BY DEF BuildFails, IInv, TypeInv, reply
<1>2. \/ cause' = "parse"
      \/ cause' = "prefill" /\ Eager /\ ~Viable(req.grammar, Spelled(resolved.prefill))
  BY <1>1 DEF BuildFails, GrammarFault, Eager
<1>3. RequestInv' /\ AskedForIsBinding' /\ (resolve(req))' = resolve(req)
  BY <1>1, <1>2, RequestStands
<1>4. TypeInv'
  BY <1>1, <1>2, <1>3 DEF IInv, TypeInv
<1>5. GrammarInv' /\ ReplyInv'
  BY <1>1, <1>2 DEF GrammarInv, ReplyInv
<1>6. CauseInv'
  BY <1>1, <1>2 DEF CauseInv, Eager
<1> QED BY <1>3, <1>4, <1>5, <1>6 DEF IInv

\* The sampling begins behind the prefill, or asleep.
LEMMA BuildKeeps == IInv /\ Build /\ UNCHANGED <<turn, prompt, style, format>> => IInv'
<1> SUFFICES ASSUME IInv, Build, UNCHANGED <<turn, prompt, style, format>> PROVE IInv'
  OBVIOUS
<1>1. /\ phase = "building" /\ phase' = "loop" /\ cause = "none" /\ cause' = cause /\ resolved = resolve(req)
      /\ UNCHANGED <<adds_space, req, resolved, said, text, texts>> /\ said = <<>> /\ text = <<>> /\ texts = {}
      /\ grammar' = PastPrefill /\ GrammarFault = "none" /\ adds_space \in BOOLEAN /\ logits' \in Logits
  BY DEF Build, IInv, TypeInv, reply
<1>2. RequestInv' /\ AskedForIsBinding' /\ (resolve(req))' = resolve(req)
  BY <1>1, RequestStands
<1>3. said \in Seq(Token \ Eog)
  BY <1>1, EmptySeq
<1>4. TypeInv'
  BY <1>1, <1>2, <1>3 DEF IInv, TypeInv
<1>5. CauseInv' /\ ReplyInv'
  BY <1>1 DEF CauseInv, ReplyInv
<1>6. grammar = IF req.grammar = {} \/ ~req.parses THEN <<>> ELSE IF req.lazy THEN <<Asleep>> ELSE <<<<>>>>
  BY <1>1 DEF IInv, GrammarInv
<1>7. CASE req.grammar = {}
  <2>1. grammar' = <<>>
    BY <1>1, <1>6, <1>7 DEF PastPrefill, Awake
  <2>2. GrammarInv'
    BY <1>1, <1>7, <2>1 DEF GrammarInv, Eager, Lazy
  <2> QED BY <1>2, <1>4, <1>5, <2>2 DEF IInv
<1>8. CASE Eager
  <2> DEFINE q == Spelled(resolved.prefill)
  <2>1. Viable(req.grammar, q) /\ req.parses
    BY <1>1, <1>8 DEF GrammarFault, Eager
  <2>2. grammar = <<<<>>>> /\ Awake
    <3>1. <<>> # Asleep
      BY TextsAre
    <3> QED BY <1>6, <1>8, <2>1, <3>1 DEF Awake, Eager
  <2>3. q \o text = q
    <3>1. q \in Seq(Char)
      BY <1>1, <1>8, PrefillStands DEF IInv
    <3> HIDE DEF q
    <3> QED BY <1>1, <3>1, ConcatEmptySeq
  <2>4. grammar' = <<q \o text>> /\ Viable(req.grammar, q \o text)
    BY <1>1, <2>1, <2>2, <2>3 DEF PastPrefill
  <2>5. GrammarInv'
    BY <1>1, <1>8, <2>4 DEF GrammarInv, Eager, Lazy
  <2> QED BY <1>2, <1>4, <1>5, <2>5 DEF IInv
<1>9. CASE Lazy
  <2>1. PICK f \in ToolFormats : Calling(f)
    BY <1>9, GrammarTyped DEF IInv, Lazy
  <2>2. grammar = <<Asleep>>
    BY <1>6, <1>9, <2>1 DEF Calling, Lazy
  <2>3. grammar' = <<Asleep>>
    BY <1>1, <2>2 DEF PastPrefill, Awake
  <2>4. ~Heard
    <3>1. Range(said) = {} /\ texts = {}
      BY <1>1 DEF Range
    <3>2. ASSUME NEW p \in resolved.trigger_patterns, p.text # <<>>, NEW n \in 0..Len(text), At(p.text, text, n)
          PROVE  FALSE
      <4>1. p.text \in Seq(Char)
        BY <1>1, <1>9, <3>2, TriggersHanded DEF IInv, Handed, Lazy
      <4>2. Len(p.text) \in Nat \ {0} /\ Len(text) = 0
        BY <1>1, <3>2, <4>1, EmptySeq
      <4> QED BY <3>2, <4>2 DEF At
    <3> QED BY <3>1, <3>2 DEF Heard
  <2>5. ~Heard'
    BY <1>1, <2>4 DEF Heard
  <2>6. GrammarInv'
    BY <1>1, <1>9, <2>3, <2>5 DEF GrammarInv, Eager, Lazy
  <2> QED BY <1>2, <1>4, <1>5, <2>6 DEF IInv
<1>10. req.lazy \in BOOLEAN
  BY GrammarTyped DEF IInv
<1> QED BY <1>7, <1>8, <1>9, <1>10 DEF Eager, Lazy

\* While it samples, the reply fits the grammar because the grammar has followed it.
LEMMA ReplyFollowed ==
  ASSUME IInv, phase = "loop"
  PROVE  Followed
<1>1. ~Ended
  <2> SUFFICES ASSUME said # <<>> PROVE Last(said) \notin Eog
    BY DEF Ended
  <2>1. said \in Seq(Token \ Eog)
    BY DEF IInv, TypeInv
  <2>2. Len(said) \in 1..Len(said)
    BY <2>1, EmptySeq, LenProperties
  <2> QED BY <2>1, <2>2, ElementOfSeq DEF Last
<1>2. ASSUME Eager PROVE Viable(req.grammar, Spelled(resolved.prefill) \o text)
  BY <1>2 DEF IInv, GrammarInv
<1>3. ASSUME Lazy, Heard PROVE \E x \in Text : Behind(x) /\ Viable(req.grammar, x)
  BY <1>3 DEF IInv, GrammarInv
<1> QED BY <1>1, <1>2, <1>3 DEF Followed, Fits

\* End-of-generation behind a grammar that has followed the reply comes after a sentence.
LEMMA EndsASentence ==
  ASSUME IInv, phase = "loop", NEW t \in sample, t \in Eog, said' = Append(said, t),
         UNCHANGED <<req, resolved, text, texts>>
  PROVE  Followed'
<1>1. /\ t \in Allowed /\ t \in Token /\ said \in Seq(Token) /\ text \in Text
      /\ resolved = resolve(req) /\ adds_space \in BOOLEAN
  BY DrawsAllowed DEF IInv
<1>2. Ended'
  <2>1. said' # <<>> /\ Last(said') = t
    BY <1>1, AppendedIs
  <2> QED BY <2>1 DEF Ended
<1>3. Awake => grammar[1] \in req.grammar
  BY <1>1 DEF Allowed
<1>4. ASSUME Eager PROVE Spelled(resolved.prefill) \o text \in req.grammar
  <2> DEFINE x == Spelled(resolved.prefill) \o text
  <2>1. grammar = <<x>>
    BY <1>4 DEF IInv, GrammarInv
  <2>2. x \in Text
    BY <1>1, <1>4, PrefillStands, TextExtended DEF IInv
  <2> HIDE DEF x
  <2>3. x \in req.grammar
    BY <1>3, <2>1, <2>2, TextsAre DEF Awake
  <2> QED BY <2>3 DEF x
<1>5. ASSUME Lazy, Heard' PROVE \E x \in Text : Behind(x) /\ x \in req.grammar
  <2>1. Heard
    <3>1. resolved.trigger_tokens \subseteq Token \ Eog
      BY <1>1, <1>5, TriggersHanded DEF IInv, Lazy, Handed
    <3>2. Range(said') = Range(said) \cup {t}
      BY <1>1, RangeAppended
    <3> QED BY <1>5, <3>1, <3>2 DEF Heard
  <2>2. PICK x \in Text : Behind(x) /\ grammar = <<x>>
    BY <1>5, <2>1 DEF IInv, GrammarInv
  <2>3. x \in req.grammar
    BY <1>3, <2>2, TextsAre DEF Awake
  <2> QED BY <2>2, <2>3
<1>6. \A x : Behind(x)' <=> Behind(x)
  BY DEF Behind, Called
<1> QED BY <1>2, <1>4, <1>5, <1>6 DEF Followed, Fits, Eager, Lazy

\* A token that does not end the reply: the grammar follows it, or wakes where its trigger is.
LEMMA GrammarFollows ==
  ASSUME IInv, phase = "loop", phase' = "loop", NEW t \in sample, t \notin Eog, Speaks(t), req' = req,
         grammar' \in Accept(t)
  PROVE  GrammarInv'
<1>1. /\ t \in Allowed /\ t \in Token \ Eog /\ said \in Seq(Token) /\ text \in Text
      /\ resolved = resolve(req) /\ adds_space \in BOOLEAN /\ Piece[t] \in Text
  BY DrawsAllowed, PieceIs DEF IInv
<1>2. Awake => Viable(req.grammar, grammar[1] \o Piece[t]) /\ grammar' = <<grammar[1] \o Piece[t]>>
  BY <1>1 DEF Allowed, Accept
<1>3. CASE req.grammar = {}
  <2>1. grammar = <<>>
    BY <1>3 DEF IInv, GrammarInv
  <2>2. grammar' = <<>>
    BY <2>1 DEF Accept, Awake
  <2> QED BY <1>3, <2>2 DEF GrammarInv, Eager, Lazy
<1>4. CASE Eager
  <2> DEFINE q == Spelled(resolved.prefill)
  <2>1. grammar = <<q \o text>>
    BY <1>4 DEF IInv, GrammarInv
  <2>2. q \in Seq(Char) /\ q \o text \in Text
    BY <1>1, <1>4, PrefillStands, TextExtended DEF IInv
  <2> HIDE DEF q
  <2>3. Awake
    <3>1. q \o text # Asleep
      BY <2>2, TextsAre
    <3> QED BY <2>1, <3>1 DEF Awake
  <2>4. (q \o text) \o Piece[t] = q \o (text \o Piece[t])
    <3>1. \A x, y, z \in Seq(Char) : (x \o y) \o z = x \o (y \o z)
      BY ConcatAssociative
    <3>2. q \in Seq(Char) /\ text \in Seq(Char) /\ Piece[t] \in Seq(Char)
      BY <1>1, <2>2
    <3> QED BY <3>1, <3>2
  <2>5. grammar[1] = q \o text
    BY <2>1
  <2>6. grammar' = <<q \o text'>> /\ Viable(req.grammar, q \o text')
    BY <1>2, <2>3, <2>4, <2>5 DEF Speaks
  <2>7. resolved' = resolved
    BY DEF Speaks
  <2> QED BY <1>4, <2>6, <2>7 DEF GrammarInv, Eager, Lazy, q
<1>5. CASE Lazy
  <2>1. Handed
    BY <1>1, <1>5, TriggersHanded DEF IInv, Lazy
  <2>2. \/ grammar' = <<Asleep>> /\ ~Heard'
        \/ Heard' /\ \E x \in Text : Behind(x)' /\ grammar' = <<x>> /\ Viable(req.grammar, x)
    <3>1. CASE grammar = <<Asleep>> /\ ~Heard /\ Trigger(t) = {}
      <4>1. ~Heard'
        BY <1>1, <2>1, <3>1, WokenByToken
      <4>2. grammar' = <<Asleep>>
        BY <3>1 DEF Accept, Awake
      <4> QED BY <4>1, <4>2
    <3>2. CASE grammar = <<Asleep>> /\ Trigger(t) # {}
      <4>1. grammar # <<>> /\ ~Awake
        BY <3>2 DEF Awake
      <4>2. PICK x \in Trigger(t) : Viable(req.grammar, x) /\ grammar' = <<x>>
        BY <3>2, <4>1 DEF Accept
      <4>3. x \in Text /\ Heard' /\ Behind(x)'
        BY <1>1, <2>1, <4>2, WokenByToken
      <4> QED BY <4>2, <4>3
    <3>3. ASSUME NEW x \in Text, Heard, Behind(x), grammar = <<x>>
          PROVE  Heard' /\ \E y \in Text : Behind(y)' /\ grammar' = <<y>> /\ Viable(req.grammar, y)
      <4>1. Heard' /\ (x \o Piece[t]) \in Text /\ Behind(x \o Piece[t])'
        BY <1>1, <2>1, <3>3, StillBehind
      <4>2. Awake /\ grammar[1] = x
        BY <3>3, TextsAre DEF Awake
      <4> QED BY <1>2, <4>1, <4>2
    <3>4. \/ grammar = <<Asleep>> /\ ~Heard
          \/ Heard /\ \E x \in Text : Behind(x) /\ grammar = <<x>>
      BY <1>5 DEF IInv, GrammarInv
    <3> QED BY <3>1, <3>2, <3>3, <3>4
  <2> QED BY <1>5, <2>2 DEF GrammarInv, Eager, Lazy
<1>6. req.lazy \in BOOLEAN
  BY GrammarTyped DEF IInv
<1> QED BY <1>3, <1>4, <1>5, <1>6 DEF Eager, Lazy

\* A token is drawn: the reply goes on behind the grammar, or ends where it may.
LEMMA SampleKeeps == IInv /\ Sample /\ UNCHANGED <<turn, prompt, style, format>> => IInv'
<1> SUFFICES ASSUME IInv, Sample, UNCHANGED <<turn, prompt, style, format>> PROVE IInv'
  OBVIOUS
<1>1. phase = "loop" /\ cause = "none"
  BY DEF Sample, IInv, TypeInv
<1>2. PICK t \in sample :
        /\ said' = Append(said, t)
        /\ IF t \in Eog THEN Destruct("none") /\ UNCHANGED <<text, texts>>
           ELSE /\ text' = text \o Piece[t] /\ texts' = texts \cup {text'}
                /\ grammar' \in Accept(t) /\ logits' \in Logits
                /\ UNCHANGED <<adds_space, phase, req, resolved, chain, cause>>
  BY DEF Sample
<1>3. /\ t \in Token /\ said \in Seq(Token \ Eog) /\ said \in Seq(Token) /\ text \in Text /\ logits \in Logits
      /\ Piece[t] \in Text
  BY <1>1, DrawsAllowed, PieceIs DEF IInv
<1>4. said' \in Seq(Token) /\ (t \notin Eog => said' \in Seq(Token \ Eog))
  <2>1. t \notin Eog => t \in Token \ Eog
    BY <1>3
  <2> QED BY <1>2, <1>3, <2>1, AppendProperties
<1>5. CASE t \in Eog
  <2>1. phase' = "over" /\ cause' = "none" /\ UNCHANGED <<adds_space, req, resolved, logits, text, texts>>
    BY <1>2, <1>5 DEF Destruct
  <2>2. RequestInv' /\ AskedForIsBinding' /\ (resolve(req))' = resolve(req)
    BY <1>1, <2>1, RequestStands
  <2>3. TypeInv'
    BY <1>1, <1>3, <1>4, <2>1, <2>2 DEF IInv, TypeInv
  <2>4. ReplyInv'
    BY <1>1, <1>2, <1>5, <2>1, EndsASentence DEF ReplyInv
  <2>5. GrammarInv' /\ CauseInv'
    BY <2>1 DEF GrammarInv, CauseInv
  <2> QED BY <2>2, <2>3, <2>4, <2>5 DEF IInv
<1>6. CASE t \notin Eog
  <2>1. /\ text' = text \o Piece[t] /\ texts' = texts \cup {text'}
        /\ grammar' \in Accept(t) /\ logits' \in Logits /\ UNCHANGED <<adds_space, phase, req, resolved, chain, cause>>
    BY <1>2, <1>6
  <2>2. RequestInv' /\ AskedForIsBinding' /\ (resolve(req))' = resolve(req)
    BY <1>1, <2>1, RequestStands
  <2>3. TypeInv'
    <3>1. text' \in Text
      BY <1>3, <2>1, TextExtended
    <3> QED BY <1>1, <1>4, <1>6, <2>1, <2>2, <3>1 DEF IInv, TypeInv
  <2>4. GrammarInv'
    <3>1. Speaks(t)
      BY <1>2, <2>1 DEF Speaks
    <3> QED BY <1>1, <1>6, <2>1, <3>1, GrammarFollows
  <2>5. ReplyInv' /\ CauseInv'
    BY <1>1, <2>1 DEF ReplyInv, CauseInv
  <2> QED BY <2>2, <2>3, <2>4, <2>5 DEF IInv
<1> QED BY <1>5, <1>6

\* Only a grammar that sleeps throws on a token it is given: the others allow what is drawn.
LEMMA SampleThrowsKeeps == IInv /\ SampleThrows /\ UNCHANGED <<turn, prompt, style, format>> => IInv'
<1> SUFFICES ASSUME IInv, SampleThrows, UNCHANGED <<turn, prompt, style, format>> PROVE IInv'
  OBVIOUS
<1>1. /\ phase = "loop" /\ phase' = "over" /\ UNCHANGED <<adds_space, req, resolved, logits, said, text, texts>>
      /\ cause' = "chain" \/ (cause' = "accept" /\ \E t \in sample : AcceptThrows(t))
  <2>1. phase = "loop" /\ UNCHANGED <<said, text, texts>>
    BY DEF SampleThrows, reply
  <2>2. CASE Destruct("chain")
    BY <2>1, <2>2 DEF Destruct
  <2>3. CASE (\E t \in sample : AcceptThrows(t)) /\ Destruct("accept")
    BY <2>1, <2>3 DEF Destruct
  <2> QED BY <2>2, <2>3 DEF SampleThrows
<1>2. TypeInv'
  BY <1>1 DEF IInv, TypeInv
<1>3. RequestInv' /\ AskedForIsBinding'
  BY <1>1, RequestStands
<1>4. GrammarInv' /\ ReplyInv'
  BY <1>1 DEF GrammarInv, ReplyInv
<1>5. ASSUME cause' = "accept" PROVE req.lazy
  <2>1. PICK t \in sample : AcceptThrows(t)
    BY <1>1, <1>5
  <2>2. t \in Allowed /\ text \in Text /\ resolved = resolve(req) /\ adds_space \in BOOLEAN
    BY <1>1, <2>1, DrawsAllowed DEF IInv
  <2>3. grammar = <<Asleep>>
    BY <2>1, <2>2 DEF AcceptThrows, Awake
  <2> SUFFICES ASSUME ~req.lazy PROVE FALSE
    OBVIOUS
  <2>4. Eager
    BY <1>1, <2>3 DEF IInv, GrammarInv, Eager
  <2> DEFINE x == Spelled(resolved.prefill) \o text
  <2>5. grammar = <<x>>
    BY <1>1, <2>4 DEF IInv, GrammarInv
  <2>6. x \in Text
    BY <2>2, <2>4, PrefillStands, TextExtended DEF IInv
  <2> HIDE DEF x
  <2> QED BY <2>3, <2>5, <2>6, TextsAre
<1>6. CauseInv'
  BY <1>1, <1>5 DEF CauseInv
<1> QED BY <1>2, <1>3, <1>4, <1>6 DEF IInv

\* Leaving the loop leaves the reply as it is.
LEMMA LeaveKeeps == IInv /\ Leave /\ UNCHANGED <<turn, prompt, style, format>> => IInv'
<1> SUFFICES ASSUME IInv, Leave, UNCHANGED <<turn, prompt, style, format>> PROVE IInv'
  OBVIOUS
<1>1. /\ phase = "loop" /\ phase' = "over" /\ UNCHANGED <<adds_space, req, resolved, logits, said, text, texts>>
      /\ cause' = "none" /\ cause = "none"
  BY DEF Leave, Destruct, IInv, TypeInv, reply
<1>2. RequestInv' /\ AskedForIsBinding' /\ (resolve(req))' = resolve(req)
  BY <1>1, RequestStands
<1>3. TypeInv'
  BY <1>1, <1>2 DEF IInv, TypeInv
<1>4. Followed
  BY <1>1, ReplyFollowed
<1>5. ReplyInv'
  <2>1. \A x : (Fits(x)' <=> Fits(x)) /\ (Behind(x)' <=> Behind(x))
    BY <1>1 DEF Fits, Ended, Behind, Called
  <2>2. (Eager' <=> Eager) /\ (Lazy' <=> Lazy) /\ (Heard' <=> Heard)
    BY <1>1 DEF Eager, Lazy, Heard
  <2>3. ASSUME Eager PROVE Fits(Spelled(resolved.prefill) \o text)'
    <3>1. Fits(Spelled(resolved.prefill) \o text)
      BY <1>4, <2>3 DEF Followed
    <3> QED BY <1>1, <3>1 DEF Fits, Ended
  <2> QED BY <1>4, <2>1, <2>2, <2>3 DEF ReplyInv, Followed
<1>6. GrammarInv' /\ CauseInv'
  BY <1>1 DEF GrammarInv, CauseInv
<1> QED BY <1>2, <1>3, <1>5, <1>6 DEF IInv

\* Every step keeps the invariant.
LEMMA NextKeepsInvariant == IInv /\ [Next]_vars => IInv'
<1> SUFFICES ASSUME IInv, [Next]_vars PROVE IInv'
  OBVIOUS
<1>1. CASE UNCHANGED vars
  <2>1. UNCHANGED <<adds_space, phase, req, resolved, chain, grammar, logits, said, text, texts, cause, turn, prompt, style, format>>
    BY <1>1 DEF vars, samplerVars, reply
  <2>2. (resolve(req))' = resolve(req)
    BY <2>1 DEF resolve, SingleTokens, tokenize, WithoutAddedSpace
  <2>3. TypeInv'
    BY <2>1, <2>2 DEF IInv, TypeInv
  <2>4. RequestInv'
    <3>1. Free => Free'
      BY <2>1 DEF Free
    <3>2. \A s \in Styles : Schematic(s) => Schematic(s)'
      BY <2>1 DEF Schematic, SchemaGrammar, Opening, Closed, enable_thinking, schema_turn
    <3>3. \A f \in ToolFormats : Calling(f) => Calling(f)'
      BY <2>1 DEF Calling
    <3> QED BY <2>1, <3>1, <3>2, <3>3 DEF IInv, RequestInv
  <2>5. /\ \A x : Behind(x)' <=> Behind(x)
        /\ (Eager' <=> Eager) /\ (Lazy' <=> Lazy) /\ (Heard' <=> Heard)
    BY <2>1 DEF Behind, Called, Eager, Lazy, Heard
  <2>6. GrammarInv'
    BY <2>1, <2>5 DEF IInv, GrammarInv
  <2>7. ReplyInv'
    BY <2>1, <2>5 DEF IInv, ReplyInv, Followed, Fits, Ended
  <2>8. CauseInv' /\ AskedForIsBinding'
    BY <2>1, <2>5 DEF IInv, CauseInv, AskedForIsBinding
  <2> QED BY <2>3, <2>4, <2>6, <2>7, <2>8 DEF IInv
<1>2. CASE Generate
  BY <1>2, GenerateKeeps
<1>3. CASE RenderFails
  BY <1>3, RenderFailsKeeps
<1>4. CASE RenderPlain
  BY <1>4, RenderPlainKeeps
<1>5. CASE RenderSchema
  BY <1>5, RenderSchemaKeeps
<1>6. CASE RenderTools
  BY <1>6, RenderToolsKeeps
<1>7. CASE SamplerNext /\ UNCHANGED <<turn, prompt, style, format>>
  <2>1. CASE OpenFails
    BY <1>7, <2>1, OpenFailsKeeps
  <2>2. CASE Open
    BY <1>7, <2>2, OpenKeeps
  <2>3. CASE BuildFails
    BY <1>7, <2>3, BuildFailsKeeps
  <2>4. CASE Build
    BY <1>7, <2>4, BuildKeeps
  <2>5. CASE Sample
    BY <1>7, <2>5, SampleKeeps
  <2>6. CASE SampleThrows
    BY <1>7, <2>6, SampleThrowsKeeps
  <2>7. CASE Leave
    BY <1>7, <2>7, LeaveKeeps
  <2> QED BY <1>7, <2>1, <2>2, <2>3, <2>4, <2>5, <2>6, <2>7 DEF SamplerNext
<1> QED BY <1>1, <1>2, <1>3, <1>4, <1>5, <1>6, <1>7 DEF Next

-----------------------------------------------------------------------------
(* What holds of every run *)

\* The inductive invariant: what was rendered, and where the grammar is in the reply.
THEOREM Invariance == Spec => []IInv
<1> QED BY InitEstablishes, NextKeepsInvariant, PTL DEF Spec

\* Although the chain draws before the grammar is asked (sample, src/src/engine.cpp),
\* every reply of a run that was not broken off satisfies its grammar, if a space that
\* the tokenizer adds is a token of its own (resolve).
THEOREM RepliesSatisfyGrammars ==
  ASSUME AddedSpaceStandsAlone
  PROVE  Spec => []ReplySatisfiesGrammar
<1>1. ASSUME IInv, phase \in {"loop", "over"}, cause = "none", Eager, Followed PROVE ReplySatisfiesGrammar
  <2>1. Spelled(resolved.prefill) = req.prefill
    BY <1>1, PrefillStands DEF IInv, TypeInv
  <2>2. Fits(req.prefill \o text)
    BY <1>1, <2>1 DEF Followed
  <2> QED BY <1>1, <2>2 DEF ReplySatisfiesGrammar, Fits, Ended, Eager
<1>2. ASSUME IInv, phase \in {"loop", "over"}, cause = "none", Lazy, Followed PROVE ReplySatisfiesGrammar
  <2> SUFFICES ASSUME Triggered(format[1])
               PROVE  \E x \in FromTrigger(format[1]) : Fits(x)
    BY <1>2 DEF ReplySatisfiesGrammar, Fits, Ended, Lazy
  <2>1. PICK f \in ToolFormats : Calling(f)
    BY <1>2, GrammarTyped DEF IInv, Lazy
  <2>2. format[1] = f /\ resolved = resolve(req) /\ adds_space \in BOOLEAN /\ text \in Text
    BY <1>2, <2>1 DEF IInv, TypeInv, Calling
  <2>3. Heard
    BY <2>1, <2>2, TriggeredIs
  <2>4. PICK x \in Text : Behind(x) /\ Fits(x)
    BY <1>2, <2>3 DEF Followed
  <2>5. x \in FromTrigger(f)
    BY <2>1, <2>2, <2>4, BehindIsFromTrigger
  <2> QED BY <2>2, <2>4, <2>5
<1>3. IInv => ReplySatisfiesGrammar
  <2> SUFFICES ASSUME IInv, phase \in {"loop", "over"}, cause = "none", req.grammar # {} PROVE ReplySatisfiesGrammar
    BY DEF ReplySatisfiesGrammar
  <2>1. Followed
    BY ReplyFollowed DEF IInv, ReplyInv
  <2>2. req.lazy \in BOOLEAN
    BY GrammarTyped DEF IInv
  <2> QED BY <1>1, <1>2, <2>1, <2>2 DEF Eager, Lazy
<1> QED BY <1>3, Invariance, PTL

\* Where an added space is a token of its own, add_grammar refuses a prefill only of a
\* template that thinks against the asking; and accept only throws where a lazy grammar
\* refuses its own trigger.
THEOREM RefusalsHaveCauses ==
  ASSUME AddedSpaceStandsAlone
  PROVE  Spec => []RefusedForCause
<1>1. IInv => RefusedForCause
  <2> SUFFICES ASSUME IInv, cause = "prefill" PROVE style[1].thinks /\ ~style[1].obeys
    BY DEF IInv, CauseInv, RefusedForCause
  <2>1. phase = "over" /\ Eager /\ ~Viable(req.grammar, Spelled(resolved.prefill))
    BY DEF IInv, CauseInv
  <2>2. Spelled(resolved.prefill) = req.prefill
    BY <2>1, PrefillStands DEF IInv, TypeInv
  <2>3. PICK s \in Styles : Schematic(s)
    BY <2>1, GrammarTyped DEF IInv
  <2>4. schema_turn /\ req.grammar = SchemaGrammar(s) /\ req.prefill = s.header \o Opening(s) /\ style = <<s>>
    BY <2>3 DEF Schematic
  <2>5. s.thinks /\ ~s.obeys
    BY <2>1, <2>2, <2>4, OpeningIsViable
  <2> QED BY <2>4, <2>5
<1> QED BY <1>1, Invariance, PTL

\* What a Chat turn asked for, tools or a schema, binds the reply (render,
\* src/src/chat_format.cpp), and the messages reach the template as they were.
THEOREM AskingBinds == Spec => []AskedForIsBinding
<1>1. IInv => AskedForIsBinding
  BY DEF IInv
<1> QED BY <1>1, Invariance, PTL

\* The triggers of any tool format, however split_triggers and resolve() pass them on and
\* whatever tokens spell the reply, wake the grammar when the reply has one of them, and
\* nothing else does.
THEOREM TriggersWake == Spec => []AwakeOnceTriggered
<1>1. IInv => AwakeOnceTriggered
  <2> SUFFICES ASSUME IInv, phase = "loop", format # <<>> PROVE Awake <=> Triggered(format[1])
    BY DEF AwakeOnceTriggered
  <2>1. PICK f \in ToolFormats : Calling(f)
    BY DEF IInv, RequestInv, Free, Schematic
  <2>2. format[1] = f /\ Lazy
    BY <2>1, ToolFormatsTyped DEF Calling, Lazy
  <2>3. resolved = resolve(req) /\ adds_space \in BOOLEAN /\ text \in Text
    BY DEF IInv, TypeInv
  <2>4. Triggered(f) <=> Heard
    BY <2>1, <2>3, TriggeredIs
  <2>5. CASE grammar = <<Asleep>> /\ ~Heard
    BY <2>2, <2>4, <2>5 DEF Awake
  <2>6. ASSUME NEW x \in Text, grammar = <<x>> PROVE Awake
    BY <2>6, TextsAre DEF Awake
  <2>7. \/ grammar = <<Asleep>> /\ ~Heard
        \/ Heard /\ \E x \in Text : grammar = <<x>>
    BY <2>2 DEF IInv, GrammarInv
  <2> QED BY <2>2, <2>4, <2>5, <2>6, <2>7
<1> QED BY <1>1, Invariance, PTL

\* The reply grows in the loop only, by a token that was sampled and is allowed.
LEMMA OnlySampleSpeaks ==
  ASSUME IInv, Next, phase = "loop", said' # said
  PROVE  /\ Last(said') \in sample /\ Last(said') \in Allowed /\ Allowed \subseteq Token
         /\ logits \in Logits /\ {req.temperature, req.top_k} \subseteq Int
<1>1. Sample
  <2>1. ~(Generate \/ RenderFails \/ RenderPlain \/ RenderSchema \/ RenderTools)
    BY DEF Generate, RenderFails, RenderPlain, RenderSchema, RenderTools, Rendered
  <2>2. ~(OpenFails \/ Open \/ BuildFails \/ Build)
    BY DEF OpenFails, Open, BuildFails, Build
  <2>3. ~(SampleThrows \/ Leave)
    BY DEF SampleThrows, Leave, reply
  <2> QED BY <2>1, <2>2, <2>3 DEF Next, SamplerNext
<1>2. PICK t \in sample : said' = Append(said, t)
  BY <1>1 DEF Sample
<1>3. Allowed \subseteq Token /\ t \in Allowed /\ t \in Token /\ said \in Seq(Token) /\ logits \in Logits
  BY <1>2, DrawsAllowed DEF IInv
<1>4. Last(said') = t
  BY <1>2, <1>3, AppendedIs
<1> QED BY <1>2, <1>3, <1>4 DEF IInv, TypeInv

\* The short cut of greedy decoding (sample and choose, src/src/engine.cpp) picks the most
\* likely of the tokens that the grammar allows, the first of equals.
THEOREM GreedyIsExact == Spec => GreedyPicksTheBest
<1>1. IInv /\ [Next]_vars =>
        [phase = "loop" /\ said' # said /\ req.temperature <= 0 =>
           Last(said') = Min({t \in Allowed : \A u \in Allowed : logits[u] <= logits[t]})]_samplerVars
  <2> SUFFICES ASSUME IInv, [Next]_vars, phase = "loop", said' # said, req.temperature <= 0
               PROVE  Last(said') = Min({t \in Allowed : \A u \in Allowed : logits[u] <= logits[t]})
    OBVIOUS
  <2>1. Next
    BY DEF vars, samplerVars, reply
  <2> QED BY <2>1, OnlySampleSpeaks, GreedyIsBest
<1> QED BY <1>1, Invariance, PTL DEF Spec, GreedyPicksTheBest

\* Partial sorting and the fast path past the grammar (choose, src/src/engine.cpp) lose
\* nothing: with top-k a draw is one of the k best that the grammar allows.
THEOREM TopKIsExact == Spec => DrawIsFromTheTop
<1>1. IInv /\ [Next]_vars =>
        [phase = "loop" /\ said' # said /\ req.temperature > 0 /\ req.top_k > 0 =>
           Cardinality({t \in Allowed : logits[t] > logits[Last(said')]}) < req.top_k]_samplerVars
  <2> SUFFICES ASSUME IInv, [Next]_vars, phase = "loop", said' # said, req.temperature > 0, req.top_k > 0
               PROVE  Cardinality({t \in Allowed : logits[t] > logits[Last(said')]}) < req.top_k
    OBVIOUS
  <2>1. Next
    BY DEF vars, samplerVars, reply
  <2> QED BY <2>1, OnlySampleSpeaks, DrawIsHigh
<1> QED BY <1>1, Invariance, PTL DEF Spec, DrawIsFromTheTop
=============================================================================
