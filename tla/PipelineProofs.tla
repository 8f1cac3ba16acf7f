--------------------------- MODULE PipelineProofs ---------------------------
(***************************************************************************)
(* Theorems about Pipeline, for every alphabet, every set of pieces and    *)
(* every list of stop strings, and whatever the parser answers.  What is   *)
(* proved of the filter is taken from StreamFilterProofs.                  *)
(***************************************************************************)
EXTENDS Pipeline, Extremes, SequenceTheorems, TLAPS

FP == INSTANCE StreamFilterProofs

-----------------------------------------------------------------------------
(* The filter *)

\* The filter of the pipeline is the one that StreamFilterProofs is about.
LEMMA SameFilter ==
  /\ Filter!Init => FP!Init
  /\ Filter!flush => FP!flush
  /\ \A piece \in Pieces : Filter!push(piece) => FP!push(piece)
  /\ Reply = FP!TheCut(generated)
  /\ \A x : Filter!Whole(x) = FP!Whole(x)
<1> USE DEF Filter!Take, FP!Take, Filter!Lesser, FP!Lesser, Filter!Min, FP!Min, Filter!Max, FP!Max,
            Filter!Cont, FP!Cont, Filter!Bad, FP!Bad, Filter!OccursAt, FP!OccursAt
<1>1. Filter!Init => FP!Init
  BY DEF Filter!Init, FP!Init
<1>2. Filter!flush => FP!flush
  BY DEF Filter!flush, FP!flush, Filter!deliver, FP!deliver,
         Filter!incomplete_utf8_tail, FP!incomplete_utf8_tail
<1>3. ASSUME NEW piece \in Pieces, Filter!push(piece) PROVE FP!push(piece)
  BY <1>3 DEF Filter!push, FP!push, Filter!PushMatched, FP!PushMatched, Filter!PushUnmatched,
         FP!PushUnmatched, Filter!match, FP!match, Filter!npos, FP!npos, Filter!find, FP!find,
         Filter!deliver, FP!deliver, Filter!Final, FP!Final, Filter!Hold, FP!Hold,
         Filter!Greater, FP!Greater, Filter!incomplete_utf8_tail, FP!incomplete_utf8_tail,
         Filter!stop_prefix_holdback, FP!stop_prefix_holdback
<1>4. Reply = FP!TheCut(generated)
  BY DEF Reply, Min, FP!TheCut, Filter!StopsIn, FP!StopsIn
<1>5. \A x : Filter!Whole(x) = FP!Whole(x)
  BY DEF Filter!Whole, FP!Whole, Filter!Torn, FP!Torn
<1> QED BY <1>1, <1>2, <1>3, <1>4, <1>5

\* What is proved of the filter's steps.
LEMMA FilterHolds ==
  /\ Filter!Init => FP!IInv
  /\ FP!IInv /\ Filter!flush => FP!IInv'
  /\ \A piece \in Pieces : FP!IInv /\ Filter!push(piece) => FP!IInv'
<1>1. Filter!Init => FP!IInv
  BY SameFilter, TextsTyped, FP!InitHolds
<1>2. FP!IInv /\ Filter!flush => FP!IInv'
  BY SameFilter, TextsTyped, FP!FlushHolds
<1>3. ASSUME NEW piece \in Pieces, FP!IInv, Filter!push(piece) PROVE FP!IInv'
  <2>1. FP!push(piece)
    BY <1>3, SameFilter
  <2> QED BY <1>3, <2>1, TextsTyped, FP!PushHolds
<1> QED BY <1>1, <1>2, <1>3

-----------------------------------------------------------------------------
(* Texts in texts *)

After(s, n) == SubSeq(s, n + 1, Len(s))

\* s is a part of t.
Within(s, t) ==
  \E n \in 0..Len(t) : n + Len(s) <= Len(t) /\ \A j \in 1..Len(s) : t[n + j] = s[j]

\* s is where t begins.
Starts(s, t) == Len(s) <= Len(t) /\ \A i \in 1..Len(s) : s[i] = t[i]

\* The bytes of a text behind the first n.
LEMMA AfterProperties ==
  ASSUME NEW s \in Seq(Byte), NEW n \in 0..Len(s)
  PROVE  /\ After(s, n) \in Seq(Byte) /\ Len(After(s, n)) = Len(s) - n
         /\ \A i \in 1..(Len(s) - n) : After(s, n)[i] = s[n + i]
<1>1. Len(s) \in Nat /\ n \in Nat /\ n <= Len(s)
  BY LenProperties
<1>2. n + 1 \in Int /\ Len(s) \in Int /\ \A i \in (n + 1)..Len(s) : s[i] \in Byte
  BY <1>1, ElementOfSeq
<1> DEFINE u == SubSeq(s, n + 1, Len(s))
<1>3. /\ u \in Seq(Byte)
      /\ Len(u) = IF n + 1 <= Len(s) THEN Len(s) - (n + 1) + 1 ELSE 0
      /\ \A i \in 1..(Len(s) - (n + 1) + 1) : u[i] = s[n + 1 + i - 1]
  BY <1>2, SubSeqProperties
<1> HIDE DEF u
<1>4. Len(s) - (n + 1) + 1 = Len(s) - n /\ \A i \in 1..(Len(s) - n) : n + 1 + i - 1 = n + i
  BY <1>1
<1>5. u \in Seq(Byte) /\ Len(u) = Len(s) - n /\ \A i \in 1..(Len(s) - n) : u[i] = s[n + i]
  BY <1>1, <1>3, <1>4
<1> QED BY <1>5 DEF After, u

\* The parts of a text, as the parser and the reader of a reply have them.
LEMMA PartsAreWithin ==
  ASSUME NEW t \in Seq(Byte), NEW s \in SubSeqs(t)
  PROVE  s \in Seq(Byte) /\ Within(s, t)
<1>1. Len(t) \in Nat
  BY LenProperties
<1>2. PICK i \in 0..Len(t), j \in 0..Len(t) : s = SubSeq(t, i + 1, j)
  BY DEF SubSeqs
<1>3. i \in Nat /\ j \in Nat /\ i <= Len(t) /\ j <= Len(t)
  BY <1>1
<1>4. i + 1 \in Int /\ j \in Int /\ \A k \in (i + 1)..j : t[k] \in Byte
  BY <1>1, <1>3, ElementOfSeq
<1>5. /\ s \in Seq(Byte)
      /\ Len(s) = IF i + 1 <= j THEN j - (i + 1) + 1 ELSE 0
      /\ \A k \in 1..(j - (i + 1) + 1) : s[k] = t[i + 1 + k - 1]
  BY <1>2, <1>4, SubSeqProperties
<1>6. CASE i + 1 <= j
  <2>1. Len(s) = j - i /\ j - (i + 1) + 1 = j - i /\ \A k \in 1..(j - i) : i + 1 + k - 1 = i + k
    BY <1>3, <1>5, <1>6
  <2>2. \A k \in 1..Len(s) : t[i + k] = s[k]
    BY <1>5, <2>1
  <2>3. i + Len(s) <= Len(t)
    BY <1>1, <1>3, <2>1
  <2> QED BY <1>5, <2>2, <2>3 DEF Within
<1>7. CASE ~(i + 1 <= j)
  <2>1. Len(s) = 0 /\ 0 \in 0..Len(t) /\ 0 + Len(s) <= Len(t) /\ \A k \in 1..Len(s) : FALSE
    BY <1>1, <1>5, <1>7
  <2> QED BY <1>5, <2>1 DEF Within
<1> QED BY <1>6, <1>7

\* And the other way round.
LEMMA WithinIsPart ==
  ASSUME NEW t \in Seq(Byte), NEW s \in Seq(Byte), Within(s, t)
  PROVE  s \in SubSeqs(t)
<1>1. Len(t) \in Nat /\ Len(s) \in Nat
  BY LenProperties
<1>2. PICK n \in 0..Len(t) : n + Len(s) <= Len(t) /\ \A j \in 1..Len(s) : t[n + j] = s[j]
  BY DEF Within
<1> DEFINE u == SubSeq(t, n + 1, n + Len(s))
<1>3. n \in Nat /\ n + Len(s) \in 0..Len(t) /\ n + 1 \in Int /\ n + Len(s) \in Int
  BY <1>1, <1>2
<1>4. \A k \in (n + 1)..(n + Len(s)) : t[k] \in Byte
  BY <1>1, <1>2, <1>3, ElementOfSeq
<1>5. /\ u \in Seq(Byte)
      /\ Len(u) = IF n + 1 <= n + Len(s) THEN n + Len(s) - (n + 1) + 1 ELSE 0
      /\ \A k \in 1..(n + Len(s) - (n + 1) + 1) : u[k] = t[n + 1 + k - 1]
  BY <1>3, <1>4, SubSeqProperties
<1>6. u \in SubSeqs(t)
  <2>1. \A i, j \in 0..Len(t) : SubSeq(t, i + 1, j) \in SubSeqs(t)
    BY DEF SubSeqs
  <2> QED BY <1>3, <2>1
<1> HIDE DEF u
<1>7. n + Len(s) - (n + 1) + 1 = Len(s) /\ \A k \in 1..Len(s) : n + 1 + k - 1 = n + k
  BY <1>1, <1>3
<1>8. Len(u) = Len(s) /\ \A k \in 1..Len(s) : u[k] = s[k]
  <2>1. Len(u) = Len(s)
    BY <1>1, <1>3, <1>5
  <2>2. ASSUME NEW k \in 1..Len(s) PROVE u[k] = s[k]
    <3>1. u[k] = t[n + 1 + k - 1]
      BY <1>5, <1>7
    <3>2. n + 1 + k - 1 = n + k
      BY <1>7
    <3> QED BY <1>2, <3>1, <3>2
  <2> QED BY <2>1, <2>2
<1>9. u = s
  BY <1>5, <1>8, SeqEqual
<1> QED BY <1>6, <1>9

\* A part of where a text begins is a part of that text.
LEMMA WithinLonger ==
  ASSUME NEW s \in Seq(Byte), NEW t \in Seq(Byte), NEW u \in Seq(Byte), Within(s, t), Starts(t, u)
  PROVE  Within(s, u)
<1>1. Len(t) \in Nat /\ Len(s) \in Nat /\ Len(u) \in Nat /\ Len(t) <= Len(u)
  BY LenProperties DEF Starts
<1>2. PICK n \in 0..Len(t) : n + Len(s) <= Len(t) /\ \A j \in 1..Len(s) : t[n + j] = s[j]
  BY DEF Within
<1>3. ASSUME NEW j \in 1..Len(s) PROVE u[n + j] = s[j]
  <2>1. n + j \in 1..Len(t)
    BY <1>1, <1>2
  <2> QED BY <1>2, <2>1 DEF Starts
<1>4. n \in 0..Len(u) /\ n + Len(s) <= Len(u)
  BY <1>1, <1>2
<1> QED BY <1>3, <1>4 DEF Within

\* A text begins the one it is continued to.
LEMMA StartsJoined ==
  ASSUME NEW s \in Seq(Byte), NEW t \in Seq(Byte)
  PROVE  Starts(s, s \o t)
<1>1. Len(s) \in Nat /\ Len(t) \in Nat
  BY LenProperties
<1>2. /\ s \o t \in Seq(Byte) /\ Len(s \o t) = Len(s) + Len(t)
      /\ \A i \in 1..(Len(s) + Len(t)) : (s \o t)[i] = IF i <= Len(s) THEN s[i] ELSE t[i - Len(s)]
  BY ConcatProperties
<1> QED BY <1>1, <1>2 DEF Starts

\* Two texts joined, byte by byte.
LEMMA Joined ==
  ASSUME NEW s \in Seq(Byte), NEW t \in Seq(Byte), NEW u \in Seq(Byte), Starts(s, u),
         Len(u) = Len(s) + Len(t), \A i \in 1..Len(t) : u[Len(s) + i] = t[i]
  PROVE  s \o t = u
<1>1. Len(s) \in Nat /\ Len(t) \in Nat
  BY LenProperties
<1>2. /\ s \o t \in Seq(Byte) /\ Len(s \o t) = Len(s) + Len(t)
      /\ \A i \in 1..(Len(s) + Len(t)) : (s \o t)[i] = IF i <= Len(s) THEN s[i] ELSE t[i - Len(s)]
  BY ConcatProperties
<1>3. ASSUME NEW i \in 1..Len(u) PROVE (s \o t)[i] = u[i]
  <2>1. i \in 1..(Len(s) + Len(t)) /\ i \in Nat
    BY <1>1
  <2>2. CASE i <= Len(s)
    <3>1. i \in 1..Len(s)
      BY <1>1, <2>1, <2>2
    <3>2. (s \o t)[i] = s[i]
      BY <1>2, <2>1, <2>2
    <3> QED BY <3>1, <3>2 DEF Starts
  <2>3. CASE ~(i <= Len(s))
    <3>1. i - Len(s) \in 1..Len(t) /\ Len(s) + (i - Len(s)) = i
      BY <1>1, <2>1, <2>3
    <3>2. (s \o t)[i] = t[i - Len(s)]
      BY <1>2, <2>1, <2>3
    <3>3. u[Len(s) + (i - Len(s))] = t[i - Len(s)]
      BY <3>1
    <3> QED BY <3>1, <3>2, <3>3
  <2> QED BY <2>2, <2>3
<1> HIDE DEF Starts
<1>4. Len(s \o t) = Len(u)
  BY <1>2
<1> QED BY <1>2, <1>3, <1>4, SeqEqual

\* IsPrefix, byte by byte.
LEMMA PrefixIs ==
  ASSUME NEW s \in Seq(Byte), NEW t \in Seq(Byte)
  PROVE  IsPrefix(s, t) <=> Starts(s, t)
<1>1. Len(s) \in Nat /\ Len(t) \in Nat
  BY LenProperties
<1>2. ASSUME Len(s) <= Len(t)
      PROVE  /\ SubSeq(t, 1, Len(s)) \in Seq(Byte) /\ Len(SubSeq(t, 1, Len(s))) = Len(s)
             /\ \A i \in 1..Len(s) : SubSeq(t, 1, Len(s))[i] = t[i]
  <2>1. 1 \in Int /\ Len(s) \in Int /\ \A k \in 1..Len(s) : t[k] \in Byte
    BY <1>1, <1>2, ElementOfSeq
  <2> QED BY <1>1, <2>1, SubSeqProperties
<1>3. SubSeq(s, 1, Len(s)) = s
  <2>1. 1 \in Int /\ Len(s) \in Int /\ \A k \in 1..Len(s) : s[k] \in Byte
    BY <1>1, ElementOfSeq
  <2>2. /\ SubSeq(s, 1, Len(s)) \in Seq(Byte) /\ Len(SubSeq(s, 1, Len(s))) = Len(s)
        /\ \A i \in 1..Len(s) : SubSeq(s, 1, Len(s))[i] = s[i]
    BY <1>1, <2>1, SubSeqProperties
  <2> QED BY <2>2, SeqEqual
<1>4. ASSUME IsPrefix(s, t) PROVE Starts(s, t)
  BY <1>2, <1>3, <1>4 DEF IsPrefix, Starts
<1>5. ASSUME Starts(s, t) PROVE IsPrefix(s, t)
  <2>1. Len(s) <= Len(t) /\ \A i \in 1..Len(s) : s[i] = t[i]
    BY <1>5 DEF Starts
  <2>2. SubSeq(t, 1, Len(s)) = s
    BY <1>2, <2>1, SeqEqual
  <2> QED BY <1>3, <2>1, <2>2 DEF IsPrefix
<1> QED BY <1>4, <1>5

\* What follows a beginning completes it.
LEMMA Completed ==
  ASSUME NEW s \in Seq(Byte), NEW t \in Seq(Byte), Starts(s, t)
  PROVE  s \o After(t, Len(s)) = t
<1>1. Len(s) \in Nat /\ Len(t) \in Nat /\ Len(s) <= Len(t) /\ Len(s) \in 0..Len(t)
  BY LenProperties DEF Starts
<1>2. /\ After(t, Len(s)) \in Seq(Byte) /\ Len(After(t, Len(s))) = Len(t) - Len(s)
      /\ \A i \in 1..(Len(t) - Len(s)) : After(t, Len(s))[i] = t[Len(s) + i]
  BY <1>1, AfterProperties
<1> DEFINE u == After(t, Len(s))
<1>3. u \in Seq(Byte) /\ Len(t) = Len(s) + Len(u) /\ \A i \in 1..Len(u) : t[Len(s) + i] = u[i]
  BY <1>1, <1>2
<1> HIDE DEF u
<1>4. s \o u = t
  BY <1>3, Joined
<1> QED BY <1>4 DEF u

\* What follows in a text is an end of it.
LEMMA AfterIsSuffix ==
  ASSUME NEW t \in Seq(Byte), NEW n \in 0..Len(t)
  PROVE  IsSuffix(After(t, n), t)
<1> DEFINE s == After(t, n)
           rs == Reverse(s)
           rt == Reverse(t)
<1>1. Len(t) \in Nat /\ n \in Nat /\ n <= Len(t)
  BY LenProperties
<1>2. s \in Seq(Byte) /\ Len(s) = Len(t) - n /\ \A i \in 1..(Len(t) - n) : s[i] = t[n + i]
  BY AfterProperties
<1> HIDE DEF s
<1>3. \A u \in Seq(Byte) : /\ Reverse(u) \in Seq(Byte) /\ Len(Reverse(u)) = Len(u)
                           /\ \A i \in 1..Len(u) : Reverse(u)[i] = u[Len(u) - i + 1]
  <2> TAKE u \in Seq(Byte)
  <2>1. Len(u) \in Nat /\ \A i \in 1..Len(u) : u[Len(u) - i + 1] \in Byte
    <3>1. Len(u) \in Nat
      BY LenProperties
    <3>2. \A i \in 1..Len(u) : Len(u) - i + 1 \in 1..Len(u)
      BY <3>1
    <3> QED BY <3>1, <3>2, ElementOfSeq
  <2>2. Reverse(u) \in [1..Len(u) -> Byte] /\ \A i \in 1..Len(u) : Reverse(u)[i] = u[Len(u) - i + 1]
    BY <2>1 DEF Reverse
  <2> QED BY <2>1, <2>2, SeqDef, LenProperties
<1>4. /\ rs \in Seq(Byte) /\ Len(rs) = Len(t) - n
      /\ \A i \in 1..(Len(t) - n) : rs[i] = s[Len(t) - n - i + 1]
  <2>1. /\ rs \in Seq(Byte) /\ Len(rs) = Len(s)
        /\ \A i \in 1..Len(s) : rs[i] = s[Len(s) - i + 1]
    BY <1>2, <1>3
  <2> HIDE DEF rs
  <2> QED BY <1>2, <2>1
<1>5. rt \in Seq(Byte) /\ Len(rt) = Len(t) /\ \A i \in 1..Len(t) : rt[i] = t[Len(t) - i + 1]
  BY <1>3
<1> HIDE DEF rs, rt
<1>6. ASSUME NEW i \in 1..Len(rs) PROVE rs[i] = rt[i]
  <2>1. /\ Len(t) - n - i + 1 \in 1..(Len(t) - n) /\ n + (Len(t) - n - i + 1) = Len(t) - i + 1
        /\ i \in 1..(Len(t) - n) /\ i \in 1..Len(t)
    <3>1. i \in Nat /\ 1 <= i /\ i <= Len(t) - n
      BY <1>1, <1>4
    <3> QED BY <1>1, <3>1
  <2>2. rs[i] = t[n + (Len(t) - n - i + 1)]
    BY <1>2, <1>4, <2>1
  <2> QED BY <1>5, <2>1, <2>2
<1>7. Starts(rs, rt)
  BY <1>1, <1>4, <1>5, <1>6 DEF Starts
<1>8. IsPrefix(rs, rt)
  BY <1>4, <1>5, <1>7, PrefixIs
<1> QED BY <1>8 DEF IsSuffix, rs, rt, s

-----------------------------------------------------------------------------
(* The stream *)

\* What a chat client has was taken from the text that was parsed.
FromText(text) == emitted \in Seq(Byte) /\ seen = emitted /\ Within(emitted, text)

\* The content of a message is a part of the text.
LEMMA ContentIsPart ==
  ASSUME NEW text \in Seq(Byte), NEW message \in Chat!Messages(text)
  PROVE  message.content \in Seq(Byte) /\ Within(message.content, text)
<1>1. message.content \in Chat!SubSeqs(text)
  BY DEF Chat!Messages
<1>2. message.content \in SubSeqs(text)
  BY <1>1 DEF Chat!SubSeqs, SubSeqs
<1> QED BY <1>2, PartsAreWithin

\* A message adds to what the caller has only what completes it to the content.
LEMMA DeltaCompletes ==
  ASSUME emitted \in Seq(Byte), NEW message, message.content \in Seq(Byte)
  PROVE  emitted \o Chat!Delta(message) =
           IF IsPrefix(emitted, message.content) THEN message.content ELSE emitted
<1> DEFINE c == message.content
           e == emitted
<1>1. Chat!IsStrictPrefix(e, c) <=> IsPrefix(e, c) /\ e # c
  BY DEF Chat!IsStrictPrefix, Chat!IsPrefix, IsPrefix
<1>2. Chat!Delta(message) = IF Chat!IsStrictPrefix(e, c) THEN After(c, Len(e)) ELSE <<>>
  BY DEF Chat!Delta, Chat!After, After
<1>3. e \in Seq(Byte) /\ c \in Seq(Byte)
  OBVIOUS
<1> HIDE DEF e, c
<1>4. e \o <<>> = e
  BY <1>3, ConcatEmptySeq
<1>5. IsPrefix(e, c) => e \o After(c, Len(e)) = c
  BY <1>3, PrefixIs, Completed
<1>6. CASE IsPrefix(e, c) /\ e # c
  BY <1>1, <1>2, <1>5, <1>6 DEF e, c
<1>7. CASE IsPrefix(e, c) /\ e = c
  BY <1>1, <1>2, <1>4, <1>7 DEF e, c
<1>8. CASE ~IsPrefix(e, c)
  BY <1>1, <1>2, <1>4, <1>8 DEF e, c
<1> QED BY <1>6, <1>7, <1>8

\* A text that the parser accepts.
LEMMA AdvanceHolds ==
  ASSUME NEW text \in Seq(Byte), FromText(text), Chat!advance(text)
  PROVE  /\ emitted' \in Seq(Byte) /\ seen' = emitted' /\ Within(emitted', text)
         /\ answer' \in {"empty", "message"}
         /\ answer' = "message" =>
              seen' = IF IsPrefix(seen, parsed'.content) THEN parsed'.content ELSE seen
<1>1. emitted \in Seq(Byte) /\ seen = emitted /\ Within(emitted, text)
  BY DEF FromText
<1>2. CASE answer' = "empty" /\ UNCHANGED <<parsed, emitted, seen>>
  BY <1>1, <1>2
<1>3. CASE \E message \in Chat!Messages(text) :
             /\ answer' = "message" /\ parsed' = message
             /\ emitted' = emitted \o Chat!Delta(message)
             /\ seen' = seen \o Chat!Delta(message)
  <2>1. PICK message \in Chat!Messages(text) :
             /\ answer' = "message" /\ parsed' = message
             /\ emitted' = emitted \o Chat!Delta(message)
             /\ seen' = seen \o Chat!Delta(message)
    BY <1>3
  <2>2. message.content \in Seq(Byte) /\ Within(message.content, text)
    BY ContentIsPart
  <2>3. emitted \o Chat!Delta(message) =
          IF IsPrefix(emitted, message.content) THEN message.content ELSE emitted
    BY <1>1, <2>2, DeltaCompletes
  <2>4. emitted' \in {message.content, emitted} /\ seen' = emitted'
    BY <1>1, <2>1, <2>3
  <2> QED BY <1>1, <2>1, <2>2, <2>3, <2>4
<1> QED BY <1>2, <1>3 DEF Chat!advance

\* A chunk pushed, accepted by the parser or not.
LEMMA PushStays ==
  ASSUME accumulated \in Seq(Byte), FromText(accumulated), NEW text \in Seq(Byte), Chat!push(text)
  PROVE  /\ accumulated' = accumulated \o text /\ accumulated' \in Seq(Byte)
         /\ emitted' \in Seq(Byte) /\ seen' = emitted' /\ Within(emitted', accumulated')
         /\ ~done /\ UNCHANGED <<calls, done>>
         /\ answer' = "message" =>
              seen' = IF IsPrefix(seen, parsed'.content) THEN parsed'.content ELSE seen
<1> DEFINE new == accumulated \o text
<1>1. accumulated' = new /\ accumulated' = accumulated \o text /\ ~done /\ UNCHANGED <<calls, done>>
  BY DEF Chat!push
<1>2. new \in Seq(Byte)
  BY ConcatProperties
<1>3. Starts(accumulated, new)
  BY StartsJoined
<1> HIDE DEF new
<1>4. FromText(new)
  BY <1>2, <1>3, WithinLonger DEF FromText
<1>5. CASE answer' = "rejected" /\ UNCHANGED <<parsed, emitted, seen>>
  BY <1>1, <1>2, <1>4, <1>5 DEF FromText
<1>6. CASE Chat!advance(new)
  BY <1>1, <1>2, <1>4, <1>6, AdvanceHolds
<1> QED BY <1>1, <1>5, <1>6 DEF Chat!push

\* The rest of a reply that is rejected in the end follows what the caller has.
LEMMA RejectedHolds ==
  ASSUME accumulated \in Seq(Byte), FromText(accumulated), Chat!FinishRejected
  PROVE  /\ emitted' \in Seq(Byte) /\ seen' = emitted' /\ Within(emitted', accumulated)
         /\ IsSuffix(seen', accumulated)
<1> DEFINE t == accumulated
           e == emitted
           F == {n \in 0..Len(t) : Chat!IsPrefix(e, After(t, n))}
           k == Min(F)
<1>1. t \in Seq(Byte) /\ e \in Seq(Byte) /\ Len(t) \in Nat /\ Len(e) \in Nat /\ seen = e /\ Within(e, t)
  BY LenProperties DEF FromText
<1>2. \A n \in 0..Len(t) : n \in F <=> Starts(e, After(t, n))
  <2> TAKE n \in 0..Len(t)
  <2>1. After(t, n) \in Seq(Byte)
    BY <1>1, AfterProperties
  <2>2. Chat!IsPrefix(e, After(t, n)) <=> IsPrefix(e, After(t, n))
    BY DEF Chat!IsPrefix, IsPrefix
  <2>3. IsPrefix(e, After(t, n)) <=> Starts(e, After(t, n))
    BY <1>1, <2>1, PrefixIs
  <2> QED BY <2>2, <2>3
<1>3. Chat!Found = F
  BY DEF Chat!Found, Chat!After, After
<1>4. F \subseteq 0..Len(t)
  OBVIOUS
<1> HIDE DEF t, e, F
<1>5. F # {}
  <2>1. PICK n \in 0..Len(t) : n + Len(e) <= Len(t) /\ \A j \in 1..Len(e) : t[n + j] = e[j]
    BY <1>1 DEF Within
  <2>2. /\ After(t, n) \in Seq(Byte) /\ Len(After(t, n)) = Len(t) - n
        /\ \A i \in 1..(Len(t) - n) : After(t, n)[i] = t[n + i]
    BY <1>1, AfterProperties
  <2>3. Len(e) <= Len(t) - n /\ \A j \in 1..Len(e) : j \in 1..(Len(t) - n)
    BY <1>1, <2>1
  <2>4. Starts(e, After(t, n))
    BY <2>1, <2>2, <2>3 DEF Starts
  <2> QED BY <1>2, <2>4
<1>6. k \in F /\ \A m \in F : k <= m
  <2>1. F \subseteq Nat
    <3>1. 0..Len(t) \subseteq Nat
      BY <1>1
    <3> QED BY <1>4, <3>1
  <2> QED BY <1>5, <2>1, LeastMember
<1> HIDE DEF k
<1>7. k \in 0..Len(t) /\ k \in Nat /\ Starts(e, After(t, k))
  BY <1>1, <1>2, <1>4, <1>6
<1> DEFINE u == After(t, k)
<1>8. u \in Seq(Byte) /\ Len(u) = Len(t) - k /\ \A i \in 1..(Len(t) - k) : u[i] = t[k + i]
  BY <1>1, <1>7, AfterProperties
<1>9. k + Len(e) \in Chat!raw_offset_after_emitted
  BY <1>3, <1>6 DEF Chat!raw_offset_after_emitted, e
<1>10. ASSUME NEW offset \in Chat!raw_offset_after_emitted PROVE offset = k + Len(e)
  <2>1. PICK n \in F : offset = n + Len(e) /\ \A m \in F : n <= m
    BY <1>3 DEF Chat!raw_offset_after_emitted, e
  <2>2. n <= k /\ k <= n /\ n \in Nat
    BY <1>1, <1>4, <1>6, <2>1
  <2> QED BY <1>7, <2>1, <2>2
<1>11. e \o After(t, k + Len(e)) = u
  <2>1. After(t, k + Len(e)) = After(u, Len(e))
    <3> DEFINE x == After(t, k + Len(e))
               y == After(u, Len(e))
    <3>1. Len(e) <= Len(u) /\ k <= Len(t)
      BY <1>1, <1>7 DEF Starts
    <3>2. k + Len(e) \in 0..Len(t) /\ Len(e) \in 0..Len(u)
      BY <1>1, <1>7, <1>8, <3>1
    <3>3. /\ x \in Seq(Byte) /\ Len(x) = Len(t) - (k + Len(e))
          /\ \A i \in 1..(Len(t) - (k + Len(e))) : x[i] = t[k + Len(e) + i]
      BY <1>1, <3>2, AfterProperties
    <3> HIDE DEF u
    <3>4. /\ y \in Seq(Byte) /\ Len(y) = Len(u) - Len(e)
          /\ \A i \in 1..(Len(u) - Len(e)) : y[i] = u[Len(e) + i]
      BY <1>8, <3>2, AfterProperties
    <3> HIDE DEF x, y
    <3>5. ASSUME NEW i \in 1..Len(x) PROVE x[i] = y[i]
      <4>1. /\ i \in 1..(Len(t) - (k + Len(e))) /\ i \in 1..(Len(u) - Len(e))
            /\ Len(e) + i \in 1..(Len(t) - k) /\ k + (Len(e) + i) = k + Len(e) + i
        <5>1. i \in Nat /\ 1 <= i /\ i <= Len(t) - (k + Len(e))
          BY <1>1, <1>7, <3>3
        <5>2. Len(u) = Len(t) - k
          BY <1>8
        <5> QED BY <1>1, <1>7, <5>1, <5>2
      <4>2. x[i] = t[k + Len(e) + i]
        BY <3>3, <4>1
      <4>3. y[i] = u[Len(e) + i]
        BY <3>4, <4>1
      <4>4. u[Len(e) + i] = t[k + (Len(e) + i)]
        BY <1>8, <4>1
      <4> QED BY <4>1, <4>2, <4>3, <4>4
    <3>6. Len(x) = Len(y)
      BY <1>1, <1>7, <1>8, <3>3, <3>4
    <3>7. x = y
      BY <3>3, <3>4, <3>5, <3>6, SeqEqual
    <3> QED BY <3>7 DEF x, y
  <2>2. e \o After(u, Len(e)) = u
    BY <1>1, <1>7, <1>8, Completed
  <2> QED BY <2>1, <2>2
<1>12. emitted' = u /\ seen' = u
  <2>1. PICK offset \in Chat!raw_offset_after_emitted :
          emitted' = e \o After(t, offset) /\ seen' = seen \o After(t, offset)
    BY <1>9 DEF Chat!FinishRejected, Chat!After, After, e, t
  <2>2. offset = k + Len(e)
    BY <1>10
  <2> QED BY <1>1, <1>11, <2>1, <2>2
<1>13. Within(u, t)
  <2>1. k + Len(u) <= Len(t)
    BY <1>1, <1>7, <1>8
  <2>2. \A j \in 1..Len(u) : t[k + j] = u[j]
    BY <1>8
  <2> HIDE DEF u
  <2> QED BY <1>7, <2>1, <2>2 DEF Within
<1>14. IsSuffix(u, t)
  BY <1>1, <1>7, AfterIsSuffix
<1> HIDE DEF u
<1> QED BY <1>8, <1>12, <1>13, <1>14 DEF t

-----------------------------------------------------------------------------
(* The invariant *)

\* What the caller has was taken from the text that went through the filter.
ReadInv == accumulated \in Seq(Byte) /\ FromText(accumulated)

\* Where the reply is: the filter, the client and the stream agree on it.
StageInv ==
  /\ stage \in {"generate", "finish", "over"} /\ gone \in BOOLEAN
  /\ status = "Continue" <=> stage = "generate"
  /\ status = "Cancelled" => gone
  /\ gone => stage # "generate"
  /\ done => stage = "over"

\* The stream has seen all that was sent, unless the client is gone.
HeardInv == Starts(accumulated, sent) /\ (~gone => accumulated = sent)

\* Calls are handed out by the final parse only.
CallsInv ==
  calls # <<>> => done /\ calls = parsed.calls /\ answer # "rejected" /\ "fragment" \notin Range(calls)

PInv == /\ FP!IInv
        /\ ReadInv /\ StageInv /\ HeardInv /\ CallsInv /\ RejectedKeepsTheRest

\* The parts of a chunk's way: the filter has taken its step, on_chunk follows.
LEMMA OnChunkHolds ==
  ASSUME FP!IInv', ReadInv, HeardInv, gone = FALSE, sent \in Seq(Byte),
         sent' = sent \o chunk', NEW accepted \in BOOLEAN, on_chunk(accepted)
  PROVE  /\ ReadInv' /\ HeardInv' /\ UNCHANGED <<calls, done>>
         /\ ~accepted /\ chunk' # <<>> => gone'
         /\ accepted => gone' = FALSE
         /\ gone' \in BOOLEAN
         /\ \/ UNCHANGED chat
            \/ answer' = "message" =>
                 seen' = IF IsPrefix(seen, parsed'.content) THEN parsed'.content ELSE seen
<1>1. chunk' \in Seq(Byte) /\ sent' \in Seq(Byte)
  BY DEF FP!IInv, FP!TypeInv
<1>2. accumulated \in Seq(Byte) /\ accumulated = sent
  BY DEF ReadInv, HeardInv
<1>3. Starts(sent', sent') /\ Starts(sent, sent')
  <2>1. Len(sent') \in Nat
    BY <1>1, LenProperties
  <2> QED BY <1>1, <2>1, StartsJoined DEF Starts
<1>4. CASE chunk' = <<>> /\ UNCHANGED <<chat, gone>>
  <2>1. sent' = sent
    BY <1>1, <1>4, ConcatEmptySeq
  <2> QED BY <1>3, <1>4, <2>1 DEF chat, ReadInv, FromText, HeardInv
<1>5. CASE chunk' # <<>> /\ ~accepted /\ gone' = TRUE /\ UNCHANGED chat
  BY <1>2, <1>3, <1>5 DEF chat, ReadInv, FromText, HeardInv
<1>6. CASE chunk' # <<>> /\ Chat!push(chunk') /\ WriteVisible(accepted)
  <2>1. /\ accumulated' = accumulated \o chunk' /\ accumulated' \in Seq(Byte)
        /\ emitted' \in Seq(Byte) /\ seen' = emitted' /\ Within(emitted', accumulated')
        /\ ~done /\ UNCHANGED <<calls, done>>
        /\ answer' = "message" =>
             seen' = IF IsPrefix(seen, parsed'.content) THEN parsed'.content ELSE seen
    BY <1>1, <1>2, <1>6, PushStays DEF ReadInv
  <2>2. ReadInv' /\ HeardInv'
    BY <1>2, <1>3, <2>1 DEF ReadInv, FromText, HeardInv
  <2>3. gone' = ~accepted
    BY <1>6 DEF WriteVisible
  <2> QED BY <2>1, <2>2, <2>3
<1> QED BY <1>4, <1>5, <1>6 DEF on_chunk

\* A step of the filter and of on_chunk keeps the invariant.
LEMMA PushKeeps == ASSUME PInv, NEW piece \in Pieces, Push(piece) PROVE PInv'
<1>1. FP!IInv' /\ FP!IInv /\ sent \in Seq(Byte)
  BY FilterHolds DEF PInv, Push, FP!IInv, FP!TypeInv
<1>2. stage = "generate" /\ gone = FALSE /\ ~done /\ status = "Continue"
  BY DEF PInv, StageInv, Push
<1>3. sent' = sent \o chunk' /\ status' \in {"Continue", "Stopped", "Cancelled"}
      /\ (status' = "Cancelled" => chunk' # <<>>)
  BY DEF Push, Filter!push, Filter!PushMatched, Filter!PushUnmatched, Filter!deliver
<1>4. /\ ReadInv' /\ HeardInv' /\ UNCHANGED <<calls, done>>
      /\ status' = "Cancelled" => gone'
      /\ status' # "Cancelled" => gone' = FALSE
  <2> DEFINE accepted == status' # "Cancelled"
  <2>1. accepted \in BOOLEAN /\ on_chunk(accepted)
    BY DEF Push
  <2>2. ReadInv /\ HeardInv
    BY DEF PInv
  <2> HIDE DEF accepted
  <2>3. /\ ReadInv' /\ HeardInv' /\ UNCHANGED <<calls, done>>
        /\ ~accepted /\ chunk' # <<>> => gone'
        /\ accepted => gone' = FALSE
    BY <1>1, <1>2, <1>3, <2>1, <2>2, OnChunkHolds
  <2> QED BY <1>3, <2>3 DEF accepted
<1>5. StageInv'
  BY <1>2, <1>3, <1>4 DEF StageInv, Push
<1>6. calls = <<>> /\ ~done'
  BY <1>2, <1>4 DEF PInv, CallsInv
<1>7. CallsInv' /\ RejectedKeepsTheRest'
  BY <1>4, <1>6 DEF CallsInv, RejectedKeepsTheRest, Chat!RejectedKeepsTheRest
<1> QED BY <1>1, <1>4, <1>5, <1>7 DEF PInv

\* So does the end of the generation.
LEMMA FlushKeeps == ASSUME PInv, Flush PROVE PInv'
<1>1. FP!IInv' /\ FP!IInv /\ sent \in Seq(Byte)
  BY FilterHolds DEF PInv, Flush, FP!IInv, FP!TypeInv
<1>2. stage = "generate" /\ gone = FALSE /\ ~done /\ status = "Continue"
  BY DEF PInv, StageInv, Flush
<1>3. sent' = sent \o chunk' /\ status' = "flushed" /\ stage' = "finish"
  BY DEF Flush, Filter!flush, Filter!deliver
<1>4. ReadInv /\ HeardInv
  BY DEF PInv
<1>5. ReadInv' /\ HeardInv' /\ UNCHANGED <<calls, done>> /\ gone' \in BOOLEAN
  <2>1. PICK accepted \in BOOLEAN : on_chunk(accepted)
    BY DEF Flush
  <2> QED BY <1>1, <1>2, <1>3, <1>4, <2>1, OnChunkHolds
<1>6. StageInv'
  BY <1>2, <1>3, <1>5 DEF StageInv
<1>7. calls = <<>> /\ ~done'
  BY <1>2, <1>5 DEF PInv, CallsInv
<1>8. CallsInv' /\ RejectedKeepsTheRest'
  BY <1>5, <1>7 DEF CallsInv, RejectedKeepsTheRest, Chat!RejectedKeepsTheRest
<1> QED BY <1>1, <1>5, <1>6, <1>8 DEF PInv

\* And the final parse.
LEMMA FinishKeeps == ASSUME PInv, Finish PROVE PInv'
<1>1. UNCHANGED filter /\ stage = "finish" /\ stage' = "over"
  BY DEF Finish
<1>2. FP!IInv'
  <2>1. FP!IInv
    BY DEF PInv
  <2> QED BY <1>1, <2>1 DEF filter, FP!IInv, FP!TypeInv, FP!HeldInv, FP!OpenInv, FP!SentInv,
         FP!NothingLost, FP!HeldForAReason, FP!NoStopMissed, FP!EndedAtTheCut, FP!ChunksAreText,
         FP!HeldAll, FP!StopsIn, FP!AllText, FP!Starts, FP!TheCut
<1>3. /\ accumulated \in Seq(Byte) /\ FromText(accumulated) /\ ~done /\ calls = <<>>
      /\ Starts(accumulated, sent) /\ (~gone => accumulated = sent)
      /\ status # "Continue" /\ (status = "Cancelled" => gone)
  BY <1>1 DEF PInv, ReadInv, StageInv, HeardInv, CallsInv
<1>4. CASE gone' = TRUE /\ UNCHANGED chat
  <2>1. ReadInv' /\ StageInv' /\ HeardInv'
    BY <1>1, <1>3, <1>4 DEF chat, filter, ReadInv, FromText, StageInv, HeardInv
  <2>2. calls' = <<>> /\ ~done'
    BY <1>3, <1>4 DEF chat
  <2>3. CallsInv' /\ RejectedKeepsTheRest'
    BY <2>2 DEF CallsInv, RejectedKeepsTheRest, Chat!RejectedKeepsTheRest
  <2> QED BY <1>2, <2>1, <2>3 DEF PInv
<1>5. ASSUME ~gone, Chat!FinishAccepted \/ Chat!FinishRejected, NEW written \in BOOLEAN, WriteVisible(written)
      PROVE  PInv'
  <2>1. accumulated' = accumulated /\ done' = TRUE
    BY <1>5 DEF Chat!FinishAccepted, Chat!FinishRejected
  <2>2. gone' \in BOOLEAN /\ gone' = ~written
    BY <1>5 DEF WriteVisible
  <2>3. StageInv' /\ HeardInv'
    BY <1>1, <1>3, <1>5, <2>1, <2>2 DEF filter, StageInv, HeardInv
  <2>4. CASE Chat!FinishAccepted
    <3>1. Chat!advance(accumulated)
      BY <2>4 DEF Chat!FinishAccepted
    <3>2. /\ emitted' \in Seq(Byte) /\ seen' = emitted' /\ Within(emitted', accumulated)
          /\ answer' \in {"empty", "message"}
      BY <1>3, <3>1, AdvanceHolds
    <3>3. ReadInv' /\ RejectedKeepsTheRest'
      BY <1>3, <2>1, <3>2 DEF ReadInv, FromText, RejectedKeepsTheRest, Chat!RejectedKeepsTheRest
    <3>4. CallsInv'
      <4>1. calls' = IF \A i \in DOMAIN parsed'.calls : parsed'.calls[i] = "complete" THEN parsed'.calls ELSE <<>>
        BY <2>4 DEF Chat!FinishAccepted, Chat!AllOrNothing
      <4>2. CASE \A i \in DOMAIN parsed'.calls : parsed'.calls[i] = "complete"
        <5>1. calls' = parsed'.calls /\ \A i \in DOMAIN calls' : calls'[i] = "complete"
          BY <4>1, <4>2
        <5>2. "fragment" \notin Range(calls')
          BY <5>1 DEF Range
        <5> QED BY <2>1, <3>2, <5>1, <5>2 DEF CallsInv
      <4>3. CASE ~\A i \in DOMAIN parsed'.calls : parsed'.calls[i] = "complete"
        BY <4>1, <4>3 DEF CallsInv
      <4> QED BY <4>2, <4>3
    <3> QED BY <1>2, <2>3, <3>3, <3>4 DEF PInv
  <2>5. CASE Chat!FinishRejected
    <3>1. /\ emitted' \in Seq(Byte) /\ seen' = emitted' /\ Within(emitted', accumulated)
          /\ IsSuffix(seen', accumulated)
      BY <1>3, <2>5, RejectedHolds
    <3>2. IsSuffix(seen', accumulated)  <=> Chat!IsSuffix(seen', accumulated)
      BY DEF IsSuffix, Chat!IsSuffix, IsPrefix, Chat!IsPrefix, Reverse, Chat!Reverse
    <3>3. ReadInv' /\ RejectedKeepsTheRest'
      BY <1>3, <2>1, <3>1, <3>2 DEF ReadInv, FromText, RejectedKeepsTheRest, Chat!RejectedKeepsTheRest,
           Chat!IsSuffix, Chat!IsPrefix, Chat!Reverse
    <3>4. CallsInv'
      BY <1>3, <2>5 DEF Chat!FinishRejected, CallsInv
    <3> QED BY <1>2, <2>3, <3>3, <3>4 DEF PInv
  <2> QED BY <1>5, <2>4, <2>5
<1> QED BY <1>4, <1>5 DEF Finish

\* Nothing has been said when a reply begins.
LEMMA InitIsRight == Init => PInv
<1> SUFFICES ASSUME Init PROVE PInv
  OBVIOUS
<1>1. FP!IInv
  BY FilterHolds DEF Init
<1>2. /\ accumulated = <<>> /\ emitted = <<>> /\ seen = <<>> /\ calls = <<>> /\ ~done
      /\ sent = <<>> /\ status = "Continue" /\ stage = "generate" /\ gone = FALSE
  BY DEF Init, Filter!Init, Chat!Init
<1>3. <<>> \in Seq(Byte) /\ Len(<<>>) = 0
  BY EmptySeq
<1>4. Starts(<<>>, <<>>) /\ Within(<<>>, <<>>)
  BY <1>3 DEF Starts, Within
<1>5. ReadInv /\ HeardInv
  BY <1>2, <1>3, <1>4 DEF ReadInv, FromText, HeardInv
<1>6. StageInv /\ CallsInv /\ RejectedKeepsTheRest
  BY <1>2 DEF StageInv, CallsInv, RejectedKeepsTheRest, Chat!RejectedKeepsTheRest
<1> QED BY <1>1, <1>5, <1>6 DEF PInv

-----------------------------------------------------------------------------
(* Theorems *)

\* Every reachable state of the pipeline satisfies the invariant.
THEOREM Invariance == Spec => []PInv
<1>1. ASSUME PInv, [Next]_vars PROVE PInv'
  <2>1. CASE Flush
    BY <1>1, <2>1, FlushKeeps
  <2>2. CASE Finish
    BY <1>1, <2>2, FinishKeeps
  <2>3. CASE \E piece \in Pieces : Push(piece)
    BY <1>1, <2>3, PushKeeps
  <2>4. CASE UNCHANGED vars
    <3>1. FP!IInv'
      <4>1. FP!IInv
        BY <1>1 DEF PInv
      <4> QED BY <2>4, <4>1 DEF vars, filter, FP!IInv, FP!TypeInv, FP!HeldInv, FP!OpenInv, FP!SentInv,
             FP!NothingLost, FP!HeldForAReason, FP!NoStopMissed, FP!EndedAtTheCut, FP!ChunksAreText,
             FP!HeldAll, FP!StopsIn, FP!AllText, FP!Starts, FP!TheCut
    <3>2. ReadInv' /\ StageInv' /\ HeardInv' /\ CallsInv' /\ RejectedKeepsTheRest'
      BY <1>1, <2>4 DEF vars, filter, chat, PInv, ReadInv, FromText, StageInv, HeardInv, CallsInv,
           RejectedKeepsTheRest, Chat!RejectedKeepsTheRest
    <3> QED BY <3>1, <3>2 DEF PInv
  <2> QED BY <1>1, <2>1, <2>2, <2>3, <2>4 DEF Next
<1> QED BY <1>1, InitIsRight, PTL DEF Spec

\* The text that is sent is where the reply begins, whether it ended or not.
LEMMA SentStartsReply ==
  ASSUME FP!IInv
  PROVE  sent \in Seq(Byte) /\ Reply \in Seq(Byte) /\ Starts(sent, Reply)
<1>1. generated \in Seq(Byte) /\ sent \in Seq(Byte) /\ FP!Starts(sent, FP!TheCut(generated))
  BY DEF FP!IInv, FP!TypeInv, FP!SentInv
<1>2. FP!TheCut(generated) \in Seq(Byte)
  BY <1>1, TextsTyped, FP!CutTyped
<1> QED BY <1>1, <1>2, SameFilter DEF FP!Starts, Starts

\* Whatever the parser answers on the way, what a chat client reads is one stretch of
\* the text before the first stop string.
THEOREM ClientReadsAStretch == Spec => []ReadsAStretch
<1>1. ASSUME PInv PROVE ReadsAStretch
  <2>1. /\ accumulated \in Seq(Byte) /\ seen \in Seq(Byte) /\ Within(seen, accumulated)
        /\ Starts(accumulated, sent) /\ FP!IInv
    BY <1>1 DEF PInv, ReadInv, FromText, HeardInv
  <2>2. sent \in Seq(Byte) /\ Reply \in Seq(Byte) /\ Starts(sent, Reply)
    BY <2>1, SentStartsReply
  <2>3. Within(seen, sent)
    BY <2>1, <2>2, WithinLonger
  <2>4. Within(seen, Reply)
    BY <2>1, <2>2, <2>3, WithinLonger
  <2> QED BY <2>1, <2>2, <2>4, WithinIsPart DEF ReadsAStretch
<1> QED BY <1>1, Invariance, PTL

\* The final parse is of the whole reply, and hands out all calls or none: no chunk is
\* lost between the filter and the stream.
THEOREM WholeReplyIsParsed == Spec => []ParsesTheWholeReply
<1>1. ASSUME PInv PROVE ParsesTheWholeReply
  <2> SUFFICES ASSUME stage = "over", ~gone
               PROVE  /\ accumulated \in {Reply, Filter!Whole(Reply)}
                      /\ calls # <<>> => calls = parsed.calls /\ answer # "rejected" /\ "fragment" \notin Range(calls)
    BY DEF ParsesTheWholeReply
  <2>1. accumulated = sent /\ status # "Continue" /\ status # "Cancelled"
    BY <1>1 DEF PInv, HeardInv, StageInv
  <2>2. status \in {"Stopped", "flushed"}
    BY <1>1, <2>1 DEF PInv, FP!IInv, FP!TypeInv
  <2>3. sent \in {FP!TheCut(generated), FP!Whole(FP!TheCut(generated))}
    <3>1. FP!EndedAtTheCut
      BY <1>1 DEF PInv, FP!IInv
    <3> QED BY <2>2, <3>1 DEF FP!EndedAtTheCut, FP!TheCut
  <2>4. accumulated \in {Reply, Filter!Whole(Reply)}
    BY <2>1, <2>3, SameFilter
  <2> QED BY <1>1, <2>4 DEF PInv, CallsInv
<1> QED BY <1>1, Invariance, PTL

\* A reply that the parser rejects in the end is given on to its end, from where what
\* was already given began.
THEOREM RejectedIsGiven == Spec => []RejectedKeepsTheRest
<1>1. PInv => RejectedKeepsTheRest
  BY DEF PInv
<1> QED BY <1>1, Invariance, PTL

\* However the parser changes its mind, a message leaves the client with its content or
\* with what the client had.
THEOREM ContentIsRead == Spec => ReadsTheContent
<1> DEFINE A == answer' = "message" =>
                  seen' = IF IsPrefix(seen, parsed'.content) THEN parsed'.content ELSE seen
<1>1. ASSUME PInv, PInv', [Next]_vars PROVE A \/ UNCHANGED chat
  <2>1. CASE Flush
    <3>1. /\ FP!IInv' /\ ReadInv /\ HeardInv /\ gone = FALSE /\ sent \in Seq(Byte)
          /\ sent' = sent \o chunk'
      BY <1>1, <2>1 DEF PInv, StageInv, FP!IInv, FP!TypeInv, Flush, Filter!flush, Filter!deliver
    <3>2. PICK accepted \in BOOLEAN : on_chunk(accepted)
      BY <2>1 DEF Flush
    <3> QED BY <3>1, <3>2, OnChunkHolds
  <2>2. CASE \E piece \in Pieces : Push(piece)
    <3>1. /\ FP!IInv' /\ ReadInv /\ HeardInv /\ gone = FALSE /\ sent \in Seq(Byte)
          /\ sent' = sent \o chunk'
      BY <1>1, <2>2 DEF PInv, StageInv, FP!IInv, FP!TypeInv, Push, Filter!push, Filter!PushMatched,
           Filter!PushUnmatched, Filter!deliver
    <3>2. PICK accepted \in BOOLEAN : on_chunk(accepted)
      BY <2>2 DEF Push
    <3> QED BY <3>1, <3>2, OnChunkHolds
  <2>3. CASE Finish
    <3>1. accumulated \in Seq(Byte) /\ FromText(accumulated)
      BY <1>1 DEF PInv, ReadInv
    <3>2. CASE Chat!FinishAccepted
      <4>1. Chat!advance(accumulated)
        BY <3>2 DEF Chat!FinishAccepted
      <4> QED BY <3>1, <4>1, AdvanceHolds
    <3>3. CASE Chat!FinishRejected
      BY <3>3 DEF Chat!FinishRejected
    <3> QED BY <2>3, <3>2, <3>3 DEF Finish
  <2>4. CASE UNCHANGED vars
    BY <2>4 DEF vars
  <2> QED BY <1>1, <2>1, <2>2, <2>3, <2>4 DEF Next
<1>2. A \/ UNCHANGED chat =>
        [answer' = "message" =>
           seen' = IF Chat!IsPrefix(seen, parsed'.content) THEN parsed'.content ELSE seen]_Chat!vars
  BY DEF chat, Chat!vars, IsPrefix, Chat!IsPrefix
<1> HIDE DEF A
<1> QED BY <1>1, <1>2, Invariance, PTL DEF Spec, ReadsTheContent, Chat!ReadsTheContent
=============================================================================
