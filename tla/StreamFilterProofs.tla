------------------------- MODULE StreamFilterProofs -------------------------
(***************************************************************************)
(* Theorems about StreamFilter, for every alphabet, every set of pieces    *)
(* and every list of stop strings.                                         *)
(***************************************************************************)
EXTENDS StreamFilter, Extremes, SequenceTheorems, TLAPS

-----------------------------------------------------------------------------
(* Texts *)

\* The first n bytes of a text.
LEMMA TakeProperties ==
  ASSUME NEW s \in Seq(Byte), NEW n \in 0..Len(s)
  PROVE  /\ Take(s, n) \in Seq(Byte) /\ Len(Take(s, n)) = n
         /\ \A i \in 1..n : Take(s, n)[i] = s[i]
<1>1. Len(s) \in Nat /\ n \in Int /\ n <= Len(s) /\ 0 <= n
  BY LenProperties
<1>2. \A i \in 1..n : s[i] \in Byte
  BY <1>1, ElementOfSeq
<1> QED BY <1>1, <1>2, SubSeqProperties DEF Take

\* The last n bytes of a text.
LEMMA FinalProperties ==
  ASSUME NEW s \in Seq(Byte), NEW n \in 0..Len(s)
  PROVE  /\ Final(s, n) \in Seq(Byte) /\ Len(Final(s, n)) = n
         /\ \A i \in 1..n : Final(s, n)[i] = s[Len(s) - n + i]
<1>1. Len(s) \in Nat /\ n \in Int /\ n <= Len(s) /\ 0 <= n
  BY LenProperties
<1>2. \A i \in (Len(s) - n + 1)..Len(s) : s[i] \in Byte
  BY <1>1, ElementOfSeq
<1>3. /\ SubSeq(s, Len(s) - n + 1, Len(s)) \in Seq(Byte)
      /\ Len(SubSeq(s, Len(s) - n + 1, Len(s))) =
           IF Len(s) - n + 1 <= Len(s) THEN Len(s) - (Len(s) - n + 1) + 1 ELSE 0
      /\ \A i \in 1..(Len(s) - (Len(s) - n + 1) + 1) :
           SubSeq(s, Len(s) - n + 1, Len(s))[i] = s[Len(s) - n + 1 + i - 1]
  <2>1. Len(s) - n + 1 \in Int /\ Len(s) \in Int
    BY <1>1
  <2> QED BY <1>2, <2>1, SubSeqProperties
<1>4. Len(s) - (Len(s) - n + 1) + 1 = n /\ \A i \in 1..n : Len(s) - n + 1 + i - 1 = Len(s) - n + i
  BY <1>1
<1> QED BY <1>1, <1>3, <1>4 DEF Final

\* The bytes of a text followed by another.
LEMMA Joined ==
  ASSUME NEW s \in Seq(Byte), NEW t \in Seq(Byte)
  PROVE  /\ s \o t \in Seq(Byte) /\ Len(s \o t) = Len(s) + Len(t)
         /\ Len(s) \in Nat /\ Len(t) \in Nat
         /\ \A i \in 1..Len(s) : (s \o t)[i] = s[i]
         /\ \A i \in 1..Len(t) : (s \o t)[Len(s) + i] = t[i]
<1>1. Len(s) \in Nat /\ Len(t) \in Nat
  BY LenProperties
<1>2. /\ s \o t \in Seq(Byte) /\ Len(s \o t) = Len(s) + Len(t)
      /\ \A i \in 1..(Len(s) + Len(t)) : (s \o t)[i] = IF i <= Len(s) THEN s[i] ELSE t[i - Len(s)]
  BY ConcatProperties
<1>3. \A i \in 1..Len(s) : (s \o t)[i] = s[i]
  BY <1>1, <1>2
<1>4. \A i \in 1..Len(t) : /\ Len(s) + i \in 1..(Len(s) + Len(t)) /\ ~(Len(s) + i <= Len(s))
                           /\ Len(s) + i - Len(s) = i
  BY <1>1
<1> QED BY <1>1, <1>2, <1>3, <1>4

\* Three texts can be joined in either order.
LEMMA Regrouped ==
  ASSUME NEW s \in Seq(Byte), NEW t \in Seq(Byte), NEW u \in Seq(Byte)
  PROVE  (s \o t) \o u = s \o (t \o u)
BY ConcatAssociative

\* A text is its front and its end.
LEMMA Divided ==
  ASSUME NEW s \in Seq(Byte), NEW n \in 0..Len(s)
  PROVE  Take(s, Len(s) - n) \o Final(s, n) = s
<1> DEFINE f == Take(s, Len(s) - n)
           e == Final(s, n)
<1>1. Len(s) \in Nat /\ Len(s) - n \in 0..Len(s)
  BY LenProperties
<1>2. f \in Seq(Byte) /\ Len(f) = Len(s) - n /\ \A i \in 1..(Len(s) - n) : f[i] = s[i]
  BY <1>1, TakeProperties
<1>3. e \in Seq(Byte) /\ Len(e) = n /\ \A i \in 1..n : e[i] = s[Len(s) - n + i]
  BY FinalProperties
<1> HIDE DEF f, e
<1>4. /\ f \o e \in Seq(Byte) /\ Len(f \o e) = Len(s)
      /\ \A i \in 1..Len(f) : (f \o e)[i] = f[i]
      /\ \A i \in 1..Len(e) : (f \o e)[Len(f) + i] = e[i]
  BY <1>1, <1>2, <1>3, Joined
<1>5. ASSUME NEW i \in 1..Len(s) PROVE (f \o e)[i] = s[i]
  <2>1. CASE i <= Len(s) - n
    BY <1>1, <1>2, <1>4, <2>1
  <2>2. CASE i > Len(s) - n
    <3> DEFINE j == i - (Len(s) - n)
    <3>1. j \in 1..n /\ i = Len(s) - n + j /\ j \in 1..Len(e)
      BY <1>1, <1>3, <2>2
    <3> HIDE DEF j
    <3> QED BY <1>2, <1>3, <1>4, <3>1
  <2>3. i <= Len(s) - n \/ i > Len(s) - n
    BY <1>1
  <2> QED BY <2>1, <2>2, <2>3, Zenon
<1>6. f \o e = s
  BY <1>4, <1>5, SeqEqual
<1> QED BY <1>6 DEF f, e

\* Texts of the same length and bytes are the same.
LEMMA SameText ==
  ASSUME NEW s \in Seq(Byte), NEW t \in Seq(Byte), Len(s) = Len(t), \A i \in 1..Len(s) : s[i] = t[i]
  PROVE  s = t
BY SeqEqual

-----------------------------------------------------------------------------
(* What is held back *)

\* A byte's width is a small number.
LEMMA WidthTyped ==
  ASSUME NEW s \in Seq(Byte), NEW i \in 1..Len(s)
  PROVE  Width[s[i]] \in 0..5
BY ElementOfSeq, ByteTyped

\* A torn end begins with the first byte from the end that is no continuation.
LEMMA TornIsTail ==
  ASSUME NEW s \in Seq(Byte), NEW k \in 1..Lesser(Len(s), 3), Torn(s, k)
  PROVE  incomplete_utf8_tail(s) = k
<1> DEFINE at(j) == Width[s[Len(s) - j + 1]]
           leads == {j \in 1..Lesser(Len(s), 4) : at(j) # Cont}
<1>1. Len(s) \in Nat
  BY LenProperties
<1>2. k \in Nat /\ 1 <= k /\ k <= 3 /\ k <= Len(s)
  BY <1>1 DEF Lesser
<1>3. at(k) \in (k + 1)..4
  BY DEF Torn
<1>4. k \in leads /\ at(k) # Bad /\ k < at(k)
  BY <1>1, <1>2, <1>3 DEF Lesser, Cont, Bad
<1>5. ASSUME NEW j \in leads PROVE ~(j < k)
  <2> SUFFICES ASSUME j < k PROVE FALSE
    OBVIOUS
  <2>1. j \in Nat /\ 1 <= j /\ at(j) # Cont
    BY <1>1 DEF Lesser
  <2>2. Len(s) - j + 1 \in (Len(s) - k + 2)..Len(s)
    BY <1>1, <1>2, <2>1
  <2> QED BY <2>1, <2>2 DEF Torn
<1>6. leads \subseteq Nat
  BY <1>1 DEF Lesser
<1> HIDE DEF leads
<1>7. Min(leads) = k
  <2>1. Min(leads) \in leads /\ Min(leads) <= k
    BY <1>4, <1>6, LeastMember
  <2>2. ~(Min(leads) < k)
    BY <1>5, <2>1
  <2>3. Min(leads) \in Nat
    BY <1>6, <2>1
  <2> QED BY <1>2, <2>1, <2>2, <2>3
<1>8. incomplete_utf8_tail(s) = IF leads # {} /\ at(Min(leads)) # Bad /\ Min(leads) < at(Min(leads))
                                  THEN Min(leads) ELSE 0
  BY DEF incomplete_utf8_tail, leads
<1> QED BY <1>4, <1>7, <1>8

\* The tail that incomplete_utf8_tail counts is torn.
LEMMA TailIsTorn ==
  ASSUME NEW s \in Seq(Byte)
  PROVE  \/ incomplete_utf8_tail(s) = 0
         \/ incomplete_utf8_tail(s) \in 1..Lesser(Len(s), 3) /\ Torn(s, incomplete_utf8_tail(s))
<1> DEFINE at(j) == Width[s[Len(s) - j + 1]]
           leads == {j \in 1..Lesser(Len(s), 4) : at(j) # Cont}
           k == Min(leads)
<1>1. Len(s) \in Nat
  BY LenProperties
<1>2. leads \subseteq Nat /\ leads \subseteq 1..Lesser(Len(s), 4)
  BY <1>1 DEF Lesser
<1>3. \A j \in 1..Lesser(Len(s), 4) : j \notin leads => at(j) = Cont
  OBVIOUS
<1> HIDE DEF leads
<1>4. incomplete_utf8_tail(s) = IF leads # {} /\ at(k) # Bad /\ k < at(k) THEN k ELSE 0
  BY DEF incomplete_utf8_tail, leads
<1>5. CASE leads # {} /\ at(k) # Bad /\ k < at(k)
  <2>1. k \in leads /\ \A y \in leads : k <= y
    BY <1>2, <1>5, LeastMember
  <2> HIDE DEF k
  <2>2. k \in Nat /\ 1 <= k /\ k <= 4 /\ k <= Len(s)
    BY <1>1, <1>2, <2>1 DEF Lesser
  <2>3. at(k) \in 0..5
    BY <1>1, <2>2, WidthTyped
  <2>4. at(k) \in (k + 1)..4 /\ k <= 3
    BY <1>5, <2>2, <2>3 DEF Bad
  <2>5. ASSUME NEW i \in (Len(s) - k + 2)..Len(s) PROVE Width[s[i]] = Cont
    <3> DEFINE j == Len(s) - i + 1
    <3>1. j \in Nat /\ 1 <= j /\ j < k /\ i = Len(s) - j + 1
      BY <1>1, <2>2
    <3> HIDE DEF j
    <3>2. j \in 1..Lesser(Len(s), 4) /\ j \notin leads
      BY <1>1, <2>1, <2>2, <3>1 DEF Lesser
    <3> QED BY <1>3, <3>1, <3>2
  <2>6. Torn(s, k)
    BY <2>4, <2>5 DEF Torn
  <2>7. k \in 1..Lesser(Len(s), 3)
    BY <1>1, <2>2, <2>4 DEF Lesser
  <2> QED BY <1>4, <1>5, <2>6, <2>7
<1> QED BY <1>4, <1>5

\* Stop strings are texts.
LEMMA StopsTyped ==
  ASSUME stops \in StopLists
  PROVE  \A i \in DOMAIN stops : stops[i] \in Seq(Byte) /\ Len(stops[i]) \in Nat
<1>1. stops \in Seq(Seq(Byte))
  BY PiecesTyped
<1>2. \A i \in DOMAIN stops : stops[i] \in Seq(Byte)
  BY <1>1, ElementOfSeq, LenProperties
<1> QED BY <1>2, LenProperties

\* An end of p that begins the stop string s, and is not all of it.
Begins(p, n, s) == n < Len(s) /\ Final(p, n) = Take(s, n)

\* stop_prefix_holdback is the longest end of p that begins a stop string.
LEMMA HoldbackIsLongest ==
  ASSUME NEW p \in Seq(Byte)
  PROVE  /\ stop_prefix_holdback(p) \in 0..Len(p)
         /\ \A n \in 1..Len(p) : (\E i \in DOMAIN stops : Begins(p, n, stops[i])) => n <= stop_prefix_holdback(p)
         /\ stop_prefix_holdback(p) # 0 =>
              \E i \in DOMAIN stops : Begins(p, stop_prefix_holdback(p), stops[i])
<1> DEFINE S == {n \in 1..Len(p) : \E i \in DOMAIN stops : Begins(p, n, stops[i])}
           H == {0} \cup S
<1>1. Len(p) \in Nat
  BY LenProperties
<1>2. H \subseteq 0..Len(p) /\ H # {}
  <2>1. S \subseteq 1..Len(p)
    OBVIOUS
  <2> HIDE DEF S
  <2> QED BY <1>1, <2>1
<1>3. stop_prefix_holdback(p) = Max(H)
  BY DEF stop_prefix_holdback, Begins
<1>4. Max(H) \in H /\ \A y \in H : y <= Max(H)
  <2> HIDE DEF H
  <2> QED BY <1>1, <1>2, GreatestMember
<1>5. \A n \in S : n <= Max(H)
  BY <1>4
<1>6. Max(H) # 0 => Max(H) \in S
  BY <1>4
<1>7. Max(H) \in 0..Len(p)
  BY <1>2, <1>4
<1> HIDE DEF H
<1> QED BY <1>3, <1>5, <1>6, <1>7

\* What is held back is some end of the text: the longer of the two there is a reason for.
LEMMA HoldIsLonger ==
  ASSUME NEW p \in Seq(Byte)
  PROVE  /\ Hold(p) \in 0..Len(p)
         /\ incomplete_utf8_tail(p) <= Hold(p) /\ stop_prefix_holdback(p) <= Hold(p)
         /\ Hold(p) = incomplete_utf8_tail(p) \/ Hold(p) = stop_prefix_holdback(p)
<1>1. Len(p) \in Nat /\ stop_prefix_holdback(p) \in 0..Len(p)
  BY LenProperties, HoldbackIsLongest
<1>2. incomplete_utf8_tail(p) \in 0..Len(p)
  BY <1>1, TailIsTorn DEF Lesser
<1> QED BY <1>1, <1>2 DEF Hold, Lesser, Greater

-----------------------------------------------------------------------------
(* Where stop strings are *)

\* OccursAt, byte by byte.
LEMMA OccursByByte ==
  ASSUME NEW s \in Seq(Byte), NEW t \in Seq(Byte), NEW n \in Nat
  PROVE  OccursAt(s, t, n) <=> n + Len(s) <= Len(t) /\ \A j \in 1..Len(s) : t[n + j] = s[j]
<1>1. Len(s) \in Nat /\ Len(t) \in Nat
  BY LenProperties
<1> DEFINE u == SubSeq(t, n + 1, n + Len(s))
<1>2. ASSUME n + Len(s) <= Len(t)
      PROVE  u \in Seq(Byte) /\ Len(u) = Len(s) /\ \A j \in 1..Len(s) : u[j] = t[n + j]
  <2>1. \A i \in (n + 1)..(n + Len(s)) : t[i] \in Byte
    BY <1>1, <1>2, ElementOfSeq
  <2>2. n + 1 \in Int /\ n + Len(s) \in Int
    BY <1>1
  <2>3. /\ u \in Seq(Byte)
        /\ Len(u) = IF n + 1 <= n + Len(s) THEN n + Len(s) - (n + 1) + 1 ELSE 0
        /\ \A i \in 1..(n + Len(s) - (n + 1) + 1) : u[i] = t[n + 1 + i - 1]
    BY <2>1, <2>2, SubSeqProperties
  <2> HIDE DEF u
  <2>4. n + Len(s) - (n + 1) + 1 = Len(s) /\ \A j \in 1..Len(s) : n + 1 + j - 1 = n + j
    BY <1>1
  <2> QED BY <1>1, <2>3, <2>4
<1> HIDE DEF u
<1>3. ASSUME n + Len(s) <= Len(t), \A j \in 1..Len(s) : t[n + j] = s[j] PROVE u = s
  BY <1>2, <1>3, SameText
<1>4. OccursAt(s, t, n) <=> n + Len(s) <= Len(t) /\ u = s
  BY DEF OccursAt, u
<1> QED BY <1>2, <1>3, <1>4

\* Begins, byte by byte.
LEMMA BeginsByByte ==
  ASSUME NEW p \in Seq(Byte), NEW n \in 0..Len(p), NEW s \in Seq(Byte)
  PROVE  Begins(p, n, s) <=> n < Len(s) /\ \A j \in 1..n : p[Len(p) - n + j] = s[j]
<1>1. Len(p) \in Nat /\ Len(s) \in Nat /\ n \in Nat
  BY LenProperties
<1>2. Final(p, n) \in Seq(Byte) /\ Len(Final(p, n)) = n /\ \A j \in 1..n : Final(p, n)[j] = p[Len(p) - n + j]
  BY FinalProperties
<1>3. ASSUME n < Len(s)
      PROVE  Take(s, n) \in Seq(Byte) /\ Len(Take(s, n)) = n /\ \A j \in 1..n : Take(s, n)[j] = s[j]
  <2>1. n \in 0..Len(s)
    BY <1>1, <1>3
  <2> QED BY <2>1, TakeProperties
<1>4. ASSUME n < Len(s), \A j \in 1..n : p[Len(p) - n + j] = s[j] PROVE Final(p, n) = Take(s, n)
  BY <1>2, <1>3, <1>4, SameText
<1> QED BY <1>2, <1>3, <1>4 DEF Begins

\* find is where s first occurs.
LEMMA FindIsFirst ==
  ASSUME NEW text \in Seq(Byte), NEW s \in Seq(Byte)
  PROVE  /\ find(text, s) \in 0..npos(text)
         /\ find(text, s) # npos(text) => find(text, s) \in 0..Len(text) /\ OccursAt(s, text, find(text, s))
         /\ \A n \in 0..Len(text) : OccursAt(s, text, n) => find(text, s) <= n
<1> DEFINE F == {n \in 0..Len(text) : OccursAt(s, text, n)}
           S == F \cup {npos(text)}
<1>1. Len(text) \in Nat /\ npos(text) \in Nat /\ npos(text) = Len(text) + 1
  BY LenProperties DEF npos
<1>2. F \subseteq 0..Len(text)
  OBVIOUS
<1>3. S \subseteq Nat /\ S # {} /\ S \subseteq 0..npos(text)
  <2>1. F \subseteq 0..npos(text) /\ npos(text) \in 0..npos(text)
    <3>1. \A n \in 0..Len(text) : n \in 0..npos(text)
      BY <1>1
    <3> HIDE DEF F
    <3> QED BY <1>1, <1>2, <3>1
  <2>2. S \subseteq 0..npos(text)
    <3> HIDE DEF F
    <3> QED BY <2>1, Zenon
  <2>3. 0..npos(text) \subseteq Nat
    BY <1>1
  <2> HIDE DEF F
  <2> QED BY <2>2, <2>3
<1>4. find(text, s) = Min(S)
  BY DEF find
<1>5. Min(S) \in S /\ \A y \in S : Min(S) <= y
  <2> HIDE DEF S
  <2> QED BY <1>3, LeastMember
<1>6. Min(S) \in 0..npos(text)
  <2> HIDE DEF S
  <2> QED BY <1>3, <1>5
<1>7. Min(S) # npos(text) => Min(S) \in F
  BY <1>5
<1>8. \A n \in F : Min(S) <= n
  BY <1>5
<1> HIDE DEF S
<1> QED BY <1>4, <1>6, <1>7, <1>8

\* match is where a stop string first occurs, npos if none does.
LEMMA MatchIsFirst ==
  ASSUME stops \in StopLists, NEW text \in Seq(Byte)
  PROVE  /\ match(text) = npos(text) => StopsIn(text) = {}
         /\ match(text) # npos(text) => match(text) \in StopsIn(text) /\ match(text) \in 0..Len(text)
         /\ \A n \in StopsIn(text) : match(text) <= n
<1> DEFINE I == {j \in DOMAIN stops : stops[j] # <<>>}
           F == {find(text, stops[i]) : i \in I}
           S == {npos(text)} \cup F
<1>1. Len(text) \in Nat /\ npos(text) \in Nat /\ npos(text) = Len(text) + 1
  BY LenProperties DEF npos
<1>2. \A i \in I : stops[i] \in Seq(Byte)
  BY StopsTyped
<1>3. \A i \in I : /\ find(text, stops[i]) \in 0..npos(text)
                   /\ find(text, stops[i]) # npos(text) =>
                        /\ find(text, stops[i]) \in 0..Len(text)
                        /\ OccursAt(stops[i], text, find(text, stops[i]))
                   /\ \A n \in 0..Len(text) : OccursAt(stops[i], text, n) => find(text, stops[i]) <= n
  BY <1>2, FindIsFirst
<1>4. F \subseteq Nat
  BY <1>1, <1>3
<1>5. S \subseteq Nat /\ S # {}
  <2> HIDE DEF F
  <2> QED BY <1>1, <1>4
<1>6. match(text) = Min(S)
  BY DEF match
<1>7. Min(S) \in S /\ \A y \in S : Min(S) <= y
  <2> HIDE DEF S
  <2> QED BY <1>5, LeastMember
<1>8. ASSUME Min(S) # npos(text) PROVE Min(S) \in StopsIn(text) /\ Min(S) \in 0..Len(text)
  <2>1. PICK i \in I : Min(S) = find(text, stops[i])
    BY <1>7, <1>8
  <2> HIDE DEF S
  <2>2. Min(S) \in 0..Len(text) /\ OccursAt(stops[i], text, Min(S))
    BY <1>3, <1>8, <2>1
  <2> QED BY <2>2 DEF StopsIn
<1>9. ASSUME NEW n \in StopsIn(text) PROVE Min(S) <= n /\ Min(S) # npos(text)
  <2>1. PICK i \in DOMAIN stops : stops[i] # <<>> /\ OccursAt(stops[i], text, n)
    BY <1>9 DEF StopsIn
  <2>2. i \in I /\ n \in 0..Len(text)
    BY <1>9, <2>1 DEF StopsIn
  <2>3. find(text, stops[i]) <= n /\ find(text, stops[i]) \in Nat
    BY <1>1, <1>3, <2>1, <2>2
  <2>4. Min(S) <= find(text, stops[i]) /\ Min(S) \in Nat
    BY <1>5, <1>7, <2>2
  <2> HIDE DEF S
  <2> QED BY <1>1, <2>2, <2>3, <2>4
<1> HIDE DEF S
<1> QED BY <1>6, <1>8, <1>9

\* Every end of g that begins a stop string is within its last k bytes.
HeldAll(g, k) == \A m \in 1..Len(g) : \A i \in DOMAIN stops : Begins(g, m, stops[i]) => m <= k

\* push keeps back every end of the whole text that begins a stop string, although it
\* only looks at what it holds.
LEMMA HeldStays ==
  ASSUME stops \in StopLists, NEW a \in Seq(Byte), NEW b \in Seq(Byte), NEW c \in Seq(Byte),
         HeldAll(a \o b, Len(b))
  PROVE  HeldAll(a \o (b \o c), Hold(b \o c))
<1> DEFINE text == b \o c
           old == a \o b
           new == a \o text
<1>1. /\ Len(a) \in Nat /\ Len(b) \in Nat /\ Len(c) \in Nat
      /\ text \in Seq(Byte) /\ Len(text) = Len(b) + Len(c)
      /\ \A i \in 1..Len(b) : text[i] = b[i]
  BY Joined
<1>2. /\ old \in Seq(Byte) /\ Len(old) = Len(a) + Len(b)
      /\ \A i \in 1..Len(a) : old[i] = a[i]
      /\ \A i \in 1..Len(b) : old[Len(a) + i] = b[i]
  BY Joined
<1> HIDE DEF text
<1>3. /\ new \in Seq(Byte) /\ Len(new) = Len(a) + Len(text)
      /\ \A i \in 1..Len(a) : new[i] = a[i]
      /\ \A i \in 1..Len(text) : new[Len(a) + i] = text[i]
  BY <1>1, Joined
<1> HIDE DEF old, new
<1>4. \A i \in 1..Len(old) : new[i] = old[i]
  <2> TAKE i \in 1..Len(old)
  <2>1. CASE i <= Len(a)
    BY <1>1, <1>2, <1>3, <2>1
  <2>2. CASE i > Len(a)
    <3>1. i - Len(a) \in 1..Len(b) /\ i - Len(a) \in 1..Len(text) /\ Len(a) + (i - Len(a)) = i
      BY <1>1, <1>2, <2>2
    <3> QED BY <1>1, <1>2, <1>3, <3>1
  <2>3. i <= Len(a) \/ i > Len(a)
    BY <1>1, <1>2
  <2> QED BY <2>1, <2>2, <2>3, Zenon
<1>5. ASSUME NEW m \in 1..Len(new), NEW i \in DOMAIN stops, Begins(new, m, stops[i])
      PROVE  m <= Hold(text)
  <2> DEFINE s == stops[i]
  <2>1. s \in Seq(Byte) /\ Len(s) \in Nat
    BY StopsTyped
  <2> HIDE DEF s
  <2>2. m \in Nat /\ m \in 0..Len(new) /\ 1 <= m /\ m <= Len(a) + Len(b) + Len(c)
    BY <1>1, <1>3
  <2>3. m < Len(s) /\ \A j \in 1..m : new[Len(new) - m + j] = s[j]
    BY <1>3, <1>5, <2>1, <2>2, BeginsByByte DEF s
  <2>4. CASE m <= Len(text)
    <3>1. m \in 0..Len(text) /\ m \in 1..Len(text)
      BY <1>1, <2>2, <2>4
    <3>2. ASSUME NEW j \in 1..m PROVE text[Len(text) - m + j] = s[j]
      <4>1. Len(text) - m + j \in 1..Len(text) /\ Len(new) - m + j = Len(a) + (Len(text) - m + j)
        BY <1>1, <1>3, <2>2, <3>1
      <4> QED BY <1>3, <2>3, <4>1
    <3>3. Begins(text, m, s)
      BY <1>1, <2>1, <2>3, <3>1, <3>2, BeginsByByte
    <3>4. m <= stop_prefix_holdback(text)
      BY <1>1, <3>1, <3>3, HoldbackIsLongest DEF s
    <3>5. /\ stop_prefix_holdback(text) <= Hold(text) /\ Hold(text) \in 0..Len(text)
          /\ stop_prefix_holdback(text) \in 0..Len(text)
      BY <1>1, HoldIsLonger, HoldbackIsLongest
    <3> QED BY <1>1, <2>2, <3>4, <3>5
  <2>5. CASE m > Len(text)
    <3> DEFINE k == m - Len(c)
    <3>1. k \in 0..Len(old) /\ k \in 1..Len(old) /\ k > Len(b) /\ k < Len(s)
      BY <1>1, <1>2, <2>1, <2>2, <2>3, <2>5
    <3>2. ASSUME NEW j \in 1..k PROVE old[Len(old) - k + j] = s[j]
      <4>1. /\ Len(old) - k + j = Len(new) - m + j
            /\ Len(old) - k + j \in 1..Len(old) /\ j \in 1..m
        BY <1>1, <1>2, <1>3, <2>2, <3>1
      <4> QED BY <1>4, <2>3, <4>1
    <3> HIDE DEF k
    <3>3. Begins(old, k, s)
      BY <1>2, <2>1, <3>1, <3>2, BeginsByByte
    <3>4. k <= Len(b)
      BY <3>1, <3>3 DEF HeldAll, old, s
    <3> QED BY <1>1, <1>2, <3>1, <3>4
  <2>6. m <= Len(text) \/ m > Len(text)
    BY <1>1, <2>2
  <2> QED BY <2>4, <2>5, <2>6, Zenon
<1>6. HeldAll(new, Hold(text))
  BY <1>5 DEF HeldAll
<1> QED BY <1>6 DEF new, text

\* A stop string that is in the text only now is in what push looks at: the text that
\* was sent before is never part of one.
LEMMA NoneBefore ==
  ASSUME stops \in StopLists, NEW a \in Seq(Byte), NEW b \in Seq(Byte), NEW c \in Seq(Byte),
         HeldAll(a \o b, Len(b)), StopsIn(a \o b) = {},
         NEW n \in StopsIn(a \o (b \o c))
  PROVE  Len(a) <= n /\ n - Len(a) \in StopsIn(b \o c)
<1> DEFINE text == b \o c
           old == a \o b
           new == a \o text
<1>1. /\ Len(a) \in Nat /\ Len(b) \in Nat /\ Len(c) \in Nat
      /\ text \in Seq(Byte) /\ Len(text) = Len(b) + Len(c)
  BY Joined
<1>2. old \in Seq(Byte) /\ Len(old) = Len(a) + Len(b)
  BY Joined
<1>3. new = old \o c
  BY ConcatAssociative
<1> HIDE DEF text
<1>4. /\ new \in Seq(Byte) /\ Len(new) = Len(a) + Len(text)
      /\ \A i \in 1..Len(text) : new[Len(a) + i] = text[i]
  BY <1>1, Joined
<1> HIDE DEF old, new
<1>5. \A i \in 1..Len(old) : new[i] = old[i]
  BY <1>2, <1>3, Joined
<1>6. PICK i \in DOMAIN stops : stops[i] # <<>> /\ OccursAt(stops[i], new, n)
  BY DEF StopsIn, new, text
<1>7. n \in 0..Len(new)
  BY DEF StopsIn, new, text
<1> DEFINE s == stops[i]
<1>8. s \in Seq(Byte) /\ Len(s) \in Nat /\ s # <<>>
  BY <1>6, StopsTyped
<1> HIDE DEF s
<1>9. n \in Nat /\ n + Len(s) <= Len(new) /\ \A j \in 1..Len(s) : new[n + j] = s[j]
  <2>1. n \in Nat
    BY <1>1, <1>4, <1>7
  <2>2. OccursAt(s, new, n)
    BY <1>6 DEF s
  <2> QED BY <1>4, <1>8, <2>1, <2>2, OccursByByte
<1>10. ASSUME n < Len(a) PROVE FALSE
  <2>1. CASE n + Len(s) <= Len(old)
    <3>1. ASSUME NEW j \in 1..Len(s) PROVE old[n + j] = s[j]
      <4>1. n + j \in 1..Len(old)
        BY <1>1, <1>2, <1>8, <1>9, <2>1
      <4> QED BY <1>5, <1>9, <4>1
    <3>2. OccursAt(s, old, n)
      BY <1>2, <1>8, <1>9, <2>1, <3>1, OccursByByte
    <3>3. n \in 0..Len(old)
      BY <1>1, <1>2, <1>9, <1>10
    <3>4. n \in StopsIn(old)
      BY <1>6, <3>2, <3>3 DEF StopsIn, s
    <3> QED BY <3>4 DEF old
  <2>2. CASE n + Len(s) > Len(old)
    <3> DEFINE m == Len(old) - n
    <3>1. m \in 0..Len(old) /\ m \in 1..Len(old) /\ m > Len(b) /\ m < Len(s) /\ Len(old) - m = n
      BY <1>1, <1>2, <1>8, <1>9, <1>10, <2>2
    <3>2. ASSUME NEW j \in 1..m PROVE old[Len(old) - m + j] = s[j]
      <4>1. n + j \in 1..Len(old) /\ j \in 1..Len(s)
        BY <1>1, <1>2, <1>8, <1>9, <3>1
      <4> QED BY <1>5, <1>9, <3>1, <4>1
    <3> HIDE DEF m
    <3>3. Begins(old, m, s)
      BY <1>2, <1>8, <3>1, <3>2, BeginsByByte
    <3>4. m <= Len(b)
      BY <3>1, <3>3 DEF HeldAll, old, s
    <3> QED BY <1>1, <1>2, <3>1, <3>4
  <2>3. n + Len(s) <= Len(old) \/ n + Len(s) > Len(old)
    BY <1>1, <1>2, <1>8, <1>9
  <2> QED BY <2>1, <2>2, <2>3, Zenon
<1>11. Len(a) <= n
  BY <1>1, <1>9, <1>10
<1>12. n - Len(a) \in StopsIn(text)
  <2> DEFINE m == n - Len(a)
  <2>1. m \in Nat /\ n = Len(a) + m /\ m + Len(s) <= Len(text) /\ m \in 0..Len(text)
    BY <1>1, <1>4, <1>8, <1>9, <1>11
  <2> HIDE DEF m
  <2>2. ASSUME NEW j \in 1..Len(s) PROVE text[m + j] = s[j]
    <3>1. m + j \in 1..Len(text) /\ n + j = Len(a) + (m + j)
      BY <1>1, <1>8, <2>1
    <3> QED BY <1>4, <1>9, <3>1
  <2>3. OccursAt(s, text, m)
    BY <1>1, <1>8, <2>1, <2>2, OccursByByte
  <2>4. m \in StopsIn(text)
    BY <1>6, <2>1, <2>3 DEF StopsIn, s
  <2> QED BY <2>4 DEF m
<1> QED BY <1>11, <1>12 DEF text

\* A stop string in what push looks at is in the whole text, that much further on.
LEMMA FoundInAll ==
  ASSUME stops \in StopLists, NEW a \in Seq(Byte), NEW text \in Seq(Byte), NEW n \in StopsIn(text)
  PROVE  Len(a) + n \in StopsIn(a \o text)
<1> DEFINE new == a \o text
<1>1. /\ Len(a) \in Nat /\ Len(text) \in Nat
      /\ new \in Seq(Byte) /\ Len(new) = Len(a) + Len(text)
      /\ \A i \in 1..Len(text) : new[Len(a) + i] = text[i]
  BY Joined
<1> HIDE DEF new
<1>2. PICK i \in DOMAIN stops : stops[i] # <<>> /\ OccursAt(stops[i], text, n)
  BY DEF StopsIn
<1>3. n \in 0..Len(text)
  BY DEF StopsIn
<1> DEFINE s == stops[i]
<1>4. s \in Seq(Byte) /\ Len(s) \in Nat /\ s # <<>> /\ OccursAt(s, text, n)
  BY <1>2, StopsTyped
<1> HIDE DEF s
<1>5. n \in Nat /\ n + Len(s) <= Len(text) /\ \A j \in 1..Len(s) : text[n + j] = s[j]
  BY <1>1, <1>3, <1>4, OccursByByte
<1>6. ASSUME NEW j \in 1..Len(s) PROVE new[Len(a) + n + j] = s[j]
  <2>1. n + j \in 1..Len(text) /\ Len(a) + (n + j) = Len(a) + n + j
    BY <1>1, <1>4, <1>5
  <2> QED BY <1>1, <1>5, <2>1
<1>7. Len(a) + n \in Nat /\ Len(a) + n \in 0..Len(new) /\ Len(a) + n + Len(s) <= Len(new)
  BY <1>1, <1>4, <1>5
<1>8. OccursAt(s, new, Len(a) + n)
  BY <1>1, <1>4, <1>6, <1>7, OccursByByte
<1>9. Len(a) + n \in StopsIn(new)
  BY <1>2, <1>7, <1>8 DEF StopsIn, s
<1> QED BY <1>9 DEF new

-----------------------------------------------------------------------------
(* Characters *)

\* No character is open after the first n bytes of t.
Bound(t, n) == \A i \in 1..n : i + Width[t[i]] - 1 <= n

\* No character is open before a byte that is no continuation.
LEMMA BoundAtLead ==
  ASSUME NEW t \in Seq(Byte), IsText(t), NEW n \in Nat, n < Len(t), Width[t[n + 1]] # Cont
  PROVE  Bound(t, n)
<1>1. Len(t) \in Nat
  BY LenProperties
<1>2. ASSUME NEW i \in 1..n PROVE i + Width[t[i]] - 1 <= n
  <2> DEFINE w == Width[t[i]]
  <2>1. i \in 1..Len(t) /\ i \in Nat /\ i <= n /\ n + 1 \in Nat
    BY <1>1
  <2>2. w \in 0..5
    BY <2>1, WidthTyped
  <2>3. w # Cont => \A j \in (i + 1)..Lesser(Len(t), i + w - 1) : Width[t[j]] = Cont
    BY <2>1 DEF IsText
  <2> HIDE DEF w
  <2>4. w # Cont /\ i + w - 1 > n => n + 1 \in (i + 1)..Lesser(Len(t), i + w - 1)
    BY <1>1, <2>1, <2>2 DEF Lesser
  <2>5. w = Cont => i + w - 1 <= n
    BY <2>1 DEF Cont
  <2>6. i + w - 1 <= n
    BY <2>1, <2>2, <2>3, <2>4, <2>5
  <2> QED BY <2>6 DEF w
<1> QED BY <1>2 DEF Bound

\* Whether a character is open after n bytes, only these bytes tell.
LEMMA BoundSame ==
  ASSUME NEW t, NEW u, NEW n \in Nat, \A i \in 1..n : t[i] = u[i], Bound(t, n)
  PROVE  Bound(u, n)
BY DEF Bound

\* The beginning of a text is a text.
LEMMA TextPrefix ==
  ASSUME NEW t \in Seq(Byte), NEW u \in Seq(Byte), IsText(t), Len(u) <= Len(t),
         \A i \in 1..Len(u) : u[i] = t[i]
  PROVE  IsText(u)
<1>1. Len(t) \in Nat /\ Len(u) \in Nat
  BY LenProperties
<1>2. ASSUME NEW i \in 1..Len(u), Width[u[i]] = Cont
      PROVE  \E k \in 1..Lesser(i - 1, 3) :
               k < Width[u[i - k]] /\ \A j \in 1..k : Width[u[i - j + 1]] = Cont
  <2>1. i \in 1..Len(t) /\ Width[t[i]] = Cont /\ i \in Nat
    BY <1>1, <1>2
  <2>2. PICK k \in 1..Lesser(i - 1, 3) :
               k < Width[t[i - k]] /\ \A j \in 1..k : Width[t[i - j + 1]] = Cont
    BY <2>1 DEF IsText
  <2>3. k \in Nat /\ 1 <= k /\ k <= i - 1
    BY <2>1 DEF Lesser
  <2>4. u[i - k] = t[i - k]
    BY <1>1, <2>1, <2>3
  <2>5. \A j \in 1..k : u[i - j + 1] = t[i - j + 1]
    BY <1>1, <2>1, <2>3
  <2> QED BY <2>2, <2>4, <2>5
<1>3. ASSUME NEW i \in 1..Len(u), Width[u[i]] # Cont
      PROVE  Width[u[i]] # Bad /\ \A j \in (i + 1)..Lesser(Len(u), i + Width[u[i]] - 1) : Width[u[j]] = Cont
  <2>1. i \in 1..Len(t) /\ u[i] = t[i] /\ i \in Nat
    BY <1>1
  <2> DEFINE w == Width[t[i]]
  <2>2. w \in 0..5
    BY <2>1, WidthTyped
  <2>3. w # Bad /\ \A j \in (i + 1)..Lesser(Len(t), i + w - 1) : Width[t[j]] = Cont
    BY <1>3, <2>1 DEF IsText
  <2> HIDE DEF w
  <2>4. \A j \in (i + 1)..Lesser(Len(u), i + w - 1) :
          j \in (i + 1)..Lesser(Len(t), i + w - 1) /\ j \in 1..Len(u)
    BY <1>1, <2>1, <2>2 DEF Lesser
  <2>5. \A j \in (i + 1)..Lesser(Len(u), i + w - 1) : Width[u[j]] = Cont
    BY <2>3, <2>4
  <2> QED BY <2>1, <2>3, <2>5 DEF w
<1> QED BY <1>2, <1>3 DEF IsText

\* What lies between two places of a text where no character is open is a whole text.
LEMMA StretchIsText ==
  ASSUME NEW t \in Seq(Byte), IsText(t), NEW u \in Seq(Byte), NEW n \in Nat,
         n + Len(u) <= Len(t), \A i \in 1..Len(u) : u[i] = t[n + i],
         Bound(t, n), Bound(t, n + Len(u))
  PROVE  IsWholeText(u)
<1>1. Len(t) \in Nat /\ Len(u) \in Nat
  BY LenProperties
<1>2. \A i \in 1..Len(u) : n + i \in 1..Len(t) /\ n + i \in 1..(n + Len(u)) /\ i \in Nat
  BY <1>1
<1>3. ASSUME NEW i \in 1..Len(u), Width[u[i]] = Cont
      PROVE  \E k \in 1..Lesser(i - 1, 3) :
               k < Width[u[i - k]] /\ \A j \in 1..k : Width[u[i - j + 1]] = Cont
  <2> DEFINE x == n + i
  <2>1. x \in 1..Len(t) /\ Width[t[x]] = Cont /\ x = n + i /\ i \in Nat /\ 1 <= i
    BY <1>2, <1>3
  <2> HIDE DEF x
  <2>2. PICK k \in 1..Lesser(x - 1, 3) :
               k < Width[t[x - k]] /\ \A j \in 1..k : Width[t[x - j + 1]] = Cont
    BY <2>1 DEF IsText
  <2>3. k \in Nat /\ 1 <= k /\ k <= x - 1 /\ k <= 3
    BY <1>1, <2>1 DEF Lesser
  <2>4. x - k \in 1..Len(t)
    BY <1>1, <2>1, <2>3
  <2>5. Width[t[x - k]] \in 0..5
    BY <2>4, WidthTyped
  <2>6. k <= i - 1
    <3> SUFFICES ASSUME k >= i PROVE FALSE
      BY <2>1, <2>3
    <3>1. x - k \in 1..n
      BY <2>1, <2>3
    <3>2. x - k + Width[t[x - k]] - 1 <= n
      BY <3>1 DEF Bound
    <3> DEFINE w == Width[t[x - k]]
    <3>3. k < w /\ w \in 0..5 /\ x - k + w - 1 <= n
      BY <2>2, <2>5, <3>2
    <3> HIDE DEF w
    <3> QED BY <2>1, <2>3, <3>3
  <2>7. i - k \in 1..Len(u) /\ n + (i - k) = x - k /\ k \in 1..Lesser(i - 1, 3)
    BY <1>1, <2>1, <2>3, <2>6 DEF Lesser
  <2>8. u[i - k] = t[x - k]
    <3>1. u[i - k] = t[n + (i - k)]
      BY <2>7
    <3> QED BY <2>7, <3>1
  <2>9. ASSUME NEW j \in 1..k PROVE Width[u[i - j + 1]] = Cont
    <3>1. i - j + 1 \in 1..Len(u) /\ n + (i - j + 1) = x - j + 1
      BY <1>1, <2>1, <2>3, <2>6
    <3>2. u[i - j + 1] = t[n + (i - j + 1)]
      BY <3>1
    <3>3. u[i - j + 1] = t[x - j + 1]
      BY <3>1, <3>2
    <3> QED BY <2>2, <3>3
  <2> QED BY <2>2, <2>7, <2>8, <2>9
<1>4. ASSUME NEW i \in 1..Len(u), Width[u[i]] # Cont
      PROVE  Width[u[i]] # Bad /\ \A j \in (i + 1)..Lesser(Len(u), i + Width[u[i]] - 1) : Width[u[j]] = Cont
  <2> DEFINE w == Width[t[n + i]]
  <2>1. w \in 0..5 /\ Width[u[i]] = w
    BY <1>2, WidthTyped
  <2>2. w # Bad /\ \A j \in (n + i + 1)..Lesser(Len(t), n + i + w - 1) : Width[t[j]] = Cont
    BY <1>2, <1>4 DEF IsText
  <2> HIDE DEF w
  <2>3. \A j \in (i + 1)..Lesser(Len(u), i + w - 1) :
          n + j \in (n + i + 1)..Lesser(Len(t), n + i + w - 1) /\ j \in 1..Len(u)
    BY <1>1, <1>2, <2>1 DEF Lesser
  <2>4. \A j \in (i + 1)..Lesser(Len(u), i + w - 1) : Width[u[j]] = Cont
    BY <2>2, <2>3
  <2> QED BY <2>1, <2>2, <2>4
<1>5. ASSUME NEW i \in 1..Len(u) PROVE i + Width[u[i]] - 1 <= Len(u)
  <2>1. n + i + Width[t[n + i]] - 1 <= n + Len(u)
    BY <1>2 DEF Bound
  <2>2. Width[t[n + i]] \in 0..5 /\ u[i] = t[n + i]
    BY <1>2, WidthTyped
  <2> QED BY <1>1, <1>2, <2>1, <2>2
<1> QED BY <1>3, <1>4, <1>5 DEF IsText, IsWholeText

\* Whole leaves out what incomplete_utf8_tail counts.
LEMMA WholeIs ==
  ASSUME NEW s \in Seq(Byte)
  PROVE  Whole(s) = Take(s, Len(s) - incomplete_utf8_tail(s))
<1> DEFINE T == {k \in 1..Lesser(Len(s), 3) : Torn(s, k)}
           H == {0} \cup T
           n == incomplete_utf8_tail(s)
<1>1. Len(s) \in Nat
  BY LenProperties
<1>2. T \subseteq 1..Lesser(Len(s), 3) /\ \A k \in T : k = n
  BY TornIsTail
<1>3. n = 0 \/ n \in T
  BY TailIsTorn
<1>4. H \subseteq 0..3 /\ H # {}
  <2>1. T \subseteq 0..3
    <3>1. \A k \in 1..Lesser(Len(s), 3) : k \in 0..3
      BY <1>1 DEF Lesser
    <3> HIDE DEF T
    <3> QED BY <1>2, <3>1
  <2> HIDE DEF T
  <2> QED BY <2>1
<1>5. Max(H) \in H /\ \A y \in H : y <= Max(H)
  <2>1. 3 \in Nat
    OBVIOUS
  <2> HIDE DEF H
  <2> QED BY <1>4, <2>1, GreatestMember
<1>6. Max(H) = 0 \/ Max(H) = n
  <2> HIDE DEF T, n
  <2> QED BY <1>2, <1>5
<1>7. Max(H) = 0 => n = 0
  <2>1. n \in T => n <= Max(H) /\ n \in Nat /\ 1 <= n
    <3>1. \A k \in T : k \in Nat /\ 1 <= k
      BY <1>1 DEF Lesser
    <3>2. T \subseteq H
      OBVIOUS
    <3> HIDE DEF T, H, n
    <3> QED BY <1>5, <3>1, <3>2
  <2> HIDE DEF T, H, n
  <2> QED BY <1>3, <2>1
<1>8. Max(H) = n
  <2> HIDE DEF T, H, n
  <2> QED BY <1>6, <1>7
<1>9. Whole(s) = Take(s, Len(s) - Max(H))
  BY DEF Whole
<1> HIDE DEF H
<1> QED BY <1>8, <1>9

\* An end of text is torn if and only if it is as an end of a longer one.
LEMMA TornInAll ==
  ASSUME NEW a \in Seq(Byte), NEW text \in Seq(Byte), NEW k \in 1..Len(text)
  PROVE  Torn(text, k) <=> Torn(a \o text, k)
<1> DEFINE t == a \o text
<1>1. /\ Len(a) \in Nat /\ Len(text) \in Nat /\ k \in Nat
      /\ t \in Seq(Byte) /\ Len(t) = Len(a) + Len(text)
      /\ \A i \in 1..Len(text) : t[Len(a) + i] = text[i]
  BY Joined
<1> HIDE DEF t
<1>2. Width[t[Len(t) - k + 1]] = Width[text[Len(text) - k + 1]]
  <2>1. Len(text) - k + 1 \in 1..Len(text) /\ Len(t) - k + 1 = Len(a) + (Len(text) - k + 1)
    BY <1>1
  <2> QED BY <1>1, <2>1
<1>3. ASSUME NEW i \in (Len(text) - k + 2)..Len(text)
      PROVE  Len(a) + i \in (Len(t) - k + 2)..Len(t) /\ t[Len(a) + i] = text[i]
  <2>1. i \in 1..Len(text) /\ Len(a) + i \in (Len(t) - k + 2)..Len(t)
    BY <1>1
  <2> QED BY <1>1, <2>1
<1>4. ASSUME NEW i \in (Len(t) - k + 2)..Len(t)
      PROVE  i - Len(a) \in (Len(text) - k + 2)..Len(text) /\ t[i] = text[i - Len(a)]
  <2>1. /\ i - Len(a) \in (Len(text) - k + 2)..Len(text) /\ i - Len(a) \in 1..Len(text)
        /\ Len(a) + (i - Len(a)) = i
    BY <1>1
  <2>2. t[Len(a) + (i - Len(a))] = text[i - Len(a)]
    BY <1>1, <2>1
  <2> QED BY <2>1, <2>2
<1>5. Torn(text, k) <=> Torn(t, k)
  <2>1. ASSUME Torn(text, k) PROVE Torn(t, k)
    BY <1>2, <1>4, <2>1 DEF Torn
  <2>2. ASSUME Torn(t, k) PROVE Torn(text, k)
    BY <1>2, <1>3, <2>2 DEF Torn
  <2> QED BY <2>1, <2>2
<1> QED BY <1>5 DEF t

\* Without what incomplete_utf8_tail counts, no character is open, if none was
\* before the bytes that it looks at.
LEMMA NoneOpen ==
  ASSUME NEW a \in Seq(Byte), NEW text \in Seq(Byte), IsText(a \o text), Bound(a \o text, Len(a))
  PROVE  Bound(a \o text, Len(a \o text) - incomplete_utf8_tail(text))
<1> DEFINE t == a \o text
           n == incomplete_utf8_tail(text)
<1>1. /\ Len(a) \in Nat /\ Len(text) \in Nat
      /\ t \in Seq(Byte) /\ Len(t) = Len(a) + Len(text)
      /\ \A i \in 1..Len(text) : t[Len(a) + i] = text[i]
  BY Joined
<1>2. CASE n = 0
  <2>1. ASSUME NEW i \in 1..Len(t) PROVE i + Width[t[i]] - 1 <= Len(t)
    <3> DEFINE w == Width[t[i]]
               k == Len(t) - i + 1
    <3>1. i \in Nat /\ 1 <= i /\ i <= Len(t) /\ w \in 0..5
      BY <1>1, WidthTyped
    <3>2. IsText(t) /\ Bound(t, Len(a))
      OBVIOUS
    <3>3. w # Cont => w # Bad /\ \A j \in (i + 1)..Lesser(Len(t), i + w - 1) : Width[t[j]] = Cont
      BY <3>2 DEF IsText
    <3>4. i <= Len(a) => i + w - 1 <= Len(a)
      BY <1>1, <3>1, <3>2 DEF Bound
    <3> HIDE DEF w, t
    <3> SUFFICES ASSUME i + w - 1 > Len(t) PROVE FALSE
      BY <1>1, <3>1 DEF w
    <3>5. w # Cont /\ i > Len(a)
      BY <1>1, <3>1, <3>4 DEF Cont
    <3>6. k \in Nat /\ 1 <= k /\ k < w /\ k <= 3 /\ k <= Len(text) /\ Len(t) - k + 1 = i /\ w \in (k + 1)..4
      BY <1>1, <3>1, <3>3, <3>5 DEF Bad
    <3>7. \A j \in (Len(t) - k + 2)..Len(t) : j \in (i + 1)..Lesser(Len(t), i + w - 1)
      BY <1>1, <3>1, <3>6 DEF Lesser
    <3> HIDE DEF k
    <3>8. Torn(t, k)
      BY <3>3, <3>5, <3>6, <3>7 DEF Torn, w
    <3>9. k \in 1..Len(text) /\ k \in 1..Lesser(Len(text), 3)
      BY <1>1, <3>6 DEF Lesser
    <3>10. Torn(text, k)
      BY <3>8, <3>9, TornInAll DEF t
    <3>11. n = k
      BY <3>9, <3>10, TornIsTail
    <3> QED BY <1>2, <3>6, <3>11
  <2>2. Len(t) - n = Len(t)
    BY <1>1, <1>2
  <2> HIDE DEF t, n
  <2>3. Bound(t, Len(t) - n)
    BY <2>1, <2>2 DEF Bound
  <2> QED BY <2>3 DEF t, n
<1>3. CASE n # 0
  <2>1. n \in 1..Lesser(Len(text), 3) /\ Torn(text, n)
    BY <1>3, TailIsTorn
  <2>2. n \in 1..Len(text) /\ n \in Nat /\ 1 <= n /\ n <= Len(text)
    BY <1>1, <2>1 DEF Lesser
  <2>3. Torn(t, n)
    BY <2>1, <2>2, TornInAll
  <2>4. Width[t[Len(t) - n + 1]] # Cont
    BY <2>2, <2>3 DEF Torn, Cont
  <2>5. IsText(t)
    OBVIOUS
  <2> HIDE DEF t, n
  <2>6. Len(t) - n \in Nat /\ Len(t) - n < Len(t)
    BY <1>1, <2>2
  <2>7. Bound(t, Len(t) - n)
    BY <1>1, <2>4, <2>5, <2>6, BoundAtLead
  <2> QED BY <2>7 DEF t, n
<1> QED BY <1>2, <1>3

-----------------------------------------------------------------------------
(* What the operations send *)

Trimmed(h) == Take(h, Len(h) - incomplete_utf8_tail(h))  \* what PushMatched and flush send of h
Sends(text) == Take(text, Len(text) - Hold(text))        \* what PushUnmatched sends of text
Keeps(text) == Final(text, Hold(text))                   \* and what it keeps
TheCut(t) == Take(t, Min(StopsIn(t) \cup {Len(t)}))      \* t up to its first stop string
StopsAreText == \A i \in DOMAIN stops : IsWholeText(stops[i])

\* A text that follows another: its beginning follows it too.
LEMMA TakeJoined ==
  ASSUME NEW a \in Seq(Byte), NEW h \in Seq(Byte), NEW m \in 0..Len(h)
  PROVE  /\ a \o Take(h, m) = Take(a \o h, Len(a) + m)
         /\ a \o Take(h, m) \in Seq(Byte) /\ Len(a \o Take(h, m)) = Len(a) + m
<1> DEFINE t == a \o h
           f == Take(h, m)
           x == a \o f
           y == Take(t, Len(a) + m)
<1>1. /\ Len(a) \in Nat /\ Len(h) \in Nat /\ m \in Nat /\ m <= Len(h)
      /\ t \in Seq(Byte) /\ Len(t) = Len(a) + Len(h)
      /\ \A i \in 1..Len(a) : t[i] = a[i]
      /\ \A i \in 1..Len(h) : t[Len(a) + i] = h[i]
  BY Joined
<1>2. f \in Seq(Byte) /\ Len(f) = m /\ \A i \in 1..m : f[i] = h[i]
  BY TakeProperties
<1> HIDE DEF t, f
<1>3. /\ x \in Seq(Byte) /\ Len(x) = Len(a) + m
      /\ \A i \in 1..Len(a) : x[i] = a[i]
      /\ \A i \in 1..m : x[Len(a) + i] = f[i]
  BY <1>2, Joined
<1>4. y \in Seq(Byte) /\ Len(y) = Len(a) + m /\ \A i \in 1..(Len(a) + m) : y[i] = t[i]
  <2>1. Len(a) + m \in 0..Len(t)
    BY <1>1
  <2> QED BY <1>1, <2>1, TakeProperties
<1> HIDE DEF x, y
<1>5. ASSUME NEW i \in 1..Len(x) PROVE x[i] = y[i]
  <2>1. CASE i <= Len(a)
    BY <1>1, <1>3, <1>4, <2>1
  <2>2. CASE i > Len(a)
    <3> DEFINE j == i - Len(a)
    <3>1. j \in 1..m /\ j \in 1..Len(h) /\ i = Len(a) + j
      BY <1>1, <1>3, <2>2
    <3> HIDE DEF j
    <3>2. i \in 1..(Len(a) + m)
      BY <1>3
    <3>3. x[i] = f[j] /\ f[j] = h[j] /\ t[i] = h[j] /\ y[i] = t[i]
      BY <1>1, <1>2, <1>3, <1>4, <3>1, <3>2
    <3> QED BY <3>3
  <2>3. i <= Len(a) \/ i > Len(a)
    BY <1>1, <1>3
  <2> QED BY <2>1, <2>2, <2>3, Zenon
<1>6. x = y
  BY <1>3, <1>4, <1>5, SameText
<1> QED BY <1>3, <1>6 DEF x, y, f, t

\* Where no character is open, incomplete_utf8_tail counts nothing.
LEMMA ClosedIsWhole ==
  ASSUME NEW t \in Seq(Byte), Bound(t, Len(t))
  PROVE  incomplete_utf8_tail(t) = 0
<1> DEFINE n == incomplete_utf8_tail(t)
<1>1. Len(t) \in Nat
  BY LenProperties
<1> SUFFICES ASSUME n # 0 PROVE FALSE
  OBVIOUS
<1>2. n \in 1..Lesser(Len(t), 3) /\ Torn(t, n)
  BY TailIsTorn
<1> HIDE DEF n
<1>3. n \in Nat /\ 1 <= n /\ n <= Len(t)
  BY <1>1, <1>2 DEF Lesser
<1> DEFINE i == Len(t) - n + 1
           w == Width[t[i]]
<1>4. w \in (n + 1)..4
  BY <1>2 DEF Torn
<1>5. i \in 1..Len(t)
  BY <1>1, <1>3
<1>6. i + w - 1 <= Len(t)
  BY <1>5 DEF Bound
<1> HIDE DEF w
<1> QED BY <1>1, <1>3, <1>4, <1>6

\* Trimmed leaves out the character that the text ends in the middle of, as Whole
\* does, unless it can not see where that character began.
LEMMA TrimmedIsWhole ==
  ASSUME NEW a \in Seq(Byte), NEW h \in Seq(Byte)
  PROVE  /\ Trimmed(h) \in Seq(Byte) /\ Len(Trimmed(h)) = Len(h) - incomplete_utf8_tail(h)
         /\ incomplete_utf8_tail(h) \in 0..Len(h)
         /\ a \o Trimmed(h) \in {a \o h, Whole(a \o h)}
         /\ IsText(a \o h) /\ Bound(a \o h, Len(a)) => a \o Trimmed(h) = Whole(a \o h)
<1> DEFINE t == a \o h
           n == incomplete_utf8_tail(h)
<1>1. /\ Len(a) \in Nat /\ Len(h) \in Nat
      /\ t \in Seq(Byte) /\ Len(t) = Len(a) + Len(h)
  BY Joined
<1>2. n \in 0..Len(h)
  BY <1>1, TailIsTorn DEF Lesser
<1>3. Len(h) - n \in 0..Len(h) /\ Len(a) + (Len(h) - n) = Len(t) - n
  <2> HIDE DEF n
  <2> QED BY <1>1, <1>2
<1>4. Trimmed(h) \in Seq(Byte) /\ Len(Trimmed(h)) = Len(h) - n
  BY <1>3, TakeProperties DEF Trimmed
<1>5. a \o Trimmed(h) = Take(t, Len(t) - n)
  <2>1. a \o Take(h, Len(h) - n) = Take(t, Len(a) + (Len(h) - n))
    BY <1>3, TakeJoined
  <2>2. a \o Take(h, Len(h) - n) = Take(t, Len(t) - n)
    <3> HIDE DEF t, n
    <3> QED BY <1>3, <2>1
  <2> QED BY <2>2 DEF Trimmed
<1>6. Whole(t) = Take(t, Len(t) - incomplete_utf8_tail(t))
  BY <1>1, WholeIs
<1>7. CASE n # 0
  <2>1. n \in 1..Lesser(Len(h), 3) /\ Torn(h, n)
    BY <1>7, TailIsTorn
  <2>2. n \in 1..Len(h) /\ n \in 1..Lesser(Len(t), 3)
    <3> HIDE DEF n
    <3> QED BY <1>1, <2>1 DEF Lesser
  <2>3. Torn(t, n)
    BY <2>1, <2>2, TornInAll
  <2>4. incomplete_utf8_tail(t) = n
    BY <1>1, <2>2, <2>3, TornIsTail
  <2> QED BY <1>2, <1>4, <1>5, <1>6, <2>4
<1>8. CASE n = 0
  <2>1. Len(t) - n = Len(t) /\ Take(t, Len(t)) = t
    <3>1. Len(t) \in 0..Len(t)
      BY <1>1
    <3>2. Take(t, Len(t)) = t
      <4> HIDE DEF t
      <4>1. /\ Take(t, Len(t)) \in Seq(Byte) /\ Len(Take(t, Len(t))) = Len(t)
            /\ \A i \in 1..Len(t) : Take(t, Len(t))[i] = t[i]
        BY <1>1, <3>1, TakeProperties
      <4> QED BY <1>1, <4>1, SameText
    <3> HIDE DEF n
    <3> QED BY <1>1, <1>8, <3>2
  <2>2. a \o Trimmed(h) = t
    BY <1>5, <2>1
  <2>3. ASSUME IsText(t), Bound(t, Len(a)) PROVE t = Whole(t)
    <3>1. Bound(t, Len(t) - n)
      BY <2>3, NoneOpen
    <3>2. incomplete_utf8_tail(t) = 0
      BY <1>1, <2>1, <3>1, ClosedIsWhole
    <3> QED BY <1>6, <1>8, <2>1, <3>2
  <2> QED BY <1>2, <1>4, <2>2, <2>3
<1> QED BY <1>7, <1>8

\* A chunk that goes on where the text sent so far ends, and closes its last
\* character, is a whole text.
LEMMA ChunkIsText ==
  ASSUME NEW a \in Seq(Byte), NEW h \in Seq(Byte), NEW m \in 0..Len(h),
         IsText(a \o h), Bound(a \o h, Len(a)), Bound(a \o h, Len(a) + m)
  PROVE  IsWholeText(Take(h, m))
<1> DEFINE t == a \o h
           u == Take(h, m)
<1>1. /\ Len(a) \in Nat /\ Len(h) \in Nat /\ m \in Nat /\ m <= Len(h)
      /\ t \in Seq(Byte) /\ Len(t) = Len(a) + Len(h)
      /\ \A i \in 1..Len(h) : t[Len(a) + i] = h[i]
  BY Joined
<1>2. u \in Seq(Byte) /\ Len(u) = m /\ \A i \in 1..m : u[i] = h[i]
  BY TakeProperties
<1>3. IsText(t) /\ Bound(t, Len(a)) /\ Bound(t, Len(a) + m)
  OBVIOUS
<1> HIDE DEF t, u
<1>4. \A i \in 1..Len(u) : u[i] = t[Len(a) + i]
  BY <1>1, <1>2
<1>5. Len(a) + Len(u) <= Len(t) /\ Bound(t, Len(a) + Len(u))
  BY <1>1, <1>2, <1>3
<1>6. IsWholeText(u)
  BY <1>1, <1>2, <1>3, <1>4, <1>5, StretchIsText
<1> QED BY <1>6 DEF u

\* A stop string that is a whole text begins with a byte that is no continuation.
LEMMA StopsLead ==
  ASSUME NEW s \in Seq(Byte), IsWholeText(s), Len(s) > 0
  PROVE  Width[s[1]] # Cont
<1>1. Len(s) \in Nat /\ 1 \in 1..Len(s)
  BY LenProperties
<1>2. Width[s[1]] = Cont => \E k \in 1..Lesser(1 - 1, 3) : TRUE
  BY <1>1 DEF IsWholeText, IsText
<1>3. ~ \E k \in 1..Lesser(1 - 1, 3) : TRUE
  BY DEF Lesser
<1> QED BY <1>2, <1>3

\* What push keeps, when no stop string matched, it keeps for a reason, and the bytes
\* before it are all that it can send.
LEMMA Unmatched ==
  ASSUME stops \in StopLists, NEW a \in Seq(Byte), NEW b \in Seq(Byte), NEW c \in Seq(Byte),
         HeldAll(a \o b, Len(b)), StopsIn(a \o b) = {}, match(b \o c) = npos(b \o c)
  PROVE  /\ Sends(b \o c) \in Seq(Byte) /\ Keeps(b \o c) \in Seq(Byte)
         /\ (a \o Sends(b \o c)) \o Keeps(b \o c) = a \o (b \o c)
         /\ HeldAll(a \o (b \o c), Len(Keeps(b \o c)))
         /\ StopsIn(a \o (b \o c)) = {}
         /\ Keeps(b \o c) # <<>> =>
              \/ \E i \in DOMAIN stops : IsStrictPrefix(Keeps(b \o c), stops[i])
              \/ Torn(Keeps(b \o c), Len(Keeps(b \o c)))
         /\ StopsAreText /\ IsText(a \o (b \o c)) /\ Bound(a \o (b \o c), Len(a)) =>
              /\ Bound(a \o (b \o c), Len(a \o Sends(b \o c)))
              /\ IsWholeText(Sends(b \o c))
<1> DEFINE text == b \o c
           t == a \o text
           n == Hold(text)
           m == Len(text) - n
<1>1. text \in Seq(Byte) /\ Len(text) \in Nat
  BY Joined, LenProperties
<1>2. HeldAll(t, n) /\ StopsIn(t) = {}
  <2>1. StopsIn(text) = {}
    BY <1>1, MatchIsFirst
  <2>2. \A x \in StopsIn(t) : x - Len(a) \in StopsIn(text)
    BY NoneBefore
  <2> QED BY <2>1, <2>2, HeldStays
<1> HIDE DEF text
<1>3. /\ n \in 0..Len(text)
      /\ incomplete_utf8_tail(text) <= n /\ stop_prefix_holdback(text) <= n
      /\ n = incomplete_utf8_tail(text) \/ n = stop_prefix_holdback(text)
  BY <1>1, HoldIsLonger
<1> HIDE DEF n
<1>4. m \in 0..Len(text) /\ m \in Nat /\ n \in Nat /\ m + n = Len(text)
  BY <1>1, <1>3
<1>5. /\ Sends(text) = Take(text, m) /\ Sends(text) \in Seq(Byte) /\ Len(Sends(text)) = m
  BY <1>1, <1>4, TakeProperties DEF Sends, n
<1>6. /\ Keeps(text) = Final(text, n) /\ Keeps(text) \in Seq(Byte) /\ Len(Keeps(text)) = n
      /\ \A i \in 1..n : Keeps(text)[i] = text[m + i]
  BY <1>1, <1>3, FinalProperties DEF Keeps, n
<1>7. (a \o Sends(text)) \o Keeps(text) = t
  <2>1. Sends(text) \o Keeps(text) = text
    BY <1>1, <1>3, <1>5, <1>6, Divided
  <2>2. (a \o Sends(text)) \o Keeps(text) = a \o (Sends(text) \o Keeps(text))
    BY <1>5, <1>6, Regrouped
  <2> QED BY <2>1, <2>2
<1>8. ASSUME n # 0, n = stop_prefix_holdback(text)
      PROVE  \E i \in DOMAIN stops : IsStrictPrefix(Keeps(text), stops[i]) /\ Keeps(text)[1] = stops[i][1]
  <2>1. PICK i \in DOMAIN stops : Begins(text, n, stops[i])
    BY <1>1, <1>8, HoldbackIsLongest
  <2> DEFINE s == stops[i]
  <2>2. s \in Seq(Byte) /\ Len(s) \in Nat
    BY StopsTyped
  <2>3. n < Len(s) /\ Keeps(text) = Take(s, n)
    BY <1>6, <2>1 DEF Begins
  <2> HIDE DEF s
  <2>4. n \in 0..Len(s)
    BY <1>4, <2>2, <2>3
  <2>5. SubSeq(Keeps(text), 1, n) = Keeps(text)
    <3> DEFINE x == Keeps(text)
    <3>1. x \in Seq(Byte) /\ Len(x) = n /\ n \in 0..Len(x)
      BY <1>4, <1>6
    <3> HIDE DEF x
    <3>2. Take(x, n) \in Seq(Byte) /\ Len(Take(x, n)) = n /\ \A j \in 1..n : Take(x, n)[j] = x[j]
      BY <3>1, TakeProperties
    <3>3. Take(x, n) = x
      BY <3>1, <3>2, SameText
    <3> QED BY <3>3 DEF Take, x
  <2>6. IsPrefix(Keeps(text), s)
    BY <1>4, <1>6, <2>2, <2>3, <2>5 DEF IsPrefix, Take
  <2>7. Keeps(text) # s
    BY <1>4, <1>6, <2>2, <2>3
  <2>8. 1 \in 1..n
    BY <1>4, <1>8
  <2>9. Keeps(text)[1] = s[1]
    <3>1. \A j \in 1..n : Take(s, n)[j] = s[j]
      BY <2>2, <2>4, TakeProperties
    <3> QED BY <2>3, <2>8, <3>1
  <2> QED BY <2>6, <2>7, <2>9 DEF s, IsStrictPrefix
<1>9. ASSUME n # 0, n = incomplete_utf8_tail(text)
      PROVE  Torn(Keeps(text), n) /\ Width[Keeps(text)[1]] # Cont
  <2>1. n \in 1..Lesser(Len(text), 3) /\ Torn(text, n)
    BY <1>1, <1>9, TailIsTorn
  <2>2. n \in 1..Len(Keeps(text)) /\ Take(text, m) \o Keeps(text) = text
    <3>1. n \in 1..n
      BY <1>4, <1>9
    <3> QED BY <1>1, <1>3, <1>6, <3>1, Divided
  <2>3. Torn(Keeps(text), n)
    <3>1. Take(text, m) \in Seq(Byte)
      BY <1>5
    <3>2. Torn(Keeps(text), n) <=> Torn(Take(text, m) \o Keeps(text), n)
      BY <1>6, <2>2, <3>1, TornInAll
    <3> QED BY <2>1, <2>2, <3>2
  <2>4. n - n + 1 = 1
    BY <1>4
  <2>5. Width[Keeps(text)[1]] \in (n + 1)..4
    BY <1>6, <2>3, <2>4 DEF Torn
  <2> QED BY <1>4, <2>3, <2>5 DEF Cont
<1>10. ASSUME StopsAreText, IsText(t), Bound(t, Len(a))
       PROVE  Bound(t, Len(a) + m) /\ IsWholeText(Take(text, m))
  <2>1. Len(a) \in Nat /\ t \in Seq(Byte) /\ Len(t) = Len(a) + Len(text)
    BY <1>1, Joined
  <2>2. CASE n = 0
    <3>1. incomplete_utf8_tail(text) = 0
      BY <1>1, <1>3, <2>2, TailIsTorn DEF Lesser
    <3>2. Bound(t, Len(t) - 0)
      BY <1>1, <1>10, <3>1, NoneOpen
    <3>3. Len(t) - 0 = Len(a) + m
      BY <1>4, <2>1, <2>2
    <3>4. Bound(t, Len(a) + m)
      BY <3>2, <3>3
    <3> QED BY <1>1, <1>4, <1>10, <3>4, ChunkIsText
  <2>3. CASE n # 0
    <3>1. Width[Keeps(text)[1]] # Cont
      <4>1. CASE n = stop_prefix_holdback(text)
        <5>1. PICK i \in DOMAIN stops : IsStrictPrefix(Keeps(text), stops[i]) /\ Keeps(text)[1] = stops[i][1]
          BY <1>8, <2>3, <4>1
        <5>2. stops[i] \in Seq(Byte) /\ Len(stops[i]) \in Nat /\ IsWholeText(stops[i])
          BY <1>10, StopsTyped DEF StopsAreText
        <5>3. Len(stops[i]) > 0
          BY <1>4, <1>6, <2>3, <5>1, <5>2 DEF IsStrictPrefix, IsPrefix
        <5> QED BY <5>1, <5>2, <5>3, StopsLead
      <4>2. CASE n = incomplete_utf8_tail(text)
        BY <1>9, <2>3, <4>2
      <4> QED BY <1>3, <4>1, <4>2
    <3>2. t[Len(a) + m + 1] = Keeps(text)[1]
      <4>1. 1 \in 1..n /\ m + 1 \in 1..Len(text) /\ Len(a) + (m + 1) = Len(a) + m + 1
        BY <1>1, <1>4, <2>1, <2>3
      <4>2. Keeps(text)[1] = text[m + 1]
        BY <1>6, <4>1
      <4>3. t[Len(a) + (m + 1)] = text[m + 1]
        BY <1>1, <4>1, Joined
      <4> QED BY <4>1, <4>2, <4>3
    <3>3. Len(a) + m \in Nat /\ Len(a) + m < Len(t)
      BY <1>4, <2>1, <2>3
    <3>4. Bound(t, Len(a) + m)
      BY <1>10, <2>1, <3>1, <3>2, <3>3, BoundAtLead
    <3> QED BY <1>1, <1>4, <1>10, <3>4, ChunkIsText
  <2> QED BY <2>2, <2>3
<1>11. Len(a \o Sends(text)) = Len(a) + m
  BY <1>5, Joined
<1>12. Keeps(text) # <<>> => n # 0
  BY <1>6, EmptySeq
<1>13. /\ Sends(text) \in Seq(Byte) /\ Keeps(text) \in Seq(Byte)
       /\ (a \o Sends(text)) \o Keeps(text) = t
       /\ HeldAll(t, Len(Keeps(text)))
       /\ StopsIn(t) = {}
       /\ Keeps(text) # <<>> =>
            \/ \E i \in DOMAIN stops : IsStrictPrefix(Keeps(text), stops[i])
            \/ Torn(Keeps(text), Len(Keeps(text)))
       /\ StopsAreText /\ IsText(t) /\ Bound(t, Len(a)) =>
            Bound(t, Len(a \o Sends(text))) /\ IsWholeText(Sends(text))
  <2> HIDE DEF t, m
  <2>1. Keeps(text) # <<>> =>
            \/ \E i \in DOMAIN stops : IsStrictPrefix(Keeps(text), stops[i])
            \/ Torn(Keeps(text), Len(Keeps(text)))
    BY <1>3, <1>6, <1>8, <1>9, <1>12
  <2>2. StopsAreText /\ IsText(t) /\ Bound(t, Len(a)) =>
            Bound(t, Len(a \o Sends(text))) /\ IsWholeText(Sends(text))
    BY <1>5, <1>10, <1>11
  <2> QED BY <1>2, <1>5, <1>6, <1>7, <2>1, <2>2
<1> QED BY <1>13 DEF text

\* What is sent last, of text that ends at the cut.
LEMMA LastIsTrimmed ==
  ASSUME NEW a \in Seq(Byte), NEW h \in Seq(Byte)
  PROVE  /\ Trimmed(h) \in Seq(Byte)
         /\ a \o Trimmed(h) \in {a \o h, Whole(a \o h)}
         /\ IsText(a \o h) /\ Bound(a \o h, Len(a)) =>
              a \o Trimmed(h) = Whole(a \o h) /\ IsWholeText(Trimmed(h))
<1> DEFINE t == a \o h
           n == incomplete_utf8_tail(h)
           m == Len(h) - n
<1>1. Len(a) \in Nat /\ Len(h) \in Nat /\ Len(t) = Len(a) + Len(h)
  BY Joined
<1>2. n \in 0..Len(h)
  BY TrimmedIsWhole
<1>3. m \in 0..Len(h) /\ Len(t) - n = Len(a) + m
  <2> HIDE DEF n, t
  <2> QED BY <1>1, <1>2
<1>4. ASSUME IsText(t), Bound(t, Len(a)) PROVE IsWholeText(Trimmed(h))
  <2>1. Bound(t, Len(t) - n)
    BY <1>4, NoneOpen
  <2>2. Bound(t, Len(a) + m)
    <3> HIDE DEF t, n, m
    <3> QED BY <1>3, <2>1
  <2>3. IsWholeText(Take(h, m))
    <3> HIDE DEF m, n
    <3> QED BY <1>3, <1>4, <2>2, ChunkIsText
  <2> QED BY <2>3 DEF Trimmed
<1> QED BY <1>4, TrimmedIsWhole

\* The cut is where a stop string first matched in what push looks at, and what push
\* sends last ends there.
LEMMA Matched ==
  ASSUME stops \in StopLists, NEW a \in Seq(Byte), NEW b \in Seq(Byte), NEW c \in Seq(Byte),
         HeldAll(a \o b, Len(b)), StopsIn(a \o b) = {}, match(b \o c) # npos(b \o c),
         NEW out, out = Trimmed(Take(b \o c, match(b \o c)))
  PROVE  /\ out \in Seq(Byte)
         /\ a \o out \in {TheCut(a \o (b \o c)), Whole(TheCut(a \o (b \o c)))}
         /\ IsText(a \o (b \o c)) /\ Bound(a \o (b \o c), Len(a)) =>
              a \o out = Whole(TheCut(a \o (b \o c))) /\ IsWholeText(out)
<1> DEFINE text == b \o c
           t == a \o text
           m == match(text)
           h == Take(text, m)
           S == StopsIn(t) \cup {Len(t)}
<1>1. text \in Seq(Byte) /\ Len(text) \in Nat
  BY Joined, LenProperties
<1>2. \A x \in StopsIn(t) : Len(a) <= x /\ x - Len(a) \in StopsIn(text)
  BY NoneBefore
<1>3. m \in StopsIn(text) /\ m \in 0..Len(text) /\ \A x \in StopsIn(text) : m <= x
  BY <1>1, MatchIsFirst
<1>4. Len(a) + m \in StopsIn(t)
  BY <1>1, <1>3, FoundInAll
<1> HIDE DEF text
<1>5. /\ Len(a) \in Nat /\ m \in Nat /\ m <= Len(text)
      /\ t \in Seq(Byte) /\ Len(t) = Len(a) + Len(text)
      /\ \A i \in 1..Len(a) : t[i] = a[i]
  <2> HIDE DEF m
  <2> QED BY <1>1, <1>3, Joined
<1> HIDE DEF m, t
<1>6. StopsIn(t) \subseteq 0..Len(t)
  BY DEF StopsIn
<1>7. Min(S) = Len(a) + m
  <2>1. S \subseteq Nat /\ S # {}
    <3>1. \A x \in StopsIn(t) : x \in Nat
      BY <1>5, <1>6
    <3> QED BY <1>5, <3>1
  <2>2. \A x \in S : Len(a) + m <= x
    <3>1. ASSUME NEW x \in StopsIn(t) PROVE Len(a) + m <= x
      <4>1. x \in Nat /\ m <= x - Len(a) /\ Len(a) <= x
        BY <1>2, <1>3, <1>5, <1>6
      <4> QED BY <1>5, <4>1
    <3>2. Len(a) + m <= Len(t)
      BY <1>1, <1>5
    <3> QED BY <3>1, <3>2
  <2>3. Len(a) + m \in S
    BY <1>4
  <2> HIDE DEF S
  <2>4. Min(S) \in S /\ \A x \in S : Min(S) <= x
    BY <2>1, LeastMember
  <2>5. Min(S) \in Nat /\ Min(S) <= Len(a) + m /\ Len(a) + m <= Min(S)
    BY <2>1, <2>2, <2>3, <2>4
  <2>6. Len(a) + m \in Nat
    BY <1>5
  <2>7. \A x, y \in Nat : x <= y /\ y <= x => x = y
    OBVIOUS
  <2> QED BY <2>5, <2>6, <2>7, Zenon
<1>8. TheCut(t) = Take(t, Len(a) + m)
  BY <1>7 DEF TheCut
<1> HIDE DEF S
<1>9. h \in Seq(Byte) /\ Len(h) = m
  BY <1>1, <1>3, TakeProperties
<1>10. TheCut(t) = a \o h
  BY <1>1, <1>3, <1>8, TakeJoined DEF t
<1>11. out = Trimmed(h)
  BY DEF text, m
<1>12. ASSUME IsText(t), Bound(t, Len(a)) PROVE IsText(a \o h) /\ Bound(a \o h, Len(a))
  <2> HIDE DEF h
  <2>1. /\ a \o h \in Seq(Byte) /\ Len(a \o h) = Len(a) + m
        /\ \A i \in 1..Len(a) : (a \o h)[i] = a[i]
    BY <1>9, Joined
  <2>2. Len(a) + m \in 0..Len(t) /\ Len(a) + m <= Len(t)
    BY <1>1, <1>5
  <2>3. \A i \in 1..(Len(a) + m) : (a \o h)[i] = t[i]
    <3>1. \A i \in 1..(Len(a) + m) : Take(t, Len(a) + m)[i] = t[i]
      BY <1>5, <2>2, TakeProperties
    <3>2. Take(t, Len(a) + m) = a \o h
      BY <1>8, <1>10
    <3> QED BY <3>1, <3>2, Zenon
  <2>4. IsText(a \o h)
    BY <1>5, <1>12, <2>1, <2>2, <2>3, TextPrefix
  <2>5. \A i \in 1..Len(a) : t[i] = (a \o h)[i]
    BY <1>5, <2>1
  <2>6. Bound(a \o h, Len(a))
    BY <1>5, <1>12, <2>5, BoundSame
  <2> QED BY <2>4, <2>6
<1> HIDE DEF h
<1>13. /\ out \in Seq(Byte)
       /\ a \o out \in {TheCut(t), Whole(TheCut(t))}
       /\ IsText(t) /\ Bound(t, Len(a)) => a \o out = Whole(TheCut(t)) /\ IsWholeText(out)
  <2>1. /\ Trimmed(h) \in Seq(Byte)
        /\ a \o Trimmed(h) \in {a \o h, Whole(a \o h)}
        /\ IsText(a \o h) /\ Bound(a \o h, Len(a)) =>
             a \o Trimmed(h) = Whole(a \o h) /\ IsWholeText(Trimmed(h))
    BY <1>9, LastIsTrimmed
  <2> QED BY <1>10, <1>11, <1>12, <2>1
<1> QED BY <1>13 DEF t, text

\* Text with no stop string in it is not cut.
LEMMA UncutIsAll ==
  ASSUME NEW t \in Seq(Byte), StopsIn(t) = {}
  PROVE  TheCut(t) = t
<1>1. Len(t) \in Nat /\ Len(t) \in 0..Len(t)
  BY LenProperties
<1>2. StopsIn(t) \cup {Len(t)} = {Len(t)}
  OBVIOUS
<1>3. Min({Len(t)}) = Len(t)
  <2> DEFINE S == {Len(t)}
  <2>1. S \subseteq Nat /\ S # {} /\ \A x \in S : x = Len(t)
    BY <1>1
  <2> HIDE DEF S
  <2>2. Min(S) = Len(t)
    BY <2>1, LeastMember
  <2> QED BY <2>2 DEF S
<1>4. TheCut(t) = Take(t, Len(t))
  BY <1>2, <1>3 DEF TheCut
<1>5. /\ Take(t, Len(t)) \in Seq(Byte) /\ Len(Take(t, Len(t))) = Len(t)
      /\ \A i \in 1..Len(t) : Take(t, Len(t))[i] = t[i]
  BY <1>1, TakeProperties
<1>6. Take(t, Len(t)) = t
  BY <1>5, SameText
<1> QED BY <1>4, <1>6

\* The text up to its first stop string is a text.
LEMMA CutTyped ==
  ASSUME NEW t \in Seq(Byte)
  PROVE  TheCut(t) \in Seq(Byte)
<1> DEFINE S == StopsIn(t) \cup {Len(t)}
<1>1. Len(t) \in Nat
  BY LenProperties
<1>2. S \subseteq 0..Len(t) /\ S # {}
  <2>1. StopsIn(t) \subseteq 0..Len(t)
    BY DEF StopsIn
  <2> QED BY <1>1, <2>1
<1>3. S \subseteq Nat
  <2>1. 0..Len(t) \subseteq Nat
    BY <1>1
  <2> HIDE DEF S
  <2> QED BY <1>2, <2>1
<1>4. TheCut(t) = Take(t, Min(S))
  BY DEF TheCut
<1> HIDE DEF S
<1>5. Min(S) \in 0..Len(t)
  BY <1>2, <1>3, LeastMember
<1> QED BY <1>4, <1>5, TakeProperties

\* s is where t begins.
Starts(s, t) == Len(s) <= Len(t) /\ \A i \in 1..Len(s) : s[i] = t[i]

\* What is left of a text when its last character is incomplete is where it begins.
LEMMA WholeStarts ==
  ASSUME NEW t \in Seq(Byte)
  PROVE  Starts(t, t) /\ Starts(Whole(t), t)
<1> DEFINE n == incomplete_utf8_tail(t)
<1>1. Len(t) \in Nat
  BY LenProperties
<1>2. n \in 0..Len(t)
  BY TrimmedIsWhole
<1> HIDE DEF n
<1>3. Len(t) - n \in 0..Len(t)
  BY <1>1, <1>2
<1>4. Whole(t) = Take(t, Len(t) - n)
  BY WholeIs DEF n
<1>5. Len(Whole(t)) = Len(t) - n /\ \A i \in 1..(Len(t) - n) : Whole(t)[i] = t[i]
  BY <1>3, <1>4, TakeProperties
<1> QED BY <1>1, <1>3, <1>5 DEF Starts

-----------------------------------------------------------------------------
(* The invariant *)

TypeInv ==
  /\ stops \in StopLists
  /\ pending \in Seq(Byte) /\ chunk \in Seq(Byte) /\ sent \in Seq(Byte) /\ generated \in Seq(Byte)
  /\ status \in {"Continue", "Stopped", "Cancelled", "flushed"}

\* What pending holds is enough to see every stop string that may still come.
HeldInv == status = "Continue" => HeldAll(generated, Len(pending))

\* No character is open where the text sent so far ends.
OpenInv == status = "Continue" /\ AllText => Bound(generated, Len(sent))

\* Whether the run goes on or not, nothing behind a stop string was ever sent.
SentInv == Starts(sent, TheCut(generated))

IInv == /\ TypeInv /\ HeldInv /\ OpenInv /\ SentInv
        /\ NothingLost /\ HeldForAReason /\ NoStopMissed /\ EndedAtTheCut /\ ChunksAreText

\* The filter starts with nothing sent and nothing held.
LEMMA InitHolds == Init => IInv
<1> SUFFICES ASSUME Init PROVE IInv
  OBVIOUS
<1>1. TypeInv
  BY DEF Init, TypeInv
<1>2. Len(generated) = 0 /\ Len(sent) = 0 /\ Len(chunk) = 0
  BY DEF Init
<1>3. HeldInv /\ OpenInv
  BY <1>2 DEF HeldInv, OpenInv, HeldAll, Bound
<1>4. NothingLost /\ HeldForAReason /\ EndedAtTheCut
  BY DEF Init, NothingLost, HeldForAReason, EndedAtTheCut
<1>5. NoStopMissed
  <2>1. ASSUME NEW i \in DOMAIN stops, NEW n \in 0..0, stops[i] # <<>>, OccursAt(stops[i], generated, n) PROVE FALSE
    <3>1. stops[i] \in Seq(Byte)
      BY StopsTyped DEF Init
    <3>2. Len(stops[i]) \in Nat \ {0}
      BY <2>1, <3>1, EmptySeq
    <3> QED BY <1>2, <2>1, <3>2 DEF OccursAt
  <2> QED BY <1>2, <2>1 DEF NoStopMissed, StopsIn
<1>6. ChunksAreText
  BY <1>2 DEF ChunksAreText, IsWholeText, IsText
<1>7. SentInv
  <2>1. TheCut(generated) \in Seq(Byte)
    BY <1>1, CutTyped DEF TypeInv
  <2>2. Len(TheCut(generated)) \in Nat
    BY <2>1, LenProperties
  <2> QED BY <1>2, <2>2 DEF SentInv, Starts
<1> QED BY <1>1, <1>3, <1>4, <1>5, <1>6, <1>7 DEF IInv

\* A piece pushed.
LEMMA PushHolds == ASSUME IInv, NEW piece \in Pieces, push(piece) PROVE IInv'
<1> DEFINE text == pending \o piece
           t == sent \o text
<1>1. /\ stops \in StopLists /\ pending \in Seq(Byte) /\ sent \in Seq(Byte) /\ piece \in Seq(Byte)
      /\ status = "Continue"
  BY PiecesTyped DEF IInv, TypeInv, push
<1>2. sent \o pending = generated /\ HeldAll(sent \o pending, Len(pending)) /\ StopsIn(sent \o pending) = {}
  BY <1>1 DEF IInv, NothingLost, HeldInv, NoStopMissed
<1>3. generated' = t /\ stops' = stops
  <2>1. generated' = (sent \o pending) \o piece
    BY <1>2 DEF push
  <2> QED BY <1>1, <2>1, Regrouped DEF push
<1>4. text \in Seq(Byte) /\ t \in Seq(Byte)
  BY <1>1, Joined
<1>5. AllText' => StopsAreText /\ IsText(t) /\ Bound(t, Len(sent))
  <2> SUFFICES ASSUME AllText' PROVE StopsAreText /\ IsText(t) /\ Bound(t, Len(sent))
    OBVIOUS
  <2>1. StopsAreText /\ IsText(t)
    BY <1>3 DEF AllText, StopsAreText
  <2> DEFINE g == generated
  <2>2. t = g \o piece /\ g \in Seq(Byte) /\ IsText(t)
    <3>1. t = (sent \o pending) \o piece
      BY <1>1, Regrouped
    <3> QED BY <1>1, <1>2, <2>1, <3>1 DEF IInv, TypeInv
  <2> HIDE DEF t, text
  <2>3. /\ Len(g) \in Nat /\ Len(piece) \in Nat /\ Len(t) = Len(g) + Len(piece)
        /\ \A i \in 1..Len(g) : t[i] = g[i]
    BY <1>1, <2>2, Joined
  <2>4. IsText(g)
    <3>1. Len(g) <= Len(t) /\ \A i \in 1..Len(g) : g[i] = t[i]
      BY <2>3
    <3> HIDE DEF g
    <3> QED BY <1>4, <2>2, <3>1, TextPrefix
  <2>5. Bound(g, Len(sent))
    BY <1>1, <2>1, <2>4 DEF IInv, OpenInv, AllText, StopsAreText
  <2>6. Len(sent) \in Nat /\ Len(sent) <= Len(g)
    BY <1>1, <1>2, Joined
  <2>7. \A i \in 1..Len(sent) : g[i] = t[i]
    BY <2>3, <2>6
  <2>8. Bound(t, Len(sent))
    BY <2>5, <2>6, <2>7, BoundSame
  <2> QED BY <2>1, <2>8
<1>6. StopsIn(generated)' = StopsIn(t) /\ (HeldAll(generated, Len(pending))' <=> HeldAll(t, Len(pending')))
  BY <1>3 DEF StopsIn, HeldAll
<1>7. PICK accepted \in BOOLEAN :
        IF match(text) # npos(text) THEN PushMatched(text, accepted) ELSE PushUnmatched(text, accepted)
  BY DEF push
<1>8. CASE match(text) = npos(text)
  <2>1. /\ chunk' = Sends(text) /\ sent' = sent \o Sends(text) /\ pending' = Keeps(text)
        /\ status' \in {"Continue", "Cancelled"}
    BY <1>7, <1>8 DEF PushUnmatched, deliver, Sends, Keeps
  <2>2. /\ Sends(text) \in Seq(Byte) /\ Keeps(text) \in Seq(Byte)
        /\ (sent \o Sends(text)) \o Keeps(text) = t
        /\ HeldAll(t, Len(Keeps(text)))
        /\ StopsIn(t) = {}
        /\ Keeps(text) # <<>> =>
             \/ \E i \in DOMAIN stops : IsStrictPrefix(Keeps(text), stops[i])
             \/ Torn(Keeps(text), Len(Keeps(text)))
        /\ StopsAreText /\ IsText(t) /\ Bound(t, Len(sent)) =>
             Bound(t, Len(sent \o Sends(text))) /\ IsWholeText(Sends(text))
    BY <1>1, <1>2, <1>8, Unmatched
  <2> HIDE DEF text, t
  <2>3. sent' \in Seq(Byte)
    BY <1>1, <2>1, <2>2, Joined
  <2>4. TypeInv'
    BY <1>1, <1>3, <1>4, <2>1, <2>2, <2>3 DEF TypeInv
  <2>5. NothingLost' /\ HeldInv' /\ NoStopMissed'
    BY <1>3, <1>6, <2>1, <2>2 DEF NothingLost, HeldInv, NoStopMissed
  <2>6. HeldForAReason'
    BY <1>3, <2>1, <2>2 DEF HeldForAReason
  <2>7. EndedAtTheCut'
    BY <2>1 DEF EndedAtTheCut
  <2>8. ChunksAreText'
    BY <1>5, <2>1, <2>2 DEF ChunksAreText
  <2>9. OpenInv'
    BY <1>3, <1>5, <2>1, <2>2 DEF OpenInv
  <2>10. SentInv'
    <3> DEFINE u == sent \o Sends(text)
    <3>1. u \in Seq(Byte) /\ u \o Keeps(text) = t
      BY <2>1, <2>2, <2>3
    <3> HIDE DEF u
    <3>2. Len(u) <= Len(t) /\ \A i \in 1..Len(u) : u[i] = t[i]
      BY <2>2, <3>1, Joined
    <3>3. TheCut(t) = t
      BY <1>4, <2>2, UncutIsAll
    <3>4. TheCut(generated)' = TheCut(t)
      BY <1>3, <1>6 DEF TheCut
    <3> QED BY <2>1, <3>2, <3>3, <3>4 DEF SentInv, Starts, u
  <2> QED BY <2>4, <2>5, <2>6, <2>7, <2>8, <2>9, <2>10 DEF IInv
<1>9. CASE match(text) # npos(text)
  <2> DEFINE out == Trimmed(Take(text, match(text)))
  <2>1. /\ chunk' = out /\ sent' = sent \o out /\ pending' = <<>>
        /\ status' \in {"Stopped", "Cancelled"}
    BY <1>7, <1>9 DEF PushMatched, deliver, Trimmed
  <2>2. /\ out \in Seq(Byte)
        /\ sent \o out \in {TheCut(t), Whole(TheCut(t))}
        /\ IsText(t) /\ Bound(t, Len(sent)) => sent \o out = Whole(TheCut(t)) /\ IsWholeText(out)
    BY <1>1, <1>2, <1>9, Matched
  <2> HIDE DEF text, t, out
  <2>3. sent' \in Seq(Byte)
    BY <1>1, <2>1, <2>2, Joined
  <2>4. TypeInv'
    BY <1>1, <1>3, <1>4, <2>1, <2>2, <2>3 DEF TypeInv
  <2>5. NothingLost' /\ HeldInv' /\ NoStopMissed' /\ HeldForAReason' /\ OpenInv'
    BY <2>1 DEF NothingLost, HeldInv, NoStopMissed, HeldForAReason, OpenInv
  <2>6. TheCut(t) = Take(generated', Min(StopsIn(generated)' \cup {Len(generated')}))
    BY <1>3, <1>6 DEF TheCut
  <2>7. EndedAtTheCut'
    BY <1>5, <2>1, <2>2, <2>6 DEF EndedAtTheCut
  <2>8. ChunksAreText'
    BY <1>5, <2>1, <2>2 DEF ChunksAreText
  <2>9. SentInv'
    <3>1. TheCut(t) \in Seq(Byte)
      BY <1>4, CutTyped
    <3>2. Starts(sent', TheCut(t))
      BY <2>1, <2>2, <3>1, WholeStarts
    <3>3. TheCut(generated)' = TheCut(t)
      BY <1>3, <1>6 DEF TheCut
    <3> QED BY <3>2, <3>3 DEF SentInv, Starts
  <2> QED BY <2>4, <2>5, <2>7, <2>8, <2>9 DEF IInv
<1> QED BY <1>8, <1>9

\* The generation ended on its own.
LEMMA FlushHolds == ASSUME IInv, flush PROVE IInv'
<1> DEFINE out == Trimmed(pending)
           t == generated
<1>1. /\ stops \in StopLists /\ pending \in Seq(Byte) /\ sent \in Seq(Byte) /\ t \in Seq(Byte)
      /\ status = "Continue"
  BY DEF IInv, TypeInv, flush
<1>2. sent \o pending = t /\ StopsIn(t) = {}
  BY <1>1 DEF IInv, NothingLost, NoStopMissed
<1>3. /\ chunk' = out /\ sent' = sent \o out /\ pending' = <<>> /\ status' = "flushed"
      /\ stops' = stops /\ generated' = generated
  BY DEF flush, deliver, Trimmed
<1>4. /\ out \in Seq(Byte)
      /\ sent \o out \in {sent \o pending, Whole(sent \o pending)}
      /\ IsText(sent \o pending) /\ Bound(sent \o pending, Len(sent)) =>
           sent \o out = Whole(sent \o pending) /\ IsWholeText(out)
  BY <1>1, LastIsTrimmed
<1>5. AllText' => AllText /\ IsText(t) /\ Bound(t, Len(sent))
  BY <1>1, <1>3 DEF AllText, IInv, OpenInv
<1>6. TheCut(t) = t
  BY <1>1, <1>2, UncutIsAll
<1>7. StopsIn(generated)' = StopsIn(t)
  BY <1>3 DEF StopsIn
<1> HIDE DEF out
<1>8. sent' \in Seq(Byte)
  BY <1>1, <1>3, <1>4, Joined
<1>9. TypeInv'
  BY <1>1, <1>3, <1>4, <1>8 DEF TypeInv
<1>10. NothingLost' /\ HeldInv' /\ HeldForAReason' /\ OpenInv'
  BY <1>3 DEF NothingLost, HeldInv, HeldForAReason, OpenInv
<1>11. NoStopMissed'
  BY <1>2, <1>7 DEF NoStopMissed
<1>12. t = Take(generated', Min(StopsIn(generated)' \cup {Len(generated')}))
  BY <1>3, <1>6, <1>7 DEF TheCut
<1>13. EndedAtTheCut'
  <2>1. sent' \in {t, Whole(t)} /\ (AllText' => sent' = Whole(t))
    BY <1>2, <1>3, <1>4, <1>5
  <2> QED BY <1>12, <2>1 DEF EndedAtTheCut
<1>14. ChunksAreText'
  BY <1>2, <1>3, <1>4, <1>5 DEF ChunksAreText
<1>15. SentInv'
  <2>1. Starts(sent', t)
    BY <1>1, <1>2, <1>3, <1>4, WholeStarts
  <2>2. TheCut(generated)' = t
    BY <1>3, <1>6, <1>7 DEF TheCut
  <2> QED BY <2>1, <2>2 DEF SentInv, Starts
<1> QED BY <1>9, <1>10, <1>11, <1>13, <1>14, <1>15 DEF IInv

-----------------------------------------------------------------------------
(* Theorems *)

\* Every reachable state of the filter satisfies the invariant.
THEOREM Invariance == Spec => []IInv
<1>1. ASSUME IInv, [Next]_vars PROVE IInv'
  <2>1. CASE flush
    BY <1>1, <2>1, FlushHolds
  <2>2. CASE \E piece \in Pieces : push(piece)
    BY <1>1, <2>2, PushHolds
  <2>3. CASE UNCHANGED vars
    BY <1>1, <2>3 DEF vars, IInv, TypeInv, HeldInv, OpenInv, NothingLost, HeldForAReason,
         NoStopMissed, EndedAtTheCut, ChunksAreText, HeldAll, StopsIn, AllText, SentInv, Starts, TheCut
  <2> QED BY <1>1, <2>1, <2>2, <2>3 DEF Next
<1> QED BY <1>1, InitHolds, PTL DEF Spec

\* push loses, repeats and moves no byte: what was sent and what pending_ holds is the
\* text, as long as the run goes on.
THEOREM NoByteIsLost == Spec => []NothingLost
<1>1. IInv => NothingLost
  BY DEF IInv
<1> QED BY <1>1, Invariance, PTL

\* Whatever the pieces and the stop strings, pending_ is the beginning of a stop string
\* or of a character: Hold takes the longer of the two, never a longer end.
THEOREM HeldBytesHaveAReason == Spec => []HeldForAReason
<1>1. IInv => HeldForAReason
  BY DEF IInv
<1> QED BY <1>1, Invariance, PTL

\* No stop string ever gets past push, although it only searches pending_ and the new
\* piece: whatever could still become part of one was held back.
THEOREM StopsAreFound == Spec => []NoStopMissed
<1>1. IInv => NoStopMissed
  BY DEF IInv
<1> QED BY <1>1, Invariance, PTL

\* When the run ended, the caller has the text up to its first stop string, less a
\* character that is left incomplete there.
THEOREM EndsAtTheCut == Spec => []EndedAtTheCut
<1>1. IInv => EndedAtTheCut
  BY DEF IInv
<1> QED BY <1>1, Invariance, PTL

\* What on_chunk gets is always whole characters when the text and the stop strings are.
THEOREM ChunksAreWhole == Spec => []ChunksAreText
<1>1. IInv => ChunksAreText
  BY DEF IInv
<1> QED BY <1>1, Invariance, PTL
=============================================================================
