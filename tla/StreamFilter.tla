---------------------------- MODULE StreamFilter ----------------------------
(***************************************************************************)
(* StreamFilter (src/src/engine.cpp): what stands between the tokens'      *)
(* pieces and the caller's on_chunk.  It holds back a byte that may be part*)
(* of a stop string or of a character that is not complete yet.            *)
(*                                                                         *)
(* A byte is abstract but for Width, what its high bits say: the length of *)
(* the character it leads, Cont for a continuation byte, Bad for neither.  *)
(***************************************************************************)
EXTENDS Integers, SequencesExt

CONSTANTS
  Byte,
  Width,      \* Byte -> 1..4, Cont or Bad
  Pieces,     \* what token_to_piece may return
  StopLists,  \* SamplingParams::stop, in the order the caller gave
  MaxBytes    \* bound on the generated text

Cont == 0
Bad  == 5
ASSUME ByteTyped   == Width \in [Byte -> 0..5] /\ MaxBytes \in Nat
ASSUME PiecesTyped == Pieces \subseteq Seq(Byte) /\ StopLists \subseteq Seq(Seq(Byte))

VARIABLES
  stops,      \* stops_
  pending,    \* pending_
  status,     \* push's latest answer, or "flushed"
  chunk,      \* the latest text handed to on_chunk
  sent,       \* all of it
  generated   \* all the text pushed

vars == <<stops, pending, status, chunk, sent, generated>>

Init ==
  /\ stops \in StopLists
  /\ pending = <<>> /\ chunk = <<>> /\ sent = <<>> /\ generated = <<>>
  /\ status = "Continue"

-----------------------------------------------------------------------------
Lesser(m, n)  == IF m < n THEN m ELSE n
Greater(m, n) == IF m < n THEN n ELSE m

Take(s, n) == SubSeq(s, 1, n)
Final(s, n) == SubSeq(s, Len(s) - n + 1, Len(s))

\* Seeded fault: only the last byte is looked at.
incomplete_utf8_tail_short(s) ==
  IF s # <<>> /\ Width[s[Len(s)]] \in 2..4 THEN 1 ELSE 0

\* The first byte that is no continuation, scanning back over at most four,
\* tells whether the bytes from it on are short of a character.
incomplete_utf8_tail(s) ==
  LET at(k) == Width[s[Len(s) - k + 1]]
      leads == {k \in 1..Lesser(Len(s), 4) : at(k) # Cont}
      k     == Min(leads)
  IN  IF leads # {} /\ at(k) # Bad /\ k < at(k) THEN k ELSE 0

\* Seeded fault: the last stop string decides, whatever the others need.
stop_prefix_holdback_last(p) ==
  IF stops = <<>> THEN 0
  ELSE Max({0} \cup {n \in 1..Len(p) : n < Len(Last(stops)) /\ Final(p, n) = Take(Last(stops), n)})

\* The longest suffix of p that is a proper prefix of a stop string.
stop_prefix_holdback(p) ==
  Max({0} \cup {n \in 1..Len(p) : \E i \in DOMAIN stops :
                  n < Len(stops[i]) /\ Final(p, n) = Take(stops[i], n)})

\* s occurs in text after the first n bytes.
OccursAt(s, text, n) == n + Len(s) <= Len(text) /\ SubSeq(text, n + 1, n + Len(s)) = s

\* std::string::find; npos is beyond the text.
npos(text) == Len(text) + 1
find(text, s) == Min({n \in 0..Len(text) : OccursAt(s, text, n)} \cup {npos(text)})

\* Seeded fault: the first stop string that occurs wins, not the first occurrence.
match_unordered(text) ==
  LET found == {i \in DOMAIN stops : stops[i] # <<>> /\ find(text, stops[i]) # npos(text)}
  IN  IF found = {} THEN npos(text) ELSE find(text, stops[Min(found)])

\* The earliest occurrence of any stop string; empty ones are skipped.
match(text) ==
  Min({npos(text)} \cup {find(text, stops[i]) : i \in {j \in DOMAIN stops : stops[j] # <<>>}})

\* deliver: empty text never reaches the callback and counts as accepted.
deliver(text, accepted) ==
  /\ text = <<>> => accepted
  /\ chunk' = text
  /\ sent' = sent \o text

\* A stop string matched: everything before it goes out, the rest is dropped.
PushMatched(text, accepted) ==
  LET head == Take(text, match(text))
  IN  /\ deliver(Take(head, Len(head) - incomplete_utf8_tail(head)), accepted)
      /\ pending' = <<>>
      /\ status' = IF accepted THEN "Stopped" ELSE "Cancelled"

\* Seeded fault: the two reasons to hold bytes back are added up.
Hold_sum(text) ==
  Lesser(Len(text), incomplete_utf8_tail(text) + stop_prefix_holdback(text))

Hold(text) ==
  Lesser(Len(text), Greater(incomplete_utf8_tail(text), stop_prefix_holdback(text)))

\* Seeded fault: what is held for a stop string is not kept.
PushUnmatched_forgetting(text, accepted) ==
  /\ deliver(Take(text, Len(text) - Hold(text)), accepted)
  /\ pending' = Final(text, incomplete_utf8_tail(text))
  /\ status' = IF accepted THEN "Continue" ELSE "Cancelled"

PushUnmatched(text, accepted) ==
  /\ deliver(Take(text, Len(text) - Hold(text)), accepted)
  /\ pending' = Final(text, Hold(text))
  /\ status' = IF accepted THEN "Continue" ELSE "Cancelled"

push(piece) ==
  /\ status = "Continue"
  /\ Len(generated) + Len(piece) <= MaxBytes
  /\ generated' = generated \o piece
  /\ \E accepted \in BOOLEAN :
       IF match(pending \o piece) # npos(pending \o piece)
         THEN PushMatched(pending \o piece, accepted)
         ELSE PushUnmatched(pending \o piece, accepted)
  /\ UNCHANGED stops

\* The generation ended on its own; on_chunk's answer is ignored.
flush ==
  /\ status = "Continue"
  /\ deliver(Take(pending, Len(pending) - incomplete_utf8_tail(pending)), TRUE)
  /\ pending' = <<>> /\ status' = "flushed"
  /\ UNCHANGED <<stops, generated>>

Next == flush \/ \E piece \in Pieces : push(piece)

Spec == Init /\ [][Next]_vars

-----------------------------------------------------------------------------
(* Properties *)

StopsIn(text) ==
  {n \in 0..Len(text) : \E i \in DOMAIN stops : stops[i] # <<>> /\ OccursAt(stops[i], text, n)}

\* The last k bytes of text begin a character and do not complete it.
Torn(text, k) ==
  /\ Width[text[Len(text) - k + 1]] \in (k + 1)..4
  /\ \A i \in (Len(text) - k + 2)..Len(text) : Width[text[i]] = Cont

Whole(text) ==
  Take(text, Len(text) - Max({0} \cup {k \in 1..Lesser(Len(text), 3) : Torn(text, k)}))

\* While the generation goes on, no generated byte is lost, repeated or moved:
\* it has been sent or is still held, in order.
NothingLost == status = "Continue" => sent \o pending = generated

\* Bytes are held only for a reason a later byte can settle: they start a stop
\* string, or a character that is still incomplete.
HeldForAReason ==
  status = "Continue" /\ pending # <<>> =>
    \/ \E i \in DOMAIN stops : IsStrictPrefix(pending, stops[i])
    \/ Torn(pending, Len(pending))

\* "A stop string can never straddle already-delivered text": while the text
\* goes on, and when it ended on its own, no stop string is anywhere in it,
\* though push only ever searches what it holds.
NoStopMissed == status \in {"Continue", "flushed"} => StopsIn(generated) = {}

\* text is made of characters, but that the last one may have been cut.
IsText(text) ==
  \A i \in 1..Len(text) :
    IF Width[text[i]] = Cont
      THEN \E k \in 1..Lesser(i - 1, 3) :
             k < Width[text[i - k]] /\ \A j \in 1..k : Width[text[i - j + 1]] = Cont
      ELSE Width[text[i]] # Bad /\ \A j \in (i + 1)..Lesser(Len(text), i + Width[text[i]] - 1) :
                                      Width[text[j]] = Cont
IsWholeText(text) ==
  /\ IsText(text)
  /\ \A i \in 1..Len(text) : i + Width[text[i]] - 1 <= Len(text)

\* The model writes UTF-8, and so are the stop strings, as every protobuf string is.
AllText == IsText(generated) /\ \A i \in DOMAIN stops : IsWholeText(stops[i])

\* What the caller got when the run ended: all the text, or the text before the
\* first stop string in it; less a character left incomplete at the cut, which only
\* text or a stop string that is not UTF-8 can have sent by then.
EndedAtTheCut ==
  \A cut \in {Take(generated, Min(StopsIn(generated) \cup {Len(generated)}))} :
    status \in {"Stopped", "flushed"} =>
      /\ sent \in {cut, Whole(cut)}
      /\ AllText => sent = Whole(cut)

\* Chunks never split a character: if all the text is UTF-8, so is each chunk by itself.
ChunksAreText == AllText => IsWholeText(chunk)

=============================================================================
