----------------------------- MODULE ChatStream -----------------------------
(***************************************************************************)
(* ChatFormat::Stream (src/src/chat_format.cpp): a reply is parsed again   *)
(* from its start with every chunk, and what the caller is given is the    *)
(* difference to what it already has.                                      *)
(*                                                                         *)
(* The parser is llama.cpp's.  Of it the code relies on one thing only: the*)
(* content it returns is a verbatim substring of the text.  It may reject a*)
(* text, and change its mind from one text to the next, about what is      *)
(* content, reasoning or a tool call.  A call counts by whether is_complete*)
(* accepts it; its id goes with its index, and two ids never collide.      *)
(***************************************************************************)
EXTENDS Naturals, SequencesExt

CONSTANTS
  Pieces,     \* texts the stream filter delivers
  MaxRaw,     \* bound on the length of a reply
  MaxCalls    \* bound on the tool calls of a message

VARIABLES
  accumulated,  \* every character pushed
  parsed,       \* the latest message that was not empty
  emitted,      \* what Impl believes the caller has
  seen,         \* what the caller has been given
  answer,       \* the parser's latest answer: "rejected", "empty" or "message"
  calls,        \* Final::tool_calls
  done          \* finish() has returned

vars == <<accumulated, parsed, emitted, seen, answer, calls, done>>

Init ==
  /\ accumulated = <<>> /\ parsed = [content |-> <<>>, calls |-> <<>>]
  /\ emitted = <<>> /\ seen = <<>>
  /\ answer = "empty" /\ calls = <<>> /\ done = FALSE

\* External: the messages common_chat_parse may make of a text, besides an empty
\* one; a message with neither content nor calls has reasoning.
Messages(text) ==
  [content : SubSeqs(text), calls : UNION {[1..n -> {"complete", "fragment"}] : n \in 0..MaxCalls}]

After(s, n) == SubSeq(s, n + 1, Len(s))

\* Seeded fault: the new message is compared with the previous one.
Delta_of_parses(message) ==
  IF IsStrictPrefix(parsed.content, message.content)
    THEN After(message.content, Len(parsed.content)) ELSE <<>>

\* What of the message's content the caller does not have yet; nothing if the
\* parser changed its mind about what the caller was already given.
Delta(message) ==
  IF IsStrictPrefix(emitted, message.content)
    THEN After(message.content, Len(emitted)) ELSE <<>>

\* advance, the parser having accepted the text.  An empty message leaves the
\* previous one in place.
advance(text) ==
  \/ answer' = "empty" /\ UNCHANGED <<parsed, emitted, seen>>
  \/ \E message \in Messages(text) :
       /\ answer' = "message" /\ parsed' = message
       /\ emitted' = emitted \o Delta(message)
       /\ seen' = seen \o Delta(message)

\* A partial text that the parser rejects is just kept for the next push.
push(text) ==
  /\ ~done /\ Len(accumulated) + Len(text) <= MaxRaw
  /\ accumulated' = accumulated \o text
  /\ \/ answer' = "rejected" /\ UNCHANGED <<parsed, emitted, seen>>
     \/ advance(accumulated')
  /\ UNCHANGED <<calls, done>>

Found == {n \in 0..Len(accumulated) : IsPrefix(emitted, After(accumulated, n))}

\* Seeded fault: the remainder is counted from the start of the text.
raw_offset_after_emitted_counted == {Len(emitted)}

\* Where the remainder starts, if what was emitted is found in the text at all.
raw_offset_after_emitted ==
  {n + Len(emitted) : n \in {m \in Found : \A k \in Found : m <= k}}

\* finish, the parser having rejected the whole text: the rest is given as it is.
FinishRejected ==
  /\ ~done /\ done' = TRUE
  /\ answer' = "rejected"
  /\ \/ raw_offset_after_emitted = {} /\ UNCHANGED <<emitted, seen>>
     \/ \E offset \in raw_offset_after_emitted :
          /\ emitted' = emitted \o After(accumulated, offset)
          /\ seen' = seen \o After(accumulated, offset)
  /\ UNCHANGED <<accumulated, parsed, calls>>

\* One call that is not complete takes all the others with it.
AllOrNothing(found) ==
  IF \A i \in DOMAIN found : found[i] = "complete" THEN found ELSE <<>>

FinishAccepted ==
  /\ ~done /\ done' = TRUE
  /\ advance(accumulated)
  /\ calls' = AllOrNothing(parsed'.calls)
  /\ UNCHANGED accumulated

Next == FinishRejected \/ FinishAccepted \/ \E text \in Pieces \ {<<>>} : push(text)

Spec == Init /\ [][Next]_vars

-----------------------------------------------------------------------------
(* Properties *)

\* However the parser changed its mind on the way: a message whose content begins
\* with what the caller has already read leaves the caller with that content,
\* nothing lost and nothing twice, and any other message takes nothing back and
\* adds nothing.
ReadsTheContent ==
  [][answer' = "message" =>
       seen' = IF IsPrefix(seen, parsed'.content) THEN parsed'.content ELSE seen]_vars

\* "nothing generated is silently dropped": if the whole text is rejected in the
\* end, what the caller got is the text itself from some place on, to its end,
\* whichever part of it an earlier parse had already given out.
RejectedKeepsTheRest == done /\ answer = "rejected" => IsSuffix(seen, accumulated)
=============================================================================
