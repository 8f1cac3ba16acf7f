------------------------------ MODULE Pipeline ------------------------------
(***************************************************************************)
(* A chat reply on its way to the client: the engine's StreamFilter calls  *)
(* on_chunk of LlamaService::stream_generation (src/src/service.cpp), which*)
(* pushes the text through ChatFormat::Stream and writes what became       *)
(* visible; when the generation is over the stream is finished.  A throw   *)
(* ends it wherever it is, without a finish.                               *)
(***************************************************************************)
EXTENDS Naturals, SequencesExt

CONSTANTS
  Byte, Width, Pieces, StopLists,  \* as in StreamFilter
  MaxBytes,                        \* bound on the generated text
  MaxCalls                         \* bound on the tool calls of a message

ASSUME TextsTyped ==
  /\ Width \in [Byte -> 0..5] /\ MaxBytes \in Nat
  /\ Pieces \subseteq Seq(Byte) /\ StopLists \subseteq Seq(Seq(Byte))

VARIABLES
  stops, pending, status, chunk, sent, generated,             \* of the filter
  accumulated, parsed, emitted, seen, answer, calls, done,    \* of the stream
  gone,    \* client_gone
  stage    \* "generate", "finish" or "over"

chat == <<accumulated, parsed, emitted, seen, answer, calls, done>>
filter == <<stops, pending, status, chunk, sent, generated>>
vars == <<filter, chat, gone, stage>>

Filter == INSTANCE StreamFilter
Chat == INSTANCE ChatStream WITH MaxRaw <- MaxBytes

Init == Filter!Init /\ Chat!Init /\ gone = FALSE /\ stage = "generate"

\* What the step makes visible is written, and the client may turn out to be gone.
WriteVisible(written) ==
  /\ seen' = seen => written
  /\ gone' = (gone \/ ~written)

\* Seeded fault: text is written and parsed only as long as none is held back.
on_chunk_unheld(accepted) ==
  IF pending' # <<>> THEN accepted /\ UNCHANGED <<chat, gone>>
  ELSE IF chunk' = <<>> THEN UNCHANGED <<chat, gone>>
  ELSE Chat!push(chunk') /\ WriteVisible(accepted)

\* on_chunk with the filter's chunk, if it has one.  A client that is known to be
\* gone gets nothing parsed, one that is found out by the write has lost that text.
on_chunk(accepted) ==
  \/ chunk' = <<>> /\ UNCHANGED <<chat, gone>>
  \/ chunk' # <<>> /\ ~accepted /\ gone' = TRUE /\ UNCHANGED chat
  \/ chunk' # <<>> /\ Chat!push(chunk') /\ WriteVisible(accepted)

\* The filter takes on_chunk's answer for its status.
Push(piece) ==
  /\ stage = "generate"
  /\ Filter!push(piece)
  /\ on_chunk(status' # "Cancelled")
  /\ stage' = IF status' = "Continue" THEN "generate" ELSE "finish"

\* End of generation or a limit: what is held goes out, and the answer is ignored.
Flush ==
  /\ stage = "generate"
  /\ Filter!flush
  /\ \E accepted \in BOOLEAN : on_chunk(accepted)
  /\ stage' = "finish"

\* The client is looked at once more, then the whole reply is parsed.
Finish ==
  /\ stage = "finish" /\ stage' = "over"
  /\ \/ gone' = TRUE /\ UNCHANGED chat
     \/ ~gone /\ (Chat!FinishAccepted \/ Chat!FinishRejected) /\ \E written \in BOOLEAN : WriteVisible(written)
  /\ UNCHANGED filter

Next == Flush \/ Finish \/ \E piece \in Pieces : Push(piece)

Spec == Init /\ [][Next]_vars

-----------------------------------------------------------------------------
(* Properties *)

\* The reply: the text before the first stop string in it.
Reply == SubSeq(generated, 1, Min(Filter!StopsIn(generated) \cup {Len(generated)}))

\* Wherever the pieces and the chunks were cut, whatever the parser made of them and
\* even if it rejected them all: what a chat client reads is one stretch of the reply,
\* so no part of a stop string and nothing behind it, nothing twice and no gap.
ReadsAStretch == seen \in SubSeqs(Reply)

\* Unless the client is gone, the final parse is of the whole reply up to a character
\* that was left incomplete, and its calls are handed out all, each complete, or none.
ParsesTheWholeReply ==
  stage = "over" /\ ~gone =>
    /\ accumulated \in {Reply, Filter!Whole(Reply)}
    /\ calls # <<>> => calls = parsed.calls /\ answer # "rejected" /\ "fragment" \notin Range(calls)

\* As in ChatStream, for the texts that the filter delivers: the client has the
\* content of the latest message, or that message did not begin with what it has.
ReadsTheContent == Chat!ReadsTheContent

\* As in ChatStream: a reply that is rejected in the end is given to its end.
RejectedKeepsTheRest == Chat!RejectedKeepsTheRest
=============================================================================
