------------------------------ MODULE Service ------------------------------
(***************************************************************************)
(* LlamaService (src/src/service.cpp): the handlers of Generate, Chat and  *)
(* Embed, each on a gRPC thread of its own, around an engine that serves   *)
(* one of them at a time, while their clients cancel or lose the           *)
(* connection.  What the engine and the chat parser answer is left open:   *)
(* they are Engine, Pipeline and ChatTurn.                                 *)
(***************************************************************************)
EXTENDS Integers, Sequences

CONSTANTS
  Rpcs,              \* the calls
  NoRpc,             \* the engine is free
  Models,            \* what is loaded: a model of kind "chat", "plain" (Chat has no
                     \* template that compiles) or "embedding"
  MaxTokens,         \* bound on the tokens of a generation
  Inputs,            \* what may be embedded
  Length,            \* how many tokens each input has
  max_embed_tokens,  \* the most an input may have, from Startup
  MaxInputs,         \* bound on the inputs of an Embed
  MaxCalls           \* bound on the tool calls a reply parses to

ASSUME RpcsTyped  == NoRpc \notin Rpcs /\ Models \subseteq {"chat", "plain", "embedding"}
ASSUME BoundsTyped == MaxTokens \in Nat /\ MaxInputs \in Nat /\ MaxCalls \in Nat
ASSUME InputsTyped == Length \in [Inputs -> Nat] /\ max_embed_tokens \in Nat \ {0}

VARIABLES
  model,      \* the loaded model: Engine::serves_embeddings() and chat_format_
  pc,         \* "none", "handler", "queued", "running", "pooling", "returned", "closing", "done"
  call,       \* the request: its kind, and its prompt, messages or inputs
  client,     \* "here", "cancelled", or "broken": no write gets through
  gone,       \* client_gone
  lock,       \* context_mutex
  memory,     \* an embedding model's memory: the inputs decoded since it was cleared
  vectors,    \* EmbedResult::embeddings: what the memory held when each was read
  made,       \* tokens generated
  late,       \* of those tokens, how many since the client cancelled
  cause,      \* why the engine or the renderer threw, "none" if it did not
  reason,     \* GenerateResult::reason
  calls,      \* tool calls stream->finish() returned
  wire,       \* the chunks written
  status      \* the status returned

vars == <<model, pc, call, client, gone, lock, memory, vectors, made, late, cause, reason, calls, wire, status>>
embedding == <<memory, vectors>>

\* Any prompt, no messages or some, and any inputs.
Requests ==
  [kind: {"Generate"}, of: {<<"prompt">>}] \cup [kind: {"Chat"}, of: {<<>>, <<"messages">>}]
    \cup [kind: {"Embed"}, of: UNION {[1..n -> Inputs] : n \in 0..MaxInputs}]

Init ==
  /\ model \in Models
  /\ pc = [r \in Rpcs |-> "none"]
  /\ call = [r \in Rpcs |-> [kind |-> "Generate", of |-> <<"prompt">>]]
  /\ client = [r \in Rpcs |-> "here"]
  /\ gone = [r \in Rpcs |-> FALSE]
  /\ lock = NoRpc
  /\ memory = <<>> /\ vectors = [r \in Rpcs |-> <<>>]
  /\ made = [r \in Rpcs |-> 0] /\ late = [r \in Rpcs |-> 0]
  /\ cause = [r \in Rpcs |-> "none"] /\ reason = [r \in Rpcs |-> "none"]
  /\ calls = [r \in Rpcs |-> 0]
  /\ wire = [r \in Rpcs |-> <<>>]
  /\ status = [r \in Rpcs |-> "none"]

Set(f, r, v) == [f EXCEPT ![r] = v]
IsGeneration(r) == call[r].kind \in {"Generate", "Chat"}

-----------------------------------------------------------------------------
(* Chunks *)

Text == [chunk |-> "text", reason |-> "none", calls |-> 0]

\* Seeded fault: the calls of a reply cut short are sent like any others.
finish_chunk_uncleared(why, n) ==
  [chunk |-> "finish", reason |-> IF n = 0 THEN why ELSE "ToolCalls", calls |-> n]

\* Calls of a reply that did not run to completion are cleared; any that stay
\* replace the reason.
finish_chunk(why, n) ==
  LET sent == IF why \in {"Eog", "Stop"} THEN n ELSE 0
  IN  [chunk |-> "finish", reason |-> IF sent = 0 THEN why ELSE "ToolCalls", calls |-> sent]

\* writer->Write, and client_gone after it.  To a client that cancelled it may
\* still succeed.
Write(r, chunk, written) ==
  /\ written \in (CASE client[r] = "here" -> {TRUE} [] client[r] = "broken" -> {FALSE} [] OTHER -> BOOLEAN)
  /\ wire' = IF written THEN Set(wire, r, Append(wire[r], chunk)) ELSE wire
  /\ gone' = IF written THEN gone ELSE Set(gone, r, TRUE)

\* on_chunk and its answer: chat text that is not, or not yet, visible content is
\* accepted and not written.
on_chunk(r, visible, accepted) ==
  \/ /\ client[r] = "cancelled"
     /\ accepted = FALSE /\ gone' = Set(gone, r, TRUE)
     /\ UNCHANGED wire
  \/ /\ client[r] # "cancelled"
     /\ IF visible THEN Write(r, Text, accepted) ELSE accepted = TRUE /\ UNCHANGED <<wire, gone>>

\* The text reaches the client as it is from Generate, and as far as the chat
\* parser makes it visible from Chat.
Visibilities(r) == IF call[r].kind = "Generate" THEN {TRUE} ELSE BOOLEAN

-----------------------------------------------------------------------------
(* The client *)

Arrive(r) ==
  /\ pc[r] = "none"
  /\ pc' = Set(pc, r, "handler")
  /\ \E q \in Requests : call' = Set(call, r, q)
  /\ UNCHANGED <<model, client, gone, lock, embedding, made, late, cause, reason, calls, wire, status>>

\* A cancel or a deadline, or the connection breaking.
Vanish(r) ==
  /\ pc[r] \notin {"none", "done"} /\ client[r] = "here"
  /\ \E how \in {"cancelled", "broken"} : client' = Set(client, r, how)
  /\ UNCHANGED <<model, pc, call, gone, lock, embedding, made, late, cause, reason, calls, wire, status>>

-----------------------------------------------------------------------------
(* The handlers *)

\* The checks before anything runs, in each handler's order; "none" lets it run.
Refusal(r) ==
  LET q == call[r]
  IN IF q.kind # "Generate" /\ q.of = <<>> THEN "INVALID_ARGUMENT"
     ELSE IF \/ q.kind \in {"Generate", "Chat"} /\ model = "embedding"
             \/ q.kind = "Chat" /\ model # "chat"
             \/ q.kind = "Embed" /\ model # "embedding"
       THEN "FAILED_PRECONDITION"
     ELSE "none"

Refuse(r) ==
  /\ pc[r] = "handler" /\ Refusal(r) # "none"
  /\ pc' = Set(pc, r, "done")
  /\ status' = Set(status, r, Refusal(r))
  /\ UNCHANGED <<model, call, client, gone, lock, embedding, made, late, cause, reason, calls, wire>>

\* What the engine and the chat layer throw, and on what.  "request": a prompt,
\* schema, grammar or input the caller can change; "piece": a token that cannot be
\* made text; "decode": llama_decode failed; "internal": any other exception.
Thrown(r, why) ==
  CASE why \in {"request", "piece"}         -> "EngineError"   \* or ChatFormatError
    [] why = "decode" /\ IsGeneration(r)    -> "EngineError"
    [] OTHER                                -> "exception"

guarded(class) == IF class = "EngineError" THEN "INVALID_ARGUMENT" ELSE "INTERNAL"

Throw(r, why) ==
  /\ pc' = Set(pc, r, "done")
  /\ cause' = Set(cause, r, why)
  /\ status' = Set(status, r, guarded(Thrown(r, why)))

\* Seeded fault: the first input is measured, the others are taken as they come.
Measured_first(r) == call[r].kind = "Embed" => Length[call[r].of[1]] \in 1..max_embed_tokens

\* Every input has tokens, and not too many, before any is decoded.
Measured(r) ==
  call[r].kind = "Embed" => \A i \in DOMAIN call[r].of : Length[call[r].of[i]] \in 1..max_embed_tokens

\* Chat renders, and Embed tokenizes, before taking the mutex; both can throw.
Prepare(r) ==
  /\ pc[r] = "handler" /\ Refusal(r) = "none"
  /\ \/ /\ Measured(r)
        /\ pc' = Set(pc, r, "queued")
        /\ UNCHANGED <<cause, status>>
     \/ /\ call[r].kind # "Generate"
        /\ \E why \in {"request", "internal"} : Throw(r, why)
  /\ UNCHANGED <<model, call, client, gone, lock, embedding, made, late, reason, calls, wire>>

Acquire(r) ==
  /\ pc[r] = "queued" /\ lock = NoRpc
  /\ pc' = Set(pc, r, "running")
  /\ lock' = r
  /\ UNCHANGED <<model, call, client, gone, embedding, made, late, cause, reason, calls, wire, status>>

\* Only a generation still has a request to refuse once it holds the mutex, and
\* embed() finds out about its decode once the memory has been touched.
Failures(r) ==
  {"internal"}
    \cup (IF IsGeneration(r) \/ pc[r] = "pooling" THEN {"decode"} ELSE {})
    \cup (IF IsGeneration(r) THEN {"piece"} ELSE {})
    \cup (IF IsGeneration(r) /\ made[r] = 0 THEN {"request"} ELSE {})

\* Seeded fault: the mutex stays locked.
Unlock_forgotten == UNCHANGED lock

\* The lock_guard's destructor, on every way out.
Unlock == lock' = NoRpc

\* The engine throws and guarded() catches; the mutex is released on the way.
EngineThrows(r) ==
  /\ pc[r] \in {"running", "pooling"}
  /\ \E why \in Failures(r) : Throw(r, why)
  /\ Unlock
  /\ UNCHANGED <<model, call, client, gone, embedding, made, late, reason, calls, wire>>

Return(r, why) ==
  /\ pc' = Set(pc, r, "returned")
  /\ reason' = Set(reason, r, why)
  /\ Unlock

\* A token whose text the filter holds back or drops as a stop string, or that
\* has none: on_chunk is not called, and nobody asks whether the client is there.
TokenHeld(r) ==
  /\ pc[r] = "running" /\ IsGeneration(r) /\ made[r] < MaxTokens
  /\ made' = Set(made, r, made[r] + 1)
  /\ late' = IF client[r] = "cancelled" THEN Set(late, r, late[r] + 1) ELSE late
  /\ Return(r, "Stop") \/ UNCHANGED <<pc, reason, lock>>
  /\ UNCHANGED <<model, call, client, gone, embedding, cause, calls, wire, status>>

\* A token with which text is delivered; a matched stop string ends the run.
TokenDelivered(r) ==
  /\ pc[r] = "running" /\ IsGeneration(r) /\ made[r] < MaxTokens
  /\ made' = Set(made, r, made[r] + 1)
  /\ late' = IF client[r] = "cancelled" THEN Set(late, r, late[r] + 1) ELSE late
  /\ \E visible \in Visibilities(r), accepted \in BOOLEAN :
       /\ on_chunk(r, visible, accepted)
       /\ \/ ~accepted /\ Return(r, "Cancelled")
          \/ accepted /\ Return(r, "Stop")
          \/ accepted /\ UNCHANGED <<pc, reason, lock>>
  /\ UNCHANGED <<model, call, client, embedding, cause, calls, status>>

\* The model ends its turn or a limit is reached; flush() may deliver what was
\* held, and ignores the answer.
GenerationEnds(r) ==
  /\ pc[r] = "running" /\ IsGeneration(r)
  /\ \E why \in {"Eog", "Length"} : Return(r, why)
  /\ \/ \E visible \in Visibilities(r), accepted \in BOOLEAN : on_chunk(r, visible, accepted)
     \/ UNCHANGED <<wire, gone>>
  /\ UNCHANGED <<model, call, client, embedding, made, late, cause, calls, status>>

\* After generate(): one more look at the client, and for Chat the final parse,
\* which may find more visible text and tool calls.
Close(r) ==
  /\ pc[r] = "returned"
  /\ pc' = Set(pc, r, "closing")
  /\ IF gone[r] \/ client[r] = "cancelled"
       THEN gone' = Set(gone, r, TRUE) /\ UNCHANGED <<calls, wire>>
       ELSE IF call[r].kind = "Chat"
         THEN /\ \E n \in 0..MaxCalls : calls' = Set(calls, r, n)
              /\ (\E written \in BOOLEAN : Write(r, Text, written)) \/ UNCHANGED <<wire, gone>>
         ELSE UNCHANGED <<calls, wire, gone>>
  /\ UNCHANGED <<model, call, client, lock, embedding, made, late, cause, reason, status>>

\* Seeded fault: a reply without text gets no finish chunk.
Unfinished_textless(r) == gone[r] \/ wire[r] = <<>>

Unfinished(r) == gone[r]

Finish(r) ==
  /\ pc[r] = "closing"
  /\ pc' = Set(pc, r, "done") /\ status' = Set(status, r, "OK")
  /\ IF Unfinished(r) THEN UNCHANGED <<wire, gone>>
     ELSE \E written \in BOOLEAN : Write(r, finish_chunk(reason[r], calls[r]), written)
  /\ UNCHANGED <<model, call, client, lock, embedding, made, late, cause, reason, calls>>

-----------------------------------------------------------------------------
(* embed() *)

EmbedReturns(r) ==
  /\ pc' = Set(pc, r, "done") /\ Unlock
  /\ status' = Set(status, r, IF Len(vectors[r]) < Len(call[r].of) THEN "CANCELLED" ELSE "OK")

\* Seeded fault: the memory is not cleared between inputs.
Decoded_uncleared(input) == Append(memory, input)

\* llama_memory_clear and llama_decode: the input is alone in the memory.
Decoded(input) == <<input>>

\* Between inputs embed() asks whether the client is there.
EmbedInput(r) ==
  /\ pc[r] = "running" /\ call[r].kind = "Embed"
  /\ IF Len(vectors[r]) = Len(call[r].of) \/ client[r] = "cancelled"
       THEN EmbedReturns(r) /\ UNCHANGED memory
       ELSE /\ memory' = Decoded(call[r].of[Len(vectors[r]) + 1])
            /\ pc' = Set(pc, r, "pooling") /\ UNCHANGED <<lock, status>>
  /\ UNCHANGED <<model, call, client, gone, vectors, made, late, cause, reason, calls, wire>>

\* The pooled output, normalized.
EmbedPooled(r) ==
  /\ pc[r] = "pooling"
  /\ vectors' = Set(vectors, r, Append(vectors[r], memory))
  /\ pc' = Set(pc, r, "running")
  /\ UNCHANGED <<model, call, client, gone, lock, memory, made, late, cause, reason, calls, wire, status>>

Handle(r) ==
  \/ Refuse(r) \/ Prepare(r)
  \/ EngineThrows(r) \/ TokenHeld(r) \/ TokenDelivered(r) \/ GenerationEnds(r)
  \/ Close(r) \/ Finish(r) \/ EmbedInput(r) \/ EmbedPooled(r)

\* Every call has been answered.
Quiet == (\A r \in Rpcs : pc[r] = "done") /\ UNCHANGED vars

Next == Quiet \/ \E r \in Rpcs : Arrive(r) \/ Vanish(r) \/ Acquire(r) \/ Handle(r)

\* gRPC keeps a thread on every call it accepted.
Fairness == \A r \in Rpcs : WF_vars(Acquire(r)) /\ WF_vars(Handle(r))

Spec == Init /\ [][Next]_vars
FairSpec == Spec /\ Fairness

-----------------------------------------------------------------------------
(* Properties *)

IsFinish(chunk) == chunk.chunk = "finish"
Finished(r) == wire[r] # <<>> /\ IsFinish(wire[r][Len(wire[r])])

\* "Stream shape" (llamad.proto): text chunks, then at most one finish chunk and
\* nothing after it; a stream that succeeds while its client is there has it, a
\* stream that ends in an error does not.
StreamShape ==
  \A r \in Rpcs :
    /\ \A i \in 1..Len(wire[r]) : IsFinish(wire[r][i]) => i = Len(wire[r])
    /\ pc[r] = "done" /\ IsGeneration(r) =>
         /\ status[r] = "OK" /\ client[r] = "here" => Finished(r)
         /\ status[r] # "OK" => ~Finished(r)

\* What a finish chunk says is so.  "finish.tool_calls is non-empty if and only if
\* finish.reason is TOOL_CALLS"; the calls are all that the final parse of a chat
\* found if the reply ran to its end, and none if it did not; and without calls the
\* reason is the engine's own.
FinishIsHonest ==
  \A r \in Rpcs : Finished(r) =>
    LET finish == wire[r][Len(wire[r])]
        whole  == reason[r] \in {"Eog", "Stop"}
    IN  /\ finish.calls > 0 <=> finish.reason = "ToolCalls"
        /\ finish.calls = IF whole THEN calls[r] ELSE 0
        /\ finish.calls > 0 => call[r].kind = "Chat"
        /\ finish.calls = 0 => finish.reason = reason[r]

\* Embed answers OK only with a vector for every input, in order, each computed from
\* its own input alone while others wait for the same context, and CANCELLED only to
\* a client that did cancel.
EmbedIsWhole ==
  \A r \in Rpcs : call[r].kind = "Embed" =>
    /\ status[r] = "OK" => vectors[r] = [i \in DOMAIN call[r].of |-> <<call[r].of[i]>>]
    /\ status[r] = "CANCELLED" => client[r] = "cancelled"

\* "an over-long one fails the whole request up front rather than after the others
\* have been paid for" (engine.cpp): a request with an input that cannot be embedded
\* decodes none of them, and is not answered OK.
EmbedPaysForNothing ==
  \A r \in Rpcs : call[r].kind = "Embed" /\ (\E i \in DOMAIN call[r].of : Length[call[r].of[i]] \notin 1..max_embed_tokens)
    => vectors[r] = <<>> /\ lock # r /\ status[r] # "OK"

\* Every call ends, however its client behaves and whichever call throws.
CallsEnd == \A r \in Rpcs : (pc[r] = "handler") ~> (pc[r] = "done")

\* "INTERNAL | All other errors, for example a decode error" (protocol.md:160).
DecodeErrorIsInternal ==
  \A r \in Rpcs : cause[r] = "decode" => status[r] = "INTERNAL"

\* "The daemon stops the generation at the next token" (protocol.md:76-77).
StopsAtNextToken == \A r \in Rpcs : late[r] <= 1
=============================================================================
