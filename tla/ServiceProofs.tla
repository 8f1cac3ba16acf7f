---------------------------- MODULE ServiceProofs ----------------------------
(***************************************************************************)
(* Theorems about Service, for any number of calls at once, of any kind    *)
(* and length.                                                             *)
(***************************************************************************)
EXTENDS Service, SequenceTheorems, TLAPS

PCs      == {"none", "handler", "queued", "running", "pooling", "returned", "closing", "done"}
Reasons  == {"none", "Eog", "Length", "Stop", "Cancelled"}
Statuses == {"none", "OK", "CANCELLED", "INVALID_ARGUMENT", "FAILED_PRECONDITION", "INTERNAL"}
Causes   == {"none", "request", "piece", "decode", "internal"}
Chunks   == [chunk: {"text", "finish"}, reason: Reasons \cup {"ToolCalls"}, calls: Nat]

\* Every variable has its type.
TypeOK ==
  /\ pc \in [Rpcs -> PCs]
  /\ call \in [Rpcs -> Requests]
  /\ client \in [Rpcs -> {"here", "cancelled", "broken"}]
  /\ gone \in [Rpcs -> BOOLEAN]
  /\ lock \in Rpcs \cup {NoRpc}
  /\ memory \in Seq(Inputs)
  /\ vectors \in [Rpcs -> Seq(Seq(Inputs))]
  /\ made \in [Rpcs -> Nat] /\ late \in [Rpcs -> Nat]
  /\ cause \in [Rpcs -> Causes]
  /\ reason \in [Rpcs -> Reasons]
  /\ calls \in [Rpcs -> Nat]
  /\ wire \in [Rpcs -> Seq(Chunks)]
  /\ status \in [Rpcs -> Statuses]

\* The engine is the lock holder's; only generations have a stream to close, and
\* there is no answer before the handler returns.
ControlInv(r) ==
  /\ pc[r] \in {"running", "pooling"} <=> lock = r
  /\ pc[r] \in {"returned", "closing"} => IsGeneration(r)
  /\ pc[r] = "pooling" => call[r].kind = "Embed"
  /\ pc[r] # "done" => status[r] = "none"
  /\ pc[r] \in {"none", "handler", "queued"} => wire[r] = <<>> /\ vectors[r] = <<>>
  /\ pc[r] \in {"none", "handler"} => calls[r] = 0
  /\ calls[r] > 0 => call[r].kind = "Chat"

\* A client that is taken for gone has left, and a run that was cancelled was
\* cancelled because its client was found to be gone.
GoneInv(r) ==
  /\ gone[r] => client[r] # "here"
  /\ reason[r] = "Cancelled" => gone[r]

\* What FinishIsHonest says of a finish chunk, of a run that ended for why and whose
\* final parse found n calls; and why is no cancel.
Honest(why, kind, n, finish) ==
  /\ finish.calls > 0 <=> finish.reason = "ToolCalls"
  /\ finish.calls = IF why \in {"Eog", "Stop"} THEN n ELSE 0
  /\ finish.calls > 0 => kind = "Chat"
  /\ finish.calls = 0 => finish.reason = why
  /\ why # "Cancelled"

\* A finish chunk is the last one, of a stream that succeeded; it is honest, and a
\* client that is still there has it.
WireInv(r) ==
  /\ \A i \in 1..Len(wire[r]) :
       IsFinish(wire[r][i]) => /\ i = Len(wire[r]) /\ pc[r] = "done" /\ status[r] = "OK"
                               /\ Honest(reason[r], call[r].kind, calls[r], wire[r][i])
  /\ pc[r] = "done" /\ IsGeneration(r) /\ status[r] = "OK" /\ client[r] = "here" => Finished(r)

\* The vectors so far are those of the first inputs, each of its own; the memory
\* holds the next one while it is read out; and nothing was decoded unmeasured.
EmbedInv(r) ==
  call[r].kind = "Embed" =>
    /\ Len(vectors[r]) <= Len(call[r].of)
    /\ \A i \in 1..Len(vectors[r]) : vectors[r][i] = <<call[r].of[i]>>
    /\ pc[r] = "pooling" => /\ Len(vectors[r]) < Len(call[r].of)
                            /\ memory = <<call[r].of[Len(vectors[r]) + 1]>>
    /\ pc[r] \in {"queued", "running", "pooling"} => Measured(r)
    /\ ~Measured(r) => vectors[r] = <<>> /\ status[r] # "OK"
    /\ status[r] = "OK" => Len(vectors[r]) = Len(call[r].of)
    /\ status[r] = "CANCELLED" => client[r] = "cancelled"

RpcInv(r) == ControlInv(r) /\ GoneInv(r) /\ WireInv(r) /\ EmbedInv(r)

IInv == TypeOK /\ \A r \in Rpcs : RpcInv(r)

-----------------------------------------------------------------------------
(* Requests, chunks and frames *)

\* What a request is, by its kind.
LEMMA RequestTyped ==
  ASSUME NEW q \in Requests
  PROVE  /\ q.kind \in {"Generate", "Chat", "Embed"}
         /\ q.kind = "Embed" => q.of \in Seq(Inputs)
<1>1. \A n \in 0..MaxInputs : [1..n -> Inputs] \subseteq Seq(Inputs)
  BY SeqDef, BoundsTyped
<1>2. CASE q \in [kind: {"Generate"}, of: {<<"prompt">>}] \/ q \in [kind: {"Chat"}, of: {<<>>, <<"messages">>}]
  BY <1>2
<1>3. CASE q \in [kind: {"Embed"}, of: UNION {[1..n -> Inputs] : n \in 0..MaxInputs}]
  BY <1>1, <1>3
<1> QED BY <1>2, <1>3 DEF Requests

\* Text is a chunk, and so is the finish chunk of any reason and calls.
LEMMA ChunksTyped ==
  /\ Text \in Chunks /\ ~IsFinish(Text)
  /\ \A why \in Reasons, n \in Nat : finish_chunk(why, n) \in Chunks /\ IsFinish(finish_chunk(why, n))
BY DEF Text, finish_chunk, Chunks, Reasons, IsFinish

\* Where a chunk that was appended is.
LEMMA AppendedChunk ==
  ASSUME NEW s \in Seq(Chunks), NEW x \in Chunks
  PROVE  /\ Append(s, x) \in Seq(Chunks) /\ Len(Append(s, x)) = Len(s) + 1 /\ Append(s, x) # <<>>
         /\ Append(s, x)[Len(s) + 1] = x
         /\ \A i \in 1..Len(Append(s, x)) : i # Len(s) + 1 => i \in 1..Len(s) /\ Append(s, x)[i] = s[i]
BY AppendProperties, LenProperties

\* What a step of r leaves alone: everything of the other calls.
Frame(r) ==
  \A s \in Rpcs : s # r =>
    /\ pc'[s] = pc[s] /\ call'[s] = call[s] /\ client'[s] = client[s] /\ gone'[s] = gone[s]
    /\ vectors'[s] = vectors[s] /\ reason'[s] = reason[s] /\ calls'[s] = calls[s]
    /\ wire'[s] = wire[s] /\ status'[s] = status[s]
    /\ (lock' = s <=> lock = s)
    /\ pc[s] = "pooling" => memory' = memory

\* A step of r keeps the invariant if it keeps r's part of it.
LEMMA StepKeepsInvariant ==
  ASSUME IInv, NEW r \in Rpcs, Frame(r), TypeOK', RpcInv(r)'
  PROVE  IInv'
<1>1. ASSUME NEW s \in Rpcs, s # r PROVE RpcInv(s)'
  <2>1. RpcInv(s)
    BY DEF IInv
  <2>2. /\ pc'[s] = pc[s] /\ call'[s] = call[s] /\ client'[s] = client[s] /\ gone'[s] = gone[s]
        /\ vectors'[s] = vectors[s] /\ reason'[s] = reason[s] /\ calls'[s] = calls[s]
        /\ wire'[s] = wire[s] /\ status'[s] = status[s]
        /\ (lock' = s <=> lock = s)
        /\ pc[s] = "pooling" => memory' = memory
    BY <1>1 DEF Frame
  <2>3. ControlInv(s)' /\ GoneInv(s)'
    BY <2>1, <2>2 DEF RpcInv, ControlInv, GoneInv, IsGeneration
  <2>4. WireInv(s)'
    BY <2>1, <2>2 DEF RpcInv, WireInv, IsGeneration, Finished, Honest
  <2>5. EmbedInv(s)'
    BY <2>1, <2>2 DEF RpcInv, EmbedInv, Measured
  <2> QED BY <2>3, <2>4, <2>5 DEF RpcInv
<1> QED BY <1>1 DEF IInv

\* Nothing has arrived yet.
LEMMA InitEstablishes == Init => IInv
<1> SUFFICES ASSUME Init PROVE IInv
  OBVIOUS
<1>1. [kind |-> "Generate", of |-> <<"prompt">>] \in Requests
  BY DEF Requests
<1>2. TypeOK
  BY <1>1, EmptySeq DEF Init, TypeOK, PCs, Causes, Reasons, Statuses
<1>3. ASSUME NEW r \in Rpcs PROVE RpcInv(r)
  <2>1. /\ pc[r] = "none" /\ call[r].kind = "Generate" /\ ~gone[r] /\ lock # r /\ wire[r] = <<>> /\ vectors[r] = <<>>
        /\ calls[r] = 0 /\ reason[r] = "none" /\ status[r] = "none"
    BY RpcsTyped DEF Init
  <2>2. Len(wire[r]) = 0
    BY <2>1, EmptySeq
  <2> QED BY <2>1, <2>2 DEF RpcInv, ControlInv, GoneInv, WireInv, EmbedInv, IsGeneration
<1> QED BY <1>2, <1>3 DEF IInv

-----------------------------------------------------------------------------
(* Every action keeps the invariant *)

\* A call comes in; nothing of an earlier one is there.
LEMMA ArriveKeepsInvariant ==
  ASSUME IInv, NEW r \in Rpcs, Arrive(r)
  PROVE  IInv'
<1> USE DEF Arrive, Set, embedding
<1>1. TypeOK'
  BY DEF IInv, TypeOK, PCs
<1>2. Frame(r)
  BY DEF IInv, TypeOK, Frame
<1>3. RpcInv(r) /\ pc[r] = "none" /\ pc'[r] = "handler"
  BY DEF IInv, TypeOK
<1>4. ControlInv(r)' /\ GoneInv(r)'
  BY <1>3 DEF RpcInv, ControlInv, GoneInv
<1>5. WireInv(r)' /\ EmbedInv(r)'
  BY <1>3, EmptySeq, RequestTyped, LenProperties DEF IInv, TypeOK, RpcInv, ControlInv, WireInv, EmbedInv
<1> QED BY <1>1, <1>2, <1>4, <1>5, StepKeepsInvariant DEF RpcInv

\* The client leaves while its call is under way.
LEMMA VanishKeepsInvariant ==
  ASSUME IInv, NEW r \in Rpcs, Vanish(r)
  PROVE  IInv'
<1> USE DEF Vanish, Set, embedding
<1>1. TypeOK'
  BY DEF IInv, TypeOK
<1>2. Frame(r)
  BY DEF IInv, TypeOK, Frame
<1>3. RpcInv(r) /\ pc[r] \notin {"none", "done"} /\ client'[r] # "here" /\ client[r] = "here"
  BY DEF IInv, TypeOK
<1>4. ControlInv(r)' /\ GoneInv(r)'
  BY <1>3 DEF RpcInv, ControlInv, GoneInv, IsGeneration
<1>5. WireInv(r)' /\ EmbedInv(r)'
  BY <1>3 DEF RpcInv, ControlInv, WireInv, EmbedInv, Honest, IsGeneration, Measured
<1> QED BY <1>1, <1>2, <1>4, <1>5, StepKeepsInvariant DEF RpcInv

\* A call that is answered with an error has no finish chunk and no more vectors.
LEMMA ErrorKeepsInvariant ==
  ASSUME IInv, NEW r \in Rpcs, pc[r] \notin {"none", "done"},
         NEW answer \in {"INVALID_ARGUMENT", "FAILED_PRECONDITION", "INTERNAL"},
         NEW why \in Causes, cause' \in {cause, Set(cause, r, why)},
         pc' = Set(pc, r, "done"), status' = Set(status, r, answer),
         lock' = IF pc[r] \in {"running", "pooling"} THEN NoRpc ELSE lock,
         UNCHANGED <<model, call, client, gone, embedding, made, late, reason, calls, wire>>
  PROVE  IInv'
<1> USE DEF Set, embedding
<1>1. TypeOK'
  <2>1. "done" \in PCs /\ answer \in Statuses
    BY DEF PCs, Statuses
  <2>2. /\ pc \in [Rpcs -> PCs] /\ status \in [Rpcs -> Statuses] /\ cause \in [Rpcs -> Causes]
        /\ lock \in Rpcs \cup {NoRpc}
    BY DEF IInv, TypeOK
  <2>3. pc' \in [Rpcs -> PCs] /\ status' \in [Rpcs -> Statuses]
    BY <2>1, <2>2
  <2>4. cause' \in [Rpcs -> Causes] /\ lock' \in Rpcs \cup {NoRpc}
    BY <2>2
  <2> QED BY <2>3, <2>4 DEF IInv, TypeOK
<1>2. RpcInv(r) /\ pc'[r] = "done" /\ status'[r] = answer
  BY DEF IInv, TypeOK
<1>3. lock' # r /\ Frame(r)
  BY <1>2, RpcsTyped DEF IInv, TypeOK, Frame, RpcInv, ControlInv
<1>4. ControlInv(r)' /\ GoneInv(r)'
  BY <1>2, <1>3 DEF RpcInv, ControlInv, GoneInv, IsGeneration
<1>5. WireInv(r)' /\ EmbedInv(r)'
  BY <1>2 DEF RpcInv, WireInv, EmbedInv, Measured
<1> QED BY <1>1, <1>3, <1>4, <1>5, StepKeepsInvariant DEF RpcInv

\* What Write and on_chunk do to r's stream.
StreamStep(r) ==
  /\ wire' \in [Rpcs -> Seq(Chunks)] /\ gone' \in [Rpcs -> BOOLEAN]
  /\ \A s \in Rpcs : s # r => wire'[s] = wire[s] /\ gone'[s] = gone[s]
  /\ wire'[r] \in {wire[r], Append(wire[r], Text)}
  /\ gone[r] => gone'[r]
  /\ gone'[r] => gone[r] \/ client[r] # "here"

\* A chunk is written or the client is found to be gone, and one that is there gets it.
LEMMA Written ==
  ASSUME TypeOK, NEW r \in Rpcs, NEW x \in Chunks, NEW written \in BOOLEAN, Write(r, x, written)
  PROVE  /\ wire' \in [Rpcs -> Seq(Chunks)] /\ gone' \in [Rpcs -> BOOLEAN]
         /\ \A s \in Rpcs : s # r => wire'[s] = wire[s] /\ gone'[s] = gone[s]
         /\ wire'[r] = IF written THEN Append(wire[r], x) ELSE wire[r]
         /\ gone'[r] <=> gone[r] \/ ~written
         /\ ~written => client[r] # "here"
<1>1. wire[r] \in Seq(Chunks) /\ Append(wire[r], x) \in Seq(Chunks)
  BY AppendProperties DEF TypeOK
<1>2. ~written => client[r] # "here"
  BY DEF Write, TypeOK
<1>3. CASE written
  BY <1>1, <1>3 DEF Write, Set, TypeOK
<1>4. CASE ~written
  BY <1>2, <1>4 DEF Write, Set, TypeOK
<1> QED BY <1>3, <1>4, <1>2

\* on_chunk turns text down only when it finds the client gone.
LEMMA Delivered ==
  ASSUME TypeOK, NEW r \in Rpcs, NEW visible \in BOOLEAN, NEW accepted \in BOOLEAN,
         on_chunk(r, visible, accepted)
  PROVE  StreamStep(r) /\ (~accepted => gone'[r])
<1>1. CASE client[r] = "cancelled"
  BY <1>1 DEF on_chunk, StreamStep, Set, TypeOK
<1>2. CASE client[r] # "cancelled" /\ visible
  <2>1. Write(r, Text, accepted)
    BY <1>2 DEF on_chunk
  <2> QED BY <2>1, Written, ChunksTyped DEF StreamStep
<1>3. CASE client[r] # "cancelled" /\ ~visible
  BY <1>3 DEF on_chunk, StreamStep, TypeOK
<1> QED BY <1>1, <1>2, <1>3

\* A stream that nothing happens to.
LEMMA Untouched ==
  ASSUME TypeOK, NEW r \in Rpcs, UNCHANGED <<wire, gone>>
  PROVE  StreamStep(r)
BY DEF StreamStep, TypeOK

\* A generation goes on or returns, and closes its stream, with text and nothing else
\* on the wire.
LEMMA StreamKeepsInvariant ==
  ASSUME IInv, NEW r \in Rpcs, IsGeneration(r), StreamStep(r),
         NEW to, \/ pc[r] = "running" /\ to = "running" /\ lock' = lock
                 \/ pc[r] = "running" /\ to = "returned" /\ lock' = NoRpc
                 \/ pc[r] = "returned" /\ to = "closing" /\ lock' = lock,
         NEW why \in Reasons, why = "Cancelled" => gone'[r],
         NEW n \in Nat, n > 0 => call[r].kind = "Chat",
         pc' = Set(pc, r, to), reason' = Set(reason, r, why), calls' = Set(calls, r, n),
         made' \in [Rpcs -> Nat], late' \in [Rpcs -> Nat],
         UNCHANGED <<model, call, client, embedding, cause, status>>
  PROVE  IInv'
<1> USE DEF Set, embedding
<1>1. TypeOK'
  <2>1. pc' \in [Rpcs -> PCs] /\ reason' \in [Rpcs -> Reasons] /\ calls' \in [Rpcs -> Nat]
    BY DEF IInv, TypeOK, PCs
  <2>2. lock' \in Rpcs \cup {NoRpc}
    BY DEF IInv, TypeOK
  <2> QED BY <2>1, <2>2 DEF IInv, TypeOK, StreamStep
<1>2. /\ RpcInv(r) /\ pc'[r] = to /\ reason'[r] = why /\ calls'[r] = n /\ status[r] = "none"
      /\ call[r].kind \in {"Generate", "Chat"}
  BY DEF IInv, TypeOK, RpcInv, ControlInv, IsGeneration
<1>3. Frame(r)
  <2>1. \A s \in Rpcs : s # r => (lock' = s <=> lock = s)
    BY <1>2, RpcsTyped DEF RpcInv, ControlInv
  <2>2. \A s \in Rpcs : s # r => wire'[s] = wire[s] /\ gone'[s] = gone[s]
    BY DEF StreamStep
  <2> QED BY <2>1, <2>2 DEF IInv, TypeOK, Frame
<1>4. ControlInv(r)'
  BY <1>2, RpcsTyped DEF RpcInv, ControlInv, IsGeneration
<1>5. GoneInv(r)'
  BY <1>2 DEF RpcInv, GoneInv, StreamStep
<1>6. WireInv(r)'
  <2>1. wire[r] \in Seq(Chunks) /\ Len(wire[r]) \in Nat /\ \A i \in 1..Len(wire[r]) : ~IsFinish(wire[r][i])
    BY <1>2, LenProperties DEF IInv, TypeOK, RpcInv, WireInv
  <2>2. \A i \in 1..Len(wire'[r]) : ~IsFinish(wire'[r][i])
    <3>1. CASE wire'[r] = wire[r]
      BY <2>1, <3>1
    <3>2. CASE wire'[r] = Append(wire[r], Text)
      BY <2>1, <3>2, AppendedChunk, ChunksTyped
    <3> QED BY <3>1, <3>2 DEF StreamStep
  <2> QED BY <1>2, <2>2 DEF WireInv
<1>7. EmbedInv(r)'
  BY <1>2 DEF EmbedInv
<1> QED BY <1>1, <1>3, <1>4, <1>5, <1>6, <1>7, StepKeepsInvariant DEF RpcInv

\* A call is let through to the engine's queue, or up to the engine.
LEMMA QueueKeepsInvariant ==
  ASSUME IInv, NEW r \in Rpcs,
         NEW to, \/ pc[r] = "handler" /\ to = "queued" /\ Measured(r) /\ lock' = lock
                 \/ pc[r] = "queued" /\ to = "running" /\ lock = NoRpc /\ lock' = r,
         pc' = Set(pc, r, to),
         UNCHANGED <<model, call, client, gone, embedding, made, late, cause, reason, calls, wire, status>>
  PROVE  IInv'
<1> USE DEF Set, embedding
<1>1. TypeOK'
  <2>1. pc' \in [Rpcs -> PCs]
    BY DEF IInv, TypeOK, PCs
  <2> QED BY <2>1 DEF IInv, TypeOK
<1>2. RpcInv(r) /\ pc'[r] = to
  BY DEF IInv, TypeOK
<1>3. Frame(r)
  BY <1>2, RpcsTyped DEF IInv, TypeOK, Frame, RpcInv, ControlInv
<1>4. ControlInv(r)' /\ GoneInv(r)'
  BY <1>2, RpcsTyped DEF RpcInv, ControlInv, GoneInv, IsGeneration
<1>5. WireInv(r)' /\ EmbedInv(r)'
  BY <1>2 DEF RpcInv, WireInv, EmbedInv, Measured, Honest
<1> QED BY <1>1, <1>3, <1>4, <1>5, StepKeepsInvariant DEF RpcInv

\* The finish chunk is written to a client that is there, and says what is so.
LEMMA FinishKeepsInvariant ==
  ASSUME IInv, NEW r \in Rpcs, Finish(r)
  PROVE  IInv'
<1> USE DEF Set, embedding
<1> DEFINE finish == finish_chunk(reason[r], calls[r])
<1>1. /\ RpcInv(r) /\ pc[r] = "closing" /\ IsGeneration(r) /\ reason[r] \in Reasons /\ calls[r] \in Nat
      /\ pc' = [pc EXCEPT ![r] = "done"] /\ status' = [status EXCEPT ![r] = "OK"]
      /\ UNCHANGED <<model, call, client, lock, embedding, made, late, cause, reason, calls>>
  BY DEF Finish, IInv, TypeOK, RpcInv, ControlInv
<1>2. pc'[r] = "done" /\ status'[r] = "OK" /\ lock # r
  BY <1>1 DEF IInv, TypeOK, RpcInv, ControlInv
<1>3. finish \in Chunks /\ IsFinish(finish)
  BY <1>1, ChunksTyped
<1>4. ~gone[r] => Honest(reason[r], call[r].kind, calls[r], finish)
  BY <1>1 DEF finish_chunk, Honest, RpcInv, GoneInv, ControlInv, Reasons
<1> HIDE DEF finish
<1>5. /\ wire' \in [Rpcs -> Seq(Chunks)] /\ gone' \in [Rpcs -> BOOLEAN]
      /\ \A s \in Rpcs : s # r => wire'[s] = wire[s] /\ gone'[s] = gone[s]
      /\ \/ wire'[r] = wire[r] /\ gone'[r] /\ client[r] # "here"
         \/ wire'[r] = Append(wire[r], finish) /\ ~gone[r] /\ ~gone'[r]
  <2>1. CASE gone[r]
    BY <1>1, <2>1 DEF Finish, Unfinished, IInv, TypeOK, RpcInv, GoneInv
  <2>2. CASE ~gone[r]
    <3>1. PICK written \in BOOLEAN : Write(r, finish, written)
      BY <2>2 DEF Finish, Unfinished, finish
    <3>2. TypeOK
      BY DEF IInv
    <3> QED BY <1>3, <2>2, <3>1, <3>2, Written
  <2> QED BY <2>1, <2>2
<1>6. TypeOK'
  <2>1. pc' \in [Rpcs -> PCs] /\ status' \in [Rpcs -> Statuses]
    BY <1>1 DEF IInv, TypeOK, PCs, Statuses
  <2> QED BY <1>1, <1>5, <2>1 DEF IInv, TypeOK
<1>7. Frame(r)
  BY <1>1, <1>5 DEF IInv, TypeOK, Frame
<1>8. ControlInv(r)' /\ GoneInv(r)' /\ EmbedInv(r)'
  BY <1>1, <1>2, <1>5 DEF RpcInv, ControlInv, GoneInv, EmbedInv, IsGeneration
<1>9. WireInv(r)'
  <2>1. wire[r] \in Seq(Chunks) /\ Len(wire[r]) \in Nat /\ \A i \in 1..Len(wire[r]) : ~IsFinish(wire[r][i])
    BY <1>1, LenProperties DEF IInv, TypeOK, RpcInv, WireInv
  <2>2. CASE wire'[r] = wire[r] /\ client[r] # "here"
    BY <1>1, <2>1, <2>2 DEF WireInv
  <2>3. CASE wire'[r] = Append(wire[r], finish) /\ ~gone[r]
    <3>1. /\ wire'[r] # <<>> /\ Len(wire'[r]) = Len(wire[r]) + 1 /\ wire'[r][Len(wire[r]) + 1] = finish
          /\ \A i \in 1..Len(wire'[r]) : i # Len(wire[r]) + 1 => i \in 1..Len(wire[r]) /\ wire'[r][i] = wire[r][i]
      BY <1>3, <2>1, <2>3, AppendedChunk
    <3>2. Honest(reason'[r], call'[r].kind, calls'[r], finish)
      BY <1>1, <1>4, <2>3
    <3>3. \A i \in 1..Len(wire'[r]) : IsFinish(wire'[r][i]) => i = Len(wire'[r]) /\ Honest(reason'[r], call'[r].kind, calls'[r], wire'[r][i])
      BY <2>1, <3>1, <3>2
    <3>4. Finished(r)'
      BY <1>3, <2>1, <3>1 DEF Finished
    <3> QED BY <1>2, <3>3, <3>4 DEF WireInv
  <2> QED BY <1>5, <2>2, <2>3
<1> QED BY <1>6, <1>7, <1>8, <1>9, StepKeepsInvariant DEF RpcInv

\* embed() looks at its client between two inputs: it returns, or decodes the next.
LEMMA EmbedInputKeepsInvariant ==
  ASSUME IInv, NEW r \in Rpcs, EmbedInput(r)
  PROVE  IInv'
<1> USE DEF Set
<1> DEFINE of == call[r].of
           k  == Len(vectors[r])
<1>1. /\ RpcInv(r) /\ pc[r] = "running" /\ call[r].kind = "Embed" /\ status[r] = "none" /\ lock = r
      /\ UNCHANGED <<model, call, client, gone, vectors, made, late, cause, reason, calls, wire>>
  BY DEF EmbedInput, IInv, RpcInv, ControlInv
<1>2. of \in Seq(Inputs) /\ Len(of) \in Nat /\ vectors[r] \in Seq(Seq(Inputs)) /\ k \in Nat /\ k <= Len(of)
  BY <1>1, RequestTyped, LenProperties DEF IInv, TypeOK, RpcInv, EmbedInv
<1>3. CASE k = Len(of) \/ client[r] = "cancelled"
  <2>1. /\ pc' = [pc EXCEPT ![r] = "done"] /\ lock' = NoRpc /\ memory' = memory
        /\ status' = [status EXCEPT ![r] = IF k < Len(of) THEN "CANCELLED" ELSE "OK"]
    BY <1>3 DEF EmbedInput, EmbedReturns, Unlock
  <2>2. /\ pc'[r] = "done" /\ lock' # r
        /\ k < Len(of) => status'[r] = "CANCELLED"
        /\ ~(k < Len(of)) => status'[r] = "OK"
    BY <2>1, RpcsTyped DEF IInv, TypeOK
  <2>3. TypeOK'
    <3>1. pc' \in [Rpcs -> PCs] /\ status' \in [Rpcs -> Statuses]
      BY <2>1 DEF IInv, TypeOK, PCs, Statuses
    <3> QED BY <1>1, <2>1, <3>1 DEF IInv, TypeOK
  <2>4. Frame(r)
    BY <1>1, <2>1, RpcsTyped DEF IInv, TypeOK, Frame
  <2>5. ControlInv(r)' /\ GoneInv(r)'
    BY <1>1, <2>1, <2>2 DEF RpcInv, ControlInv, GoneInv
  <2>6. WireInv(r)'
    BY <1>1, <2>1, <2>2 DEF RpcInv, WireInv, IsGeneration
  <2>7. EmbedInv(r)'
    BY <1>1, <1>2, <1>3, <2>1, <2>2 DEF RpcInv, EmbedInv, Measured
  <2> QED BY <2>3, <2>4, <2>5, <2>6, <2>7, StepKeepsInvariant DEF RpcInv
<1>4. CASE ~(k = Len(of) \/ client[r] = "cancelled")
  <2>1. /\ memory' = <<of[k + 1]>> /\ pc' = [pc EXCEPT ![r] = "pooling"] /\ UNCHANGED <<lock, status>>
    BY <1>4 DEF EmbedInput, Decoded
  <2>2. pc'[r] = "pooling" /\ k < Len(of) /\ of[k + 1] \in Inputs
    BY <1>2, <1>4, <2>1, ElementOfSeq DEF IInv, TypeOK
  <2>3. TypeOK'
    <3>1. pc' \in [Rpcs -> PCs]
      BY <2>1 DEF IInv, TypeOK, PCs
    <3>2. memory' \in Seq(Inputs)
      BY <2>1, <2>2
    <3> QED BY <1>1, <2>1, <3>1, <3>2 DEF IInv, TypeOK
  <2>4. Frame(r)
    <3>1. \A s \in Rpcs : s # r => pc[s] # "pooling"
      BY <1>1 DEF IInv, RpcInv, ControlInv
    <3> QED BY <1>1, <2>1, <3>1 DEF IInv, TypeOK, Frame
  <2>5. ControlInv(r)' /\ GoneInv(r)'
    BY <1>1, <2>1, <2>2 DEF RpcInv, ControlInv, GoneInv
  <2>6. WireInv(r)'
    BY <1>1, <2>1, <2>2 DEF RpcInv, WireInv
  <2>7. EmbedInv(r)'
    BY <1>1, <1>2, <2>1, <2>2 DEF RpcInv, EmbedInv, Measured
  <2> QED BY <2>3, <2>4, <2>5, <2>6, <2>7, StepKeepsInvariant DEF RpcInv
<1> QED BY <1>3, <1>4

\* What is read out is the vector of the input that was decoded, and of it alone.
LEMMA EmbedPooledKeepsInvariant ==
  ASSUME IInv, NEW r \in Rpcs, EmbedPooled(r)
  PROVE  IInv'
<1> USE DEF Set
<1> DEFINE of == call[r].of
           k  == Len(vectors[r])
<1>1. /\ RpcInv(r) /\ pc[r] = "pooling" /\ call[r].kind = "Embed" /\ status[r] = "none" /\ lock = r
      /\ vectors' = [vectors EXCEPT ![r] = Append(vectors[r], memory)] /\ pc' = [pc EXCEPT ![r] = "running"]
      /\ UNCHANGED <<model, call, client, gone, lock, memory, made, late, cause, reason, calls, wire, status>>
  BY DEF EmbedPooled, IInv, RpcInv, ControlInv
<1>2. /\ of \in Seq(Inputs) /\ Len(of) \in Nat /\ vectors[r] \in Seq(Seq(Inputs)) /\ k \in Nat /\ k < Len(of)
      /\ memory \in Seq(Inputs) /\ memory = <<of[k + 1]>> /\ pc'[r] = "running"
  BY <1>1, RequestTyped, LenProperties DEF IInv, TypeOK, RpcInv, EmbedInv
<1>3. /\ vectors'[r] = Append(vectors[r], memory) /\ vectors'[r] \in Seq(Seq(Inputs)) /\ Len(vectors'[r]) = k + 1
      /\ \A i \in 1..k : vectors'[r][i] = vectors[r][i]
      /\ vectors'[r][k + 1] = memory
  BY <1>1, <1>2, AppendProperties DEF IInv, TypeOK
<1>4. TypeOK'
  <2>1. pc' \in [Rpcs -> PCs] /\ vectors' \in [Rpcs -> Seq(Seq(Inputs))]
    BY <1>1, <1>3 DEF IInv, TypeOK, PCs
  <2> QED BY <1>1, <2>1 DEF IInv, TypeOK
<1>5. Frame(r)
  BY <1>1 DEF IInv, TypeOK, Frame
<1>6. ControlInv(r)' /\ GoneInv(r)' /\ WireInv(r)'
  BY <1>1, <1>2 DEF RpcInv, ControlInv, GoneInv, WireInv
<1>7. EmbedInv(r)'
  <2>1. \A i \in 1..(k + 1) : vectors'[r][i] = <<of[i]>>
    BY <1>1, <1>2, <1>3 DEF RpcInv, EmbedInv
  <2> QED BY <1>1, <1>2, <1>3, <2>1 DEF RpcInv, EmbedInv, Measured
<1> QED BY <1>4, <1>5, <1>6, <1>7, StepKeepsInvariant DEF RpcInv

\* The handler's refusals, and what the renderer, the tokenizer or the engine throws.
LEMMA FailureKeepsInvariant ==
  ASSUME IInv, NEW r \in Rpcs, Refuse(r) \/ Prepare(r) \/ EngineThrows(r)
  PROVE  IInv'
<1> DEFINE Errors == {"INVALID_ARGUMENT", "FAILED_PRECONDITION", "INTERNAL"}
<1>1. \A class : guarded(class) \in Errors
  BY DEF guarded
<1>2. CASE Refuse(r)
  <2>1. Refusal(r) \in Errors /\ "none" \in Causes
    BY <1>2 DEF Refuse, Refusal, Causes
  <2> QED BY <1>2, <2>1, ErrorKeepsInvariant DEF Refuse
<1>3. ASSUME NEW why \in Causes, Throw(r, why), pc[r] \in {"handler", "running", "pooling"},
             lock' = IF pc[r] \in {"running", "pooling"} THEN NoRpc ELSE lock,
             UNCHANGED <<model, call, client, gone, embedding, made, late, reason, calls, wire>>
      PROVE  IInv'
  BY <1>1, <1>3, ErrorKeepsInvariant DEF Throw
<1>4. CASE EngineThrows(r)
  <2>1. PICK why \in Failures(r) : Throw(r, why)
    BY <1>4 DEF EngineThrows
  <2>2. why \in Causes
    BY DEF Failures, Causes
  <2> QED BY <1>3, <1>4, <2>1, <2>2 DEF EngineThrows, Unlock
<1>5. CASE Prepare(r)
  <2>1. CASE Measured(r) /\ pc' = Set(pc, r, "queued") /\ UNCHANGED <<cause, status>>
    BY <1>5, <2>1, QueueKeepsInvariant DEF Prepare
  <2>2. CASE \E why \in {"request", "internal"} : Throw(r, why)
    BY <1>3, <1>5, <2>2 DEF Prepare, Causes
  <2> QED BY <1>5, <2>1, <2>2 DEF Prepare
<1> QED BY <1>2, <1>4, <1>5

\* A generation makes another token or returns, with or without text on its stream.
LEMMA RunKeepsInvariant ==
  ASSUME IInv, NEW r \in Rpcs, pc[r] = "running", IsGeneration(r), StreamStep(r),
         \/ UNCHANGED <<pc, reason, lock>>
         \/ \E why \in {"Eog", "Length", "Stop"} : Return(r, why)
         \/ Return(r, "Cancelled") /\ gone'[r],
         made' \in [Rpcs -> Nat], late' \in [Rpcs -> Nat],
         UNCHANGED <<model, call, client, embedding, cause, calls, status>>
  PROVE  IInv'
<1>1. /\ calls[r] \in Nat /\ calls' = Set(calls, r, calls[r])
      /\ calls[r] > 0 => call[r].kind = "Chat"
      /\ reason[r] \in Reasons
      /\ reason[r] = "Cancelled" => gone'[r]
  BY DEF IInv, TypeOK, RpcInv, ControlInv, GoneInv, StreamStep, Set
<1>2. CASE UNCHANGED <<pc, reason, lock>>
  <2>1. pc' = Set(pc, r, "running") /\ reason' = Set(reason, r, reason[r])
    BY <1>2 DEF IInv, TypeOK, Set
  <2> QED BY <1>1, <1>2, <2>1, StreamKeepsInvariant
<1>3. ASSUME NEW why \in Reasons, why = "Cancelled" => gone'[r], Return(r, why)
      PROVE  IInv'
  BY <1>1, <1>3, StreamKeepsInvariant DEF Return, Unlock
<1> QED BY <1>2, <1>3 DEF Reasons

\* Tokens, text or none, and the end of a generation.
LEMMA GenerationKeepsInvariant ==
  ASSUME IInv, NEW r \in Rpcs, TokenHeld(r) \/ TokenDelivered(r) \/ GenerationEnds(r)
  PROVE  IInv'
<1>1. TypeOK /\ \A visible \in Visibilities(r) : visible \in BOOLEAN
  BY DEF IInv, Visibilities
<1>2. TokenHeld(r) \/ TokenDelivered(r) => made' \in [Rpcs -> Nat] /\ late' \in [Rpcs -> Nat]
  <2>1. made \in [Rpcs -> Nat] /\ late \in [Rpcs -> Nat] /\ made[r] + 1 \in Nat /\ late[r] + 1 \in Nat
    BY <1>1 DEF TypeOK
  <2>2. ASSUME TokenHeld(r) \/ TokenDelivered(r)
        PROVE  /\ made' = [made EXCEPT ![r] = made[r] + 1]
               /\ late' \in {late, [late EXCEPT ![r] = late[r] + 1]}
    BY <2>2 DEF TokenHeld, TokenDelivered, Set
  <2> QED BY <2>1, <2>2
<1>3. CASE TokenHeld(r)
  BY <1>1, <1>2, <1>3, Untouched, RunKeepsInvariant DEF TokenHeld
<1>4. CASE TokenDelivered(r)
  <2>1. PICK visible \in Visibilities(r), accepted \in BOOLEAN :
          /\ on_chunk(r, visible, accepted)
          /\ \/ ~accepted /\ Return(r, "Cancelled")
             \/ accepted /\ Return(r, "Stop")
             \/ accepted /\ UNCHANGED <<pc, reason, lock>>
    BY <1>4 DEF TokenDelivered
  <2>2. StreamStep(r) /\ (~accepted => gone'[r])
    BY <1>1, <2>1, Delivered
  <2> QED BY <1>2, <1>4, <2>1, <2>2, RunKeepsInvariant DEF TokenDelivered
<1>5. CASE GenerationEnds(r)
  <2>1. StreamStep(r)
    BY <1>1, <1>5, Delivered, Untouched DEF GenerationEnds
  <2>2. made' \in [Rpcs -> Nat] /\ late' \in [Rpcs -> Nat]
    BY <1>1, <1>5 DEF GenerationEnds, TypeOK
  <2> QED BY <1>5, <2>1, <2>2, RunKeepsInvariant DEF GenerationEnds
<1> QED BY <1>3, <1>4, <1>5

\* After generate(): the client is looked at once more, and a chat is parsed to its end.
LEMMA CloseKeepsInvariant ==
  ASSUME IInv, NEW r \in Rpcs, Close(r)
  PROVE  IInv'
<1>1. /\ TypeOK /\ RpcInv(r) /\ pc[r] = "returned" /\ IsGeneration(r) /\ pc' = Set(pc, r, "closing")
      /\ UNCHANGED <<model, call, client, lock, embedding, made, late, cause, reason, status>>
      /\ reason' = Set(reason, r, reason[r]) /\ reason[r] \in Reasons
      /\ made' \in [Rpcs -> Nat] /\ late' \in [Rpcs -> Nat]
  BY DEF Close, IInv, TypeOK, RpcInv, ControlInv, Set
<1>2. StreamStep(r) /\ \E n \in Nat : calls' = Set(calls, r, n) /\ (n > 0 => call[r].kind = "Chat")
  <2>1. UNCHANGED calls => \E n \in Nat : calls' = Set(calls, r, n) /\ (n > 0 => call[r].kind = "Chat")
    <3>1. calls[r] \in Nat /\ Set(calls, r, calls[r]) = calls /\ (calls[r] > 0 => call[r].kind = "Chat")
      BY <1>1 DEF TypeOK, RpcInv, ControlInv, Set
    <3> QED BY <3>1
  <2>2. CASE gone[r] \/ client[r] = "cancelled"
    <3>1. gone' = Set(gone, r, TRUE) /\ UNCHANGED <<calls, wire>>
      BY <2>2 DEF Close
    <3>2. StreamStep(r)
      BY <1>1, <2>2, <3>1 DEF StreamStep, TypeOK, Set
    <3> QED BY <2>1, <3>1, <3>2
  <2>3. CASE ~(gone[r] \/ client[r] = "cancelled") /\ call[r].kind = "Chat"
    <3>1. /\ \E n \in 0..MaxCalls : calls' = Set(calls, r, n)
          /\ (\E written \in BOOLEAN : Write(r, Text, written)) \/ UNCHANGED <<wire, gone>>
      BY <2>3 DEF Close
    <3>2. \E n \in Nat : calls' = Set(calls, r, n)
      BY <3>1, BoundsTyped
    <3>3. CASE \E written \in BOOLEAN : Write(r, Text, written)
      BY <1>1, <2>3, <3>2, <3>3, Written, ChunksTyped DEF StreamStep
    <3> QED BY <1>1, <2>3, <3>1, <3>2, <3>3, Untouched
  <2>4. CASE ~(gone[r] \/ client[r] = "cancelled") /\ call[r].kind # "Chat"
    BY <1>1, <2>1, <2>4, Untouched DEF Close
  <2> QED BY <2>2, <2>3, <2>4
<1>3. reason[r] = "Cancelled" => gone'[r]
  BY <1>1, <1>2 DEF RpcInv, GoneInv, StreamStep
<1> QED BY <1>1, <1>2, <1>3, StreamKeepsInvariant

\* The invariant is inductive: no step of any call or client breaks it.
LEMMA NextKeepsInvariant == IInv /\ [Next]_vars => IInv'
<1> SUFFICES ASSUME IInv, [Next]_vars PROVE IInv'
  OBVIOUS
<1>1. CASE UNCHANGED vars
  <2>1. TypeOK'
    BY <1>1 DEF vars, IInv, TypeOK
  <2>2. \A r \in Rpcs : ControlInv(r)' /\ GoneInv(r)'
    BY <1>1 DEF vars, IInv, RpcInv, ControlInv, GoneInv, IsGeneration
  <2>3. \A r \in Rpcs : WireInv(r)'
    BY <1>1 DEF vars, IInv, RpcInv, WireInv, IsGeneration, Finished
  <2>4. \A r \in Rpcs : EmbedInv(r)'
    BY <1>1 DEF vars, IInv, RpcInv, EmbedInv, Measured
  <2> QED BY <2>1, <2>2, <2>3, <2>4 DEF IInv, RpcInv
<1>2. ASSUME NEW r \in Rpcs, Arrive(r) \/ Vanish(r) PROVE IInv'
  BY <1>2, ArriveKeepsInvariant, VanishKeepsInvariant
<1>3. ASSUME NEW r \in Rpcs, Acquire(r) PROVE IInv'
  BY <1>3, QueueKeepsInvariant DEF Acquire
<1>4. ASSUME NEW r \in Rpcs, Refuse(r) \/ Prepare(r) \/ EngineThrows(r) PROVE IInv'
  BY <1>4, FailureKeepsInvariant
<1>5. ASSUME NEW r \in Rpcs, TokenHeld(r) \/ TokenDelivered(r) \/ GenerationEnds(r) PROVE IInv'
  BY <1>5, GenerationKeepsInvariant
<1>6. ASSUME NEW r \in Rpcs, Close(r) \/ Finish(r) PROVE IInv'
  BY <1>6, CloseKeepsInvariant, FinishKeepsInvariant
<1>7. ASSUME NEW r \in Rpcs, EmbedInput(r) \/ EmbedPooled(r) PROVE IInv'
  BY <1>7, EmbedInputKeepsInvariant, EmbedPooledKeepsInvariant
<1> QED BY <1>1, <1>2, <1>3, <1>4, <1>5, <1>6, <1>7 DEF Next, Quiet, Handle

\* The inductive invariant holds throughout, however the calls and their clients
\* interleave.
THEOREM Invariance == Spec => []IInv
BY InitEstablishes, NextKeepsInvariant, PTL DEF Spec

-----------------------------------------------------------------------------
(* What the handlers guarantee *)

\* Every stream has the shape that the protocol promises.
THEOREM StreamsAreShaped == Spec => []StreamShape
<1>1. IInv => StreamShape
  <2> SUFFICES ASSUME IInv, NEW r \in Rpcs
               PROVE  /\ \A i \in 1..Len(wire[r]) : IsFinish(wire[r][i]) => i = Len(wire[r])
                      /\ pc[r] = "done" /\ IsGeneration(r) =>
                           /\ status[r] = "OK" /\ client[r] = "here" => Finished(r)
                           /\ status[r] # "OK" => ~Finished(r)
    BY DEF StreamShape
  <2>1. WireInv(r) /\ wire[r] \in Seq(Chunks)
    BY DEF IInv, RpcInv, TypeOK
  <2>2. Finished(r) => Len(wire[r]) \in 1..Len(wire[r])
    BY <2>1, EmptySeq, LenProperties DEF Finished
  <2> QED BY <2>1, <2>2 DEF WireInv, Finished
<1> QED BY <1>1, Invariance, PTL

\* Every finish chunk has the calls of a reply that ran to its end, or none, and the
\* reason that goes with them.
THEOREM FinishesAreHonest == Spec => []FinishIsHonest
<1>1. IInv => FinishIsHonest
  <2> SUFFICES ASSUME IInv, NEW r \in Rpcs, Finished(r)
               PROVE  Honest(reason[r], call[r].kind, calls[r], wire[r][Len(wire[r])])
    BY DEF FinishIsHonest, Honest
  <2>1. WireInv(r) /\ wire[r] \in Seq(Chunks)
    BY DEF IInv, RpcInv, TypeOK
  <2>2. Len(wire[r]) \in 1..Len(wire[r])
    BY <2>1, EmptySeq, LenProperties DEF Finished
  <2> QED BY <2>1, <2>2 DEF WireInv, Finished
<1> QED BY <1>1, Invariance, PTL

\* A stream whose run was cancelled ends without a finish chunk.
CancelIsSilent == \A r \in Rpcs : reason[r] = "Cancelled" => ~Finished(r)

\* The reason CANCELLED is on no wire (stream_generation, src/src/service.cpp): the engine
\* only reports a cancel after client_gone was set.
THEOREM CancelsAreSilent == Spec => []CancelIsSilent
<1>1. IInv => CancelIsSilent
  <2> SUFFICES ASSUME IInv, NEW r \in Rpcs, Finished(r) PROVE reason[r] # "Cancelled"
    BY DEF CancelIsSilent
  <2>1. WireInv(r) /\ wire[r] \in Seq(Chunks)
    BY DEF IInv, RpcInv, TypeOK
  <2>2. Len(wire[r]) \in 1..Len(wire[r])
    BY <2>1, EmptySeq, LenProperties DEF Finished
  <2> QED BY <2>1, <2>2 DEF WireInv, Finished, Honest
<1> QED BY <1>1, Invariance, PTL

\* Embed answers OK with the vector of every input, each of that input alone, and
\* CANCELLED only to a client that cancelled.
THEOREM EmbedsAreWhole == Spec => []EmbedIsWhole
<1>1. IInv => EmbedIsWhole
  <2> SUFFICES ASSUME IInv, NEW r \in Rpcs, call[r].kind = "Embed"
               PROVE  /\ status[r] = "OK" => vectors[r] = [i \in DOMAIN call[r].of |-> <<call[r].of[i]>>]
                      /\ status[r] = "CANCELLED" => client[r] = "cancelled"
    BY DEF EmbedIsWhole
  <2>1. EmbedInv(r) /\ call[r].of \in Seq(Inputs) /\ vectors[r] \in Seq(Seq(Inputs))
    BY RequestTyped DEF IInv, RpcInv, TypeOK
  <2>2. /\ DOMAIN call[r].of = 1..Len(call[r].of)
        /\ vectors[r] \in [1..Len(vectors[r]) -> Seq(Inputs)]
    BY <2>1, LenProperties
  <2>3. ASSUME status[r] = "OK" PROVE vectors[r] = [i \in DOMAIN call[r].of |-> <<call[r].of[i]>>]
    <3>1. Len(vectors[r]) = Len(call[r].of) /\ \A i \in 1..Len(vectors[r]) : vectors[r][i] = <<call[r].of[i]>>
      BY <2>1, <2>3 DEF EmbedInv
    <3> QED BY <2>2, <3>1
  <2> QED BY <2>1, <2>3 DEF EmbedInv
<1> QED BY <1>1, Invariance, PTL

\* A request with an input that cannot be embedded decodes none of them.
THEOREM NothingIsPaidFor == Spec => []EmbedPaysForNothing
<1>1. IInv => EmbedPaysForNothing
  <2> SUFFICES ASSUME IInv, NEW r \in Rpcs, call[r].kind = "Embed",
                      \E i \in DOMAIN call[r].of : Length[call[r].of[i]] \notin 1..max_embed_tokens
               PROVE  vectors[r] = <<>> /\ lock # r /\ status[r] # "OK"
    BY DEF EmbedPaysForNothing
  <2>1. ~Measured(r)
    BY DEF Measured
  <2> QED BY <2>1 DEF IInv, RpcInv, EmbedInv, ControlInv
<1> QED BY <1>1, Invariance, PTL
=============================================================================
