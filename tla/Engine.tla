------------------------------- MODULE Engine -------------------------------
(***************************************************************************)
(* Engine::generate on a generative model (src/src/engine.cpp): concurrent *)
(* callers serialized by context_mutex, one KV cache that outlives every   *)
(* call, and the record `cached` of what that cache holds.                 *)
(*                                                                         *)
(* llama.cpp's memory is external.  It is modelled by what the engine uses *)
(* it for: `kv` is the token sequence the state of sequence 0 was computed *)
(* from, and `kvMin` is llama_memory_seq_pos_min, the lowest position whose*)
(* cell is still there.  A memory with a sliding window lets cells behind  *)
(* the window go; a recurrent one also cannot drop part of a sequence.     *)
(***************************************************************************)
EXTENDS Integers, SequencesExt

CONSTANTS
  Callers,    \* threads inside generate(), one per Generate or Chat RPC
  NoCaller,   \* context_mutex is free
  Token,      \* the vocabulary
  Eog,        \* the end-of-generation tokens, never decoded
  Prompts,    \* what tokenize() may return for a caller's prompt
  Budgets,    \* SamplingParams::max_tokens; negative is "until the context is full"
  n_ctx_seq,  \* capacity of a sequence, in tokens
  n_batch,    \* largest batch llama_decode accepts
  Window,     \* cells behind the last position the memory always keeps
  CanTrim     \* llama_memory_seq_rm can drop part of a sequence

\* The constructor throws on a zero context or batch size (engine.cpp:900).
ASSUME SizesAreNonzero == n_ctx_seq \in Nat \ {0} /\ n_batch \in Nat \ {0}
ASSUME MemoryIsSome    == Window \in Nat \ {0} /\ CanTrim \in BOOLEAN
ASSUME VocabularyTyped == Eog \subseteq Token /\ Prompts \subseteq Seq(Token)
ASSUME CallersTyped    == Prompts # {} /\ Budgets # {} /\ Budgets \subseteq Int /\ NoCaller \notin Callers

VARIABLES
  lock,       \* context_mutex: its holder, or NoCaller
  cached,     \* Impl::cached, the record of the KV cache
  kv,         \* the tokens the memory's state was computed from
  kvMin,      \* lowest position the memory still holds
  pc,         \* where each caller is in generate()
  req,        \* each caller's latest request
  off,        \* the running call's prompt loop: tokens already in the cache
  kept,       \* the running call's stats.cached_prompt_tokens
  said,       \* the running call's non-EOG tokens: completion_tokens is its length
  result      \* each caller's latest outcome

memory == <<kv, kvMin, cached>>
vars   == <<lock, cached, kv, kvMin, pc, req, off, kept, said, result>>

Request == [tokens: Prompts, max_tokens: Budgets, grammar_ok: BOOLEAN]
Reasons == {"Eog", "Length", "Stop", "Cancelled"}
Outcomes == Reasons \cup {"none", "error"}

PCs    == {"idle", "waiting", "admit", "prompt", "sample", "extend"}
Inside == {"admit", "prompt", "sample", "extend"}

Init ==
  /\ lock = NoCaller
  /\ cached = <<>> /\ kv = <<>> /\ kvMin = 0
  /\ pc = [c \in Callers |-> "idle"]
  /\ req = [c \in Callers |-> CHOOSE r \in Request : TRUE]   \* no call yet
  /\ off = 0 /\ kept = 0
  /\ said = <<>>
  /\ result = [c \in Callers |-> "none"]

-----------------------------------------------------------------------------
(* The prompt cache *)

\* How many leading tokens of p a cache holding c is good for: the loop's exit
\* condition, the common prefix stopping one short of the whole prompt.
reusable_prefix(c, p) ==
  IF p = <<>> THEN 0
  ELSE LET limit == IF Len(c) < Len(p) - 1 THEN Len(c) ELSE Len(p) - 1
       IN  CHOOSE n \in 0..limit :
             /\ \A i \in 1..n : c[i] = p[i]
             /\ n = limit \/ c[n + 1] # p[n + 1]

\* Seeded fault: the sequence is emptied but its positions are not started over.
clear_cache_keeping_positions == kv' = <<>> /\ cached' = <<>> /\ UNCHANGED kvMin

clear_cache ==
  /\ kv' = <<>> /\ kvMin' = 0
  /\ cached' = <<>>

\* External: dropping the positions from keep on.
SeqRmSucceeds(keep) == CanTrim \/ keep = Len(kv)

\* External: the cells a memory may let go once it holds s.
MayForget(s) == {kvMin} \cup {m \in kvMin..Len(s) : m + Window <= Len(s)}

\* Seeded fault: the memory's lowest position is never asked for.
keep_prefix_any_window(p, keep) ==
  LET shared == reusable_prefix(cached, p)
      usable == shared # 0 /\ SeqRmSucceeds(shared)
  IN \/ /\ usable /\ keep = shared
        /\ kv' = SubSeq(kv, 1, shared) /\ cached' = SubSeq(cached, 1, shared)
        /\ kvMin' = IF kvMin < shared THEN kvMin ELSE shared
     \/ ~usable /\ keep = 0 /\ clear_cache

\* Seeded fault: a refused llama_memory_seq_rm is taken for a success.
keep_prefix_ignoring_refusal(p, keep) ==
  LET shared == reusable_prefix(cached, p)
      usable == shared # 0 /\ kvMin = 0
  IN \/ /\ usable /\ keep = shared
        /\ kv' = (IF SeqRmSucceeds(shared) THEN SubSeq(kv, 1, shared) ELSE kv)
        /\ cached' = SubSeq(cached, 1, shared)
        /\ UNCHANGED kvMin
     \/ ~usable /\ keep = 0 /\ clear_cache

\* keep_prefix: what it does to the cache for prompt p, and the length it returns.
keep_prefix(p, keep) ==
  LET shared == reusable_prefix(cached, p)
      usable == shared # 0 /\ SeqRmSucceeds(shared) /\ kvMin = 0
  IN \/ /\ usable
        /\ keep = shared
        /\ kv' = SubSeq(kv, 1, shared)
        /\ cached' = SubSeq(cached, 1, shared)
        /\ UNCHANGED kvMin
     \/ /\ ~usable
        /\ keep = 0
        /\ clear_cache

\* Seeded fault: decode() does not record what it decoded.
DecodeOk_unrecorded(batch) ==
  /\ Len(kv) + Len(batch) <= n_ctx_seq
  /\ kv' = kv \o batch
  /\ kvMin' \in MayForget(kv \o batch)
  /\ UNCHANGED cached

\* decode, llama_decode having returned 0.
DecodeOk(batch) ==
  /\ Len(kv) + Len(batch) <= n_ctx_seq
  /\ kv' = kv \o batch
  /\ kvMin' \in MayForget(kv \o batch)
  /\ cached' = cached \o batch

\* Seeded fault: a failed decode leaves the memory and the record as they are.
DecodeFails_uncleared(batch) ==
  /\ \E n \in 0..Len(batch) : kv' = kv \o SubSeq(batch, 1, n)
  /\ UNCHANGED <<kvMin, cached>>

\* decode, llama_decode having failed or thrown: whatever part of the batch it
\* left in the memory goes with everything else.
DecodeFails(batch) == clear_cache

-----------------------------------------------------------------------------
(* generate() *)

\* Seeded fault: an early throw without RAII keeps the mutex.
Leave_locked(c, outcome) ==
  /\ lock' = IF outcome = "error" THEN lock ELSE NoCaller
  /\ pc' = [pc EXCEPT ![c] = IF outcome = "error" THEN @ ELSE "idle"]
  /\ result' = [result EXCEPT ![c] = outcome]

\* RAII: the mutex is released on every way out, exceptions included.
Leave(c, outcome) ==
  /\ lock' = NoCaller
  /\ pc' = [pc EXCEPT ![c] = "idle"]
  /\ result' = [result EXCEPT ![c] = outcome]

Goto(c, from, to) == pc[c] = from /\ pc' = [pc EXCEPT ![c] = to]

\* A caller enters generate() and waits for the mutex.
Call(c) ==
  /\ Goto(c, "idle", "waiting")
  /\ \E r \in Request : req' = [req EXCEPT ![c] = r]
  /\ result' = [result EXCEPT ![c] = "none"]
  /\ UNCHANGED <<lock, memory, off, kept, said>>

\* Seeded fault: generate() does not lock.
Lock_absent(c) ==
  /\ Goto(c, "waiting", "admit")
  /\ lock' = c
  /\ off' = 0 /\ kept' = 0 /\ said' = <<>>
  /\ UNCHANGED <<memory, req, result>>

Lock(c) ==
  /\ lock = NoCaller
  /\ Goto(c, "waiting", "admit")
  /\ lock' = c
  /\ off' = 0 /\ kept' = 0 /\ said' = <<>>
  /\ UNCHANGED <<memory, req, result>>

\* Nothing before keep_prefix touches the cache, so these checks can still refuse.
Admissible(r) == Len(r.tokens) \in 1..(n_ctx_seq - 1) /\ r.grammar_ok

Refuse(c) ==
  /\ pc[c] = "admit" /\ ~Admissible(req[c])
  /\ Leave(c, "error")
  /\ UNCHANGED <<memory, req, off, kept, said>>

KeepPrefix(c) ==
  /\ Goto(c, "admit", "prompt") /\ Admissible(req[c])
  /\ \E keep \in 0..Len(req[c].tokens) :
       keep_prefix(req[c].tokens, keep) /\ off' = keep /\ kept' = keep
  /\ UNCHANGED <<lock, req, said, result>>

\* Where the next prompt chunk ends.
ChunkEnd(c) ==
  LET left == Len(req[c].tokens) - off
  IN  off + (IF n_batch < left THEN n_batch ELSE left)

PromptChunk(c) == SubSeq(req[c].tokens, off + 1, ChunkEnd(c))

DecodePrompt(c) ==
  /\ Goto(c, "prompt", IF ChunkEnd(c) = Len(req[c].tokens) THEN "sample" ELSE "prompt")
  /\ DecodeOk(PromptChunk(c))
  /\ off' = ChunkEnd(c)
  /\ UNCHANGED <<lock, req, kept, said, result>>

PromptFails(c) ==
  /\ pc[c] = "prompt"
  /\ DecodeFails(PromptChunk(c))
  /\ Leave(c, "error")
  /\ UNCHANGED <<req, off, kept, said>>

\* Seeded fault: the budget is off by one.
Spent_late(c, n) == req[c].max_tokens >= 0 /\ n > req[c].max_tokens

Spent(c, n) == req[c].max_tokens >= 0 /\ n >= req[c].max_tokens

\* The check at the top of the loop: a budget of zero ends before any sampling.
BudgetSpent(c) ==
  /\ pc[c] = "sample" /\ Spent(c, Len(said))
  /\ Leave(c, "Length")
  /\ UNCHANGED <<memory, req, off, kept, said>>

SampleEog(c) ==
  /\ pc[c] = "sample" /\ ~Spent(c, Len(said))
  /\ Eog # {}
  /\ Leave(c, "Eog")
  /\ UNCHANGED <<memory, req, off, kept, said>>

\* Seeded fault: the room check is off by one.
AfterPush_early(c, status) ==
  IF status \in {"Stop", "Cancelled"} THEN status
  ELSE IF Spent(c, Len(said) + 1) \/ Len(cached) + 1 >= n_ctx_seq THEN "Length"
  ELSE "continue"

\* Seeded fault: nothing checks for room.
AfterPush_roomless(c, status) ==
  IF status \in {"Stop", "Cancelled"} THEN status
  ELSE IF Spent(c, Len(said) + 1) THEN "Length"
  ELSE "continue"

\* How the loop goes on after a pushed token: status is the filter's answer.
AfterPush(c, status) ==
  IF status \in {"Stop", "Cancelled"} THEN status
  ELSE IF Spent(c, Len(said) + 1) \/ Len(cached) + 1 > n_ctx_seq THEN "Length"
  ELSE "continue"

SampleToken(c) ==
  /\ pc[c] = "sample" /\ ~Spent(c, Len(said))
  /\ \E t \in Token \ Eog : said' = Append(said, t)
  /\ \E status \in {"Continue", "Stop", "Cancelled"} :
       LET next == AfterPush(c, status)
       IN IF next = "continue"
            THEN Goto(c, "sample", "extend") /\ UNCHANGED <<lock, result>>
            ELSE Leave(c, next)
  /\ UNCHANGED <<memory, req, off, kept>>

\* The sampler, token_to_piece or the callback (flush included) throws.
GenerationThrows(c) ==
  /\ pc[c] = "sample"
  /\ Leave(c, "error")
  /\ UNCHANGED <<memory, req, off, kept, said>>

\* The sampled token is decoded only if the loop goes on from it.
DecodeToken(c) ==
  /\ Goto(c, "extend", "sample")
  /\ DecodeOk(<<Last(said)>>)
  /\ UNCHANGED <<lock, req, off, kept, said, result>>

\* A positive code is "no KV slot" and ends the run; any other failure throws.
DecodeTokenFails(c) ==
  /\ pc[c] = "extend"
  /\ DecodeFails(<<Last(said)>>)
  /\ \E outcome \in {"Length", "error"} : Leave(c, outcome)
  /\ UNCHANGED <<req, off, kept, said>>

Run(c) ==
  \/ Refuse(c) \/ KeepPrefix(c)
  \/ DecodePrompt(c) \/ PromptFails(c)
  \/ BudgetSpent(c) \/ SampleEog(c) \/ SampleToken(c) \/ GenerationThrows(c)
  \/ DecodeToken(c) \/ DecodeTokenFails(c)

Next == \E c \in Callers : Call(c) \/ Lock(c) \/ Run(c)

\* A thread that holds the mutex keeps running; nothing makes a caller call.
Fairness == \A c \in Callers : WF_vars(Lock(c)) /\ WF_vars(Run(c))

Spec == Init /\ [][Next]_vars
FairSpec == Spec /\ Fairness

-----------------------------------------------------------------------------
(* Properties *)

\* Every variable has its type, and the memory's window lies inside what it holds.
TypeOK ==
  /\ lock \in Callers \cup {NoCaller}
  /\ cached \in Seq(Token) /\ kv \in Seq(Token)
  /\ kvMin \in 0..Len(kv)
  /\ pc \in [Callers -> PCs]
  /\ req \in [Callers -> Request]
  /\ off \in Nat /\ kept \in Nat
  /\ said \in Seq(Token)
  /\ result \in [Callers -> Outcomes]

\* "a record that disagrees with the cache would silently corrupt it": `cached`
\* is what the memory holds at every step, whatever failed, threw or refused.
RecordMatchesMemory == cached = kv

\* A memory that has let cells go can still answer for a token at the end of s.
WindowIntact == kvMin = 0 \/ kvMin + Window <= Len(kv)

\* The heart of the prompt cache: whenever generate() samples, the memory was
\* computed from exactly this request's prompt and this request's own tokens,
\* no matter which requests ran, failed or were cancelled before it, and every
\* cell attention looks at is there.
ContextIsRequest ==
  \A c \in Callers :
    pc[c] = "sample" => kv = req[c].tokens \o said /\ WindowIntact

\* No llama_decode is issued that the engine could have known to fail: a prompt
\* chunk is neither empty nor larger than n_batch, and there is room for it and
\* for every token the loop decided to go on from.
DecodeFits ==
  \A c \in Callers :
    /\ pc[c] = "prompt" => /\ Len(PromptChunk(c)) \in 1..n_batch
                           /\ Len(kv) + Len(PromptChunk(c)) < n_ctx_seq
    /\ pc[c] = "extend" => Len(kv) < n_ctx_seq

\* keep_prefix keeps the longest prefix the cache shares with the prompt less
\* its last token, which must be decoded again for its logits; or nothing, and
\* then only if nothing is shared, the memory refused the trim or had let
\* position 0 go.
KeptIsLongest ==
  [][\A c \in Callers :
       pc[c] = "admit" /\ pc'[c] = "prompt" =>
         LET shared == Len(LongestCommonPrefix({cached, Front(req[c].tokens)}))
         IN  kept' = IF kvMin = 0 /\ (CanTrim \/ shared = Len(cached)) THEN shared ELSE 0
    ]_vars

\* A run that ends without a failed decode leaves the transcript in the cache,
\* all of it but a token that ended the run, for the conversation's next turn.
ReturnKeepsTranscript ==
  [][\A c \in Callers :
       pc[c] = "sample" /\ pc'[c] = "idle" =>
         cached' = req[c].tokens \o (IF said' = said THEN said ELSE Front(said'))
    ]_vars

\* Every exit that reports FinishReason::Length: the caller's budget was used
\* exactly, the last slot of the context is taken, or llama_decode had no slot for
\* the token the loop went on from ("full for practical purposes"). Only this last
\* ends a run early, with room in the count and budget left, and the whole
\* transcript is then gone from the cache.
LengthIsHonest ==
  [][\A c \in Callers :
       pc[c] \in Inside /\ pc'[c] = "idle" /\ result'[c] = "Length" =>
         \/ pc[c] = "sample" /\ Len(said') = req[c].max_tokens
         \/ pc[c] = "sample" /\ Len(kv) = n_ctx_seq
         \/ /\ pc[c] = "extend"
            /\ Len(kv) < n_ctx_seq /\ Len(said') # req[c].max_tokens
            /\ cached' = <<>>
    ]_vars

\* No budget is overrun, not even by the token that ends the run.
BudgetKept ==
  [][\A c \in Callers :
       pc[c] = "sample" /\ req[c].max_tokens >= 0 => Len(said') <= req[c].max_tokens
    ]_vars

\* The mutex is never kept: whoever is inside generate() leaves it, even with no
\* budget and a model that never ends its turn.
EveryRunReturns ==
  \A c \in Callers : (pc[c] \in Inside) ~> (pc[c] = "idle")

\* How far a call at p is, to someone who cannot see the cache.
PhaseOf(p) ==
  CASE p = "idle"                 -> "idle"
    [] p = "waiting"              -> "queued"
    [] p \in {"admit", "prompt"}  -> "starting"
    [] p \in {"sample", "extend"} -> "active"

phases == [c \in Callers |-> PhaseOf(pc[c])]
asked  == [c \in Callers |-> req[c].tokens]

\* What the running call's next token is predicted from, a token that is about to be
\* decoded included.
conditioned_on ==
  IF lock = NoCaller THEN <<>>
  ELSE CASE pc[lock] = "sample" -> kv
         [] pc[lock] = "extend" -> Append(kv, Last(said))
         [] OTHER               -> <<>>

\* The cache is unobservable: every behaviour of the engine is one of an engine
\* that keeps nothing between requests and serves them one at a time.
Stateless == INSTANCE StatelessEngine WITH
  phase <- phases, ask <- asked, context <- conditioned_on, reply <- said

StatelessSpec == Stateless!Spec

=============================================================================
