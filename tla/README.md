# llamad in TLA+

llamad is a daemon that loads one GGUF model through llama.cpp and serves it over gRPC on a Unix
socket. This directory holds a specification of the parts of it that are hard to test: what the
prompt cache, the sampler, the stream filter, the chat layer, the RPC handlers, the start-up and the
daemon do when threads interleave, decodes fail, clients disappear and processes are killed.

Paths below are relative to the repository (`src/engine.cpp`, `docs/protocol.md`, ...).

## 1. Inventory

| Component | State | Operations | What makes it correct |
|---|---|---|---|
| Engine, `src/engine.cpp` (`generate`, `Impl`) | `context_mutex`, the KV cache, `cached` (its record) | lock, refuse, `keep_prefix`, prompt decode, sample, decode, fail, throw | the record never disagrees with the cache; a reply depends on its own request only; limits are exact; the mutex is always released |
| StreamFilter, `src/engine.cpp` | `pending_` | `push`, `flush` | no byte lost, no stop string missed or leaked, no character split |
| ChatFormat::Stream, `src/chat_format.cpp` | `accumulated`, `parsed`, `emitted` | `push`, `finish` | what was streamed is what the final parse says; nothing dropped on rejection; calls all or none |
| ChatFormat::render, `src/chat_format.cpp`, and `from_proto`, `src/wire.cpp` | none that outlives a call | refuse, instruct, set thinking, split the triggers | a schema or tools that were asked for bind the reply, or the request is refused |
| SamplerChain and `resolve`, `src/engine.cpp` | `chain_`, `grammar_`, the resolved triggers | construct, `sample`, throw, free | every reply satisfies its grammar; the short cuts change no outcome; nothing leaks |
| LlamaService, `src/service.cpp`, `src/wire.cpp` | per call: `client_gone`, the result, the chunks written | Generate, Chat, Embed, `on_chunk`, finish, `guarded` | the stream shape of the protocol, the status of an error, every call answered |
| `Engine::embed`, `src/engine.cpp` | the memory, the vectors so far | measure, lock, decode, pool | a vector is of its own input; a request that cannot succeed costs nothing |
| Command line and engine constructor, `src/main.cpp`, `src/flags.h`, `src/engine_flags.h`, `src/engine.cpp` | the options, the config, the model and its context | read a flag, select devices, load, create contexts, warm up, destroy | the engine gets what the line says; the context fits the model; nothing outlives a failure |
| Daemon, `src/main.cpp` | what is at the socket path, the listener, pending signals | mask, `prepare_socket_path`, load, bind, shutdown, wait, remove | who can connect can generate; a crash is recovered from; nothing of others is removed |
| Other conversions, logging, device table | none | | see "Not modelled" |

The parts interact by plain calls. gRPC runs each handler on a thread of its own; a handler calls
`Engine::generate`, which takes the mutex, and the engine calls the handler back (`on_chunk`)
through a StreamFilter while it holds the mutex; for Chat, `on_chunk` pushes the text through a
ChatFormat::Stream. The client acts on the handler at any time by cancelling, by its deadline or by
closing the connection. `main` waits for the handlers before it tears the engine down.

What is hard here, and where it bites, is listed under `hazards` in `PROJECT.json`.

## 2. Modules

| Module | Models | State and actions |
|---|---|---|
| `Engine` | `Engine::generate` | `lock`, `cached`, `kv`/`kvMin` (llama.cpp's memory), one program counter and request per caller; one action per step between two points where another thread, the memory or the model can decide something |
| `StatelessEngine` | the promise in `engine.h` and `llamad.proto` ("Stateless. Every request carries all it means") | no cache: a run starts from its prompt; `Engine` implements it |
| `StreamFilter` | `StreamFilter`, `incomplete_utf8_tail`, `stop_prefix_holdback` | `pending` and, as history, all text generated and all text sent |
| `ChatStream` | `ChatFormat::Stream` | `accumulated`, `parsed`, `emitted` and, as history, what the caller was given |
| `Pipeline` | `on_chunk` of a chat, between the two | instances of `StreamFilter` and `ChatStream`; each step of the filter calls back into the stream in the same step, as the code does |
| `Sampler` | `SamplerChain`, `Impl::resolve` | the life of one sampler: `chain`, `grammar`, `resolved`, the logits it draws from, and as history the tokens drawn and the text they spell. It has no specification of its own: it says what happens to a request once it has been made |
| `ChatTurn` | `from_proto`, `ChatFormat::render`, the merge in `LlamaService::Chat` | extends `Sampler`: one request, rendered and then sampled |
| `Service` | the handlers, `guarded`, `finish_chunk`, `embed` | per call: program counter, client, chunks written, status, vectors; the mutex and an embedding model's memory |
| `Startup` | `main` to the choice of what is served, `flags.h`, `engine_flags.h`, the engine's constructor and destructor | `argv` and the options read, the config, the model, the contexts and the memory |
| `Daemon` | `main` from the signal mask to the exit | per process: program counter, listener, engine, signal, handlers; and the socket path they share |
| `EngineProofs`, `StreamFilterProofs`, `PipelineProofs`, `ServiceProofs`, `StartupProofs`, `DaemonProofs`, `ChatTurnProofs` | | for each of these modules an inductive invariant and the theorems (section 4) |
| `Extremes` | | lemmas about the least and the greatest member of a set, for the proofs |
| `MC_*` | | instances for TLC |

`map` in `PROJECT.json` gives the lines behind each definition. Definitions that begin with
"Seeded fault" are never used by a specification: each is a variant of the definition below it with
a plausible bug, kept to show that a property would notice it (`mutants`).

What is outside the repository is modelled by what the code relies on, as weakly as possible:

* llama.cpp's memory (`Engine`) is the token sequence its state was computed from, and the lowest
  position it still holds. It may lose positions behind its window at any decode, may be unable to
  drop part of a sequence, and a decode may fail at any time with any part of the batch stored.
* In `Engine` the sampler is a free choice of token, and its construction may fail (`grammar_ok`).
  `Sampler` says which tokens. There the logits of each position are free, llama.cpp's grammar
  allows exactly what continues to a sentence and throws on anything else, and top-p, min-p,
  temperature and the draw leave a chance to any candidate that is not masked.
* The tokenizer (`Sampler`) is a parameter. Texts are sequences of characters, each token has a piece
  of text, and a reply may spell a text with any tokens, also with one that begins before it or ends
  behind it. What is assumed is that a text's tokens spell that text, or a space and it
  (`TokenizerSpells`), and that every character can be spelled alone (`EveryCharIsAToken`). A grammar
  and a pattern match text; a token trigger matches its token and nothing else.
* The template engine (`ChatTurn`): tools become a lazy grammar with triggers of any of the four
  types; a schema becomes an eager grammar, but only if it is a nonempty object, which opens with the
  assistant's header and, if the template closed one, a thinking block. A template may open a
  thinking block, and may ignore being asked not to. Rendering may fail for any request.
* llama.cpp's loader (`Startup`): a model, a vocabulary and each context may be missing; a context may
  report a size of zero; a warm-up decode may fail with any part of its batch in the memory. `argv`
  is a sequence of texts, each a sequence of symbols (a flag, a name, a number or a comma is one);
  which texts spell numbers is a constant.
* The chat parser (`ChatStream`) may reject any text, and may classify the same characters
  differently from one parse to the next; its content is a verbatim substring of the text, which is
  the assumption the comment at `chat_format.cpp:354` states.
* gRPC (`Service`, `Daemon`): a write to a client that is there succeeds, to one that cancelled it
  may, through a broken connection it does not. `IsCancelled` is true once the client cancelled;
  when a connection breaks, a write may fail before `IsCancelled` says so. What gRPC itself shows a
  client that cancelled (its own status) is not modelled. `BuildAndStart` creates the socket at a
  free path or returns no server (the directory may be missing, which `prepare_socket_path` takes for
  nothing in the way), never replaces a file, and on a path with a socket may do either. `Wait` returns
  when no handler runs.
* The operating system (`Daemon`): blocking the signals, `lstat` and each `unlink` may be denied, and
  `socket` or `fcntl` may fail, in which case `socket_is_live` answers "dead". A signal before the
  mask kills the process, as `Crash` does.

Three modules compose others. `Pipeline` runs the filter and the chat stream as one step each way.
`ChatTurn` hands its request to `Sampler`. `Engine` implements `StatelessEngine`. The rest is by
what a module leaves open: `Service` treats the engine's answers, the filter's holding back and the
parser's visible text as choices, which `Engine` and `Pipeline` make; in `Engine` the filter's answer
is in turn a choice; the state that `Startup` ends in (`FitToServe`) is the one `Engine` and `Service` begin in; `Daemon` takes a whole start-up as its `Load` and `LoadFails`,
and handlers that return, which is `CallsEnd` of `Service`.

## 3. Runs

All bounds are constants of the `.cfg` files.

| Run | Checks | Bounds, and why they are enough |
|---|---|---|
| `engine_full` | `RecordMatchesMemory`, `ContextIsRequest`, `DecodeFits`, `KeptIsLongest`, `ReturnKeepsTranscript`, `LengthIsHonest`, `BudgetKept` | two callers, context 4, batch 2: a prompt takes one or two decodes, is empty, fills the context or exceeds it, shares nothing, a part or all with the cache; budgets none, 0 and 2. The memory always keeps 3 cells, so a full one may have let position 0 go before it is trimmed. Callers repeat without end, so every order of requests and failures on two threads occurs |
| `engine_memory` | `TypeOK`, `StatelessSpec`, `EveryRunReturns` | a memory that cannot be trimmed (recurrent, hybrid) with a window of 2; a conversation and its next turn, so a reply can diverge from the prompt that follows it; weak fairness of each thread |
| `stream_filter` | `NothingLost`, `HeldForAReason`, `NoStopMissed`, `EndedAtTheCut`, `ChunksAreText` | six bytes of text from ten pieces, in every order; seven stop lists with nested, overlapping, self-overlapping, empty and non-ASCII strings, and one that is not UTF-8 and begins inside a character, which only a caller of `engine.h` could give; characters of one, two and three bytes and an invalid byte |
| `pipeline` | `ReadsAStretch`, `ParsesTheWholeReply`, `ReadsTheContent`, `RejectedKeepsTheRest` | replies of up to four bytes over two letters and a character of two bytes, in pieces that cut it, so that emitted text can occur twice and text is held for either reason; without stop strings and with two that overlap; at most two calls; a client that may go at every chunk |
| `chat_turn` | `ReplySatisfiesGrammar`, `RefusedForCause`, `AwakeOnceTriggered`, `AskedForIsBinding`, `GreedyPicksTheBest`, `DrawIsFromTheTop` | two letters and a space, each a token, a token for both letters, and the end of generation, so that most texts have several spellings and a trigger can begin or end inside a token; each token of two logits, in every assignment at every step, so that the highest can be tied, refused, or refused together; replies of three tokens; greedy, top-k of 2, the default above the vocabulary, and off; schemas of each form, with and without tools and a system message; templates with plain, special and blank openings, thinking or not, obeying or not; a tokenizer that adds a space in front of plain text and one that does not; triggers of each type, of one and two tokens, preserved or not |
| `service_calls` | `StreamShape`, `FinishIsHonest`, `EmbedIsWhole`, `EmbedPaysForNothing`, `CallsEnd` | two calls of any kind to a chat model, a model without a template and an embedding model; a token that is held back or delivered, and what the flush and the final parse find behind it (the theorems have any number of tokens); one tool call; up to two inputs, of no tokens, fewer than the limit, the limit and one more |
| `startup` | `ConfigIsTheLine`, `SharesFitDevices`, `FitToServe`, `NothingOutlives` | every line of up to three flags out of 30, in any order and repeated: values missing, empty, out of range, no number, looking like a flag, lists with holes; machines with a CPU only, with both kinds of GPU and with two GPUs; seven model files; contexts of 1, 3 and 4096 around a micro-batch of 2 |
| `daemon` | `ReadyWhenReachable`, `ServingIsReachable`, `NoSocketLeftBehind`, `StaleIsNoObstacle`, `LateComerYields`, `SignalStops` | two daemons on one path, each started, stopped and killed without end, two handlers each; every one of the races needs two |

Symmetry is used for callers in `engine_full` only, which checks no liveness. `stream_filter`, `pipeline`, `chat_turn` and `startup` do not check for deadlock: a filter that
has stopped or was flushed, a stream that was finished, a sampler that was freed and a process that
has ended have nothing left to do. Everywhere else deadlock is checked.

Some properties speak of history, which the models keep in variables that no action reads: `late`
in `Service`, `alone` and `elders` in `Daemon`, `seen`, `sent` and `generated` in the streams.

`LateComerYields` is what the probe before the unlink is worth. Two daemons that start together can
take each other's socket, whichever way the three system calls interleave, and one whose probe had
no descriptor takes anyone's; the property says that a daemon which was listening before another one
started is safe from it.

`RefusedForCause` says which requests are refused when the grammar meets the opening of the reply:
only those of a template that writes an open thinking block although it was
asked not to.

`LengthIsHonest` has three reasons for the finish reason LENGTH. Two are the ones of `engine.h`: the
budget and the context. The third is `llama_decode` without a slot for the token the loop went on from
("full for practical purposes"), which can end a reply early; the property then says that neither limit
had been reached, so the reason is this one, and that nothing of the run is left in the cache.

`FinishIsHonest` has what a finish chunk says against what the engine and the final parse said: all calls
of a reply that ran to its end, none of one that was cut short, and otherwise the engine's reason.

`AwakeOnceTriggered` says when a tool grammar is awake: a trigger that is one preserved token counts as that
token, any other as text, whatever tokens spell it. That the first kind is not found in another spelling
is `chat_trigger`, below.

The runs that are expected to be violated check one sentence each of the documentation or of a
comment, and TLC's trace shows what the code does instead:

* `service_decode_error`: `protocol.md:160` gives INTERNAL for a decode error. `generate` throws
  `EngineError` for it, which is answered INVALID_ARGUMENT (`embed` throws `std::runtime_error`
  and does answer INTERNAL).
* `service_cancel`: `protocol.md:76` says a cancelled generation stops at the next token. The client
  is only looked at when text is delivered. A token whose text is held back, or is empty, does not
  stop it.
* `daemon_exit`: `main.cpp:280` says the socket is removed only if it is the one this process
  created; the code checks that it is a socket. A daemon started while another one drains takes the
  path over, and loses its socket when the first one exits.
* `chat_trigger`: `resolve` makes a word that is one preserved token a trigger on that token, "the cheap
  exact form" (`engine.cpp:767`). A model that spells the same text with other tokens is not held to the
  tools' schemas (`protocol.md:91`), while the parser of the reply sees no difference.

Two more disagreements are not runs. `protocol.md:100` says that the reason of a cancelled reply is
CANCELLED, and line 133 what that tells the client. A run is reported cancelled only after `client_gone`
was set, and then no finish chunk is written: no client ever reads that reason, which is the theorem
`CancelsAreSilent`. Line 73 of the same document, that a cancelled stream ends without a finish chunk, is
what the code does. And `resolve` takes the space that a tokenizer put in front of the prefill away by
erasing the first token (`engine.cpp:756`). Where the vocabulary has a token for that space and the word
behind it together, the word is erased too, and the grammar is then behind what is in the prompt. So
"every reply still satisfies the grammar" (`engine.cpp:474`) takes `AddedSpaceStandsAlone`.

On malformed text the filter may deliver a lead byte by itself, when another lead byte follows it.
`engine.h` says that malformed bytes are not repaired. A stop string that begins inside a character
cuts one in two: the part before it is text that ends in an unfinished character, of which the filter
may have sent the beginning already. So `ChunksAreText`, and of `EndedAtTheCut` that nothing unfinished
is sent at the cut, are stated for text and stop strings that are UTF-8 (`AllText`; every string of a
request is, by the rules of protobuf), and the rest for any bytes. The proof needs that condition, and
the last stop list of `stream_filter` shows TLC that it does.

### Fairness

Liveness is checked under weak fairness of each thread's own steps (`Engine`, `Service`), which is
what an operating system's scheduler gives a runnable thread, and of `main` and of the return of a
handler (`Daemon`). The last rests on `service_calls`, and on gRPC cancelling open calls after the
shutdown's deadline of 500 ms. Callers need not call, clients need not cancel, and nobody need
signal. `WF(Lock)` is all that `std::mutex` justifies: a waiting thread may be overtaken, so
`EveryRunReturns` speaks of who is inside `generate`, and `CallsEnd` of a bounded number of calls.

Fairness is the smaller part of two of these arguments. `RunsAreBounded` and `SignalSticks` are action
properties that hold without it, and are proved: a run has only so many steps of its own before it, and
a daemon that has a signal only goes forward. They are stated in `EngineProofs` and `DaemonProofs`, and
are in no run, as what the runs check of the two is the liveness. What is left to fairness is that the
next step is taken.

## 4. Proofs

The theorems hold for every value of the constants that the named assumptions of the modules allow:
any number of callers, calls and daemons, any vocabulary, texts, stop strings and command lines, every
size. The assumptions say that sizes are not zero (the constructor checks), that a memory keeps at
least one cell, that nobody is called by the name for "nobody", and what type each constant has; TLC
evaluates them on every run. Two theorems have a further hypothesis, `AddedSpaceStandsAlone`: a space
that the tokenizer adds is a token of its own. It holds in the run `chat_turn`, and section 3
says what happens without it.

No property is inductive by itself. Each proof module states the invariant that is (`IInv`, in
`PipelineProofs` `PInv`), proves `Spec => []IInv` as its theorem `Invariance` with one lemma per
action or per kind of action, and derives the properties; an action property also needs what a step of
one actor leaves alone. TLC checked each of these invariants on the module's run before it was proved.

| Module | Theorem | Property |
|---|---|---|
| `EngineProofs` | `TypeCorrect` | `TypeOK` |
| | `RecordCorrect` | `RecordMatchesMemory`: the record is the KV cache, whatever failed |
| | `ContextCorrect` | `ContextIsRequest`: every token is predicted from its own request |
| | `DecodesFit` | `DecodeFits`: no batch is empty, too large or beyond the context |
| | `TranscriptKept` | `ReturnKeepsTranscript` |
| | `LongestIsKept` | `KeptIsLongest` |
| | `BudgetsAreKept` | `BudgetKept` |
| | `LengthsAreHonest` | `LengthIsHonest`: at every exit that reports Length |
| | `Refinement` | `StatelessSpec`: the engine implements the one that has no cache |
| | `RunsEnd` | `RunsAreBounded`: at most `2 * n_ctx_seq + 3` steps inside `generate`, whatever fails |
| `StreamFilterProofs` | `NoByteIsLost` | `NothingLost` |
| | `HeldBytesHaveAReason` | `HeldForAReason` |
| | `StopsAreFound` | `NoStopMissed` |
| | `EndsAtTheCut` | `EndedAtTheCut` |
| | `ChunksAreWhole` | `ChunksAreText` |
| `PipelineProofs` | `ClientReadsAStretch` | `ReadsAStretch` |
| | `WholeReplyIsParsed` | `ParsesTheWholeReply` |
| | `ContentIsRead` | `ReadsTheContent` |
| | `RejectedIsGiven` | `RejectedKeepsTheRest` |
| `ChatTurnProofs` | `RepliesSatisfyGrammars` | `ReplySatisfiesGrammar`, under `AddedSpaceStandsAlone` |
| | `TriggersWake` | `AwakeOnceTriggered`, for any tokenizer |
| | `RefusalsHaveCauses` | `RefusedForCause`, under `AddedSpaceStandsAlone` |
| | `AskingBinds` | `AskedForIsBinding` |
| | `GreedyIsExact` | `GreedyPicksTheBest` |
| | `TopKIsExact` | `DrawIsFromTheTop` |
| `ServiceProofs` | `StreamsAreShaped` | `StreamShape` |
| | `FinishesAreHonest` | `FinishIsHonest` |
| | `CancelsAreSilent` | `CancelIsSilent`: a cancelled run has no finish chunk |
| | `EmbedsAreWhole` | `EmbedIsWhole` |
| | `NothingIsPaidFor` | `EmbedPaysForNothing` |
| `StartupProofs` | `EverythingIsFreed` | `NothingOutlives` |
| | `ServesFit` | `FitToServe` |
| | `SharesFit` | `SharesFitDevices` |
| | `ConfigFollowsTheLine` | `ConfigIsTheLine`: the last value of each flag, for every line |
| `DaemonProofs` | `ReachableIsReady` | `ReadyWhenReachable` |
| | `AloneIsReachable` | `ServingIsReachable` |
| | `SocketRemoved` | `NoSocketLeftBehind` |
| | `StaleSocketsAreNoObstacle` | `StaleIsNoObstacle` |
| | `LateComersYield` | `LateComerYields` |
| | `SignalsStick` | `SignalSticks` |

### The engine

* `MemoryInv`: the record equals the memory, fits the context, and the memory's window is intact.
* `ControlInv`: a caller is past the lock exactly if it holds it. Without this a second caller could
  move the memory under the first.
* `StageInv`: what the memory holds at each stage. In the prompt loop it is the first `off` tokens
  of the prompt, and `off` is short of the prompt's end: this is where it matters that
  `reusable_prefix` never keeps a whole prompt. While sampling it is the prompt and the reply; after
  sampling it is that without the newest token.

The action properties follow from `IInv` and what a caller's step can be while another one is inside
(`OthersOnlyCall`, `SamplingSteps`, and `EndingSteps` for the steps that end a run). The two about limits
also need `BudgetInv`: a reply at the top of the loop is within its budget, and one that goes on to a
decode is below it. With that and `StageInv`, a decode that fails in the loop had both a free slot and
budget left.

The refinement maps an engine's caller to the stateless one by `PhaseOf`, and the tokens its next
logits are conditioned on to those of the memory (`conditioned_on`). Each step of `Engine` is a step
of the stateless engine or a stutter: `ContextIsRequest` is what makes the sampling steps map, and
`TranscriptKept`'s argument what makes the decodes stutter.

`reusable_prefix` is the exit condition of the code's loop, a CHOOSE; that the loop stops at all is
proved from the well-foundedness of the natural numbers (`ReusablePrefixIsShared`). For
`KeptIsLongest` it is shown to be the length of the longest common prefix of the community modules,
which is a CHOOSE over a set of sequences.

A run ends by a measure (`StepsLeft`): two steps for each free slot of the context, one to fill it and
one to sample behind it, and one to keep a prefix. Every step of the run that does not end it uses some
of it up and leaves at least one (`RunShortens`), also without a budget; `IInv` is what keeps the memory
within the context, and `OthersOnlyCall` says that meanwhile the others can only queue.

### The stream filter

* `HeldInv`: every tail of the generated text that begins a stop string is held. `push` searches only
  what it holds and the new piece; with this, a stop string that ends in the piece begins in what was
  held (`NoneBefore`), and what was found there first is first in all the text (`FoundInAll`).
* `OpenInv`: for UTF-8, no character is open where the sent text ends. The tail that
  `incomplete_utf8_tail` trims was computed from held bytes only; with this it is the tail of all the
  text (`NoneOpen`, `TornInAll`), and it does not matter whether the cut is at a stop string, which
  itself begins a character.
* `SentInv`: nothing behind the first stop string was ever sent, also by a run that was cancelled.

That the code's loops find the longest tail that begins a stop string, and the first match of any stop
string, are `HoldbackIsLongest` and `MatchIsFirst`.

### The pipeline

`PipelineProofs` instantiates `StreamFilterProofs`: each step of `Pipeline` is a step of the filter
or leaves it alone (`SameFilter`), so the filter's invariant holds in the pipeline. On it rest

* `ReadInv`: what was emitted is what the client has, and lies within what was accumulated;
* `HeardInv`: the stream accumulated a beginning of what the filter sent, and all of it unless the
  client is gone;
* `StageInv` and `CallsInv`: the filter, the client and the stream agree on where the reply is, and
  calls come from a final parse that was accepted.

That the raw fallback continues behind the emitted text, wherever that text occurs, is `RejectedHolds`.

### The chat turn

* `RequestInv`: a rendered request asks for nothing (`Free`), for a schema's grammar from the opening
  of the reply on (`Schematic`), or for a grammar of calls from one of its triggers on (`Calling`), and
  it carries exactly what the template's style or tool format made of it.
* `GrammarInv`: where the grammar is. An eager one has consumed what the resolved prefill spells and the
  reply's text, and both together begin a sentence. A lazy one sleeps exactly as long as no trigger that
  `resolve` handed on is in the reply (`Heard`), and then has consumed the text from one on (`Behind`).
* `ReplyInv`: what of this is left when a run is over and the grammar is freed.

The tokens said, the text they spell and the texts the reply has been are three histories, and a trigger is
found in one of them: a token in the first, a pattern in the second, a pattern for the whole reply in the
third. `RangeAppended` and `TextExtended` say how a token changes them. A trigger that is heard after a token
and was not before wakes the grammar at that token, wherever in its piece the trigger ends; and what
wakes it is behind a trigger that is heard (`WokenByToken`). What is heard stays heard (`StillBehind`).
`TriggeredIs` takes this back to the template's own list, across the three ways `resolve` passes a trigger
on; of the tokenizer it needs `TokenizerSpells` only.

From the invariant, `RepliesSatisfyGrammars` needs that the resolved prefill spells the prefill
(`NothingElseErased`, under `AddedSpaceStandsAlone`) and that what is behind a trigger handed on is behind one of
the format's (`BehindIsFromTrigger`). That the prefill begins a sentence, unless the template thinks
against the asking, is `OpeningIsViable`.

The draws: a grammar that has consumed the beginning of a sentence always allows some token (`GoesOn`),
so the second draw has a candidate that is not masked and every token `sample` returns is allowed
(`SampleIsAllowed`). This is why only a lazy grammar, on its own trigger, can throw in `accept`. The
highest of the masked logits are the highest of those allowed (`MaskedHighest`), which makes the
greedy short cut exact, and the k highest in any order of ties have fewer than k above any of them
(`FewAreHigher`), which makes the partial sort exact. The assumptions are that there is an
end-of-generation token, that exactly these have no text, that every character is a token of its own, that
logits are finite, that what a template writes are texts whose tokens are no end-of-generation tokens
and spell them, and that a schema and a set of tools allow at least one sentence. `MaxReply`
is any bound.

### The service

`ControlInv` has who holds the mutex, `GoneInv` why a client is taken for gone, `WireInv` that a
finish chunk is the last one and honest about the reply and its calls (`Honest`), `EmbedInv` that the memory holds the
one input that is read out next. `StepKeepsInvariant` reduces each step to the call that takes it:
`Frame` says what is left alone, the memory under another call's pooling among it, which is what the
mutex is for.

### Start-up

`ConfigInv` and `DevicesInv` say what `to_config` and the device selection hand on, `HeldInv` which
context is allocated, `StageInv` what each phase can rely on, `MemoryInv` that only `clear` and a
failure see the warm-up's tokens, `PoolingInv` that the limit is what a micro-batch, the context and
the training size allow. `unwind` can begin at every phase, and `HeldInv` holds there too. Ordered
lists of positions (`InOrder`) are a CHOOSE; that one exists is `BoundedIsListed`.

`ConfigIsTheLine` compares what the code reads from left to right with a definition that reads nothing:
a place of the line holds a flag exactly if the place before it does not hold a flag that takes a value.
Only one set of places is like that (`FlagAt`).

* `LineInv`: such a set exists for what has been read so far, and each option has the value behind the
  last of its flag's places; a flag that takes a value is always read together with it.
* `SettledInv`: past `to_config` the whole line was read and the config was made of these options.

At the end of the line the set of `LineInv` is `FlagAt`: two such sets would differ at a least place, and
agree at the one before it (`FlagsAreWhereTheyWereRead`). A list says what its text says (`SplitSpells`)
because the cuts of `split_list` are all the commas in order (`InOrderListsAll`, `SplitCuts`), so no part
has one. That the parts, joined again, are the text compares the recursive function of `Joined` with the
explicit one that maps k to the text before the k-th cut; the least k at which they differ refutes itself
(`PartsJoin`). Both arguments take the least counterexample from the well-founded order of the natural
numbers, where an induction would need an operator as parameter.

### The daemon

`ServingInv` ties the listener, the model and the handlers to the program counter; `OwnSocketInv` says
that who makes no socket has none at the path; `AloneInv` what a daemon by itself finds there at each
step, and `EldersInv` that who got past its probe did not find an elder at the path. The last one is
the whole of the argument for `LateComerYields`: no step between the probe and the bind can put an
elder's socket back. `AloneInv` is also `StaleIsNoObstacle`: past the probe a daemon by itself has a free
path, so what makes it give up there is its model or its listener, never what earlier runs left.

For `SignalSticks`, `SignalledInv` says that only a process that runs has a signal, so no `Start` can
forget one. A step of another daemon leaves program counter, signal and handlers alone
(`OthersLeaveAlone`), a step of `main` moves to a stage that is closer to the exit (`MainGoesOn`), and
`ServingInv` has no listener in the stages that drain, so nothing is accepted there.

### Only model-checked

Liveness (`EveryRunReturns`, `CallsEnd`, `SignalStops`), which the proof system does not handle. The
invariants and action properties of all passing runs are proved. `CallsEnd` has no proved
counterpart of its own: in `Service` a generation is as long as the bound `MaxTokens` of the model lets it be,
and what bounds it in the code is `RunsAreBounded`.

## 5. Not modelled

* The probabilities of the sampler chain: floating-point arithmetic inside llama.cpp. `Sampler`
  keeps which tokens can be drawn, not how often. `max_tokens` is in `Engine`, not in `ChatTurn`.
* What a template makes of the messages, the regular expressions of triggers (a pattern is a text)
  and the serialized chat parser: llama.cpp's `common`.
* How a tokenizer cuts a text. `Engine` takes any token sequence, `Sampler` any tokenizer that spells what
  it is given; the one of the runs takes the longest token that fits. A character is not cut into bytes
  there; that is in `StreamFilter`.
* The numbers in a vector and their normalization. `Service` keeps which inputs a vector is of.
* The floating-point sum of a tensor split, what the engine makes of a thread count, `--socket`'s default and the report of
  devices. A share is a whole number.
* Field-by-field conversions, logging, the device table, `GetModelInfo` and `Tokenize`, which read
  only, generated code, tests, benchmark.
* macOS discards a signal that is ignored and blocked (`daemon.md:25`); in `Daemon` a blocked signal
  waits.
* A file put at the socket path, by someone who is not llamad, while a daemon runs.

## 6. Plan

1. Done: all components above; the theorems of section 4.
2. Left as they are: the hazards without a property (`PROJECT.json`, each with its reason), and liveness,
   which stays with TLC.
