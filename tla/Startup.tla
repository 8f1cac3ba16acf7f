------------------------------- MODULE Startup -------------------------------
(***************************************************************************)
(* From the command line to a daemon that can serve, and back: main()      *)
(* (src/src/main.cpp) with the flags of flags.h and engine_flags.h, the    *)
(* constructor and destructor of Engine (src/src/engine.cpp) and the       *)
(* choice of what is served.  What main() does with the socket path in     *)
(* between is in Daemon.                                                   *)
(*                                                                         *)
(* A text is a sequence of symbols, a flag the text of one symbol.         *)
(* llama.cpp is external: a load, a context or a decode may fail, and the  *)
(* sizes of a context are its own.  Thread counts and reports are left out.*)
(***************************************************************************)
EXTENDS Integers, SequencesExt

CONSTANTS
  CommandLines,  \* what argv may hold behind the program's name
  Number,        \* the numbers that texts spell; other texts spell none
  MaxInt,        \* the largest int32_t
  MaxFloat,      \* the largest float
  Machines,      \* sequences of devices [name, type], in backend order
  Ggufs,         \* model files: [loads, vocab, pooling, train, warm, template]
  n_batch, n_ubatch,   \* llama.cpp's default batch and micro-batch
  llama_max_devices

ASSUME SizesTyped ==
  /\ {MaxInt, MaxFloat, llama_max_devices} \subseteq Nat
  /\ {n_batch, n_ubatch} \subseteq Nat \ {0}
ASSUME LinesTyped ==
  /\ CommandLines \subseteq Seq(Seq(STRING))
  /\ \A text \in DOMAIN Number : Number[text] \in Int
ASSUME HardwareTyped == Machines \subseteq Seq([name: STRING, type: STRING])
ASSUME FilesTyped ==
  Ggufs \subseteq [loads: BOOLEAN, vocab: BOOLEAN, pooling: STRING, train: Int, warm: BOOLEAN, template: STRING]

VARIABLES
  argv, at,    \* Args: the arguments, and how many have been read
  options,     \* the latest value of each flag that was given
  phase,       \* what the program does next, "ready" when it serves, "off" at the end
  code,        \* main()'s result
  config,      \* EngineConfig
  machine,     \* the devices registered
  offload,     \* the ones selected, as indices of machine
  gguf,        \* the file behind --model
  model,       \* Impl::model is allocated
  contexts,    \* shapes of the contexts that are allocated
  ctx,         \* Impl::ctx: <<>> or <<[shape, n_ctx_seq, n_batch, n_ubatch]>>
  memory,      \* tokens in the context's memory
  limit,       \* Impl::max_embed_tokens, 0 unless Impl::embeddings
  serves       \* "nothing", "embedding", "chat", or "plain": no usable template

cli   == <<argv, at, options>>
impl  == <<machine, offload, gguf, model, contexts, ctx, memory, limit>>
vars  == <<cli, phase, code, config, impl, serves>>

\* The defaults of EngineConfig.
Unset == [n_ctx |-> 4096, n_gpu_layers |-> 99, n_threads |-> 0, devices |-> <<>>, tensor_split |-> <<>>]

Init ==
  /\ argv \in CommandLines /\ at = 0 /\ options = <<>>
  /\ phase = "args" /\ code = "none"
  /\ config = Unset
  /\ machine = <<>> /\ offload = <<>>
  /\ gguf = CHOOSE g \in Ggufs : TRUE     \* not looked at yet
  /\ model = FALSE /\ contexts = {} /\ ctx = <<>> /\ memory = 0 /\ limit = 0
  /\ serves = "nothing"

Leave(result) == phase' = "off" /\ code' = result

-----------------------------------------------------------------------------
(* The command line *)

Switches == {"--help", "--version", "--list-devices"}
Numeric  == {"--ctx", "--ngl", "--threads"}
Valued   == Numeric \cup {"--model", "--socket", "--devices", "--tensor-split"}

\* Args::is: -h is --help.
Flag(arg) == IF Len(arg) # 1 THEN "" ELSE IF arg[1] = "-h" THEN "--help" ELSE arg[1]

\* parse_number reads the text whole and in range, or throws.
parse_number(text, largest) ==
  text \in DOMAIN Number /\ Number[text] <= largest /\ -largest - 1 <= Number[text]

\* Args::value consumes the argument behind the flag, whatever it looks like.
Consumed(flag) == IF flag \in Valued THEN 2 ELSE 1

Readable(flag) ==
  \/ flag \in Switches
  \/ /\ flag \in Valued /\ at + 1 < Len(argv)
     /\ flag \in Numeric => parse_number(argv[at + 2], MaxInt)

\* Seeded fault: the first of several values is kept.
Recorded_first(flag, value) ==
  [f \in DOMAIN options \cup {flag} |-> IF f \in DOMAIN options THEN options[f] ELSE value]

Recorded(flag, value) ==
  [f \in DOMAIN options \cup {flag} |-> IF f = flag THEN value ELSE options[f]]

\* One flag with its value; unknown or unreadable ones are a FlagError.
Read ==
  /\ phase = "args" /\ at < Len(argv)
  /\ LET flag == Flag(argv[at + 1])
     IN  \/ /\ Readable(flag)
            /\ options' = Recorded(flag, IF flag \in Valued THEN argv[at + 2] ELSE <<>>)
            /\ at' = at + Consumed(flag)
            /\ UNCHANGED <<phase, code>>
         \/ ~Readable(flag) /\ Leave("2") /\ UNCHANGED <<at, options>>
  /\ UNCHANGED <<argv, config, impl, serves>>

Given(flag) == flag \in DOMAIN options
NumberOf(flag, default) == IF Given(flag) THEN Number[options[flag]] ELSE default

\* The members of a finite set of numbers, in ascending order.
InOrder(S) ==
  CHOOSE s \in [1..Cardinality(S) -> S] : \A i, j \in 1..Cardinality(S) : i < j => s[i] < s[j]

Comma == ","

\* The parts between the commas, or <<>> if one of them is empty.
split_list(text) ==
  LET cuts  == InOrder({0, Len(text) + 1} \cup {i \in DOMAIN text : text[i] = Comma})
      parts == [k \in 1..(Len(cuts) - 1) |-> SubSeq(text, cuts[k] + 1, cuts[k + 1] - 1)]
  IN  IF <<>> \in Range(parts) THEN <<>> ELSE parts

ListOf(flag) == IF Given(flag) THEN split_list(options[flag]) ELSE <<>>

ConfigOk ==
  /\ NumberOf("--ctx", 4096) > 0 /\ NumberOf("--threads", 0) >= 0
  /\ \A flag \in {"--devices", "--tensor-split"} : Given(flag) => ListOf(flag) # <<>>
  /\ \A part \in Range(ListOf("--tensor-split")) : parse_number(part, MaxFloat) /\ Number[part] >= 0

to_config ==
  [n_ctx |-> NumberOf("--ctx", 4096), n_gpu_layers |-> NumberOf("--ngl", 99),
   n_threads |-> NumberOf("--threads", 0), devices |-> ListOf("--devices"),
   tensor_split |-> [i \in DOMAIN ListOf("--tensor-split") |-> Number[ListOf("--tensor-split")[i]]]]

\* main() behind parse_command_line, in its order.
Interpret ==
  /\ phase = "args" /\ at = Len(argv)
  /\ IF Given("--help") \/ Given("--version") THEN Leave("0") /\ UNCHANGED config
     ELSE IF ~ConfigOk THEN Leave("2") /\ UNCHANGED config
     ELSE IF Given("--list-devices") THEN Leave("0") /\ config' = to_config
     ELSE IF ~Given("--model") \/ options["--model"] = <<>> THEN Leave("2") /\ config' = to_config
     ELSE phase' = "devices" /\ config' = to_config /\ UNCHANGED code
  /\ UNCHANGED <<cli, impl, serves>>

-----------------------------------------------------------------------------
(* The engine's constructor *)

\* A throw destroys the Impl before main() sees it.
Throw == phase' = "unwind" /\ code' = "1"

OfType(devices, type) == InOrder({i \in DOMAIN devices : devices[i].type = type})

default_offload_devices(devices) ==
  IF OfType(devices, "gpu") = <<>> THEN OfType(devices, "igpu") ELSE OfType(devices, "gpu")

\* The first device of that name, 0 if there is none.
Named(devices, name) ==
  LET found == {i \in DOMAIN devices : <<devices[i].name>> = name}
  IN  IF found = {} THEN 0 ELSE Min(found)

select_offload_devices(devices) ==
  IF config.devices = <<>> THEN default_offload_devices(devices)
  ELSE [i \in DOMAIN config.devices |-> Named(devices, config.devices[i])]

\* Seeded fault: a device may be named twice.
Selectable_twice(chosen) == 0 \notin Range(chosen)

\* Every name is a device's, and none is listed more than once.
Selectable(chosen) == 0 \notin Range(chosen) /\ IsInjective(chosen)

\* padded_tensor_split's checks: not all zeros, and a device for every share.
SplitFits(chosen) ==
  config.tensor_split # <<>> =>
    /\ \E i \in DOMAIN config.tensor_split : config.tensor_split[i] > 0
    /\ Len(config.tensor_split) <= Len(chosen)
    /\ Len(config.tensor_split) <= llama_max_devices

SelectDevices ==
  /\ phase = "devices"
  /\ machine' \in Machines
  /\ LET chosen == select_offload_devices(machine')
     IN  IF Selectable(chosen) /\ SplitFits(chosen)
           THEN offload' = chosen /\ phase' = "load" /\ UNCHANGED code
           ELSE Throw /\ UNCHANGED offload
  /\ UNCHANGED <<cli, config, gguf, model, contexts, ctx, memory, limit, serves>>

\* llama_model_load_from_file and the vocabulary.
Load ==
  /\ phase = "load"
  /\ gguf' \in Ggufs
  /\ model' = gguf'.loads
  /\ IF gguf'.loads /\ gguf'.vocab THEN phase' = "generation" /\ UNCHANGED code ELSE Throw
  /\ UNCHANGED <<cli, config, machine, offload, contexts, ctx, memory, limit, serves>>

\* External: llama_init_from_model, which may fail or report a size of zero.
llama_init_from_model(shape) ==
  \/ UNCHANGED <<contexts, ctx>>
  \/ \E n_ctx_seq \in {0, config.n_ctx} :
       /\ ctx' = <<[shape |-> shape, n_ctx_seq |-> n_ctx_seq, n_batch |-> n_batch,
                    n_ubatch |-> IF shape = "generation" THEN n_batch ELSE n_ubatch]>>
       /\ contexts' = contexts \cup {shape}

\* A context shaped for generate(): one output, a micro-batch as large as the batch.
InitGeneration ==
  /\ phase = "generation" /\ phase' = "pooling"
  /\ llama_init_from_model("generation")
  /\ UNCHANGED <<cli, code, config, machine, offload, gguf, model, memory, limit, serves>>

\* Seeded fault: the pointer is dropped, the context is not.
llama_free_forgotten == ctx' = <<>> /\ UNCHANGED contexts

llama_free == ctx' = <<>> /\ contexts' = contexts \ {ctx[1].shape}

\* Seeded fault: the first context is kept whatever it pools.
Misshapen_never == FALSE

Misshapen == ctx # <<>> /\ gguf.pooling # "none"

\* Pooling reads every token's output: a model that pools cannot use that context.
DropPooling ==
  /\ phase = "pooling" /\ phase' = "default"
  /\ IF Misshapen THEN llama_free ELSE UNCHANGED <<contexts, ctx>>
  /\ UNCHANGED <<cli, code, config, machine, offload, gguf, model, memory, limit, serves>>

InitDefault ==
  /\ phase = "default"
  /\ IF ctx = <<>> THEN llama_init_from_model("default") ELSE UNCHANGED <<contexts, ctx>>
  /\ IF ctx' = <<>> THEN Throw ELSE phase' = "measure" /\ UNCHANGED code
  /\ UNCHANGED <<cli, config, machine, offload, gguf, model, memory, limit, serves>>

\* The context's own sizes decide.  A model that pools is an embedding model, and one
\* input of it fits in a micro-batch, the context and what the model was trained on.
Measure ==
  /\ phase = "measure"
  /\ IF ctx[1].n_ctx_seq = 0 \/ ctx[1].n_batch = 0 \/ gguf.pooling = "rank"
       THEN Throw /\ UNCHANGED limit
       ELSE /\ phase' = "warm" /\ UNCHANGED code
            /\ limit' = IF gguf.pooling = "none" THEN 0
                        ELSE Min({ctx[1].n_ubatch, ctx[1].n_ctx_seq}
                                   \cup (IF gguf.train > 0 THEN {gguf.train} ELSE {}))
  /\ UNCHANGED <<cli, config, machine, offload, gguf, model, contexts, ctx, memory, serves>>

WarmBatch == Min({32, n_batch})

\* Two decodes whose failures are ignored: any part of them may be in the memory.
WarmUp ==
  /\ phase = "warm" /\ phase' = IF gguf.warm THEN "clear" ELSE "template"
  /\ memory' \in IF gguf.warm THEN 0..(WarmBatch + 1) ELSE {0}
  /\ UNCHANGED <<cli, code, config, machine, offload, gguf, model, contexts, ctx, limit, serves>>

Clear ==
  /\ phase = "clear" /\ phase' = "template"
  /\ memory' = 0
  /\ UNCHANGED <<cli, code, config, machine, offload, gguf, model, contexts, ctx, limit, serves>>

\* main() again: an embedding model's template is not looked at, and one that does not
\* compile is no reason not to start.
ChatTemplate ==
  /\ phase = "template" /\ phase' = "ready"
  /\ serves' = IF limit > 0 THEN "embedding" ELSE IF gguf.template = "good" THEN "chat" ELSE "plain"
  /\ UNCHANGED <<cli, code, config, impl>>

\* chat_template() may throw on a token it cannot make text, and nothing catches it.
ChatTemplateThrows ==
  /\ phase = "template" /\ limit = 0 /\ Leave("abort")
  /\ UNCHANGED <<cli, config, impl, serves>>

\* The end of main(), by way of Daemon.
Stop == phase = "ready" /\ phase' = "unwind" /\ code' = "0" /\ serves' = "nothing" /\ UNCHANGED <<cli, config, impl>>

\* ~Impl: the context before the model it borrows.
FreeContext ==
  /\ phase = "unwind" /\ ctx # <<>>
  /\ llama_free
  /\ UNCHANGED <<cli, phase, code, config, machine, offload, gguf, model, memory, limit, serves>>

FreeModel ==
  /\ phase = "unwind" /\ ctx = <<>>
  /\ phase' = "off" /\ model' = FALSE
  /\ UNCHANGED <<cli, code, config, machine, offload, gguf, contexts, ctx, memory, limit, serves>>

Next ==
  \/ Read \/ Interpret \/ SelectDevices \/ Load \/ InitGeneration \/ DropPooling \/ InitDefault
  \/ Measure \/ WarmUp \/ Clear \/ ChatTemplate \/ ChatTemplateThrows \/ Stop \/ FreeContext \/ FreeModel

Spec == Init /\ [][Next]_vars

-----------------------------------------------------------------------------
(* Properties *)

\* Where the flags of a command line are: every argument is one, except the value that
\* stands behind a flag that takes one.
FlagAt ==
  CHOOSE F \in SUBSET DOMAIN argv :
    \A i \in DOMAIN argv : i \in F <=> ~(i - 1 \in F /\ Flag(argv[i - 1]) \in Valued)

\* Where a flag stands, and the value behind the last of those places, <<>> without one.
Places(flag) == {i \in FlagAt : Flag(argv[i]) = flag}
LatestValue(flag) == IF Places(flag) = {} THEN <<>> ELSE argv[Max(Places(flag)) + 1]
LatestNumber(flag, default) == IF Places(flag) = {} THEN default ELSE Number[LatestValue(flag)]

\* The parts with a comma between each two.
Joined(parts) ==
  LET upto[k \in 0..Len(parts)] ==
        IF k = 0 THEN <<>> ELSE IF k = 1 THEN parts[1] ELSE upto[k - 1] \o <<Comma>> \o parts[k]
  IN  upto[Len(parts)]

\* A list says what its text says: no part is empty or has a comma left in it, and
\* together they are the whole text.
Spelled(parts, text) ==
  /\ \A i \in DOMAIN parts : parts[i] # <<>> /\ Comma \notin Range(parts[i])
  /\ Joined(parts) = text

\* Whatever stands on the command line in whatever order: the engine is configured with
\* the last value of each flag or its default, lists whole and in order, and a value
\* that looks like a flag is only a value.
ConfigIsTheLine ==
  phase \notin {"args", "off"} =>
    /\ \A i \in FlagAt : Flag(argv[i]) \in Valued
    /\ LatestValue("--model") # <<>>
    /\ config.n_ctx = LatestNumber("--ctx", 4096)
    /\ config.n_gpu_layers = LatestNumber("--ngl", 99)
    /\ config.n_threads = LatestNumber("--threads", 0)
    /\ Spelled(config.devices, LatestValue("--devices"))
    /\ LET shares == split_list(LatestValue("--tensor-split"))
       IN  /\ Spelled(shares, LatestValue("--tensor-split"))
           /\ config.tensor_split = [i \in DOMAIN shares |-> Number[shares[i]]]

\* When the model is loaded, every share of the tensor split has a device of its own,
\* the one named in its place or llama.cpp's default, and some device gets work.
SharesFitDevices ==
  model =>
    /\ Cardinality(Range(offload)) = Len(offload)
    /\ \A i \in DOMAIN config.devices : <<machine[offload[i]].name>> = config.devices[i]
    /\ \A i \in DOMAIN config.tensor_split : config.tensor_split[i] > 0 => i \in DOMAIN offload
    /\ config.tensor_split # <<>> => \E i \in DOMAIN offload \cap DOMAIN config.tensor_split :
                                        config.tensor_split[i] > 0

\* The state that requests find: an empty memory, although the warm-up may have failed
\* at any point, and sizes that are not zero.  An embedding model never serves from the
\* context shaped for generation, and its limit, "the physical batch of llama.cpp"
\* (daemon.md:55) or less, is exactly what every input can have.
FitToServe ==
  phase = "ready" =>
    /\ memory = 0 /\ ctx[1].n_ctx_seq > 0 /\ ctx[1].n_batch > 0
    /\ serves = "embedding" <=> gguf.pooling # "none"
    /\ serves = "embedding" =>
         /\ ctx[1].shape = "default"
         /\ \A n \in 1..(n_batch + 1) :
              n <= limit <=> n <= n_ubatch /\ n <= ctx[1].n_ctx_seq /\ ~(gguf.train \in 1..(n - 1))

\* At every step of a construction that may fail and of the destruction, there is at
\* most one context, never without the model it borrows, and nothing at the end.
NothingOutlives ==
  /\ Cardinality(contexts) <= 1
  /\ contexts # {} => model
  /\ phase = "off" /\ code # "abort" => ~model
=============================================================================
