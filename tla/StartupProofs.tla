---------------------------- MODULE StartupProofs ----------------------------
(***************************************************************************)
(* Theorems about Startup, for every command line, machine, model file and *)
(* batch size: whatever fails on the way up, nothing outlives the process, *)
(* a daemon that gets as far as serving is fit to, and its engine was      *)
(* configured with what the command line says.                             *)
(***************************************************************************)
EXTENDS Startup, Extremes, SequenceTheorems, FiniteSetTheorems, TLAPS

-----------------------------------------------------------------------------
(* Sets of numbers, and sequences *)

\* Some sequence lists the members of S in ascending order.
Listed(S) ==
  \E s \in [1..Cardinality(S) -> S] : \A i, j \in 1..Cardinality(S) : i < j => s[i] < s[j]

\* Whoever can list a set of small numbers can list it with a larger one behind.
LEMMA ListOneMore ==
  ASSUME NEW n \in Nat, NEW S \in SUBSET (0..(n - 1)), Listed(S)
  PROVE  Listed(S \cup {n})
<1> DEFINE k == Cardinality(S)
<1>1. IsFiniteSet(S) /\ k \in Nat
  <2>1. IsFiniteSet(0..(n - 1))
    BY FS_Interval
  <2> QED BY <2>1, FS_Subset, FS_CardinalityType
<1>2. n \notin S /\ Cardinality(S \cup {n}) = k + 1
  BY <1>1, FS_AddElement
<1>3. PICK s \in [1..k -> S] : \A i, j \in 1..k : i < j => s[i] < s[j]
  BY DEF Listed
<1> HIDE DEF k
<1> DEFINE t == [i \in 1..(k + 1) |-> IF i = k + 1 THEN n ELSE s[i]]
<1>4. t \in [1..(k + 1) -> S \cup {n}]
  BY <1>1, <1>3
<1>5. \A i \in 1..k : s[i] < n /\ s[i] \in Nat
  <2>1. \A x \in S : x < n /\ x \in Nat
    OBVIOUS
  <2> QED BY <1>3, <2>1
<1>6. \A i, j \in 1..(k + 1) : i < j => t[i] < t[j]
  BY <1>1, <1>3, <1>5
<1> QED BY <1>2, <1>4, <1>6 DEF Listed

\* Every bounded set of naturals can be listed in order.
LEMMA BoundedIsListed ==
  ASSUME NEW n \in Nat, NEW S \in SUBSET (0..n)
  PROVE  Listed(S)
<1> DEFINE Unlisted == {m \in Nat : \E T \in SUBSET (0..m) : ~Listed(T)}
<1> SUFFICES ASSUME ~Listed(S) PROVE FALSE
  OBVIOUS
<1>1. Unlisted \subseteq Nat /\ Unlisted # {}
  OBVIOUS
<1> DEFINE m == Min(Unlisted)
<1>2. m \in Unlisted /\ \A y \in Unlisted : m <= y
  <2> HIDE DEF Unlisted
  <2> QED BY <1>1, LeastMember
<1> HIDE DEF m
<1>3. m \in Nat /\ \A y \in Unlisted : ~(y < m)
  <2>1. \A y \in Unlisted : y \in Nat
    OBVIOUS
  <2> HIDE DEF Unlisted
  <2> QED BY <1>2, <2>1
<1>4. PICK T \in SUBSET (0..m) : ~Listed(T)
  BY <1>2
<1>5. ASSUME NEW U \in SUBSET (0..(m - 1)) PROVE Listed(U)
  <2>1. CASE m = 0
    <3>1. 0..(m - 1) = {}
      BY <2>1
    <3>2. U = {} /\ Cardinality(U) = 0
      BY <1>5, <3>1, FS_EmptySet
    <3>3. [i \in 1..0 |-> 0] \in [1..Cardinality(U) -> U]
      BY <3>2
    <3> QED BY <3>2, <3>3 DEF Listed
  <2>2. CASE m # 0
    <3>1. m - 1 \in Nat /\ m - 1 < m
      BY <1>3, <2>2
    <3>2. m - 1 \notin Unlisted
      BY <1>3, <3>1
    <3> QED BY <1>5, <3>1, <3>2
  <2> QED BY <2>1, <2>2
<1>6. CASE m \in T
  <2>1. T \ {m} \in SUBSET (0..(m - 1)) /\ T = (T \ {m}) \cup {m}
    BY <1>3, <1>4, <1>6
  <2>2. Listed((T \ {m}) \cup {m})
    BY <1>3, <1>5, <2>1, ListOneMore
  <2> QED BY <1>4, <2>1, <2>2
<1>7. CASE m \notin T
  <2>1. T \in SUBSET (0..(m - 1))
    BY <1>3, <1>4, <1>7
  <2> QED BY <1>4, <1>5, <2>1
<1> QED BY <1>6, <1>7

\* InOrder lists a bounded set.
LEMMA InOrderLists ==
  ASSUME NEW n \in Nat, NEW S \in SUBSET (0..n)
  PROVE  /\ Cardinality(S) \in Nat /\ IsFiniteSet(S)
         /\ InOrder(S) \in [1..Cardinality(S) -> S]
         /\ \A i, j \in 1..Cardinality(S) : i < j => InOrder(S)[i] < InOrder(S)[j]
<1> DEFINE Ascending(s) == \A i, j \in 1..Cardinality(S) : i < j => s[i] < s[j]
<1>1. \E s \in [1..Cardinality(S) -> S] : Ascending(s)
  BY BoundedIsListed DEF Listed
<1>2. InOrder(S) = CHOOSE s \in [1..Cardinality(S) -> S] : Ascending(s)
  BY DEF InOrder
<1> HIDE DEF Ascending
<1>3. InOrder(S) \in [1..Cardinality(S) -> S] /\ Ascending(InOrder(S))
  BY <1>1, <1>2
<1>4. Cardinality(S) \in Nat /\ IsFiniteSet(S)
  <2>1. IsFiniteSet(0..n)
    BY FS_Interval
  <2> QED BY <2>1, FS_Subset, FS_CardinalityType
<1> QED BY <1>3, <1>4 DEF Ascending

\* f is a sequence of n elements.
IsList(f, n) == f = [i \in 1..n |-> f[i]]

\* A function on 1..n is a sequence of length n.
LEMMA ListIsSeq ==
  ASSUME NEW n \in Nat, NEW f, IsList(f, n)
  PROVE  f \in Seq(Range(f)) /\ Len(f) = n /\ DOMAIN f = 1..n
<1>1. DOMAIN f = 1..n /\ f \in [1..n -> Range(f)]
  BY DEF IsList, Range
<1>2. f \in Seq(Range(f))
  BY <1>1, SeqDef
<1>3. Len(f) \in Nat /\ DOMAIN f = 1..Len(f)
  BY <1>2, LenProperties
<1> QED BY <1>1, <1>2, <1>3

-----------------------------------------------------------------------------
(* The inductive invariant *)

Phases == {"args", "devices", "load", "generation", "pooling", "default", "measure", "warm", "clear",
           "template", "ready", "unwind", "off"}

\* The constructor has the model; it has a context; its sizes are measured.
Loaded   == {"generation", "pooling", "default", "measure", "warm", "clear", "template", "ready"}
Equipped == {"measure", "warm", "clear", "template", "ready"}
Measured == {"warm", "clear", "template", "ready"}

\* Flags keep their texts, and the numeric ones spell numbers.
OptionsInv ==
  /\ argv \in Seq(Seq(STRING)) /\ at \in Nat
  /\ \A f \in DOMAIN options : options[f] \in Seq(STRING)
  /\ \A f \in DOMAIN options \cap Numeric : options[f] \in DOMAIN Number

\* The engine is configured with a positive context size, and with lists.
ConfigInv ==
  /\ config.n_ctx \in Nat \ {0}
  /\ Len(config.devices) \in Nat /\ IsList(config.devices, Len(config.devices))
  /\ Len(config.tensor_split) \in Nat /\ IsList(config.tensor_split, Len(config.tensor_split))

\* From selection on, the devices in use passed every check.
DevicesInv ==
  phase = "load" \/ model =>
    /\ machine \in Machines
    /\ offload = select_offload_devices(machine)
    /\ Selectable(offload) /\ SplitFits(offload)

Context == [shape: {"generation", "default"}, n_ctx_seq: Nat, n_batch: Nat, n_ubatch: Nat]

\* What is allocated is what the Impl points at, and a context has its model.
HeldInv ==
  \/ ctx = <<>> /\ contexts = {}
  \/ /\ ctx[1] \in Context /\ ctx = <<ctx[1]>> /\ contexts = {ctx[1].shape}
     /\ ctx[1].shape = "default" => ctx[1].n_ubatch = n_ubatch
     /\ model

\* What each stage of the construction and the destruction has.
StageInv ==
  /\ phase \in Phases
  /\ phase \in {"args", "devices", "load"} => ctx = <<>> /\ ~model
  /\ phase \in Loaded => model /\ gguf \in Ggufs
  /\ phase = "generation" => ctx = <<>>
  /\ phase \in Equipped => ctx # <<>>
  /\ phase = "off" => code = "abort" \/ (ctx = <<>> /\ ~model)

\* Only the warm-up puts anything in the memory, and Clear takes it out.
MemoryInv == memory = 0 \/ phase \in {"clear", "unwind", "off"}

\* An input of length n is one that the context and the model can take.
Takes(n) == n <= ctx[1].n_ubatch /\ n <= ctx[1].n_ctx_seq /\ ~(gguf.train \in 1..(n - 1))

\* A model that pools is never left with the context shaped for generation, and the
\* limit is what that model's inputs can have.
PoolingInv ==
  /\ phase \in Equipped \cup {"default"} /\ gguf.pooling # "none" =>
       ctx = <<>> \/ ctx[1].shape = "default"
  /\ phase \in Measured =>
       /\ ctx[1].n_ctx_seq > 0 /\ ctx[1].n_batch > 0
       /\ limit \in Nat
       /\ limit = 0 <=> gguf.pooling = "none"
       /\ gguf.pooling # "none" => \A n \in Nat \ {0} : n <= limit <=> Takes(n)
  /\ phase = "ready" => (serves = "embedding" <=> limit > 0)

\* The inductive invariant.
IInv == OptionsInv /\ ConfigInv /\ DevicesInv /\ HeldInv /\ StageInv /\ MemoryInv /\ PoolingInv

-----------------------------------------------------------------------------
(* The command line *)

\* A sequence's length is the n it is a list of.
LEMMA ListKeepsLength ==
  ASSUME NEW n \in Nat, NEW f, IsList(f, n)
  PROVE  Len(f) \in Nat /\ IsList(f, Len(f))
BY ListIsSeq

\* The parts of a text make a list, the empty one if a part is empty.
LEMMA PartsAreAList ==
  ASSUME NEW text \in Seq(STRING)
  PROVE  Len(split_list(text)) \in Nat /\ IsList(split_list(text), Len(split_list(text)))
<1> DEFINE commas == {i \in DOMAIN text : text[i] = Comma}
           S == {0, Len(text) + 1} \cup commas
           cuts == InOrder(S)
           parts == [k \in 1..(Len(cuts) - 1) |-> SubSeq(text, cuts[k] + 1, cuts[k + 1] - 1)]
<1>1. Len(text) + 1 \in Nat /\ S \in SUBSET (0..(Len(text) + 1)) /\ 0 \in S
  <2>1. Len(text) \in Nat /\ DOMAIN text = 1..Len(text)
    BY LenProperties
  <2>2. commas \subseteq 1..Len(text)
    BY <2>1
  <2> HIDE DEF commas
  <2>3. \A x \in {0, Len(text) + 1} : x \in 0..(Len(text) + 1)
    BY <2>1
  <2>4. \A x \in commas : x \in 0..(Len(text) + 1)
    BY <2>1, <2>2
  <2>5. \A x \in S : x \in 0..(Len(text) + 1)
    BY <2>3, <2>4, Zenon
  <2> HIDE DEF S
  <2>6. S \in SUBSET (0..(Len(text) + 1))
    BY <2>5, Zenon
  <2> QED BY <2>1, <2>6 DEF S
<1> HIDE DEF S
<1>2. cuts \in [1..Cardinality(S) -> S] /\ Cardinality(S) \in Nat /\ IsFiniteSet(S)
  BY <1>1, InOrderLists
<1>3. Cardinality(S) # 0
  BY <1>1, <1>2, FS_EmptySet
<1> HIDE DEF cuts
<1>4. Len(cuts) = Cardinality(S)
  <2>1. cuts \in Seq(S) /\ DOMAIN cuts = 1..Cardinality(S)
    BY <1>2, SeqDef
  <2> QED BY <1>2, <2>1, LenProperties
<1>5. Len(cuts) - 1 \in Nat
  BY <1>2, <1>3, <1>4
<1>6. IsList(parts, Len(cuts) - 1)
  BY DEF IsList
<1>7. IsList(<<>>, 0)
  BY DEF IsList
<1>8. split_list(text) = IF <<>> \in Range(parts) THEN <<>> ELSE parts
  BY DEF split_list, commas, S, cuts
<1> HIDE DEF parts
<1>9. \E n \in Nat : IsList(split_list(text), n)
  BY <1>5, <1>6, <1>7, <1>8
<1> QED BY <1>9, ListKeepsLength

\* What to_config makes of flags that passed the checks.
LEMMA ConfigIsSound ==
  ASSUME OptionsInv, ConfigOk, config' = to_config
  PROVE  ConfigInv'
<1>1. \A flag \in {"--devices", "--tensor-split"} :
        Len(ListOf(flag)) \in Nat /\ IsList(ListOf(flag), Len(ListOf(flag)))
  <2>1. Len(<<>>) \in Nat /\ IsList(<<>>, Len(<<>>))
    BY EmptySeq DEF IsList
  <2> QED BY <2>1, PartsAreAList DEF ListOf, Given, OptionsInv
<1>2. NumberOf("--ctx", 4096) \in Nat \ {0}
  <2>1. Given("--ctx") => Number[options["--ctx"]] \in Int
    BY LinesTyped DEF Given, OptionsInv, Numeric
  <2> QED BY <2>1 DEF ConfigOk, NumberOf
<1> DEFINE shares == ListOf("--tensor-split")
           split == [i \in DOMAIN shares |-> Number[shares[i]]]
<1>3. DOMAIN shares = 1..Len(shares) /\ Len(shares) \in Nat
  BY <1>1, ListIsSeq
<1> HIDE DEF shares
<1>4. IsList(split, Len(shares))
  BY <1>3 DEF IsList
<1> HIDE DEF split
<1>5. Len(split) \in Nat /\ IsList(split, Len(split))
  BY <1>3, <1>4, ListKeepsLength
<1>6. /\ config'.n_ctx = NumberOf("--ctx", 4096) /\ config'.devices = ListOf("--devices")
      /\ config'.tensor_split = split
  BY DEF to_config, split, shares
<1> QED BY <1>1, <1>2, <1>5, <1>6 DEF ConfigInv

\* Reading a flag keeps every text as it was given.
LEMMA ReadKeepsOptions ==
  ASSUME OptionsInv, Read
  PROVE  OptionsInv'
<1>1. CASE UNCHANGED <<at, options>>
  BY <1>1 DEF Read, OptionsInv
<1> DEFINE flag == Flag(argv[at + 1])
           value == IF flag \in Valued THEN argv[at + 2] ELSE <<>>
<1>2. CASE /\ Readable(flag) /\ options' = Recorded(flag, value)
           /\ at' = at + Consumed(flag)
  <2> HIDE DEF flag
  <2>1. Len(argv) \in Nat
    BY LenProperties DEF OptionsInv
  <2>2. flag \in Valued => at + 2 \in 1..Len(argv)
    BY <1>2, <2>1 DEF Readable, OptionsInv, Valued, Numeric, Switches
  <2>3. value \in Seq(STRING)
    BY <2>2, ElementOfSeq, EmptySeq DEF OptionsInv
  <2>4. flag \in Numeric => value \in DOMAIN Number
    BY <1>2 DEF Readable, parse_number, Valued, Numeric, Switches
  <2> HIDE DEF value
  <2>5. /\ DOMAIN options' = DOMAIN options \cup {flag}
        /\ \A f \in DOMAIN options' : options'[f] = IF f = flag THEN value ELSE options[f]
    BY <1>2 DEF Recorded
  <2>6. at' \in Nat /\ argv' = argv
    BY <1>2 DEF Read, OptionsInv, Consumed
  <2> QED BY <2>3, <2>4, <2>5, <2>6 DEF OptionsInv
<1> QED BY <1>1, <1>2 DEF Read

-----------------------------------------------------------------------------
(* Every action keeps the invariant *)

\* A freshly started program has nothing yet.
LEMMA InitEstablishes == Init => IInv
<1> SUFFICES ASSUME Init PROVE IInv
  OBVIOUS
<1>1. OptionsInv
  BY LinesTyped DEF Init, OptionsInv
<1>2. ConfigInv
  <2>1. Len(<<>>) \in Nat /\ IsList(<<>>, Len(<<>>))
    BY EmptySeq DEF IsList
  <2> QED BY <2>1 DEF Init, Unset, ConfigInv
<1>3. DevicesInv /\ HeldInv /\ StageInv /\ MemoryInv /\ PoolingInv
  BY DEF Init, DevicesInv, HeldInv, StageInv, MemoryInv, PoolingInv, Phases, Loaded, Equipped, Measured
<1> QED BY <1>1, <1>2, <1>3 DEF IInv

\* Until the model is loaded there is nothing to hold, whatever main() does.
LEMMA EarlyKeepsInvariant ==
  ASSUME IInv, ctx = <<>>, ~model, memory = 0, UNCHANGED <<model, contexts, ctx, memory>>,
         phase' \in {"args", "devices", "unwind", "off"}, OptionsInv', ConfigInv'
  PROVE  IInv'
<1>1. DevicesInv' /\ HeldInv' /\ MemoryInv'
  BY DEF IInv, DevicesInv, HeldInv, MemoryInv
<1>2. StageInv' /\ PoolingInv'
  BY DEF StageInv, PoolingInv, Phases, Loaded, Equipped, Measured
<1> QED BY <1>1, <1>2 DEF IInv

\* Reading and interpreting the command line.
LEMMA CommandLineKeepsInvariant ==
  ASSUME IInv, Read \/ Interpret
  PROVE  IInv'
<1>1. /\ ctx = <<>> /\ ~model /\ memory = 0 /\ UNCHANGED <<model, contexts, ctx, memory>>
  BY DEF Read, Interpret, IInv, StageInv, MemoryInv, impl
<1>2. CASE Read
  <2>1. OptionsInv'
    BY <1>2, ReadKeepsOptions DEF IInv
  <2>2. ConfigInv' /\ phase' \in {"args", "off"}
    BY <1>2 DEF Read, Leave, IInv, ConfigInv
  <2> QED BY <1>1, <2>1, <2>2, EarlyKeepsInvariant
<1>3. CASE Interpret
  <2>1. OptionsInv'
    BY <1>3 DEF Interpret, cli, IInv, OptionsInv
  <2>2. phase' \in {"devices", "off"}
    BY <1>3 DEF Interpret, Leave
  <2>3. UNCHANGED config \/ (ConfigOk /\ config' = to_config)
    BY <1>3 DEF Interpret
  <2>4. ConfigInv'
    BY <2>3, ConfigIsSound DEF IInv, ConfigInv
  <2> QED BY <1>1, <2>1, <2>2, <2>4, EarlyKeepsInvariant
<1> QED BY <1>2, <1>3

\* A step that leaves the flags, the configuration and the devices alone.
LEMMA SettingsKept ==
  ASSUME IInv, UNCHANGED <<cli, config, machine, offload>>, phase' # "load", model' => model
  PROVE  OptionsInv' /\ ConfigInv' /\ DevicesInv'
<1>1. OptionsInv' /\ ConfigInv'
  BY DEF IInv, OptionsInv, ConfigInv, cli
<1>2. DevicesInv'
  BY DEF IInv, DevicesInv, select_offload_devices, SplitFits
<1> QED BY <1>1, <1>2

\* Only what passes every check is loaded onto.
LEMMA SelectDevicesKeepsInvariant ==
  ASSUME IInv, SelectDevices
  PROVE  IInv'
<1>1. /\ ctx = <<>> /\ ~model /\ memory = 0 /\ UNCHANGED <<model, contexts, ctx, memory, config>>
  BY DEF SelectDevices, IInv, StageInv, MemoryInv
<1>2. OptionsInv' /\ ConfigInv'
  BY DEF SelectDevices, IInv, OptionsInv, ConfigInv, cli
<1>3. CASE phase' = "unwind"
  BY <1>1, <1>2, <1>3, EarlyKeepsInvariant
<1>4. CASE /\ phase' = "load" /\ offload' = select_offload_devices(machine')
           /\ Selectable(offload') /\ SplitFits(offload')
  <2>1. DevicesInv'
    BY <1>1, <1>4 DEF SelectDevices, DevicesInv, select_offload_devices, SplitFits
  <2>2. HeldInv' /\ MemoryInv'
    BY <1>1 DEF IInv, HeldInv, MemoryInv
  <2>3. StageInv' /\ PoolingInv'
    BY <1>1, <1>4 DEF StageInv, PoolingInv, Phases, Loaded, Equipped, Measured
  <2> QED BY <1>2, <2>1, <2>2, <2>3 DEF IInv
<1> QED BY <1>3, <1>4 DEF SelectDevices, Throw

\* A file that does not load leaves no model, one without a vocabulary leaves it to ~Impl.
LEMMA LoadKeepsInvariant ==
  ASSUME IInv, Load
  PROVE  IInv'
<1>1. /\ phase = "load" /\ ctx = <<>> /\ memory = 0 /\ UNCHANGED <<contexts, ctx, memory>>
      /\ gguf' \in Ggufs /\ model' = gguf'.loads
  BY DEF Load, IInv, StageInv, MemoryInv
<1>2. phase' = "unwind" \/ (phase' = "generation" /\ model')
  BY <1>1 DEF Load, Throw
<1>3. OptionsInv' /\ ConfigInv'
  BY DEF Load, IInv, OptionsInv, ConfigInv, cli
<1>4. DevicesInv'
  BY <1>1, <1>2 DEF Load, IInv, DevicesInv, select_offload_devices, SplitFits
<1>5. HeldInv' /\ MemoryInv'
  BY <1>1 DEF IInv, HeldInv, MemoryInv
<1>6. StageInv' /\ PoolingInv'
  BY <1>1, <1>2 DEF StageInv, PoolingInv, Phases, Loaded, Equipped, Measured
<1> QED BY <1>3, <1>4, <1>5, <1>6 DEF IInv

\* What llama_init_from_model leaves when there was no context.
LEMMA InitFromModelHolds ==
  ASSUME IInv, model, model' = model, ctx = <<>>,
         NEW shape \in {"generation", "default"}, llama_init_from_model(shape)
  PROVE  HeldInv' /\ (ctx' # <<>> => ctx'[1].shape = shape)
<1>1. contexts = {}
  BY DEF IInv, HeldInv
<1>2. CASE UNCHANGED <<contexts, ctx>>
  BY <1>1, <1>2 DEF HeldInv
<1>3. ASSUME NEW n \in {0, config.n_ctx},
             ctx' = <<[shape |-> shape, n_ctx_seq |-> n, n_batch |-> n_batch,
                       n_ubatch |-> IF shape = "generation" THEN n_batch ELSE n_ubatch]>>,
             contexts' = contexts \cup {shape}
      PROVE  HeldInv' /\ (ctx' # <<>> => ctx'[1].shape = shape)
  <2>1. n \in Nat
    BY <1>3 DEF IInv, ConfigInv
  <2>2. n_batch \in Nat /\ n_ubatch \in Nat
    BY SizesTyped
  <2> DEFINE r == [shape |-> shape, n_ctx_seq |-> n, n_batch |-> n_batch,
                   n_ubatch |-> IF shape = "generation" THEN n_batch ELSE n_ubatch]
  <2>3. r \in Context /\ r.shape = shape /\ (shape = "default" => r.n_ubatch = n_ubatch)
    BY <2>1, <2>2 DEF Context
  <2>4. ctx' = <<r>> /\ contexts' = {shape}
    BY <1>1, <1>3
  <2> HIDE DEF r
  <2>5. ctx'[1] = r
    BY <2>4
  <2> QED BY <2>3, <2>4, <2>5 DEF HeldInv
<1> QED BY <1>2, <1>3 DEF llama_init_from_model

\* Freeing the one context leaves none.
LEMMA FreeLeavesNone ==
  ASSUME IInv, ctx # <<>>, llama_free
  PROVE  ctx' = <<>> /\ contexts' = {}
BY DEF IInv, HeldInv, llama_free

\* The first context, the one shaped for generation.
LEMMA InitGenerationKeepsInvariant ==
  ASSUME IInv, InitGeneration
  PROVE  IInv'
<1>1. /\ phase = "generation" /\ phase' = "pooling" /\ ctx = <<>> /\ model /\ gguf \in Ggufs
      /\ UNCHANGED <<cli, config, machine, offload, gguf, model, memory>>
  BY DEF InitGeneration, IInv, StageInv, Loaded
<1>2. OptionsInv' /\ ConfigInv' /\ DevicesInv'
  BY <1>1, SettingsKept
<1>3. HeldInv'
  BY <1>1, InitFromModelHolds DEF InitGeneration
<1>4. StageInv' /\ MemoryInv' /\ PoolingInv'
  BY <1>1 DEF IInv, StageInv, MemoryInv, PoolingInv, Phases, Loaded, Equipped, Measured
<1> QED BY <1>2, <1>3, <1>4 DEF IInv

\* A model that pools loses that context.
LEMMA DropPoolingKeepsInvariant ==
  ASSUME IInv, DropPooling
  PROVE  IInv'
<1>1. /\ phase = "pooling" /\ phase' = "default" /\ model /\ gguf \in Ggufs
      /\ UNCHANGED <<cli, config, machine, offload, gguf, model, memory>>
  BY DEF DropPooling, IInv, StageInv, Loaded
<1>2. OptionsInv' /\ ConfigInv' /\ DevicesInv'
  BY <1>1, SettingsKept
<1>3. HeldInv' /\ (gguf.pooling # "none" => ctx' = <<>>)
  <2>1. CASE Misshapen
    BY <2>1, FreeLeavesNone DEF DropPooling, Misshapen, HeldInv
  <2>2. CASE ~Misshapen
    BY <1>1, <2>2 DEF DropPooling, Misshapen, IInv, HeldInv
  <2> QED BY <2>1, <2>2
<1>4. StageInv' /\ MemoryInv' /\ PoolingInv'
  BY <1>1, <1>3 DEF IInv, StageInv, MemoryInv, PoolingInv, Phases, Loaded, Equipped, Measured
<1> QED BY <1>2, <1>3, <1>4 DEF IInv

\* Whoever has no context by then gets the default one, or throws.
LEMMA InitDefaultKeepsInvariant ==
  ASSUME IInv, InitDefault
  PROVE  IInv'
<1>1. /\ phase = "default" /\ model /\ gguf \in Ggufs
      /\ (phase' = "measure" /\ ctx' # <<>>) \/ phase' = "unwind"
      /\ UNCHANGED <<cli, config, machine, offload, gguf, model, memory>>
  BY DEF InitDefault, IInv, StageInv, Loaded, Throw
<1>2. OptionsInv' /\ ConfigInv' /\ DevicesInv'
  BY <1>1, SettingsKept
<1>3. HeldInv' /\ (gguf.pooling # "none" => ctx' = <<>> \/ ctx'[1].shape = "default")
  <2>1. CASE ctx = <<>>
    BY <1>1, <2>1, InitFromModelHolds DEF InitDefault
  <2>2. CASE ctx # <<>>
    BY <1>1, <2>2 DEF InitDefault, IInv, HeldInv, PoolingInv
  <2> QED BY <2>1, <2>2
<1>4. StageInv' /\ MemoryInv'
  BY <1>1 DEF IInv, StageInv, MemoryInv, Phases, Loaded, Equipped
<1>5. PoolingInv'
  BY <1>1, <1>3 DEF PoolingInv, Equipped, Measured
<1> QED BY <1>2, <1>3, <1>4, <1>5 DEF IInv

\* The least of an input's bounds is what an input can have.
LEMMA LimitIsLeast ==
  ASSUME NEW a \in Nat \ {0}, NEW b \in Nat \ {0}, NEW train \in Int
  PROVE  LET most == Min({a, b} \cup (IF train > 0 THEN {train} ELSE {}))
         IN  /\ most \in Nat \ {0}
             /\ \A n \in Nat \ {0} : n <= most <=> n <= a /\ n <= b /\ ~(train \in 1..(n - 1))
<1> DEFINE S == {a, b} \cup (IF train > 0 THEN {train} ELSE {})
<1>1. S \subseteq Nat /\ S # {}
  OBVIOUS
<1>2. \A x \in S : x # 0
  OBVIOUS
<1>3. a \in S /\ b \in S /\ (train > 0 => train \in S) /\ \A x \in S : x = a \/ x = b \/ (train > 0 /\ x = train)
  OBVIOUS
<1> HIDE DEF S
<1>4. Min(S) \in S /\ \A y \in S : Min(S) <= y
  BY <1>1, LeastMember
<1>5. Min(S) \in Nat \ {0}
  BY <1>1, <1>2, <1>4
<1>6. ASSUME NEW n \in Nat \ {0}
      PROVE  n <= Min(S) <=> n <= a /\ n <= b /\ ~(train \in 1..(n - 1))
  BY <1>3, <1>4, <1>5
<1> QED BY <1>5, <1>6 DEF S

\* The context's own sizes decide whether there is a limit, and which.
LEMMA MeasureKeepsInvariant ==
  ASSUME IInv, Measure
  PROVE  IInv'
<1>1. /\ phase = "measure" /\ model /\ gguf \in Ggufs /\ ctx # <<>>
      /\ UNCHANGED <<cli, config, machine, offload, gguf, model, contexts, ctx, memory>>
  BY DEF Measure, IInv, StageInv, Loaded, Equipped
<1>2. \/ phase' = "unwind"
      \/ /\ phase' = "warm" /\ ctx[1].n_ctx_seq # 0 /\ ctx[1].n_batch # 0
         /\ limit' = IF gguf.pooling = "none" THEN 0
                     ELSE Min({ctx[1].n_ubatch, ctx[1].n_ctx_seq}
                                \cup (IF gguf.train > 0 THEN {gguf.train} ELSE {}))
  BY DEF Measure, Throw
<1>3. OptionsInv' /\ ConfigInv' /\ DevicesInv'
  BY <1>1, <1>2, SettingsKept
<1>4. HeldInv' /\ StageInv' /\ MemoryInv'
  BY <1>1, <1>2 DEF IInv, HeldInv, StageInv, MemoryInv, Phases, Loaded, Equipped
<1>5. CASE phase' = "unwind"
  <2>1. PoolingInv'
    BY <1>5 DEF PoolingInv, Equipped, Measured
  <2> QED BY <1>3, <1>4, <2>1 DEF IInv
<1>6. CASE phase' = "warm"
  <2>1. ctx[1] \in Context /\ (ctx[1].shape = "default" => ctx[1].n_ubatch = n_ubatch)
    BY <1>1 DEF IInv, HeldInv
  <2>2. /\ ctx[1].n_ctx_seq \in Nat \ {0} /\ ctx[1].n_batch \in Nat \ {0} /\ ctx[1].n_ubatch \in Nat
        /\ gguf.train \in Int
    BY <1>1, <1>2, <1>6, <2>1, FilesTyped DEF Context
  <2>3. gguf.pooling # "none" => ctx[1].shape = "default" /\ ctx[1].n_ubatch \in Nat \ {0}
    BY <1>1, <2>1, SizesTyped DEF IInv, PoolingInv, Equipped
  <2>4. CASE gguf.pooling = "none"
    <3>1. PoolingInv'
      BY <1>1, <1>2, <1>6, <2>2, <2>4 DEF PoolingInv, Equipped, Measured
    <3> QED BY <1>3, <1>4, <3>1 DEF IInv
  <2>5. CASE gguf.pooling # "none"
    <3>1. limit' = Min({ctx[1].n_ubatch, ctx[1].n_ctx_seq} \cup (IF gguf.train > 0 THEN {gguf.train} ELSE {}))
      BY <1>2, <1>6, <2>5
    <3>2. /\ limit' \in Nat \ {0}
          /\ \A n \in Nat \ {0} : n <= limit' <=> /\ n <= ctx[1].n_ubatch /\ n <= ctx[1].n_ctx_seq
                                                  /\ ~(gguf.train \in 1..(n - 1))
      BY <2>2, <2>3, <2>5, <3>1, LimitIsLeast
    <3>3. \A n \in Nat \ {0} : n <= limit' <=> Takes(n)'
      BY <1>1, <3>2 DEF Takes
    <3>4. PoolingInv'
      BY <1>1, <1>6, <2>2, <2>3, <2>5, <3>2, <3>3 DEF PoolingInv, Equipped, Measured
    <3> QED BY <1>3, <1>4, <3>4 DEF IInv
  <2> QED BY <2>4, <2>5
<1> QED BY <1>2, <1>5, <1>6

\* The rest of the constructor and of main(): what is measured stays, and the memory is
\* empty again before anybody is served.
LEMMA LateKeepsInvariant ==
  ASSUME IInv, WarmUp \/ Clear \/ ChatTemplate \/ ChatTemplateThrows \/ Stop
  PROVE  IInv'
<1>1. /\ phase \in Measured /\ model /\ gguf \in Ggufs /\ ctx # <<>>
      /\ UNCHANGED <<cli, config, machine, offload, gguf, model, contexts, ctx, limit>>
  BY DEF WarmUp, Clear, ChatTemplate, ChatTemplateThrows, Stop, Measured, IInv, StageInv, Loaded, Equipped,
     Leave, impl, cli
<1>2. /\ phase' \in {"clear", "template", "ready", "unwind", "off"}
      /\ phase' = "off" => code' = "abort"
  BY DEF WarmUp, Clear, ChatTemplate, ChatTemplateThrows, Stop, Leave
<1>3. memory' = 0 \/ phase' \in {"clear", "unwind", "off"}
  BY DEF WarmUp, Clear, ChatTemplate, ChatTemplateThrows, Stop, Leave, IInv, MemoryInv, impl
<1>4. phase' = "ready" => (serves' = "embedding" <=> limit' > 0)
  BY DEF WarmUp, Clear, ChatTemplate, ChatTemplateThrows, Stop, Leave, impl
<1>5. OptionsInv' /\ ConfigInv' /\ DevicesInv'
  BY <1>1, <1>2, SettingsKept
<1>6. HeldInv' /\ StageInv' /\ MemoryInv'
  BY <1>1, <1>2, <1>3 DEF IInv, HeldInv, StageInv, MemoryInv, Phases, Loaded, Equipped
<1>7. PoolingInv'
  BY <1>1, <1>2, <1>4 DEF IInv, PoolingInv, Equipped, Measured, Takes
<1> QED BY <1>5, <1>6, <1>7 DEF IInv

\* ~Impl, the context first.
LEMMA UnwindKeepsInvariant ==
  ASSUME IInv, FreeContext \/ FreeModel
  PROVE  IInv'
<1>1. /\ phase = "unwind" /\ phase' \in {"unwind", "off"} /\ (model' => model)
      /\ UNCHANGED <<cli, config, machine, offload>>
  BY DEF FreeContext, FreeModel
<1>2. OptionsInv' /\ ConfigInv' /\ DevicesInv'
  BY <1>1, SettingsKept
<1>3. CASE FreeContext
  <2>1. ctx' = <<>> /\ contexts' = {} /\ phase' = "unwind"
    BY <1>1, <1>3, FreeLeavesNone DEF FreeContext
  <2>2. HeldInv' /\ StageInv' /\ MemoryInv' /\ PoolingInv'
    BY <2>1 DEF HeldInv, StageInv, MemoryInv, PoolingInv, Phases, Loaded, Equipped, Measured
  <2> QED BY <1>2, <2>2 DEF IInv
<1>4. CASE FreeModel
  <2>1. ctx = <<>> /\ contexts = {} /\ UNCHANGED <<ctx, contexts>> /\ phase' = "off" /\ ~model'
    BY <1>4 DEF FreeModel, IInv, HeldInv
  <2>2. HeldInv' /\ StageInv' /\ MemoryInv' /\ PoolingInv'
    BY <2>1 DEF HeldInv, StageInv, MemoryInv, PoolingInv, Phases, Loaded, Equipped, Measured
  <2> QED BY <1>2, <2>2 DEF IInv
<1> QED BY <1>3, <1>4

\* The invariant is inductive, whichever step fails.
LEMMA NextKeepsInvariant == IInv /\ [Next]_vars => IInv'
<1> SUFFICES ASSUME IInv, [Next]_vars PROVE IInv'
  OBVIOUS
<1>1. CASE UNCHANGED vars
  <2>1. OptionsInv' /\ ConfigInv' /\ DevicesInv'
    BY <1>1 DEF vars, cli, impl, IInv, OptionsInv, ConfigInv, DevicesInv, select_offload_devices, SplitFits
  <2>2. HeldInv' /\ StageInv' /\ MemoryInv' /\ PoolingInv'
    BY <1>1 DEF vars, impl, IInv, HeldInv, StageInv, MemoryInv, PoolingInv, Takes
  <2> QED BY <2>1, <2>2 DEF IInv
<1> QED BY <1>1, CommandLineKeepsInvariant, SelectDevicesKeepsInvariant, LoadKeepsInvariant,
           InitGenerationKeepsInvariant, DropPoolingKeepsInvariant, InitDefaultKeepsInvariant,
           MeasureKeepsInvariant, LateKeepsInvariant, UnwindKeepsInvariant DEF Next

\* The inductive invariant holds throughout: on the way up, while serving and on the way
\* down, from whatever point a step failed at.
THEOREM Invariance == Spec => []IInv
BY InitEstablishes, NextKeepsInvariant, PTL DEF Spec

-----------------------------------------------------------------------------
(* What main() and the engine's constructor guarantee *)

\* However far the constructor got: at most one context, never without its model, and
\* nothing left when main() returns.
THEOREM EverythingIsFreed == Spec => []NothingOutlives
<1>1. IInv => NothingOutlives
  <2> SUFFICES ASSUME IInv PROVE NothingOutlives
    OBVIOUS
  <2>1. Cardinality(contexts) \in {0, 1}
    BY FS_EmptySet, FS_Singleton DEF IInv, HeldInv
  <2>2. contexts # {} => model
    BY DEF IInv, HeldInv
  <2>3. phase = "off" /\ code # "abort" => ~model
    BY DEF IInv, StageInv
  <2> QED BY <2>1, <2>2, <2>3 DEF NothingOutlives
<1> QED BY <1>1, Invariance, PTL

\* A daemon that serves has an empty memory, a context that fits what its model does,
\* and a limit that is exactly what an input can have.
THEOREM ServesFit == Spec => []FitToServe
<1>1. ASSUME IInv, phase = "ready"
      PROVE  /\ memory = 0 /\ ctx[1].n_ctx_seq > 0 /\ ctx[1].n_batch > 0
             /\ serves = "embedding" <=> gguf.pooling # "none"
             /\ serves = "embedding" =>
                  /\ ctx[1].shape = "default"
                  /\ \A n \in 1..(n_batch + 1) :
                       n <= limit <=> n <= n_ubatch /\ n <= ctx[1].n_ctx_seq /\ ~(gguf.train \in 1..(n - 1))
  <2>1. memory = 0
    BY <1>1 DEF IInv, MemoryInv
  <2>2. /\ ctx[1].n_ctx_seq > 0 /\ ctx[1].n_batch > 0 /\ limit \in Nat
        /\ limit = 0 <=> gguf.pooling = "none"
        /\ gguf.pooling # "none" => \A n \in Nat \ {0} : n <= limit <=> Takes(n)
        /\ serves = "embedding" <=> limit > 0
    BY <1>1 DEF IInv, PoolingInv, Measured
  <2>3. serves = "embedding" <=> gguf.pooling # "none"
    BY <2>2
  <2>4. ASSUME serves = "embedding"
        PROVE  ctx[1].shape = "default" /\ ctx[1].n_ubatch = n_ubatch
    BY <1>1, <2>3, <2>4 DEF IInv, PoolingInv, StageInv, HeldInv, Equipped
  <2>5. \A n \in 1..(n_batch + 1) : n \in Nat \ {0}
    BY SizesTyped
  <2> QED BY <2>1, <2>2, <2>3, <2>4, <2>5 DEF Takes
<1>2. IInv => FitToServe
  BY <1>1 DEF FitToServe
<1> QED BY <1>2, Invariance, PTL

\* The devices chosen make a list, by name or by default.
LEMMA ChosenAreAList ==
  ASSUME ConfigInv, NEW devices \in Machines
  PROVE  LET chosen == select_offload_devices(devices)
         IN  /\ Len(chosen) \in Nat /\ IsList(chosen, Len(chosen))
             /\ config.devices # <<>> => Len(chosen) = Len(config.devices)
<1> DEFINE chosen == select_offload_devices(devices)
<1>1. CASE config.devices = <<>>
  <2>1. ASSUME NEW type
        PROVE  Len(OfType(devices, type)) \in Nat /\ IsList(OfType(devices, type), Len(OfType(devices, type)))
    <3> DEFINE S == {i \in DOMAIN devices : devices[i].type = type}
    <3>1. Len(devices) \in Nat /\ DOMAIN devices = 1..Len(devices)
      BY HardwareTyped, LenProperties
    <3>2. S \subseteq 1..Len(devices)
      BY <3>1
    <3> HIDE DEF S
    <3>3. S \in SUBSET (0..Len(devices))
      BY <3>1, <3>2
    <3>4. InOrder(S) \in [1..Cardinality(S) -> S] /\ Cardinality(S) \in Nat
      BY <3>1, <3>3, InOrderLists
    <3>5. IsList(InOrder(S), Cardinality(S))
      BY <3>4 DEF IsList
    <3>6. OfType(devices, type) = InOrder(S)
      BY DEF OfType, S
    <3> QED BY <3>4, <3>5, <3>6, ListKeepsLength
  <2>2. chosen = OfType(devices, "igpu") \/ chosen = OfType(devices, "gpu")
    BY <1>1 DEF select_offload_devices, default_offload_devices
  <2> QED BY <1>1, <2>1, <2>2
<1>2. CASE config.devices # <<>>
  <2>1. chosen = [i \in DOMAIN config.devices |-> Named(devices, config.devices[i])]
    BY <1>2 DEF select_offload_devices
  <2>2. DOMAIN config.devices = 1..Len(config.devices) /\ Len(config.devices) \in Nat
    BY ListIsSeq DEF ConfigInv
  <2>3. IsList(chosen, Len(config.devices))
    BY <2>1, <2>2 DEF IsList
  <2> HIDE DEF chosen
  <2>4. Len(chosen) = Len(config.devices)
    BY <2>2, <2>3, ListIsSeq
  <2> QED BY <2>2, <2>3, <2>4 DEF chosen
<1> QED BY <1>1, <1>2

\* A device that was found has the name it was found by.
LEMMA NamedIsNamed ==
  ASSUME NEW devices \in Machines, NEW name, Named(devices, name) # 0
  PROVE  <<devices[Named(devices, name)].name>> = name
<1> DEFINE found == {i \in DOMAIN devices : <<devices[i].name>> = name}
<1>1. Len(devices) \in Nat /\ DOMAIN devices = 1..Len(devices)
  BY HardwareTyped, LenProperties
<1>2. found \subseteq Nat
  BY <1>1
<1>3. Named(devices, name) = IF found = {} THEN 0 ELSE Min(found)
  BY DEF Named
<1> HIDE DEF found
<1>4. Named(devices, name) \in found
  BY <1>2, <1>3, LeastMember
<1> QED BY <1>4 DEF found

\* A list without repetitions has as many members as elements.
LEMMA DistinctCount ==
  ASSUME NEW n \in Nat, NEW f, IsList(f, n), IsInjective(f)
  PROVE  Cardinality(Range(f)) = n
<1>1. DOMAIN f = 1..n /\ f \in [1..n -> Range(f)]
  BY DEF IsList, Range
<1>2. f \in Bijection(1..n, Range(f))
  BY <1>1 DEF Bijection, Injection, Surjection, IsInjective, Range
<1>3. ExistsBijection(1..n, Range(f))
  BY <1>2 DEF ExistsBijection
<1> QED BY <1>3, FS_CountingElements

\* When the model is loaded every share of the tensor split has a device of its own.
THEOREM SharesFit == Spec => []SharesFitDevices
<1>1. ASSUME IInv, model
      PROVE  /\ Cardinality(Range(offload)) = Len(offload)
             /\ \A i \in DOMAIN config.devices : <<machine[offload[i]].name>> = config.devices[i]
             /\ \A i \in DOMAIN config.tensor_split : config.tensor_split[i] > 0 => i \in DOMAIN offload
             /\ config.tensor_split # <<>> => \E i \in DOMAIN offload \cap DOMAIN config.tensor_split :
                                                 config.tensor_split[i] > 0
  <2>1. /\ machine \in Machines /\ offload = select_offload_devices(machine)
        /\ Selectable(offload) /\ SplitFits(offload) /\ ConfigInv
    BY <1>1 DEF IInv, DevicesInv
  <2>2. Len(offload) \in Nat /\ IsList(offload, Len(offload))
    BY <2>1, ChosenAreAList
  <2>3. DOMAIN offload = 1..Len(offload)
    BY <2>2, ListIsSeq
  <2>4. Cardinality(Range(offload)) = Len(offload)
    BY <2>1, <2>2, DistinctCount DEF Selectable
  <2>5. ASSUME NEW i \in DOMAIN config.devices
        PROVE  <<machine[offload[i]].name>> = config.devices[i]
    <3>1. DOMAIN config.devices = 1..Len(config.devices) /\ Len(config.devices) \in Nat
      BY <2>1, ListIsSeq DEF ConfigInv
    <3>2. config.devices # <<>>
      BY <2>5
    <3>3. offload[i] = Named(machine, config.devices[i]) /\ i \in DOMAIN offload
      BY <2>1, <2>5, <3>2 DEF select_offload_devices
    <3>4. offload[i] # 0
      BY <2>1, <3>3 DEF Selectable, Range
    <3> QED BY <2>1, <3>3, <3>4, NamedIsNamed
  <2>6. DOMAIN config.tensor_split = 1..Len(config.tensor_split) /\ Len(config.tensor_split) \in Nat
    BY <2>1, ListIsSeq DEF ConfigInv
  <2>7. config.tensor_split # <<>> =>
          /\ Len(config.tensor_split) <= Len(offload)
          /\ \E i \in DOMAIN config.tensor_split : config.tensor_split[i] > 0
    BY <2>1 DEF SplitFits
  <2>8. DOMAIN config.tensor_split \subseteq DOMAIN offload
    <3>1. CASE config.tensor_split = <<>>
      BY <3>1
    <3>2. CASE config.tensor_split # <<>>
      BY <2>2, <2>3, <2>6, <2>7, <3>2
    <3> QED BY <3>1, <3>2
  <2> QED BY <2>4, <2>5, <2>7, <2>8
<1>2. IInv => SharesFitDevices
  BY <1>1 DEF SharesFitDevices
<1> QED BY <1>2, Invariance, PTL


-----------------------------------------------------------------------------
(* The command line and the configuration *)

\* F is where the flags are in what has been read, and the options are theirs: each
\* flag that takes a value has the one behind its last place.
Walked(F) ==
  /\ \A i \in 1..at : i \in F <=> ~(i - 1 \in F /\ Flag(argv[i - 1]) \in Valued)
  /\ at \in F => Flag(argv[at]) \notin Valued
  /\ \A i \in F : Flag(argv[i]) \in DOMAIN options
  /\ \A f \in DOMAIN options :
       /\ f \in Switches \cup Valued
       /\ \E i \in F : /\ Flag(argv[i]) = f /\ \A j \in F : Flag(argv[j]) = f => j <= i
                       /\ f \in Valued => options[f] = argv[i + 1]

\* What has been read is a whole number of flags with their values.
LineInv == at <= Len(argv) /\ \E F \in SUBSET (1..at) : Walked(F)

\* Past parse_command_line and to_config, the whole line was read and accepted.
SettledInv ==
  phase \notin {"args", "off"} =>
    /\ at = Len(argv) /\ ConfigOk /\ config = to_config
    /\ DOMAIN options \cap Switches = {}
    /\ Given("--model") /\ options["--model"] # <<>>

\* A flag that is read is one more place, and its value is skipped.
LEMMA ReadKeepsLine ==
  ASSUME OptionsInv, LineInv, Read
  PROVE  LineInv'
<1>1. at \in Nat /\ Len(argv) \in Nat /\ argv' = argv /\ at < Len(argv)
  BY LenProperties DEF OptionsInv, Read
<1>2. PICK F \in SUBSET (1..at) : Walked(F)
  BY DEF LineInv
<1>3. CASE UNCHANGED <<at, options>>
  <2>1. Walked(F)'
    BY <1>1, <1>2, <1>3 DEF Walked
  <2> QED BY <1>1, <1>2, <1>3, <2>1 DEF LineInv
<1> DEFINE flag == Flag(argv[at + 1])
           value == IF flag \in Valued THEN argv[at + 2] ELSE <<>>
<1>4. CASE /\ Readable(flag) /\ options' = Recorded(flag, value)
           /\ at' = at + Consumed(flag)
  <2>0. PICK G : G = F \cup {at + 1}
    OBVIOUS
  <2>1. /\ flag \in Switches \cup Valued
        /\ flag \in Valued => at' = at + 2 /\ at + 1 < Len(argv)
        /\ flag \notin Valued => at' = at + 1
    BY <1>4 DEF Readable, Consumed, Switches, Valued, Numeric
  <2>2. at' \in Nat /\ at' <= Len(argv') /\ G \in SUBSET (1..at')
    BY <1>1, <1>2, <2>1, <2>0
  <2>3. \A i \in F : i \in 1..at
    BY <1>2
  <2>4. at + 1 \notin F /\ at + 2 \notin F
    BY <1>1, <2>3
  <2>5. \A i \in 1..at : i \in G <=> i \in F
    BY <1>1, <2>0
  <2>6. \A i \in 1..at' : i \in G <=> ~(i - 1 \in G /\ Flag(argv[i - 1]) \in Valued)
    <3> TAKE i \in 1..at'
    <3>1. CASE i \in 1..at
      <4>1. i - 1 \in G <=> i - 1 \in F
        BY <1>1, <2>0, <3>1
      <4>2. i \in F <=> ~(i - 1 \in F /\ Flag(argv[i - 1]) \in Valued)
        BY <1>2, <3>1 DEF Walked
      <4> QED BY <2>5, <3>1, <4>1, <4>2
    <3>2. CASE i = at + 1
      <4>1. i - 1 = at /\ i \in G /\ (at \in G => at \in F)
        BY <1>1, <2>0, <3>2
      <4>2. at \in F => Flag(argv[at]) \notin Valued
        BY <1>2 DEF Walked
      <4> QED BY <4>1, <4>2
    <3>3. CASE i = at + 2 /\ flag \in Valued
      <4>1. i - 1 = at + 1
        BY <1>1, <3>3
      <4>2. i \notin G
        BY <1>1, <2>4, <2>0, <3>3
      <4> QED BY <2>0, <3>3, <4>1, <4>2
    <3> QED
      <4>1. (at' = at + 2 /\ flag \in Valued) \/ at' = at + 1
        BY <2>1
      <4> QED BY <1>1, <3>1, <3>2, <3>3, <4>1
  <2>7. at' \in G => Flag(argv[at']) \notin Valued
    <3>1. CASE flag \in Valued
      BY <1>1, <2>1, <2>4, <2>0, <3>1
    <3>2. CASE flag \notin Valued
      BY <1>1, <2>1, <2>0, <3>2
    <3> QED BY <3>1, <3>2
  <2>8. /\ DOMAIN options' = DOMAIN options \cup {flag}
        /\ \A f \in DOMAIN options' : options'[f] = IF f = flag THEN value ELSE options[f]
    BY <1>4 DEF Recorded
  <2>9. \A i \in G : Flag(argv[i]) \in DOMAIN options'
    BY <1>2, <2>8, <2>0 DEF Walked
  <2>10. ASSUME NEW f \in DOMAIN options'
         PROVE  \E i \in G : /\ Flag(argv[i]) = f /\ \A j \in G : Flag(argv[j]) = f => j <= i
                             /\ f \in Valued => options'[f] = argv[i + 1]
    <3>1. CASE f = flag
      <4>1. \A j \in G : j <= at + 1
        BY <1>1, <2>3, <2>0
      <4>2. f \in Valued => options'[f] = argv[at + 1 + 1]
        <5>1. at + 1 + 1 = at + 2
          BY <1>1
        <5> QED BY <2>8, <2>10, <3>1, <5>1
      <4> QED BY <2>0, <3>1, <4>1, <4>2
    <3>2. CASE f # flag
      <4>1. f \in DOMAIN options /\ options'[f] = options[f]
        BY <2>8, <2>10, <3>2
      <4>2. PICK i \in F : /\ Flag(argv[i]) = f /\ \A j \in F : Flag(argv[j]) = f => j <= i
                           /\ f \in Valued => options[f] = argv[i + 1]
        BY <1>2, <4>1 DEF Walked
      <4>3. \A j \in G : Flag(argv[j]) = f => j <= i
        BY <2>0, <3>2, <4>2
      <4> QED BY <2>0, <4>1, <4>2, <4>3
    <3> QED BY <3>1, <3>2
  <2>11. \A f \in DOMAIN options' : f \in Switches \cup Valued
    BY <1>2, <2>1, <2>8 DEF Walked
  <2> HIDE DEF flag, value
  <2>12. Walked(G)'
    BY <1>1, <2>6, <2>7, <2>9, <2>10, <2>11 DEF Walked
  <2> QED BY <2>2, <2>12 DEF LineInv
<1> QED BY <1>3, <1>4 DEF Read

\* Nothing after the command line was read changes what it said.
LEMMA LineKept ==
  ASSUME LineInv, UNCHANGED cli
  PROVE  LineInv'
<1>1. PICK F \in SUBSET (1..at) : Walked(F)
  BY DEF LineInv
<1>2. Walked(F)'
  BY <1>1 DEF Walked, cli
<1> QED BY <1>1, <1>2 DEF LineInv, cli

\* A configuration is settled for good.
LEMMA SettledKept ==
  ASSUME SettledInv, UNCHANGED <<cli, config>>, phase \notin {"args", "off"} \/ phase' \in {"args", "off"}
  PROVE  SettledInv'
BY DEF SettledInv, cli, ConfigOk, to_config, NumberOf, ListOf, Given

\* main() goes on to the engine only with a line it accepts.
LEMMA InterpretSettles ==
  ASSUME SettledInv, Interpret
  PROVE  SettledInv'
<1>1. CASE phase' = "off"
  BY <1>1 DEF SettledInv
<1>2. CASE phase' # "off"
  <2>1. /\ at = Len(argv) /\ ConfigOk /\ config' = to_config /\ UNCHANGED cli
        /\ ~Given("--help") /\ ~Given("--version") /\ ~Given("--list-devices")
        /\ Given("--model") /\ options["--model"] # <<>>
    BY <1>2 DEF Interpret, Leave
  <2>2. DOMAIN options \cap Switches = {}
    BY <2>1 DEF Given, Switches
  <2> QED BY <2>1, <2>2 DEF SettledInv, cli, ConfigOk, to_config, NumberOf, ListOf, Given
<1> QED BY <1>1, <1>2

\* The line is walked flag by flag, and what it says is settled before the engine is
\* built.
THEOREM LineInvariance == Spec => [](LineInv /\ SettledInv)
<1>1. Init => LineInv /\ SettledInv
  <2> SUFFICES ASSUME Init PROVE LineInv /\ SettledInv
    OBVIOUS
  <2>1. at = 0 /\ DOMAIN options = {} /\ phase = "args" /\ Len(argv) \in Nat
    BY LinesTyped, LenProperties DEF Init
  <2>2. Walked({})
    BY <2>1 DEF Walked
  <2> QED BY <2>1, <2>2 DEF LineInv, SettledInv
<1>2. IInv /\ LineInv /\ SettledInv /\ [Next]_vars => LineInv' /\ SettledInv'
  <2> SUFFICES ASSUME IInv, LineInv, SettledInv, [Next]_vars PROVE LineInv' /\ SettledInv'
    OBVIOUS
  <2>1. CASE Read
    <3>1. LineInv'
      BY <2>1, ReadKeepsLine DEF IInv
    <3>2. SettledInv'
      BY <2>1 DEF Read, Leave, SettledInv
    <3> QED BY <3>1, <3>2
  <2>2. CASE Interpret
    <3>1. UNCHANGED cli
      BY <2>2 DEF Interpret
    <3> QED BY <2>2, <3>1, LineKept, InterpretSettles
  <2>3. CASE ~Read /\ ~Interpret
    <3>1. UNCHANGED <<cli, config>> /\ (phase \notin {"args", "off"} \/ phase' = phase)
      BY <2>3 DEF Next, vars, SelectDevices, Load, InitGeneration, DropPooling, InitDefault, Measure, WarmUp,
         Clear, ChatTemplate, ChatTemplateThrows, Stop, FreeContext, FreeModel
    <3> QED BY <3>1, LineKept, SettledKept
  <2> QED BY <2>1, <2>2, <2>3
<1> QED BY <1>1, <1>2, Invariance, PTL DEF Spec

\* There is one way to tell the flags of a line from their values.
LEMMA FlagsAreWhereTheyWereRead ==
  ASSUME OptionsInv, at = Len(argv), NEW F \in SUBSET (1..at), Walked(F)
  PROVE  FlagAt = F
<1> DEFINE Fix(G) == \A i \in DOMAIN argv : i \in G <=> ~(i - 1 \in G /\ Flag(argv[i - 1]) \in Valued)
<1>1. at \in Nat /\ DOMAIN argv = 1..at
  BY LenProperties DEF OptionsInv
<1>2. F \in SUBSET DOMAIN argv /\ Fix(F)
  BY <1>1 DEF Walked
<1>3. FlagAt = CHOOSE G \in SUBSET DOMAIN argv : Fix(G)
  BY DEF FlagAt
<1> HIDE DEF Fix
<1>4. FlagAt \in SUBSET DOMAIN argv /\ Fix(FlagAt)
  BY <1>2, <1>3
<1> DEFINE D == {i \in 1..at : ~(i \in F <=> i \in FlagAt)}
<1>5. D = {}
  <2> SUFFICES ASSUME D # {} PROVE FALSE
    OBVIOUS
  <2> DEFINE m == Min(D)
  <2>1. m \in D /\ \A y \in D : m <= y
    <3>1. D \subseteq Nat
      BY <1>1
    <3> HIDE DEF D
    <3> QED BY <3>1, LeastMember
  <2> HIDE DEF m
  <2>2. m \in 1..at /\ m - 1 \notin D
    <3>1. m \in 1..at /\ m \in Int
      BY <1>1, <2>1
    <3> QED BY <2>1, <3>1
  <2>3. m - 1 \in F <=> m - 1 \in FlagAt
    BY <1>1, <1>2, <1>4, <2>2
  <2>4. m \in F <=> m \in FlagAt
    BY <1>1, <1>2, <1>4, <2>2, <2>3 DEF Fix
  <2> QED BY <2>1, <2>4
<1> QED BY <1>1, <1>2, <1>4, <1>5

\* The value behind the last place of a flag is the option that was kept.
LEMMA OptionsAreTheLatest ==
  ASSUME OptionsInv, LineInv, at = Len(argv), NEW flag \in Valued
  PROVE  /\ Given(flag) <=> Places(flag) # {}
         /\ LatestValue(flag) = IF Given(flag) THEN options[flag] ELSE <<>>
<1>1. PICK F \in SUBSET (1..at) : Walked(F)
  BY DEF LineInv
<1>2. FlagAt = F
  BY <1>1, FlagsAreWhereTheyWereRead
<1> DEFINE here == Places(flag)
<1>3. here = {i \in F : Flag(argv[i]) = flag}
  BY <1>2 DEF Places
<1> HIDE DEF here
<1>4. Given(flag) <=> here # {}
  <2>1. Given(flag) <=> \E i \in F : Flag(argv[i]) = flag
    BY <1>1 DEF Walked, Given
  <2> QED BY <1>3, <2>1
<1>5. ASSUME Given(flag)
      PROVE  options[flag] = argv[Max(here) + 1]
  <2>1. PICK i \in F : /\ Flag(argv[i]) = flag /\ \A j \in F : Flag(argv[j]) = flag => j <= i
                       /\ options[flag] = argv[i + 1]
    BY <1>1, <1>5 DEF Walked, Given
  <2>2. i \in here /\ \A j \in here : j <= i
    BY <1>3, <2>1
  <2>3. here \subseteq 0..at /\ at \in Nat
    <3>1. at \in Nat /\ here \subseteq F
      BY <1>3 DEF OptionsInv
    <3>2. \A x \in 1..at : x \in 0..at
      BY <3>1
    <3> QED BY <3>1, <3>2
  <2>4. Max(here) \in here /\ \A y \in here : y <= Max(here)
    BY <2>2, <2>3, GreatestMember
  <2>5. \A x \in here : x \in Int
    BY <2>3
  <2>6. Max(here) \in Int /\ i \in Int /\ i <= Max(here) /\ Max(here) <= i
    BY <2>2, <2>4, <2>5
  <2>7. Max(here) = i
    BY <2>6
  <2> QED BY <2>1, <2>7
<1> QED BY <1>4, <1>5 DEF LatestValue, here

-----------------------------------------------------------------------------
(* Lists *)

\* InOrder leaves nothing out.
LEMMA InOrderListsAll ==
  ASSUME NEW n \in Nat, NEW S \in SUBSET (0..n)
  PROVE  \A x \in S : \E i \in 1..Cardinality(S) : InOrder(S)[i] = x
<1> DEFINE k == Cardinality(S)
           s == InOrder(S)
<1>1. /\ k \in Nat /\ IsFiniteSet(S) /\ s \in [1..k -> S]
      /\ \A i, j \in 1..k : i < j => s[i] < s[j]
  BY InOrderLists
<1> HIDE DEF k, s
<1>2. \A i \in 1..k : s[i] \in Int
  <2>1. \A x \in S : x \in Int
    OBVIOUS
  <2> QED BY <1>1, <2>1
<1>3. \A i, j \in 1..k : s[i] = s[j] => i = j
  BY <1>1, <1>2
<1>4. s \in Injection(1..k, S)
  BY <1>1, <1>3 DEF Injection, IsInjective
<1>5. Cardinality(1..k) = Cardinality(S)
  BY <1>1, FS_Interval DEF k
<1>6. s \in Surjection(1..k, S)
  BY <1>1, <1>4, <1>5, FS_Injection
<1>7. \A x \in S : \E i \in 1..k : s[i] = x
  BY <1>6 DEF Surjection
<1> QED BY <1>7 DEF k, s

\* c cuts a text into n parts: at its ends and at its commas, every one of them.
Cuts(text, n, c) ==
  /\ n \in Nat \ {0} /\ c \in [1..(n + 1) -> 0..(Len(text) + 1)]
  /\ c[1] = 0 /\ c[n + 1] = Len(text) + 1
  /\ \A i, j \in 1..(n + 1) : i < j => c[i] < c[j]
  /\ \A k \in 2..n : c[k] \in DOMAIN text /\ text[c[k]] = Comma
  /\ \A i \in DOMAIN text : text[i] = Comma => \E k \in 2..n : c[k] = i

Between(text, n, c) == [k \in 1..n |-> SubSeq(text, c[k] + 1, c[k + 1] - 1)]

\* split_list cuts so.
LEMMA SplitCuts ==
  ASSUME NEW text \in Seq(STRING)
  PROVE  \E n, c : /\ Cuts(text, n, c)
                   /\ split_list(text) = IF <<>> \in Range(Between(text, n, c)) THEN <<>> ELSE Between(text, n, c)
<1> DEFINE commas == {i \in DOMAIN text : text[i] = Comma}
           end == Len(text) + 1
           S == {0, end} \cup commas
           c == InOrder(S)
           n == Cardinality(S) - 1
<1>1. Len(text) \in Nat /\ DOMAIN text = 1..Len(text) /\ end \in Nat /\ 0 < end
  BY LenProperties
<1>2. 0 \in S /\ end \in S /\ commas \subseteq S /\ \A x \in S : x = 0 \/ x = end \/ x \in commas
  OBVIOUS
<1>3. \A x \in commas : x \in DOMAIN text /\ text[x] = Comma
  OBVIOUS
<1>4. \A i \in DOMAIN text : text[i] = Comma => i \in commas
  OBVIOUS
<1> HIDE DEF commas, S
<1>5. \A x \in S : x \in 0..end
  <2>1. \A x \in 1..Len(text) : x \in 0..end
    BY <1>1
  <2>2. \A x \in commas : x \in 0..end
    BY <1>1, <1>3, <2>1
  <2> QED BY <1>1, <1>2, <2>2
<1> HIDE DEF end
<1>6. S \in SUBSET (0..end)
  BY <1>5, Zenon
<1>7. /\ Cardinality(S) \in Nat /\ IsFiniteSet(S) /\ c \in [1..Cardinality(S) -> S]
      /\ \A i, j \in 1..Cardinality(S) : i < j => c[i] < c[j]
  BY <1>1, <1>6, InOrderLists
<1>8. \A x \in S : \E i \in 1..Cardinality(S) : c[i] = x
  BY <1>1, <1>6, InOrderListsAll
<1> HIDE DEF c
<1>9. PICK a \in 1..Cardinality(S) : c[a] = 0
  BY <1>2, <1>8
<1>10. PICK b \in 1..Cardinality(S) : c[b] = end
  BY <1>2, <1>8
<1>11. \A i \in 1..Cardinality(S) : c[i] \in 0..end
  BY <1>5, <1>7
<1>12. a = 1
  <2>1. ASSUME 1 < a PROVE FALSE
    <3>1. c[1] < c[a] /\ c[1] \in 0..end
      BY <1>7, <1>9, <1>11, <2>1
    <3> QED BY <1>1, <1>9, <3>1
  <2> QED BY <1>7, <1>9, <2>1
<1>13. b = Cardinality(S)
  <2>1. ASSUME b < Cardinality(S) PROVE FALSE
    <3>1. c[b] < c[Cardinality(S)] /\ c[Cardinality(S)] \in 0..end
      BY <1>7, <1>10, <1>11, <2>1
    <3> QED BY <1>1, <1>10, <3>1
  <2> QED BY <1>7, <1>10, <2>1
<1>14. n \in Nat \ {0} /\ n + 1 = Cardinality(S)
  BY <1>1, <1>7, <1>9, <1>10, <1>12, <1>13
<1> HIDE DEF n
<1>15. c \in [1..(n + 1) -> 0..end] /\ c[1] = 0 /\ c[n + 1] = end
  BY <1>7, <1>9, <1>10, <1>11, <1>12, <1>13, <1>14
<1>16. \A i, j \in 1..(n + 1) : i < j => c[i] < c[j]
  BY <1>7, <1>14
<1>17. ASSUME NEW k \in 2..n
       PROVE  c[k] \in DOMAIN text /\ text[c[k]] = Comma
  <2>1. 1 < k /\ k < n + 1 /\ k \in 1..(n + 1) /\ 1 \in 1..(n + 1) /\ n + 1 \in 1..(n + 1)
    BY <1>14
  <2>2. c[1] < c[k] /\ c[k] < c[n + 1] /\ c[k] \in S
    BY <1>7, <1>14, <1>16, <2>1
  <2>3. c[k] # 0 /\ c[k] # end
    BY <1>1, <1>15, <2>2
  <2> QED BY <1>2, <1>3, <2>2, <2>3
<1>18. ASSUME NEW i \in DOMAIN text, text[i] = Comma
       PROVE  \E k \in 2..n : c[k] = i
  <2>1. PICK k \in 1..(n + 1) : c[k] = i
    BY <1>2, <1>4, <1>8, <1>14, <1>18
  <2>2. i # 0 /\ i # end
    <3>1. i \in 1..Len(text)
      BY <1>1
    <3> QED BY <1>1, <3>1 DEF end
  <2>3. k # 1 /\ k # n + 1
    BY <1>15, <2>1, <2>2
  <2> QED BY <1>14, <2>1, <2>3
<1>19. Cuts(text, n, c)
  BY <1>14, <1>15, <1>16, <1>17, <1>18 DEF Cuts, end
<1>20. Len(c) - 1 = n
  <2>1. c \in Seq(0..end) /\ DOMAIN c = 1..(n + 1)
    BY <1>14, <1>15, SeqDef
  <2> QED BY <1>14, <2>1, LenProperties
<1>21. split_list(text) = LET parts == [k \in 1..(Len(c) - 1) |-> SubSeq(text, c[k] + 1, c[k + 1] - 1)]
                          IN  IF <<>> \in Range(parts) THEN <<>> ELSE parts
  BY DEF split_list, commas, end, S, c
<1> QED BY <1>19, <1>20, <1>21 DEF Between

\* A comma between what stands before and behind it.
LEMMA AroundAComma ==
  ASSUME NEW text \in Seq(STRING), NEW a \in 1..Len(text), text[a] = Comma,
         NEW b \in a..Len(text)
  PROVE  SubSeq(text, 1, a - 1) \o <<Comma>> \o SubSeq(text, a + 1, b) = SubSeq(text, 1, b)
<1>1. Len(text) \in Nat /\ 1 \in 1..Len(text)
  BY LenProperties
<1>2. SubSeq(text, 1, a) = SubSeq(text, 1, a - 1) \o <<Comma>>
  BY <1>1, SubSeqRecursiveSecond
<1>3. 1 \in 1..(Len(text) + 1) /\ a \in (1 - 1)..Len(text)
  BY <1>1
<1>4. SubSeq(text, 1, a) \o SubSeq(text, a + 1, b) = SubSeq(text, 1, b)
  BY <1>3, ConcatAdjacentSubSeq
<1> QED BY <1>2, <1>4

\* The parts between the cuts, joined, are the text.
LEMMA PartsJoin ==
  ASSUME NEW text \in Seq(STRING), NEW n, NEW c, Cuts(text, n, c)
  PROVE  Joined(Between(text, n, c)) = text
<1> DEFINE parts == Between(text, n, c)
           E(u) == [k \in 0..n |-> IF k = 0 THEN <<>> ELSE IF k = 1 THEN parts[1]
                                   ELSE u[k - 1] \o <<Comma>> \o parts[k]]
           w == [k \in 0..n |-> IF k = 0 THEN <<>> ELSE SubSeq(text, 1, c[k + 1] - 1)]
           u == CHOOSE g : g = E(g)
<1>1. n \in Nat \ {0} /\ Len(text) \in Nat
  BY LenProperties DEF Cuts
<1>2. IsList(parts, n) /\ Len(parts) = n
  <2>1. IsList(parts, n)
    BY DEF Between, IsList
  <2> HIDE DEF parts
  <2> QED BY <1>1, <2>1, ListIsSeq
<1>3. Joined(parts) = u[n]
  BY <1>2 DEF Joined
<1>4. \A k \in 1..n : parts[k] = SubSeq(text, c[k] + 1, c[k + 1] - 1)
  BY DEF Between
<1> HIDE DEF parts
<1>5. ASSUME NEW k \in 2..n
      PROVE  w[k] = w[k - 1] \o <<Comma>> \o parts[k]
  <2>1. k \in 0..n /\ k - 1 \in 0..n /\ k # 0 /\ k - 1 # 0 /\ k - 1 + 1 = k /\ k \in 1..n
    BY <1>1
  <2>2. c[k] \in 1..Len(text) /\ text[c[k]] = Comma
    BY <1>5, LenProperties DEF Cuts
  <2>3. k \in 1..(n + 1) /\ k + 1 \in 1..(n + 1) /\ k < k + 1
    BY <1>1
  <2>4. c[k] < c[k + 1] /\ c[k + 1] \in 0..(Len(text) + 1)
    <3>1. \A i, j \in 1..(n + 1) : i < j => c[i] < c[j]
      BY DEF Cuts
    <3>2. c \in [1..(n + 1) -> 0..(Len(text) + 1)]
      BY DEF Cuts
    <3> QED BY <2>3, <3>1, <3>2
  <2>5. c[k + 1] - 1 \in c[k]..Len(text)
    BY <1>1, <2>2, <2>4
  <2>6. SubSeq(text, 1, c[k] - 1) \o <<Comma>> \o SubSeq(text, c[k] + 1, c[k + 1] - 1) = SubSeq(text, 1, c[k + 1] - 1)
    BY <2>2, <2>5, AroundAComma
  <2>7. w[k] = SubSeq(text, 1, c[k + 1] - 1) /\ w[k - 1] = SubSeq(text, 1, c[k] - 1)
    BY <2>1
  <2> QED BY <1>4, <2>1, <2>6, <2>7
<1>6. w[0] = <<>> /\ w[1] = parts[1] /\ w[n] = text
  <2>1. 1 \in 1..n /\ n \in 1..n
    BY <1>1
  <2>2. w[0] = <<>> /\ w[1] = SubSeq(text, 1, c[1 + 1] - 1) /\ w[n] = SubSeq(text, 1, c[n + 1] - 1)
    <3>1. 0 \in 0..n /\ \A k \in 1..n : k \in 0..n /\ k # 0
      BY <1>1
    <3>2. \A k \in 0..n : w[k] = IF k = 0 THEN <<>> ELSE SubSeq(text, 1, c[k + 1] - 1)
      BY Zenon
    <3> HIDE DEF w
    <3>3. \A k \in 1..n : w[k] = SubSeq(text, 1, c[k + 1] - 1)
      BY <3>1, <3>2, Zenon
    <3>4. w[0] = <<>>
      BY <3>1, <3>2, Zenon
    <3> QED BY <2>1, <3>3, <3>4, Zenon
  <2>3. c[1] + 1 = 1 /\ c[n + 1] - 1 = Len(text)
    <3>1. c[1] = 0 /\ c[n + 1] = Len(text) + 1
      BY DEF Cuts
    <3> QED BY <1>1, <3>1
  <2> QED BY <1>4, <2>1, <2>2, <2>3, SubSeqFull
<1>7. w = E(w)
  <2>1. w = [k \in 0..n |-> w[k]]
    OBVIOUS
  <2> HIDE DEF w
  <2>2. \A k \in 0..n : k = 0 \/ k = 1 \/ k \in 2..n
    BY <1>1
  <2>3. \A k \in 0..n : w[k] = IF k = 0 THEN <<>> ELSE IF k = 1 THEN parts[1] ELSE w[k - 1] \o <<Comma>> \o parts[k]
    BY <1>5, <1>6, <2>2
  <2> QED BY <2>1, <2>3
<1> HIDE DEF w
<1>8. u = E(u)
  <2> HIDE DEF E
  <2> QED BY <1>7
<1> HIDE DEF u
<1>9. \A k \in 0..n : u[k] = IF k = 0 THEN <<>> ELSE IF k = 1 THEN parts[1] ELSE u[k - 1] \o <<Comma>> \o parts[k]
  BY <1>8
<1> HIDE DEF E
<1> DEFINE D == {k \in 0..n : u[k] # w[k]}
<1>10. D = {}
  <2> SUFFICES ASSUME D # {} PROVE FALSE
    OBVIOUS
  <2> DEFINE m == Min(D)
  <2>1. m \in D /\ \A y \in D : m <= y
    <3>1. D \subseteq Nat
      BY <1>1
    <3> HIDE DEF D
    <3> QED BY <3>1, LeastMember
  <2> HIDE DEF m
  <2>2. m \in 0..n /\ u[m] # w[m] /\ m \in Int
    BY <1>1, <2>1
  <2>3. m # 0 /\ m # 1
    BY <1>6, <1>9, <2>2
  <2>4. m \in 2..n /\ m - 1 \in 0..n /\ m - 1 \notin D
    BY <1>1, <2>1, <2>2, <2>3
  <2>5. u[m - 1] = w[m - 1]
    BY <2>4
  <2>6. u[m] = u[m - 1] \o <<Comma>> \o parts[m]
    BY <1>9, <2>2, <2>3
  <2> QED BY <1>5, <2>2, <2>4, <2>5, <2>6
<1> QED BY <1>1, <1>3, <1>6, <1>10 DEF parts

\* What is in a part of a text is in the text, between the part's ends.
LEMMA PartIsWithin ==
  ASSUME NEW text \in Seq(STRING), NEW lo \in 1..(Len(text) + 1), NEW hi \in 0..Len(text),
         NEW x \in Range(SubSeq(text, lo, hi))
  PROVE  \E i \in DOMAIN text : lo <= i /\ i <= hi /\ text[i] = x
<1> DEFINE part == SubSeq(text, lo, hi)
<1>1. Len(text) \in Nat /\ DOMAIN text = 1..Len(text)
  BY LenProperties
<1>2. lo \in Int /\ hi \in Int /\ 1 <= lo /\ hi <= Len(text)
  BY <1>1
<1>3. \A i \in lo..hi : text[i] \in STRING
  <2>1. \A i \in lo..hi : i \in 1..Len(text)
    BY <1>1, <1>2
  <2> QED BY <2>1, ElementOfSeq
<1>4. /\ part \in Seq(STRING) /\ Len(part) = IF lo <= hi THEN hi - lo + 1 ELSE 0
      /\ \A i \in 1..(hi - lo + 1) : part[i] = text[lo + i - 1]
  BY <1>2, <1>3, SubSeqProperties
<1>5. DOMAIN part = 1..Len(part)
  BY <1>4, LenProperties
<1>6. PICK i \in DOMAIN part : part[i] = x
  BY DEF Range
<1> HIDE DEF part
<1>7. i \in 1..Len(part) /\ Len(part) \in Nat
  BY <1>4, <1>5, LenProperties
<1>8. i \in 1..(hi - lo + 1)
  BY <1>2, <1>4, <1>7
<1>9. lo + i - 1 \in 1..Len(text) /\ lo <= lo + i - 1 /\ lo + i - 1 <= hi
  BY <1>1, <1>2, <1>8
<1>10. text[lo + i - 1] = x
  BY <1>4, <1>6, <1>8
<1> QED BY <1>1, <1>9, <1>10

\* A part ends before the next comma.
LEMMA PartsHaveNoComma ==
  ASSUME NEW text \in Seq(STRING), NEW n, NEW c, Cuts(text, n, c), NEW k \in 1..n
  PROVE  Comma \notin Range(Between(text, n, c)[k])
<1> SUFFICES ASSUME Comma \in Range(SubSeq(text, c[k] + 1, c[k + 1] - 1)) PROVE FALSE
  BY DEF Between
<1>1. n \in Nat /\ Len(text) \in Nat
  BY LenProperties DEF Cuts
<1>2. c \in [1..(n + 1) -> 0..(Len(text) + 1)] /\ \A i, j \in 1..(n + 1) : i < j => c[i] < c[j]
  BY DEF Cuts
<1>3. k \in 1..(n + 1) /\ k + 1 \in 1..(n + 1) /\ k < k + 1
  BY <1>1
<1>4. /\ c[k] \in 0..(Len(text) + 1) /\ c[k + 1] \in 0..(Len(text) + 1) /\ c[k] < c[k + 1]
  BY <1>2, <1>3
<1>5. c[k] + 1 \in 1..(Len(text) + 1) /\ c[k + 1] - 1 \in 0..Len(text)
  BY <1>1, <1>4
<1>6. PICK i \in DOMAIN text : c[k] + 1 <= i /\ i <= c[k + 1] - 1 /\ text[i] = Comma
  BY <1>5, PartIsWithin
<1>7. PICK j \in 2..n : c[j] = i
  BY <1>6 DEF Cuts
<1>8. j \in 1..(n + 1) /\ (j < k \/ j = k \/ j = k + 1 \/ k + 1 < j)
  BY <1>1
<1>9. (j < k => c[j] < c[k]) /\ (k + 1 < j => c[k + 1] < c[j])
  BY <1>2, <1>3, <1>8
<1>10. c[j] \in 0..(Len(text) + 1)
  BY <1>2, <1>8
<1>11. c[k] < c[j] /\ c[j] < c[k + 1]
  <2>1. c[k] + 1 <= c[j] /\ c[j] <= c[k + 1] - 1
    BY <1>6, <1>7
  <2> QED BY <1>1, <1>4, <1>10, <2>1
<1> QED BY <1>1, <1>4, <1>8, <1>9, <1>10, <1>11

\* An empty list is joined to an empty text.
LEMMA JoinedNothing == Joined(<<>>) = <<>>
<1> DEFINE E(u) == [k \in 0..0 |-> IF k = 0 THEN <<>> ELSE IF k = 1 THEN <<>>[1]
                                   ELSE u[k - 1] \o <<Comma>> \o <<>>[k]]
           w == [k \in 0..0 |-> <<>>]
           u == CHOOSE g : g = E(g)
<1>1. Joined(<<>>) = u[0]
  <2>1. Len(<<>>) = 0
    BY EmptySeq
  <2> QED BY <2>1 DEF Joined
<1>2. w = E(w)
  OBVIOUS
<1>3. u = E(u)
  <2> HIDE DEF w, E
  <2> QED BY <1>2
<1> HIDE DEF u
<1>4. u[0] = <<>>
  BY <1>3
<1> QED BY <1>1, <1>4

\* There is nothing in an empty text.
LEMMA SplitNothing == split_list(<<>>) = <<>>
<1> DEFINE text == <<>>
<1>1. text \in Seq(STRING) /\ Len(text) = 0 /\ DOMAIN text = {}
  BY EmptySeq
<1> HIDE DEF text
<1>2. PICK n, c : /\ Cuts(text, n, c)
                  /\ split_list(text) = IF <<>> \in Range(Between(text, n, c)) THEN <<>> ELSE Between(text, n, c)
  BY <1>1, SplitCuts
<1>3. n \in Nat \ {0} /\ c[1] = 0 /\ c[n + 1] = Len(text) + 1
  BY <1>2 DEF Cuts
<1>4. n = 1
  <2>1. 2 \notin 2..n
    BY <1>1, <1>2 DEF Cuts
  <2> QED BY <1>3, <2>1
<1>5. c[1] = 0 /\ c[1 + 1] = 1
  BY <1>1, <1>3, <1>4
<1>6. Between(text, n, c)[1] = SubSeq(text, c[1] + 1, c[1 + 1] - 1) /\ 1 \in DOMAIN Between(text, n, c)
  <2>1. 1 \in 1..n
    BY <1>4
  <2> QED BY <2>1, Zenon DEF Between
<1>7. SubSeq(text, c[1] + 1, c[1 + 1] - 1) = <<>>
  BY <1>5, SubSeqEmpty
<1>8. <<>> \in Range(Between(text, n, c))
  BY <1>6, <1>7 DEF Range
<1>9. split_list(text) = <<>>
  BY <1>2, <1>8
<1> QED BY <1>9 DEF text

\* split_list keeps the whole of a text it accepts, and has nothing of an empty one.
LEMMA SplitSpells ==
  ASSUME NEW text \in Seq(STRING), text = <<>> \/ split_list(text) # <<>>
  PROVE  Spelled(split_list(text), text)
<1>1. CASE text = <<>>
  BY <1>1, SplitNothing, JoinedNothing DEF Spelled
<1>2. CASE split_list(text) # <<>>
  <2>1. PICK n, c : /\ Cuts(text, n, c)
                    /\ split_list(text) = IF <<>> \in Range(Between(text, n, c)) THEN <<>> ELSE Between(text, n, c)
    BY SplitCuts
  <2> DEFINE parts == Between(text, n, c)
  <2>2. split_list(text) = parts /\ <<>> \notin Range(parts)
    BY <1>2, <2>1
  <2>3. Joined(parts) = text
    BY <2>1, PartsJoin
  <2>4. \A k \in 1..n : Comma \notin Range(parts[k])
    BY <2>1, PartsHaveNoComma
  <2>5. DOMAIN parts = 1..n
    BY DEF Between
  <2> HIDE DEF parts
  <2>6. \A k \in DOMAIN parts : parts[k] # <<>>
    BY <2>2 DEF Range
  <2> QED BY <2>2, <2>3, <2>4, <2>5, <2>6 DEF Spelled
<1> QED BY <1>1, <1>2

\* A list is split from the latest value of its flag, or from nothing without one.
LEMMA ListsAreTheLatest ==
  ASSUME IInv, LineInv, SettledInv, phase \notin {"args", "off"}, NEW flag \in {"--devices", "--tensor-split"}
  PROVE  ListOf(flag) = split_list(LatestValue(flag)) /\ Spelled(ListOf(flag), LatestValue(flag))
<1>1. /\ at = Len(argv) /\ OptionsInv /\ (Given(flag) => ListOf(flag) # <<>>)
  BY DEF SettledInv, IInv, ConfigOk
<1>2. LatestValue(flag) = IF Given(flag) THEN options[flag] ELSE <<>>
  BY <1>1, OptionsAreTheLatest DEF Valued
<1>3. CASE Given(flag)
  <2>1. LatestValue(flag) \in Seq(STRING) /\ ListOf(flag) = split_list(LatestValue(flag))
    BY <1>1, <1>2, <1>3 DEF OptionsInv, Given, ListOf
  <2> QED BY <1>1, <1>3, <2>1, SplitSpells
<1>4. CASE ~Given(flag)
  <2>1. ListOf(flag) = <<>> /\ LatestValue(flag) = <<>> /\ <<>> \in Seq(STRING)
    BY <1>2, <1>4, EmptySeq DEF ListOf
  <2>2. Spelled(split_list(<<>>), <<>>)
    BY <2>1, SplitSpells
  <2>3. split_list(<<>>) = <<>>
    BY SplitNothing
  <2> QED BY <2>1, <2>2, <2>3
<1> QED BY <1>3, <1>4

\* The engine is configured with what the command line says and nothing else: the last
\* value of each flag or its default, for every line, with flags in any order, given
\* twice, or with values that look like flags.
THEOREM ConfigFollowsTheLine == Spec => []ConfigIsTheLine
<1>1. ASSUME IInv, LineInv, SettledInv, phase \notin {"args", "off"}
      PROVE  /\ \A i \in FlagAt : Flag(argv[i]) \in Valued
             /\ LatestValue("--model") # <<>>
             /\ config.n_ctx = LatestNumber("--ctx", 4096)
             /\ config.n_gpu_layers = LatestNumber("--ngl", 99)
             /\ config.n_threads = LatestNumber("--threads", 0)
             /\ Spelled(config.devices, LatestValue("--devices"))
             /\ LET shares == split_list(LatestValue("--tensor-split"))
                IN  /\ Spelled(shares, LatestValue("--tensor-split"))
                    /\ config.tensor_split = [i \in DOMAIN shares |-> Number[shares[i]]]
  <2>1. /\ at = Len(argv) /\ OptionsInv /\ config = to_config
        /\ DOMAIN options \cap Switches = {}
        /\ Given("--model") /\ options["--model"] # <<>>
    BY <1>1 DEF SettledInv, IInv
  <2>2. ASSUME NEW i \in FlagAt PROVE Flag(argv[i]) \in Valued
    <3>1. PICK F \in SUBSET (1..at) : Walked(F)
      BY <1>1 DEF LineInv
    <3>2. FlagAt = F
      BY <2>1, <3>1, FlagsAreWhereTheyWereRead
    <3> QED BY <2>1, <2>2, <3>1, <3>2 DEF Walked
  <2>3. LatestValue("--model") # <<>>
    BY <1>1, <2>1, OptionsAreTheLatest DEF Valued
  <2>4. ASSUME NEW flag \in Numeric, NEW default
        PROVE  NumberOf(flag, default) = LatestNumber(flag, default)
    BY <1>1, <2>1, OptionsAreTheLatest DEF Valued, NumberOf, LatestNumber
  <2>5. /\ config.n_ctx = NumberOf("--ctx", 4096) /\ config.n_gpu_layers = NumberOf("--ngl", 99)
        /\ config.n_threads = NumberOf("--threads", 0) /\ config.devices = ListOf("--devices")
        /\ config.tensor_split = [i \in DOMAIN ListOf("--tensor-split") |-> Number[ListOf("--tensor-split")[i]]]
    BY <2>1 DEF to_config
  <2>6. "--ctx" \in Numeric /\ "--ngl" \in Numeric /\ "--threads" \in Numeric
    BY DEF Numeric
  <2>7. \A flag \in {"--devices", "--tensor-split"} :
          ListOf(flag) = split_list(LatestValue(flag)) /\ Spelled(ListOf(flag), LatestValue(flag))
    BY <1>1, ListsAreTheLatest
  <2> QED BY <2>2, <2>3, <2>4, <2>5, <2>6, <2>7
<1>2. IInv /\ LineInv /\ SettledInv => ConfigIsTheLine
  BY <1>1 DEF ConfigIsTheLine
<1> QED BY <1>2, Invariance, LineInvariance, PTL
=============================================================================
