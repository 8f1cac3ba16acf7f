------------------------------- MODULE Sampler -------------------------------
(***************************************************************************)
(* SamplerChain and Impl::resolve (src/src/engine.cpp): how a request's    *)
(* sampling parameters become a chain of filters and a grammar beside it,  *)
(* and how a token is drawn.  The chain draws first; the grammar is asked  *)
(* about that token only, and a refusal draws again behind the grammar.    *)
(*                                                                         *)
(* Texts and tokens are kept apart.  A text is a sequence of characters; a *)
(* token has a piece of text; how a text is cut into tokens is up to the   *)
(* tokenizer, and many token sequences spell the same text.  A grammar is  *)
(* the set of the texts that are its sentences.  llama.cpp's samplers are  *)
(* external: the grammar allows a token if a sentence goes on with its     *)
(* text, and end-of-generation after a sentence; a lazy one sleeps until a *)
(* trigger.  A trigger pattern is a text that may have to be the whole     *)
(* reply; ChatTurn says where requests come from.                          *)
(***************************************************************************)
EXTENDS Integers, SequencesExt

CONSTANTS
  n_vocab,          \* tokens are 1..n_vocab, in the order of their ids
  Eog,              \* end-of-generation tokens
  Char,             \* what texts are made of
  Space,            \* the character that is white space
  Piece,            \* a token's text, with special tokens' text
  Tokenizer(_, _),  \* llama_tokenize: a text's tokens, by a model that puts a space in
                    \* front of plain text or by one that does not
  Logit,            \* the values of a logit
  MaxReply          \* bound on the reply, in tokens

Token == 1..n_vocab
Text  == Seq(Char)
MinusInf == -1
Asleep == <<0>>   \* instead of a text: 0 is no character

\* The text that a sequence of tokens spells.
Spelled(ids) == FlattenSeq([i \in DOMAIN ids |-> Piece[ids[i]]])

ASSUME VocabularyTyped ==
  /\ n_vocab \in Nat \ {0}
  /\ Eog \subseteq Token /\ Eog # {}
  /\ 0 \notin Char /\ Space \in Char
  /\ DOMAIN Piece = Token /\ \A t \in Token : Piece[t] \in Text /\ (Piece[t] = <<>> <=> t \in Eog)
\* Whatever is not in the vocabulary can be spelled byte by byte.
ASSUME EveryCharIsAToken == \A c \in Char : \E t \in Token \ Eog : Piece[t] = <<c>>
ASSUME LogitsAreFinite == Logit \subseteq Nat /\ Logit # {}

VARIABLES
  adds_space, \* the model's tokenizer puts a space in front of plain text
  phase,      \* "rendering" a chat; of generate(): "called", "building" the chain, "loop"
              \* or "over"
  req,        \* its SamplingParams
  resolved,   \* ResolvedTokens
  chain,      \* chain_ is allocated
  grammar,    \* grammar_: <<>> is null; <<Asleep>>, or <<the text it has consumed>>
  logits,     \* of the last decoded position
  said,       \* the tokens sampled
  text,       \* their text: what the trigger buffer of a sleeping grammar holds
  texts,      \* the texts that the reply has been, after one token after the other
  cause       \* what the run threw, or "none"

reply == <<said, text, texts>>
samplerVars == <<adds_space, phase, req, resolved, chain, grammar, logits, reply, cause>>

Logits == [Token -> Logit]
Unresolved == [preserved |-> {}, prefill |-> <<>>, trigger_tokens |-> {}, trigger_patterns |-> {}]

\* The defaults of SamplingParams; a temperature is whole.
NoRequest ==
  [temperature |-> 1, top_k |-> 40, stop |-> <<>>, grammar |-> {}, parses |-> TRUE, lazy |-> FALSE,
   prefill |-> <<>>, trigger_words |-> {}, trigger_patterns |-> {}, preserved_tokens |-> {}]

SamplerInit ==
  /\ adds_space \in BOOLEAN
  /\ phase = "rendering" /\ req = NoRequest
  /\ resolved = Unresolved
  /\ chain = FALSE /\ grammar = <<>>
  /\ logits = CHOOSE l \in Logits : TRUE     \* nothing decoded yet
  /\ said = <<>> /\ text = <<>> /\ texts = {}
  /\ cause = "none"

-----------------------------------------------------------------------------
(* resolve() *)

\* tokenize with add_special off and parse_special on.
tokenize(w) == Tokenizer(adds_space, w)

\* The ids of the texts that are exactly one token.
SingleTokens(words) == {tokenize(w)[1] : w \in {u \in words : Len(tokenize(u)) = 1}}

\* A space that the tokenizer put in front of the prefill is not in the prompt: a first
\* token that begins with one that the prefill does not begin with is erased.
WithoutAddedSpace(prefill) ==
  LET ids == tokenize(prefill)
  IN  IF ids # <<>> /\ Piece[ids[1]][1] = Space /\ prefill[1] # Space THEN Tail(ids) ELSE ids

AsText(w) == [text |-> w, full |-> FALSE]

\* A trigger word that is one preserved token triggers on that token alone, however
\* else its text may be spelled; any other as text, escaped.
resolve(r) ==
  LET preserved == SingleTokens(r.preserved_tokens)
      single    == {w \in r.trigger_words : Len(tokenize(w)) = 1 /\ tokenize(w)[1] \in preserved}
      triggers  == r.grammar # {} /\ r.lazy
  IN  [preserved        |-> preserved,
       prefill          |-> IF r.grammar # {} /\ ~r.lazy /\ r.prefill # <<>>
                             THEN WithoutAddedSpace(r.prefill) ELSE <<>>,
       trigger_tokens   |-> IF triggers THEN SingleTokens(single) ELSE {},
       trigger_patterns |-> IF triggers THEN r.trigger_patterns \cup {AsText(w) : w \in r.trigger_words \ single}
                                        ELSE {}]

-----------------------------------------------------------------------------
(* The grammar sampler, external *)

\* The grammar has a sentence that begins with s.
Viable(sentences, s) == \E x \in sentences : IsPrefix(s, x)

Awake == grammar # <<>> /\ grammar # <<Asleep>>

\* llama_sampler_apply: what the grammar leaves a chance.
Allowed ==
  IF ~Awake THEN Token
  ELSE {t \in Token \ Eog : Viable(req.grammar, grammar[1] \o Piece[t])}
         \cup (IF grammar[1] \in req.grammar THEN Eog ELSE {})

\* Where the pattern p is found in the trigger buffer s.
Starts(p, s) ==
  IF p.full THEN (IF s = p.text THEN {0} ELSE {})
  ELSE {n \in 0..Len(s) : IsPrefix(p.text, SubSeq(s, n + 1, Len(s)))}

\* What wakes a sleeping grammar when t is sampled, as the text that it starts from: a
\* token that triggers, or the reply from the first place of a pattern on.
Trigger(t) ==
  LET s == text \o Piece[t]
  IN  IF t \in resolved.trigger_tokens THEN {Piece[t]}
      ELSE {SubSeq(s, Min(Starts(p, s)) + 1, Len(s)) :
              p \in {q \in resolved.trigger_patterns : Starts(q, s) # {}}}

\* llama_sampler_accept: when it throws, and the states it may leave the grammar in.
AcceptThrows(t) ==
  IF Awake THEN t \notin Allowed
  ELSE grammar # <<>> /\ \E x \in Trigger(t) : ~Viable(req.grammar, x)

Accept(t) ==
  IF Awake THEN {<<grammar[1] \o Piece[t]>>}
  ELSE IF grammar = <<>> \/ Trigger(t) = {} THEN {grammar}
  ELSE {<<x>> : x \in {y \in Trigger(t) : Viable(req.grammar, y)}}

-----------------------------------------------------------------------------
(* Construction and destruction *)

free_samplers == chain' = FALSE /\ grammar' = <<>>

\* resolve() throws on a text it cannot tokenize, or there is no chain to fill.
OpenFails ==
  /\ phase = "called"
  /\ phase' = "over" /\ cause' = "llama"
  /\ UNCHANGED <<adds_space, req, resolved, chain, grammar, logits, reply>>

\* The chain, and the grammar if there is one that parses, are allocated.
Open ==
  /\ phase = "called"
  /\ phase' = "building"
  /\ resolved' = resolve(req)
  /\ chain' = TRUE
  /\ grammar' = IF req.grammar = {} \/ ~req.parses THEN <<>>
                ELSE IF req.lazy THEN <<Asleep>> ELSE <<<<>>>>
  /\ UNCHANGED <<adds_space, req, logits, reply, cause>>

\* Why add_grammar throws, if it does: the grammar does not parse, or refuses the prefill.
GrammarFault ==
  IF req.grammar = {} THEN "none"
  ELSE IF ~req.parses THEN "parse"
  ELSE IF ~req.lazy /\ ~Viable(req.grammar, Spelled(resolved.prefill)) THEN "prefill"
  ELSE "none"

\* A constructor that throws gets no destructor call: it frees the samplers by hand.
BuildFails ==
  /\ phase = "building" /\ GrammarFault # "none"
  /\ phase' = "over" /\ cause' = GrammarFault
  /\ free_samplers
  /\ UNCHANGED <<adds_space, req, resolved, logits, reply>>

\* Seeded fault: the grammar is not advanced past the prefill.
PastPrefill_not == grammar

PastPrefill == IF Awake THEN <<Spelled(resolved.prefill)>> ELSE grammar

\* The grammar is past the prefill and the prompt has been decoded.
Build ==
  /\ phase = "building" /\ GrammarFault = "none"
  /\ phase' = "loop"
  /\ grammar' = PastPrefill
  /\ logits' \in Logits
  /\ UNCHANGED <<adds_space, req, resolved, chain, reply, cause>>

\* The end of generate(), by whatever road.
Destruct(why) ==
  /\ phase' = "over" /\ cause' = why
  /\ free_samplers
  /\ UNCHANGED <<adds_space, req, resolved, logits>>

-----------------------------------------------------------------------------
(* Drawing a token *)

\* Greedy decoding, and a chain that begins with top-k, look at the top only.
n_selectable ==
  IF req.temperature <= 0 THEN 1
  ELSE IF req.top_k > 0 THEN (IF req.top_k < n_vocab THEN req.top_k ELSE n_vocab)
  ELSE n_vocab

\* The first of the highest, in the order of the array.
FirstHighest(array, logit) ==
  array[Min({i \in DOMAIN array : \A j \in DOMAIN array : logit[array[j]] <= logit[array[i]]})]

\* The k highest, in descending order; equal ones come in any order.
Highest(set, logit, k) ==
  {s \in [1..k -> set] :
     /\ \A i, j \in 1..k : i < j => s[i] # s[j] /\ logit[s[j]] <= logit[s[i]]
     /\ \A t \in set \ Range(s) : logit[t] <= logit[s[k]]}

\* Seeded fault: the last of equal maxima is the greedy choice.
max_element_last == Max({t \in Token : \A u \in Token : logits[u] <= logits[t]})

max_element == FirstHighest([i \in 1..n_vocab |-> i], logits)

\* The candidates choose() fills in.
Candidates(count) ==
  IF count = n_vocab THEN {[i \in 1..n_vocab |-> i]}
  ELSE IF count = 1 THEN {<<max_element>>}
  ELSE Highest(Token, logits, count)

\* What the chain may select from the array: top-k takes a sorted array's front;
\* top-p, min-p and temperature leave a chance to some of what it keeps.
Select(array, logit, sorted) ==
  IF req.temperature <= 0 THEN {FirstHighest(array, logit)}
  ELSE LET k    == IF req.top_k > 0 /\ req.top_k < Len(array) THEN req.top_k ELSE Len(array)
           kept == IF sorted \/ k = Len(array) THEN {SubSeq(array, 1, k)}
                   ELSE Highest(Range(array), logit, k)
       IN  {t \in UNION {Range(s) : s \in kept} : logit[t] # MinusInf}

\* Seeded fault: an array of the whole vocabulary is called sorted as well.
Sorted_always(count) == TRUE

Sorted(count) == count < n_vocab

choose(count, apply_grammar) ==
  LET logit == [t \in Token |-> IF apply_grammar /\ t \notin Allowed THEN MinusInf ELSE logits[t]]
  IN  UNION {Select(array, logit, Sorted(count)) : array \in Candidates(count)}

\* The tokens sample() may return.
sample ==
  LET first == choose(n_selectable, FALSE)
  IN  (first \cap Allowed) \cup (IF first \subseteq Allowed THEN {} ELSE choose(n_vocab, TRUE))

\* A token is drawn and accepted; end-of-generation ends the run.
Sample ==
  /\ phase = "loop" /\ Len(said) < MaxReply
  /\ \E t \in sample :
       /\ ~AcceptThrows(t)
       /\ said' = Append(said, t)
       /\ IF t \in Eog THEN Destruct("none") /\ UNCHANGED <<text, texts>>
          ELSE /\ text' = text \o Piece[t] /\ texts' = texts \cup {text'}
               /\ grammar' \in Accept(t)
               /\ logits' \in Logits
               /\ UNCHANGED <<adds_space, phase, req, resolved, chain, cause>>

\* The chain selects no token, or the grammar throws on the one it is given.
SampleThrows ==
  /\ phase = "loop"
  /\ \/ Destruct("chain")
     \/ (\E t \in sample : AcceptThrows(t)) /\ Destruct("accept")
  /\ UNCHANGED reply

\* A stop string, a cancel, the budget, the context or a failed decode.
Leave == phase = "loop" /\ Destruct("none") /\ UNCHANGED reply

SamplerNext == OpenFails \/ Open \/ BuildFails \/ Build \/ Sample \/ SampleThrows \/ Leave

-----------------------------------------------------------------------------
(* Properties *)

\* "Greedy decoding picks the same token either way": the most likely one that the
\* grammar allows, the first of equals, as if the grammar came first.
GreedyPicksTheBest ==
  [][phase = "loop" /\ said' # said /\ req.temperature <= 0 =>
       Last(said') = Min({t \in Allowed : \A u \in Allowed : logits[u] <= logits[t]})]_samplerVars

\* Handing the chain only the highest logits loses nothing: a token drawn with
\* top-k is one of the k best that the grammar allows.
DrawIsFromTheTop ==
  [][phase = "loop" /\ said' # said /\ req.temperature > 0 /\ req.top_k > 0 =>
       Cardinality({t \in Allowed : logits[t] > logits[Last(said')]}) < req.top_k]_samplerVars
=============================================================================
