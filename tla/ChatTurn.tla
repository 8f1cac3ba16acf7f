------------------------------ MODULE ChatTurn ------------------------------
(***************************************************************************)
(* A request from the wire to its last token: from_proto                   *)
(* (src/src/wire.cpp), ChatFormat::render (src/src/chat_format.cpp), the   *)
(* Chat handler's merge of both (src/src/service.cpp), and then Sampler.   *)
(*                                                                         *)
(* The template engine is external: it turns the messages into a prompt,   *)
(* tools into a lazy grammar with triggers, and a JSON schema, if it is a  *)
(* nonempty object, into an eager one that begins with the opening of the  *)
(* assistant's turn.                                                       *)
(***************************************************************************)
EXTENDS Sampler

CONSTANTS
  Turns,        \* requests: [kind, messages, tools, schema, temperature, top_k, stop]
  Unset,        \* a field that the client did not set
  Styles,       \* how a template opens a reply: [header, thinks, obeys, opened, closed], the
                \* JSON it allows and whether its grammar parses: [json, parses]
  ToolFormats   \* how a model calls tools: [call, triggers, preserved]

ASSUME TurnsTyped == \A q \in Turns :
  /\ q.messages \in Seq([role: STRING, content: Seq(STRING)])
  /\ q.kind = "Chat" => q.messages # <<>>
  /\ {q.temperature, q.top_k} \subseteq Int \cup {Unset}
ASSUME StylesTyped == \A s \in Styles :
  {s.header, s.opened, s.closed} \cup s.json \subseteq Text /\ s.json # {}
\* A token may have no text that is known, and a pattern for the whole reply may be an
\* empty one, which no token completes.
ASSUME ToolFormatsTyped == \A f \in ToolFormats :
  /\ f.call \cup f.preserved \subseteq Text /\ f.call # {}
  /\ \A g \in f.triggers : /\ g.type \in {"WORD", "TOKEN", "PATTERN", "PATTERN_FULL"}
                           /\ g.text \in Text /\ (g.text = <<>> => g.type \in {"TOKEN", "PATTERN_FULL"})

\* The texts that resolve() may have tokenized.
Prefills == UNION {{s.header \o o : o \in {<<>>, s.opened, s.closed}} : s \in Styles}
Names == UNION {f.preserved \cup {g.text : g \in f.triggers} : f \in ToolFormats}

\* A text's tokens spell it, or a space and it; and what tokens spell is the piece of
\* the first one and what the others spell.
ASSUME TokenizerSpells == \A adds \in BOOLEAN, w \in Prefills \cup Names :
  LET ids == Tokenizer(adds, w)
  IN  /\ ids \in Seq(Token \ Eog)
      /\ Spelled(ids) = w \/ (adds /\ Spelled(ids) = <<Space>> \o w)
      /\ ids # <<>> => Spelled(Tail(ids)) \in Text /\ Spelled(ids) = Piece[ids[1]] \o Spelled(Tail(ids))

\* A space that is put in front of a text is a token of its own.  Not every tokenizer
\* keeps to this: one may have a token for a word with the space in front of it.
AddedSpaceStandsAlone == \A w \in Prefills \cup Names :
  LET ids == Tokenizer(TRUE, w)
  IN  Spelled(ids) # w => w[1] # Space /\ Piece[ids[1]] = <<Space>>

VARIABLES
  turn,      \* the request
  prompt,    \* the messages the template was applied to
  style,     \* what is known of the template: its style on a schema turn, <<>> before
  format     \* and its tool format on a turn with tools

vars == <<samplerVars, turn, prompt, style, format>>

Init == SamplerInit /\ turn \in Turns /\ prompt = <<>> /\ style = <<>> /\ format = <<>>

-----------------------------------------------------------------------------
(* render() *)

schema_turn == turn.schema # "none"
Instruction == "instruction"

\* Seeded fault: only a schema that is not JSON is refused.
Constrains_any(schema) == schema # "broken"

\* The template engine ignores anything but a nonempty object.
Constrains(schema) == schema = "object"

\* What render() refuses by itself; a tool's empty schema means no arguments.
Refusal ==
  \/ schema_turn /\ (turn.tools # <<>> \/ ~Constrains(turn.schema))
  \/ "broken" \in Range(turn.tools)

\* The messages with the instruction, on a schema turn: the first message if it is
\* a system message takes it in, else one is put in front.
Instructed(messages) ==
  IF ~schema_turn THEN messages
  ELSE IF messages[1].role = "system" THEN [messages EXCEPT ![1].content = Append(@, Instruction)]
  ELSE <<[role |-> "system", content |-> <<Instruction>>]>> \o messages

\* Seeded fault: the template is left to think on every turn.
enable_thinking_always == TRUE

enable_thinking == ~schema_turn

\* External: the opening that the template writes, and the grammar of a schema turn,
\* which knows of a thinking block only if that is closed.
Opening(s) == IF ~s.thinks THEN <<>> ELSE IF enable_thinking \/ ~s.obeys THEN s.opened ELSE s.closed
Closed(s) == IF s.thinks /\ ~enable_thinking /\ s.obeys THEN s.closed ELSE <<>>
SchemaGrammar(s) == {s.header \o Closed(s) \o x : x \in s.json}

\* from_proto: the daemon's defaults for what is not set.
from_proto(q) ==
  [NoRequest EXCEPT !.temperature = IF q.temperature = Unset THEN @ ELSE q.temperature,
                    !.top_k = IF q.top_k = Unset THEN @ ELSE q.top_k, !.stop = q.stop]

Texts(triggers, types) == {g.text : g \in {h \in triggers : h.type \in types}}

\* Seeded fault: a pattern for the whole reply is passed on as it is.
Anchored_not == FALSE

Anchored == TRUE

\* split_triggers: words stay words; a full pattern is anchored; of a token, which is
\* of no vocabulary, only its text is known.
split_triggers(triggers) ==
  [words    |-> Texts(triggers, {"WORD"}) \cup (Texts(triggers, {"TOKEN"}) \ {<<>>}),
   patterns |-> {AsText(x) : x \in Texts(triggers, {"PATTERN"})}
                  \cup {[text |-> x, full |-> Anchored] : x \in Texts(triggers, {"PATTERN_FULL"})}]

-----------------------------------------------------------------------------
(* The handlers *)

\* Generate has no grammar, and no prefill or triggers with it.
Generate ==
  /\ phase = "rendering" /\ turn.kind = "Generate"
  /\ phase' = "called" /\ req' = from_proto(turn)
  /\ UNCHANGED <<adds_space, resolved, chain, grammar, logits, reply, cause, turn, prompt, style, format>>

\* A request that cannot be rendered, a template that throws, a parser that does not load.
RenderFails ==
  /\ phase = "rendering" /\ turn.kind = "Chat"
  /\ phase' = "over" /\ cause' = "render"
  /\ UNCHANGED <<adds_space, req, resolved, chain, grammar, logits, reply, turn, prompt, style, format>>

Rendered == phase = "rendering" /\ turn.kind = "Chat" /\ ~Refusal

\* The template ends the prompt with the opening of the reply and adds its own stops.
Render(params) ==
  /\ phase' = "called"
  /\ req' = [params EXCEPT !.stop = @ \o <<"end">>]
  /\ prompt' = Instructed(turn.messages)
  /\ UNCHANGED <<adds_space, resolved, chain, grammar, logits, reply, cause, turn>>

RenderPlain ==
  /\ Rendered /\ turn.tools = <<>> /\ turn.schema # "object"
  /\ Render(from_proto(turn))
  /\ UNCHANGED <<style, format>>

RenderSchema ==
  /\ Rendered /\ turn.tools = <<>> /\ turn.schema = "object"
  /\ \E s \in Styles :
       /\ style' = <<s>>
       /\ Render([from_proto(turn) EXCEPT !.grammar = SchemaGrammar(s), !.parses = s.parses,
                                          !.prefill = s.header \o Opening(s)])
  /\ UNCHANGED format

RenderTools ==
  /\ Rendered /\ turn.tools # <<>>
  /\ \E f \in ToolFormats :
       LET triggers == split_triggers(f.triggers)
       IN  /\ format' = <<f>>
           /\ Render([from_proto(turn) EXCEPT !.grammar = f.call, !.lazy = TRUE,
                        !.trigger_words = triggers.words, !.trigger_patterns = triggers.patterns,
                        !.preserved_tokens = f.preserved])
  /\ UNCHANGED style

Next ==
  \/ Generate \/ RenderFails \/ RenderPlain \/ RenderSchema \/ RenderTools
  \/ SamplerNext /\ UNCHANGED <<turn, prompt, style, format>>

Spec == Init /\ [][Next]_vars

-----------------------------------------------------------------------------
(* Properties *)

\* A trigger that is a preserved token of the vocabulary: its token alone counts.
AsToken(f, g) ==
  /\ g.type \in {"WORD", "TOKEN"} /\ Len(tokenize(g.text)) = 1
  /\ tokenize(g.text)[1] \in SingleTokens(f.preserved)

\* The reply has one of the format's triggers: that token, or the text as a part of the
\* reply, whatever tokens spell it, or for a full pattern as all there was at some point.
Triggered(f) ==
  \E g \in f.triggers : g.text # <<>> /\
     IF AsToken(f, g) THEN tokenize(g.text)[1] \in Range(said)
     ELSE IF g.type = "PATTERN_FULL" THEN g.text \in texts
     ELSE g.text \in SubSeqs(text)

\* However render() and resolve() passed the template's triggers on, as words, tokens
\* or patterns, and wherever in a token one begins or ends: a tool grammar constrains
\* the reply from the moment one of them is in it, and not before.
AwakeOnceTriggered ==
  phase = "loop" /\ format # <<>> => (Awake <=> Triggered(format[1]))

\* Stated by docs/protocol.md, "During sampling, it limits the arguments to the schema",
\* and by the comment in resolve() on a token trigger as an exact form of its word: a
\* reply that has a trigger's text in it is under the tool grammar.
AwakeOnceSpelled ==
  phase = "loop" /\ format # <<>> /\
    (\E g \in format[1].triggers : g.type # "PATTERN_FULL" /\ g.text # <<>> /\ g.text \in SubSeqs(text))
      => Awake

\* What the reply has from any place on where one of the format's triggers is.
FromTrigger(f) ==
  {SubSeq(text, n + 1, Len(text)) : n \in {m \in 0..Len(text) : \E g \in f.triggers :
     /\ g.text # <<>> /\ IsPrefix(g.text, SubSeq(text, m + 1, Len(text)))
     /\ g.type = "PATTERN_FULL" => m = 0 /\ g.text \in texts}}

\* "every reply still satisfies the grammar", although the chain draws without it:
\* the reply's text, behind the prefill or from a trigger on, begins a sentence, and is
\* one if the model ended its turn.
ReplySatisfiesGrammar ==
  LET over == said # <<>> /\ Last(said) \in Eog
      from == IF req.lazy THEN FromTrigger(format[1]) ELSE {req.prefill \o text}
  IN  req.grammar # {} /\ cause = "none" /\ phase \in {"loop", "over"}
        /\ (req.lazy => Triggered(format[1])) =>
          \E s \in from : IF over THEN s \in req.grammar ELSE Viable(req.grammar, s)

\* "Refusing beats ignoring one of the two": a turn that asked for a schema or for tools
\* and was not refused samples behind that grammar, and the model is told of the schema
\* once, in the first system message, in front of the caller's messages as they were.
AskedForIsBinding ==
  turn.kind = "Chat" /\ phase # "rendering" /\ cause # "render" =>
    /\ turn.tools # <<>> => format # <<>> /\ req.lazy /\ req.grammar = format[1].call
    /\ turn.schema # "none" =>
         /\ style # <<>> /\ ~req.lazy /\ req.grammar # {} /\ turn.tools = <<>>
         /\ prompt[1].role = "system" /\ Last(prompt[1].content) = Instruction
         /\ turn.messages \in {Tail(prompt), [prompt EXCEPT ![1].content = Front(@)]}

\* A grammar turns a request down, at its prefill or while it is sampled, only where
\* render() could not prevent it: a template that opens a thinking block although it was
\* asked not to, and a tool call that begins with a trigger its own grammar refuses.
RefusedForCause ==
  /\ cause = "prefill" => style[1].thinks /\ ~style[1].obeys
  /\ cause = "accept"  => req.lazy
=============================================================================
