--------------------------- MODULE StatelessEngine ---------------------------
(***************************************************************************)
(* What Engine::generate promises its callers (engine.h, llamad.proto):    *)
(* requests are served one at a time, and each one runs on its own prompt  *)
(* and on nothing a previous request left behind.  There is no cache here: *)
(* `context` is the token sequence the next token is predicted from, and a *)
(* run always starts it at the caller's prompt.                            *)
(***************************************************************************)
EXTENDS Sequences

CONSTANTS
  Callers,    \* threads calling generate()
  Token,      \* the model's vocabulary
  Prompts     \* tokenized prompts a caller may bring

VARIABLES
  phase,      \* each caller is "idle", "queued", "starting" or "active"
  ask,        \* the prompt of the caller's latest call
  context,    \* what the model is conditioned on; empty between runs
  reply       \* what the latest run has generated

vars == <<phase, ask, context, reply>>

Init ==
  /\ phase = [c \in Callers |-> "idle"]
  /\ ask \in [Callers -> Prompts]
  /\ context = <<>>
  /\ reply = <<>>

\* A call arrives and queues.
Submit(c) ==
  /\ phase[c] = "idle"
  /\ phase' = [phase EXCEPT ![c] = "queued"]
  /\ \E p \in Prompts : ask' = [ask EXCEPT ![c] = p]
  /\ UNCHANGED <<context, reply>>

\* One call at a time is served.
Start(c) ==
  /\ phase[c] = "queued"
  /\ \A d \in Callers : phase[d] \in {"idle", "queued"}
  /\ phase' = [phase EXCEPT ![c] = "starting"]
  /\ reply' = <<>>
  /\ UNCHANGED <<ask, context>>

\* The model is ready to predict, from the caller's prompt and nothing else.
Begin(c) ==
  /\ phase[c] = "starting"
  /\ phase' = [phase EXCEPT ![c] = "active"]
  /\ context' = ask[c]
  /\ UNCHANGED <<ask, reply>>

\* One more token, which the rest of the run is conditioned on.
Emit(c, t) ==
  /\ phase[c] = "active"
  /\ reply' = Append(reply, t)
  /\ context' = Append(context, t)
  /\ UNCHANGED <<phase, ask>>

\* The token that ends the run: it belongs to the reply, nothing follows it.
EmitLast(c, t) ==
  /\ phase[c] = "active"
  /\ reply' = Append(reply, t)
  /\ phase' = [phase EXCEPT ![c] = "idle"]
  /\ context' = <<>>
  /\ UNCHANGED ask

\* The run returns, or throws.
End(c) ==
  /\ phase[c] = "active"
  /\ phase' = [phase EXCEPT ![c] = "idle"]
  /\ context' = <<>>
  /\ UNCHANGED <<ask, reply>>

\* The call fails before its first token.
Refuse(c) ==
  /\ phase[c] = "starting"
  /\ phase' = [phase EXCEPT ![c] = "idle"]
  /\ UNCHANGED <<ask, context, reply>>

Next ==
  \E c \in Callers :
    \/ Submit(c)
    \/ Start(c) \/ Begin(c)
    \/ \E t \in Token : Emit(c, t) \/ EmitLast(c, t)
    \/ End(c)
    \/ Refuse(c)

Spec == Init /\ [][Next]_vars
==============================================================================
