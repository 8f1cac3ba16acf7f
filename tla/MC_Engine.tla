------------------------------ MODULE MC_Engine ------------------------------
(***************************************************************************)
(* Small instances of Engine: a context of four tokens, batches of two, so *)
(* a prompt may take one decode or two, fill the context or be too long.   *)
(***************************************************************************)
EXTENDS Engine, TLC

CONSTANTS a, b, e   \* two ordinary tokens and an end-of-generation token

\* One conversation (a, a b, a b a), one that diverges from it at its first
\* token, the empty prompt and one as long as the context.
MCPrompts == {<<>>, <<a>>, <<a, b>>, <<a, b, a>>, <<b, a>>, <<a, b, a, b>>}

\* "Until the context is full", nothing, and one or two tokens.
MCBudgets == {-1, 0, 2}

\* Fewer requests, for the run that checks liveness and the refinement.
FewPrompts == {<<a, b>>, <<a, b, a>>}
FewBudgets == {-1, 1}

CallerSymmetry == Permutations(Callers)
=============================================================================
