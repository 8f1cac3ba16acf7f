\* A hybrid memory: a window of two cells and no partial trim; fair scheduling of
\* the thread inside generate().
SPECIFICATION FairSpec
CONSTANTS
  Callers = {c1, c2}
  NoCaller = NoCaller
  a = a
  b = b
  e = e
  Token = {a, b, e}
  Eog = {e}
  Prompts <- FewPrompts
  Budgets <- FewBudgets
  n_ctx_seq = 4
  n_batch = 2
  Window = 2
  CanTrim = FALSE
INVARIANTS
  TypeOK
PROPERTIES
  StatelessSpec
  EveryRunReturns
