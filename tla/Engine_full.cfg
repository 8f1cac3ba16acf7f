\* The memory can drop any suffix, and may let the first cell go once it is full.
SPECIFICATION Spec
CONSTANTS
  Callers = {c1, c2}
  NoCaller = NoCaller
  a = a
  b = b
  e = e
  Token = {a, b, e}
  Eog = {e}
  Prompts <- MCPrompts
  Budgets <- MCBudgets
  n_ctx_seq = 4
  n_batch = 2
  Window = 3
  CanTrim = TRUE
SYMMETRY CallerSymmetry
INVARIANTS
  RecordMatchesMemory
  ContextIsRequest
  DecodeFits
PROPERTIES
  KeptIsLongest
  ReturnKeepsTranscript
  LengthIsHonest
  BudgetKept
