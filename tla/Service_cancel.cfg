SPECIFICATION Spec
CONSTANTS
  Rpcs = {r1}
  NoRpc = NoRpc
  Models = {"chat"}
  MaxTokens = 3
  Inputs <- MCInputs
  Length <- MCLength
  max_embed_tokens = 2
  MaxInputs = 1
  MaxCalls = 1
INVARIANTS
  StopsAtNextToken
