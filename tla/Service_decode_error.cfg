SPECIFICATION Spec
CONSTANTS
  Rpcs = {r1}
  NoRpc = NoRpc
  Models = {"chat"}
  MaxTokens = 2
  Inputs <- MCInputs
  Length <- MCLength
  max_embed_tokens = 2
  MaxInputs = 1
  MaxCalls = 1
INVARIANTS
  DecodeErrorIsInternal
