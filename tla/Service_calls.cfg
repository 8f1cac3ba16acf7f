\* Any kind of call to any kind of model, with the threads scheduled fairly.
SPECIFICATION FairSpec
CONSTANTS
  Rpcs = {r1, r2}
  NoRpc = NoRpc
  Models = {"chat", "plain", "embedding"}
  MaxTokens = 1
  Inputs <- MCInputs
  Length <- MCLength
  max_embed_tokens = 2
  MaxInputs = 2
  MaxCalls = 1
INVARIANTS
  StreamShape
  FinishIsHonest
  EmbedIsWhole
  EmbedPaysForNothing
PROPERTIES
  CallsEnd
