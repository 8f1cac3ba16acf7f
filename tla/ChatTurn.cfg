\* One request: once it is over there is nothing left to do.
SPECIFICATION Spec
CONSTANTS
  n_vocab = 5
  Eog = {5}
  a = a
  b = b
  Space = Space
  Char <- MCChar
  Piece <- MCPiece
  Tokenizer <- MCTokenizer
  Logit = {1, 2}
  Turns <- MCTurns
  Unset = Unset
  Styles <- MCStyles
  ToolFormats <- MCToolFormats
  MaxReply = 3
CHECK_DEADLOCK FALSE
INVARIANTS
  ReplySatisfiesGrammar
  RefusedForCause
  AwakeOnceTriggered
  AskedForIsBinding
PROPERTIES
  GreedyPicksTheBest
  DrawIsFromTheTop
