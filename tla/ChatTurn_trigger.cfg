\* A trigger that is passed on as a token, spelled with other tokens.
SPECIFICATION Spec
CONSTANTS
  n_vocab = 5
  Eog = {5}
  a = a
  b = b
  Space = Space
  Char <- MCChar
  Piece <- MCPiece
  Tokenizer <- MCTokenizer
  Logit = {1, 2}
  Turns <- MCTurns
  Unset = Unset
  Styles <- MCStyles
  ToolFormats <- MCToolFormats
  MaxReply = 3
CHECK_DEADLOCK FALSE
INVARIANTS
  AwakeOnceSpelled
