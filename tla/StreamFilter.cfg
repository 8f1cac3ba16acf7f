SPECIFICATION Spec
CONSTANTS
  Byte <- MCByte
  Width <- MCWidth
  Pieces <- MCPieces
  StopLists <- MCStopLists
  MaxBytes = 6
CHECK_DEADLOCK FALSE
INVARIANTS
  NothingLost
  HeldForAReason
  NoStopMissed
  EndedAtTheCut
  ChunksAreText
