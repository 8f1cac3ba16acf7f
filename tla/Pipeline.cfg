\* A reply is finished once: after that there is nothing left to do.
SPECIFICATION Spec
CONSTANTS
  Byte <- MCByte
  Width <- MCWidth
  Pieces <- MCPieces
  StopLists <- MCStopLists
  MaxBytes = 4
  MaxCalls = 2
CHECK_DEADLOCK FALSE
INVARIANTS
  ReadsAStretch
  ParsesTheWholeReply
  RejectedKeepsTheRest
PROPERTIES
  ReadsTheContent
