CONSTANTS
  SIZE = 8
  WORD = 4
  BYTE = 256
  Bytes = {0, 1, 255}
  Ints <- MCInts
  INT = 4096
  NIBBLES = 2
  Pieces <- MCPieces
  MaxPieces = 3

SPECIFICATION PrintSpec

INVARIANT BlocksAreWritten
INVARIANT StringsAreBuilt
INVARIANT StringsAreRead
INVARIANT FormatsAreFilled
INVARIANT NumbersReadBack

CHECK_DEADLOCK FALSE
