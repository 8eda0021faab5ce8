SPECIFICATION Spec
CONSTANTS
  Conns = {c1, c2}
  NULL = NULL
  Group = 2
  Slots = 2
  NumPieces = 5
  MaxIndex = 8
  Asks <- Anything
  WriteErrors = TRUE
INVARIANTS
  ReadersSound
  WaitListsSound
PROPERTIES
  ReplyIsWhole
CHECK_DEADLOCK FALSE
SYMMETRY Symmetry
