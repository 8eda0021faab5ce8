SPECIFICATION FairSpec
CONSTANTS
  Conns = {c1, c2}
  NULL = NULL
  Group = 2
  Slots = 2
  NumPieces = 6
  MaxIndex = 10
  Asks <- Complete
  WriteErrors = TRUE
INVARIANTS
  TypeOK
  PiecesSound
  SentInOrder
PROPERTIES
  ReplyEnds
CHECK_DEADLOCK FALSE
