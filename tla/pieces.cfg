SPECIFICATION Spec
CONSTANTS
  Room = 17
  Header = 2
  Sizes = {1, 3}
  MaxMedia = 6
  MaxPieces = 3
  MaxTags = 2
  NULL = NULL
INVARIANTS PiecesAreWhole StaysInTags
CHECK_DEADLOCK FALSE
