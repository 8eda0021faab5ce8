SPECIFICATION Spec
CONSTANTS
  i1 = i1
  i2 = i2
  i3 = i3
  i4 = i4
  NULL = NULL
  Items <- FourItems
  Keys <- FourKeys
  InitPower = 0
  HashBits = 2
  HashFunctions <- SomeHashes
SYMMETRY Symmetry
INVARIANTS
  TypeOK
  TableSound
PROPERTIES
  RefinesDict
CHECK_DEADLOCK FALSE
