SPECIFICATION Spec
CONSTANTS
  i1 = i1
  i2 = i2
  k1 = k1
  k2 = k2
  c1 = c1
  c2 = c2
  t1 = t1
  t2 = t2
  NULL = NULL
  Items <- TwoItems
  Keys <- TwoKeys
  Conns <- TwoConns
  Threads <- TwoThreads
  Kinds <- AllKinds
  StreamsEnd = TRUE
  MaxShortReads = 0
SYMMETRY Symmetry
INVARIANTS
  TypeOK
  PoolSound
  RegistrySound
  WaitListsSound
PROPERTIES
  OnlyOwnGetterDeletes
CHECK_DEADLOCK FALSE
