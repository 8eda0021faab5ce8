SPECIFICATION FairSpec
CONSTANTS
  i1 = i1
  i2 = i2
  k1 = k1
  k2 = k2
  c1 = c1
  c2 = c2
  t1 = t1
  t2 = t2
  NULL = NULL
  Items <- TwoItems
  Keys <- OneKey
  Conns <- OneConn
  Threads <- TwoThreads
  Kinds <- TnOnly
  StreamsEnd = TRUE
  MaxShortReads = 0

PROPERTIES
  ParkedGetsResponse
CHECK_DEADLOCK FALSE
