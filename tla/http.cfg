SPECIFICATION Spec
CONSTANTS
  Conns = {1, 2}
  Batch = 1
  Scripts <- MCScripts
  BufLen = 23
  MaxHeader = 40
  ULLONG_MAX = 999
  NULL = NULL
INVARIANTS TypeOK RequestsRead ConnsHeldOnce HeldByOne
CHECK_DEADLOCK FALSE
