CONSTANTS
  N = 3
  Mutexes = {m}
  RWLocks = {}
  CondMutexes = {m}
  Addrs = {}
  Prompt = FALSE
  Top = 1
  MaxTicks = 2
SYMMETRY Symmetry
SPECIFICATION OrderSpec
INVARIANTS NoOrderInvented OrderInv
CHECK_DEADLOCK FALSE
