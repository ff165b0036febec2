CONSTANTS
  N = 2
  Mutexes = {m}
  RWLocks = {rw}
  CondMutexes = {}
  Addrs = {a}
  Prompt = TRUE
  Top = 1
  MaxTicks = 2
SYMMETRY Symmetry
SPECIFICATION PlainSpec
INVARIANTS OrderKept NoFutureClock ReaderFollowsAccesses
CHECK_DEADLOCK FALSE
