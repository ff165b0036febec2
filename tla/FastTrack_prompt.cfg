CONSTANTS
  N = 3
  Mutexes = {m1, m2}
  RWLocks = {}
  CondMutexes = {}
  Addrs = {}
  Prompt = TRUE
  Top = 3
  MaxTicks = 2
SYMMETRY Symmetry
SPECIFICATION PlainSpec
INVARIANTS ClockExact
CHECK_DEADLOCK FALSE
