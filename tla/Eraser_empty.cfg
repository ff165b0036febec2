CONSTANTS
  Threads = {t1, t2}
  Mutexes = {m}
  RWLocks = {}
  Addrs = {a}
  Block = {}
  NewSet = {}
  None = None
  MaxLog = 3
SYMMETRY Symmetry
SPECIFICATION Spec
INVARIANT LockSetExact
