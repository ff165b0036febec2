CONSTANTS
  Threads = {t1, t2, t3}
  Mutexes = {m}
  RWLocks = {rw}
  Addrs = {a}
  Block = {}
  NewSet = {m, rw}
  None = None
  MaxLog = 2
SYMMETRY Symmetry
SPECIFICATION Spec
INVARIANTS TypeOK LockSetFrom
