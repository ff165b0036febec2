CONSTANTS
  Threads = {t1, t2}
  Mutexes = {m}
  RWLocks = {rw}
  Addrs = {b}
  Block = {b}
  NewSet = {m, rw}
  None = None
  MaxLog = 2
SYMMETRY Symmetry
SPECIFICATION Spec
INVARIANTS RecordsHeld CellFollowsAccesses LockSetSound
