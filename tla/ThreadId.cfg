CONSTANTS
  Callers = {c1, c2, c3}
  Pids = {p1, p2, p3}
  NoPid = NoPid
  Free = Free
  N = 2
SPECIFICATION FairSpec
INVARIANTS OneSlotPerPid IInv
PROPERTIES SlotsStay RegisteredServed ImplementsIdAssign ImplementsIdAssignSafely
CHECK_DEADLOCK FALSE
