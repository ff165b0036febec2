CONSTANTS
  Threads = {t1}
  Pages = {root, p1, p2}
  Root = root
  Null = Null
  Wild = Wild
  NoRequest = NoRequest
  Keys = {0}
  Kinds = {"read"}
  Values = {0, 1}
  Zero = 0
  RootSize = 2
  MidSize = 2
  LeafSize = 2
  DirtyHeap = TRUE
SPECIFICATION Spec
INVARIANT NoWildWalk
CHECK_DEADLOCK FALSE
