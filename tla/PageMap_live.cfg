CONSTANTS
  Threads = {t1, t2}
  Pages = {root, p1, p2, p3}
  Root = root
  Null = Null
  Wild = Wild
  NoRequest = NoRequest
  Keys = {0, 1, 4}
  Kinds = {"read", "erase"}
  Values = {0, 1}
  Zero = 0
  RootSize = 2
  MidSize = 2
  LeafSize = 2
  DirtyHeap = TRUE
SPECIFICATION FairSpec
INVARIANT NoAliasing
PROPERTIES InstalledKeysServed WalkEnds
CHECK_DEADLOCK FALSE
