CONSTANTS
  Threads = {t1, t2, t3}
  Pages = {root, p1, p2, p3}
  Root = root
  Null = Null
  Wild = Wild
  NoRequest = NoRequest
  Keys = {0, 2}
  Kinds = {"write", "peek"}
  Values = {0, 1}
  Zero = 0
  RootSize = 2
  MidSize = 2
  LeafSize = 2
  DirtyHeap = FALSE
SYMMETRY Symmetry
SPECIFICATION Spec
INVARIANTS FullInv OneCellPerKey NoPageLost
PROPERTIES SlotsWriteOnce ImplementsShadowMapSafely
