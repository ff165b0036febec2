CONSTANTS
  Threads = {t1, t2, t3}
  Bases = {0}
  BlockSizes = {1, 2}
  PoolSize = 2
  GranuleSize = 1
  Wrap = 3
  Hooks = {"before", "after"}
  Nobody = Nobody
SPECIFICATION FairSpec
INVARIANTS NoLostUpdate NoStaleReference FreedInOrder
PROPERTIES HandlersReturn
