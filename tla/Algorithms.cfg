CONSTANTS
  Threads = {t1, t2}
  Pages = {0, 1, 2, 3, 4, 5}
  Root = 0
  Null = Null
  Wild = Wild
  NoRequest = NoRequest
  Keys = {0, 2, 4}
  Kinds = {"read", "erase"}
  Values = {0}
  Zero = 0
  RootSize = 2
  MidSize = 2
  LeafSize = 2
  DirtyHeap = FALSE
  Width = 4
  Chunk = 2
  Members = {1, 2, 4}
  MaxNodes = 1
  Granules = 3
  GranuleSizes = {1, 2}
  Fields = 2
  Contents = {0, 1}
  Block = 4
  InUse = {1, 2, 3}
  Ratios = {1, 2, 3}
  Driven = {1, 2}
  Grains = {1, 2}
  MaxOperators = 3
  KeyNames = {"address", "location"}
  ValueNames = {"status", "epoch"}
  InnerNames = {"status"}
  MaxMaps = 3
  OfUniverse = {"A1", "A2"}
  OfBottom = {"B1"}
  Doubled = {"A1"}
  MaxLength = 3
  MaxBranch = 1
SPECIFICATION AlgorithmsSpec
INVARIANTS
  LeavesNotMixed
  ListsCanonical
  SetsHoldWhatTheyShould
  ListsReadBack
  MapsReadAsMeant
  OffsetReadsAsMeant
  CopyKeepsMeaning
  FusedCellsKept
  GeneratedLockPaired
  GeneratedRefsCovered
PROPERTY SettledStays
CHECK_DEADLOCK FALSE
