SPECIFICATION FairSpec
CONSTANTS
  BLOCK_SIZE = 4
  BitSizes = {1, 2}
  FENCE_BOTTOM_SIZE = 1
  FENCE_TOP_SIZE = 1
  FREED_POINTER_DELAY = 2
  LARGEST_ALLOCATION = 6
  Levels = {0}
  SlotsPerBlock <- MCSlotsPerBlock
  MemoryLimit = 0
  Sizes = {0, 2, 5}
  MallocFns = {"malloc"}
  Settings <- Plain
  ScribbleParts = {}
  HeapEnd = 24
  MaxIter = 6
  MaxScribbles = 0
INVARIANTS
  CInv
  ListsAgree
  NothingLost
  Counters
  FreedCounted
PROPERTIES
  ReuseDelayed
  CallsReturn
