SPECIFICATION Spec
CONSTANTS
  BLOCK_SIZE = 4
  BitSizes = {1, 2}
  FENCE_BOTTOM_SIZE = 1
  FENCE_TOP_SIZE = 1
  FREED_POINTER_DELAY = 2
  LARGEST_ALLOCATION = 6
  Levels = {0}
  SlotsPerBlock <- MCSlotsPerBlock
  MemoryLimit = 6
  Sizes = {1, 3, 4}
  MallocFns = {"malloc"}
  Settings <- PlainOrFence
  ScribbleParts = {}
  HeapEnd = 24
  MaxIter = 5
  MaxScribbles = 0
INVARIANTS
  LimitRounded
  UserFits
PROPERTIES
  DoubleFreeReported
  ImplementsAllocator
