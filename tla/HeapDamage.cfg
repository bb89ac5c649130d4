SPECIFICATION Spec
CONSTANTS
  BLOCK_SIZE = 4
  BitSizes = {1, 2}
  FENCE_BOTTOM_SIZE = 1
  FENCE_TOP_SIZE = 1
  FREED_POINTER_DELAY = 2
  LARGEST_ALLOCATION = 6
  Levels = {0}
  SlotsPerBlock <- MCSlotsPerBlock
  MemoryLimit = 0
  Sizes = {0, 3}
  MallocFns = {"malloc", "valloc"}
  Settings <- BlankOrNeverReuse
  ScribbleParts = {"below", "bottom", "top", "above", "body"}
  HeapEnd = 20
  MaxIter = 6
  MaxScribbles = 1
INVARIANTS
  NoFalseAlarm
PROPERTIES
  VerifyTrue
  DamageKept
