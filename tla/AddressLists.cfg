SPECIFICATION Spec
CONSTANTS
  BLOCK_SIZE = 4
  SystemEnd = 21
  Directions = {"up", "down"}
  Starts = {4, 18}
  Others <- MCOthers
  MAX_SKIP_LEVEL = 4
  Heights = {0, 2}
  MaxSlots = 8
  Sizes = {2, 4}
  SlotsPerBlock <- MCSlotsPerBlock
INVARIANTS
  OneListEach
  ListsLevelled
  SearchesTrue
  BlocksSound
PROPERTIES
  ImplementsStore
CHECK_DEADLOCK FALSE
