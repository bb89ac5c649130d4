SPECIFICATION FairSpec
CONSTANTS
  f = f
  g = g
  NoFile = NoFile
  MEMORY_TABLE_SIZE = 2
  LINE_RANGE = 4
  Locations <- Lines
  Hash <- MCHash
  Pnts = {1, 2}
  Sizes = {1, 2}
  MaxCalls = 5
INVARIANTS
  TypeOK
  ProbeIntact
  EntriesTrue
  TotalComplete
PROPERTIES
  LogReturns
CHECK_DEADLOCK FALSE
