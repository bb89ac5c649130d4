SPECIFICATION SpecCalls
CONSTANTS
  Top = 11
  Blocks <- MCBlocks
  Null = Null
  FenceByte = 98
  BlankByte = 99
  Pointers = {0, 1, 3, 4, 6, 8, 9}
  Lengths = {0, 2, 4}
  Bytes = {0, 1}
  Contents <- MCContents
  Strings <- MCStrings
  MaxCalls = 2
INVARIANTS
  ReportsTrue
CHECK_DEADLOCK FALSE
