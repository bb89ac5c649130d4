SPECIFICATION SpecTests
CONSTANTS
  Top <- MCTop
  Blocks <- MCBlocks
  Null = Null
  FenceByte = 98
  BlankByte = 99
  Garbage = {0, 97}
  StrdupMacro = TRUE
PROPERTIES
  TestsSucceed
CHECK_DEADLOCK FALSE
