SPECIFICATION Spec
CONSTANTS
  Bits = {0, 1, 2}
  Tokens <- MCTokens
  TokenBits <- MCTokenBits
  CommaPaths <- MCCommaPaths
  Commands <- MCCommands
  Strings <- MCStrings
  Files <- MCFiles
  Unreadable = Unreadable
  LongBits = 16
  TagFlags <- MCTagFlags
  RcFiles <- MCRcFiles
  Missing = Missing
  NoHome = FALSE
  Shell = "bourne"
  MaxRuns = 1
INVARIANTS
  WordsAccounted
PROPERTIES
  SettingsKept
CHECK_DEADLOCK FALSE
