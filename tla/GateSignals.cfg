SPECIFICATION FairSpec
CONSTANTS
  m = m
  t = t
  u = u
  Threads <- MCOneThread
  Main = m
  LOCK_THREADS = FALSE
  THREAD_INIT_LOCK = 2
  LockOn = 0
  SetupLockOns = {0}
  CatchSignals = TRUE
  Alone = 1
  Kinds = {"call", "peek", "setup", "shutdown"}
  HeapMayFail = TRUE
  MaxSignals = 2
INVARIANTS
  InAllocTrue
PROPERTIES
  ShutdownReports
  SetupTakes
