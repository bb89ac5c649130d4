SPECIFICATION FairSpec
CONSTANTS
  m = m
  t = t
  u = u
  Threads <- MCThreeThreads
  Main = m
  LOCK_THREADS = TRUE
  THREAD_INIT_LOCK = 2
  LockOn = 3
  SetupLockOns = {}
  CatchSignals = FALSE
  Alone = 3
  Kinds = {"call", "peek", "shutdown"}
  HeapMayFail = FALSE
  MaxSignals = 0
INVARIANTS
  GInv
  MadeInTime
  OneCallLost
PROPERTIES
  LockReleased
