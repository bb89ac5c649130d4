SPECIFICATION Spec
CONSTANTS
  PidPaths = {"log.%p"}
  OldPidPaths = {"log.%d"}
  PlainPaths = {"log", "nodir/log"}
  Unopenable = {"nodir/log"}
  NoPath = "none"
  Pids = {1, 2}
  FirstPid = 1
  Programs <- MCPrograms
  Pointers = {"p", "q"}
  NULL = "null"
  FREED_POINTER_DELAY = 2
INVARIANT LogsSeparate
CHECK_DEADLOCK FALSE
