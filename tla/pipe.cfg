CONSTANTS
  MAX_PROCESSES = 2
  MAX_PRIORITY <- MaxPriority
  REALTIME_PRIORITY <- RealtimePriority
  DEFAULT_PRIORITY = 0
  MIN_PRIORITY = 0
  ExitStatuses = {0}
  BUFFER_MAX_SIZE = 2
  MAX_PIPES = 1
  MAX_FDS = 5
  UINT = 31
  Names = {a}
  Messages <- MC_Messages
  Counts = {1}
  DupTargets = {0}
SPECIFICATION Spec
INVARIANT TypeOK
INVARIANT EndsCounted
INVARIANT NoLostWakeup
CONSTRAINT Modelled
VIEW View
CHECK_DEADLOCK FALSE
