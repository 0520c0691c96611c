CONSTANTS
  MAX_PROCESSES = 2
  MAX_PRIORITY <- MaxPriority
  REALTIME_PRIORITY <- RealtimePriority
  DEFAULT_PRIORITY = 0
  MIN_PRIORITY = 0
  ExitStatuses = {0, 255}
  BUFFER_MAX = 2
  Keys <- MC_Keys
  Characters <- MC_Characters
  Letters <- MC_Keys
  Counts = {1, 3}
  MAX_PRESSED = 3
SPECIFICATION FairSpec
INVARIANT TypeOK
INVARIANT KeysInOrder
INVARIANT NoLostWakeup
PROPERTY KeyIsRead
VIEW View
CHECK_DEADLOCK FALSE
