CONSTANTS
  MAX_PROCESSES = 4
  MAX_PRIORITY <- MaxPriority
  REALTIME_PRIORITY <- RealtimePriority
  DEFAULT_PRIORITY = 0
  MIN_PRIORITY = 0
  ExitStatuses = {0}
  MAX_SEMAPHORES = 1
  Names = {n1, n2}
  InitialValues = {0, 1}
  UINT8 = 4
  MAX_LINKS = 3
  MmMayFail = TRUE
SPECIFICATION Spec
INVARIANT TypeOK
INVARIANT LinksCounted
INVARIANT HeldSemaphoreExists
INVARIANT NoLostWakeup
VIEW View
SYMMETRY Symmetry
