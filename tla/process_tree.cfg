CONSTANTS
  MAX_PROCESSES = 4
  MAX_PRIORITY <- MaxPriority
  REALTIME_PRIORITY <- RealtimePriority
  DEFAULT_PRIORITY = 0
  MIN_PRIORITY = 0
  ExitStatuses = {0, 1, 255}
  AskedPriorities <- AskedDefault
  MAX_WAITERS = 1
  MmMayFail = FALSE
  BlockCalls = FALSE
  WaitOnlyChildren = TRUE
SPECIFICATION Spec
INVARIANT EverythingDescendsFromShell
INVARIANT NoLostWakeup
PROPERTY ImplementsForest
PROPERTY WaitpidReturnsAfterExit
VIEW WaitpidView
