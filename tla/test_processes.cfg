CONSTANTS
  MAX_PROCESSES = 5
  MAX_PRIORITY <- MaxPriority
  REALTIME_PRIORITY <- RealtimePriority
  DEFAULT_PRIORITY = 0
  MIN_PRIORITY = 0
  ExitStatuses = {0, 1, 255}
  AskedPriorities <- AskedDefault
  MAX_WAITERS = 1
  MmMayFail = FALSE
  BlockCalls = TRUE
  WaitOnlyChildren = TRUE
  max_processes = 3
SPECIFICATION FairTestSpec
INVARIANT RecordsAreTrue
INVARIANT NeverAnError
PROPERTY PromptComesBack
