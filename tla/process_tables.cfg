CONSTANTS
  MAX_PROCESSES = 3
  MAX_PRIORITY <- MaxPriority
  REALTIME_PRIORITY <- RealtimePriority
  DEFAULT_PRIORITY = 0
  MIN_PRIORITY = 0
  ExitStatuses = {0, 1, 255}
  AskedPriorities <- AskedDefault
  MAX_WAITERS = 1
  MmMayFail = TRUE
  BlockCalls = TRUE
  WaitOnlyChildren = FALSE
SPECIFICATION Spec
INVARIANT TypeOK
INVARIANT TablesAgree
INVARIANT ChildrenMatchParents
VIEW TreeView
