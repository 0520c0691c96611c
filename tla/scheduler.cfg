CONSTANTS
  MAX_PROCESSES = 3
  MAX_PRIORITY <- MaxPriority
  REALTIME_PRIORITY <- RealtimePriority
  DEFAULT_PRIORITY = 0
  MIN_PRIORITY = 1
  ExitStatuses = {0}
  AskedPriorities <- Asked
SPECIFICATION FairSpec
INVARIANT TypeOK
INVARIANT CpuRunsCurrent
INVARIANT RunningIsCurrent
PROPERTY YieldHandsOver
PROPERTY IdleOnlyWithoutWork
PROPERTY StarvationFree
