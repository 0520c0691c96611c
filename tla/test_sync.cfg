CONSTANTS
  MAX_PROCESSES = 4
  MAX_PRIORITY <- MaxPriority
  REALTIME_PRIORITY <- RealtimePriority
  DEFAULT_PRIORITY = 0
  MIN_PRIORITY = 0
  ExitStatuses = {0}
  MAX_SEMAPHORES = 2
  Names = {sem}
  InitialValues = {1}
  UINT8 = 5
  MAX_LINKS = 4
  MmMayFail = FALSE
  N = 2
  TOTAL_PAIR_PROCESSES = 2
SPECIFICATION FairSyncSpec
INVARIANT MutualExclusion
INVARIANT NoLostUpdate
PROPERTY FinalValueIsZero
