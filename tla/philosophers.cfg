CONSTANTS
  MAX_PROCESSES = 5
  MAX_PRIORITY <- MaxPriority
  REALTIME_PRIORITY <- RealtimePriority
  DEFAULT_PRIORITY = 0
  MIN_PRIORITY = 0
  ExitStatuses = {0}
  MAX_SEMAPHORES = 4
  Names <- MC_Names
  InitialValues = {1}
  UINT8 = 8
  MAX_LINKS = 4
  MmMayFail = FALSE
  philo_count = 3
  MAX_PHILOSOPHERS = 4
  AbortDuringSetup = FALSE
SPECIFICATION FairPhiloSpec
INVARIANT NeighboursDontEat
INVARIANT CanBeCalledAgain
PROPERTY EveryoneEats
