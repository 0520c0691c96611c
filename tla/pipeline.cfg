CONSTANTS
  MAX_PROCESSES = 3
  MAX_PRIORITY <- MaxPriority
  REALTIME_PRIORITY <- RealtimePriority
  DEFAULT_PRIORITY = 0
  MIN_PRIORITY = 0
  ExitStatuses = {0}
  BUFFER_MAX_SIZE = 4
  MAX_PIPES = 2
  MAX_FDS = 5
  UINT = 31
  Names = {a}
  Messages <- MC_Messages
  Counts = {1, 101}
  DupTargets = {0, 1}
  Lines <- MC_Lines
  Programs = {"pipeline", "testpipe"}
  TypedLines <- MC_TypedLines
  Leftovers = {"cat", ""}
  BUFF_SIZE = 2
SPECIFICATION FairPipelineSpec
INVARIANT PipedInOrder
INVARIANT EndIsAfterAll
INVARIANT OutputIsRight
PROPERTY PromptReturns
CONSTRAINT Modelled
