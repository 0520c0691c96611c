CONSTANTS
  HeapStart = 0
  HeapSize = 96
  MAX_LEVEL = 2
  MIN_BLOCK = 4
  Managers = {"USE_BUDDY"}
  Requests = {}
  MAX_BLOCKS = 3
  MAX_MEMORY = 12
SPECIFICATION TestSpec
INVARIANT NoTestMmError
CHECK_DEADLOCK FALSE
