CONSTANTS
  HeapStart = 3
  HeapSize = 160
  MAX_LEVEL = 3
  MIN_BLOCK = 8
  Managers = {"USE_LIST", "USE_BUDDY"}
  Requests = {1, 9, 17, 40}
SPECIFICATION MemorySpec
INVARIANT ListKept
INVARIANT BuddyKept
PROPERTY ImplementsHeap
