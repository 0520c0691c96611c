------------------------------- MODULE Memory -------------------------------
(***************************************************************************)
(* The kernel's heap and the system calls on it, with either of the two    *)
(* memory managers; the build chooses one (MEMORY_MANAGER in               *)
(* Kernel/Makefile.inc, which says the free list). mm_alloc, mm_free and   *)
(* mm_realloc run with interrupts off, a step each, for the kernel as for  *)
(* a process. Whoever has a pointer gives it back once.                    *)
(***************************************************************************)
EXTENDS FreeList, Buddy

CONSTANTS
  Managers,  \* memory managers to look at: "USE_LIST", "USE_BUDDY"
  Requests   \* sizes mm_alloc is called with

ASSUME MemoryAssumption ==
  /\ Managers \subseteq {"USE_LIST", "USE_BUDDY"}
  /\ Requests \subseteq Nat \ {0}

VARIABLES
  manager,  \* the memory manager of this build
  list,     \* its state, if it is the free list
  buddy,    \* its state, if it is the buddy system
  asked     \* what clients have: the sizes they asked for, by their pointers

memoryVars == <<manager, list, buddy, asked>>

MemoryInit ==
  /\ manager \in Managers
  /\ list = ListInit /\ buddy = BuddyInit
  /\ asked = <<>>

Without(ptr) == Restrict(asked, DOMAIN asked \ {ptr})

ListAlloc(ptr, size) ==
  /\ manager = "USE_LIST" /\ ptr \in ListFits(list, size)
  /\ list' = ListTake(list, ptr, size)
  /\ asked' = With(asked, ptr, size)
  /\ UNCHANGED <<manager, buddy>>

BuddyAlloc(ptr, size) ==
  /\ manager = "USE_BUDDY" /\ ptr \in BuddyFits(buddy, size)
  /\ buddy' = BuddyTake(buddy, ptr, size)
  /\ asked' = With(asked, ptr, size)
  /\ UNCHANGED <<manager, list>>

\* When there is no such pointer, mm_alloc returns NULL and changes nothing.
MmAlloc(size) ==
  \/ \E ptr \in ListFits(list, size) : ListAlloc(ptr, size)
  \/ \E ptr \in BuddyFits(buddy, size) : BuddyAlloc(ptr, size)

MmFree(ptr) ==
  /\ ptr \in DOMAIN asked
  /\ IF manager = "USE_LIST"
     THEN list' = ListFree(list, ptr) /\ UNCHANGED buddy
     ELSE buddy' = BuddyFree(buddy, ptr) /\ UNCHANGED list
  /\ asked' = Without(ptr)
  /\ UNCHANGED manager

\* Mutant: the old block is given back before there is a new one.
MmReallocFreesFirst(old, size) ==
  /\ old \in DOMAIN asked
  /\ \/ /\ manager = "USE_LIST"
        /\ \E ptr \in ListFits(ListFree(list, old), size) :
             /\ list' = ListTake(ListFree(list, old), ptr, size)
             /\ asked' = With(Without(old), ptr, size)
        /\ UNCHANGED buddy
     \/ /\ manager = "USE_BUDDY"
        /\ \E ptr \in BuddyFits(BuddyFree(buddy, old), size) :
             /\ buddy' = BuddyTake(BuddyFree(buddy, old), ptr, size)
             /\ asked' = With(Without(old), ptr, size)
        /\ UNCHANGED list
  /\ UNCHANGED manager

\* A new block, a copy and the old block back; nothing when there is no new one.
MmRealloc(old, size) ==
  /\ old \in DOMAIN asked
  /\ \/ /\ manager = "USE_LIST"
        /\ \E ptr \in ListFits(list, size) :
             /\ list' = ListFree(ListTake(list, ptr, size), old)
             /\ asked' = With(Without(old), ptr, size)
        /\ UNCHANGED buddy
     \/ /\ manager = "USE_BUDDY"
        /\ \E ptr \in BuddyFits(buddy, size) :
             /\ buddy' = BuddyFree(BuddyTake(buddy, ptr, size), old)
             /\ asked' = With(Without(old), ptr, size)
        /\ UNCHANGED list
  /\ UNCHANGED manager

MemoryNext ==
  \/ \E size \in Requests : MmAlloc(size)
  \/ \E ptr \in DOMAIN asked : MmFree(ptr)
  \/ \E ptr \in DOMAIN asked, size \in Requests : MmRealloc(ptr, size)

MemorySpec == MemoryInit /\ [][MemoryNext]_memoryVars

----------------------------------------------------------------------------

(* The free list never loses a byte, splits or merges wrongly: after any calls
   the blocks still tile the heap, the list has all the free ones in order, no
   two of them adjacent, and the counters agree, so the memory given back is as
   good as new (freeListMemoryManager.c:136-165). *)
ListKept ==
  /\ ListWellFormed(list)
  /\ DOMAIN asked = {ListPointer(b) : b \in AllocatedBlocks(list)} \/ manager = "USE_BUDDY"

LevelOf(ptr) == GetLevel(asked[ptr])

(* The buddy tree is always the one of the blocks handed out, each aligned to its
   size: mm_free, which is told no size, finds the very node mm_alloc took
   (buddyMemoryManager.c:204-226). *)
BuddyKept ==
  manager = "USE_BUDDY" => TreeWellFormed(buddy, [ptr \in DOMAIN asked |-> LevelOf(ptr)])

ListHeap == INSTANCE Heap WITH
  HeapBytes <- FirstAddress .. EndAddress - 1,
  Pointers <- {ptr \in FirstAddress .. EndAddress - 1 : ptr % BYTE_ALIGNMENT = 0},
  Sizes <- Requests,
  blocks <- IF manager = "USE_LIST" THEN asked ELSE <<>>

BuddyHeap == INSTANCE Heap WITH
  HeapBytes <- 0 .. HEAP_SIZE - 1,
  Pointers <- {n * MIN_BLOCK : n \in 0 .. 2 ^ MAX_LEVEL - 1},
  Sizes <- {BlockSize(level) : level \in Levels},
  blocks <- [ptr \in IF manager = "USE_BUDDY" THEN DOMAIN asked ELSE {} |->
               BlockSize(LevelOf(ptr))]

(* Either manager only hands out blocks of the heap that nobody else has: in the
   free list of the bytes asked for, in the buddy system of the level's size. *)
ImplementsHeap == ListHeap!Spec /\ BuddyHeap!Spec
=============================================================================
