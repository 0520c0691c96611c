-------------------------------- MODULE Buddy --------------------------------
(***************************************************************************)
(* buddyMemoryManager.c as operators on one record: the two fields of the  *)
(* nodes of block_tree, each a function of their indices, and the          *)
(* counters.  Addresses count from heap_start.                             *)
(***************************************************************************)
EXTENDS Integers, FiniteSetsExt

CONSTANTS
  MAX_LEVEL,  \* level of the root
  MIN_BLOCK   \* bytes of a block of level 0

ASSUME BuddyAssumption == MAX_LEVEL \in Nat /\ MIN_BLOCK \in Nat \ {0}

Levels == 0 .. MAX_LEVEL
HEAP_SIZE == 2 ^ MAX_LEVEL * MIN_BLOCK
Nodes == 0 .. 2 ^ (MAX_LEVEL + 1) - 2

BuddyInit ==
  [used          |-> [index \in Nodes |-> FALSE],
   used_subnodes |-> [index \in Nodes |-> 0],
   used_mem      |-> 0,
   mem_chuncks   |-> 0]

BlockSize(level) == 2 ^ level * MIN_BLOCK

GetFirstIndex(level) == 2 ^ (MAX_LEVEL - level) - 1

GetPtr(index, level) == (index - GetFirstIndex(level)) * BlockSize(level)

\* The node of a level that covers an address.
NodeAt(ptr, level) == GetFirstIndex(level) + ptr \div BlockSize(level)

\* A node and those above it: what get_parent leads to.
Ancestors(index) == {(index + 1) \div 2 ^ k - 1 : k \in Levels} \ {-1}

\* get_level halves size - 1 until it is at most MIN_BLOCK.
GetLevel(size) ==
  CHOOSE level \in Levels :
    /\ (size - 1) \div 2 ^ level <= MIN_BLOCK
    /\ \A lower \in 0 .. level - 1 : (size - 1) \div 2 ^ lower > MIN_BLOCK

FreeIndices(b, level) ==
  {index \in GetFirstIndex(level) .. GetFirstIndex(level - 1) - 1 :
     ~b.used[index] /\ b.used_subnodes[index] = 0}

\* The pointers mm_alloc may return, at most one: the first free block of the
\* level.
BuddyFits(b, size) ==
  LET level == GetLevel(size)
      free == FreeIndices(b, level)
  IN  IF size > HEAP_SIZE \/ free = {} THEN {} ELSE {GetPtr(Min(free), level)}

\* update_parents and set_used.
SetUsed(b, index, state) ==
  LET delta == IF state THEN 1 ELSE -1
  IN  [b EXCEPT !.used = [i \in Nodes |-> IF index \in Ancestors(i) THEN state ELSE @[i]],
                !.used_subnodes =
                  [i \in Nodes |-> @[i] + (IF i \in Ancestors(index) THEN delta ELSE 0)]]

BuddyTake(b, ptr, size) ==
  LET level == GetLevel(size)
  IN  [SetUsed(b, NodeAt(ptr, level), TRUE) EXCEPT
         !.used_mem = @ + BlockSize(level), !.mem_chuncks = @ + 1]

\* Mutant: the block found may be at most of level 1.
GetMaxLevelTooLow(ptr) == IF ptr = 0 THEN MAX_LEVEL ELSE 0

\* The alignment of the pointer, which bounds the level of its block.  It counts
\* bytes, not blocks, so the bound is a loose one.
GetMaxLevel(ptr) == Max({level \in Levels : ptr % 2 ^ level = 0})

\* The levels search_node stops at, at most one: that of the first used node on
\* the way down to ptr, provided that its block begins there.
SearchNode(b, ptr) ==
  LET used == {level \in 0 .. GetMaxLevel(ptr) : b.used[NodeAt(ptr, level)]}
  IN  IF used = {} THEN {} ELSE {level \in {Max(used)} : GetPtr(NodeAt(ptr, level), level) = ptr}

BuddyFree(b, ptr) ==
  IF SearchNode(b, ptr) = {}
  THEN b
  ELSE LET level == Max(SearchNode(b, ptr))
       IN  [SetUsed(b, NodeAt(ptr, level), FALSE) EXCEPT
              !.used_mem = @ - BlockSize(level), !.mem_chuncks = @ - 1]

----------------------------------------------------------------------------
(* What holds of the tree between calls, given the levels of the blocks that
   clients have, by their pointers. *)

\* The tree says of every node whether it is in a block, and how many blocks
\* are below it.
TreeWellFormed(b, levels) ==
  LET taken == {NodeAt(ptr, levels[ptr]) : ptr \in DOMAIN levels}
  IN  /\ Cardinality(taken) = Cardinality(DOMAIN levels)
      /\ \A i \in Nodes :
           /\ b.used[i] <=> Ancestors(i) \cap taken # {}
           /\ b.used_subnodes[i] = Cardinality({j \in taken : i \in Ancestors(j)})
      /\ b.used_mem = MapThenSumSet(LAMBDA ptr : BlockSize(levels[ptr]), DOMAIN levels)
      /\ b.mem_chuncks = Cardinality(DOMAIN levels)
=============================================================================
