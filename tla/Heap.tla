-------------------------------- MODULE Heap --------------------------------
(* What a memory manager promises (memoryManager.h): the block it hands out is
   nobody else's until it is given back. *)
EXTENDS Integers

CONSTANTS
  HeapBytes,  \* the addresses of the heap
  Pointers,   \* those a block may begin at
  Sizes       \* sizes of blocks

VARIABLE blocks  \* the blocks handed out: their sizes, by their pointers

Region(ptr, size) == ptr .. ptr + size - 1

With(bs, ptr, size) == [other \in DOMAIN bs \cup {ptr} |-> IF other = ptr THEN size ELSE bs[other]]
Without(ptr) == [other \in DOMAIN blocks \ {ptr} |-> blocks[other]]

Init == blocks = <<>>

\* A block in the part of the heap that nobody has.
Alloc(ptr, size) ==
  /\ ptr \notin DOMAIN blocks
  /\ blocks' = With(blocks, ptr, size)
  /\ Region(ptr, size) \subseteq HeapBytes
  /\ \A other \in DOMAIN blocks : Region(ptr, size) \cap Region(other, blocks[other]) = {}

Free(ptr) ==
  /\ ptr \in DOMAIN blocks
  /\ blocks' = Without(ptr)

\* A block for another, where both have been there at once.
Realloc(old, ptr, size) ==
  /\ old \in DOMAIN blocks /\ ptr \notin DOMAIN blocks
  /\ blocks' = With(Without(old), ptr, size)
  /\ Region(ptr, size) \subseteq HeapBytes
  /\ \A other \in DOMAIN blocks : Region(ptr, size) \cap Region(other, blocks[other]) = {}

Next ==
  \/ \E ptr \in Pointers, size \in Sizes : Alloc(ptr, size)
  \/ \E ptr \in Pointers : Free(ptr)
  \/ \E old, ptr \in Pointers, size \in Sizes : Realloc(old, ptr, size)

Spec == Init /\ [][Next]_blocks
=============================================================================
