------------------------------ MODULE FreeList ------------------------------
(***************************************************************************)
(* freeListMemoryManager.c as operators on one record:                     *)
(*                                                                         *)
(*   blocks     the headers in the heap, by their addresses: next, size    *)
(*              and the allocated bit of each; start_block is at START     *)
(*   used_mem, mem_chunks   the counters                                   *)
(*                                                                         *)
(* Sizes are below 2^63, the allocated bit, so no sum overflows.  What     *)
(* clients keep in their blocks is left out.                               *)
(***************************************************************************)
EXTENDS SequencesExt

CONSTANTS
  HeapStart,  \* start_address of mm_init
  HeapSize    \* its size

struct_size == 16
BYTE_ALIGNMENT == 8

START == -1  \* the address of start_block, which is not in the heap
NONE == -2   \* a NULL pointer

AlignUp(n) == ((n + BYTE_ALIGNMENT - 1) \div BYTE_ALIGNMENT) * BYTE_ALIGNMENT

FirstAddress == AlignUp(HeapStart)
\* Where end_block is: at the last aligned address that has room for it.
EndAddress == ((HeapStart + HeapSize - struct_size) \div BYTE_ALIGNMENT) * BYTE_ALIGNMENT

ASSUME FreeListAssumption ==
  /\ {HeapStart, HeapSize} \subseteq Nat
  /\ FirstAddress + 2 * struct_size < EndAddress

total_mem == EndAddress - FirstAddress

Header(next, size, allocated) == [next |-> next, block_size |-> size, allocated |-> allocated]

\* The function f with one more value.
With(f, x, value) == [y \in DOMAIN f \cup {x} |-> IF y = x THEN value ELSE f[y]]

ListInit ==
  [blocks     |-> [b \in {START, FirstAddress, EndAddress} |->
                     IF b = START THEN Header(FirstAddress, 0, FALSE)
                     ELSE IF b = FirstAddress THEN Header(EndAddress, total_mem, FALSE)
                     ELSE Header(NONE, 0, FALSE)],
   used_mem   |-> 0,
   mem_chunks |-> 0]

\* The addresses a walk along next goes through, from start_block to end_block.
FreeNodes(blocks) ==
  LET walk[b \in DOMAIN blocks] ==
        IF blocks[b].next = NONE THEN <<b>> ELSE <<b>> \o walk[blocks[b].next]
  IN  walk[START]

\* Mutant: a block is not merged with the free one before it.
InsertBlockForwardOnly(blocks, block) ==
  LET nodes == FreeNodes(blocks)
      iterator == nodes[SelectInSeq(nodes, LAMBDA b : blocks[b].next >= block)]
      next == blocks[iterator].next
      forward == block + blocks[block].block_size = next /\ next # EndAddress
      linked ==
        [blocks EXCEPT
           ![iterator].next = block,
           ![block] = Header(IF forward THEN blocks[next].next ELSE next,
                             @.block_size + (IF forward THEN blocks[next].block_size ELSE 0),
                             FALSE)]
  IN  Restrict(linked, DOMAIN linked \ (IF forward THEN {next} ELSE {}))

\* insert_block: into its place in the order of addresses, merged with the free
\* blocks that end where it begins and begin where it ends.
InsertBlock(blocks, block) ==
  LET nodes == FreeNodes(blocks)
      iterator == nodes[SelectInSeq(nodes, LAMBDA b : blocks[b].next >= block)]
      next == blocks[iterator].next
      backward == iterator + blocks[iterator].block_size = block
      merged == IF backward THEN iterator ELSE block
      size == blocks[block].block_size + (IF backward THEN blocks[iterator].block_size ELSE 0)
      forward == merged + size = next /\ next # EndAddress
      linked ==
        [blocks EXCEPT
           ![iterator].next = merged,
           ![merged] = Header(IF forward THEN blocks[next].next ELSE next,
                              size + (IF forward THEN blocks[next].block_size ELSE 0),
                              FALSE)]
  IN  Restrict(linked, DOMAIN linked \ ((IF backward THEN {block} ELSE {})
                                         \cup (IF forward THEN {next} ELSE {})))

\* Header included, aligned.
ListBytes(size) == AlignUp(size + struct_size)

ListPointer(block) == block + struct_size

\* The pointers mm_alloc may return, at most one: into the first free block that
\* is large enough.
ListFits(l, size) ==
  LET nodes == FreeNodes(l.blocks)
      first == SelectInSeq(nodes, LAMBDA b : l.blocks[b].block_size >= ListBytes(size))
  IN  IF ListBytes(size) > total_mem - l.used_mem \/ first = 0
      THEN {}
      ELSE {ListPointer(nodes[first])}

\* The rest of mm_alloc: the block leaves the list, and what it has too much
\* goes back when it is more than twice a header.
ListTake(l, ptr, size) ==
  LET block == CHOOSE b \in DOMAIN l.blocks : ListPointer(b) = ptr
      previous == CHOOSE b \in DOMAIN l.blocks :
                    ~l.blocks[b].allocated /\ l.blocks[b].next = block
      bytes == ListBytes(size)
      rest == l.blocks[block].block_size - bytes
      split == rest > 2 * struct_size
      taken == IF split THEN bytes ELSE l.blocks[block].block_size
      unlinked == [l.blocks EXCEPT ![previous].next = l.blocks[block].next,
                                   ![block] = Header(NONE, taken, TRUE)]
  IN  [blocks     |-> IF split
                      THEN InsertBlock(With(unlinked, block + bytes, Header(NONE, rest, FALSE)),
                                       block + bytes)
                      ELSE unlinked,
       used_mem   |-> l.used_mem + taken,
       mem_chunks |-> l.mem_chunks + 1]

ListFree(l, ptr) ==
  LET block == ptr - struct_size
  IN  [blocks     |-> InsertBlock(l.blocks, block),
       used_mem   |-> l.used_mem - l.blocks[block].block_size,
       mem_chunks |-> l.mem_chunks - 1]

----------------------------------------------------------------------------
(* What holds of the heap between calls. *)

HeapBlocks(l) == DOMAIN l.blocks \ {START}
AllocatedBlocks(l) == {b \in HeapBlocks(l) : l.blocks[b].allocated}

Bytes(l, bs) == MapThenSumSet(LAMBDA b : l.blocks[b].block_size, bs)

\* Blocks tile the heap, and the free ones are in the list, in the order of
\* their addresses, each as large as it can be.
ListWellFormed(l) ==
  LET nodes == FreeNodes(l.blocks)
  IN  /\ \A b \in HeapBlocks(l) \ {EndAddress} :
           /\ b + l.blocks[b].block_size \in HeapBlocks(l)
           /\ \A c \in HeapBlocks(l) : c <= b \/ c >= b + l.blocks[b].block_size
      /\ Range(nodes) = DOMAIN l.blocks \ AllocatedBlocks(l)
      /\ \A i \in 1 .. Len(nodes) - 1 :
           /\ nodes[i] < nodes[i + 1]
           /\ nodes[i] + l.blocks[nodes[i]].block_size = nodes[i + 1] =>
                nodes[i + 1] = EndAddress
      /\ l.used_mem = Bytes(l, AllocatedBlocks(l))
      /\ l.mem_chunks = Cardinality(AllocatedBlocks(l))
=============================================================================
