------------------------------- MODULE TestMm -------------------------------
(***************************************************************************)
(* testmm (tests/test_mm.c) over the heap: it asks for blocks of any size  *)
(* until it has enough, writes a value of its own into each, checks that   *)
(* they are still there and gives the blocks back.  It is alone: what      *)
(* others do meanwhile would be in blocks of their own.                    *)
(***************************************************************************)
EXTENDS Memory

CONSTANTS
  MAX_BLOCKS,  \* blocks it asks for at most
  MAX_MEMORY   \* bytes it asks for at most

VARIABLES
  pc,        \* the loop it is in
  mm_rqs,    \* the blocks it has, address and size
  i,         \* the one the loop is at
  contents   \* what it has written, by address

testVars == <<memoryVars, pc, mm_rqs, i, contents>>

Total == FoldSeq(LAMBDA rq, sum : sum + rq.size, 0, mm_rqs)

TestInit ==
  /\ MemoryInit
  /\ pc = "request" /\ mm_rqs = <<>> /\ i = 1
  /\ contents = <<>>

\* The largest value GetUniform returns.
GetUniform(max) == Max({0, max - 1})

\* When there is no memory it asks again, for another size.
Request ==
  /\ pc = "request" /\ Len(mm_rqs) < MAX_BLOCKS /\ Total < MAX_MEMORY
  /\ \E size \in 1 .. GetUniform(MAX_MEMORY - Total - 1) + 1 :
       /\ MmAlloc(size)
       /\ mm_rqs' = Append(mm_rqs, [address |-> CHOOSE ptr \in DOMAIN asked' \ DOMAIN asked : TRUE,
                                    size |-> size])
  /\ UNCHANGED <<pc, i, contents>>

\* From one loop to the next.
GoTo(from, to) ==
  /\ pc = from
  /\ IF from = "request"
     THEN Len(mm_rqs) = MAX_BLOCKS \/ Total >= MAX_MEMORY
     ELSE i > Len(mm_rqs)
  /\ pc' = to /\ i' = 1
  /\ UNCHANGED <<memoryVars, mm_rqs, contents>>

AtBlock(step) == pc = step /\ i <= Len(mm_rqs) /\ i' = i + 1

RequestBytes(rq) == rq.address .. rq.address + rq.size - 1

SetBlock ==
  /\ AtBlock("set")
  /\ contents' = [byte \in RequestBytes(mm_rqs[i]) |-> i] @@ contents
  /\ UNCHANGED <<memoryVars, pc, mm_rqs>>

Intact(n) == \A byte \in RequestBytes(mm_rqs[n]) : contents[byte] = n

CheckBlock ==
  /\ AtBlock("check") /\ Intact(i)
  /\ UNCHANGED <<memoryVars, pc, mm_rqs, contents>>

Error ==
  /\ pc = "check" /\ i <= Len(mm_rqs) /\ ~Intact(i)
  /\ pc' = "error"
  /\ UNCHANGED <<memoryVars, mm_rqs, i, contents>>

FreeBlock ==
  /\ AtBlock("free")
  /\ MmFree(mm_rqs[i].address)
  /\ UNCHANGED <<pc, mm_rqs, contents>>

TestNext ==
  \/ Request
  \/ GoTo("request", "set")
  \/ SetBlock
  \/ GoTo("set", "check")
  \/ CheckBlock
  \/ Error
  \/ GoTo("check", "free")
  \/ FreeBlock
  \/ GoTo("free", "done")

TestSpec == TestInit /\ [][TestNext]_testVars

(* testmm never finds a block changed and so never prints "test_mm ERROR"
   (tests/test_mm.c:58-60), its statement of what malloc is good for. *)
NoTestMmError == pc # "error"
=============================================================================
