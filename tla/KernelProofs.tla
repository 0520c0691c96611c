---------------------------- MODULE KernelProofs ----------------------------
(***************************************************************************)
(* The kernel's two components that wait for nobody: the scheduler, for    *)
(* every table size and priority scale, and the memory managers, for every *)
(* heap and all sizes asked for.                                           *)
(*                                                                         *)
(* What the free list manager keeps (ListInv) is said of each header and   *)
(* not of the walk along next: the blocks tile the heap (Tiled), the next  *)
(* of each free one is the free one after it and does not begin where it   *)
(* ends (Linked), addresses are aligned and the counters agree.  What the  *)
(* walk finds follows (FreeNodesFacts).  Each pointer given out belongs to *)
(* an allocated block with room for the bytes asked for (Clients), so no   *)
(* two clients share a byte, which is all that Heap promises.              *)
(*                                                                         *)
(* What the buddy system keeps (BuddyInv) is that each block begins at a   *)
(* multiple of its size and that no block's node is above another's        *)
(* (Placed), and that the tree and the counters are those of the blocks    *)
(* (Marked, Tallied).  The nodes above a block's are those that cover its  *)
(* address at higher levels (AncestorsOfNode): two blocks that share a     *)
(* byte would be one above the other, and the first used node on the way   *)
(* down to a block is its own (SearchFinds).                               *)
(***************************************************************************)
EXTENDS Scheduler, Memory, KernelLemmas

----------------------------------------------------------------------------
(* The scheduler *)

\* Inductive as it stands: TypeOK /\ CpuRunsCurrent /\ RunningIsCurrent.
IInv == SchInv(sch)

LEMMA InitEstablishesIInv == Init => IInv
<1> SUFFICES ASSUME Init PROVE IInv
  OBVIOUS
<1>1. /\ SchInit.rsp[0] = NULL /\ SchInit.current # KILLED_PROC_PID
      /\ 0 \in Pids /\ MAX_PRIORITY \in Int
  BY SchedulerAssumption DEF SchInit, Pids, KERNEL_PROC_PID, KILLED_PROC_PID
<1> QED BY <1>1, InitHasSchInv, CreateKeepsSchInv DEF Init, IInv

LEMMA NextKeepsIInv == IInv /\ [Next]_sch => IInv'
<1> SUFFICES ASSUME IInv, [Next]_sch PROVE IInv'
  OBVIOUS
<1> USE DEF IInv
<1>0. /\ \A pid \in Pids : pid \in Int
      /\ sch.current \in Pids => sch.current \in Int
      /\ AskedPriorities \subseteq Int
  BY AskedPrioritiesAssumption DEF Pids
<1>1. ASSUME NEW pid \in Pids, NEW priority \in AskedPriorities, Create(pid, priority)
      PROVE  IInv'
  BY <1>0, <1>1, CreateKeepsSchInv DEF Create, Free
<1>2. ASSUME NEW pid \in Pids, NEW status \in ExitStatuses, Kill(pid, status)
      PROVE  IInv'
  BY <1>0, <1>2, KilledKeepsSchInv DEF Kill
<1>3. ASSUME NEW status \in ExitStatuses, Exit(status)
      PROVE  IInv'
  BY <1>0, <1>3, KilledKeepsSchInv, YieldKeepsSchInv DEF Exit
<1>4. CASE BlockAndYield
  BY <1>0, <1>4, BlockKeepsSchInv, YieldKeepsSchInv DEF BlockAndYield
<1>5. ASSUME NEW pid \in Pids, Block(pid)
      PROVE  IInv'
  BY <1>0, <1>5, BlockKeepsSchInv DEF Block
<1>6. ASSUME NEW pid \in Pids, Unblock(pid)
      PROVE  IInv'
  BY <1>0, <1>6, UnblockKeepsSchInv DEF Unblock
<1>7. ASSUME NEW pid \in Pids, NEW priority \in AskedPriorities, SetPriority(pid, priority)
      PROVE  IInv'
  BY <1>0, <1>7, SetPriorityKeepsSchInv DEF SetPriority
<1>8. CASE Yield
  BY <1>8, YieldKeepsSchInv DEF Yield
<1>9. CASE Tick
  BY <1>9, SwitchKeepsSchInv DEF Tick
<1>10. CASE UNCHANGED sch
  BY <1>10
<1> QED
  BY <1>1, <1>2, <1>3, <1>4, <1>5, <1>6, <1>7, <1>8, <1>9, <1>10 DEF Next

(* The statics keep to their types: no pid is out of range, quantums never
   underflows, and the switch never loads a null stack pointer. *)
THEOREM SchedulerTypeOK == Spec => []TypeOK
<1>1. IInv => TypeOK
  BY DEF IInv, SchInv, TypeOK
<1> QED BY InitEstablishesIInv, NextKeepsIInv, <1>1, PTL DEF Spec

(* The processor executes what current_running_pid says, or a killed process
   whose slot nobody has taken. *)
THEOREM SchedulerCpuRunsCurrent == Spec => []CpuRunsCurrent
<1>1. IInv => CpuRunsCurrent
  BY DEF IInv, SchInv, CpuRunsCurrent
<1> QED BY InitEstablishesIInv, NextKeepsIInv, <1>1, PTL DEF Spec

(* At most one process is RUNNING, and it is the current one. *)
THEOREM SchedulerRunningIsCurrent == Spec => []RunningIsCurrent
<1>1. IInv => RunningIsCurrent
  BY DEF IInv, SchInv, RunningIsCurrent
<1> QED BY InitEstablishesIInv, NextKeepsIInv, <1>1, PTL DEF Spec

----------------------------------------------------------------------------
(* What a switch may do *)

\* The circular search comes back to where it started only when it has found
\* nobody on the way.
LEMMA SearchEndsAtCurrent ==
  ASSUME NEW s, s.current \in Pids, s.current \in GetNextReadyPid(s)
  PROVE  ReadyPids(s) \subseteq {s.current}
<1> SUFFICES ASSUME NEW q \in ReadyPids(s), q # s.current PROVE FALSE
  OBVIOUS
<1>1. q \in Pids /\ s.current \in ReadyPids(s)
  BY DEF ReadyPids, GetNextReadyPid, Pids, KERNEL_PROC_PID
<1>2. SearchDistance(s, s.current) <= SearchDistance(s, q)
  BY <1>1 DEF GetNextReadyPid
<1>3. SearchDistance(s, s.current) = MAX_PROCESSES
  BY SchedulerAssumption DEF SearchDistance, Pids
<1>4. SearchDistance(s, q) < MAX_PROCESSES
  BY <1>1, SchedulerAssumption DEF SearchDistance, Pids
<1>5. SearchDistance(s, q) \in Int
  BY <1>1, SchedulerAssumption DEF SearchDistance, Pids
<1> QED BY <1>2, <1>3, <1>4, <1>5, SchedulerAssumption

\* Saving the context of the current process makes nobody else ready.
LEMMA SaveContextKeepsReady ==
  ASSUME NEW s, SchInv(s), NEW saved, saved = SaveContext(s)
  PROVE  /\ saved.current = s.current /\ saved.force = s.force /\ saved.quantums = s.quantums
         /\ \A q \in Pids : q # s.current => (IsReady(saved, q) <=> IsReady(s, q))
<1>1. CASE s.current \in Pids
  <2> DEFINE t == [s EXCEPT !.rsp[s.current] = s.cpu,
                            !.status[s.current] = IF @ = "RUNNING" THEN "READY" ELSE @]
  <2>1. saved = t
    BY <1>1 DEF SaveContext
  <2>2. /\ t.status = [s.status EXCEPT ![s.current] = IF @ = "RUNNING" THEN "READY" ELSE @]
        /\ t.rsp = [s.rsp EXCEPT ![s.current] = s.cpu]
        /\ t.current = s.current /\ t.force = s.force /\ t.quantums = s.quantums
    BY DEF SchInv, SchStates
  <2> HIDE DEF t
  <2> QED BY <2>1, <2>2 DEF SchInv, SchStates, IsReady, IsActive
<1>2. CASE s.current \notin Pids
  BY <1>2 DEF SaveContext, SchInv, SchStates, IsReady, IsActive
<1> QED BY <1>1, <1>2

(* A process that yields gives the processor to somebody else if anybody else is
   ready, however the circular search goes round. *)
THEOREM SchedulerYieldHandsOver == Spec => YieldHandsOver
<1>1. ASSUME IInv, Yield, sch.current \in Pids, sch.force # sch.current,
             sch'.current = sch.current
      PROVE  ReadyPids(sch) \subseteq {sch.current}
  <2> DEFINE u == [sch EXCEPT !.quantums = 0]
             saved == SaveContext(u)
  <2>1. /\ u \in SchStates /\ u.status = sch.status /\ u.rsp = sch.rsp /\ u.force = sch.force
        /\ u.current = sch.current /\ u.cpu = sch.cpu /\ u.kernel_rsp = sch.kernel_rsp
        /\ u.quantums = 0
    BY <1>1, QuantumsInRange DEF IInv, SchInv, SchStates
  <2>2. SchSwitch(u, sch')
    BY <1>1 DEF Yield, SchYield
  <2> HIDE DEF u
  <2>3. SchInv(u)
    BY <1>1, <2>1 DEF IInv, SchInv, ContextsKept, OnlyCurrentRuns, IsActive
  <2>4. /\ saved.current = sch.current /\ saved.force = sch.force /\ saved.quantums = 0
        /\ \A q \in Pids : q # sch.current => (IsReady(saved, q) <=> IsReady(u, q))
        /\ saved \in SchStates
    BY <2>1, <2>3, SaveContextKeepsReady, SaveContextEstablishesSavedInv DEF SavedInv
  <2> HIDE DEF saved
  <2>5. ~IsReady(saved, saved.force)
    <3> SUFFICES ASSUME IsReady(saved, saved.force) PROVE FALSE
      OBVIOUS
    <3>1. sch' = [Dispatch(saved, saved.force) EXCEPT !.force = KILLED_PROC_PID]
      BY <2>2 DEF SchSwitch, saved
    <3>2. sch'.current = saved.force
      BY <2>4, <3>1 DEF Dispatch, SchStates
    <3> QED BY <1>1, <2>4, <3>2
  <2>6. PICK next \in GetNextReadyPid(saved) :
          sch' = IF next = KERNEL_PROC_PID THEN Idle(saved) ELSE Dispatch(saved, next)
    BY <2>2, <2>4, <2>5 DEF SchSwitch, saved
  <2>7. next = sch.current
    <3>1. Idle(saved).current = KERNEL_PROC_PID /\ Dispatch(saved, next).current = next
      BY <2>4 DEF Idle, Dispatch, SchStates
    <3>2. sch.current # KERNEL_PROC_PID
      BY <1>1 DEF Pids, KERNEL_PROC_PID
    <3> QED BY <1>1, <2>6, <3>1, <3>2
  <2>8. ReadyPids(saved) \subseteq {sch.current}
    BY <1>1, <2>4, <2>6, <2>7, SearchEndsAtCurrent
  <2> QED BY <2>1, <2>4, <2>8 DEF ReadyPids, IsReady, IsActive
<1>2. IInv /\ [Next]_sch
      => [Yield /\ sch.current \in Pids /\ sch.force # sch.current
          => \/ sch'.current # sch.current
             \/ ReadyPids(sch) \subseteq {sch.current}]_sch
  BY <1>1
<1> QED BY InitEstablishesIInv, NextKeepsIInv, <1>2, PTL DEF Spec, YieldHandsOver

\* A switch that ends in the idle loop has found nobody to dispatch.
LEMMA SwitchIdlesWithoutWork ==
  ASSUME NEW s, SchInv(s), NEW t, SchSwitch(s, t), t.current = KERNEL_PROC_PID
  PROVE  ReadyPids(t) = {}
<1> DEFINE saved == SaveContext(s)
<1>1. SavedInv(saved)
  BY SaveContextEstablishesSavedInv
<1>2. saved \in SchStates /\ KERNEL_PROC_PID \notin Pids
  BY <1>1 DEF SavedInv, Pids, KERNEL_PROC_PID
<1> HIDE DEF saved
<1>3. ASSUME NEW pid \in Pids
      PROVE  /\ Dispatch(saved, pid).current = pid
             /\ [Dispatch(saved, pid) EXCEPT !.force = KILLED_PROC_PID].current = pid
  BY <1>2 DEF Dispatch, SchStates
<1>4. /\ KeepRunning(saved).current = saved.current
      /\ Idle(saved).status = saved.status /\ Idle(saved).rsp = saved.rsp
  BY <1>2 DEF KeepRunning, Idle, SchStates
<1>5. \A pid : IsReady(saved, pid) => pid \in Pids
  BY DEF IsReady, IsActive
<1>6. PICK next \in GetNextReadyPid(saved) :
        t = IF next = KERNEL_PROC_PID THEN Idle(saved) ELSE Dispatch(saved, next)
  BY <1>2, <1>3, <1>4, <1>5 DEF SchSwitch, saved
<1>7. ReadyPids(saved) = {} /\ t = Idle(saved)
  BY <1>2, <1>3, <1>6 DEF GetNextReadyPid, ReadyPids
<1> QED BY <1>4, <1>7 DEF ReadyPids, IsReady, IsActive

\* So has one by sch_yield.
LEMMA YieldIdlesWithoutWork ==
  ASSUME NEW s, SchInv(s), NEW t, SchYield(s, t), t.current = KERNEL_PROC_PID
  PROVE  ReadyPids(t) = {}
<1>a. PICK u : u = [s EXCEPT !.quantums = 0]
  OBVIOUS
<1>1. /\ u \in SchStates /\ u.status = s.status /\ u.rsp = s.rsp
      /\ u.current = s.current /\ u.cpu = s.cpu /\ u.kernel_rsp = s.kernel_rsp
  BY <1>a, QuantumsInRange DEF SchInv, SchStates
<1>2. SchInv(u)
  BY <1>1 DEF SchInv, ContextsKept, OnlyCurrentRuns, IsActive
<1>3. SchSwitch(u, t)
  BY <1>a DEF SchYield
<1> QED BY <1>2, <1>3, SwitchIdlesWithoutWork

(* The processor is left to the kernel's idle loop only when there is nobody to
   dispatch, by whichever call or interrupt, and not for longer than to the next
   switch. *)
THEOREM SchedulerIdleOnlyWithoutWork == Spec => IdleOnlyWithoutWork
<1>1. ASSUME IInv, Tick, sch'.current = KERNEL_PROC_PID
      PROVE  ReadyPids(sch') = {}
  BY <1>1, SwitchIdlesWithoutWork DEF IInv, Tick
<1>2. ASSUME IInv, Yield, sch'.current = KERNEL_PROC_PID
      PROVE  ReadyPids(sch') = {}
  BY <1>2, YieldIdlesWithoutWork DEF IInv, Yield
<1>3. ASSUME IInv, BlockAndYield, sch'.current = KERNEL_PROC_PID
      PROVE  ReadyPids(sch') = {}
  <2>1. sch.current \in Int
    BY <1>3 DEF BlockAndYield, Pids
  <2>2. SchInv(SchBlock(sch, sch.current))
    BY <1>3, <2>1, BlockKeepsSchInv DEF IInv
  <2> QED BY <1>3, <2>2, YieldIdlesWithoutWork DEF BlockAndYield
<1>4. ASSUME IInv, NEW status \in ExitStatuses, Exit(status), sch'.current = KERNEL_PROC_PID
      PROVE  ReadyPids(sch') = {}
  <2>1. sch.current \in Int
    BY <1>4 DEF Exit, Pids
  <2>2. SchInv(SchOnProcessKilled(sch, sch.current, status))
    BY <1>4, <2>1, KilledKeepsSchInv DEF IInv
  <2> QED BY <1>4, <2>2, YieldIdlesWithoutWork DEF Exit
<1>5. ASSUME IInv, Next, ~Tick, ~Yield, ~BlockAndYield, ~(\E status \in ExitStatuses : Exit(status)),
             sch'.current = KERNEL_PROC_PID
      PROVE  sch.current = KERNEL_PROC_PID
  <2> USE DEF IInv
  <2>0. sch \in SchStates /\ KERNEL_PROC_PID # KILLED_PROC_PID
    BY <1>5 DEF SchInv, KERNEL_PROC_PID, KILLED_PROC_PID
  <2>1. ASSUME NEW pid \in Pids, NEW priority \in AskedPriorities, Create(pid, priority)
        PROVE  sch'.current = sch.current
    BY <2>0, <2>1 DEF Create, SchOnProcessCreate, SchStates
  <2>2. ASSUME NEW pid \in Pids, NEW status \in ExitStatuses, Kill(pid, status)
        PROVE  sch'.current \in {sch.current, KILLED_PROC_PID}
    BY <2>0, <2>2 DEF Kill, SchOnProcessKilled, SchStates
  <2>3. ASSUME NEW pid \in Pids, Block(pid) PROVE sch'.current = sch.current
    BY <2>0, <2>3 DEF Block, SchBlock, SchStates
  <2>4. ASSUME NEW pid \in Pids, Unblock(pid) PROVE sch'.current = sch.current
    BY <2>0, <2>4 DEF Unblock, SchUnblock, SchStates
  <2>5. ASSUME NEW pid \in Pids, NEW priority \in AskedPriorities, SetPriority(pid, priority)
        PROVE  sch'.current = sch.current
    BY <2>0, <2>5 DEF SetPriority, SchSetPriority, SchStates
  <2> QED BY <1>5, <2>0, <2>1, <2>2, <2>3, <2>4, <2>5 DEF Next
<1>6. IInv /\ [Next]_sch
      => [sch'.current = KERNEL_PROC_PID /\ (sch.current # KERNEL_PROC_PID \/ Tick \/ Yield)
          => ReadyPids(sch') = {}]_sch
  BY <1>1, <1>2, <1>3, <1>4, <1>5
<1> QED BY InitEstablishesIInv, NextKeepsIInv, <1>6, PTL DEF Spec, IdleOnlyWithoutWork

----------------------------------------------------------------------------
(* Free list: the headers *)

Headers == [next : Int, block_size : Nat, allocated : BOOLEAN]

\* The headers in the heap, that of end_block included.
Places(blocks) == DOMAIN blocks \ {START}

\* Blocks tile the heap.
Tiled(blocks) ==
  /\ blocks \in [DOMAIN blocks -> Headers]
  /\ {START, EndAddress} \subseteq DOMAIN blocks
  /\ Places(blocks) \subseteq FirstAddress .. EndAddress
  /\ blocks[START].block_size = 0 /\ blocks[EndAddress].block_size = 0
  /\ \A b \in Places(blocks) \ {EndAddress} :
       /\ blocks[b].block_size > 0 /\ b + blocks[b].block_size \in Places(blocks)
       /\ \A c \in Places(blocks) : c <= b \/ c >= b + blocks[b].block_size

\* The list is that of the blocks in F, by address, and none ends where the next begins.
Linked(blocks, F) ==
  /\ F \subseteq DOMAIN blocks /\ {START, EndAddress} \subseteq F
  /\ blocks[EndAddress].next = NONE
  /\ \A b \in F \ {EndAddress} :
       /\ blocks[b].next \in F /\ b < blocks[b].next
       /\ \A c \in F : c <= b \/ c >= blocks[b].next
       /\ b + blocks[b].block_size = blocks[b].next => blocks[b].next = EndAddress
  /\ \A b \in DOMAIN blocks \ F : blocks[b].next = NONE

\* The heap has room for two headers and something between.
LEMMA HeapConstants ==
  /\ FirstAddress \in Nat /\ EndAddress \in Nat /\ FirstAddress + 32 < EndAddress
  /\ START = -1 /\ NONE = -2
<1>1. HeapStart \in Nat /\ HeapSize \in Nat /\ FirstAddress + 2 * struct_size < EndAddress
  BY FreeListAssumption
<1>2. FirstAddress \in Nat
  BY <1>1 DEF FirstAddress, AlignUp, BYTE_ALIGNMENT
<1>3. EndAddress \in Int
  BY <1>1 DEF EndAddress, BYTE_ALIGNMENT, struct_size
<1> QED BY <1>1, <1>2, <1>3 DEF struct_size, START, NONE

\* Every header is at a number, and holds numbers.
LEMMA TiledFacts ==
  ASSUME NEW blocks, Tiled(blocks)
  PROVE  /\ \A b \in DOMAIN blocks : b \in Int /\ b <= EndAddress /\ b >= -1
         /\ \A b \in DOMAIN blocks :
              /\ blocks[b].next \in Int /\ blocks[b].block_size \in Nat
              /\ blocks[b].allocated \in BOOLEAN
         /\ START # EndAddress
BY HeapConstants DEF Tiled, Places, Headers

----------------------------------------------------------------------------
(* The walk along next *)

\* The free blocks from each header in D on.
Walk(blocks, D, f) ==
  f = [b \in D |-> IF blocks[b].next = NONE THEN <<b>> ELSE <<b>> \o f[blocks[b].next]]

\* The headers in the last n bytes before end_block.
Within(blocks, n) == {b \in DOMAIN blocks : EndAddress - b <= n}

\* The next block of one in the last n + 1 bytes is in the last n.
LEMMA WithinFacts ==
  ASSUME NEW blocks, Tiled(blocks), NEW F, Linked(blocks, F), NEW n \in Nat
  PROVE  /\ Within(blocks, 0) = {EndAddress} /\ Within(blocks, n) \subseteq Within(blocks, n + 1)
         /\ \A b \in Within(blocks, n + 1) : blocks[b].next # NONE => blocks[b].next \in Within(blocks, n)
         /\ EndAddress + 1 \in Nat /\ Within(blocks, EndAddress + 1) = DOMAIN blocks
<1>1. /\ \A b \in DOMAIN blocks : b \in Int /\ b <= EndAddress /\ b >= -1
      /\ EndAddress \in Nat /\ EndAddress \in DOMAIN blocks
  BY TiledFacts, HeapConstants DEF Tiled
<1>2. \A b \in DOMAIN blocks : blocks[b].next # NONE =>
        blocks[b].next \in DOMAIN blocks /\ b < blocks[b].next
  BY DEF Linked
<1>3. ASSUME NEW b \in Within(blocks, n + 1), blocks[b].next # NONE PROVE blocks[b].next \in Within(blocks, n)
  <2>a. PICK then : then = blocks[b].next
    OBVIOUS
  <2>1. b \in DOMAIN blocks /\ EndAddress - b <= n + 1 /\ then \in DOMAIN blocks /\ b < then
    BY <1>2, <1>3, <2>a DEF Within
  <2>2. EndAddress - then <= n
    BY <1>1, <2>1
  <2> QED BY <2>1, <2>2, <2>a DEF Within
<1>4. Within(blocks, 0) = {EndAddress}
  BY <1>1 DEF Within
<1>5. Within(blocks, n) \subseteq Within(blocks, n + 1)
  BY <1>1 DEF Within
<1>6. EndAddress + 1 \in Nat /\ Within(blocks, EndAddress + 1) = DOMAIN blocks
  BY <1>1 DEF Within
<1> QED BY <1>3, <1>4, <1>5, <1>6

\* The function that FreeNodes chooses exists: by induction from the end of the heap.
LEMMA WalkExists ==
  ASSUME NEW blocks, Tiled(blocks), NEW F, Linked(blocks, F)
  PROVE  \E f : Walk(blocks, DOMAIN blocks, f) /\ FreeNodes(blocks) = f[START]
<1> DEFINE G == {n \in Nat : \E f : Walk(blocks, Within(blocks, n), f)}
<1>1. 0 \in G
  <2>1. Walk(blocks, {EndAddress}, [b \in {EndAddress} |-> <<b>>])
    BY DEF Walk, Linked
  <2> QED BY <2>1, WithinFacts
<1>2. ASSUME NEW n \in Nat, n \in G PROVE n + 1 \in G
  <2>1. PICK f : Walk(blocks, Within(blocks, n), f)
    BY <1>2
  <2> DEFINE g == [b \in Within(blocks, n + 1) |->
                     IF blocks[b].next = NONE THEN <<b>> ELSE <<b>> \o f[blocks[b].next]]
  <2>2. \A b \in Within(blocks, n) : f[b] = g[b]
    BY <2>1, WithinFacts DEF Walk
  <2>3. \A b \in Within(blocks, n + 1) : blocks[b].next # NONE => f[blocks[b].next] = g[blocks[b].next]
    <3> HIDE DEF g
    <3> QED BY <2>2, WithinFacts
  <2>4. Walk(blocks, Within(blocks, n + 1), g)
    BY <2>3 DEF Walk
  <2> HIDE DEF g
  <2> QED BY <2>4
<1>3. \E f : Walk(blocks, DOMAIN blocks, f)
  <2>1. EndAddress + 1 \in G
    <3> HIDE DEF G
    <3>1. Nat \subseteq G
      BY <1>1, <1>2, NaturalInduction
    <3> QED BY <3>1, WithinFacts
  <2> QED BY <2>1, WithinFacts
<1>4. FreeNodes(blocks) = (CHOOSE f : Walk(blocks, DOMAIN blocks, f))[START]
  BY DEF FreeNodes, Walk
<1> QED BY <1>3, <1>4

\* The way from a free block to end_block, past all free ones.
Way(blocks, F, b, s) ==
  /\ s \in Seq(F) /\ Len(s) >= 1 /\ s[1] = b /\ s[Len(s)] = EndAddress
  /\ \A i \in 1 .. Len(s) - 1 : s[i] # EndAddress /\ s[i + 1] = blocks[s[i]].next
  /\ \A c \in F : c >= b => \E i \in 1 .. Len(s) : s[i] = c

\* A sequence with one element in front.
LEMMA Prepended ==
  ASSUME NEW S, NEW x \in S, NEW s \in Seq(S), NEW t, t = <<x>> \o s
  PROVE  t \in Seq(S) /\ Len(t) = Len(s) + 1 /\ t[1] = x /\ \A i \in 1 .. Len(s) : t[i + 1] = s[i]
<1> DEFINE one == <<x>>
<1>1. one \in Seq(S) /\ Len(one) = 1 /\ one[1] = x
  OBVIOUS
<1>2. t = one \o s /\ Len(s) \in Nat
  OBVIOUS
<1> HIDE DEF one
<1>3. /\ t \in Seq(S) /\ Len(t) = Len(one) + Len(s)
      /\ \A i \in 1 .. Len(one) + Len(s) : t[i] = IF i <= Len(one) THEN one[i] ELSE s[i - Len(one)]
  BY <1>1, <1>2, ConcatProperties
<1> QED BY <1>1, <1>2, <1>3

\* The way from a block is the block and the way from its next.
LEMMA WayGoesOn ==
  ASSUME NEW blocks, Tiled(blocks), NEW F, Linked(blocks, F), NEW b \in F \ {EndAddress},
         NEW s, Way(blocks, F, blocks[b].next, s), NEW t, t = <<b>> \o s
  PROVE  Way(blocks, F, b, t)
<1>1. /\ t \in Seq(F) /\ Len(t) = Len(s) + 1 /\ t[1] = b /\ Len(s) \in Nat
      /\ \A i \in 1 .. Len(s) : t[i + 1] = s[i]
  BY Prepended DEF Way
<1>2. t[Len(t)] = EndAddress /\ Len(t) >= 1
  BY <1>1 DEF Way
<1>3. ASSUME NEW i \in 1 .. Len(t) - 1 PROVE t[i] # EndAddress /\ t[i + 1] = blocks[t[i]].next
  <2>1. CASE i = 1
    BY <1>1, <2>1 DEF Way
  <2>2. CASE i # 1
    <3>1. i - 1 \in 1 .. Len(s) - 1 /\ (i - 1) + 1 = i /\ i \in 1 .. Len(s) /\ i - 1 \in 1 .. Len(s)
      BY <1>1, <2>2
    <3>2. t[i] = s[i - 1] /\ t[i + 1] = s[i]
      BY <1>1, <3>1
    <3> QED BY <3>1, <3>2 DEF Way
  <2> QED BY <2>1, <2>2
<1>4. ASSUME NEW c \in F, c >= b PROVE \E i \in 1 .. Len(t) : t[i] = c
  <2>1. CASE c = b
    BY <1>1, <1>2, <2>1
  <2>2. CASE c # b
    <3>1. c >= blocks[b].next
      BY <1>4, <2>2, TiledFacts DEF Linked
    <3>2. PICK i \in 1 .. Len(s) : s[i] = c
      BY <3>1 DEF Way
    <3> QED BY <1>1, <3>2
  <2> QED BY <2>1, <2>2
<1> QED BY <1>1, <1>2, <1>3, <1>4 DEF Way

\* free_nodes: from start_block past all free blocks.
LEMMA FreeNodesFacts ==
  ASSUME NEW blocks, Tiled(blocks), NEW F, Linked(blocks, F)
  PROVE  Way(blocks, F, START, FreeNodes(blocks))
<1>1. PICK f : Walk(blocks, DOMAIN blocks, f) /\ FreeNodes(blocks) = f[START]
  BY WalkExists
<1>2. \A b \in DOMAIN blocks :
        f[b] = IF blocks[b].next = NONE THEN <<b>> ELSE <<b>> \o f[blocks[b].next]
  BY <1>1 DEF Walk
<1> DEFINE Right(b) == Way(blocks, F, b, f[b])
           G == {n \in Nat : \A b \in Within(blocks, n) : b \in F => Right(b)}
<1>3. Right(EndAddress)
  <2> DEFINE s == <<EndAddress>>
  <2>1. s \in Seq(F) /\ Len(s) = 1 /\ s[1] = EndAddress
    BY DEF Linked
  <2>2. f[EndAddress] = s
    BY <1>2 DEF Linked
  <2>3. \A c \in F : c >= EndAddress => c = EndAddress
    BY TiledFacts, HeapConstants DEF Linked
  <2> HIDE DEF s
  <2>4. Way(blocks, F, EndAddress, s)
    BY <2>1, <2>3 DEF Way
  <2> QED BY <2>2, <2>4
<1>4. 0 \in G
  <2> HIDE DEF Right
  <2> QED BY <1>3, WithinFacts
<1>5. ASSUME NEW n \in Nat, n \in G PROVE n + 1 \in G
  <2>1. ASSUME NEW b \in Within(blocks, n + 1), b \in F PROVE Right(b)
    <3>1. CASE b = EndAddress
      BY <1>3, <3>1
    <3>2. CASE b # EndAddress
      <4>a. PICK then : then = blocks[b].next
        OBVIOUS
      <4>1. then \in F /\ then # NONE /\ b < then /\ b \in Int
        BY <2>1, <3>2, <4>a, TiledFacts, HeapConstants DEF Linked
      <4>2. then \in Within(blocks, n)
        BY <4>1, <4>a, WithinFacts
      <4>3. Right(then)
        BY <1>5, <4>1, <4>2
      <4>4. f[b] = <<b>> \o f[then]
        BY <1>2, <4>1, <4>a DEF Within
      <4> QED BY <2>1, <3>2, <4>3, <4>4, <4>a, WayGoesOn
    <3> QED BY <3>1, <3>2
  <2> HIDE DEF Right
  <2> QED BY <2>1
<1>6. Right(START)
  <2>1. Nat \subseteq G
    <3> HIDE DEF G
    <3> QED BY <1>4, <1>5, NaturalInduction
  <2>2. START \in Within(blocks, EndAddress + 1) /\ EndAddress + 1 \in Nat /\ START \in F
    BY WithinFacts DEF Linked, Tiled
  <2> HIDE DEF Right
  <2> QED BY <2>1, <2>2
<1> QED BY <1>1, <1>6

----------------------------------------------------------------------------
(* Where the walk stops *)

\* The free block after which insert_block stops, and where mm_alloc does.
StopsAt(blocks, nodes, block) == nodes[SelectInSeq(nodes, LAMBDA b : blocks[b].next >= block)]

FirstFit(blocks, nodes, n) == SelectInSeq(nodes, LAMBDA b : blocks[b].block_size >= n)

\* insert_block stops at the free block before its own.
LEMMA InsertPlace ==
  ASSUME NEW blocks, Tiled(blocks), NEW F, Linked(blocks, F), NEW block \in Places(blocks) \ F,
         NEW nodes, nodes = FreeNodes(blocks),
         NEW iterator, iterator = StopsAt(blocks, nodes, block)
  PROVE  iterator \in F \ {EndAddress} /\ iterator < block /\ block < blocks[iterator].next
<1>1. /\ nodes \in Seq(F) /\ Len(nodes) \in Nat /\ Len(nodes) >= 1 /\ nodes[1] = START
      /\ nodes[Len(nodes)] = EndAddress
      /\ \A i \in 1 .. Len(nodes) - 1 : nodes[i] # EndAddress /\ nodes[i + 1] = blocks[nodes[i]].next
      /\ \A i \in 1 .. Len(nodes) : nodes[i] \in F
  BY FreeNodesFacts DEF Way
<1>2. /\ block \in Int /\ START < block /\ block < EndAddress /\ EndAddress \in Nat
      /\ START # EndAddress /\ blocks[EndAddress].next = NONE /\ NONE < block
      /\ \A b \in F : b \in Int /\ blocks[b].next \in Int
  BY HeapConstants, TiledFacts DEF Tiled, Linked, Places
<1> DEFINE I == {i \in 1 .. Len(nodes) : blocks[nodes[i]].next >= block}
<1>3. I \in SUBSET Nat
  OBVIOUS
<1>4. I # {}
  <2>1. Len(nodes) - 1 \in 1 .. Len(nodes) - 1 /\ (Len(nodes) - 1) + 1 = Len(nodes)
    BY <1>1, <1>2
  <2>2. blocks[nodes[Len(nodes) - 1]].next = EndAddress
    BY <1>1, <2>1
  <2>3. Len(nodes) - 1 \in I
    BY <1>2, <2>1, <2>2
  <2> QED BY <2>3
<1>a. PICK m : m = Min(I)
  OBVIOUS
<1>5. m \in I /\ \A i \in I : m <= i
  <2> HIDE DEF I
  <2> QED BY <1>3, <1>4, <1>a, MinFacts
<1>6. iterator = nodes[m]
  BY <1>4, <1>a DEF StopsAt, SelectInSeq
<1>7. m \in 1 .. Len(nodes) /\ blocks[iterator].next >= block /\ iterator \in F
  BY <1>1, <1>5, <1>6
<1>8. iterator < block
  <2>1. CASE m = 1
    BY <1>1, <1>2, <1>6, <2>1
  <2>2. CASE m # 1
    <3>1. m - 1 \in 1 .. Len(nodes) - 1 /\ (m - 1) + 1 = m /\ m - 1 \in 1 .. Len(nodes)
      BY <1>1, <1>7, <2>2
    <3>2. ~(blocks[nodes[m - 1]].next >= block)
      BY <1>5, <3>1
    <3>3. blocks[nodes[m - 1]].next = iterator
      BY <1>1, <1>6, <3>1
    <3> QED BY <1>2, <1>7, <3>2, <3>3
  <2> QED BY <2>1, <2>2
<1>9. iterator # EndAddress
  BY <1>2, <1>8
<1>10. blocks[iterator].next \in F
  BY <1>7, <1>9 DEF Linked
<1> QED BY <1>2, <1>7, <1>8, <1>9, <1>10

\* The first free block that is large enough.
LEMMA FitPlace ==
  ASSUME NEW blocks, Tiled(blocks), NEW F, Linked(blocks, F), NEW n \in Nat, n > 0,
         NEW nodes, nodes = FreeNodes(blocks),
         NEW first, first = FirstFit(blocks, nodes, n), first # 0
  PROVE  /\ nodes[first] \in F \ {START, EndAddress} /\ blocks[nodes[first]].block_size >= n
         /\ \E previous \in F : blocks[previous].next = nodes[first]
<1>1. /\ nodes \in Seq(F) /\ Len(nodes) \in Nat
      /\ \A i \in 1 .. Len(nodes) : nodes[i] \in F
  BY FreeNodesFacts DEF Way
<1>2. blocks[START].block_size = 0 /\ blocks[EndAddress].block_size = 0
  BY DEF Tiled
<1> DEFINE I == {i \in 1 .. Len(nodes) : blocks[nodes[i]].block_size >= n}
<1>3. I \in SUBSET Nat
  OBVIOUS
<1>4. I # {} /\ first = Min(I)
  BY DEF FirstFit, SelectInSeq
<1>5. first \in I
  <2> HIDE DEF I
  <2> QED BY <1>3, <1>4, MinFacts
<1>6. nodes[first] \in F \ {START, EndAddress} /\ blocks[nodes[first]].block_size >= n
  BY <1>1, <1>2, <1>5
<1>7. \E previous \in F : blocks[previous].next = nodes[first]
  <2>1. /\ nodes[1] = START
        /\ \A i \in 1 .. Len(nodes) - 1 : nodes[i] # EndAddress /\ nodes[i + 1] = blocks[nodes[i]].next
    BY FreeNodesFacts DEF Way
  <2>2. first \in 1 .. Len(nodes) /\ first # 1
    BY <1>5, <1>6, <2>1
  <2>3. first - 1 \in 1 .. Len(nodes) - 1 /\ (first - 1) + 1 = first /\ first - 1 \in 1 .. Len(nodes)
    BY <1>1, <2>2
  <2>4. nodes[first - 1] \in F /\ nodes[first] = blocks[nodes[first - 1]].next
    BY <1>1, <2>1, <2>3
  <2> QED BY <2>4
<1> QED BY <1>6, <1>7

----------------------------------------------------------------------------
(* insert_block *)

\* What insert_block leaves, between the free blocks iterator and next.
Inserted(blocks, block, iterator, next, backward, forward, new) ==
  LET merged == IF backward THEN iterator ELSE block
      size == blocks[block].block_size + (IF backward THEN blocks[iterator].block_size ELSE 0)
  IN  /\ backward <=> iterator + blocks[iterator].block_size = block
      /\ forward <=> merged + size = next /\ next # EndAddress
      /\ new = [b \in DOMAIN new |-> new[b]]
      /\ \A b : b \in DOMAIN new <=>
                b \in DOMAIN blocks /\ ~(b = block /\ backward) /\ ~(b = next /\ forward)
      /\ new[merged] = Header(IF forward THEN blocks[next].next ELSE next,
                              size + (IF forward THEN blocks[next].block_size ELSE 0), FALSE)
      /\ ~backward => new[iterator] = Header(block, blocks[iterator].block_size,
                                              blocks[iterator].allocated)
      /\ \A b \in DOMAIN new \ {iterator, merged} : new[b] = blocks[b]

\* insert_block finds such a place, and merges with what it meets there.
LEMMA InsertBlockFacts ==
  ASSUME NEW blocks, Tiled(blocks), NEW F, Linked(blocks, F), NEW block \in Places(blocks) \ F,
         NEW new, new = InsertBlock(blocks, block)
  PROVE  \E iterator \in F \ {EndAddress}, backward, forward \in BOOLEAN :
           /\ iterator < block /\ block < blocks[iterator].next
           /\ Inserted(blocks, block, iterator, blocks[iterator].next, backward, forward, new)
<1>a. PICK nodes : nodes = FreeNodes(blocks)
  OBVIOUS
<1>b. PICK iterator : iterator = StopsAt(blocks, nodes, block)
  OBVIOUS
<1>c. PICK next : next = blocks[iterator].next
  OBVIOUS
<1>d. PICK backward \in BOOLEAN : backward <=> iterator + blocks[iterator].block_size = block
  OBVIOUS
<1>e. PICK merged : merged = IF backward THEN iterator ELSE block
  OBVIOUS
<1>f. PICK size : size = blocks[block].block_size + (IF backward THEN blocks[iterator].block_size ELSE 0)
  OBVIOUS
<1>g. PICK forward \in BOOLEAN : forward <=> merged + size = next /\ next # EndAddress
  OBVIOUS
<1>h. PICK head : head = Header(IF forward THEN blocks[next].next ELSE next,
                                size + (IF forward THEN blocks[next].block_size ELSE 0), FALSE)
  OBVIOUS
<1>i. PICK linked : linked = [blocks EXCEPT ![iterator].next = merged, ![merged] = head]
  OBVIOUS
<1>1. iterator \in F \ {EndAddress} /\ iterator < block /\ block < next
  BY <1>a, <1>b, <1>c, InsertPlace
<1>2. /\ iterator \in DOMAIN blocks /\ block \in DOMAIN blocks /\ iterator # block
      /\ blocks \in [DOMAIN blocks -> Headers] /\ merged \in {iterator, block}
      /\ next # iterator /\ next # block
  BY <1>1, <1>c, <1>e, TiledFacts DEF Linked, Places, Tiled
<1>j. PICK gone : gone = (IF backward THEN {block} ELSE {}) \cup (IF forward THEN {next} ELSE {})
  OBVIOUS
<1>3. new = Restrict(linked, DOMAIN linked \ gone)
  BY <1>a, <1>b, <1>c, <1>d, <1>e, <1>f, <1>g, <1>h, <1>i, <1>j, ZenonT(60)
  DEF InsertBlock, StopsAt, SelectInSeq
<1>4. /\ DOMAIN linked = DOMAIN blocks /\ linked[merged] = head
      /\ ~backward => linked[iterator] = Header(block, blocks[iterator].block_size,
                                                 blocks[iterator].allocated)
      /\ \A b \in DOMAIN blocks \ {iterator, merged} : linked[b] = blocks[b]
  <2>a. PICK old : old = blocks[iterator]
    OBVIOUS
  <2>1. old \in Headers
    BY <1>2, <2>a
  <2>2. linked = [blocks EXCEPT ![iterator] = [old EXCEPT !.next = merged], ![merged] = head]
    BY <1>i, <2>a
  <2>3. [old EXCEPT !.next = merged] = Header(merged, old.block_size, old.allocated)
    BY <2>1 DEF Headers, Header
  <2> QED BY <1>2, <1>e, <2>2, <2>3, <2>a
<1>5. \A b : b \in DOMAIN new <=>
              b \in DOMAIN blocks /\ ~(b = block /\ backward) /\ ~(b = next /\ forward)
  <2>1. DOMAIN new = DOMAIN blocks \ gone
    BY <1>3, <1>4 DEF Restrict
  <2>2. \A b : b \in gone <=> (b = block /\ backward) \/ (b = next /\ forward)
    BY <1>j
  <2> QED BY <2>1, <2>2
<1>6. \A b \in DOMAIN new : new[b] = linked[b]
  BY <1>3 DEF Restrict
<1>7. merged \in DOMAIN new /\ iterator \in DOMAIN new
  BY <1>2, <1>5, <1>e
<1>9. new = [b \in DOMAIN new |-> new[b]]
  BY <1>3 DEF Restrict
<1>8. Inserted(blocks, block, iterator, next, backward, forward, new)
  BY <1>4, <1>5, <1>6, <1>7, <1>9, <1>d, <1>e, <1>f, <1>g, <1>h DEF Inserted
<1> QED BY <1>1, <1>8, <1>c

\* What a walk of the headers needs of them, without records.
Size(blocks, b) == blocks[b].block_size
Ends(blocks, b) == b + blocks[b].block_size

\* No two blocks end at the same address, before the end of the heap.
LEMMA EndsFacts ==
  ASSUME NEW blocks, Tiled(blocks)
  PROVE  /\ \A b \in DOMAIN blocks : Size(blocks, b) \in Nat /\ Ends(blocks, b) = b + Size(blocks, b)
         /\ Ends(blocks, START) = START /\ Ends(blocks, EndAddress) = EndAddress
         /\ \A b \in Places(blocks) \ {EndAddress} :
              /\ b < Ends(blocks, b) /\ Ends(blocks, b) \in Places(blocks)
              /\ \A c \in Places(blocks) : c <= b \/ c >= Ends(blocks, b)
         /\ \A b \in Places(blocks) : b \in Int /\ b > START
         /\ \A b, c \in DOMAIN blocks :
              Ends(blocks, b) = Ends(blocks, c) /\ Ends(blocks, b) # EndAddress => b = c
<1>1. /\ \A b \in DOMAIN blocks : b \in Int /\ blocks[b].block_size \in Nat
      /\ blocks[START].block_size = 0 /\ blocks[EndAddress].block_size = 0
      /\ START \in Int /\ EndAddress \in Int /\ {START, EndAddress} \subseteq DOMAIN blocks
  BY TiledFacts, HeapConstants DEF Tiled
<1>2. /\ \A b \in DOMAIN blocks : Size(blocks, b) \in Nat /\ Ends(blocks, b) = b + Size(blocks, b)
      /\ Ends(blocks, START) = START /\ Ends(blocks, EndAddress) = EndAddress
  BY <1>1 DEF Size, Ends
<1>3. \A b \in Places(blocks) \ {EndAddress} :
        /\ b < Ends(blocks, b) /\ Ends(blocks, b) \in Places(blocks)
        /\ \A c \in Places(blocks) : c <= b \/ c >= Ends(blocks, b)
  BY <1>1 DEF Tiled, Ends, Places
<1>4. \A b \in Places(blocks) : b \in Int /\ b > START
  BY HeapConstants DEF Tiled, Places
<1>5. ASSUME NEW b \in DOMAIN blocks, NEW c \in DOMAIN blocks,
             Ends(blocks, b) = Ends(blocks, c), Ends(blocks, b) # EndAddress
      PROVE  b = c
  BY <1>2, <1>3, <1>4, <1>5, <1>1 DEF Places
<1> QED BY <1>2, <1>3, <1>4, <1>5

\* Where the block goes, and whether it meets the free blocks about it.
InsertedAt(blocks, block, iterator, next, merged, backward, forward, new) ==
  /\ iterator \in DOMAIN blocks /\ block \in Places(blocks) /\ next \in Places(blocks)
  /\ block # EndAddress /\ block \in DOMAIN blocks /\ next \in DOMAIN blocks
  /\ iterator \in Int /\ block \in Int /\ next \in Int /\ EndAddress \in Int
  /\ START \in Int /\ START # EndAddress /\ START # block /\ START # next
  /\ backward <=> Ends(blocks, iterator) = block
  /\ forward <=> Ends(blocks, block) = next /\ next # EndAddress
  /\ backward => merged = iterator
  /\ ~backward => merged = block
  /\ \A b : b \in DOMAIN new <=>
            b \in DOMAIN blocks /\ ~(b = block /\ backward) /\ ~(b = next /\ forward)
  /\ backward => Ends(blocks, block) = iterator + (blocks[block].block_size + blocks[iterator].block_size)
  /\ \A b : b \in Places(new) <=>
            b \in Places(blocks) /\ ~(b = block /\ backward) /\ ~(b = next /\ forward)
  /\ merged \in Places(blocks) /\ merged # EndAddress /\ merged \in DOMAIN new /\ iterator \in DOMAIN new

\* A block that insert_block puts between two free ones.
Inserting(blocks, F, block, iterator, next, merged, backward, forward, new) ==
  /\ Tiled(blocks) /\ Linked(blocks, F) /\ block \in Places(blocks) \ F
  /\ iterator \in F \ {EndAddress} /\ backward \in BOOLEAN /\ forward \in BOOLEAN
  /\ next = blocks[iterator].next /\ iterator < block /\ block < next
  /\ Inserted(blocks, block, iterator, next, backward, forward, new)
  /\ merged = IF backward THEN iterator ELSE block

LEMMA InsertedFacts ==
  ASSUME NEW blocks, NEW F, NEW block, NEW iterator, NEW next, NEW merged, NEW backward, NEW forward,
         NEW new, Inserting(blocks, F, block, iterator, next, merged, backward, forward, new)
  PROVE  /\ InsertedAt(blocks, block, iterator, next, merged, backward, forward, new)
         /\ new[merged].next = IF forward THEN blocks[next].next ELSE next
         /\ ~new[merged].allocated
<1>0. /\ Tiled(blocks) /\ Linked(blocks, F) /\ block \in Places(blocks) \ F
      /\ iterator \in F \ {EndAddress} /\ backward \in BOOLEAN /\ forward \in BOOLEAN
      /\ next = blocks[iterator].next /\ iterator < block /\ block < next
      /\ Inserted(blocks, block, iterator, next, backward, forward, new)
  BY DEF Inserting
<1>a. merged = IF backward THEN iterator ELSE block
  BY DEF Inserting
<1>1. /\ iterator \in DOMAIN blocks /\ block \in Places(blocks) /\ next \in Places(blocks)
      /\ block # EndAddress /\ block \in DOMAIN blocks /\ next \in DOMAIN blocks
      /\ iterator \in Int /\ block \in Int /\ next \in Int /\ EndAddress \in Int
      /\ START \in Int /\ START # EndAddress /\ START # block /\ START # next
  BY <1>0, TiledFacts, EndsFacts, HeapConstants DEF Linked, Tiled, Places
<1>2. /\ backward <=> Ends(blocks, iterator) = block
      /\ forward <=> Ends(blocks, block) = next /\ next # EndAddress
      /\ backward => merged = iterator
      /\ ~backward => merged = block
      /\ \A b : b \in DOMAIN new <=>
                b \in DOMAIN blocks /\ ~(b = block /\ backward) /\ ~(b = next /\ forward)
      /\ backward => Ends(blocks, block) = iterator + (blocks[block].block_size + blocks[iterator].block_size)
  <2>1. /\ blocks[block].block_size \in Nat /\ blocks[iterator].block_size \in Nat
        /\ Ends(blocks, iterator) = iterator + blocks[iterator].block_size
        /\ Ends(blocks, block) = block + blocks[block].block_size
    BY <1>0, <1>1, TiledFacts DEF Ends
  <2>2. CASE backward
    BY <1>0, <1>1, <1>a, <2>1, <2>2 DEF Inserted
  <2>3. CASE ~backward
    BY <1>0, <1>1, <1>a, <2>1, <2>3 DEF Inserted
  <2> QED BY <2>2, <2>3
<1>e. /\ \A b \in DOMAIN blocks : b \in Int /\ Ends(blocks, b) \in Int
      /\ Ends(blocks, START) = START /\ Ends(blocks, EndAddress) = EndAddress
      /\ \A b \in Places(blocks) \ {EndAddress} :
           /\ b < Ends(blocks, b) /\ Ends(blocks, b) \in Places(blocks)
           /\ \A c \in Places(blocks) : c <= b \/ c >= Ends(blocks, b)
      /\ \A b \in Places(blocks) : b > START
      /\ \A b, c \in DOMAIN blocks :
           Ends(blocks, b) = Ends(blocks, c) /\ Ends(blocks, b) # EndAddress => b = c
  BY <1>0, EndsFacts, TiledFacts
<1>p. \A b : b \in Places(new) <=>
               b \in Places(blocks) /\ ~(b = block /\ backward) /\ ~(b = next /\ forward)
  BY <1>2 DEF Places
<1>3. merged \in Places(blocks) /\ merged # EndAddress /\ merged \in DOMAIN new /\ iterator \in DOMAIN new
  <2>1. backward => iterator # START
    BY <1>0, <1>1, <1>2, <1>e
  <2> QED BY <1>0, <1>1, <1>2, <2>1 DEF Places
<1>4. /\ new[merged].next = IF forward THEN blocks[next].next ELSE next
      /\ ~new[merged].allocated
  BY <1>0, <1>a DEF Inserted, Header
<1> QED BY <1>0, <1>1, <1>2, <1>3, <1>4, <1>p DEF InsertedAt

LEMMA InsertedEnds ==
  ASSUME NEW blocks, NEW F, NEW block, NEW iterator, NEW next, NEW merged, NEW backward, NEW forward,
         NEW new, Inserting(blocks, F, block, iterator, next, merged, backward, forward, new)
  PROVE  /\ new[merged] \in Headers
         /\ Ends(new, merged) = IF forward THEN Ends(blocks, next) ELSE Ends(blocks, block)
<1>0. /\ Tiled(blocks) /\ Linked(blocks, F) /\ block \in Places(blocks) \ F
      /\ iterator \in F \ {EndAddress} /\ backward \in BOOLEAN /\ forward \in BOOLEAN
      /\ next = blocks[iterator].next /\ iterator < block /\ block < next
      /\ Inserted(blocks, block, iterator, next, backward, forward, new)
  BY DEF Inserting
<1>a. merged = IF backward THEN iterator ELSE block
  BY DEF Inserting
<1>1. InsertedAt(blocks, block, iterator, next, merged, backward, forward, new)
  BY InsertedFacts
<1> USE DEF InsertedAt
<1>2. /\ blocks[next].next \in Int /\ blocks[next].block_size \in Nat
      /\ blocks[block].block_size \in Nat /\ blocks[iterator].block_size \in Nat
  BY <1>0, <1>1, TiledFacts
<1>b. PICK then : then = IF forward THEN blocks[next].next ELSE next
  OBVIOUS
<1>c. PICK size : size = blocks[block].block_size + (IF backward THEN blocks[iterator].block_size ELSE 0)
                           + (IF forward THEN blocks[next].block_size ELSE 0)
  OBVIOUS
<1>3. new[merged] = Header(then, size, FALSE)
  BY <1>0, <1>a, <1>b, <1>c DEF Inserted
<1>4. then \in Int /\ size \in Nat
  BY <1>0, <1>1, <1>2, <1>b, <1>c
<1>5. new[merged] \in Headers /\ new[merged].block_size = size
  BY <1>3, <1>4 DEF Header, Headers
<1>6. merged + size = IF forward THEN Ends(blocks, next) ELSE Ends(blocks, block)
  <2>1. CASE backward
    BY <1>0, <1>1, <1>2, <1>c, <2>1 DEF Ends
  <2>2. CASE ~backward
    BY <1>0, <1>1, <1>2, <1>c, <2>2 DEF Ends
  <2> QED BY <2>1, <2>2
<1> QED BY <1>5, <1>6 DEF Ends

LEMMA InsertedTiles ==
  ASSUME NEW blocks, NEW F, NEW block, NEW iterator, NEW next, NEW merged, NEW backward, NEW forward,
         NEW new, Inserting(blocks, F, block, iterator, next, merged, backward, forward, new)
  PROVE  Tiled(new)
<1>0. /\ Tiled(blocks) /\ Linked(blocks, F) /\ block \in Places(blocks) \ F
      /\ iterator \in F \ {EndAddress} /\ backward \in BOOLEAN /\ forward \in BOOLEAN
      /\ next = blocks[iterator].next /\ iterator < block /\ block < next
      /\ Inserted(blocks, block, iterator, next, backward, forward, new)
  BY DEF Inserting
<1>a. merged = IF backward THEN iterator ELSE block
  BY DEF Inserting
<1>1. InsertedAt(blocks, block, iterator, next, merged, backward, forward, new)
  BY InsertedFacts
<1> USE DEF InsertedAt
<1>e. /\ \A b \in DOMAIN blocks : b \in Int /\ Ends(blocks, b) \in Int
      /\ Ends(blocks, START) = START /\ Ends(blocks, EndAddress) = EndAddress
      /\ \A b \in Places(blocks) \ {EndAddress} :
           /\ b < Ends(blocks, b) /\ Ends(blocks, b) \in Places(blocks)
           /\ \A c \in Places(blocks) : c <= b \/ c >= Ends(blocks, b)
      /\ \A b \in Places(blocks) : b > START
      /\ \A b, c \in DOMAIN blocks :
           Ends(blocks, b) = Ends(blocks, c) /\ Ends(blocks, b) # EndAddress => b = c
  BY <1>0, EndsFacts, TiledFacts
<1>4. /\ new[merged] \in Headers
      /\ Ends(new, merged) = IF forward THEN Ends(blocks, next) ELSE Ends(blocks, block)
  BY InsertedEnds
<1>5. \A b \in DOMAIN new \ {merged} :
        new[b] \in Headers /\ Size(new, b) = Size(blocks, b) /\ Ends(new, b) = Ends(blocks, b)
  <2>1. ASSUME NEW b \in DOMAIN new \ {iterator, merged}
        PROVE  new[b] \in Headers /\ new[b].block_size = blocks[b].block_size
    BY <1>0, <1>1, <1>a DEF Inserted, Tiled
  <2>2. ASSUME iterator # merged
        PROVE  new[iterator] \in Headers /\ new[iterator].block_size = blocks[iterator].block_size
    <3>1. ~backward
      BY <1>0, <1>a, <2>2
    <3>2. new[iterator] = Header(block, blocks[iterator].block_size, blocks[iterator].allocated)
      BY <1>0, <3>1 DEF Inserted
    <3> QED BY <1>0, <1>1, <3>2, TiledFacts DEF Header, Headers
  <2> QED BY <2>1, <2>2 DEF Size, Ends
<1>6. DOMAIN new \subseteq DOMAIN blocks /\ {START, EndAddress} \subseteq DOMAIN new
  BY <1>0, <1>1, EndsFacts DEF Tiled
<1>7. new \in [DOMAIN new -> Headers]
  <2>1. new = [b \in DOMAIN new |-> new[b]]
    BY <1>0 DEF Inserted
  <2> QED BY <1>4, <1>5, <2>1
<1>8. Size(new, START) = 0 /\ Size(new, EndAddress) = 0
  BY <1>0, <1>1, <1>5, <1>6 DEF Tiled, Size, Places
<1>9. ASSUME NEW b \in Places(new) \ {EndAddress}
      PROVE  /\ Ends(new, b) > b /\ Ends(new, b) \in Places(new)
             /\ \A c \in Places(new) : c <= b \/ c >= Ends(new, b)
  <2>1. CASE b = merged
    <3>a. PICK end : end = Ends(new, merged)
      OBVIOUS
    <3>b. PICK far : far = Ends(blocks, block)
      OBVIOUS
    <3>1. /\ block < far /\ far \in Places(blocks) /\ far \in Int
          /\ \A c \in Places(blocks) : c <= block \/ c >= far
      BY <1>0, <1>1, <1>e, <3>b
    <3>2. ASSUME forward
          PROVE  /\ next < end /\ end \in Places(blocks) /\ end \in Int /\ far = next
                 /\ \A c \in Places(blocks) : c <= next \/ c >= end
      BY <1>0, <1>1, <1>4, <1>e, <3>2, <3>a, <3>b
    <3>3. ~forward => end = far /\ (far = next => next = EndAddress)
      BY <1>0, <1>1, <1>4, <3>a, <3>b
    <3>4. end > merged /\ end \in Places(new)
      BY <1>0, <1>1, <3>1, <3>2, <3>3
    <3>5. ASSUME NEW c \in Places(new) PROVE c <= merged \/ c >= end
      <4>1. c \in Places(blocks) /\ c \in Int /\ ~(c = block /\ backward) /\ ~(c = next /\ forward)
        BY <1>0, <1>1, <1>e DEF Places
      <4>2. c <= block \/ c >= end
        BY <1>0, <1>1, <3>1, <3>2, <3>3, <4>1
      <4>3. backward => c <= iterator \/ c >= block
        BY <1>0, <1>1, <1>e, <4>1
      <4> QED BY <1>0, <1>1, <4>1, <4>2, <4>3
    <3> QED BY <2>1, <3>4, <3>5, <3>a
  <2>2. CASE b # merged
    <3>1. b \in Places(blocks) \ {EndAddress} /\ b \in DOMAIN blocks /\ Ends(new, b) = Ends(blocks, b)
      BY <1>5, <1>6, <2>2 DEF Places
    <3>2. Ends(blocks, b) = block => ~backward
      BY <1>0, <1>1, <1>e, <2>2, <3>1
    <3>3. Ends(blocks, b) = next => ~forward
      BY <1>0, <1>1, <1>e, <2>2, <3>1
    <3> QED BY <1>0, <1>1, <3>1, <3>2, <3>3, <1>e
  <2> QED BY <2>1, <2>2
<1>10. Places(new) \subseteq FirstAddress .. EndAddress
  BY <1>0, <1>6 DEF Tiled, Places
<1>11. \A b \in Places(new) \ {EndAddress} : new[b].block_size > 0 /\ b \in DOMAIN new
  <2> SUFFICES ASSUME NEW b \in Places(new) \ {EndAddress} PROVE new[b].block_size > 0 /\ b \in DOMAIN new
    OBVIOUS
  <2>1. b \in DOMAIN new /\ new[b] \in Headers /\ b \in Int
    BY <1>4, <1>5, <1>10, HeapConstants DEF Places
  <2>2. b + new[b].block_size > b /\ new[b].block_size \in Int
    BY <1>9, <2>1 DEF Ends, Headers
  <2> QED BY <2>1, <2>2
<1> QED BY <1>6, <1>7, <1>8, <1>9, <1>10, <1>11 DEF Tiled, Size, Ends

\* The free blocks afterwards.
FreeAfter(F, block, next, backward, forward) ==
  (F \cup {block}) \ {b \in {block, next} : IF b = block THEN backward ELSE forward}

LEMMA InsertedLinks ==
  ASSUME NEW blocks, NEW F, NEW block, NEW iterator, NEW next, NEW merged, NEW backward, NEW forward,
         NEW new, Inserting(blocks, F, block, iterator, next, merged, backward, forward, new),
         NEW G, G = FreeAfter(F, block, next, backward, forward)
  PROVE  /\ Linked(new, G)
         /\ DOMAIN new \ G = (DOMAIN blocks \ F) \ {block}
         /\ \A b \in DOMAIN new \ G : new[b] = blocks[b]
<1>0. /\ Tiled(blocks) /\ Linked(blocks, F) /\ block \in Places(blocks) \ F
      /\ iterator \in F \ {EndAddress} /\ backward \in BOOLEAN /\ forward \in BOOLEAN
      /\ next = blocks[iterator].next /\ iterator < block /\ block < next
      /\ Inserted(blocks, block, iterator, next, backward, forward, new)
  BY DEF Inserting
<1>a. merged = IF backward THEN iterator ELSE block
  BY DEF Inserting
<1>1. InsertedAt(blocks, block, iterator, next, merged, backward, forward, new)
  BY InsertedFacts
<1> USE DEF InsertedAt
<1>2. \A b : b \in G <=> (b \in F \/ b = block) /\ ~(b = block /\ backward) /\ ~(b = next /\ forward)
  BY <1>0, <1>1 DEF FreeAfter
<1>3. /\ F \subseteq DOMAIN blocks /\ START \in F /\ EndAddress \in F
      /\ blocks[EndAddress].next = NONE
      /\ \A b \in F \ {EndAddress} :
           /\ blocks[b].next \in F /\ b < blocks[b].next
           /\ \A c \in F : c <= b \/ c >= blocks[b].next
           /\ Ends(blocks, b) = blocks[b].next => blocks[b].next = EndAddress
      /\ \A b \in DOMAIN blocks \ F : blocks[b].next = NONE
  BY <1>0 DEF Linked, Ends
<1>4. \A b \in DOMAIN blocks : b \in Int /\ blocks[b].next \in Int
  BY <1>0, TiledFacts
<1>5. merged \in G /\ iterator \in G /\ G \subseteq DOMAIN new /\ START \in G /\ EndAddress \in G
      /\ (~backward => block \in G /\ merged # iterator)
  BY <1>0, <1>1, <1>2, <1>3, <1>4
<1>6. /\ new[merged].next = IF forward THEN blocks[next].next ELSE next
      /\ ~backward => new[iterator].next = block /\ Ends(new, iterator) = Ends(blocks, iterator)
      /\ \A b \in DOMAIN new \ {iterator, merged} :
           new[b] = blocks[b] /\ new[b].next = blocks[b].next /\ Ends(new, b) = Ends(blocks, b)
  BY <1>0, <1>a, InsertedFacts DEF Inserted, Ends, Header
<1>7. Ends(new, merged) = IF forward THEN Ends(blocks, next) ELSE Ends(blocks, block)
  BY InsertedEnds
<1>8. DOMAIN new \ G = (DOMAIN blocks \ F) \ {block} /\ \A b \in DOMAIN new \ G : new[b] = blocks[b]
  BY <1>0, <1>1, <1>2, <1>3, <1>5, <1>6
<1>9. ASSUME NEW b \in G \ {EndAddress}
      PROVE  /\ new[b].next \in G /\ b < new[b].next
             /\ \A c \in G : c <= b \/ c >= new[b].next
             /\ Ends(new, b) = new[b].next => new[b].next = EndAddress
  <2>a. PICK then : then = new[b].next
    OBVIOUS
  <2>1. CASE b = merged
    <3>1. CASE forward
      <4>1. /\ next # EndAddress /\ then = blocks[next].next /\ then \in F /\ next < then
            /\ \A c \in F : c <= next \/ c >= then
            /\ Ends(blocks, next) = then => then = EndAddress
        BY <1>0, <1>1, <1>3, <1>6, <2>1, <2>a, <3>1
      <4>2. then \in G /\ b < then
        BY <1>0, <1>1, <1>2, <1>3, <1>4, <2>1, <4>1
      <4>3. ASSUME NEW c \in G PROVE c <= b \/ c >= then
        <5>1. (c \in F \/ c = block) /\ ~(c = block /\ backward) /\ ~(c = next /\ forward)
          BY <1>2
        <5>2. CASE c \in F
          <6>1. c <= iterator \/ c >= next
            BY <1>0, <1>3, <5>2
          <6>2. c <= next \/ c >= then
            BY <4>1, <5>2
          <6> QED BY <1>0, <1>1, <1>3, <1>4, <2>1, <3>1, <4>1, <5>1, <5>2, <6>1, <6>2
        <5>3. CASE c = block
          BY <1>0, <1>1, <2>1, <5>1, <5>3
        <5> QED BY <5>1, <5>2, <5>3
      <4> QED BY <1>7, <2>1, <2>a, <3>1, <4>1, <4>2, <4>3
    <3>2. CASE ~forward
      <4>1. then = next /\ then \in G /\ b < then
        BY <1>0, <1>1, <1>2, <1>3, <1>4, <1>6, <2>1, <2>a, <3>2
      <4>2. ASSUME NEW c \in G PROVE c <= b \/ c >= then
        BY <1>0, <1>1, <1>2, <1>3, <1>4, <2>1, <4>1
      <4>3. Ends(new, b) = then => then = EndAddress
        BY <1>0, <1>1, <1>7, <2>1, <3>2, <4>1
      <4> QED BY <2>a, <4>1, <4>2, <4>3
    <3> QED BY <3>1, <3>2
  <2>2. CASE b # merged /\ b = iterator
    <3>1. ~backward /\ then = block /\ Ends(new, b) = Ends(blocks, iterator)
      BY <1>0, <1>1, <1>6, <2>2, <2>a
    <3>2. then \in G /\ b < then
      BY <1>0, <1>5, <2>2, <3>1
    <3>3. ASSUME NEW c \in G PROVE c <= b \/ c >= then
      BY <1>0, <1>1, <1>2, <1>3, <1>4, <2>2, <3>1
    <3>4. Ends(new, b) # then
      BY <1>0, <1>1, <3>1
    <3> QED BY <2>a, <3>2, <3>3, <3>4
  <2>3. CASE b # merged /\ b # iterator
    <3>1. b \in F \ {EndAddress} /\ then = blocks[b].next /\ Ends(new, b) = Ends(blocks, b)
      BY <1>0, <1>1, <1>2, <1>3, <1>5, <1>6, <2>3, <2>a
    <3>2. /\ then \in F /\ b < then /\ (Ends(blocks, b) = then => then = EndAddress)
          /\ \A c \in F : c <= b \/ c >= then
      BY <1>3, <3>1
    <3>3. /\ b <= iterator \/ b >= next
          /\ then <= iterator \/ then > next
      <4>1. b <= iterator \/ b >= next
        BY <1>0, <1>3, <3>1
      <4>2. iterator <= b \/ iterator >= then
        BY <1>0, <3>2
      <4> QED BY <1>0, <1>1, <1>3, <1>4, <2>3, <3>1, <3>2, <4>1, <4>2
    <3>4. then \in G
      BY <1>0, <1>1, <1>2, <3>2, <3>3
    <3>5. ASSUME NEW c \in G PROVE c <= b \/ c >= then
      <4>1. CASE c \in F
        BY <3>2, <4>1
      <4>2. CASE c = block
        <5>1. iterator <= b \/ iterator >= then
          BY <1>0, <3>2
        <5> QED BY <1>0, <1>1, <1>3, <1>4, <2>3, <3>1, <3>2, <3>3, <4>2, <5>1
      <4> QED BY <1>2, <4>1, <4>2
    <3> QED BY <2>a, <3>1, <3>2, <3>4, <3>5
  <2> QED BY <2>1, <2>2, <2>3
<1>10. new[EndAddress].next = NONE
  BY <1>0, <1>1, <1>3, <1>5, <1>6
<1>11. \A b \in DOMAIN new \ G : new[b].next = NONE
  BY <1>3, <1>8
<1> QED BY <1>5, <1>8, <1>9, <1>10, <1>11 DEF Linked, Ends

----------------------------------------------------------------------------
(* Sums of sizes *)

SizeIn(l, b) == l.blocks[b].block_size

\* The size of each set of blocks in D.
Sums(l, D, f) ==
  f = [s \in D |-> IF s = {} THEN 0 ELSE SizeIn(l, Anyone(s)) + f[s \ {Anyone(s)}]]

\* The subsets with at most as many members as there are are all subsets.
LEMMA SmallAreAll ==
  ASSUME NEW S, IsFiniteSet(S)
  PROVE  Cardinality(S) \in Nat /\ Small(S, Cardinality(S)) = SUBSET S
<1>1. 0 \in Nat
  OBVIOUS
<1> QED BY <1>1, SmallFacts

\* The function that Bytes chooses exists: by induction on the number of blocks.
LEMMA SumsExist ==
  ASSUME NEW S, IsFiniteSet(S), NEW l
  PROVE  \E f : Sums(l, SUBSET S, f) /\ Bytes(l, S) = f[S]
<1> DEFINE G == {n \in Nat : \E f : Sums(l, Small(S, n), f)}
<1>1. 0 \in G
  <2>1. Sums(l, {{}}, [s \in {{}} |-> 0])
    BY DEF Sums
  <2>2. 0 \in Nat /\ Small(S, 0) = {{}}
    BY SmallFacts
  <2> QED BY <2>1, <2>2
<1>2. ASSUME NEW n \in Nat, n \in G PROVE n + 1 \in G
  <2>1. PICK f : Sums(l, Small(S, n), f)
    BY <1>2
  <2> DEFINE g == [s \in Small(S, n + 1) |->
                     IF s = {} THEN 0 ELSE SizeIn(l, Anyone(s)) + f[s \ {Anyone(s)}]]
  <2>2. \A s \in Small(S, n) : f[s] = g[s]
    BY <2>1, SmallFacts DEF Sums
  <2>3. \A s \in Small(S, n + 1) : s # {} => Anyone(s) \in s /\ Anyone(s) \in S
    BY DEF Anyone, Small
  <2>4. \A s \in Small(S, n + 1) : s # {} => f[s \ {Anyone(s)}] = g[s \ {Anyone(s)}]
    <3> HIDE DEF g
    <3> QED BY <2>2, <2>3, SmallFacts
  <2>5. Sums(l, Small(S, n + 1), g)
    BY <2>4 DEF Sums
  <2> HIDE DEF g
  <2> QED BY <2>5
<1>3. \E f : Sums(l, SUBSET S, f)
  <2>1. Cardinality(S) \in G
    <3> HIDE DEF G
    <3>1. Nat \subseteq G
      BY <1>1, <1>2, NaturalInduction
    <3> QED BY <3>1, SmallAreAll
  <2> QED BY <2>1, SmallAreAll
<1>4. Bytes(l, S) = (CHOOSE f : Sums(l, SUBSET S, f))[S]
  BY DEF Bytes, MapThenSumSet, MapThenFoldSet, Anyone, Sums, SizeIn
<1> QED BY <1>3, <1>4

\* The order in which a sum is taken makes no difference.
LEMMA SumsInAnyOrder ==
  ASSUME NEW S, IsFiniteSet(S), NEW l, \A b \in S : SizeIn(l, b) \in Nat, NEW f, Sums(l, SUBSET S, f)
  PROVE  \A s \in SUBSET S : f[s] \in Nat /\ \A x \in s : f[s] = SizeIn(l, x) + f[s \ {x}]
<1> DEFINE Right(s) == f[s] \in Nat /\ \A x \in s : f[s] = SizeIn(l, x) + f[s \ {x}]
           G == {n \in Nat : \A s \in Small(S, n) : Right(s)}
<1>0. Right({})
  BY DEF Sums
<1>1. 0 \in G
  <2> HIDE DEF Right
  <2>1. 0 \in Nat /\ Small(S, 0) = {{}}
    BY SmallFacts
  <2> QED BY <1>0, <2>1
<1>2. ASSUME NEW n \in Nat, n \in G PROVE n + 1 \in G
  <2>1. ASSUME NEW s \in Small(S, n + 1), s # {} PROVE Right(s)
    <3>a. PICK p : p = Anyone(s)
      OBVIOUS
    <3>b. PICK r : r = s \ {p}
      OBVIOUS
    <3>1. p \in s /\ s \in SUBSET S /\ p \in S
      BY <2>1, <3>a DEF Anyone, Small
    <3>2. \A x \in s : x \in S /\ s \ {x} \in Small(S, n)
      BY <2>1, <3>1, SmallFacts
    <3>3. f[s] = SizeIn(l, p) + f[r] /\ r \in Small(S, n) /\ Right(r)
      <4>1. f[s] = SizeIn(l, p) + f[r]
        BY <2>1, <3>a, <3>b, <3>1 DEF Sums
      <4> HIDE DEF Right
      <4> QED BY <1>2, <3>b, <3>1, <3>2, <4>1
    <3>4. ASSUME NEW x \in s, x # p PROVE f[s] = SizeIn(l, x) + f[s \ {x}]
      <4>a. PICK q : q = s \ {x}
        OBVIOUS
      <4>b. PICK both : both = r \ {x}
        OBVIOUS
      <4>1. f[r] = SizeIn(l, x) + f[both]
        BY <3>b, <3>3, <3>4, <4>b
      <4>2. q \in Small(S, n) /\ p \in q /\ both = q \ {p}
        BY <3>b, <3>1, <3>2, <3>4, <4>a, <4>b
      <4>3. Right(q)
        <5> HIDE DEF Right
        <5> QED BY <1>2, <4>2
      <4>4. f[q] = SizeIn(l, p) + f[both]
        BY <4>2, <4>3
      <4>5. both \in Small(S, n) /\ SizeIn(l, x) \in Nat /\ SizeIn(l, p) \in Nat
        <5>1. both \in SUBSET S /\ x \in S
          BY <3>b, <3>1, <4>b
        <5>2. both \subseteq r /\ x \in r
          BY <3>b, <3>4, <4>b
        <5>3. IsFiniteSet(r) /\ Cardinality(r) \in Nat /\ Cardinality(r) <= n
          BY <3>3, FS_Subset, FS_CardinalityType DEF Small
        <5>4. Cardinality(both) <= Cardinality(r) /\ Cardinality(both) \in Nat
          BY <5>2, <5>3, FS_Subset, FS_CardinalityType
        <5> QED BY <3>1, <5>1, <5>3, <5>4 DEF Small
      <4>6. f[both] \in Nat
        BY <1>2, <4>5
      <4> QED BY <3>3, <4>1, <4>4, <4>5, <4>6, <4>a
    <3>5. f[s] \in Nat
      BY <3>1, <3>3
    <3> QED BY <3>b, <3>3, <3>4, <3>5
  <2> HIDE DEF Right
  <2>2. \A s \in Small(S, n + 1) : Right(s)
    BY <1>0, <2>1
  <2> QED BY <2>2
<1>3. Nat \subseteq G
  <2> HIDE DEF G
  <2> QED BY <1>1, <1>2, NaturalInduction
<1> HIDE DEF Right
<1>4. \A s \in SUBSET S : Right(s)
  BY <1>3, SmallAreAll
<1> QED BY <1>4 DEF Right

\* Nor do more blocks, or another heap where the ones summed up are as large.
LEMMA SumsAgree ==
  ASSUME NEW T, IsFiniteSet(T), NEW S \in SUBSET T, NEW l, NEW m,
         \A b \in S : SizeIn(l, b) = SizeIn(m, b),
         NEW f, Sums(l, SUBSET S, f), NEW g, Sums(m, SUBSET T, g)
  PROVE  f[S] = g[S]
<1> DEFINE G == {n \in Nat : \A s \in Small(S, n) : f[s] = g[s]}
<1>0. IsFiniteSet(S) /\ f[{}] = g[{}]
  BY FS_Subset DEF Sums
<1>1. 0 \in G
  <2>1. 0 \in Nat /\ Small(S, 0) = {{}}
    BY <1>0, SmallFacts
  <2> QED BY <1>0, <2>1
<1>2. ASSUME NEW n \in Nat, n \in G PROVE n + 1 \in G
  <2>1. ASSUME NEW s \in Small(S, n + 1), s # {} PROVE f[s] = g[s]
    <3>a. PICK p : p = Anyone(s)
      OBVIOUS
    <3>b. PICK r : r = s \ {p}
      OBVIOUS
    <3>1. p \in s /\ s \in SUBSET S /\ p \in S /\ s \in SUBSET T
      BY <2>1, <3>a DEF Anyone, Small
    <3>2. r \in Small(S, n)
      BY <1>0, <2>1, <3>b, <3>1, SmallFacts
    <3>3. f[s] = SizeIn(l, p) + f[r] /\ g[s] = SizeIn(m, p) + g[r]
      BY <2>1, <3>a, <3>b, <3>1 DEF Sums
    <3> QED BY <1>2, <3>1, <3>2, <3>3
  <2>2. \A s \in Small(S, n + 1) : f[s] = g[s]
    BY <1>0, <2>1
  <2> QED BY <2>2
<1>3. Nat \subseteq G
  <2> HIDE DEF G
  <2> QED BY <1>1, <1>2, NaturalInduction
<1>4. S \in Small(S, Cardinality(S)) /\ Cardinality(S) \in G
  BY <1>0, <1>3, SmallAreAll
<1> QED BY <1>4

\* The bytes of the same blocks, as large in one heap as in the other.
LEMMA BytesAgree ==
  ASSUME NEW S, IsFiniteSet(S), NEW l, NEW m, \A b \in S : SizeIn(l, b) = SizeIn(m, b)
  PROVE  Bytes(l, S) = Bytes(m, S)
<1>1. PICK f : Sums(l, SUBSET S, f) /\ Bytes(l, S) = f[S]
  BY SumsExist
<1>2. PICK g : Sums(m, SUBSET S, g) /\ Bytes(m, S) = g[S]
  BY SumsExist
<1>3. S \in SUBSET S
  OBVIOUS
<1> QED BY <1>1, <1>2, <1>3, SumsAgree

\* One block more adds its size.
LEMMA BytesOfOneMore ==
  ASSUME NEW S, IsFiniteSet(S), NEW x, x \notin S, NEW l,
         \A b \in S \cup {x} : SizeIn(l, b) \in Nat
  PROVE  /\ Bytes(l, S) \in Nat
         /\ Bytes(l, S \cup {x}) = SizeIn(l, x) + Bytes(l, S)
<1>a. PICK T : T = S \cup {x}
  OBVIOUS
<1>1. IsFiniteSet(T) /\ S \in SUBSET T /\ x \in T /\ T \ {x} = S
  BY <1>a, FS_AddElement
<1>2. PICK f : Sums(l, SUBSET S, f) /\ Bytes(l, S) = f[S]
  BY SumsExist
<1>3. PICK g : Sums(l, SUBSET T, g) /\ Bytes(l, T) = g[T]
  BY <1>1, SumsExist
<1>4. f[S] = g[S]
  BY <1>1, <1>2, <1>3, SumsAgree
<1>5. \A s \in SUBSET T : g[s] \in Nat /\ \A y \in s : g[s] = SizeIn(l, y) + g[s \ {y}]
  <2>1. \A b \in T : SizeIn(l, b) \in Nat
    BY <1>a
  <2> QED BY <1>1, <1>3, <2>1, SumsInAnyOrder
<1> QED BY <1>1, <1>2, <1>3, <1>4, <1>5, <1>a

\* No blocks, no bytes.
LEMMA BytesOfNone ==
  ASSUME NEW l PROVE Bytes(l, {}) = 0
<1>1. PICK f : Sums(l, SUBSET {}, f) /\ Bytes(l, {}) = f[{}]
  BY SumsExist, FS_EmptySet
<1> QED BY <1>1 DEF Sums

\* insert_block keeps the heap whole, and its block is free from then on.
LEMMA InsertBlockKeeps ==
  ASSUME NEW blocks, Tiled(blocks), NEW F, Linked(blocks, F), NEW block \in Places(blocks) \ F,
         \A b \in F : ~blocks[b].allocated, NEW new, new = InsertBlock(blocks, block)
  PROVE  /\ Tiled(new) /\ DOMAIN new \subseteq DOMAIN blocks
         /\ \E G : /\ Linked(new, G) /\ \A b \in G : ~new[b].allocated
                   /\ DOMAIN new \ G = (DOMAIN blocks \ F) \ {block}
                   /\ \A b \in DOMAIN new \ G : new[b] = blocks[b]
<1>1. PICK iterator \in F \ {EndAddress}, backward \in BOOLEAN, forward \in BOOLEAN :
        /\ iterator < block /\ block < blocks[iterator].next
        /\ Inserted(blocks, block, iterator, blocks[iterator].next, backward, forward, new)
  BY InsertBlockFacts
<1>a. PICK next : next = blocks[iterator].next
  OBVIOUS
<1>b. PICK merged : merged = IF backward THEN iterator ELSE block
  OBVIOUS
<1>c. PICK G : G = FreeAfter(F, block, next, backward, forward)
  OBVIOUS
<1>2. Inserting(blocks, F, block, iterator, next, merged, backward, forward, new)
  BY <1>1, <1>a, <1>b DEF Inserting
<1>3. Tiled(new)
  BY <1>2, InsertedTiles
<1>4. /\ Linked(new, G) /\ DOMAIN new \ G = (DOMAIN blocks \ F) \ {block}
      /\ \A b \in DOMAIN new \ G : new[b] = blocks[b]
  BY <1>2, <1>c, InsertedLinks
<1>5. DOMAIN new \subseteq DOMAIN blocks
  BY <1>1 DEF Inserted
<1>7. \A b \in DOMAIN new \ {iterator, merged} : new[b] = blocks[b]
  BY <1>1, <1>b DEF Inserted
<1>6. ASSUME NEW b \in G PROVE ~new[b].allocated
  <2>1. b \in DOMAIN new /\ (b \in F \/ b = block) /\ ~(b = block /\ backward)
    BY <1>1, <1>4, <1>c DEF Linked, FreeAfter
  <2>2. ~new[merged].allocated
    BY <1>2, InsertedFacts
  <2>3. CASE b = merged
    BY <2>2, <2>3
  <2>4. CASE b # merged /\ b = iterator
    <3>1. ~backward
      BY <1>b, <2>4
    <3>2. new[iterator] = Header(block, blocks[iterator].block_size, blocks[iterator].allocated)
      BY <1>1, <3>1 DEF Inserted
    <3> QED BY <2>4, <3>2 DEF Header
  <2>5. CASE b # merged /\ b # iterator
    <3>1. new[b] = blocks[b]
      BY <1>7, <2>1, <2>5
    <3>2. b \in F
      BY <1>b, <2>1, <2>5
    <3> QED BY <3>1, <3>2
  <2> QED BY <2>3, <2>4, <2>5
<1> QED BY <1>3, <1>4, <1>5, <1>6

----------------------------------------------------------------------------
(* Taking a block *)

\* The header of a block that is handed out, of what it has too much, and of
\* one whose next one changes.
HeaderTaken(n) == Header(NONE, n, TRUE)
HeaderOfRest(n) == Header(NONE, n, FALSE)
Relinked(header, next) == Header(next, header.block_size, header.allocated)

\* The block leaves the list: what is left of it is taken bytes large.
Unlinked(blocks, previous, block, taken) ==
  [blocks EXCEPT ![previous].next = blocks[block].next, ![block] = HeaderTaken(taken)]

Unlinking(blocks, F, previous, block, taken, new) ==
  /\ Tiled(blocks) /\ Linked(blocks, F) /\ block \in F \ {START, EndAddress}
  /\ previous \in F /\ blocks[previous].next = block /\ taken \in Nat
  /\ new = Unlinked(blocks, previous, block, taken)

UnlinkedTo(blocks, F, previous, block, taken, new) ==
  /\ new \in [DOMAIN blocks -> Headers] /\ DOMAIN new = DOMAIN blocks
  /\ previous # block /\ new[block] = HeaderTaken(taken)
  /\ new[previous] = Relinked(blocks[previous], blocks[block].next)
  /\ \A b \in DOMAIN blocks \ {block, previous} : new[b] = blocks[b]
  /\ Linked(new, F \ {block})
  /\ new[block].block_size = taken
  /\ \A b \in DOMAIN blocks \ {block} : new[b].block_size = blocks[b].block_size

LEMMA UnlinkedFacts ==
  ASSUME NEW blocks, NEW F, NEW previous, NEW block, NEW taken, NEW new,
         Unlinking(blocks, F, previous, block, taken, new)
  PROVE  UnlinkedTo(blocks, F, previous, block, taken, new)
<1>0. /\ previous \in F /\ block \in F /\ blocks[previous].next = block
      /\ F \subseteq DOMAIN blocks /\ block \in DOMAIN blocks /\ previous \in DOMAIN blocks
      /\ previous # EndAddress /\ previous < block /\ previous \in Int /\ block \in Int
      /\ START \in F /\ EndAddress \in F /\ block # EndAddress /\ block # START
      /\ blocks[EndAddress].next = NONE /\ NONE \in Int
  BY TiledFacts, HeapConstants DEF Linked, Unlinking
<1>1. /\ \A b \in DOMAIN blocks : b \in Int /\ blocks[b].next \in Int
      /\ blocks \in [DOMAIN blocks -> Headers]
      /\ \A b \in F \ {EndAddress} :
           /\ blocks[b].next \in F /\ b < blocks[b].next
           /\ \A c \in F : c <= b \/ c >= blocks[b].next
           /\ Ends(blocks, b) = blocks[b].next => blocks[b].next = EndAddress
      /\ \A b \in DOMAIN blocks \ F : blocks[b].next = NONE
  BY TiledFacts DEF Linked, Ends, Tiled, Unlinking
<1>2. /\ new \in [DOMAIN blocks -> Headers] /\ DOMAIN new = DOMAIN blocks
      /\ new[block] = HeaderTaken(taken)
      /\ new[previous] = Relinked(blocks[previous], blocks[block].next)
      /\ \A b \in DOMAIN blocks \ {block, previous} : new[b] = blocks[b]
  <2>a. PICK old : old = blocks[previous]
    OBVIOUS
  <2>b. PICK next : next = blocks[block].next
    OBVIOUS
  <2>c. PICK head : head = HeaderTaken(taken)
    OBVIOUS
  <2>1. old \in Headers /\ next \in Int
    BY <1>0, <1>1, <2>a, <2>b
  <2>2. new = [blocks EXCEPT ![previous] = [old EXCEPT !.next = next], ![block] = head]
    BY <2>a, <2>b, <2>c DEF Unlinked, Unlinking
  <2>3. [old EXCEPT !.next = next] = Relinked(old, next)
    BY <2>1 DEF Headers, Header, Relinked, HeaderTaken
  <2>4. head \in Headers /\ Relinked(old, next) \in Headers
    BY <1>0, <2>1, <2>c DEF Headers, Header, Relinked, HeaderTaken, Unlinking
  <2>d. PICK info : info = Relinked(old, next)
    OBVIOUS
  <2>5. new = [blocks EXCEPT ![previous] = info, ![block] = head] /\ info \in Headers /\ head \in Headers
    BY <2>2, <2>3, <2>4, <2>d
  <2>6. /\ new \in [DOMAIN blocks -> Headers] /\ DOMAIN new = DOMAIN blocks
        /\ new[block] = head /\ new[previous] = info
        /\ \A b \in DOMAIN blocks \ {block, previous} : new[b] = blocks[b]
    BY <1>0, <1>1, <2>5
  <2> QED BY <2>6, <2>a, <2>b, <2>c, <2>d
<1>a. PICK next : next = blocks[block].next
  OBVIOUS
<1>b. PICK G : G = F \ {block}
  OBVIOUS
<1>3. /\ next \in F /\ block < next /\ next \in G
      /\ \A c \in F : c <= block \/ c >= next
      /\ \A c \in F : c <= previous \/ c >= block
  BY <1>0, <1>1, <1>a, <1>b
<1>4. ASSUME NEW b \in G \ {EndAddress}
      PROVE  /\ new[b].next \in G /\ b < new[b].next
             /\ \A c \in G : c <= b \/ c >= new[b].next
             /\ Ends(new, b) = new[b].next => new[b].next = EndAddress
  <2>1. CASE b = previous
    <3>1. new[b].next = next /\ Ends(new, b) = Ends(blocks, b)
      BY <1>2, <1>a, <2>1 DEF Header, Relinked, HeaderTaken, Ends
    <3>2. ASSUME NEW c \in G PROVE c <= b \/ c >= next
      <4>1. c \in F /\ c # block /\ c \in Int /\ next \in Int
        BY <1>0, <1>1, <1>3, <1>b
      <4>2. (c <= block \/ c >= next) /\ (c <= previous \/ c >= block)
        BY <1>3, <4>1
      <4> QED BY <1>0, <2>1, <4>1, <4>2
    <3>3. Ends(blocks, previous) <= block
      <4>1. CASE previous = START
        BY <1>0, <4>1, EndsFacts DEF Unlinking
      <4>2. CASE previous # START
        <5>1. previous \in Places(blocks) \ {EndAddress} /\ block \in Places(blocks)
          BY <1>0, <4>2 DEF Places
        <5>2. block <= previous \/ block >= Ends(blocks, previous)
          BY <5>1, EndsFacts DEF Unlinking
        <5>3. Ends(blocks, previous) \in Int
          BY <1>0, EndsFacts DEF Unlinking
        <5> QED BY <1>0, <5>2, <5>3
      <4> QED BY <4>1, <4>2
    <3>4. Ends(blocks, previous) \in Int
      BY <1>0, EndsFacts DEF Unlinking
    <3> QED BY <1>0, <1>1, <1>3, <2>1, <3>1, <3>2, <3>3, <3>4
  <2>2. CASE b # previous
    <3>1. new[b].next = blocks[b].next /\ Ends(new, b) = Ends(blocks, b) /\ b \in F
      BY <1>0, <1>2, <1>b, <2>2 DEF Ends
    <3>2. blocks[b].next # block
      BY <1>0, <1>1, <2>2, <3>1
    <3> QED BY <1>1, <1>b, <3>1, <3>2
  <2> QED BY <2>1, <2>2
<1>5. /\ G \subseteq DOMAIN new /\ START \in G /\ EndAddress \in G
      /\ new[EndAddress].next = NONE
  BY <1>0, <1>2, <1>b
<1>6. ASSUME NEW b \in DOMAIN new \ G PROVE new[b].next = NONE
  BY <1>0, <1>1, <1>2, <1>b, <1>6 DEF Header, Relinked, HeaderTaken
<1>7. Linked(new, G)
  BY <1>4, <1>5, <1>6 DEF Linked, Ends
<1>8. new[block].block_size = taken /\ new[previous].block_size = blocks[previous].block_size
  BY <1>2 DEF Header, Relinked, HeaderTaken
<1>9. \A b \in DOMAIN blocks \ {block} : new[b].block_size = blocks[b].block_size
  BY <1>2, <1>8
<1> QED BY <1>0, <1>2, <1>7, <1>8, <1>9, <1>b DEF UnlinkedTo

\* All of a block leaves the list.
LEMMA WholeKeepsTiles ==
  ASSUME NEW blocks, NEW F, NEW previous, NEW block, NEW new,
         Unlinking(blocks, F, previous, block, blocks[block].block_size, new)
  PROVE  Tiled(new)
<1>a. PICK taken : taken = blocks[block].block_size
  OBVIOUS
<1>1. block \in DOMAIN blocks /\ previous \in DOMAIN blocks /\ taken \in Nat /\ Tiled(blocks)
  BY <1>a, TiledFacts DEF Linked, Unlinking
<1>b. UnlinkedTo(blocks, F, previous, block, taken, new)
  <2>1. Unlinking(blocks, F, previous, block, taken, new)
    BY <1>a
  <2> QED BY <2>1, UnlinkedFacts
<1>2. new \in [DOMAIN blocks -> Headers] /\ DOMAIN new = DOMAIN blocks
  BY <1>b DEF UnlinkedTo
<1>3. \A b \in DOMAIN blocks : new[b].block_size = blocks[b].block_size
  BY <1>a, <1>b DEF UnlinkedTo
<1>4. Places(new) = Places(blocks)
  BY <1>2 DEF Places
<1>5. {START, EndAddress} \subseteq DOMAIN blocks /\ Places(blocks) \subseteq DOMAIN blocks
  BY <1>1 DEF Tiled, Places
<1> QED BY <1>1, <1>2, <1>3, <1>4, <1>5 DEF Tiled

\* Only the first bytes of it do; the rest is a block of its own.
Splitting(blocks, F, previous, block, bytes, rest, cut) ==
  /\ Tiled(blocks) /\ Linked(blocks, F) /\ block \in F \ {START, EndAddress}
  /\ previous \in F /\ blocks[previous].next = block
  /\ bytes \in Nat /\ bytes > 0 /\ rest \in Nat /\ rest > 0
  /\ blocks[block].block_size = bytes + rest
  /\ cut = With(Unlinked(blocks, previous, block, bytes), block + bytes, HeaderOfRest(rest))

SplitTo(blocks, F, previous, block, bytes, cut) ==
  /\ Tiled(cut) /\ Linked(cut, F \ {block}) /\ block + bytes \in Places(cut) \ F
  /\ block + bytes \notin DOMAIN blocks /\ DOMAIN cut = DOMAIN blocks \cup {block + bytes}
  /\ cut[block] = HeaderTaken(bytes)
  /\ cut[previous] = Relinked(blocks[previous], blocks[block].next)
  /\ \A b \in DOMAIN blocks \ {block, previous} : cut[b] = blocks[b]

LEMMA SplitKeepsTiles ==
  ASSUME NEW blocks, NEW F, NEW previous, NEW block, NEW bytes, NEW rest, NEW cut,
         Splitting(blocks, F, previous, block, bytes, rest, cut)
  PROVE  SplitTo(blocks, F, previous, block, bytes, cut)
<1>0. /\ Tiled(blocks) /\ Linked(blocks, F) /\ block \in F \ {START, EndAddress}
      /\ previous \in F /\ blocks[previous].next = block
      /\ bytes \in Nat /\ bytes > 0 /\ rest \in Nat /\ rest > 0
      /\ blocks[block].block_size = bytes + rest
  BY DEF Splitting
<1>a. PICK new : new = Unlinked(blocks, previous, block, bytes)
  OBVIOUS
<1>b. PICK r : r = block + bytes
  OBVIOUS
<1>c. PICK G : G = F \ {block}
  OBVIOUS
<1>d. PICK head : head = HeaderOfRest(rest)
  OBVIOUS
<1>1. /\ new \in [DOMAIN blocks -> Headers] /\ DOMAIN new = DOMAIN blocks /\ previous # block
      /\ new[block] = HeaderTaken(bytes)
      /\ new[previous] = Relinked(blocks[previous], blocks[block].next)
      /\ \A b \in DOMAIN blocks \ {block, previous} : new[b] = blocks[b]
      /\ Linked(new, G)
      /\ new[block].block_size = bytes
      /\ \A b \in DOMAIN blocks \ {block} : new[b].block_size = blocks[b].block_size
  <2>1. Unlinking(blocks, F, previous, block, bytes, new)
    BY <1>a DEF Unlinking, Splitting
  <2>2. UnlinkedTo(blocks, F, previous, block, bytes, new)
    BY <2>1, UnlinkedFacts
  <2> QED BY <1>c, <2>2 DEF UnlinkedTo
<1>2. /\ block \in DOMAIN blocks /\ previous \in DOMAIN blocks /\ block \in Int /\ r \in Int
      /\ block \in Places(blocks) \ {EndAddress} /\ START \in Int /\ EndAddress \in Int /\ NONE \in Int
      /\ START < block /\ FirstAddress \in Int
  BY <1>0, <1>b, TiledFacts, HeapConstants, EndsFacts DEF Linked, Places
<1>e. /\ \A b \in DOMAIN blocks : b \in Int /\ Ends(blocks, b) \in Int
      /\ Ends(blocks, START) = START /\ Ends(blocks, EndAddress) = EndAddress
      /\ \A b \in Places(blocks) \ {EndAddress} :
           /\ b < Ends(blocks, b) /\ Ends(blocks, b) \in Places(blocks)
           /\ \A c \in Places(blocks) : c <= b \/ c >= Ends(blocks, b)
      /\ \A b \in Places(blocks) : b > START /\ b \in Int
  BY <1>0, EndsFacts, TiledFacts
<1>3. /\ Ends(blocks, block) = r + rest /\ block < r /\ r < Ends(blocks, block)
      /\ r \notin DOMAIN blocks /\ r # START /\ r # EndAddress
  <2>1. Ends(blocks, block) = r + rest /\ block < r /\ r < Ends(blocks, block)
    BY <1>0, <1>2, <1>b DEF Ends
  <2>2. r \notin Places(blocks)
    BY <1>0, <1>2, <1>e, <2>1
  <2>3. r # START /\ EndAddress \in Places(blocks)
    BY <1>0, <1>2, <2>1, HeapConstants DEF Places, Tiled
  <2> QED BY <2>1, <2>2, <2>3 DEF Places
<1>4. /\ DOMAIN cut = DOMAIN blocks \cup {r} /\ cut[r] = head /\ head \in Headers
      /\ \A b \in DOMAIN blocks : cut[b] = new[b]
      /\ cut \in [DOMAIN cut -> Headers]
  <2>1. cut = [b \in DOMAIN blocks \cup {r} |-> IF b = r THEN head ELSE new[b]]
    BY <1>0, <1>1, <1>a, <1>b, <1>d DEF With, Splitting
  <2>2. head \in Headers
    BY <1>0, <1>2, <1>d DEF Header, Headers, HeaderOfRest
  <2> QED BY <1>0, <1>1, <1>3, <2>1, <2>2
<1>5. /\ Ends(cut, block) = r /\ Ends(cut, r) = Ends(blocks, block)
      /\ \A b \in DOMAIN blocks \ {block} : Ends(cut, b) = Ends(blocks, b)
  <2>1. cut[block].block_size = bytes
    BY <1>0, <1>1, <1>2, <1>4
  <2>2. cut[r].block_size = rest
    BY <1>0, <1>4, <1>d DEF Header, HeaderOfRest
  <2>3. \A b \in DOMAIN blocks \ {block} : cut[b].block_size = blocks[b].block_size
    BY <1>0, <1>1, <1>4
  <2> QED BY <1>0, <1>3, <1>b, <2>1, <2>2, <2>3 DEF Ends
<1>f. \A b \in DOMAIN blocks \ {block} : cut[b].block_size = blocks[b].block_size
  BY <1>0, <1>1, <1>4
<1>6. Places(cut) = Places(blocks) \cup {r}
  BY <1>0, <1>3, <1>4 DEF Places
<1>7. ASSUME NEW b \in Places(cut) \ {EndAddress}
      PROVE  /\ b < Ends(cut, b) /\ Ends(cut, b) \in Places(cut)
             /\ \A c \in Places(cut) : c <= b \/ c >= Ends(cut, b)
  <2>1. CASE b = block
    <3>1. Ends(cut, b) = r /\ r \in Places(cut) /\ b < r
      BY <1>0, <1>3, <1>5, <1>6, <2>1
    <3>2. ASSUME NEW c \in Places(cut) PROVE c <= b \/ c >= r
      <4>1. c <= block \/ c >= Ends(blocks, block) \/ c = r
        BY <1>0, <1>2, <1>6, <1>e
      <4>2. c \in Int
        BY <1>0, <1>2, <1>6, <1>e
      <4> QED BY <1>0, <1>2, <1>3, <1>e, <2>1, <4>1, <4>2
    <3> QED BY <3>1, <3>2
  <2>2. CASE b = r
    <3>1. Ends(cut, b) = Ends(blocks, block) /\ Ends(cut, b) \in Places(cut) /\ b < Ends(cut, b)
      BY <1>0, <1>2, <1>3, <1>5, <1>6, <1>e, <2>2
    <3>2. ASSUME NEW c \in Places(cut) PROVE c <= b \/ c >= Ends(blocks, block)
      <4>1. c <= block \/ c >= Ends(blocks, block) \/ c = r
        BY <1>0, <1>2, <1>6, <1>e
      <4>2. c \in Int
        BY <1>0, <1>2, <1>6, <1>e
      <4> QED BY <1>0, <1>2, <1>3, <1>e, <2>2, <4>1, <4>2
    <3> QED BY <3>1, <3>2
  <2>3. CASE b # block /\ b # r
    <3>1. b \in Places(blocks) \ {EndAddress} /\ Ends(cut, b) = Ends(blocks, b) /\ b \in DOMAIN blocks
      BY <1>5, <1>6, <2>3 DEF Places
    <3>2. b < Ends(blocks, b) /\ Ends(blocks, b) \in Places(blocks) /\ Ends(blocks, b) \in Int /\ b \in Int
      BY <1>e, <3>1
    <3>3. r <= b \/ r >= Ends(blocks, b)
      <4>1. b <= block \/ b >= Ends(blocks, block)
        BY <1>0, <1>2, <1>e, <3>1
      <4>2. block <= b \/ block >= Ends(blocks, b)
        BY <1>0, <1>2, <1>e, <3>1
      <4> QED BY <1>0, <1>2, <1>3, <1>e, <2>3, <3>2, <4>1, <4>2
    <3>4. ASSUME NEW c \in Places(cut) PROVE c <= b \/ c >= Ends(blocks, b)
      BY <1>6, <1>e, <3>1, <3>3
    <3> QED BY <1>6, <3>1, <3>2, <3>4
  <2> QED BY <2>1, <2>2, <2>3
<1>8. Tiled(cut)
  <2>1. Places(cut) \subseteq FirstAddress .. EndAddress
    <3>1. Places(blocks) \subseteq FirstAddress .. EndAddress
      BY <1>0 DEF Tiled
    <3>2. Ends(blocks, block) \in FirstAddress .. EndAddress /\ block \in FirstAddress .. EndAddress
      BY <1>0, <1>2, <1>e, <3>1
    <3>3. r \in FirstAddress .. EndAddress
      BY <1>0, <1>2, <1>3, <3>2
    <3> QED BY <1>6, <3>1, <3>3
  <2>2. {START, EndAddress} \subseteq DOMAIN cut
    BY <1>0, <1>4 DEF Tiled
  <2>3. cut[START].block_size = 0 /\ cut[EndAddress].block_size = 0
    BY <1>0, <1>2, <1>f DEF Tiled, Places
  <2>4. ASSUME NEW b \in Places(cut) \ {EndAddress} PROVE cut[b].block_size > 0
    <3>1. b \in DOMAIN cut /\ cut[b] \in Headers /\ b \in Int
      BY <1>0, <1>2, <1>4, <1>6, <1>e DEF Places
    <3>2. b < Ends(cut, b)
      BY <1>7
    <3>3. cut[b].block_size \in Int
      BY <3>1 DEF Headers
    <3> QED BY <3>1, <3>2, <3>3 DEF Ends
  <2> QED BY <1>0, <1>4, <1>7, <2>1, <2>2, <2>3, <2>4 DEF Tiled, Ends
<1>9. Linked(cut, G)
  <2>1. G \subseteq DOMAIN blocks /\ block \notin G /\ r \notin G
    BY <1>0, <1>1, <1>3, <1>c DEF Linked
  <2>2. \A b \in DOMAIN blocks : cut[b] = new[b]
    BY <1>0, <1>4
  <2>3. cut[r].next = NONE
    BY <1>0, <1>4, <1>d DEF Header, HeaderOfRest
  <2>4. EndAddress \in DOMAIN blocks
    BY <1>0 DEF Tiled
  <2> QED BY <1>0, <1>1, <1>4, <2>1, <2>2, <2>3, <2>4 DEF Linked
<1>10. r \in Places(cut) \ F
  BY <1>0, <1>3, <1>6 DEF Linked
<1>11. /\ cut[block] = HeaderTaken(bytes)
       /\ cut[previous] = Relinked(blocks[previous], blocks[block].next)
       /\ \A b \in DOMAIN blocks \ {block, previous} : cut[b] = blocks[b]
  BY <1>0, <1>1, <1>2, <1>4
<1> QED BY <1>0, <1>3, <1>4, <1>8, <1>9, <1>10, <1>11, <1>b, <1>c DEF SplitTo

----------------------------------------------------------------------------
(* What holds of the free list manager *)

\* Where blocks begin.
Aligned(blocks) == \A b \in Places(blocks) : b % BYTE_ALIGNMENT = 0

\* start_block and end_block are among the free ones.
FreeBlocks(l) == {b \in DOMAIN l.blocks : ~l.blocks[b].allocated}

\* What mem_info reports.
Counted(l) ==
  /\ l.used_mem = Bytes(l, AllocatedBlocks(l))
  /\ l.mem_chunks = Cardinality(AllocatedBlocks(l))

\* The inductive invariant of the free list.
ListInv(l) ==
  /\ Tiled(l.blocks) /\ Aligned(l.blocks) /\ Linked(l.blocks, FreeBlocks(l))
  /\ Counted(l)

\* The allocated blocks are those that are not in the list.
LEMMA Partition ==
  ASSUME NEW l, Tiled(l.blocks), NEW F, Linked(l.blocks, F), \A b \in F : ~l.blocks[b].allocated,
         \A b \in DOMAIN l.blocks \ F : l.blocks[b].allocated
  PROVE  FreeBlocks(l) = F /\ AllocatedBlocks(l) = DOMAIN l.blocks \ F
BY DEF FreeBlocks, AllocatedBlocks, HeapBlocks, Linked

\* The same when the list is that of all free blocks; they are finitely many.
LEMMA AllocatedFacts ==
  ASSUME NEW l, Tiled(l.blocks), Linked(l.blocks, FreeBlocks(l))
  PROVE  /\ AllocatedBlocks(l) = DOMAIN l.blocks \ FreeBlocks(l)
         /\ IsFiniteSet(AllocatedBlocks(l)) /\ Cardinality(AllocatedBlocks(l)) \in Nat
         /\ \A b \in AllocatedBlocks(l) : b \in Places(l.blocks) \ FreeBlocks(l) /\ b # EndAddress
         /\ \A b \in DOMAIN l.blocks : SizeIn(l, b) \in Nat
<1>1. AllocatedBlocks(l) = DOMAIN l.blocks \ FreeBlocks(l)
  BY DEF FreeBlocks, AllocatedBlocks, HeapBlocks, Linked
<1>2. START \in FreeBlocks(l) /\ EndAddress \in FreeBlocks(l)
  BY DEF Linked
<1>3. \A b \in AllocatedBlocks(l) : b \in Places(l.blocks) \ FreeBlocks(l) /\ b # EndAddress
  BY <1>1, <1>2 DEF Places
<1>4. IsFiniteSet(FirstAddress .. EndAddress)
  BY HeapConstants, FS_Interval
<1>5. AllocatedBlocks(l) \subseteq FirstAddress .. EndAddress
  BY <1>3 DEF Tiled
<1>6. IsFiniteSet(AllocatedBlocks(l)) /\ Cardinality(AllocatedBlocks(l)) \in Nat
  BY <1>4, <1>5, FS_Subset, FS_CardinalityType
<1>7. \A b \in DOMAIN l.blocks : SizeIn(l, b) \in Nat
  BY TiledFacts DEF SizeIn
<1> QED BY <1>1, <1>3, <1>6, <1>7

\* used_mem and mem_chunks with one block more.
LEMMA CountsOneMore ==
  ASSUME NEW l, NEW m, NEW A, IsFiniteSet(A), NEW block, block \notin A,
         \A b \in A : SizeIn(m, b) = SizeIn(l, b) /\ SizeIn(l, b) \in Nat,
         SizeIn(m, block) \in Nat
  PROVE  /\ Bytes(m, A \cup {block}) = Bytes(l, A) + SizeIn(m, block)
         /\ Cardinality(A \cup {block}) = Cardinality(A) + 1
         /\ Bytes(l, A) \in Nat /\ Cardinality(A) \in Nat
<1>1. Bytes(m, A) = Bytes(l, A)
  BY BytesAgree
<1>2. \A b \in A \cup {block} : SizeIn(m, b) \in Nat
  OBVIOUS
<1>3. Bytes(m, A) \in Nat /\ Bytes(m, A \cup {block}) = SizeIn(m, block) + Bytes(m, A)
  BY <1>2, BytesOfOneMore
<1>4. Cardinality(A \cup {block}) = Cardinality(A) + 1 /\ Cardinality(A) \in Nat
  BY FS_AddElement, FS_CardinalityType
<1> QED BY <1>1, <1>3, <1>4

\* The walk along next then finds what ListWellFormed says of it.
LEMMA ListInvHolds ==
  ASSUME NEW l, ListInv(l)
  PROVE  ListWellFormed(l)
<1>a. PICK nodes : nodes = FreeNodes(l.blocks)
  OBVIOUS
<1>b. PICK blocks : blocks = l.blocks
  OBVIOUS
<1>c. PICK F : F = FreeBlocks(l)
  OBVIOUS
<1>1. Tiled(blocks) /\ Linked(blocks, F) /\ Counted(l)
  BY <1>b, <1>c DEF ListInv
<1>2. Way(blocks, F, START, nodes)
  BY <1>1, <1>a, <1>b, FreeNodesFacts
<1>3. HeapBlocks(l) = Places(blocks) /\ AllocatedBlocks(l) = DOMAIN blocks \ F
  BY <1>1, <1>b, <1>c, AllocatedFacts DEF HeapBlocks, Places
<1>4. ASSUME NEW b \in HeapBlocks(l) \ {EndAddress}
      PROVE  /\ b + blocks[b].block_size \in HeapBlocks(l)
             /\ \A c \in HeapBlocks(l) : c <= b \/ c >= b + blocks[b].block_size
  BY <1>1, <1>3 DEF Tiled
<1>5. Range(nodes) = DOMAIN blocks \ AllocatedBlocks(l)
  <2>1. F \subseteq DOMAIN blocks /\ DOMAIN blocks \ AllocatedBlocks(l) = F
    BY <1>1, <1>3 DEF Linked
  <2>2. DOMAIN nodes = 1 .. Len(nodes) /\ \A i \in 1 .. Len(nodes) : nodes[i] \in F
    BY <1>2 DEF Way
  <2>3. \A c \in F : c >= START
    BY <1>1, <2>1, TiledFacts, HeapConstants
  <2>4. \A c \in F : \E i \in 1 .. Len(nodes) : nodes[i] = c
    BY <1>2, <2>3 DEF Way
  <2>5. Range(nodes) = F
    BY <2>2, <2>4 DEF Range
  <2> QED BY <2>1, <2>5
<1>6. ASSUME NEW i \in 1 .. Len(nodes) - 1
      PROVE  /\ nodes[i] < nodes[i + 1]
             /\ nodes[i] + blocks[nodes[i]].block_size = nodes[i + 1] => nodes[i + 1] = EndAddress
  <2>1. Len(nodes) \in Nat /\ nodes[i] \in F
    BY <1>2 DEF Way
  <2>2. nodes[i] # EndAddress /\ nodes[i + 1] = blocks[nodes[i]].next
    BY <1>2 DEF Way
  <2> QED BY <1>1, <2>1, <2>2 DEF Linked
<1> QED BY <1>1, <1>4, <1>5, <1>6, <1>a, <1>b DEF ListWellFormed, Counted

\* Rounding up to the alignment.
LEMMA AlignFacts ==
  /\ FirstAddress % BYTE_ALIGNMENT = 0 /\ EndAddress % BYTE_ALIGNMENT = 0
  /\ \A n \in Nat : /\ ListBytes(n) \in Nat /\ ListBytes(n) >= n + struct_size
                    /\ ListBytes(n) % BYTE_ALIGNMENT = 0
  /\ \A a, b \in Int : a % BYTE_ALIGNMENT = 0 /\ b % BYTE_ALIGNMENT = 0 =>
                         (a + b) % BYTE_ALIGNMENT = 0
<1>1. HeapStart \in Nat /\ HeapSize \in Nat
  BY FreeListAssumption
<1>2. \A n \in Nat : /\ AlignUp(n) \in Nat /\ AlignUp(n) >= n /\ AlignUp(n) % 8 = 0
  BY DEF AlignUp, BYTE_ALIGNMENT
<1>3. EndAddress % 8 = 0
  BY <1>1 DEF EndAddress, BYTE_ALIGNMENT, struct_size
<1>4. \A a, b \in Int : a % 8 = 0 /\ b % 8 = 0 => (a + b) % 8 = 0
  OBVIOUS
<1> QED BY <1>1, <1>2, <1>3, <1>4 DEF FirstAddress, ListBytes, struct_size, BYTE_ALIGNMENT

\* mm_init leaves one free block.
LEMMA InitEstablishesListInv == ListInv(ListInit) /\ AllocatedBlocks(ListInit) = {}
<1>a. PICK blocks : blocks = ListInit.blocks
  OBVIOUS
<1>b. PICK last : last = EndAddress
  OBVIOUS
<1>c. PICK first : first = FirstAddress
  OBVIOUS
<1>1. /\ first \in Nat /\ last \in Nat /\ first + 32 < last /\ START = -1 /\ NONE = -2
      /\ total_mem \in Nat /\ first + total_mem = last
  BY <1>b, <1>c, HeapConstants DEF total_mem
<1>2. /\ DOMAIN blocks = {START, first, last}
      /\ blocks = [b \in DOMAIN blocks |-> blocks[b]]
      /\ blocks[START] = Header(first, 0, FALSE) /\ blocks[first] = Header(last, total_mem, FALSE)
      /\ blocks[last] = Header(NONE, 0, FALSE)
  BY <1>1, <1>a, <1>b, <1>c DEF ListInit, Header
<1>3. /\ blocks[START].next = first /\ blocks[first].next = last /\ blocks[last].next = NONE
      /\ blocks[START].block_size = 0 /\ blocks[first].block_size = total_mem
      /\ blocks[last].block_size = 0
      /\ ~blocks[START].allocated /\ ~blocks[first].allocated /\ ~blocks[last].allocated
      /\ {blocks[START], blocks[first], blocks[last]} \subseteq Headers
  BY <1>1, <1>2 DEF Header, Headers
<1>4. blocks \in [DOMAIN blocks -> Headers]
  BY <1>2, <1>3
<1>5. Places(blocks) = {first, last}
  BY <1>1, <1>2 DEF Places
<1>6. Tiled(blocks)
  <2>1. {START, EndAddress} \subseteq DOMAIN blocks /\ Places(blocks) \subseteq FirstAddress .. EndAddress
    BY <1>1, <1>2, <1>5, <1>b, <1>c
  <2>2. blocks[START].block_size = 0 /\ blocks[EndAddress].block_size = 0
    BY <1>3, <1>b
  <2>3. ASSUME NEW b \in Places(blocks) \ {EndAddress}
        PROVE  /\ blocks[b].block_size > 0 /\ b + blocks[b].block_size \in Places(blocks)
               /\ \A c \in Places(blocks) : c <= b \/ c >= b + blocks[b].block_size
    <3>1. b = first /\ blocks[b].block_size = total_mem
      BY <1>3, <1>5, <1>b
    <3> QED BY <1>1, <1>5, <3>1
  <2> QED BY <1>4, <2>1, <2>2, <2>3 DEF Tiled
<1>7. Linked(blocks, DOMAIN blocks)
  <2>a. PICK D : D = DOMAIN blocks
    OBVIOUS
  <2>1. D = {START, first, last} /\ EndAddress \in D /\ blocks[EndAddress].next = NONE
    BY <1>2, <1>3, <1>b, <2>a
  <2>2. ASSUME NEW b \in D \ {EndAddress}
        PROVE  /\ blocks[b].next \in D /\ b < blocks[b].next
               /\ \A c \in D : c <= b \/ c >= blocks[b].next
               /\ b + blocks[b].block_size = blocks[b].next => blocks[b].next = EndAddress
    <3>1. CASE b = START
      BY <1>1, <1>3, <1>b, <2>1, <3>1
    <3>2. CASE b = first
      BY <1>1, <1>3, <1>b, <2>1, <3>2
    <3> QED BY <1>b, <2>1, <3>1, <3>2
  <2> QED BY <2>1, <2>2, <2>a DEF Linked
<1>8. Aligned(blocks)
  BY <1>5, <1>b, <1>c, AlignFacts DEF Aligned
<1>9. FreeBlocks(ListInit) = DOMAIN blocks /\ AllocatedBlocks(ListInit) = {}
  BY <1>2, <1>3, <1>a DEF FreeBlocks, AllocatedBlocks, HeapBlocks
<1>10. Counted(ListInit)
  <2>1. ListInit.used_mem = 0 /\ ListInit.mem_chunks = 0
    BY DEF ListInit
  <2> QED BY <1>9, <2>1, BytesOfNone, FS_EmptySet DEF Counted
<1> QED BY <1>6, <1>7, <1>8, <1>9, <1>10, <1>a DEF ListInv

\* mm_free of a block that somebody has.
LEMMA FreeKeepsListInv ==
  ASSUME NEW l, ListInv(l), NEW block \in AllocatedBlocks(l),
         NEW m, m = ListFree(l, ListPointer(block))
  PROVE  /\ ListInv(m) /\ AllocatedBlocks(m) = AllocatedBlocks(l) \ {block}
         /\ \A b \in AllocatedBlocks(m) : m.blocks[b] = l.blocks[b]
<1>a. PICK F : F = FreeBlocks(l)
  OBVIOUS
<1>b. PICK new : new = m.blocks
  OBVIOUS
<1>c. PICK A : A = AllocatedBlocks(l)
  OBVIOUS
<1>d. PICK B : B = A \ {block}
  OBVIOUS
<1>1. /\ Tiled(l.blocks) /\ Aligned(l.blocks) /\ Linked(l.blocks, F)
      /\ l.used_mem = Bytes(l, A) /\ l.mem_chunks = Cardinality(A)
      /\ \A b \in F : ~l.blocks[b].allocated
  BY <1>a, <1>c DEF ListInv, Counted, FreeBlocks
<1>2. /\ A = DOMAIN l.blocks \ F /\ IsFiniteSet(A) /\ block \in Places(l.blocks) \ F
      /\ \A b \in DOMAIN l.blocks : SizeIn(l, b) \in Nat
  BY <1>1, <1>a, <1>c, AllocatedFacts
<1>3. /\ new = InsertBlock(l.blocks, block)
      /\ m.used_mem = l.used_mem - SizeIn(l, block) /\ m.mem_chunks = l.mem_chunks - 1
  <2>1. block \in Int
    BY <1>1, <1>2, EndsFacts
  <2>2. ListPointer(block) - struct_size = block
    BY <2>1 DEF ListPointer, struct_size
  <2> QED BY <1>b, <2>2 DEF ListFree, SizeIn
<1>4. PICK G : /\ Linked(new, G) /\ \A b \in G : ~new[b].allocated
               /\ DOMAIN new \ G = (DOMAIN l.blocks \ F) \ {block}
               /\ \A b \in DOMAIN new \ G : new[b] = l.blocks[b]
  BY <1>1, <1>2, <1>3, InsertBlockKeeps
<1>5. Tiled(new) /\ DOMAIN new \subseteq DOMAIN l.blocks
  BY <1>1, <1>2, <1>3, InsertBlockKeeps
<1>6. \A b \in A : l.blocks[b].allocated
  BY <1>c DEF AllocatedBlocks
<1>7. FreeBlocks(m) = G /\ AllocatedBlocks(m) = B
  <2>1. DOMAIN new \ G = B
    BY <1>2, <1>4, <1>d
  <2>2. \A b \in DOMAIN new \ G : new[b].allocated
    BY <1>4, <1>6, <1>d, <2>1
  <2>3. /\ Tiled(m.blocks) /\ Linked(m.blocks, G)
        /\ \A b \in G : ~m.blocks[b].allocated
        /\ \A b \in DOMAIN m.blocks \ G : m.blocks[b].allocated
    BY <1>4, <1>5, <1>b, <2>2
  <2>4. FreeBlocks(m) = G /\ AllocatedBlocks(m) = DOMAIN m.blocks \ G
    BY <2>3, Partition
  <2> QED BY <1>b, <2>1, <2>4
<1>8. Aligned(new)
  BY <1>1, <1>5 DEF Aligned, Places
<1>9. Counted(m)
  <2>1. IsFiniteSet(B) /\ block \notin B /\ A = B \cup {block}
    BY <1>2, <1>c, <1>d, FS_Subset
  <2>2. \A b \in B : SizeIn(l, b) = SizeIn(m, b) /\ SizeIn(l, b) \in Nat /\ SizeIn(m, b) \in Nat
    BY <1>2, <1>4, <1>b, <1>d DEF SizeIn
  <2>3. SizeIn(l, block) \in Nat
    BY <1>2 DEF Places
  <2>4. /\ Bytes(l, A) = Bytes(m, B) + SizeIn(l, block) /\ Cardinality(A) = Cardinality(B) + 1
        /\ Bytes(m, B) \in Nat /\ Cardinality(B) \in Nat
    BY <2>1, <2>2, <2>3, CountsOneMore
  <2>a. PICK n : n = Bytes(m, B)
    OBVIOUS
  <2>b. PICK k : k = Cardinality(B)
    OBVIOUS
  <2>c. PICK s : s = SizeIn(l, block)
    OBVIOUS
  <2>5. n \in Nat /\ k \in Nat /\ s \in Nat /\ l.used_mem = n + s /\ l.mem_chunks = k + 1
    BY <1>1, <2>3, <2>4, <2>a, <2>b, <2>c
  <2>6. m.used_mem = n /\ m.mem_chunks = k
    BY <1>3, <2>5, <2>c
  <2> QED BY <1>7, <2>6, <2>a, <2>b DEF Counted
<1>10. \A b \in AllocatedBlocks(m) : m.blocks[b] = l.blocks[b]
  BY <1>2, <1>4, <1>7, <1>b, <1>d
<1> QED BY <1>4, <1>5, <1>7, <1>8, <1>9, <1>10, <1>b, <1>c, <1>d DEF ListInv

\* mm_alloc takes the block it has found.
Taking(l, F, ptr, size, block, previous) ==
  /\ ListInv(l) /\ F = FreeBlocks(l) /\ size \in Nat
  /\ block \in F \ {START, EndAddress} /\ previous \in F
  /\ l.blocks[previous].next = block /\ l.blocks[block].block_size >= ListBytes(size)
  /\ ptr = ListPointer(block)

LEMMA FitFacts ==
  ASSUME NEW l, ListInv(l), NEW size \in Nat, NEW ptr \in ListFits(l, size)
  PROVE  \E block, previous : Taking(l, FreeBlocks(l), ptr, size, block, previous)
<1>a. PICK blocks : blocks = l.blocks
  OBVIOUS
<1>b. PICK F : F = FreeBlocks(l)
  OBVIOUS
<1>c. PICK n : n = ListBytes(size)
  OBVIOUS
<1>d. PICK nodes : nodes = FreeNodes(blocks)
  OBVIOUS
<1>e. PICK first : first = FirstFit(blocks, nodes, n)
  OBVIOUS
<1>1. Tiled(blocks) /\ Linked(blocks, F) /\ n \in Nat /\ n > 0
  BY <1>a, <1>b, <1>c, AlignFacts DEF ListInv, struct_size
<1>2. first # 0 /\ ptr = ListPointer(nodes[first])
  BY <1>a, <1>c, <1>d, <1>e DEF ListFits, FirstFit
<1>3. /\ nodes[first] \in F \ {START, EndAddress} /\ blocks[nodes[first]].block_size >= n
      /\ \E previous \in F : blocks[previous].next = nodes[first]
  BY <1>1, <1>2, <1>d, <1>e, FitPlace
<1> QED BY <1>2, <1>3, <1>a, <1>b, <1>c DEF Taking

\* What it leaves.
TakenTo(l, m, block, previous, bytes) ==
  LET rest == l.blocks[block].block_size - bytes
      split == rest > 2 * struct_size
      taken == IF split THEN bytes ELSE l.blocks[block].block_size
      unlinked == Unlinked(l.blocks, previous, block, taken)
  IN  /\ m.blocks = IF split
                    THEN InsertBlock(With(unlinked, block + bytes, HeaderOfRest(rest)), block + bytes)
                    ELSE unlinked
      /\ m.used_mem = l.used_mem + taken
      /\ m.mem_chunks = l.mem_chunks + 1

TakeFrom(l, block, previous, bytes) ==
  LET rest == l.blocks[block].block_size - bytes
      split == rest > 2 * struct_size
      taken == IF split THEN bytes ELSE l.blocks[block].block_size
      unlinked == Unlinked(l.blocks, previous, block, taken)
  IN  [blocks     |-> IF split
                      THEN InsertBlock(With(unlinked, block + bytes, HeaderOfRest(rest)), block + bytes)
                      ELSE unlinked,
       used_mem   |-> l.used_mem + taken,
       mem_chunks |-> l.mem_chunks + 1]

LEMMA TakeFacts ==
  ASSUME NEW l, NEW F, NEW ptr, NEW size, NEW block, NEW from, Taking(l, F, ptr, size, block, from),
         NEW m, m = ListTake(l, ptr, size)
  PROVE  \E previous \in F : /\ l.blocks[previous].next = block
                             /\ TakenTo(l, m, block, previous, ListBytes(size))
<1>a. PICK b0 : b0 = CHOOSE b \in DOMAIN l.blocks : ListPointer(b) = ptr
  OBVIOUS
<1>b. PICK previous : previous = CHOOSE b \in DOMAIN l.blocks :
                          /\ ~l.blocks[b].allocated
                          /\ l.blocks[b].next = (CHOOSE c \in DOMAIN l.blocks : ListPointer(c) = ptr)
  OBVIOUS
<1>1. /\ Tiled(l.blocks) /\ Linked(l.blocks, F) /\ F = FreeBlocks(l) /\ block \in F /\ from \in F
      /\ l.blocks[from].next = block /\ ptr = ListPointer(block)
  BY DEF Taking, ListInv
<1>2. b0 = block
  <2>1. block \in DOMAIN l.blocks /\ ListPointer(block) = ptr
    BY <1>1 DEF Linked
  <2>2. b0 \in DOMAIN l.blocks /\ ListPointer(b0) = ptr
    BY <1>a, <2>1
  <2>3. b0 \in Int /\ block \in Int
    BY <1>1, <2>1, <2>2, TiledFacts
  <2> QED BY <2>1, <2>2, <2>3 DEF ListPointer, struct_size
<1>3. previous \in F /\ l.blocks[previous].next = block
  <2>1. from \in DOMAIN l.blocks /\ ~l.blocks[from].allocated /\ l.blocks[from].next = b0
    BY <1>1, <1>2 DEF FreeBlocks
  <2>2. /\ previous \in DOMAIN l.blocks /\ ~l.blocks[previous].allocated
        /\ l.blocks[previous].next = b0
    BY <1>a, <1>b, <2>1
  <2> QED BY <1>1, <1>2, <2>2 DEF FreeBlocks
<1>4. TakenTo(l, m, block, previous, ListBytes(size))
  <2>1. m = TakeFrom(l, block, previous, ListBytes(size))
    <3>1. m = TakeFrom(l, CHOOSE b \in DOMAIN l.blocks : ListPointer(b) = ptr,
                       CHOOSE b \in DOMAIN l.blocks :
                          /\ ~l.blocks[b].allocated
                          /\ l.blocks[b].next = (CHOOSE c \in DOMAIN l.blocks : ListPointer(c) = ptr),
                       ListBytes(size))
      BY DEF ListTake, TakeFrom, Unlinked, HeaderTaken, HeaderOfRest
    <3> QED BY <1>a, <1>b, <1>2, <3>1
  <2> QED BY <2>1 DEF TakenTo, TakeFrom
<1> QED BY <1>3, <1>4

\* A block that was free is somebody's, and the rest of the heap is as it was.
Handed(l, m, block, taken, G) ==
  /\ Tiled(m.blocks) /\ Aligned(m.blocks) /\ Linked(m.blocks, G)
  /\ \A b \in G : ~m.blocks[b].allocated
  /\ DOMAIN m.blocks \ G = AllocatedBlocks(l) \cup {block}
  /\ \A b \in AllocatedBlocks(l) : m.blocks[b] = l.blocks[b]
  /\ m.blocks[block].block_size = taken /\ m.blocks[block].allocated
  /\ m.used_mem = l.used_mem + taken /\ m.mem_chunks = l.mem_chunks + 1

\* The invariant with one more block handed out.
LEMMA HandedKeepsListInv ==
  ASSUME NEW l, ListInv(l), NEW block, block \notin AllocatedBlocks(l),
         NEW taken \in Nat, NEW m, NEW G, Handed(l, m, block, taken, G)
  PROVE  ListInv(m) /\ AllocatedBlocks(m) = AllocatedBlocks(l) \cup {block}
<1>a. PICK A : A = AllocatedBlocks(l)
  OBVIOUS
<1>b. PICK B : B = A \cup {block}
  OBVIOUS
<1>1. /\ Tiled(l.blocks) /\ Linked(l.blocks, FreeBlocks(l))
      /\ l.used_mem = Bytes(l, A) /\ l.mem_chunks = Cardinality(A)
  BY <1>a DEF ListInv, Counted
<1>2. /\ IsFiniteSet(A) /\ A \subseteq DOMAIN l.blocks /\ \A b \in A : l.blocks[b].allocated
      /\ \A b \in DOMAIN l.blocks : SizeIn(l, b) \in Nat
  BY <1>1, <1>a, AllocatedFacts DEF AllocatedBlocks
<1>3. /\ Tiled(m.blocks) /\ Aligned(m.blocks) /\ Linked(m.blocks, G)
      /\ \A b \in G : ~m.blocks[b].allocated
      /\ DOMAIN m.blocks \ G = B
      /\ \A b \in A : m.blocks[b] = l.blocks[b]
      /\ m.blocks[block].block_size = taken /\ m.blocks[block].allocated
      /\ m.used_mem = l.used_mem + taken /\ m.mem_chunks = l.mem_chunks + 1
  BY <1>a, <1>b DEF Handed
<1>4. FreeBlocks(m) = G /\ AllocatedBlocks(m) = B
  <2>1. \A b \in DOMAIN m.blocks \ G : m.blocks[b].allocated
    BY <1>2, <1>3, <1>b
  <2>2. FreeBlocks(m) = G /\ AllocatedBlocks(m) = DOMAIN m.blocks \ G
    BY <1>3, <2>1, Partition
  <2> QED BY <1>3, <2>2
<1>5. Counted(m)
  <2>1. \A b \in A : SizeIn(m, b) = SizeIn(l, b) /\ SizeIn(l, b) \in Nat
    BY <1>2, <1>3 DEF SizeIn
  <2>2. SizeIn(m, block) = taken /\ block \notin A
    BY <1>3, <1>a DEF SizeIn
  <2>3. /\ Bytes(m, B) = Bytes(l, A) + SizeIn(m, block) /\ Cardinality(B) = Cardinality(A) + 1
    BY <1>2, <1>b, <2>1, <2>2, CountsOneMore
  <2> QED BY <1>1, <1>3, <1>4, <2>2, <2>3 DEF Counted
<1> QED BY <1>3, <1>4, <1>5, <1>a, <1>b DEF ListInv

LEMMA TakeKeepsListInv ==
  ASSUME NEW l, ListInv(l), NEW size \in Nat, NEW ptr \in ListFits(l, size),
         NEW m, m = ListTake(l, ptr, size)
  PROVE  \E block \in FreeBlocks(l) \ {START, EndAddress} :
           /\ ptr = ListPointer(block)
           /\ ListInv(m) /\ AllocatedBlocks(m) = AllocatedBlocks(l) \cup {block}
           /\ \A b \in AllocatedBlocks(l) : m.blocks[b] = l.blocks[b]
           /\ m.blocks[block].block_size >= ListBytes(size)
<1>a. PICK blocks : blocks = l.blocks
  OBVIOUS
<1>b. PICK F : F = FreeBlocks(l)
  OBVIOUS
<1>c. PICK bytes : bytes = ListBytes(size)
  OBVIOUS
<1>d. PICK A : A = AllocatedBlocks(l)
  OBVIOUS
<1>1. PICK block, from : Taking(l, F, ptr, size, block, from)
  BY <1>b, FitFacts
<1>2. PICK previous \in F : blocks[previous].next = block /\ TakenTo(l, m, block, previous, bytes)
  BY <1>1, <1>a, <1>c, TakeFacts
<1>3. /\ Tiled(blocks) /\ Linked(blocks, F) /\ Aligned(blocks) /\ \A b \in F : ~blocks[b].allocated
      /\ block \in F \ {START, EndAddress} /\ blocks[block].block_size >= bytes
      /\ ptr = ListPointer(block)
  BY <1>1, <1>a, <1>b, <1>c DEF Taking, ListInv, FreeBlocks
<1>4. bytes \in Nat /\ bytes >= 16 /\ bytes % BYTE_ALIGNMENT = 0
  BY <1>c, AlignFacts DEF struct_size
<1>5. /\ blocks[block].block_size \in Nat /\ block \in Int /\ F \subseteq DOMAIN blocks
      /\ A = DOMAIN blocks \ F /\ block \in Places(blocks) /\ block \notin A /\ previous \notin A
      /\ block \in DOMAIN blocks /\ previous \in DOMAIN blocks
  <2>1. F \subseteq DOMAIN blocks /\ A = DOMAIN blocks \ F
    <3>1. Tiled(l.blocks) /\ Linked(l.blocks, FreeBlocks(l))
      BY <1>3, <1>a, <1>b
    <3>2. AllocatedBlocks(l) = DOMAIN l.blocks \ FreeBlocks(l)
      BY <3>1, AllocatedFacts
    <3> QED BY <1>3, <1>a, <1>b, <1>d, <3>2 DEF Linked
  <2>2. block \in DOMAIN blocks /\ previous \in DOMAIN blocks
    BY <1>2, <1>3, <2>1
  <2> QED BY <1>2, <1>3, <2>1, <2>2, TiledFacts DEF Places
<1>e. PICK rest : rest = blocks[block].block_size - bytes
  OBVIOUS
<1>6. rest \in Nat /\ blocks[block].block_size = bytes + rest /\ 2 * struct_size = 32
  BY <1>3, <1>4, <1>5, <1>e DEF struct_size
<1>7. m.mem_chunks = l.mem_chunks + 1
  BY <1>2 DEF TakenTo
<1>8. \E taken, G : taken \in Nat /\ taken >= bytes /\ Handed(l, m, block, taken, G)
  <2>1. CASE rest > 32
    <3>a. PICK cut : cut = With(Unlinked(blocks, previous, block, bytes), block + bytes, HeaderOfRest(rest))
      OBVIOUS
    <3>b. PICK r : r = block + bytes
      OBVIOUS
    <3>c. PICK D : D = F \ {block}
      OBVIOUS
    <3>1. m.blocks = InsertBlock(cut, r) /\ m.used_mem = l.used_mem + bytes
      BY <1>2, <1>6, <1>a, <1>e, <2>1, <3>a, <3>b DEF TakenTo
    <3>2. SplitTo(blocks, F, previous, block, bytes, cut)
      <4>1. Splitting(blocks, F, previous, block, bytes, rest, cut)
        BY <1>2, <1>3, <1>4, <1>6, <2>1, <3>a DEF Splitting
      <4> QED BY <4>1, SplitKeepsTiles
    <3>3. /\ Tiled(cut) /\ Linked(cut, D) /\ r \in Places(cut) \ F
          /\ r \notin DOMAIN blocks /\ DOMAIN cut = DOMAIN blocks \cup {r}
          /\ cut[block] = HeaderTaken(bytes)
          /\ cut[previous] = Relinked(blocks[previous], blocks[block].next)
          /\ \A b \in DOMAIN blocks \ {block, previous} : cut[b] = blocks[b]
      BY <3>2, <3>b, <3>c DEF SplitTo
    <3>4. \A b \in D : ~cut[b].allocated
      <4>1. cut[previous].allocated = blocks[previous].allocated
        BY <3>3 DEF Relinked, Header
      <4>2. ~cut[previous].allocated
        BY <1>2, <1>3, <4>1
      <4> QED BY <1>3, <1>5, <3>3, <3>c, <4>2
    <3>5. /\ Tiled(m.blocks) /\ DOMAIN m.blocks \subseteq DOMAIN cut
          /\ \E G : /\ Linked(m.blocks, G) /\ \A b \in G : ~m.blocks[b].allocated
                    /\ DOMAIN m.blocks \ G = (DOMAIN cut \ D) \ {r}
                    /\ \A b \in DOMAIN m.blocks \ G : m.blocks[b] = cut[b]
      <4>1. r \in Places(cut) \ D
        BY <3>3, <3>c
      <4> QED BY <3>1, <3>3, <3>4, <4>1, InsertBlockKeeps
    <3>6. PICK G : /\ Linked(m.blocks, G) /\ \A b \in G : ~m.blocks[b].allocated
                   /\ DOMAIN m.blocks \ G = (DOMAIN cut \ D) \ {r}
                   /\ \A b \in DOMAIN m.blocks \ G : m.blocks[b] = cut[b]
      BY <3>5
    <3>7. DOMAIN m.blocks \ G = A \cup {block}
      BY <1>3, <1>5, <3>3, <3>6, <3>c
    <3>8. m.blocks[block].block_size = bytes /\ m.blocks[block].allocated
      <4>1. m.blocks[block] = HeaderTaken(bytes)
        BY <3>3, <3>6, <3>7
      <4> QED BY <4>1 DEF HeaderTaken, Header
    <3>9. \A b \in A : m.blocks[b] = blocks[b]
      BY <1>5, <3>3, <3>6, <3>7
    <3>10. Aligned(m.blocks)
      <4>1. r % BYTE_ALIGNMENT = 0
        BY <1>3, <1>4, <1>5, <3>b, AlignFacts DEF Aligned
      <4>2. \A b \in Places(m.blocks) : b \in Places(blocks) \/ b = r
        BY <3>3, <3>5 DEF Places
      <4> QED BY <1>3, <4>1, <4>2 DEF Aligned
    <3>11. Handed(l, m, block, bytes, G)
      BY <1>7, <3>1, <3>5, <3>6, <3>7, <3>8, <3>9, <3>10, <1>a, <1>d DEF Handed
    <3> QED BY <1>4, <3>11
  <2>2. CASE ~(rest > 32)
    <3>a. PICK taken : taken = blocks[block].block_size
      OBVIOUS
    <3>b. PICK G : G = F \ {block}
      OBVIOUS
    <3>1. m.blocks = Unlinked(blocks, previous, block, taken) /\ m.used_mem = l.used_mem + taken
      BY <1>2, <1>6, <1>a, <1>e, <2>2, <3>a DEF TakenTo
    <3>2. Unlinking(blocks, F, previous, block, taken, m.blocks) /\ taken \in Nat /\ taken >= bytes
      BY <1>2, <1>3, <1>5, <3>1, <3>a DEF Unlinking
    <3>3. UnlinkedTo(blocks, F, previous, block, taken, m.blocks)
      BY <3>2, UnlinkedFacts
    <3>4. /\ DOMAIN m.blocks = DOMAIN blocks /\ Linked(m.blocks, G)
          /\ m.blocks[block] = HeaderTaken(taken)
          /\ m.blocks[previous] = Relinked(blocks[previous], blocks[block].next)
          /\ \A b \in DOMAIN blocks \ {block, previous} : m.blocks[b] = blocks[b]
      BY <3>3, <3>b DEF UnlinkedTo
    <3>5. Tiled(m.blocks)
      <4>1. Unlinking(blocks, F, previous, block, blocks[block].block_size, m.blocks)
        BY <3>2, <3>a
      <4> QED BY <4>1, WholeKeepsTiles
    <3>6. \A b \in G : ~m.blocks[b].allocated
      <4>1. m.blocks[previous].allocated = blocks[previous].allocated
        BY <3>4 DEF Relinked, Header
      <4>2. ~m.blocks[previous].allocated
        BY <1>2, <1>3, <4>1
      <4> QED BY <1>3, <1>5, <3>4, <3>b, <4>2
    <3>7. DOMAIN m.blocks \ G = A \cup {block}
      BY <1>3, <1>5, <3>4, <3>b
    <3>8. m.blocks[block].block_size = taken /\ m.blocks[block].allocated
      BY <3>4 DEF HeaderTaken, Header
    <3>9. \A b \in A : m.blocks[b] = blocks[b]
      BY <1>5, <3>4
    <3>10. Aligned(m.blocks)
      BY <1>3, <3>4 DEF Aligned, Places
    <3>11. Handed(l, m, block, taken, G)
      BY <1>7, <3>1, <3>4, <3>5, <3>6, <3>7, <3>8, <3>9, <3>10, <1>a, <1>d DEF Handed
    <3> QED BY <3>2, <3>11
  <2> QED BY <2>1, <2>2
<1>9. PICK taken, G : taken \in Nat /\ taken >= bytes /\ Handed(l, m, block, taken, G)
  BY <1>8
<1>10. ListInv(m) /\ AllocatedBlocks(m) = AllocatedBlocks(l) \cup {block}
  BY <1>5, <1>9, <1>d, HandedKeepsListInv
<1>11. /\ \A b \in AllocatedBlocks(l) : m.blocks[b] = l.blocks[b]
       /\ m.blocks[block].block_size >= ListBytes(size)
  BY <1>9, <1>c DEF Handed
<1> QED BY <1>3, <1>10, <1>11, <1>b

----------------------------------------------------------------------------
(* The free list and its clients *)

\* Who has asked for what, and got it.
Clients(a, l) ==
  /\ DOMAIN a = {ListPointer(b) : b \in AllocatedBlocks(l)}
  /\ \A b \in AllocatedBlocks(l) : /\ a[ListPointer(b)] \in Requests
                                   /\ ListBytes(a[ListPointer(b)]) <= l.blocks[b].block_size

\* No two clients have a byte in common.
Apart(a) ==
  /\ \A ptr \in DOMAIN a : /\ ptr \in FirstAddress .. EndAddress - 1 /\ ptr % BYTE_ALIGNMENT = 0
                           /\ ptr .. ptr + a[ptr] - 1 \subseteq FirstAddress .. EndAddress - 1
  /\ \A p, q \in DOMAIN a : p # q => (p .. p + a[p] - 1) \cap (q .. q + a[q] - 1) = {}

\* As their blocks tile the heap.
LEMMA ClientsAreApart ==
  ASSUME NEW l, ListInv(l), NEW a, Clients(a, l)
  PROVE  Apart(a)
<1>a. PICK A : A = AllocatedBlocks(l)
  OBVIOUS
<1>b. PICK blocks : blocks = l.blocks
  OBVIOUS
<1>1. Tiled(blocks) /\ Linked(blocks, FreeBlocks(l)) /\ Aligned(blocks)
  BY <1>b DEF ListInv
<1>2. \A b \in A : b \in Places(blocks) \ {EndAddress} /\ b \in Int
  BY <1>1, <1>a, <1>b, AllocatedFacts, EndsFacts
<1>3. ASSUME NEW b \in A
      PROVE  /\ a[b + 16] \in Nat \ {0} /\ b + 16 + a[b + 16] <= Ends(blocks, b)
             /\ b >= FirstAddress /\ Ends(blocks, b) <= EndAddress /\ Ends(blocks, b) \in Int
             /\ (b + 16) % BYTE_ALIGNMENT = 0
  <2>a. PICK size : size = a[b + 16]
    OBVIOUS
  <2>b. PICK bytes : bytes = ListBytes(size)
    OBVIOUS
  <2>1. size \in Requests /\ bytes <= blocks[b].block_size
    BY <1>a, <1>b, <2>a, <2>b DEF Clients, ListPointer, struct_size
  <2>2. size \in Nat \ {0}
    BY <2>1, MemoryAssumption
  <2>3. bytes \in Nat /\ bytes >= size + 16
    BY <2>2, <2>b, AlignFacts DEF struct_size
  <2>4. Ends(blocks, b) \in Places(blocks) /\ b \in Places(blocks)
    BY <1>1, <1>2, EndsFacts
  <2>5. /\ b >= FirstAddress /\ Ends(blocks, b) <= EndAddress /\ Ends(blocks, b) \in Int
    BY <1>1, <2>4, HeapConstants DEF Tiled
  <2>6. b + 16 + size <= Ends(blocks, b)
    <3>1. b \in DOMAIN blocks
      BY <2>4 DEF Places
    <3>2. blocks[b].block_size \in Nat
      BY <1>1, <3>1, TiledFacts
    <3> QED BY <1>2, <2>1, <2>2, <2>3, <3>2 DEF Ends
  <2>7. (b + 16) % BYTE_ALIGNMENT = 0
    <3>1. b % 8 = 0 /\ b \in Int
      BY <1>1, <1>2, <2>4 DEF Aligned, BYTE_ALIGNMENT
    <3> QED BY <3>1 DEF BYTE_ALIGNMENT
  <2> QED BY <2>2, <2>5, <2>6, <2>7, <2>a
<1>4. \A ptr \in DOMAIN a : \E b \in A : ptr = b + 16
  BY <1>a DEF Clients, ListPointer, struct_size
<1>5. ASSUME NEW ptr \in DOMAIN a
      PROVE  /\ ptr \in FirstAddress .. EndAddress - 1 /\ ptr % BYTE_ALIGNMENT = 0
             /\ ptr .. ptr + a[ptr] - 1 \subseteq FirstAddress .. EndAddress - 1
  <2>1. PICK b \in A : ptr = b + 16
    BY <1>4
  <2>a. PICK size : size = a[ptr]
    OBVIOUS
  <2>2. /\ size \in Nat \ {0} /\ ptr + size <= EndAddress /\ ptr >= FirstAddress /\ ptr \in Int
        /\ FirstAddress \in Int /\ EndAddress \in Int
    BY <1>2, <1>3, <2>1, <2>a, HeapConstants
  <2>3. ptr .. ptr + size - 1 \subseteq FirstAddress .. EndAddress - 1
    BY <2>2
  <2> QED BY <1>3, <2>1, <2>2, <2>3, <2>a
<1>6. ASSUME NEW p \in DOMAIN a, NEW q \in DOMAIN a, p # q
      PROVE  (p .. p + a[p] - 1) \cap (q .. q + a[q] - 1) = {}
  <2>1. PICK b \in A : p = b + 16
    BY <1>4
  <2>2. PICK c \in A : q = c + 16
    BY <1>4
  <2>a. PICK n : n = a[p]
    OBVIOUS
  <2>b. PICK k : k = a[q]
    OBVIOUS
  <2>3. /\ n \in Nat /\ k \in Nat /\ p + n <= Ends(blocks, b) /\ q + k <= Ends(blocks, c)
        /\ Ends(blocks, b) \in Int /\ Ends(blocks, c) \in Int /\ p \in Int /\ q \in Int
    BY <1>2, <1>3, <2>1, <2>2, <2>a, <2>b
  <2>4. (c <= b \/ c >= Ends(blocks, b)) /\ (b <= c \/ b >= Ends(blocks, c))
    BY <1>1, <1>2, EndsFacts
  <2>5. p + n <= q \/ q + k <= p
    BY <1>2, <1>6, <2>1, <2>2, <2>3, <2>4
  <2>6. (p .. p + n - 1) \cap (q .. q + k - 1) = {}
    BY <2>3, <2>5
  <2> QED BY <2>6, <2>a, <2>b
<1> QED BY <1>5, <1>6 DEF Apart

\* A new client's pointer is no other's.
LEMMA TakeKeepsClients ==
  ASSUME NEW l, ListInv(l), NEW a, Clients(a, l), NEW size \in Requests,
         NEW ptr \in ListFits(l, size), NEW m, m = ListTake(l, ptr, size)
  PROVE  ListInv(m) /\ Clients(With(a, ptr, size), m) /\ ptr \notin DOMAIN a
<1>a. PICK c : c = With(a, ptr, size)
  OBVIOUS
<1>b. PICK A : A = AllocatedBlocks(l)
  OBVIOUS
<1>1. size \in Nat
  BY MemoryAssumption
<1>2. PICK block \in FreeBlocks(l) \ {START, EndAddress} :
        /\ ptr = ListPointer(block)
        /\ ListInv(m) /\ AllocatedBlocks(m) = A \cup {block}
        /\ \A b \in A : m.blocks[b] = l.blocks[b]
        /\ m.blocks[block].block_size >= ListBytes(size)
  BY <1>1, <1>b, TakeKeepsListInv
<1>3. /\ \A b \in A : b \in Int /\ b # block
      /\ block \in Int
  <2>1. Tiled(l.blocks) /\ Linked(l.blocks, FreeBlocks(l))
    BY DEF ListInv
  <2>2. \A b \in DOMAIN l.blocks : b \in Int
    BY <2>1, TiledFacts
  <2> QED BY <1>2, <1>b, <2>2 DEF FreeBlocks, AllocatedBlocks, HeapBlocks
<1>4. /\ DOMAIN c = DOMAIN a \cup {ptr} /\ c[ptr] = size
      /\ \A p \in DOMAIN a \ {ptr} : c[p] = a[p]
  BY <1>a DEF With
<1>5. /\ DOMAIN a = {ListPointer(b) : b \in A}
      /\ \A b \in A : /\ a[ListPointer(b)] \in Requests
                      /\ ListBytes(a[ListPointer(b)]) <= l.blocks[b].block_size
  BY <1>b DEF Clients
<1>6. \A b \in A : ListPointer(b) # ptr
  BY <1>2, <1>3 DEF ListPointer, struct_size
<1>7. ptr \notin DOMAIN a
  BY <1>5, <1>6
<1>8. DOMAIN c = {ListPointer(b) : b \in A \cup {block}}
  BY <1>2, <1>4, <1>5
<1>9. ASSUME NEW b \in A \cup {block}
      PROVE  c[ListPointer(b)] \in Requests /\ ListBytes(c[ListPointer(b)]) <= m.blocks[b].block_size
  <2>1. CASE b \in A
    <3>1. ListPointer(b) \in DOMAIN a \ {ptr}
      BY <1>5, <1>6, <2>1
    <3>2. c[ListPointer(b)] = a[ListPointer(b)] /\ m.blocks[b] = l.blocks[b]
      BY <1>2, <1>4, <2>1, <3>1
    <3> QED BY <1>5, <2>1, <3>2
  <2>2. CASE b = block
    <3>1. /\ c[ListPointer(b)] = size /\ m.blocks[b].block_size >= ListBytes(size)
          /\ ListBytes(size) \in Nat
      BY <1>1, <1>2, <1>4, <2>2, AlignFacts
    <3>2. m.blocks[block].block_size \in Nat
      <4>1. Tiled(m.blocks) /\ block \in DOMAIN m.blocks
        BY <1>2 DEF ListInv, AllocatedBlocks, HeapBlocks
      <4> QED BY <4>1, TiledFacts
    <3> QED BY <2>2, <3>1, <3>2
  <2> QED BY <2>1, <2>2
<1> QED BY <1>2, <1>7, <1>8, <1>9, <1>a DEF Clients

\* A client that leaves takes its block with it.
LEMMA FreeKeepsClients ==
  ASSUME NEW l, ListInv(l), NEW a, Clients(a, l), NEW old \in DOMAIN a,
         NEW m, m = ListFree(l, old), NEW c, c = Restrict(a, DOMAIN a \ {old})
  PROVE  ListInv(m) /\ Clients(c, m)
<1>b. PICK A : A = AllocatedBlocks(l)
  OBVIOUS
<1>1. PICK block \in A : old = ListPointer(block)
  BY <1>b DEF Clients
<1>2. /\ ListInv(m) /\ AllocatedBlocks(m) = A \ {block}
      /\ \A b \in A \ {block} : m.blocks[b] = l.blocks[b]
  BY <1>1, <1>b, FreeKeepsListInv
<1>3. \A b \in A : b \in Int
  <2>1. Tiled(l.blocks)
    BY DEF ListInv
  <2> QED BY <1>b, <2>1, TiledFacts DEF AllocatedBlocks, HeapBlocks
<1>4. \A b \in A : ListPointer(b) = old <=> b = block
  BY <1>1, <1>3 DEF ListPointer, struct_size
<1>5. DOMAIN c = DOMAIN a \ {old} /\ \A p \in DOMAIN c : c[p] = a[p]
  BY DEF Restrict
<1>6. /\ DOMAIN a = {ListPointer(b) : b \in A}
      /\ \A b \in A : /\ a[ListPointer(b)] \in Requests
                      /\ ListBytes(a[ListPointer(b)]) <= l.blocks[b].block_size
  BY <1>b DEF Clients
<1>7. DOMAIN c = {ListPointer(b) : b \in A \ {block}}
  BY <1>4, <1>5, <1>6
<1>8. ASSUME NEW b \in A \ {block}
      PROVE  c[ListPointer(b)] \in Requests /\ ListBytes(c[ListPointer(b)]) <= m.blocks[b].block_size
  <2>1. ListPointer(b) \in DOMAIN c
    BY <1>7
  <2>2. c[ListPointer(b)] = a[ListPointer(b)] /\ m.blocks[b] = l.blocks[b]
    BY <1>2, <1>5, <2>1
  <2> QED BY <1>6, <2>2
<1> QED BY <1>2, <1>7, <1>8 DEF Clients

\* The inductive invariant of Memory.
MemoryInv ==
  /\ manager \in {"USE_LIST", "USE_BUDDY"}
  /\ ListInv(list)
  /\ manager = "USE_LIST" => Clients(asked, list)

\* What the abstract heap sees of it.
Seen == IF manager = "USE_LIST" THEN asked ELSE <<>>

\* Nobody has anything at first.
LEMMA InitEstablishesMemoryInv == MemoryInit => MemoryInv /\ Seen = <<>>
<1> SUFFICES ASSUME MemoryInit PROVE MemoryInv /\ Seen = <<>>
  OBVIOUS
<1>1. manager \in {"USE_LIST", "USE_BUDDY"} /\ list = ListInit /\ asked = <<>>
  BY MemoryAssumption DEF MemoryInit
<1>2. ListInv(list) /\ AllocatedBlocks(list) = {}
  BY <1>1, InitEstablishesListInv
<1>3. Clients(asked, list)
  BY <1>1, <1>2 DEF Clients
<1> QED BY <1>1, <1>2, <1>3 DEF MemoryInv, Seen

\* mm_alloc
LEMMA AllocStep ==
  ASSUME MemoryInv, NEW size \in Requests, MmAlloc(size)
  PROVE  /\ MemoryInv'
         /\ \/ UNCHANGED Seen
            \/ \E ptr : /\ ptr \notin DOMAIN Seen /\ Seen' = With(Seen, ptr, size) /\ Apart(Seen')
<1>1. CASE \E ptr \in ListFits(list, size) : ListAlloc(ptr, size)
  <2>1. PICK ptr \in ListFits(list, size) : ListAlloc(ptr, size)
    BY <1>1
  <2>2. /\ manager = "USE_LIST" /\ manager' = manager
        /\ list' = ListTake(list, ptr, size) /\ asked' = With(asked, ptr, size)
    BY <2>1 DEF ListAlloc
  <2>a. PICK new : new = list'
    OBVIOUS
  <2>b. PICK now : now = asked'
    OBVIOUS
  <2>3. ListInv(list) /\ Clients(asked, list)
    BY <2>2 DEF MemoryInv
  <2>4. ListInv(new) /\ Clients(now, new) /\ ptr \notin DOMAIN asked
    BY <2>2, <2>3, <2>a, <2>b, TakeKeepsClients
  <2>5. Apart(now)
    BY <2>4, ClientsAreApart
  <2>6. Seen = asked /\ Seen' = now
    BY <2>2, <2>b DEF Seen
  <2>7. MemoryInv'
    <3>1. ListInv(list') /\ Clients(asked', list')
      BY <2>4, <2>a, <2>b
    <3> QED BY <2>2, <3>1 DEF MemoryInv
  <2>8. ptr \notin DOMAIN Seen /\ Seen' = With(Seen, ptr, size) /\ Apart(Seen')
    BY <2>2, <2>4, <2>5, <2>6, <2>b
  <2> QED BY <2>7, <2>8
<1>2. CASE \E ptr \in BuddyFits(buddy, size) : BuddyAlloc(ptr, size)
  <2>1. manager = "USE_BUDDY" /\ manager' = manager /\ list' = list
    BY <1>2 DEF BuddyAlloc
  <2>2. manager # "USE_LIST" /\ UNCHANGED Seen
    BY <2>1 DEF Seen
  <2> QED BY <2>1, <2>2 DEF MemoryInv
<1> QED BY <1>1, <1>2 DEF MmAlloc

\* mm_free
LEMMA FreeStep ==
  ASSUME MemoryInv, NEW ptr \in DOMAIN asked, MmFree(ptr)
  PROVE  /\ MemoryInv'
         /\ \/ UNCHANGED Seen
            \/ /\ ptr \in DOMAIN Seen /\ Seen' = Restrict(Seen, DOMAIN Seen \ {ptr}) /\ Apart(Seen)
<1>1. CASE manager = "USE_LIST"
  <2>2. /\ manager' = manager /\ list' = ListFree(list, ptr)
        /\ asked' = Restrict(asked, DOMAIN asked \ {ptr})
    BY <1>1 DEF MmFree, Without
  <2>a. PICK new : new = list'
    OBVIOUS
  <2>b. PICK now : now = asked'
    OBVIOUS
  <2>3. ListInv(list) /\ Clients(asked, list)
    BY <1>1 DEF MemoryInv
  <2>4. ListInv(new) /\ Clients(now, new)
    BY <2>2, <2>3, <2>a, <2>b, FreeKeepsClients
  <2>5. Apart(asked)
    BY <2>3, ClientsAreApart
  <2>6. Seen = asked /\ Seen' = now
    BY <1>1, <2>2, <2>b DEF Seen
  <2>7. MemoryInv'
    <3>1. ListInv(list') /\ Clients(asked', list')
      BY <2>4, <2>a, <2>b
    <3> QED BY <1>1, <2>2, <3>1 DEF MemoryInv
  <2> QED BY <2>2, <2>5, <2>6, <2>7, <2>b
<1>2. CASE manager # "USE_LIST"
  <2>1. manager' = manager /\ list' = list
    BY <1>2 DEF MmFree
  <2>2. UNCHANGED Seen
    BY <1>2, <2>1 DEF Seen
  <2> QED BY <1>2, <2>1, <2>2 DEF MemoryInv
<1> QED BY <1>1, <1>2

\* mm_realloc
LEMMA ReallocStep ==
  ASSUME MemoryInv, NEW old \in DOMAIN asked, NEW size \in Requests, MmRealloc(old, size)
  PROVE  /\ MemoryInv'
         /\ \/ UNCHANGED Seen
            \/ \E ptr : /\ old \in DOMAIN Seen /\ ptr \notin DOMAIN Seen /\ Apart(Seen)
                        /\ Seen' = With(Restrict(Seen, DOMAIN Seen \ {old}), ptr, size)
                        /\ Apart(With(Seen, ptr, size))
<1>1. CASE manager = "USE_LIST"
  <2>1. PICK ptr \in ListFits(list, size) :
          /\ manager' = manager /\ list' = ListFree(ListTake(list, ptr, size), old)
          /\ asked' = With(Restrict(asked, DOMAIN asked \ {old}), ptr, size)
    BY <1>1 DEF MmRealloc, Without
  <2>a. PICK new : new = list'
    OBVIOUS
  <2>b. PICK now : now = asked'
    OBVIOUS
  <2>c. PICK between : between = ListTake(list, ptr, size)
    OBVIOUS
  <2>d. PICK both : both = With(asked, ptr, size)
    OBVIOUS
  <2>3. ListInv(list) /\ Clients(asked, list)
    BY <1>1 DEF MemoryInv
  <2>4. ListInv(between) /\ Clients(both, between) /\ ptr \notin DOMAIN asked
    BY <2>3, <2>c, <2>d, TakeKeepsClients
  <2>5. now = Restrict(both, DOMAIN both \ {old}) /\ old \in DOMAIN both
    <3>1. /\ DOMAIN both = DOMAIN asked \cup {ptr} /\ both[ptr] = size
          /\ \A p \in DOMAIN asked : p # ptr /\ both[p] = asked[p]
      BY <2>4, <2>d DEF With
    <3>a. PICK D : D = DOMAIN both \ {old}
      OBVIOUS
    <3>2. D = (DOMAIN asked \ {old}) \cup {ptr}
      BY <2>4, <3>1, <3>a
    <3>3. now = [p \in D |-> IF p = ptr THEN size ELSE asked[p]]
      <4>a. PICK rest : rest = Restrict(asked, DOMAIN asked \ {old})
        OBVIOUS
      <4>1. DOMAIN rest = DOMAIN asked \ {old} /\ \A p \in DOMAIN asked \ {old} : rest[p] = asked[p]
        BY <4>a DEF Restrict
      <4>2. now = [p \in DOMAIN rest \cup {ptr} |-> IF p = ptr THEN size ELSE rest[p]]
        BY <2>1, <2>b, <4>a DEF With
      <4> QED BY <3>2, <4>1, <4>2
    <3>4. Restrict(both, D) = [p \in D |-> both[p]]
      BY DEF Restrict
    <3>5. \A p \in D : both[p] = IF p = ptr THEN size ELSE asked[p]
      BY <3>1, <3>2
    <3>6. now = Restrict(both, D)
      BY <3>3, <3>4, <3>5
    <3> QED BY <3>1, <3>6, <3>a
  <2>6. ListInv(new) /\ Clients(now, new)
    <3>1. new = ListFree(between, old)
      BY <2>1, <2>a, <2>c
    <3> QED BY <2>4, <2>5, <3>1, FreeKeepsClients
  <2>7. Apart(asked) /\ Apart(both)
    BY <2>3, <2>4, ClientsAreApart
  <2>8. Seen = asked /\ Seen' = now
    BY <1>1, <2>1, <2>b DEF Seen
  <2>9. MemoryInv'
    <3>1. ListInv(list') /\ Clients(asked', list')
      BY <2>6, <2>a, <2>b
    <3> QED BY <1>1, <2>1, <3>1 DEF MemoryInv
  <2> QED BY <2>1, <2>4, <2>7, <2>8, <2>9, <2>b, <2>d
<1>2. CASE manager # "USE_LIST"
  <2>1. manager' = manager /\ list' = list
    BY <1>2 DEF MmRealloc
  <2>2. UNCHANGED Seen
    BY <1>2, <2>1 DEF Seen
  <2> QED BY <1>2, <2>1, <2>2 DEF MemoryInv
<1> QED BY <1>1, <1>2

\* No call breaks it.
LEMMA MemoryNextKeepsInv == MemoryInv /\ [MemoryNext]_memoryVars => MemoryInv'
<1> SUFFICES ASSUME MemoryInv, [MemoryNext]_memoryVars PROVE MemoryInv'
  OBVIOUS
<1>1. CASE \E size \in Requests : MmAlloc(size)
  BY <1>1, AllocStep
<1>2. CASE \E ptr \in DOMAIN asked : MmFree(ptr)
  BY <1>2, FreeStep
<1>3. CASE \E ptr \in DOMAIN asked, size \in Requests : MmRealloc(ptr, size)
  BY <1>3, ReallocStep
<1>4. CASE UNCHANGED memoryVars
  BY <1>4 DEF memoryVars, MemoryInv
<1> QED BY <1>1, <1>2, <1>3, <1>4 DEF MemoryNext

(* After any calls of mm_alloc, mm_free and mm_realloc, in a heap of any size, the
   blocks tile the heap, the list walked along next holds just the free ones, by
   address, no two of them adjacent, used_mem and mem_chunks agree with the blocks
   handed out, and these are those that clients hold pointers to
   (freeListMemoryManager.c:136-165, insert_block). *)
THEOREM MemoryListKept == MemorySpec => []ListKept
<1>1. MemoryInit => MemoryInv
  BY InitEstablishesMemoryInv
<1>2. MemoryInv /\ [MemoryNext]_memoryVars => MemoryInv'
  BY MemoryNextKeepsInv
<1>3. MemoryInv => ListKept
  BY ListInvHolds DEF MemoryInv, ListKept, Clients
<1> QED BY <1>1, <1>2, <1>3, PTL DEF MemorySpec

----------------------------------------------------------------------------
(* What the free list promises *)

\* The heap is nobody's at first.
LEMMA SeenInits == MemoryInit => ListHeap!Init
BY InitEstablishesMemoryInv DEF ListHeap!Init, Seen

\* Each call is one of Heap's, or changes nothing that clients have.
LEMMA SeenSteps == MemoryInv /\ [MemoryNext]_memoryVars => [ListHeap!Next]_Seen
<1> SUFFICES ASSUME MemoryInv, [MemoryNext]_memoryVars PROVE [ListHeap!Next]_Seen
  OBVIOUS
<1> DEFINE Pointers == {ptr \in FirstAddress .. EndAddress - 1 : ptr % BYTE_ALIGNMENT = 0}
<1>1. ASSUME NEW size \in Requests, MmAlloc(size) PROVE [ListHeap!Next]_Seen
  <2>1. CASE \E ptr : ptr \notin DOMAIN Seen /\ Seen' = With(Seen, ptr, size) /\ Apart(Seen')
    <3>1. PICK ptr : ptr \notin DOMAIN Seen /\ Seen' = With(Seen, ptr, size) /\ Apart(Seen')
      BY <2>1
    <3>a. PICK now : now = Seen'
      OBVIOUS
    <3>2. now = With(Seen, ptr, size) /\ Apart(now)
      BY <3>1, <3>a
    <3>3. ptr \in Pointers /\ ListHeap!Alloc(ptr, size)
      <4>1. DOMAIN now = DOMAIN Seen \cup {ptr} /\ now[ptr] = size /\ \A p \in DOMAIN Seen : p # ptr /\ now[p] = Seen[p]
        BY <3>1, <3>2 DEF With
      <4>2. /\ ptr \in Pointers /\ ptr .. ptr + size - 1 \subseteq FirstAddress .. EndAddress - 1
        BY <3>2, <4>1 DEF Apart
      <4>3. \A other \in DOMAIN Seen : (ptr .. ptr + size - 1) \cap (other .. other + Seen[other] - 1) = {}
        BY <3>2, <4>1 DEF Apart
      <4> HIDE DEF Pointers
      <4> QED BY <3>1, <4>2, <4>3 DEF ListHeap!Alloc, ListHeap!Region, ListHeap!With, With, Seen
    <3> QED BY <3>3 DEF ListHeap!Next
  <2> QED BY <1>1, <2>1, AllocStep
<1>2. ASSUME NEW ptr \in DOMAIN asked, MmFree(ptr) PROVE [ListHeap!Next]_Seen
  <2>1. CASE ptr \in DOMAIN Seen /\ Seen' = Restrict(Seen, DOMAIN Seen \ {ptr}) /\ Apart(Seen)
    <3>1. ptr \in Pointers
      BY <2>1 DEF Apart
    <3>2. ListHeap!Free(ptr)
      BY <2>1 DEF ListHeap!Free, ListHeap!Without, Restrict, Seen
    <3> QED BY <3>1, <3>2 DEF ListHeap!Next
  <2> QED BY <1>2, <2>1, FreeStep
<1>3. ASSUME NEW old \in DOMAIN asked, NEW size \in Requests, MmRealloc(old, size)
      PROVE  [ListHeap!Next]_Seen
  <2>1. CASE \E ptr : /\ old \in DOMAIN Seen /\ ptr \notin DOMAIN Seen /\ Apart(Seen)
                      /\ Seen' = With(Restrict(Seen, DOMAIN Seen \ {old}), ptr, size)
                      /\ Apart(With(Seen, ptr, size))
    <3>1. PICK ptr : /\ old \in DOMAIN Seen /\ ptr \notin DOMAIN Seen /\ Apart(Seen)
                     /\ Seen' = With(Restrict(Seen, DOMAIN Seen \ {old}), ptr, size)
                     /\ Apart(With(Seen, ptr, size))
      BY <2>1
    <3>a. PICK both : both = With(Seen, ptr, size)
      OBVIOUS
    <3>2. old \in Pointers
      BY <3>1 DEF Apart
    <3>3. ptr \in Pointers /\ ListHeap!Realloc(old, ptr, size)
      <4>1. DOMAIN both = DOMAIN Seen \cup {ptr} /\ both[ptr] = size /\ \A p \in DOMAIN Seen : p # ptr /\ both[p] = Seen[p]
        BY <3>1, <3>a DEF With
      <4>2. /\ ptr \in Pointers /\ ptr .. ptr + size - 1 \subseteq FirstAddress .. EndAddress - 1
        BY <3>1, <3>a, <4>1 DEF Apart
      <4>3. \A other \in DOMAIN Seen : (ptr .. ptr + size - 1) \cap (other .. other + Seen[other] - 1) = {}
        BY <3>1, <3>a, <4>1 DEF Apart
      <4> HIDE DEF Pointers
      <4> QED BY <3>1, <4>2, <4>3
            DEF ListHeap!Realloc, ListHeap!Region, ListHeap!With, ListHeap!Without, With, Restrict, Seen
    <3> QED BY <3>2, <3>3 DEF ListHeap!Next
  <2> QED BY <1>3, <2>1, ReallocStep
<1>4. CASE UNCHANGED memoryVars
  BY <1>4 DEF memoryVars, Seen
<1> QED BY <1>1, <1>2, <1>3, <1>4 DEF MemoryNext

(* The free list implements Heap: mm_alloc and mm_realloc return an aligned pointer
   to as many bytes of the heap as were asked for, none of them another client's, or
   NULL and nothing has changed; mm_free gives back one client's bytes and no others
   (freeListMemoryManager.c:30-177).  It is the free list's half of ImplementsHeap. *)
THEOREM MemoryImplementsListHeap == MemorySpec => ListHeap!Spec
<1>1. MemoryInit => MemoryInv
  BY InitEstablishesMemoryInv
<1>2. MemoryInv /\ [MemoryNext]_memoryVars => MemoryInv'
  BY MemoryNextKeepsInv
<1>3. MemoryInit => ListHeap!Init
  BY SeenInits
<1>4. MemoryInv /\ [MemoryNext]_memoryVars => [ListHeap!Next]_Seen
  BY SeenSteps
<1> QED BY <1>1, <1>2, <1>3, <1>4, PTL DEF MemorySpec, ListHeap!Spec, Seen

----------------------------------------------------------------------------
(* Powers of two *)

\* Each subset of 1 .. n, and with it the one that has n + 1 too.
LEMMA PowerDoubles ==
  ASSUME NEW n \in Nat
  PROVE  2 ^ n \in Nat /\ 2 ^ (n + 1) = 2 * 2 ^ n
<1> DEFINE S == SUBSET (1 .. n)
           T == {s \cup {n + 1} : s \in S}
           f == [s \in S |-> s \cup {n + 1}]
<1>1. /\ IsFiniteSet(1 .. n) /\ Cardinality(1 .. n) = n
      /\ IsFiniteSet(1 .. n + 1) /\ Cardinality(1 .. n + 1) = n + 1
  <2>1. 1 \in Int /\ n \in Int /\ n + 1 \in Int
    OBVIOUS
  <2>2. IsFiniteSet(1 .. n) /\ Cardinality(1 .. n) = IF 1 > n THEN 0 ELSE n - 1 + 1
    BY <2>1, FS_Interval
  <2>3. IsFiniteSet(1 .. n + 1) /\ Cardinality(1 .. n + 1) = IF 1 > n + 1 THEN 0 ELSE n + 1 - 1 + 1
    BY <2>1, FS_Interval
  <2> QED BY <2>2, <2>3
<1>2. /\ IsFiniteSet(S) /\ Cardinality(S) = 2 ^ n
      /\ IsFiniteSet(SUBSET (1 .. n + 1)) /\ Cardinality(SUBSET (1 .. n + 1)) = 2 ^ (n + 1)
  <2>1. /\ IsFiniteSet(SUBSET (1 .. n)) /\ Cardinality(SUBSET (1 .. n)) = 2 ^ Cardinality(1 .. n)
    BY <1>1, FS_SUBSET
  <2>2. /\ IsFiniteSet(SUBSET (1 .. n + 1))
        /\ Cardinality(SUBSET (1 .. n + 1)) = 2 ^ Cardinality(1 .. n + 1)
    BY <1>1, FS_SUBSET
  <2> QED BY <1>1, <2>1, <2>2
<1>3. f \in Bijection(S, T)
  <2>1. \A s \in S : n + 1 \notin s
    OBVIOUS
  <2>2. \A s \in S, t \in S : s \cup {n + 1} = t \cup {n + 1} => s = t
    BY <2>1
  <2>3. \A s \in S : f[s] = s \cup {n + 1} /\ f[s] \in T
    OBVIOUS
  <2>4. ASSUME NEW t \in T PROVE \E s \in S : f[s] = t
    <3>1. PICK s \in S : t = s \cup {n + 1}
      OBVIOUS
    <3> HIDE DEF S, f
    <3> QED BY <2>3, <3>1
  <2>5. f \in [S -> T]
    <3>1. \A s \in S : s \cup {n + 1} \in T
      <4> HIDE DEF S, T, f
      <4> QED BY <2>3
    <3> HIDE DEF S, T
    <3> QED BY <3>1
  <2> HIDE DEF S, T, f
  <2>6. \A s \in S, t \in S : f[s] = f[t] => s = t
    BY <2>2, <2>3
  <2> QED BY <2>4, <2>5, <2>6 DEF Bijection, Injection, IsInjective, Surjection
<1>4. IsFiniteSet(T) /\ Cardinality(T) = Cardinality(S)
  BY <1>2, <1>3, FS_Bijection DEF ExistsBijection
<1>5. SUBSET (1 .. n + 1) = S \cup T /\ S \cap T = {}
  <2>1. \A i : i \in 1 .. n + 1 <=> i \in 1 .. n \/ i = n + 1
    OBVIOUS
  <2>2. ~(n + 1 \in 1 .. n)
    OBVIOUS
  <2>3. ASSUME NEW s \in SUBSET (1 .. n + 1) PROVE s \in S \cup T
    <3>1. s \ {n + 1} \in S
      BY <2>1
    <3>2. CASE n + 1 \in s
      <4>1. s = (s \ {n + 1}) \cup {n + 1}
        BY <3>2
      <4> QED BY <3>1, <4>1
    <3>3. CASE n + 1 \notin s
      BY <2>1, <3>3
    <3> QED BY <3>2, <3>3
  <2>4. ASSUME NEW s \in S \cup T PROVE s \in SUBSET (1 .. n + 1)
    BY <2>1
  <2>5. S \cap T = {}
    BY <2>2
  <2> QED BY <2>3, <2>4, <2>5
<1>6. Cardinality(S \cup T) = Cardinality(S) + Cardinality(T) - Cardinality(S \cap T)
  <2> HIDE DEF S, T
  <2> QED BY <1>2, <1>4, FS_Union
<1>7. Cardinality(S \cap T) = 0 /\ Cardinality(S) \in Nat
  <2> HIDE DEF S, T
  <2> QED BY <1>2, <1>5, FS_EmptySet, FS_CardinalityType
<1>8. 2 ^ n \in Nat
  BY <1>2, <1>7, Zenon
<1>9. Cardinality(S \cup T) = Cardinality(S) + Cardinality(S)
  <2> HIDE DEF S, T
  <2> QED BY <1>4, <1>6, <1>7
<1>10. 2 ^ (n + 1) = 2 ^ n + 2 ^ n
  <2>1. 2 ^ (n + 1) = Cardinality(S \cup T)
    BY <1>2, <1>5, Zenon
  <2> QED BY <1>2, <1>9, <2>1, Zenon
<1> QED BY <1>8, <1>10

Pow(n) == 2 ^ n

\* What this says of all powers of two.
LEMMA PowFacts ==
  /\ Pow(0) = 1
  /\ \A n \in Nat : Pow(n) \in Nat /\ Pow(n) >= 1 /\ Pow(n + 1) = 2 * Pow(n)
<1>1. Pow(0) = 1
  BY DEF Pow
<1>2. \A n \in Nat : Pow(n) \in Nat /\ Pow(n + 1) = 2 * Pow(n)
  BY PowerDoubles DEF Pow
<1>3. \A n \in Nat : Pow(n) >= 1
  <2> DEFINE G == {n \in Nat : Pow(n) >= 1}
  <2>1. 0 \in G
    BY <1>1
  <2>2. \A n \in Nat : n \in G => n + 1 \in G
    BY <1>2
  <2>3. Nat \subseteq G
    <3> HIDE DEF G
    <3> QED BY <2>1, <2>2, NaturalInduction
  <2> QED BY <2>3
<1> QED BY <1>1, <1>2, <1>3

\* 2 ^ (m + n) is 2 ^ m * 2 ^ n: by doubling.
LEMMA PowAdds ==
  ASSUME NEW m \in Nat
  PROVE  \A n \in Nat : Pow(m + n) = Pow(m) * Pow(n)
<1> DEFINE G == {n \in Nat : Pow(m + n) = Pow(m) * Pow(n)}
<1>1. 0 \in G
  <2>1. Pow(m) \in Nat /\ m + 0 = m /\ Pow(0) = 1
    BY PowFacts
  <2> QED BY <2>1
<1>2. ASSUME NEW n \in Nat, n \in G PROVE n + 1 \in G
  <2>1. /\ m + n \in Nat /\ m + (n + 1) = (m + n) + 1
        /\ Pow(m) \in Nat /\ Pow(n) \in Nat /\ Pow(m + n) \in Nat
    BY PowFacts
  <2>2. Pow((m + n) + 1) = 2 * Pow(m + n) /\ Pow(n + 1) = 2 * Pow(n)
    BY <2>1, PowFacts
  <2>3. Pow(m + n) = Pow(m) * Pow(n)
    BY <1>2
  <2>a. PICK a, b : a = Pow(m) /\ b = Pow(n)
    OBVIOUS
  <2>4. a \in Nat /\ b \in Nat /\ 2 * (a * b) = a * (2 * b)
    BY <2>1, <2>a
  <2>5. Pow(m + (n + 1)) = Pow(m) * Pow(n + 1)
    BY <2>1, <2>2, <2>3, <2>4, <2>a
  <2> QED BY <2>5
<1>3. Nat \subseteq G
  <2> HIDE DEF G
  <2> QED BY <1>1, <1>2, NaturalInduction
<1> QED BY <1>3

\* Products with a number that is not 0 are in the order of the other factor.
LEMMA Products ==
  ASSUME NEW a \in Int, NEW b \in Int, NEW c \in Nat
  PROVE  /\ a <= b => c * a <= c * b
         /\ c > 0 /\ c * a <= c * b => a <= b
         /\ c > 0 /\ c * a < c * b => a < b
<1>1. a <= b => c * a <= c * b
  OBVIOUS
<1>2. b <= a => c * b <= c * a
  OBVIOUS
<1>3. c > 0 /\ b < a => c * b < c * a
  OBVIOUS
<1> QED BY <1>1, <1>2, <1>3

\* What a quotient and its remainder are.
LEMMA Quotients ==
  ASSUME NEW x \in Int, NEW y \in Nat, y > 0
  PROVE  /\ x \div y \in Int
         /\ y * (x \div y) <= x /\ x < y * (x \div y) + y
         /\ \A q \in Int : y * q <= x /\ x < y * q + y => x \div y = q
<1>1. /\ x \div y \in Int /\ y * (x \div y) <= x /\ x < y * (x \div y) + y
  OBVIOUS
<1>2. ASSUME NEW q \in Int, y * q <= x, x < y * q + y PROVE x \div y = q
  <2>a. PICK p : p = x \div y
    OBVIOUS
  <2>1. p \in Int /\ y * p <= x /\ x < y * p + y
    BY <1>1, <2>a
  <2>2. y * (p + 1) = y * p + y /\ y * (q + 1) = y * q + y
    BY <1>2, <2>1
  <2>3. y * p < y * (q + 1) /\ y * q < y * (p + 1)
    BY <1>2, <2>1, <2>2
  <2>4. p < q + 1
    <3>1. q + 1 \in Int
      OBVIOUS
    <3> QED BY <2>1, <2>3, <3>1, Products
  <2>5. q < p + 1
    <3>1. p + 1 \in Int
      BY <2>1
    <3> QED BY <2>3, <3>1, Products
  <2> QED BY <2>1, <2>4, <2>5, <2>a
<1> QED BY <1>1, <1>2

\* A smaller power of two divides a larger one.
LEMMA PowGrows ==
  ASSUME NEW m \in Nat, NEW n \in Nat, m <= n
  PROVE  Pow(m) <= Pow(n) /\ n - m \in Nat /\ Pow(n) = Pow(m) * Pow(n - m)
<1>1. n - m \in Nat /\ m + (n - m) = n
  OBVIOUS
<1>2. Pow(n) = Pow(m) * Pow(n - m)
  BY <1>1, PowAdds
<1>3. Pow(m) \in Nat /\ Pow(n - m) \in Nat /\ 1 <= Pow(n - m)
  BY <1>1, PowFacts
<1>4. Pow(m) * 1 <= Pow(m) * Pow(n - m)
  BY <1>3, Products
<1> QED BY <1>1, <1>2, <1>3, <1>4

\* Dividing twice is dividing by the product.
LEMMA DividedTwice ==
  ASSUME NEW x \in Int, NEW y \in Nat, y > 0, NEW z \in Nat, z > 0
  PROVE  y * z \in Nat /\ y * z > 0 /\ (x \div y) \div z = x \div (y * z)
<1>1. y * z \in Nat /\ y * z > 0
  <2>1. y * z \in Nat /\ y * 0 = 0
    OBVIOUS
  <2>2. y * 1 <= y * z
    BY Products
  <2> QED BY <2>1, <2>2
<1>a. PICK a, b : a = x \div y /\ b = (x \div y) \div z
  OBVIOUS
<1>2. a \in Int /\ y * a <= x /\ x < y * a + y
  BY <1>a, Quotients
<1>3. b \in Int /\ z * b <= a /\ a < z * b + z
  <2>1. b = a \div z
    BY <1>a
  <2> QED BY <1>2, <2>1, Quotients
<1>4. y * (z * b) <= y * a
  <2>1. z * b \in Int
    BY <1>3
  <2> QED BY <1>2, <1>3, <2>1, Products
<1>5. y * (a + 1) <= y * (z * b + z)
  <2>1. a + 1 \in Int /\ z * b + z \in Int /\ a + 1 <= z * b + z
    BY <1>2, <1>3
  <2> QED BY <2>1, Products
<1>6. /\ y * (z * b) = (y * z) * b /\ y * (a + 1) = y * a + y
      /\ y * (z * b + z) = (y * z) * b + y * z
  BY <1>2, <1>3
<1>7. (y * z) * b <= x /\ x < (y * z) * b + y * z
  <2>1. /\ y * a \in Int /\ (y * z) * b \in Int /\ y * z \in Int
        /\ y * (z * b) \in Int /\ y * (a + 1) \in Int
    BY <1>2, <1>3
  <2> QED BY <1>2, <1>4, <1>5, <1>6, <2>1
<1>8. x \div (y * z) = b
  <2>a. PICK w : w = y * z
    OBVIOUS
  <2> QED BY <1>1, <1>3, <1>7, <2>a, Quotients
<1> QED BY <1>1, <1>8, <1>a

----------------------------------------------------------------------------
(* The nodes of the buddy system's tree *)

\* Blocks of every level have some bytes, in a heap of a whole number of them.
LEMMA SizeFacts ==
  /\ MAX_LEVEL \in Nat /\ MIN_BLOCK \in Nat
  /\ \A level \in Levels : BlockSize(level) \in Nat /\ BlockSize(level) > 0
                           /\ MAX_LEVEL - level \in Nat /\ level \in Nat
  /\ HEAP_SIZE \in Nat
<1>1. MAX_LEVEL \in Nat /\ MIN_BLOCK \in Nat /\ MIN_BLOCK > 0
  BY BuddyAssumption
<1>2. ASSUME NEW level \in Nat PROVE BlockSize(level) \in Nat /\ BlockSize(level) > 0
  <2>a. PICK p : p = Pow(level)
    OBVIOUS
  <2>1. p \in Nat /\ p > 0
    BY <2>a, PowFacts
  <2>2. p * MIN_BLOCK \in Nat /\ p * MIN_BLOCK > 0
    BY <1>1, <2>1, DividedTwice
  <2>3. BlockSize(level) = p * MIN_BLOCK
    BY <2>a DEF BlockSize, Pow
  <2> QED BY <2>2, <2>3
<1>3. HEAP_SIZE = BlockSize(MAX_LEVEL)
  BY DEF HEAP_SIZE, BlockSize
<1>4. \A level \in Levels : level \in Nat /\ MAX_LEVEL - level \in Nat
  BY <1>1 DEF Levels
<1> QED BY <1>1, <1>2, <1>3, <1>4

\* A block of a level is two of the one below.
LEMMA SizesGrow ==
  ASSUME NEW level \in Levels, NEW k \in Nat
  PROVE  BlockSize(level + k) = BlockSize(level) * Pow(k)
<1>a. PICK p, q : p = Pow(level) /\ q = Pow(k)
  OBVIOUS
<1>1. level \in Nat /\ MIN_BLOCK \in Nat
  BY SizeFacts
<1>2. p \in Nat /\ q \in Nat
  BY <1>1, <1>a, PowFacts
<1>3. Pow(level + k) = p * q
  BY <1>1, <1>a, PowAdds
<1>4. (p * q) * MIN_BLOCK = (p * MIN_BLOCK) * q
  BY <1>1, <1>2
<1>5. BlockSize(level + k) = Pow(level + k) * MIN_BLOCK /\ BlockSize(level) = Pow(level) * MIN_BLOCK
  BY DEF BlockSize, Pow
<1> QED BY <1>3, <1>4, <1>5, <1>a

\* The heap is a power of two of blocks of any level.
LEMMA HeapSizes ==
  ASSUME NEW level \in Levels
  PROVE  HEAP_SIZE = BlockSize(level) * Pow(MAX_LEVEL - level)
<1>1. MAX_LEVEL - level \in Nat /\ level + (MAX_LEVEL - level) = MAX_LEVEL
  BY SizeFacts
<1>2. BlockSize(level + (MAX_LEVEL - level)) = BlockSize(level) * Pow(MAX_LEVEL - level)
  BY <1>1, SizesGrow
<1> QED BY <1>1, <1>2 DEF HEAP_SIZE, BlockSize

\* Addresses in the heap.
Addresses == 0 .. HEAP_SIZE - 1

\* Where a node is among those of its level.
Rank(ptr, level) == ptr \div BlockSize(level)

\* Each level has a power of two of nodes, after those of the levels above.
LEMMA NodeFacts ==
  ASSUME NEW ptr \in Addresses, NEW level \in Levels
  PROVE  /\ Rank(ptr, level) \in Nat /\ Rank(ptr, level) < Pow(MAX_LEVEL - level)
         /\ NodeAt(ptr, level) + 1 = Pow(MAX_LEVEL - level) + Rank(ptr, level)
         /\ NodeAt(ptr, level) \in Nat /\ NodeAt(ptr, level) \in Nodes
         /\ NodeAt(ptr, level) + 1 < Pow(MAX_LEVEL - level + 1)
         /\ NodeAt(ptr, level) + 1 >= Pow(MAX_LEVEL - level)
<1>a. PICK y, q, w : /\ y = BlockSize(level) /\ q = ptr \div y /\ w = Pow(MAX_LEVEL - level)
  OBVIOUS
<1>1. /\ y \in Nat /\ y > 0 /\ MAX_LEVEL - level \in Nat /\ level \in Nat /\ MAX_LEVEL \in Nat
      /\ HEAP_SIZE = y * w /\ w \in Nat /\ w >= 1 /\ ptr \in Int /\ 0 <= ptr /\ ptr < HEAP_SIZE
      /\ HEAP_SIZE \in Nat
  <2>1. /\ MAX_LEVEL - level \in Nat /\ level \in Nat /\ MAX_LEVEL \in Nat /\ HEAP_SIZE \in Nat
        /\ BlockSize(level) \in Nat /\ BlockSize(level) > 0
    BY SizeFacts
  <2>2. HEAP_SIZE = y * w
    BY <1>a, HeapSizes
  <2>3. w \in Nat /\ w >= 1
    BY <1>a, <2>1, PowFacts
  <2> QED BY <1>a, <2>1, <2>2, <2>3 DEF Addresses
<1>2. q \in Int /\ y * q <= ptr /\ ptr < y * q + y
  BY <1>1, <1>a, Quotients
<1>3. q < w
  <2>1. y * q < y * w
    BY <1>1, <1>2
  <2> QED BY <1>1, <1>2, <2>1, Products
<1>4. q >= 0
  <2>1. y * 0 < y * (q + 1) /\ q + 1 \in Int
    BY <1>1, <1>2
  <2>2. 0 < q + 1
    BY <1>1, <2>1, Products
  <2> QED BY <1>2, <2>2
<1>5. NodeAt(ptr, level) = w - 1 + q
  <2>1. GetFirstIndex(level) = w - 1
    BY <1>a DEF GetFirstIndex, Pow
  <2> QED BY <1>a, <2>1 DEF NodeAt
<1>6. Pow(MAX_LEVEL - level + 1) = 2 * w
  BY <1>1, <1>a, PowFacts
<1>7. Pow(MAX_LEVEL - level + 1) <= Pow(MAX_LEVEL + 1) /\ Pow(MAX_LEVEL + 1) \in Nat
  <2>1. MAX_LEVEL - level + 1 \in Nat /\ MAX_LEVEL + 1 \in Nat /\ MAX_LEVEL - level + 1 <= MAX_LEVEL + 1
    BY <1>1
  <2> QED BY <2>1, PowGrows, PowFacts
<1>8. NodeAt(ptr, level) \in Nat /\ NodeAt(ptr, level) + 1 < 2 * w /\ NodeAt(ptr, level) + 1 = w + q
  BY <1>1, <1>2, <1>3, <1>4, <1>5
<1>9. NodeAt(ptr, level) \in 0 .. Pow(MAX_LEVEL + 1) - 2
  BY <1>1, <1>6, <1>7, <1>8
<1>10. Nodes = 0 .. Pow(MAX_LEVEL + 1) - 2
  BY DEF Nodes, Pow
<1>11. q = Rank(ptr, level)
  BY <1>a DEF Rank
<1>12. q \in Nat /\ NodeAt(ptr, level) + 1 >= w
  BY <1>1, <1>2, <1>4, <1>8
<1> QED BY <1>3, <1>6, <1>8, <1>9, <1>10, <1>11, <1>12, <1>a

\* The node of a higher level is what get_parent leads to.
LEMMA ParentsFacts ==
  ASSUME NEW ptr \in Addresses, NEW level \in Levels, NEW k \in Nat
  PROVE  (NodeAt(ptr, level) + 1) \div Pow(k) =
           IF level + k <= MAX_LEVEL THEN NodeAt(ptr, level + k) + 1 ELSE 0
<1>a. PICK n, q, w, p : /\ n = NodeAt(ptr, level) /\ q = Rank(ptr, level)
                        /\ w = Pow(MAX_LEVEL - level) /\ p = Pow(k)
  OBVIOUS
<1>1. /\ q \in Nat /\ q < w /\ n + 1 = w + q /\ n \in Nat /\ w \in Nat
      /\ p \in Nat /\ p >= 1 /\ level \in Nat /\ MAX_LEVEL \in Nat /\ level <= MAX_LEVEL
      /\ MAX_LEVEL - level \in Nat
  BY <1>a, NodeFacts, PowFacts, SizeFacts DEF Levels
<1>2. CASE level + k <= MAX_LEVEL
  <2>a. PICK v, r : v = Pow(MAX_LEVEL - (level + k)) /\ r = Rank(ptr, level + k)
    OBVIOUS
  <2>1. level + k \in Levels
    BY <1>1, <1>2 DEF Levels
  <2>2. w = p * v /\ v \in Nat
    <3>1. /\ MAX_LEVEL - (level + k) \in Nat
          /\ MAX_LEVEL - level = k + (MAX_LEVEL - (level + k))
      BY <1>1, <1>2
    <3> QED BY <1>1, <1>a, <2>a, <3>1, PowAdds, PowFacts
  <2>3. r = q \div p
    <3>a. PICK y : y = BlockSize(level)
      OBVIOUS
    <3>1. y \in Nat /\ y > 0 /\ ptr \in Int
      BY <3>a, SizeFacts DEF Addresses
    <3>b. BlockSize(level + k) = y * p
      BY <1>a, <3>a, SizesGrow
    <3>2. (ptr \div y) \div p = ptr \div (y * p)
      BY <1>1, <3>1, DividedTwice
    <3> QED BY <1>a, <2>a, <3>2, <3>a, <3>b DEF Rank
  <2>4. r \in Int /\ p * r <= q /\ q < p * r + p
    BY <1>1, <2>3, Quotients
  <2>5. v + r \in Int /\ p * (v + r) = p * v + p * r
    BY <1>1, <2>2, <2>4
  <2>6. p * (v + r) <= n + 1 /\ n + 1 < p * (v + r) + p
    BY <1>1, <2>2, <2>4, <2>5
  <2>7. (n + 1) \div p = v + r
    <3>1. n + 1 \in Int /\ p > 0
      BY <1>1
    <3> QED BY <1>1, <2>5, <2>6, <3>1, Quotients
  <2>8. NodeAt(ptr, level + k) + 1 = v + r
    BY <2>1, <2>a, NodeFacts
  <2> QED BY <1>2, <1>a, <2>7, <2>8
<1>3. CASE ~(level + k <= MAX_LEVEL)
  <2>1. MAX_LEVEL - level + 1 \in Nat /\ MAX_LEVEL - level + 1 <= k
    BY <1>1, <1>3
  <2>2. Pow(MAX_LEVEL - level + 1) <= p /\ Pow(MAX_LEVEL - level + 1) \in Nat
    BY <1>a, <2>1, PowGrows, PowFacts
  <2>3. n + 1 < p
    <3>1. n + 1 < Pow(MAX_LEVEL - level + 1)
      BY <1>a, NodeFacts
    <3> QED BY <1>1, <2>2, <3>1
  <2>4. p * 0 <= n + 1 /\ n + 1 < p * 0 + p /\ 0 \in Int /\ n + 1 \in Int /\ p > 0
    BY <1>1, <2>3
  <2>5. (n + 1) \div p = 0
    BY <1>1, <2>4, Quotients
  <2> QED BY <1>3, <1>a, <2>5
<1> QED BY <1>2, <1>3

\* Above a node are those of the higher levels that cover the same address.
LEMMA AncestorsOfNode ==
  ASSUME NEW ptr \in Addresses, NEW level \in Levels
  PROVE  Ancestors(NodeAt(ptr, level)) = {NodeAt(ptr, higher) : higher \in level .. MAX_LEVEL}
<1>a. PICK n : n = NodeAt(ptr, level)
  OBVIOUS
<1>1. /\ level \in Nat /\ MAX_LEVEL \in Nat /\ level <= MAX_LEVEL
  BY SizeFacts DEF Levels
<1>2. Ancestors(n) = {(n + 1) \div Pow(k) - 1 : k \in Levels} \ {-1}
  BY DEF Ancestors, Pow
<1>3. \A k \in Levels : (n + 1) \div Pow(k) =
                          IF level + k <= MAX_LEVEL THEN NodeAt(ptr, level + k) + 1 ELSE 0
  BY <1>a, ParentsFacts, SizeFacts
<1>4. ASSUME NEW h \in level .. MAX_LEVEL PROVE NodeAt(ptr, h) \in Ancestors(n)
  <2>a. PICK k : k = h - level
    OBVIOUS
  <2>1. k \in Levels /\ level + k = h /\ h \in Levels /\ level + k <= MAX_LEVEL
    BY <1>1, <2>a DEF Levels
  <2>2. NodeAt(ptr, h) \in Nat
    BY <2>1, NodeFacts
  <2>3. (n + 1) \div Pow(k) = NodeAt(ptr, h) + 1
    BY <1>3, <2>1
  <2>4. (n + 1) \div Pow(k) - 1 = NodeAt(ptr, h) /\ NodeAt(ptr, h) # -1
    BY <2>2, <2>3
  <2> QED BY <1>2, <2>1, <2>4
<1>5. ASSUME NEW m \in Ancestors(n) PROVE \E h \in level .. MAX_LEVEL : m = NodeAt(ptr, h)
  <2>1. PICK k \in Levels : m = (n + 1) \div Pow(k) - 1 /\ m # -1
    BY <1>2
  <2>2. level + k <= MAX_LEVEL
    BY <1>3, <2>1
  <2>3. level + k \in level .. MAX_LEVEL /\ level + k \in Levels
    BY <1>1, <2>2 DEF Levels
  <2>4. NodeAt(ptr, level + k) \in Nat
    BY <2>3, NodeFacts
  <2>5. m = NodeAt(ptr, level + k)
    BY <1>3, <2>1, <2>2, <2>4
  <2> QED BY <2>3, <2>5
<1> QED BY <1>4, <1>5, <1>a

\* No node is of two levels.
LEMMA LevelsApart ==
  ASSUME NEW p \in Addresses, NEW q \in Addresses, NEW k \in Levels, NEW l \in Levels,
         NodeAt(p, k) = NodeAt(q, l)
  PROVE  k = l
<1>1. ASSUME NEW a \in Addresses, NEW b \in Addresses, NEW h \in Levels, NEW g \in Levels,
             NodeAt(a, h) = NodeAt(b, g), h < g
      PROVE  FALSE
  <2>1. /\ MAX_LEVEL - g + 1 \in Nat /\ MAX_LEVEL - h \in Nat /\ MAX_LEVEL - g + 1 <= MAX_LEVEL - h
    BY <1>1, SizeFacts
  <2>2. Pow(MAX_LEVEL - g + 1) <= Pow(MAX_LEVEL - h) /\ Pow(MAX_LEVEL - g + 1) \in Nat
        /\ Pow(MAX_LEVEL - h) \in Nat
    BY <2>1, PowGrows, PowFacts
  <2>3. /\ NodeAt(b, g) + 1 < Pow(MAX_LEVEL - g + 1) /\ NodeAt(b, g) \in Nat
        /\ NodeAt(a, h) + 1 >= Pow(MAX_LEVEL - h)
    BY NodeFacts
  <2> QED BY <1>1, <2>2, <2>3
<1>2. k \in Int /\ l \in Int
  BY SizeFacts
<1> QED BY <1>1, <1>2

\* Each node is its own ancestor, and of two ancestors one is the other's.
LEMMA AncestorsFacts ==
  ASSUME NEW i \in Nodes
  PROVE  /\ i \in Ancestors(i)
         /\ \A j, h \in Ancestors(i) : j \in Ancestors(h) \/ h \in Ancestors(j)
<1>1. i \in Nat /\ MAX_LEVEL \in Nat
  BY SizeFacts DEF Nodes
<1>2. \A n : Ancestors(n) = {(n + 1) \div Pow(k) - 1 : k \in Levels} \ {-1}
  BY DEF Ancestors, Pow
<1>3. i \in Ancestors(i)
  <2>1. 0 \in Levels /\ Pow(0) = 1
    BY <1>1, PowFacts DEF Levels
  <2>2. (i + 1) \div 1 - 1 = i /\ i # -1
    BY <1>1
  <2> QED BY <1>2, <2>1, <2>2
<1>4. ASSUME NEW a \in Levels, NEW b \in Levels, a <= b, NEW j, j = (i + 1) \div Pow(a) - 1,
             NEW h, h = (i + 1) \div Pow(b) - 1, h # -1
      PROVE  h \in Ancestors(j)
  <2>1. a \in Nat /\ b \in Nat /\ b - a \in Levels /\ b - a \in Nat
    BY <1>1, <1>4 DEF Levels
  <2>2. /\ Pow(b) = Pow(a) * Pow(b - a) /\ Pow(a) \in Nat /\ Pow(a) > 0
        /\ Pow(b - a) \in Nat /\ Pow(b - a) > 0
    <3>1. Pow(b) = Pow(a) * Pow(b - a)
      BY <1>4, <2>1, PowGrows
    <3>2. /\ Pow(a) \in Nat /\ Pow(a) > 0
          /\ Pow(b - a) \in Nat /\ Pow(b - a) > 0
      BY <2>1, PowFacts
    <3> QED BY <3>1, <3>2
  <2>3. ((i + 1) \div Pow(a)) \div Pow(b - a) = (i + 1) \div (Pow(a) * Pow(b - a))
    <3>a. PICK x, y : x = Pow(a) /\ y = Pow(b - a)
      OBVIOUS
    <3>1. x \in Nat /\ x > 0 /\ y \in Nat /\ y > 0 /\ i + 1 \in Int
      BY <1>1, <2>2, <3>a
    <3>2. ((i + 1) \div x) \div y = (i + 1) \div (x * y)
      BY <3>1, DividedTwice
    <3> QED BY <3>2, <3>a
  <2>4. j + 1 = (i + 1) \div Pow(a)
    <3>1. (i + 1) \div Pow(a) \in Int
      BY <1>1, <2>2, Quotients
    <3> QED BY <1>4, <3>1
  <2>5. h = (j + 1) \div Pow(b - a) - 1
    BY <1>4, <2>2, <2>3, <2>4
  <2>6. \A c \in Levels : h = (j + 1) \div Pow(c) - 1 => h \in Ancestors(j)
    BY <1>2, <1>4
  <2> QED BY <2>1, <2>5, <2>6
<1>5. ASSUME NEW j \in Ancestors(i), NEW h \in Ancestors(i)
      PROVE  j \in Ancestors(h) \/ h \in Ancestors(j)
  <2>1. PICK a \in Levels : j = (i + 1) \div Pow(a) - 1 /\ j # -1
    BY <1>2
  <2>2. PICK b \in Levels : h = (i + 1) \div Pow(b) - 1 /\ h # -1
    BY <1>2
  <2>3. a \in Int /\ b \in Int
    BY SizeFacts
  <2>4. CASE a <= b
    BY <1>4, <2>1, <2>2, <2>4
  <2>5. CASE b <= a
    BY <1>4, <2>1, <2>2, <2>5
  <2> QED BY <2>3, <2>4, <2>5
<1> QED BY <1>3, <1>5

----------------------------------------------------------------------------
(* Blocks *)

\* Where a block of this level may begin.
IsBlock(ptr, level) ==
  level \in Levels /\ ptr \in Addresses /\ ptr = Rank(ptr, level) * BlockSize(level)

\* A block begins where its node says, is in the heap, and its node covers all of it.
LEMMA BuddyBlockFacts ==
  ASSUME NEW ptr, NEW level, IsBlock(ptr, level)
  PROVE  /\ GetPtr(NodeAt(ptr, level), level) = ptr
         /\ ptr .. ptr + BlockSize(level) - 1 \subseteq Addresses
         /\ \A a \in ptr .. ptr + BlockSize(level) - 1 : NodeAt(a, level) = NodeAt(ptr, level)
<1>a. PICK y, q, w : /\ y = BlockSize(level) /\ q = Rank(ptr, level) /\ w = Pow(MAX_LEVEL - level)
  OBVIOUS
<1>1. level \in Levels /\ ptr \in Addresses /\ ptr = q * y
  BY <1>a DEF IsBlock
<1>2. /\ y \in Nat /\ y > 0 /\ w \in Nat /\ q \in Nat /\ q < w /\ MAX_LEVEL - level \in Nat
      /\ NodeAt(ptr, level) + 1 = w + q /\ HEAP_SIZE \in Nat /\ NodeAt(ptr, level) \in Nat
  BY <1>1, <1>a, SizeFacts, PowFacts, NodeFacts
<1>3. HEAP_SIZE = y * w
  BY <1>1, <1>a, HeapSizes
<1>4. GetPtr(NodeAt(ptr, level), level) = ptr
  <2>1. GetFirstIndex(level) = w - 1
    BY <1>a DEF GetFirstIndex, Pow
  <2>2. NodeAt(ptr, level) - (w - 1) = q
    BY <1>2
  <2> QED BY <1>1, <1>a, <2>1, <2>2 DEF GetPtr
<1>5. y * (q + 1) <= y * w /\ y * (q + 1) = q * y + y
  <2>1. y * (q + 1) <= y * w
    <3>1. q + 1 \in Int /\ w \in Int /\ q + 1 <= w
      BY <1>2
    <3> QED BY <1>2, <3>1, Products
  <2> QED BY <1>2, <2>1
<1>6. ptr \in Int /\ 0 <= ptr /\ ptr + y <= HEAP_SIZE
  <2>1. ptr \in Int /\ 0 <= ptr
    BY <1>1 DEF Addresses
  <2>2. ptr + y = y * (q + 1)
    BY <1>1, <1>5
  <2> QED BY <1>3, <1>5, <2>1, <2>2
<1>7. ptr .. ptr + y - 1 \subseteq Addresses
  BY <1>2, <1>6 DEF Addresses
<1>8. ASSUME NEW a \in ptr .. ptr + y - 1 PROVE NodeAt(a, level) = NodeAt(ptr, level)
  <2>1. a \in Int /\ ptr <= a /\ a < ptr + y /\ ptr = y * q
    BY <1>1, <1>2, <1>6
  <2>2. a \div y = q
    BY <1>2, <2>1, Quotients
  <2>3. ptr \div y = q
    BY <1>a DEF Rank
  <2> QED BY <1>a, <2>2, <2>3 DEF NodeAt
<1> QED BY <1>4, <1>7, <1>8, <1>a

\* Each node of a level is of one such block.
LEMMA NodeIsBlock ==
  ASSUME NEW level \in Levels, NEW index \in GetFirstIndex(level) .. GetFirstIndex(level - 1) - 1,
         NEW ptr, ptr = GetPtr(index, level)
  PROVE  IsBlock(ptr, level) /\ NodeAt(ptr, level) = index
<1>a. PICK y, w, q : /\ y = BlockSize(level) /\ w = Pow(MAX_LEVEL - level) /\ q = index - (w - 1)
  OBVIOUS
<1>1. /\ y \in Nat /\ y > 0 /\ w \in Nat /\ MAX_LEVEL - level \in Nat /\ HEAP_SIZE \in Nat
      /\ level \in Nat /\ MAX_LEVEL \in Nat
  BY <1>a, SizeFacts, PowFacts
<1>2. GetFirstIndex(level) = w - 1 /\ GetFirstIndex(level - 1) = 2 * w - 1
  <2>1. MAX_LEVEL - (level - 1) = MAX_LEVEL - level + 1
    BY <1>1
  <2>2. Pow(MAX_LEVEL - level + 1) = 2 * w
    BY <1>1, <1>a, PowFacts
  <2> QED BY <1>a, <2>1, <2>2 DEF GetFirstIndex, Pow
<1>3. q \in Nat /\ q < w /\ index \in Int
  BY <1>1, <1>2, <1>a
<1>4. ptr = q * y
  BY <1>2, <1>a DEF GetPtr
<1>5. HEAP_SIZE = y * w
  BY <1>a, HeapSizes
<1>6. ptr \in Int /\ 0 <= ptr /\ ptr < HEAP_SIZE
  <2>1. y * q <= y * (w - 1) /\ y * (w - 1) = y * w - y /\ y * 0 <= y * q
    <3>1. w - 1 \in Int /\ 0 \in Int /\ q <= w - 1
      BY <1>1, <1>3
    <3>2. y * q <= y * (w - 1) /\ y * 0 <= y * q
      BY <1>1, <1>3, <3>1, Products
    <3> QED BY <1>1, <3>2
  <2>2. y * q \in Int /\ ptr = y * q /\ y * w \in Int
    BY <1>1, <1>3, <1>4
  <2> QED BY <1>1, <1>5, <2>1, <2>2
<1>7. ptr \div y = q
  <2>1. y * q <= ptr /\ ptr < y * q + y
    BY <1>1, <1>3, <1>4
  <2> QED BY <1>1, <1>3, <1>6, <2>1, Quotients
<1>8. IsBlock(ptr, level)
  BY <1>1, <1>4, <1>6, <1>7, <1>a DEF IsBlock, Rank, Addresses
<1>9. NodeAt(ptr, level) = index
  BY <1>1, <1>2, <1>3, <1>7, <1>a DEF NodeAt
<1> QED BY <1>8, <1>9

\* Pointers are multiples of the smallest block, and of the level's power of two.
LEMMA BlockMultiples ==
  ASSUME NEW ptr, NEW level, IsBlock(ptr, level)
  PROVE  /\ \E n \in 0 .. 2 ^ MAX_LEVEL - 1 : ptr = n * MIN_BLOCK
         /\ ptr % 2 ^ level = 0
<1>a. PICK p, q, n : p = Pow(level) /\ q = Rank(ptr, level) /\ n = q * p
  OBVIOUS
<1>1. /\ level \in Levels /\ ptr \in Addresses /\ ptr = q * BlockSize(level)
      /\ level \in Nat /\ MAX_LEVEL \in Nat /\ MAX_LEVEL - level \in Nat
      /\ p \in Nat /\ p >= 1 /\ q \in Nat /\ q < Pow(MAX_LEVEL - level) /\ MIN_BLOCK \in Nat
  BY <1>a, SizeFacts, PowFacts, NodeFacts DEF IsBlock
<1>2. BlockSize(level) = p * MIN_BLOCK
  BY <1>a DEF BlockSize, Pow
<1>3. ptr = n * MIN_BLOCK /\ ptr = (q * MIN_BLOCK) * p
  BY <1>1, <1>2, <1>a
<1>4. n \in Nat /\ n < Pow(MAX_LEVEL) /\ Pow(MAX_LEVEL) \in Nat
  <2>a. PICK w : w = Pow(MAX_LEVEL - level)
    OBVIOUS
  <2>1. w \in Nat /\ q < w /\ Pow(MAX_LEVEL) \in Nat
    BY <1>1, <2>a, PowFacts
  <2>2. Pow(MAX_LEVEL) = p * w
    <3>1. level <= MAX_LEVEL
      BY <1>1
    <3> QED BY <1>1, <1>a, <2>a, <3>1, PowGrows
  <2>3. p * q <= p * (w - 1) /\ p * (w - 1) = p * w - p
    <3>1. w - 1 \in Int /\ q <= w - 1
      BY <1>1, <2>1
    <3>2. p * q <= p * (w - 1)
      BY <1>1, <3>1, Products
    <3> QED BY <1>1, <2>1, <3>2
  <2>4. n \in Nat /\ n = p * q /\ p * w \in Nat
    BY <1>1, <1>a, <2>1
  <2> QED BY <1>1, <2>1, <2>2, <2>3, <2>4
<1>5. n \in 0 .. 2 ^ MAX_LEVEL - 1
  BY <1>4 DEF Pow
<1>6. ptr % p = 0
  <2>a. PICK m : m = q * MIN_BLOCK
    OBVIOUS
  <2>1. m \in Int /\ ptr = p * m /\ ptr \in Int
    BY <1>1, <1>3, <2>a
  <2>2. ptr \div p = m
    <3>1. p * m <= ptr /\ ptr < p * m + p /\ p > 0
      BY <1>1, <2>1
    <3> QED BY <1>1, <2>1, <3>1, Quotients
  <2>b. PICK r : r = ptr % p
    OBVIOUS
  <2>3. ptr = p * (ptr \div p) + r /\ r \in Int
    BY <1>1, <2>1, <2>b
  <2>4. ptr = p * m + r
    BY <2>2, <2>3
  <2>c. PICK s : s = p * m
    OBVIOUS
  <2>5. s = s + r /\ s \in Int
    BY <1>1, <2>1, <2>4, <2>c
  <2>6. r = 0
    BY <2>3, <2>5
  <2> QED BY <2>6, <2>b
<1>7. ptr % 2 ^ level = 0
  BY <1>6, <1>a DEF Pow
<1> QED BY <1>3, <1>5, <1>7

----------------------------------------------------------------------------
(* What the tree keeps *)

\* The nodes of the blocks handed out, and those of them below a node.
TakenNodes(levels) == {NodeAt(ptr, levels[ptr]) : ptr \in DOMAIN levels}
Below(i, taken) == {j \in taken : i \in Ancestors(j)}

LevelBytes(levels) == MapThenSumSet(LAMBDA ptr : BlockSize(levels[ptr]), DOMAIN levels)

\* No block is part of another.
Placed(levels) ==
  /\ \A ptr \in DOMAIN levels : IsBlock(ptr, levels[ptr])
  /\ \A p, q \in DOMAIN levels :
       p # q => NodeAt(p, levels[p]) \notin Ancestors(NodeAt(q, levels[q]))

\* What the tree says of each node.
Marked(b, taken) ==
  /\ \A i \in Nodes : b.used[i] <=> \E j \in taken : j \in Ancestors(i)
  /\ \A i \in Nodes : b.used_subnodes[i] = Cardinality(Below(i, taken))

Tallied(b, levels) ==
  /\ Cardinality(TakenNodes(levels)) = Cardinality(DOMAIN levels)
  /\ b.used_mem = LevelBytes(levels)
  /\ b.mem_chuncks = Cardinality(DOMAIN levels)

BuddyStates == [used : [Nodes -> BOOLEAN], used_subnodes : [Nodes -> Int],
                used_mem : Int, mem_chuncks : Int]

BuddyInv(b, levels) ==
  /\ b \in BuddyStates /\ Placed(levels)
  /\ Marked(b, TakenNodes(levels)) /\ Tallied(b, levels)

\* This is what BuddyKept says of the tree.
LEMMA BuddyInvHolds ==
  ASSUME NEW b, NEW levels, BuddyInv(b, levels)
  PROVE  TreeWellFormed(b, levels)
<1>a. PICK taken : taken = TakenNodes(levels)
  OBVIOUS
<1>1. Marked(b, taken) /\ Tallied(b, levels)
  BY <1>a DEF BuddyInv
<1>2. \A i \in Nodes : /\ b.used[i] <=> Ancestors(i) \cap taken # {}
                       /\ b.used_subnodes[i] = Cardinality({j \in taken : i \in Ancestors(j)})
  BY <1>1 DEF Marked, Below
<1>3. /\ Cardinality(taken) = Cardinality(DOMAIN levels)
      /\ b.mem_chuncks = Cardinality(DOMAIN levels)
  BY <1>1, <1>a DEF Tallied
<1>4. b.used_mem = MapThenSumSet(LAMBDA ptr : BlockSize(levels[ptr]), DOMAIN levels)
  BY <1>1 DEF Tallied, LevelBytes
<1> QED BY <1>2, <1>3, <1>4, <1>a DEF TreeWellFormed, TakenNodes

\* Different blocks have different nodes.
LEMMA PlacedFacts ==
  ASSUME NEW levels, Placed(levels)
  PROVE  /\ IsFiniteSet(DOMAIN levels) /\ Cardinality(DOMAIN levels) \in Nat
         /\ IsFiniteSet(TakenNodes(levels)) /\ Cardinality(TakenNodes(levels)) \in Nat
         /\ TakenNodes(levels) \subseteq Nodes
         /\ \A ptr \in DOMAIN levels : levels[ptr] \in Levels /\ ptr \in Addresses
         /\ \A p, q \in DOMAIN levels : NodeAt(p, levels[p]) = NodeAt(q, levels[q]) => p = q
<1>1. \A ptr \in DOMAIN levels : levels[ptr] \in Levels /\ ptr \in Addresses
  BY DEF Placed, IsBlock
<1>2. \A ptr \in DOMAIN levels : NodeAt(ptr, levels[ptr]) \in Nodes
  BY <1>1, NodeFacts
<1>3. TakenNodes(levels) \subseteq Nodes /\ DOMAIN levels \subseteq Addresses
  BY <1>1, <1>2 DEF TakenNodes
<1>4. IsFiniteSet(Addresses)
  <2>1. 0 \in Int /\ HEAP_SIZE - 1 \in Int
    BY SizeFacts
  <2> QED BY <2>1, FS_Interval DEF Addresses
<1>5. IsFiniteSet(Nodes)
  <2>a. PICK top : top = Pow(MAX_LEVEL + 1) - 2
    OBVIOUS
  <2>1. 0 \in Int /\ top \in Int
    BY <2>a, SizeFacts, PowFacts
  <2>2. Nodes = 0 .. top
    BY <2>a DEF Nodes, Pow
  <2> QED BY <2>1, <2>2, FS_Interval
<1>6. \A p, q \in DOMAIN levels : NodeAt(p, levels[p]) = NodeAt(q, levels[q]) => p = q
  BY <1>2, AncestorsFacts DEF Placed
<1>7. IsFiniteSet(DOMAIN levels) /\ Cardinality(DOMAIN levels) \in Nat
  BY <1>3, <1>4, FS_Subset, FS_CardinalityType
<1>8. IsFiniteSet(TakenNodes(levels)) /\ Cardinality(TakenNodes(levels)) \in Nat
  BY <1>3, <1>5, FS_Subset, FS_CardinalityType
<1> QED BY <1>1, <1>3, <1>6, <1>7, <1>8

\* A node is free when no block is it, above it or below it.
LEMMA FreeNode ==
  ASSUME NEW b, NEW levels, BuddyInv(b, levels), NEW level \in Levels,
         NEW index \in FreeIndices(b, level), NEW ptr, ptr = GetPtr(index, level)
  PROVE  /\ IsBlock(ptr, level) /\ NodeAt(ptr, level) = index /\ index \in Nodes
         /\ \A j \in TakenNodes(levels) : j \notin Ancestors(index) /\ index \notin Ancestors(j)
         /\ ptr \notin DOMAIN levels
<1>a. PICK taken : taken = TakenNodes(levels)
  OBVIOUS
<1>1. IsBlock(ptr, level) /\ NodeAt(ptr, level) = index
  BY NodeIsBlock DEF FreeIndices
<1>2. index \in Nodes
  BY <1>1, NodeFacts DEF IsBlock
<1>3. ~b.used[index] /\ b.used_subnodes[index] = 0
  BY DEF FreeIndices
<1>4. \A j \in taken : j \notin Ancestors(index)
  BY <1>2, <1>3, <1>a DEF BuddyInv, Marked
<1>5. \A j \in taken : index \notin Ancestors(j)
  <2>1. Cardinality(Below(index, taken)) = 0
    BY <1>2, <1>3, <1>a DEF BuddyInv, Marked
  <2>2. IsFiniteSet(taken)
    BY <1>a, PlacedFacts DEF BuddyInv
  <2>3. IsFiniteSet(Below(index, taken))
    BY <2>2, FS_Subset DEF Below
  <2>4. Below(index, taken) = {}
    BY <2>1, <2>3, FS_EmptySet
  <2> QED BY <2>4 DEF Below
<1>6. ptr \notin DOMAIN levels
  <2> SUFFICES ASSUME ptr \in DOMAIN levels PROVE FALSE
    OBVIOUS
  <2>a. PICK l, n : l = levels[ptr] /\ n = NodeAt(ptr, l)
    OBVIOUS
  <2>1. n \in taken /\ l \in Levels /\ ptr \in Addresses
    BY <1>a, <2>a, PlacedFacts DEF BuddyInv, TakenNodes
  <2>2. level \in Int /\ l \in Int /\ level <= MAX_LEVEL /\ l <= MAX_LEVEL /\ MAX_LEVEL \in Int
    BY <2>1, SizeFacts DEF Levels
  <2>3. CASE l <= level
    <3>1. index \in Ancestors(n)
      BY <1>1, <2>1, <2>2, <2>3, <2>a, AncestorsOfNode
    <3> QED BY <1>5, <2>1, <3>1
  <2>4. CASE level <= l
    <3>1. n \in Ancestors(index)
      BY <1>1, <2>1, <2>2, <2>4, <2>a, AncestorsOfNode
    <3> QED BY <1>4, <2>1, <3>1
  <2> QED BY <2>2, <2>3, <2>4
<1> QED BY <1>1, <1>2, <1>4, <1>5, <1>6, <1>a

\* Blocks as the free list has them, for the sums of both managers.
AsList(levels) ==
  [blocks |-> [ptr \in DOMAIN levels |-> [block_size |-> BlockSize(levels[ptr])]]]

LevelSums(levels, D, f) ==
  f = [s \in D |-> IF s = {} THEN 0 ELSE BlockSize(levels[Anyone(s)]) + f[s \ {Anyone(s)}]]

\* Their sum is one the lemmas about the free list speak of.
LEMMA LevelBytesFacts ==
  ASSUME NEW levels, IsFiniteSet(DOMAIN levels), NEW l, l = AsList(levels)
  PROVE  /\ \E f : Sums(l, SUBSET (DOMAIN levels), f) /\ LevelBytes(levels) = f[DOMAIN levels]
         /\ \A ptr \in DOMAIN levels : SizeIn(l, ptr) = BlockSize(levels[ptr])
<1>a. PICK D : D = DOMAIN levels
  OBVIOUS
<1>1. \A ptr \in D : SizeIn(l, ptr) = BlockSize(levels[ptr])
  BY <1>a DEF AsList, SizeIn
<1>2. \A s \in SUBSET D : s # {} => Anyone(s) \in D
  BY DEF Anyone
<1>3. ASSUME NEW f PROVE LevelSums(levels, SUBSET D, f) <=> Sums(l, SUBSET D, f)
  <2>1. [s \in SUBSET D |-> IF s = {} THEN 0 ELSE BlockSize(levels[Anyone(s)]) + f[s \ {Anyone(s)}]]
          = [s \in SUBSET D |-> IF s = {} THEN 0 ELSE SizeIn(l, Anyone(s)) + f[s \ {Anyone(s)}]]
    BY <1>1, <1>2
  <2> QED BY <2>1 DEF LevelSums, Sums
<1>4. \E f : LevelSums(levels, SUBSET D, f)
  BY <1>3, <1>a, SumsExist
<1>5. LevelBytes(levels) = (CHOOSE f : LevelSums(levels, SUBSET D, f))[D]
  BY <1>a DEF LevelBytes, MapThenSumSet, MapThenFoldSet, Anyone, LevelSums
<1>6. PICK f : LevelSums(levels, SUBSET D, f) /\ LevelBytes(levels) = f[D]
  BY <1>4, <1>5
<1> QED BY <1>1, <1>3, <1>6, <1>a

\* One block more adds its size.
LEMMA LevelBytesOfOneMore ==
  ASSUME NEW levels, IsFiniteSet(DOMAIN levels), NEW ptr, ptr \notin DOMAIN levels,
         NEW level \in Levels, NEW more, more = With(levels, ptr, level),
         \A p \in DOMAIN levels : levels[p] \in Levels
  PROVE  LevelBytes(levels) \in Nat /\ LevelBytes(more) = LevelBytes(levels) + BlockSize(level)
<1>a. PICK D, T : D = DOMAIN levels /\ T = DOMAIN more
  OBVIOUS
<1>b. PICK l, m : l = AsList(levels) /\ m = AsList(more)
  OBVIOUS
<1>1. /\ T = D \cup {ptr} /\ more[ptr] = level /\ \A p \in D : more[p] = levels[p]
  BY <1>a DEF With
<1>2. IsFiniteSet(T) /\ D \in SUBSET T /\ T \ {ptr} = D /\ ptr \in T /\ IsFiniteSet(D)
  <2>1. IsFiniteSet(D) /\ ptr \notin D
    BY <1>a
  <2>2. IsFiniteSet(D \cup {ptr})
    BY <2>1, FS_AddElement
  <2> QED BY <1>1, <2>1, <2>2
<1>3. PICK f : Sums(l, SUBSET D, f) /\ LevelBytes(levels) = f[D]
  BY <1>a, <1>b, LevelBytesFacts
<1>4. PICK g : Sums(m, SUBSET T, g) /\ LevelBytes(more) = g[T]
  BY <1>2, <1>a, <1>b, LevelBytesFacts
<1>5. /\ \A p \in D : SizeIn(l, p) = BlockSize(levels[p])
      /\ \A p \in T : SizeIn(m, p) = BlockSize(more[p])
  BY <1>2, <1>a, <1>b, LevelBytesFacts
<1>6. \A p \in T : SizeIn(m, p) \in Nat
  BY <1>1, <1>5, <1>a, SizeFacts
<1>7. f[D] = g[D]
  <2>1. \A p \in D : SizeIn(l, p) = SizeIn(m, p)
    BY <1>1, <1>5
  <2> QED BY <1>2, <1>3, <1>4, <2>1, SumsAgree
<1>8. \A s \in SUBSET T : g[s] \in Nat /\ \A p \in s : g[s] = SizeIn(m, p) + g[s \ {p}]
  BY <1>2, <1>4, <1>6, SumsInAnyOrder
<1>9. g[T] = SizeIn(m, ptr) + g[D] /\ g[D] \in Nat
  <2>1. T \in SUBSET T
    OBVIOUS
  <2> QED BY <1>2, <1>8, <2>1
<1>10. SizeIn(m, ptr) = BlockSize(level) /\ BlockSize(level) \in Nat
  BY <1>1, <1>2, <1>5, SizeFacts
<1> QED BY <1>3, <1>4, <1>7, <1>9, <1>10

\* What set_used and update_parents leave when a block of this node is taken.
TookNode(b, c, index, level) ==
  /\ c \in BuddyStates
  /\ \A i \in Nodes : c.used[i] <=> b.used[i] \/ index \in Ancestors(i)
  /\ \A i \in Nodes : i \in Ancestors(index) => c.used_subnodes[i] = b.used_subnodes[i] + 1
  /\ \A i \in Nodes : i \notin Ancestors(index) => c.used_subnodes[i] = b.used_subnodes[i]
  /\ c.used_mem = b.used_mem + BlockSize(level)
  /\ c.mem_chuncks = b.mem_chuncks + 1

\* And when it is given back.
GaveNode(b, c, index, level) ==
  /\ c \in BuddyStates
  /\ \A i \in Nodes : c.used[i] <=> b.used[i] /\ index \notin Ancestors(i)
  /\ \A i \in Nodes : i \in Ancestors(index) => c.used_subnodes[i] = b.used_subnodes[i] - 1
  /\ \A i \in Nodes : i \notin Ancestors(index) => c.used_subnodes[i] = b.used_subnodes[i]
  /\ c.used_mem = b.used_mem - BlockSize(level)
  /\ c.mem_chuncks = b.mem_chuncks - 1

\* One block more than others, and its node one more than theirs.
OneMore(less, more, ptr, level, index) ==
  /\ Placed(less) /\ Placed(more) /\ level \in Levels
  /\ ptr \notin DOMAIN less /\ more = With(less, ptr, level)
  /\ index = NodeAt(ptr, level) /\ index \in Nodes /\ index \notin TakenNodes(less)
  /\ \A j \in TakenNodes(less) : j \notin Ancestors(index) /\ index \notin Ancestors(j)

\* What one block more makes of what the tree counts.
LEMMA OneMoreFacts ==
  ASSUME NEW less, NEW more, NEW ptr, NEW level, NEW index, OneMore(less, more, ptr, level, index)
  PROVE  /\ TakenNodes(more) = TakenNodes(less) \cup {index}
         /\ Cardinality(TakenNodes(more)) = Cardinality(TakenNodes(less)) + 1
         /\ Cardinality(DOMAIN more) = Cardinality(DOMAIN less) + 1
         /\ LevelBytes(more) = LevelBytes(less) + BlockSize(level)
         /\ LevelBytes(less) \in Nat
         /\ \A i \in Nodes : i \in Ancestors(index) =>
              Cardinality(Below(i, TakenNodes(more))) = Cardinality(Below(i, TakenNodes(less))) + 1
         /\ \A i \in Nodes : i \notin Ancestors(index) =>
              Below(i, TakenNodes(more)) = Below(i, TakenNodes(less))
         /\ \A i \in Nodes : Cardinality(Below(i, TakenNodes(less))) \in Nat
<1>a. PICK T, U : T = TakenNodes(less) /\ U = TakenNodes(more)
  OBVIOUS
<1>b. PICK D : D = DOMAIN less
  OBVIOUS
<1>0. /\ Placed(less) /\ level \in Levels /\ ptr \notin D /\ more = With(less, ptr, level)
      /\ index = NodeAt(ptr, level) /\ index \in Nodes /\ index \notin T
  BY <1>a, <1>b DEF OneMore
<1>1. DOMAIN more = D \cup {ptr} /\ more[ptr] = level /\ \A p \in D : more[p] = less[p]
  BY <1>0, <1>b DEF With
<1>2. U = T \cup {index}
  <2>1. \A p \in D : NodeAt(p, more[p]) = NodeAt(p, less[p])
    BY <1>1
  <2>2. NodeAt(ptr, more[ptr]) = index
    BY <1>0, <1>1
  <2>3. T = {NodeAt(p, less[p]) : p \in D} /\ U = {NodeAt(p, more[p]) : p \in D \cup {ptr}}
    BY <1>1, <1>a, <1>b DEF TakenNodes
  <2>4. \A x : x \in U <=> x \in T \/ x = index
    BY <2>1, <2>2, <2>3
  <2> QED BY <2>4
<1>3. IsFiniteSet(T) /\ IsFiniteSet(D) /\ \A p \in D : less[p] \in Levels
  BY <1>0, <1>a, <1>b, PlacedFacts
<1>4. /\ Cardinality(U) = Cardinality(T) + 1 /\ Cardinality(D \cup {ptr}) = Cardinality(D) + 1
  BY <1>0, <1>2, <1>3, FS_AddElement
<1>5. LevelBytes(more) = LevelBytes(less) + BlockSize(level) /\ LevelBytes(less) \in Nat
  BY <1>0, <1>3, <1>b, LevelBytesOfOneMore
<1>6. \A i \in Nodes : IsFiniteSet(Below(i, T)) /\ Cardinality(Below(i, T)) \in Nat
                       /\ index \notin Below(i, T)
  BY <1>0, <1>3, FS_Subset, FS_CardinalityType DEF Below
<1>7. ASSUME NEW i \in Nodes, i \in Ancestors(index)
      PROVE  Cardinality(Below(i, U)) = Cardinality(Below(i, T)) + 1
  <2>1. Below(i, U) = Below(i, T) \cup {index}
    BY <1>2, <1>7 DEF Below
  <2> QED BY <1>6, <2>1, FS_AddElement
<1>8. ASSUME NEW i \in Nodes, i \notin Ancestors(index) PROVE Below(i, U) = Below(i, T)
  BY <1>2, <1>8 DEF Below
<1> QED BY <1>1, <1>2, <1>4, <1>5, <1>6, <1>7, <1>8, <1>a, <1>b

\* Taking a free node.
LEMMA TookKeepsBuddyInv ==
  ASSUME NEW b, NEW less, BuddyInv(b, less), NEW more, NEW ptr, NEW level, NEW index,
         OneMore(less, more, ptr, level, index), NEW c, TookNode(b, c, index, level)
  PROVE  BuddyInv(c, more)
<1>a. PICK T, U : T = TakenNodes(less) /\ U = TakenNodes(more)
  OBVIOUS
<1>1. /\ U = T \cup {index} /\ Cardinality(U) = Cardinality(T) + 1
      /\ Cardinality(DOMAIN more) = Cardinality(DOMAIN less) + 1
      /\ LevelBytes(more) = LevelBytes(less) + BlockSize(level)
      /\ \A i \in Nodes : i \in Ancestors(index) =>
           Cardinality(Below(i, U)) = Cardinality(Below(i, T)) + 1
      /\ \A i \in Nodes : i \notin Ancestors(index) => Below(i, U) = Below(i, T)
  BY <1>a, OneMoreFacts
<1>2. /\ \A i \in Nodes : b.used[i] <=> \E j \in T : j \in Ancestors(i)
      /\ \A i \in Nodes : b.used_subnodes[i] = Cardinality(Below(i, T))
      /\ Cardinality(T) = Cardinality(DOMAIN less)
      /\ b.used_mem = LevelBytes(less) /\ b.mem_chuncks = Cardinality(DOMAIN less)
  BY <1>a DEF BuddyInv, Marked, Tallied
<1>3. \A i \in Nodes : c.used[i] <=> \E j \in U : j \in Ancestors(i)
  BY <1>1, <1>2 DEF TookNode
<1>4. ASSUME NEW i \in Nodes PROVE c.used_subnodes[i] = Cardinality(Below(i, U))
  BY <1>1, <1>2 DEF TookNode
<1>5. Tallied(c, more)
  BY <1>1, <1>2, <1>a DEF TookNode, Tallied
<1>6. c \in BuddyStates /\ Placed(more)
  BY DEF TookNode, OneMore
<1> QED BY <1>3, <1>4, <1>5, <1>6, <1>a DEF BuddyInv, Marked

\* Giving a node back.
LEMMA GaveKeepsBuddyInv ==
  ASSUME NEW b, NEW more, BuddyInv(b, more), NEW less, NEW ptr, NEW level, NEW index,
         OneMore(less, more, ptr, level, index), NEW c, GaveNode(b, c, index, level)
  PROVE  BuddyInv(c, less)
<1>a. PICK T, U : T = TakenNodes(less) /\ U = TakenNodes(more)
  OBVIOUS
<1>1. /\ U = T \cup {index} /\ Cardinality(U) = Cardinality(T) + 1
      /\ Cardinality(DOMAIN more) = Cardinality(DOMAIN less) + 1
      /\ LevelBytes(more) = LevelBytes(less) + BlockSize(level)
      /\ \A i \in Nodes : i \in Ancestors(index) =>
           Cardinality(Below(i, U)) = Cardinality(Below(i, T)) + 1
      /\ \A i \in Nodes : i \notin Ancestors(index) => Below(i, U) = Below(i, T)
      /\ \A i \in Nodes : Cardinality(Below(i, T)) \in Nat
      /\ LevelBytes(less) \in Nat
  BY <1>a, OneMoreFacts
<1>2. /\ \A i \in Nodes : b.used[i] <=> \E j \in U : j \in Ancestors(i)
      /\ \A i \in Nodes : b.used_subnodes[i] = Cardinality(Below(i, U))
      /\ Cardinality(U) = Cardinality(DOMAIN more)
      /\ b.used_mem = LevelBytes(more) /\ b.mem_chuncks = Cardinality(DOMAIN more)
  BY <1>a DEF BuddyInv, Marked, Tallied
<1>3. /\ level \in Levels /\ BlockSize(level) \in Nat
      /\ Cardinality(T) \in Nat /\ Cardinality(DOMAIN less) \in Nat
      /\ \A j \in T : j \notin Ancestors(index) /\ index \notin Ancestors(j)
  BY <1>a, SizeFacts, PlacedFacts DEF OneMore
<1>4. ASSUME NEW i \in Nodes PROVE c.used[i] <=> \E j \in T : j \in Ancestors(i)
  <2>1. index \in Ancestors(i) => \A j \in T : j \notin Ancestors(i)
    <3>1. \A j, h \in Ancestors(i) : j \in Ancestors(h) \/ h \in Ancestors(j)
      BY <1>4, AncestorsFacts
    <3> QED BY <1>3, <3>1
  <2>2. c.used[i] <=> b.used[i] /\ index \notin Ancestors(i)
    BY DEF GaveNode
  <2> QED BY <1>1, <1>2, <2>1, <2>2
<1>5. ASSUME NEW i \in Nodes PROVE c.used_subnodes[i] = Cardinality(Below(i, T))
  <2>1. b.used_subnodes[i] = Cardinality(Below(i, U)) /\ Cardinality(Below(i, T)) \in Nat
    BY <1>1, <1>2
  <2>2. CASE i \in Ancestors(index)
    <3>1. Cardinality(Below(i, U)) = Cardinality(Below(i, T)) + 1
      BY <1>1, <2>2
    <3>2. c.used_subnodes[i] = b.used_subnodes[i] - 1
      BY <2>2 DEF GaveNode
    <3> QED BY <2>1, <3>1, <3>2
  <2>3. CASE i \notin Ancestors(index)
    <3>1. Below(i, U) = Below(i, T)
      BY <1>1, <2>3
    <3>2. c.used_subnodes[i] = b.used_subnodes[i]
      BY <2>3 DEF GaveNode
    <3> QED BY <2>1, <3>1, <3>2
  <2> QED BY <2>2, <2>3
<1>6. Tallied(c, less)
  BY <1>1, <1>2, <1>3, <1>a DEF GaveNode, Tallied
<1>7. c \in BuddyStates /\ Placed(less)
  BY DEF GaveNode, OneMore
<1> QED BY <1>4, <1>5, <1>6, <1>7, <1>a DEF BuddyInv, Marked

----------------------------------------------------------------------------
(* The calls on the tree *)

\* set_used marks what is below a node and counts at what is above it.
LEMMA SetUsedFacts ==
  ASSUME NEW b \in BuddyStates, NEW index, NEW state \in BOOLEAN, NEW c, c = SetUsed(b, index, state)
  PROVE  /\ c \in BuddyStates
         /\ \A i \in Nodes : index \in Ancestors(i) => (c.used[i] <=> state)
         /\ \A i \in Nodes : index \notin Ancestors(i) => (c.used[i] <=> b.used[i])
         /\ \A i \in Nodes : i \in Ancestors(index) =>
              c.used_subnodes[i] = b.used_subnodes[i] + (IF state THEN 1 ELSE -1)
         /\ \A i \in Nodes : i \notin Ancestors(index) => c.used_subnodes[i] = b.used_subnodes[i]
         /\ c.used_mem = b.used_mem /\ c.mem_chuncks = b.mem_chuncks
<1>a. PICK marks : marks = [i \in Nodes |-> IF index \in Ancestors(i) THEN state ELSE b.used[i]]
  OBVIOUS
<1>b. PICK delta \in Int : delta = IF state THEN 1 ELSE -1
  OBVIOUS
<1>c. PICK counts : counts = [i \in Nodes |->
                                b.used_subnodes[i] + (IF i \in Ancestors(index) THEN delta ELSE 0)]
  OBVIOUS
<1>1. b.used \in [Nodes -> BOOLEAN] /\ b.used_subnodes \in [Nodes -> Int]
      /\ b.used_mem \in Int /\ b.mem_chuncks \in Int
  BY DEF BuddyStates
<1>2. c = [b EXCEPT !.used = marks, !.used_subnodes = counts]
  BY <1>a, <1>b, <1>c, Zenon DEF SetUsed
<1>3. c.used = marks /\ c.used_subnodes = counts
      /\ c.used_mem = b.used_mem /\ c.mem_chuncks = b.mem_chuncks
      /\ c = [used |-> marks, used_subnodes |-> counts,
              used_mem |-> b.used_mem, mem_chuncks |-> b.mem_chuncks]
  BY <1>2 DEF BuddyStates
<1>4. marks \in [Nodes -> BOOLEAN]
  BY <1>1, <1>a
<1>5. counts \in [Nodes -> Int]
  BY <1>1, <1>c
<1>6. /\ \A i \in Nodes : index \in Ancestors(i) => (marks[i] <=> state)
      /\ \A i \in Nodes : index \notin Ancestors(i) => (marks[i] <=> b.used[i])
  BY <1>a
<1>7. /\ \A i \in Nodes : i \in Ancestors(index) => counts[i] = b.used_subnodes[i] + delta
      /\ \A i \in Nodes : i \notin Ancestors(index) => counts[i] = b.used_subnodes[i]
  BY <1>1, <1>c
<1>8. c \in BuddyStates
  BY <1>1, <1>3, <1>4, <1>5 DEF BuddyStates
<1> QED BY <1>3, <1>6, <1>7, <1>8, <1>b

\* get_level stops: at the root the rest is less than a block.
LEMMA LevelFacts ==
  ASSUME NEW size \in Nat, size > 0, size <= HEAP_SIZE
  PROVE  GetLevel(size) \in Levels
<1>a. PICK x : x = size - 1
  OBVIOUS
<1> DEFINE I == {level \in Levels : x \div Pow(level) <= MIN_BLOCK}
           Right(level) == /\ (size - 1) \div 2 ^ level <= MIN_BLOCK
                           /\ \A lower \in 0 .. level - 1 : (size - 1) \div 2 ^ lower > MIN_BLOCK
<1>1. MAX_LEVEL \in Levels /\ Levels \subseteq Nat /\ x \in Nat /\ MIN_BLOCK \in Nat /\ HEAP_SIZE \in Nat
      /\ MAX_LEVEL \in Nat
  BY <1>a, SizeFacts DEF Levels
<1>2. \A level \in Nat : x \div Pow(level) \in Int
  BY <1>1, PowFacts, Quotients
<1>3. MAX_LEVEL \in I
  <2>a. PICK p, q : p = Pow(MAX_LEVEL) /\ q = x \div p
    OBVIOUS
  <2>1. p \in Nat /\ p > 0
    BY <1>1, <2>a, PowFacts
  <2>2. q \in Int /\ p * q <= x
    BY <1>1, <2>1, <2>a, Quotients
  <2>3. HEAP_SIZE = p * MIN_BLOCK
    BY <2>a DEF HEAP_SIZE, Pow
  <2>4. p * q < p * MIN_BLOCK
    <3>1. p * q \in Int /\ x < HEAP_SIZE
      BY <1>1, <1>a, <2>1, <2>2
    <3> QED BY <1>1, <2>2, <2>3, <3>1
  <2>5. q < MIN_BLOCK
    BY <1>1, <2>1, <2>2, <2>4, Products
  <2> QED BY <1>1, <2>2, <2>5, <2>a
<1>b. PICK m : m = Min(I)
  OBVIOUS
<1>4. m \in I /\ \A level \in I : m <= level
  <2>1. I \in SUBSET Nat /\ I # {}
    BY <1>1, <1>3
  <2> HIDE DEF I
  <2> QED BY <1>b, <2>1, MinFacts
<1>5. m \in Levels /\ m \in Nat /\ x \div Pow(m) <= MIN_BLOCK
  BY <1>1, <1>4
<1>6. ASSUME NEW lower \in 0 .. m - 1 PROVE x \div Pow(lower) > MIN_BLOCK
  <2>0. MAX_LEVEL \in Nat /\ m \in Levels /\ m \in Nat
    BY <1>1, <1>5
  <2>1. lower \in Levels /\ lower \in Nat /\ ~(m <= lower)
    BY <2>0 DEF Levels
  <2>2. lower \notin I
    BY <1>4, <2>1
  <2>3. ~(x \div Pow(lower) <= MIN_BLOCK) /\ x \div Pow(lower) \in Int
    BY <1>2, <2>1, <2>2
  <2> QED BY <1>1, <2>3
<1>7. Right(m)
  <2>1. \A n : 2 ^ n = Pow(n)
    BY DEF Pow
  <2>2. (size - 1) \div 2 ^ m <= MIN_BLOCK
    BY <1>5, <1>a, <2>1, Zenon
  <2>3. \A lower \in 0 .. m - 1 : (size - 1) \div 2 ^ lower > MIN_BLOCK
    BY <1>6, <1>a, <2>1, Zenon
  <2> QED BY <2>2, <2>3
<1>8. GetLevel(size) = CHOOSE level \in Levels : Right(level)
  BY DEF GetLevel
<1> HIDE DEF Right, I
<1> QED BY <1>5, <1>7, <1>8

\* mm_alloc's pointer is that of a free node of its level.
LEMMA FitsFacts ==
  ASSUME NEW b, NEW size \in Nat, size > 0, NEW ptr \in BuddyFits(b, size)
  PROVE  /\ GetLevel(size) \in Levels
         /\ \E index \in FreeIndices(b, GetLevel(size)) : ptr = GetPtr(index, GetLevel(size))
<1>a. PICK level, free : level = GetLevel(size) /\ free = FreeIndices(b, level)
  OBVIOUS
<1>1. ~(size > HEAP_SIZE) /\ free # {} /\ ptr = GetPtr(Min(free), level)
  BY <1>a DEF BuddyFits
<1>2. level \in Levels
  BY <1>1, <1>a, SizeFacts, LevelFacts
<1>3. GetFirstIndex(level) \in Nat
  <2>1. Pow(MAX_LEVEL - level) \in Nat /\ Pow(MAX_LEVEL - level) >= 1
    BY <1>2, SizeFacts, PowFacts
  <2> QED BY <2>1 DEF GetFirstIndex, Pow
<1>4. free \in SUBSET Nat
  <2>1. free \subseteq GetFirstIndex(level) .. GetFirstIndex(level - 1) - 1
    BY <1>a DEF FreeIndices
  <2> QED BY <1>3, <2>1
<1>5. Min(free) \in free
  BY <1>1, <1>4, MinFacts
<1> QED BY <1>1, <1>2, <1>5, <1>a

\* Handing out a free block leaves no block part of another.
LEMMA PlacedWithFree ==
  ASSUME NEW b, NEW levels, BuddyInv(b, levels), NEW level \in Levels,
         NEW index \in FreeIndices(b, level), NEW ptr, ptr = GetPtr(index, level),
         NEW more, more = With(levels, ptr, level)
  PROVE  OneMore(levels, more, ptr, level, index)
<1>1. /\ IsBlock(ptr, level) /\ NodeAt(ptr, level) = index /\ index \in Nodes
      /\ \A j \in TakenNodes(levels) : j \notin Ancestors(index) /\ index \notin Ancestors(j)
      /\ ptr \notin DOMAIN levels
  BY FreeNode
<1>2. Placed(levels)
  BY DEF BuddyInv
<1>3. index \notin TakenNodes(levels)
  BY <1>1, AncestorsFacts
<1>a. PICK D : D = DOMAIN levels
  OBVIOUS
<1>4. DOMAIN more = D \cup {ptr} /\ more[ptr] = level /\ \A p \in D : more[p] = levels[p]
  BY <1>1, <1>a DEF With
<1>5. \A p \in D : IsBlock(p, more[p])
  BY <1>2, <1>4, <1>a DEF Placed
<1>6. \A p \in DOMAIN more : IsBlock(p, more[p])
  BY <1>1, <1>4, <1>5
<1>7. \A p \in D : NodeAt(p, more[p]) = NodeAt(p, levels[p]) /\ NodeAt(p, more[p]) \in TakenNodes(levels)
  BY <1>4, <1>a DEF TakenNodes
<1>8. NodeAt(ptr, more[ptr]) = index
  BY <1>1, <1>4
<1>9. ASSUME NEW p \in DOMAIN more, NEW q \in DOMAIN more, p # q
      PROVE  NodeAt(p, more[p]) \notin Ancestors(NodeAt(q, more[q]))
  <2>1. CASE p = ptr
    BY <1>1, <1>4, <1>7, <1>8, <1>9, <2>1
  <2>2. CASE q = ptr
    BY <1>1, <1>4, <1>7, <1>8, <1>9, <2>2
  <2>3. CASE p # ptr /\ q # ptr
    <3>1. p \in D /\ q \in D
      BY <1>4, <2>3
    <3>2. NodeAt(p, levels[p]) \notin Ancestors(NodeAt(q, levels[q]))
      BY <1>2, <1>9, <1>a, <3>1 DEF Placed
    <3> QED BY <1>7, <3>1, <3>2
  <2> QED BY <2>1, <2>2, <2>3
<1>10. Placed(more)
  BY <1>6, <1>9 DEF Placed
<1> QED BY <1>1, <1>2, <1>3, <1>10 DEF OneMore

\* mm_alloc takes the node that covers its pointer.
LEMMA TakeIsTookNode ==
  ASSUME NEW b \in BuddyStates, NEW ptr, NEW size, GetLevel(size) \in Levels,
         NEW c, c = BuddyTake(b, ptr, size)
  PROVE  TookNode(b, c, NodeAt(ptr, GetLevel(size)), GetLevel(size))
<1>a. PICK level, index : level = GetLevel(size) /\ index = NodeAt(ptr, level)
  OBVIOUS
<1>b. PICK state \in BOOLEAN : state
  OBVIOUS
<1>c. PICK d : d = SetUsed(b, index, state)
  OBVIOUS
<1>1. /\ d \in BuddyStates
      /\ \A i \in Nodes : index \in Ancestors(i) => (d.used[i] <=> state)
      /\ \A i \in Nodes : index \notin Ancestors(i) => (d.used[i] <=> b.used[i])
      /\ \A i \in Nodes : i \in Ancestors(index) =>
           d.used_subnodes[i] = b.used_subnodes[i] + (IF state THEN 1 ELSE -1)
      /\ \A i \in Nodes : i \notin Ancestors(index) => d.used_subnodes[i] = b.used_subnodes[i]
      /\ d.used_mem = b.used_mem /\ d.mem_chuncks = b.mem_chuncks
  BY <1>c, SetUsedFacts
<1>2. d = SetUsed(b, index, TRUE)
  <2>1. state = TRUE
    BY <1>b, SMT
  <2> QED BY <1>c, <2>1, Zenon
<1>3. c = [d EXCEPT !.used_mem = @ + BlockSize(level), !.mem_chuncks = @ + 1]
  BY <1>2, <1>a, Zenon DEF BuddyTake
<1>4. BlockSize(level) \in Int
  BY <1>a, SizeFacts
<1>5. /\ c \in BuddyStates /\ c.used = d.used /\ c.used_subnodes = d.used_subnodes
      /\ c.used_mem = d.used_mem + BlockSize(level) /\ c.mem_chuncks = d.mem_chuncks + 1
  <2>1. /\ d.used \in [Nodes -> BOOLEAN] /\ d.used_subnodes \in [Nodes -> Int]
        /\ d.used_mem \in Int /\ d.mem_chuncks \in Int
    BY <1>1 DEF BuddyStates
  <2>a. PICK mem, chuncks : mem = d.used_mem + BlockSize(level) /\ chuncks = d.mem_chuncks + 1
    OBVIOUS
  <2>2. mem \in Int /\ chuncks \in Int
    BY <1>4, <2>1, <2>a
  <2>3. c = [d EXCEPT !.used_mem = mem, !.mem_chuncks = chuncks]
    BY <1>3, <2>a, Zenon
  <2>4. /\ c = [used |-> d.used, used_subnodes |-> d.used_subnodes, used_mem |-> mem,
                mem_chuncks |-> chuncks]
        /\ c.used = d.used /\ c.used_subnodes = d.used_subnodes
        /\ c.used_mem = mem /\ c.mem_chuncks = chuncks
    BY <1>1, <2>3 DEF BuddyStates
  <2> QED BY <2>1, <2>2, <2>4, <2>a DEF BuddyStates
<1>6. \A i \in Nodes : c.used[i] <=> b.used[i] \/ index \in Ancestors(i)
  BY <1>1, <1>5, <1>b
<1>7. \A i \in Nodes : i \in Ancestors(index) => c.used_subnodes[i] = b.used_subnodes[i] + 1
  BY <1>1, <1>5, <1>b
<1> QED BY <1>1, <1>5, <1>6, <1>7, <1>a DEF TookNode

\* mm_alloc.
LEMMA TakeKeepsBuddyInv ==
  ASSUME NEW b, NEW levels, BuddyInv(b, levels), NEW size \in Nat, size > 0,
         NEW ptr \in BuddyFits(b, size)
  PROVE  /\ GetLevel(size) \in Levels
         /\ OneMore(levels, With(levels, ptr, GetLevel(size)), ptr, GetLevel(size),
                    NodeAt(ptr, GetLevel(size)))
         /\ BuddyInv(BuddyTake(b, ptr, size), With(levels, ptr, GetLevel(size)))
<1>a. PICK level : level = GetLevel(size)
  OBVIOUS
<1>1. level \in Levels
  BY <1>a, FitsFacts
<1>2. PICK index \in FreeIndices(b, level) : ptr = GetPtr(index, level)
  BY <1>a, FitsFacts
<1>3. index = NodeAt(ptr, level)
  BY <1>1, <1>2, FreeNode
<1>b. PICK more, c : more = With(levels, ptr, level) /\ c = BuddyTake(b, ptr, size)
  OBVIOUS
<1>4. OneMore(levels, more, ptr, level, index)
  BY <1>1, <1>2, <1>b, PlacedWithFree
<1>5. TookNode(b, c, index, level)
  BY <1>1, <1>3, <1>a, <1>b, TakeIsTookNode DEF BuddyInv
<1>6. BuddyInv(c, more)
  BY <1>4, <1>5, TookKeepsBuddyInv
<1> QED BY <1>1, <1>3, <1>4, <1>6, <1>a, <1>b

\* The first used node on the way down to a block is that of the block.
LEMMA SearchFinds ==
  ASSUME NEW b, NEW levels, BuddyInv(b, levels), NEW ptr \in DOMAIN levels
  PROVE  SearchNode(b, ptr) = {levels[ptr]}
<1>a. PICK l, taken : l = levels[ptr] /\ taken = TakenNodes(levels)
  OBVIOUS
<1>1. /\ IsBlock(ptr, l) /\ l \in Levels /\ ptr \in Addresses /\ NodeAt(ptr, l) \in taken
      /\ l \in Nat /\ MAX_LEVEL \in Nat
  BY <1>a, SizeFacts DEF BuddyInv, Placed, IsBlock, TakenNodes
<1>2. GetPtr(NodeAt(ptr, l), l) = ptr /\ ptr % 2 ^ l = 0
  BY <1>1, BuddyBlockFacts, BlockMultiples
<1>b. PICK top : top = GetMaxLevel(ptr)
  OBVIOUS
<1>3. top \in Levels /\ l <= top
  <2>a. PICK aligned : aligned = {level \in Levels : ptr % 2 ^ level = 0}
    OBVIOUS
  <2>1. l \in aligned /\ aligned \in SUBSET (0 .. MAX_LEVEL)
    BY <1>1, <1>2, <2>a, Zenon DEF Levels
  <2>2. top = Max(aligned)
    BY <1>b, <2>a DEF GetMaxLevel
  <2>3. top \in aligned /\ l <= top
    BY <1>1, <2>1, <2>2, MaxFacts
  <2> QED BY <2>3, <2>a
<1>c. PICK used : used = {level \in 0 .. top : b.used[NodeAt(ptr, level)]}
  OBVIOUS
<1>4. \A level \in 0 .. top : level \in Levels /\ level \in Nat /\ NodeAt(ptr, level) \in Nodes
  BY <1>1, <1>3, NodeFacts DEF Levels
<1>5. \A i \in Nodes : b.used[i] <=> \E j \in taken : j \in Ancestors(i)
  BY <1>a DEF BuddyInv, Marked
<1>6. l \in used
  <2>1. l \in 0 .. top
    BY <1>1, <1>3 DEF Levels
  <2>2. NodeAt(ptr, l) \in Ancestors(NodeAt(ptr, l))
    BY <1>4, <2>1, AncestorsFacts
  <2> QED BY <1>1, <1>4, <1>5, <1>c, <2>1, <2>2
<1>7. ASSUME NEW h \in used PROVE h <= l
  <2>1. h \in 0 .. top /\ h \in Levels /\ h \in Nat /\ b.used[NodeAt(ptr, h)]
    BY <1>4, <1>c
  <2>2. PICK j \in taken : j \in Ancestors(NodeAt(ptr, h))
    BY <1>4, <1>5, <2>1
  <2>3. PICK g \in h .. MAX_LEVEL : j = NodeAt(ptr, g)
    BY <1>1, <2>1, <2>2, AncestorsOfNode
  <2>4. PICK q \in DOMAIN levels : j = NodeAt(q, levels[q])
    BY <1>a DEF TakenNodes
  <2> SUFFICES ASSUME l < h PROVE FALSE
    BY <1>1, <2>1
  <2>5. g \in Levels /\ g \in l .. MAX_LEVEL /\ l < g
    BY <1>1, <2>1, <2>3 DEF Levels
  <2>6. j \in Ancestors(NodeAt(ptr, l))
    BY <1>1, <2>3, <2>5, AncestorsOfNode
  <2>7. q = ptr
    BY <1>a, <2>4, <2>6 DEF BuddyInv, Placed
  <2>8. NodeAt(ptr, g) = NodeAt(ptr, l)
    BY <1>a, <2>3, <2>4, <2>7
  <2>9. g = l
    BY <1>1, <2>5, <2>8, LevelsApart
  <2> QED BY <1>1, <2>5, <2>9
<1>8. Max(used) = l
  <2>1. used \in SUBSET (0 .. top) /\ top \in Nat
    BY <1>1, <1>3, <1>c DEF Levels
  <2>2. Max(used) \in used /\ l <= Max(used)
    BY <1>6, <2>1, MaxFacts
  <2>3. Max(used) <= l /\ Max(used) \in Nat
    BY <1>4, <1>7, <1>c, <2>2
  <2> QED BY <1>1, <2>2, <2>3
<1>9. SearchNode(b, ptr) = {level \in {Max(used)} : GetPtr(NodeAt(ptr, level), level) = ptr}
  BY <1>6, <1>b, <1>c, Zenon DEF SearchNode
<1> QED BY <1>2, <1>8, <1>9, <1>a

\* mm_free gives back the node that search_node finds.
LEMMA FreeIsGaveNode ==
  ASSUME NEW b \in BuddyStates, NEW ptr, NEW level \in Levels, SearchNode(b, ptr) = {level},
         NEW c, c = BuddyFree(b, ptr)
  PROVE  GaveNode(b, c, NodeAt(ptr, level), level)
<1>a. PICK index : index = NodeAt(ptr, level)
  OBVIOUS
<1>b. PICK state \in BOOLEAN : ~state
  OBVIOUS
<1>c. PICK d : d = SetUsed(b, index, state)
  OBVIOUS
<1>1. /\ d \in BuddyStates
      /\ \A i \in Nodes : index \in Ancestors(i) => (d.used[i] <=> state)
      /\ \A i \in Nodes : index \notin Ancestors(i) => (d.used[i] <=> b.used[i])
      /\ \A i \in Nodes : i \in Ancestors(index) =>
           d.used_subnodes[i] = b.used_subnodes[i] + (IF state THEN 1 ELSE -1)
      /\ \A i \in Nodes : i \notin Ancestors(index) => d.used_subnodes[i] = b.used_subnodes[i]
      /\ d.used_mem = b.used_mem /\ d.mem_chuncks = b.mem_chuncks
  BY <1>c, SetUsedFacts
<1>2. d = SetUsed(b, index, FALSE)
  <2>1. state = FALSE
    BY <1>b, SMT
  <2> QED BY <1>c, <2>1, Zenon
<1>3. Max({level}) = level
  <2>1. level \in Nat /\ {level} \in SUBSET (0 .. level)
    BY SizeFacts
  <2>2. Max({level}) \in {level}
    BY <2>1, MaxFacts
  <2> QED BY <2>2
<1>4. c = [d EXCEPT !.used_mem = @ - BlockSize(level), !.mem_chuncks = @ - 1]
  <2>1. {level} # {}
    OBVIOUS
  <2> QED BY <1>2, <1>3, <1>a, <2>1, Zenon DEF BuddyFree
<1>5. BlockSize(level) \in Int
  BY SizeFacts
<1>6. /\ c \in BuddyStates /\ c.used = d.used /\ c.used_subnodes = d.used_subnodes
      /\ c.used_mem = d.used_mem - BlockSize(level) /\ c.mem_chuncks = d.mem_chuncks - 1
  <2>1. /\ d.used \in [Nodes -> BOOLEAN] /\ d.used_subnodes \in [Nodes -> Int]
        /\ d.used_mem \in Int /\ d.mem_chuncks \in Int
    BY <1>1 DEF BuddyStates
  <2>a. PICK mem, chuncks : mem = d.used_mem - BlockSize(level) /\ chuncks = d.mem_chuncks - 1
    OBVIOUS
  <2>2. mem \in Int /\ chuncks \in Int
    BY <1>5, <2>1, <2>a
  <2>3. c = [d EXCEPT !.used_mem = mem, !.mem_chuncks = chuncks]
    BY <1>4, <2>a, Zenon
  <2>4. /\ c = [used |-> d.used, used_subnodes |-> d.used_subnodes, used_mem |-> mem,
                mem_chuncks |-> chuncks]
        /\ c.used = d.used /\ c.used_subnodes = d.used_subnodes
        /\ c.used_mem = mem /\ c.mem_chuncks = chuncks
    BY <1>1, <2>3 DEF BuddyStates
  <2> QED BY <2>1, <2>2, <2>4, <2>a DEF BuddyStates
<1>7. \A i \in Nodes : c.used[i] <=> b.used[i] /\ index \notin Ancestors(i)
  BY <1>1, <1>6, <1>b
<1>8. \A i \in Nodes : i \in Ancestors(index) => c.used_subnodes[i] = b.used_subnodes[i] - 1
  <2>1. b.used_subnodes \in [Nodes -> Int]
    BY DEF BuddyStates
  <2> QED BY <1>1, <1>6, <1>b, <2>1
<1> QED BY <1>1, <1>6, <1>7, <1>8, <1>a DEF GaveNode

\* Blocks stay apart when one is given back.
LEMMA PlacedWithout ==
  ASSUME NEW levels, Placed(levels), levels = [p \in DOMAIN levels |-> levels[p]],
         NEW ptr \in DOMAIN levels, NEW less, less = [p \in DOMAIN levels \ {ptr} |-> levels[p]]
  PROVE  OneMore(less, levels, ptr, levels[ptr], NodeAt(ptr, levels[ptr]))
<1>a. PICK l, index : l = levels[ptr] /\ index = NodeAt(ptr, l)
  OBVIOUS
<1>b. PICK D : D = DOMAIN levels
  OBVIOUS
<1>1. DOMAIN less = D \ {ptr} /\ \A p \in D \ {ptr} : less[p] = levels[p]
  BY <1>b
<1>2. l \in Levels /\ index \in Nodes
  BY <1>a, NodeFacts DEF Placed, IsBlock
<1>3. Placed(less)
  BY <1>1, <1>b DEF Placed
<1>4. levels = With(less, ptr, l)
  <2>1. D = (D \ {ptr}) \cup {ptr}
    BY <1>b
  <2>2. \A p \in D : (IF p = ptr THEN l ELSE less[p]) = levels[p]
    BY <1>1, <1>a
  <2>3. With(less, ptr, l) = [p \in D |-> IF p = ptr THEN l ELSE less[p]]
    BY <1>1, <2>1, Zenon DEF With
  <2>4. levels = [p \in D |-> levels[p]]
    BY <1>b
  <2> QED BY <2>2, <2>3, <2>4
<1>5. ASSUME NEW j \in TakenNodes(less) PROVE j \notin Ancestors(index) /\ index \notin Ancestors(j)
  <2>1. PICK p \in D \ {ptr} : j = NodeAt(p, levels[p])
    BY <1>1 DEF TakenNodes
  <2> QED BY <1>a, <1>b, <2>1 DEF Placed
<1>6. index \notin TakenNodes(less)
  BY <1>2, <1>5, AncestorsFacts
<1> QED BY <1>1, <1>2, <1>3, <1>4, <1>5, <1>6, <1>a DEF OneMore

\* mm_free.
LEMMA FreeKeepsBuddyInv ==
  ASSUME NEW b, NEW levels, BuddyInv(b, levels), levels = [p \in DOMAIN levels |-> levels[p]],
         NEW ptr \in DOMAIN levels, NEW less, less = [p \in DOMAIN levels \ {ptr} |-> levels[p]]
  PROVE  BuddyInv(BuddyFree(b, ptr), less)
<1>a. PICK l, index, c : l = levels[ptr] /\ index = NodeAt(ptr, l) /\ c = BuddyFree(b, ptr)
  OBVIOUS
<1>1. OneMore(less, levels, ptr, l, index)
  BY <1>a, PlacedWithout DEF BuddyInv
<1>2. GaveNode(b, c, index, l)
  <2>1. SearchNode(b, ptr) = {l} /\ l \in Levels /\ b \in BuddyStates
    BY <1>1, <1>a, SearchFinds DEF OneMore, BuddyInv
  <2> QED BY <1>a, <2>1, FreeIsGaveNode
<1>3. BuddyInv(c, less)
  BY <1>1, <1>2, GaveKeepsBuddyInv
<1> QED BY <1>3, <1>a

\* mm_init.
LEMMA BuddyInitInv ==
  ASSUME NEW levels, DOMAIN levels = {}
  PROVE  BuddyInv(BuddyInit, levels)
<1>a. PICK taken : taken = TakenNodes(levels)
  OBVIOUS
<1>1. taken = {}
  BY <1>a DEF TakenNodes
<1>2. BuddyInit \in BuddyStates
  BY DEF BuddyInit, BuddyStates
<1>3. Placed(levels)
  BY DEF Placed
<1>4. Cardinality({}) = 0
  BY FS_EmptySet
<1>5. \A i \in Nodes : Below(i, taken) = {}
  BY <1>1 DEF Below
<1>6. /\ \A i \in Nodes : ~BuddyInit.used[i] /\ BuddyInit.used_subnodes[i] = 0
      /\ BuddyInit.used_mem = 0 /\ BuddyInit.mem_chuncks = 0
  BY DEF BuddyInit
<1>7. Marked(BuddyInit, taken)
  BY <1>1, <1>4, <1>5, <1>6 DEF Marked
<1>8. LevelBytes(levels) = 0
  <2>a. PICK l : l = AsList(levels)
    OBVIOUS
  <2>1. PICK f : Sums(l, SUBSET {}, f) /\ LevelBytes(levels) = f[{}]
    BY <2>a, FS_EmptySet, LevelBytesFacts
  <2> QED BY <2>1 DEF Sums
<1>9. Tallied(BuddyInit, levels)
  BY <1>1, <1>4, <1>6, <1>8, <1>a DEF Tallied
<1> QED BY <1>2, <1>3, <1>7, <1>9, <1>a DEF BuddyInv

----------------------------------------------------------------------------
(* The blocks of clients *)

\* Blocks that are not part of one another share no byte.
LEMMA PlacedAreApart ==
  ASSUME NEW levels, Placed(levels)
  PROVE  /\ \A ptr \in DOMAIN levels :
              /\ ptr \in {n * MIN_BLOCK : n \in 0 .. 2 ^ MAX_LEVEL - 1}
              /\ BlockSize(levels[ptr]) \in {BlockSize(level) : level \in Levels}
              /\ ptr .. ptr + BlockSize(levels[ptr]) - 1 \subseteq 0 .. HEAP_SIZE - 1
         /\ \A p, q \in DOMAIN levels : p # q =>
              (p .. p + BlockSize(levels[p]) - 1) \cap (q .. q + BlockSize(levels[q]) - 1) = {}
<1>1. \A ptr \in DOMAIN levels : IsBlock(ptr, levels[ptr])
  BY DEF Placed
<1>2. \A ptr \in DOMAIN levels : BlockSize(levels[ptr]) \in {BlockSize(level) : level \in Levels}
  BY <1>1 DEF IsBlock
<1>3. \A ptr \in DOMAIN levels : ptr \in {n * MIN_BLOCK : n \in 0 .. 2 ^ MAX_LEVEL - 1}
  BY <1>1, BlockMultiples
<1>4. \A ptr \in DOMAIN levels : ptr .. ptr + BlockSize(levels[ptr]) - 1 \subseteq 0 .. HEAP_SIZE - 1
  BY <1>1, BuddyBlockFacts DEF Addresses
<1>5. ASSUME NEW p \in DOMAIN levels, NEW q \in DOMAIN levels,
             NEW a \in p .. p + BlockSize(levels[p]) - 1, a \in q .. q + BlockSize(levels[q]) - 1,
             levels[p] <= levels[q]
      PROVE  p = q
  <2>a. PICK k, l : k = levels[p] /\ l = levels[q]
    OBVIOUS
  <2>1. k \in Levels /\ l \in Levels /\ a \in Addresses /\ p \in Addresses /\ q \in Addresses
    BY <1>1, <1>5, <2>a, BuddyBlockFacts DEF IsBlock
  <2>2. NodeAt(a, k) = NodeAt(p, k) /\ NodeAt(a, l) = NodeAt(q, l)
    BY <1>1, <1>5, <2>a, BuddyBlockFacts
  <2>3. l \in k .. MAX_LEVEL
    BY <1>5, <2>1, <2>a, SizeFacts DEF Levels
  <2>4. NodeAt(a, l) \in Ancestors(NodeAt(a, k))
    BY <2>1, <2>3, AncestorsOfNode
  <2> QED BY <2>2, <2>4, <2>a DEF Placed
<1>6. ASSUME NEW p \in DOMAIN levels, NEW q \in DOMAIN levels, p # q,
             NEW a \in p .. p + BlockSize(levels[p]) - 1, a \in q .. q + BlockSize(levels[q]) - 1
      PROVE  FALSE
  <2>1. levels[p] \in Int /\ levels[q] \in Int
    BY <1>1, SizeFacts DEF IsBlock
  <2>2. CASE levels[p] <= levels[q]
    BY <1>5, <1>6, <2>2
  <2>3. CASE levels[q] <= levels[p]
    BY <1>5, <1>6, <2>3
  <2> QED BY <2>1, <2>2, <2>3
<1> QED BY <1>2, <1>3, <1>4, <1>6

\* The levels of the blocks that clients have from the buddy system.
ClientLevels == [ptr \in IF manager = "USE_BUDDY" THEN DOMAIN asked ELSE {} |-> LevelOf(ptr)]

Dropped(levels, ptr) == [p \in DOMAIN levels \ {ptr} |-> levels[p]]

\* What a call may do to them.
LevelsTaken(levels, now) ==
  \E ptr, level : OneMore(levels, now, ptr, level, NodeAt(ptr, level))
LevelsSwapped(levels, now, old) ==
  /\ old \in DOMAIN levels
  /\ \E both, ptr, level : /\ OneMore(levels, both, ptr, level, NodeAt(ptr, level))
                           /\ now = With(Dropped(levels, old), ptr, level)

\* Nobody has a block at first.
LEMMA InitEstablishesBuddyInv == MemoryInit => BuddyInv(buddy, ClientLevels) /\ ClientLevels = <<>>
<1> SUFFICES ASSUME MemoryInit PROVE BuddyInv(buddy, ClientLevels) /\ ClientLevels = <<>>
  OBVIOUS
<1>1. buddy = BuddyInit /\ asked = <<>>
  BY DEF MemoryInit
<1>2. DOMAIN ClientLevels = {} /\ ClientLevels = <<>>
  BY <1>1 DEF ClientLevels
<1> QED BY <1>1, <1>2, BuddyInitInv

\* mm_alloc
LEMMA BuddyAllocStep ==
  ASSUME BuddyInv(buddy, ClientLevels), NEW size \in Requests, MmAlloc(size)
  PROVE  /\ BuddyInv(buddy, ClientLevels)'
         /\ UNCHANGED ClientLevels \/ LevelsTaken(ClientLevels, ClientLevels')
<1>a. PICK levels, now : levels = ClientLevels /\ now = ClientLevels'
  OBVIOUS
<1>1. CASE \E ptr \in ListFits(list, size) : ListAlloc(ptr, size)
  <2>1. manager = "USE_LIST" /\ manager' = manager /\ buddy' = buddy
    BY <1>1 DEF ListAlloc
  <2>2. UNCHANGED ClientLevels
    BY <2>1 DEF ClientLevels
  <2> QED BY <2>1, <2>2
<1>2. CASE \E ptr \in BuddyFits(buddy, size) : BuddyAlloc(ptr, size)
  <2>1. PICK ptr \in BuddyFits(buddy, size) :
          /\ manager = "USE_BUDDY" /\ manager' = manager
          /\ buddy' = BuddyTake(buddy, ptr, size) /\ asked' = With(asked, ptr, size)
    BY <1>2 DEF BuddyAlloc
  <2>a. PICK level : level = GetLevel(size)
    OBVIOUS
  <2>2. size \in Nat /\ size > 0
    BY MemoryAssumption
  <2>b. PICK more : more = With(levels, ptr, level)
    OBVIOUS
  <2>3. OneMore(levels, more, ptr, level, NodeAt(ptr, level)) /\ BuddyInv(buddy', more)
    BY <1>a, <2>1, <2>2, <2>a, <2>b, TakeKeepsBuddyInv
  <2>4. now = more
    <3>1. levels = [p \in DOMAIN asked |-> GetLevel(asked[p])]
      BY <1>a, <2>1 DEF ClientLevels, LevelOf
    <3>2. now = [p \in DOMAIN asked' |-> GetLevel(asked'[p])]
      BY <1>a, <2>1 DEF ClientLevels, LevelOf
    <3>b. PICK later : later = asked'
      OBVIOUS
    <3>3. DOMAIN later = DOMAIN asked \cup {ptr}
          /\ \A p \in DOMAIN later : later[p] = IF p = ptr THEN size ELSE asked[p]
      BY <2>1, <3>b DEF With
    <3>4. \A p \in DOMAIN later : GetLevel(later[p]) = IF p = ptr THEN level ELSE levels[p]
      BY <2>a, <3>1, <3>3
    <3>5. DOMAIN levels = DOMAIN asked
      BY <3>1
    <3>6. more = [p \in DOMAIN later |-> IF p = ptr THEN level ELSE levels[p]]
      BY <2>b, <3>3, <3>5 DEF With
    <3>7. now = [p \in DOMAIN later |-> GetLevel(later[p])]
      BY <3>2, <3>b
    <3> QED BY <3>4, <3>6, <3>7
  <2> QED BY <1>a, <2>3, <2>4 DEF LevelsTaken
<1> QED BY <1>1, <1>2 DEF MmAlloc

\* mm_free
LEMMA BuddyFreeStep ==
  ASSUME BuddyInv(buddy, ClientLevels), NEW ptr \in DOMAIN asked, MmFree(ptr),
         manager \in {"USE_LIST", "USE_BUDDY"}
  PROVE  /\ BuddyInv(buddy, ClientLevels)'
         /\ \/ UNCHANGED ClientLevels
            \/ ptr \in DOMAIN ClientLevels /\ ClientLevels' = Dropped(ClientLevels, ptr)
<1>a. PICK levels, now : levels = ClientLevels /\ now = ClientLevels'
  OBVIOUS
<1>1. CASE manager = "USE_LIST"
  <2>1. manager' = manager /\ buddy' = buddy
    BY <1>1 DEF MmFree
  <2>2. UNCHANGED ClientLevels
    BY <1>1, <2>1 DEF ClientLevels
  <2> QED BY <2>1, <2>2
<1>2. CASE manager = "USE_BUDDY"
  <2>1. /\ manager' = manager /\ buddy' = BuddyFree(buddy, ptr)
        /\ asked' = Restrict(asked, DOMAIN asked \ {ptr})
    BY <1>2 DEF MmFree, Without
  <2>2. levels = [p \in DOMAIN asked |-> GetLevel(asked[p])]
    BY <1>a, <1>2 DEF ClientLevels, LevelOf
  <2>3. DOMAIN levels = DOMAIN asked /\ levels = [p \in DOMAIN levels |-> levels[p]]
    BY <2>2
  <2>4. now = Dropped(levels, ptr)
    <3>b. PICK later : later = asked'
      OBVIOUS
    <3>1. now = [p \in DOMAIN later |-> GetLevel(later[p])]
      BY <1>a, <1>2, <2>1, <3>b DEF ClientLevels, LevelOf
    <3>2. DOMAIN later = DOMAIN asked \ {ptr} /\ \A p \in DOMAIN later : later[p] = asked[p]
      BY <2>1, <3>b DEF Restrict
    <3>3. \A p \in DOMAIN later : GetLevel(later[p]) = levels[p]
      BY <2>2, <3>2
    <3>4. Dropped(levels, ptr) = [p \in DOMAIN later |-> levels[p]]
      BY <2>3, <3>2 DEF Dropped
    <3> QED BY <3>1, <3>3, <3>4
  <2>5. BuddyInv(buddy', now)
    BY <1>a, <2>1, <2>3, <2>4, FreeKeepsBuddyInv DEF Dropped
  <2> QED BY <1>a, <2>3, <2>4, <2>5
<1> QED BY <1>1, <1>2

\* mm_realloc
LEMMA BuddyReallocStep ==
  ASSUME BuddyInv(buddy, ClientLevels), NEW old \in DOMAIN asked, NEW size \in Requests,
         MmRealloc(old, size)
  PROVE  /\ BuddyInv(buddy, ClientLevels)'
         /\ UNCHANGED ClientLevels \/ LevelsSwapped(ClientLevels, ClientLevels', old)
<1>a. PICK levels, now : levels = ClientLevels /\ now = ClientLevels'
  OBVIOUS
<1>1. CASE manager # "USE_BUDDY"
  <2>1. manager' = manager /\ buddy' = buddy
    BY <1>1 DEF MmRealloc
  <2>2. UNCHANGED ClientLevels
    BY <1>1, <2>1 DEF ClientLevels
  <2> QED BY <2>1, <2>2
<1>2. CASE manager = "USE_BUDDY"
  <2>1. PICK ptr \in BuddyFits(buddy, size) :
          /\ manager' = manager /\ buddy' = BuddyFree(BuddyTake(buddy, ptr, size), old)
          /\ asked' = With(Restrict(asked, DOMAIN asked \ {old}), ptr, size)
    BY <1>2 DEF MmRealloc, Without
  <2>a. PICK level, b : level = GetLevel(size) /\ b = BuddyTake(buddy, ptr, size)
    OBVIOUS
  <2>2. size \in Nat /\ size > 0
    BY MemoryAssumption
  <2>b. PICK both : both = With(levels, ptr, level)
    OBVIOUS
  <2>3. OneMore(levels, both, ptr, level, NodeAt(ptr, level)) /\ BuddyInv(b, both)
    BY <1>a, <2>1, <2>2, <2>a, <2>b, TakeKeepsBuddyInv
  <2>4. levels = [p \in DOMAIN asked |-> GetLevel(asked[p])]
    BY <1>a, <1>2 DEF ClientLevels, LevelOf
  <2>5. DOMAIN levels = DOMAIN asked /\ \A p \in DOMAIN asked : levels[p] = GetLevel(asked[p])
    BY <2>4
  <2>6. ptr \notin DOMAIN asked
    BY <2>3, <2>5 DEF OneMore
  <2>c. PICK D : D = (DOMAIN asked \ {old}) \cup {ptr}
    OBVIOUS
  <2>7. now = [p \in D |-> IF p = ptr THEN level ELSE levels[p]]
    <3>b. PICK later : later = asked'
      OBVIOUS
    <3>1. now = [p \in DOMAIN later |-> GetLevel(later[p])]
      BY <1>a, <1>2, <2>1, <3>b DEF ClientLevels, LevelOf
    <3>2. DOMAIN later = D /\ \A p \in D : later[p] = IF p = ptr THEN size ELSE asked[p]
      <4>a. PICK rest : rest = Restrict(asked, DOMAIN asked \ {old})
        OBVIOUS
      <4>1. DOMAIN rest = DOMAIN asked \ {old} /\ \A p \in DOMAIN asked \ {old} : rest[p] = asked[p]
        BY <4>a DEF Restrict
      <4>2. later = [p \in DOMAIN rest \cup {ptr} |-> IF p = ptr THEN size ELSE rest[p]]
        BY <2>1, <3>b, <4>a DEF With
      <4> QED BY <2>c, <4>1, <4>2
    <3>3. \A p \in D : GetLevel(later[p]) = IF p = ptr THEN level ELSE levels[p]
      BY <2>5, <2>a, <2>c, <3>2
    <3> QED BY <3>1, <3>2, <3>3
  <2>8. now = With(Dropped(levels, old), ptr, level)
    <3>a. PICK rest : rest = Dropped(levels, old)
      OBVIOUS
    <3>1. DOMAIN rest = DOMAIN asked \ {old} /\ \A p \in DOMAIN asked \ {old} : rest[p] = levels[p]
      BY <2>5, <3>a DEF Dropped
    <3>2. With(rest, ptr, level) = [p \in D |-> IF p = ptr THEN level ELSE rest[p]]
      BY <2>c, <3>1 DEF With
    <3>3. \A p \in D : (IF p = ptr THEN level ELSE rest[p]) = IF p = ptr THEN level ELSE levels[p]
      BY <2>c, <3>1
    <3> QED BY <2>7, <3>2, <3>3, <3>a
  <2>9. old \in DOMAIN both /\ both = [p \in DOMAIN both |-> both[p]]
        /\ now = [p \in DOMAIN both \ {old} |-> both[p]]
    <3>1. both = [p \in DOMAIN asked \cup {ptr} |-> IF p = ptr THEN level ELSE levels[p]]
      BY <2>5, <2>b DEF With
    <3>2. DOMAIN both = DOMAIN asked \cup {ptr}
          /\ \A p \in DOMAIN both : both[p] = IF p = ptr THEN level ELSE levels[p]
      BY <3>1
    <3>3. DOMAIN both \ {old} = D
      BY <2>6, <2>c, <3>2
    <3>4. \A p \in D : both[p] = IF p = ptr THEN level ELSE levels[p]
      BY <3>2, <3>3
    <3>5. now = [p \in D |-> both[p]]
      BY <2>7, <3>4
    <3> QED BY <3>1, <3>2, <3>3, <3>5
  <2>10. BuddyInv(BuddyFree(b, old), now)
    BY <2>3, <2>9, FreeKeepsBuddyInv
  <2>11. BuddyInv(buddy', now)
    BY <2>1, <2>10, <2>a
  <2>12. LevelsSwapped(levels, now, old)
    BY <2>3, <2>5, <2>8 DEF LevelsSwapped
  <2> QED BY <1>a, <2>11, <2>12
<1> QED BY <1>1, <1>2

\* The build's choice does not change, and the tree is that of the blocks.
BuddySide == manager \in {"USE_LIST", "USE_BUDDY"} /\ BuddyInv(buddy, ClientLevels)

\* No call breaks it.
LEMMA BuddyNextKeepsInv == BuddySide /\ [MemoryNext]_memoryVars => BuddySide'
<1> SUFFICES ASSUME BuddySide, [MemoryNext]_memoryVars PROVE BuddySide'
  OBVIOUS
<1>1. manager' = manager
  BY DEF MemoryNext, MmAlloc, MmFree, MmRealloc, ListAlloc, BuddyAlloc, memoryVars
<1>2. CASE \E size \in Requests : MmAlloc(size)
  BY <1>1, <1>2, BuddyAllocStep DEF BuddySide
<1>3. CASE \E ptr \in DOMAIN asked : MmFree(ptr)
  BY <1>1, <1>3, BuddyFreeStep DEF BuddySide
<1>4. CASE \E ptr \in DOMAIN asked, size \in Requests : MmRealloc(ptr, size)
  BY <1>1, <1>4, BuddyReallocStep DEF BuddySide
<1>5. CASE UNCHANGED memoryVars
  BY <1>5 DEF memoryVars, BuddySide, ClientLevels, LevelOf
<1> QED BY <1>2, <1>3, <1>4, <1>5 DEF MemoryNext

\* It holds of mm_init.
LEMMA InitEstablishesBuddySide == MemoryInit => BuddySide
BY InitEstablishesBuddyInv, MemoryAssumption DEF MemoryInit, BuddySide

\* It is what BuddyKept says.
LEMMA BuddySideHolds == BuddySide => BuddyKept
<1> SUFFICES ASSUME BuddySide, manager = "USE_BUDDY"
             PROVE  TreeWellFormed(buddy, [ptr \in DOMAIN asked |-> LevelOf(ptr)])
  BY DEF BuddyKept
<1>1. ClientLevels = [ptr \in DOMAIN asked |-> LevelOf(ptr)]
  BY DEF ClientLevels
<1>2. TreeWellFormed(buddy, ClientLevels)
  BY BuddyInvHolds DEF BuddySide
<1> QED BY <1>1, <1>2

(* After any calls, in a tree of any depth with any smallest block, used and
   used_subnodes of each node are those of the blocks handed out, used_mem and
   mem_chuncks agree with them, and so mm_free, which is told no size, finds the
   node that mm_alloc took and no other (buddyMemoryManager.c:204-226). *)
THEOREM MemoryBuddyKept == MemorySpec => []BuddyKept
<1>1. MemoryInit => BuddySide
  BY InitEstablishesBuddySide
<1>2. BuddySide /\ [MemoryNext]_memoryVars => BuddySide'
  BY BuddyNextKeepsInv
<1>3. BuddySide => BuddyKept
  BY BuddySideHolds
<1> QED BY <1>1, <1>2, <1>3, PTL DEF MemorySpec

----------------------------------------------------------------------------
(* What the buddy system promises *)

\* The sizes of blocks of these levels, and what the abstract heap sees.
SizesOf(levels) == [ptr \in DOMAIN levels |-> BlockSize(levels[ptr])]
BuddySeen == [ptr \in IF manager = "USE_BUDDY" THEN DOMAIN asked ELSE {} |-> BlockSize(LevelOf(ptr))]

\* They change as the levels do.
LEMMA SizesOfFacts ==
  ASSUME NEW levels, NEW ptr, NEW level
  PROVE  /\ DOMAIN SizesOf(levels) = DOMAIN levels
         /\ \A p \in DOMAIN levels : SizesOf(levels)[p] = BlockSize(levels[p])
         /\ SizesOf(With(levels, ptr, level)) = With(SizesOf(levels), ptr, BlockSize(level))
         /\ SizesOf(Dropped(levels, ptr)) = Dropped(SizesOf(levels), ptr)
<1>a. PICK D, s : D = DOMAIN levels /\ s = SizesOf(levels)
  OBVIOUS
<1>1. DOMAIN s = D /\ \A p \in D : s[p] = BlockSize(levels[p])
  BY <1>a DEF SizesOf
<1>2. ASSUME NEW now, now = With(levels, ptr, level)
      PROVE  SizesOf(now) = With(s, ptr, BlockSize(level))
  <2>1. DOMAIN now = D \cup {ptr}
        /\ \A p \in D \cup {ptr} : now[p] = IF p = ptr THEN level ELSE levels[p]
    BY <1>2, <1>a DEF With
  <2>2. \A p \in D \cup {ptr} : BlockSize(now[p]) = IF p = ptr THEN BlockSize(level) ELSE s[p]
    BY <1>1, <2>1
  <2>3. With(s, ptr, BlockSize(level)) =
          [p \in D \cup {ptr} |-> IF p = ptr THEN BlockSize(level) ELSE s[p]]
    BY <1>1 DEF With
  <2> QED BY <2>1, <2>2, <2>3 DEF SizesOf
<1>3. ASSUME NEW now, now = Dropped(levels, ptr) PROVE SizesOf(now) = Dropped(s, ptr)
  <2>1. DOMAIN now = D \ {ptr} /\ \A p \in D \ {ptr} : now[p] = levels[p]
    BY <1>3, <1>a DEF Dropped
  <2>2. \A p \in D \ {ptr} : BlockSize(now[p]) = s[p]
    BY <1>1, <2>1
  <2>3. Dropped(s, ptr) = [p \in D \ {ptr} |-> s[p]]
    BY <1>1 DEF Dropped
  <2> QED BY <2>1, <2>2, <2>3 DEF SizesOf
<1> QED BY <1>1, <1>2, <1>3, <1>a

\* The abstract heap sees the sizes of the levels.
LEMMA BuddySeenFacts == BuddySeen = SizesOf(ClientLevels) /\ BuddySeen' = SizesOf(ClientLevels')
<1>1. BuddySeen = SizesOf(ClientLevels)
  BY DEF BuddySeen, SizesOf, ClientLevels
<1>2. BuddySeen' = SizesOf(ClientLevels')
  BY DEF BuddySeen, SizesOf, ClientLevels
<1> QED BY <1>1, <1>2

\* Where its blocks may begin, and how large they may be.
BuddyPointers == {n * MIN_BLOCK : n \in 0 .. 2 ^ MAX_LEVEL - 1}
BuddySizes == {BlockSize(level) : level \in Levels}

\* Where a new block may be, given the sizes of those there are.
NewBlock(blocks, ptr, size) ==
  /\ ptr \in BuddyPointers
  /\ size \in BuddySizes
  /\ ptr \notin DOMAIN blocks
  /\ ptr .. ptr + size - 1 \subseteq 0 .. HEAP_SIZE - 1
  /\ \A other \in DOMAIN blocks :
       (ptr .. ptr + size - 1) \cap (other .. other + blocks[other] - 1) = {}

\* A block apart from the others may be handed out.
LEMMA OneMoreIsNew ==
  ASSUME NEW less, NEW more, NEW ptr, NEW level, NEW index, OneMore(less, more, ptr, level, index)
  PROVE  NewBlock(SizesOf(less), ptr, BlockSize(level))
<1>1. Placed(more) /\ ptr \notin DOMAIN less /\ more = With(less, ptr, level) /\ level \in Levels
  BY DEF OneMore
<1>2. /\ DOMAIN more = DOMAIN less \cup {ptr} /\ more[ptr] = level
      /\ \A p \in DOMAIN less : p # ptr /\ more[p] = less[p]
  BY <1>1 DEF With
<1>a. PICK s : s = SizesOf(less)
  OBVIOUS
<1>3. DOMAIN s = DOMAIN less /\ \A p \in DOMAIN less : s[p] = BlockSize(less[p])
  BY <1>a, SizesOfFacts
<1>4. /\ ptr \in BuddyPointers
      /\ ptr .. ptr + BlockSize(level) - 1 \subseteq 0 .. HEAP_SIZE - 1
  BY <1>1, <1>2, PlacedAreApart DEF BuddyPointers
<1>5. ASSUME NEW other \in DOMAIN less
      PROVE  (ptr .. ptr + BlockSize(level) - 1) \cap (other .. other + s[other] - 1) = {}
  <2>1. \A p, q \in DOMAIN more : p # q =>
          (p .. p + BlockSize(more[p]) - 1) \cap (q .. q + BlockSize(more[q]) - 1) = {}
    BY <1>1, PlacedAreApart
  <2>2. (ptr .. ptr + BlockSize(more[ptr]) - 1) \cap (other .. other + BlockSize(more[other]) - 1) = {}
    BY <1>2, <2>1, Zenon
  <2> QED BY <1>2, <1>3, <2>2
<1> QED BY <1>1, <1>3, <1>4, <1>5, <1>a DEF NewBlock, BuddySizes

\* The steps of the abstract heap.
LEMMA AbstractAlloc ==
  ASSUME NEW ptr, NEW size, NewBlock(BuddySeen, ptr, size), BuddySeen' = With(BuddySeen, ptr, size)
  PROVE  BuddyHeap!Next
<1>1. BuddyHeap!Alloc(ptr, size)
  BY DEF NewBlock, With, BuddyHeap!Alloc, BuddyHeap!Region, BuddyHeap!With, BuddySeen
<1>2. ptr \in BuddyPointers /\ size \in BuddySizes
  BY DEF NewBlock
<1> QED BY <1>1, <1>2 DEF BuddyHeap!Next, BuddyPointers, BuddySizes

\* mm_free as Heap has it.
LEMMA AbstractFree ==
  ASSUME NEW ptr \in BuddyPointers, ptr \in DOMAIN BuddySeen, BuddySeen' = Dropped(BuddySeen, ptr)
  PROVE  BuddyHeap!Next
<1>1. BuddyHeap!Free(ptr)
  BY DEF Dropped, BuddyHeap!Free, BuddyHeap!Without, BuddySeen
<1> QED BY <1>1 DEF BuddyHeap!Next, BuddyPointers

\* And mm_realloc.
LEMMA AbstractRealloc ==
  ASSUME NEW ptr, NEW size, NewBlock(BuddySeen, ptr, size), NEW old \in BuddyPointers,
         old \in DOMAIN BuddySeen, BuddySeen' = With(Dropped(BuddySeen, old), ptr, size)
  PROVE  BuddyHeap!Next
<1>1. BuddyHeap!Realloc(old, ptr, size)
  BY DEF NewBlock, With, Dropped, BuddyHeap!Realloc, BuddyHeap!Region, BuddyHeap!With,
         BuddyHeap!Without, BuddySeen
<1>2. ptr \in BuddyPointers /\ size \in BuddySizes
  BY DEF NewBlock
<1> QED BY <1>1, <1>2 DEF BuddyHeap!Next, BuddyPointers, BuddySizes

\* The heap is nobody's at first.
LEMMA BuddySeenInits == MemoryInit => BuddyHeap!Init
<1> SUFFICES ASSUME MemoryInit PROVE BuddyHeap!Init
  OBVIOUS
<1>1. asked = <<>>
  BY DEF MemoryInit
<1>2. BuddySeen = <<>>
  BY <1>1 DEF BuddySeen
<1> QED BY <1>2 DEF BuddyHeap!Init, BuddySeen

\* Each call is one of Heap's, or changes nothing that clients have.
LEMMA BuddySeenSteps == BuddySide /\ [MemoryNext]_memoryVars => [BuddyHeap!Next]_BuddySeen
<1> SUFFICES ASSUME BuddySide, [MemoryNext]_memoryVars PROVE [BuddyHeap!Next]_BuddySeen
  OBVIOUS
<1>a. PICK levels, now : levels = ClientLevels /\ now = ClientLevels'
  OBVIOUS
<1>1. BuddyInv(buddy, levels) /\ Placed(levels) /\ manager \in {"USE_LIST", "USE_BUDDY"}
  BY <1>a DEF BuddySide, BuddyInv
<1>2. BuddySeen = SizesOf(levels) /\ BuddySeen' = SizesOf(now)
  BY <1>a, BuddySeenFacts
<1>3. \A ptr \in DOMAIN levels : ptr \in BuddyPointers
  BY <1>1, PlacedAreApart DEF BuddyPointers
<1>4. CASE now = levels
  BY <1>2, <1>4
<1>5. CASE LevelsTaken(levels, now)
  <2>1. PICK ptr, level : OneMore(levels, now, ptr, level, NodeAt(ptr, level))
    BY <1>5 DEF LevelsTaken
  <2>2. NewBlock(BuddySeen, ptr, BlockSize(level))
    BY <1>2, <2>1, OneMoreIsNew
  <2>3. now = With(levels, ptr, level)
    BY <2>1 DEF OneMore
  <2>4. BuddySeen' = With(BuddySeen, ptr, BlockSize(level))
    BY <1>2, <2>3, SizesOfFacts
  <2> QED BY <2>2, <2>4, AbstractAlloc
<1>6. ASSUME NEW ptr \in DOMAIN levels, now = Dropped(levels, ptr) PROVE BuddyHeap!Next
  <2>1. BuddySeen' = Dropped(BuddySeen, ptr) /\ ptr \in DOMAIN BuddySeen
    BY <1>2, <1>6, SizesOfFacts
  <2> QED BY <1>3, <2>1, AbstractFree
<1>7. ASSUME NEW old, LevelsSwapped(levels, now, old) PROVE BuddyHeap!Next
  <2>1. PICK both, ptr, level : /\ OneMore(levels, both, ptr, level, NodeAt(ptr, level))
                                /\ now = With(Dropped(levels, old), ptr, level)
    BY <1>7 DEF LevelsSwapped
  <2>2. NewBlock(BuddySeen, ptr, BlockSize(level)) /\ old \in DOMAIN levels
    BY <1>2, <1>7, <2>1, OneMoreIsNew DEF LevelsSwapped
  <2>a. PICK rest : rest = Dropped(levels, old)
    OBVIOUS
  <2>3. SizesOf(rest) = Dropped(BuddySeen, old)
    BY <1>2, <2>a, SizesOfFacts
  <2>4. SizesOf(now) = With(SizesOf(rest), ptr, BlockSize(level))
    BY <2>1, <2>a, SizesOfFacts
  <2>5. old \in DOMAIN BuddySeen
    BY <1>2, <2>2, SizesOfFacts
  <2> QED BY <1>2, <1>3, <2>2, <2>3, <2>4, <2>5, AbstractRealloc
<1>8. CASE \E size \in Requests : MmAlloc(size)
  BY <1>1, <1>4, <1>5, <1>8, <1>a, BuddyAllocStep
<1>9. CASE \E ptr \in DOMAIN asked : MmFree(ptr)
  BY <1>1, <1>4, <1>6, <1>9, <1>a, BuddyFreeStep
<1>10. CASE \E ptr \in DOMAIN asked, size \in Requests : MmRealloc(ptr, size)
  BY <1>1, <1>4, <1>7, <1>10, <1>a, BuddyReallocStep
<1>11. CASE UNCHANGED memoryVars
  BY <1>11 DEF memoryVars, BuddySeen, LevelOf
<1> QED BY <1>8, <1>9, <1>10, <1>11 DEF MemoryNext

(* The buddy system implements Heap: mm_alloc and mm_realloc return a block of the
   size of the level that get_level says, in the heap, that shares no byte with
   another client's, or NULL and nothing has changed; mm_free gives back one
   client's block and no others (buddyMemoryManager.c:183-238). *)
THEOREM MemoryImplementsBuddyHeap == MemorySpec => BuddyHeap!Spec
<1>1. MemoryInit => BuddySide
  BY InitEstablishesBuddySide
<1>2. BuddySide /\ [MemoryNext]_memoryVars => BuddySide'
  BY BuddyNextKeepsInv
<1>3. MemoryInit => BuddyHeap!Init
  BY BuddySeenInits
<1>4. BuddySide /\ [MemoryNext]_memoryVars => [BuddyHeap!Next]_BuddySeen
  BY BuddySeenSteps
<1> QED BY <1>1, <1>2, <1>3, <1>4, PTL DEF MemorySpec, BuddyHeap!Spec, BuddySeen

(* Whichever manager the build has, what it hands out is nobody else's until it is
   given back (memoryManager.h). *)
THEOREM MemoryImplementsHeap == MemorySpec => ImplementsHeap
BY MemoryImplementsListHeap, MemoryImplementsBuddyHeap DEF ImplementsHeap
=============================================================================
