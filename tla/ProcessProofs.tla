--------------------------- MODULE ProcessProofs ---------------------------
(***************************************************************************)
(* The invariants of Process, for every size of the table, scale of        *)
(* priorities and environment.                                             *)
(*                                                                         *)
(* TablesAgree, ChildrenMatchParents and EverythingDescendsFromShell need  *)
(* each other and one fact more: no process is its own ancestor, else      *)
(* proc_kill could meet on its way down a process it is already killing    *)
(* and free its slot twice.  A rank that grows from parent to child says   *)
(* so.                                                                     *)
(*                                                                         *)
(* With them, Process implements ProcessForest: a kill is over, for the    *)
(* tree of those who survive it, when it starts.                           *)
(*                                                                         *)
(* What waitpid promises, nobody sleeps on and nobody comes back too       *)
(* early, is for processes that do not use the block call, which may block *)
(* or release anybody at any time.                                         *)
(*                                                                         *)
(* testproc over the same table and scheduler, at the end: what it         *)
(* believes of its processes is true and it never reports an error, for    *)
(* every number of processes it is told to make.                           *)
(***************************************************************************)
EXTENDS TestProcesses, KernelLemmas

\* A slot has a context, or is on the way from sch_on_process_killed to memset.
Slots ==
  /\ \A pid \in Pids : sch.rsp[pid] # NULL <=> live[pid] /\ pid \notin Range(kills)
  /\ \A pid \in Range(kills) : live[pid]

\* A process that proc_kill reached from its parent has left the parent's queue.
Queues ==
  /\ \A pid \in Pids : IsInjective(child_pids[pid])
  /\ \A pid, child \in Pids : child \in Range(child_pids[pid]) =>
       /\ live[pid] /\ live[child] /\ parent_pid[child] = pid
       /\ \A i \in 2 .. Len(kills) : kills[i] # child
  /\ \A child \in Pids : live[child] /\ parent_pid[child] \in Pids =>
       /\ live[parent_pid[child]]
       /\ child \in Range(child_pids[parent_pid[child]]) \/ child \in Range(kills)

Path == \A i \in 2 .. Len(kills) : parent_pid[kills[i]] = kills[i - 1]

Ranked(rank) ==
  /\ \A child \in Pids : live[child] /\ parent_pid[child] \in Pids =>
       rank[parent_pid[child]] < rank[child]
  /\ \A i, j \in 1 .. Len(kills) : i < j => rank[kills[i]] < rank[kills[j]]

Rooted ==
  /\ \A pid \in Pids : live[pid] => live[0]
  /\ \A S \in SUBSET Live :
       0 \in S /\ (\A q \in Live : parent_pid[q] \in S => q \in S) => S = Live

Tree == Slots /\ Queues /\ Path /\ Rooted /\ \E rank \in [Pids -> Int] : Ranked(rank)

IInv == TypeOK /\ SchInv(sch) /\ Tree

LEMMA PidsAreInts ==
  /\ 0 \in Pids /\ Pids \subseteq Int
  /\ KERNEL_PROC_PID \notin Pids /\ KILLED_PROC_PID \notin Pids /\ NULL \notin Pids
  /\ MAX_PRIORITY \in Int
BY SchedulerAssumption DEF Pids, KERNEL_PROC_PID, KILLED_PROC_PID, NULL

LEMMA InitEstablishesIInv == Init => IInv
<1> SUFFICES ASSUME Init PROVE IInv
  OBVIOUS
<1> USE PidsAreInts DEF Init
<1>0. kills = <<>> /\ Range(kills) = {} /\ Len(kills) = 0
  BY DEF Range
<1>1. SchInv(sch) /\ sch.rsp = [SchInit.rsp EXCEPT ![0] = 0]
  <2>1. /\ SchInit.rsp[0] = NULL /\ SchInit.current # KILLED_PROC_PID
    BY DEF SchInit, KERNEL_PROC_PID, KILLED_PROC_PID
  <2> QED BY <2>1, InitHasSchInv, CreateKeepsSchInv, CreateGivesContext
<1>2. TypeOK
  <2>1. \A S : <<>> \in Seq(S)
    BY EmptySeq
  <2>2. sch \in SchStates
    BY <1>1 DEF SchInv
  <2> QED BY <2>1, <2>2 DEF TypeOK, Contexts
<1>3. Slots
  <2>1. sch.rsp = [pid \in Pids |-> IF pid = 0 THEN 0 ELSE NULL]
    BY <1>1 DEF SchInit
  <2>2. 0 # NULL
    BY DEF NULL
  <2> QED BY <1>0, <2>1, <2>2 DEF Slots
<1>4. Queues
  BY <1>0 DEF Queues, IsInjective, Range
<1>5. Path
  BY <1>0 DEF Path
<1>6. Rooted
  BY DEF Rooted, Live
<1>7. \E rank \in [Pids -> Int] : Ranked(rank)
  <2> DEFINE zero == [pid \in Pids |-> 0]
  <2> zero \in [Pids -> Int] /\ Ranked(zero)
    BY <1>0 DEF Ranked
  <2> QED OBVIOUS
<1> QED BY <1>1, <1>2, <1>3, <1>4, <1>5, <1>6, <1>7 DEF IInv, Tree

----------------------------------------------------------------------------
(* What the steps do to the tree. *)

\* A step of the scheduler or of the queues of waiters.
LEMMA QuietStepKeepsTree ==
  Tree /\ sch'.rsp = sch.rsp /\ UNCHANGED <<live, parent_pid, child_pids, kills>> => Tree'
<1> SUFFICES ASSUME Tree, sch'.rsp = sch.rsp, UNCHANGED <<live, parent_pid, child_pids, kills>>
             PROVE  Tree'
  OBVIOUS
<1>1. PICK rank \in [Pids -> Int] : Ranked(rank)
  BY DEF Tree
<1>2. Slots'
  BY DEF Tree, Slots
<1>3. Queues' /\ Path'
  BY DEF Tree, Queues, Path
<1>4. Rooted'
  BY DEF Tree, Rooted, Live
<1>5. Ranked(rank)'
  BY <1>1 DEF Ranked
<1> QED BY <1>2, <1>3, <1>4, <1>5 DEF Tree

\* proc_create with the child in its parent's queue.
LEMMA CreateKeepsTree ==
  ASSUME IInv, NEW pid \in Pids, NEW asked, Create(pid, asked)
  PROVE  Tree'
<1> USE PidsAreInts
<1> DEFINE parent == sch.current
<1>1. /\ parent \in Pids /\ live[parent] /\ ~live[pid] /\ parent # pid /\ kills = <<>>
      /\ live' = [live EXCEPT ![pid] = TRUE]
      /\ parent_pid' = [parent_pid EXCEPT ![pid] = parent]
      /\ child_pids' = [child_pids EXCEPT ![parent] = Append(@, pid)]
      /\ kills' = <<>>
      /\ sch'.rsp = [sch.rsp EXCEPT ![pid] = pid]
  <2>1. parent \in Pids
    BY DEF IInv, TypeOK, SchStates, Create, TakeSlot, SystemCall, Contexts
  <2>2. live[parent]
    BY <2>1 DEF IInv, Tree, Slots, SchInv, ContextsKept, IsActive
  <2> QED BY <2>1, <2>2, CreateGivesContext
          DEF IInv, Create, TakeSlot, SystemCall, Interruptible, KernelDone
<1> HIDE DEF parent
<1>2. /\ live \in [Pids -> BOOLEAN] /\ parent_pid \in [Pids -> Contexts]
      /\ child_pids \in [Pids -> Seq(Pids)] /\ sch.rsp \in [Pids -> Pids \cup {NULL}]
  BY DEF IInv, TypeOK, SchStates
<1>3. Range(kills) = {} /\ Len(kills) = 0
  BY <1>1 DEF Range
<1>4. Slots'
  <2>1. Range(kills') = {}
    BY <1>1 DEF Range
  <2> QED BY <1>1, <1>2, <1>3, <2>1 DEF IInv, Tree, Slots
\* The new process was in no queue and nobody's parent.
<1>5. /\ \A p \in Pids : pid \notin Range(child_pids[p])
      /\ \A child \in Pids : live[child] => parent_pid[child] # pid
      /\ Range(child_pids'[parent]) = Range(child_pids[parent]) \cup {pid}
      /\ \A p \in Pids : p # parent => child_pids'[p] = child_pids[p]
      /\ \A p \in Pids : IsInjective(child_pids'[p])
  <2>1. /\ \A p \in Pids : pid \notin Range(child_pids[p])
        /\ \A child \in Pids : live[child] => parent_pid[child] # pid
    BY <1>1 DEF IInv, Tree, Queues
  <2>2. child_pids'[parent] = Append(child_pids[parent], pid)
        /\ \A p \in Pids : p # parent => child_pids'[p] = child_pids[p]
    BY <1>1, <1>2
  <2>3. child_pids[parent] \in Seq(Pids) /\ \A p \in Pids : IsInjective(child_pids[p])
    BY <1>1, <1>2 DEF IInv, Tree, Queues
  <2> QED BY <1>1, <2>1, <2>2, <2>3, AppendFacts, AppendKeepsInjective
<1>6. Queues'
  <2>1. ASSUME NEW p \in Pids, NEW child \in Pids, child \in Range(child_pids'[p])
        PROVE  live'[p] /\ live'[child] /\ parent_pid'[child] = p
    BY <1>1, <1>2, <1>5, <2>1 DEF IInv, Tree, Queues
  <2>2. ASSUME NEW child \in Pids, live'[child], parent_pid'[child] \in Pids
        PROVE  /\ live'[parent_pid'[child]]
               /\ child \in Range(child_pids'[parent_pid'[child]])
    BY <1>1, <1>2, <1>3, <1>5, <2>2 DEF IInv, Tree, Queues
  <2>3. Len(kills') = 0
    BY <1>1
  <2> QED BY <1>5, <2>1, <2>2, <2>3 DEF Queues
<1>7. Path'
  BY <1>1 DEF Path
<1>8. Rooted'
  <2>1. /\ \A p \in Pids : live'[p] => live'[0]
        /\ Live' = Live \cup {pid} /\ pid # 0 /\ parent \in Live /\ pid \notin Live
    <3>1. live[0]
      BY <1>1 DEF IInv, Tree, Rooted
    <3>2. \A p \in Pids : live'[p] <=> live[p] \/ p = pid
      BY <1>1, <1>2
    <3> QED BY <1>1, <1>2, <3>1, <3>2 DEF Live
  <2>2. ASSUME NEW S \in SUBSET Live', 0 \in S, \A q \in Live' : parent_pid'[q] \in S => q \in S
        PROVE  S = Live'
    <3> DEFINE old == S \ {pid}
    <3>1. old \in SUBSET Live /\ 0 \in old
      BY <2>1, <2>2
    <3>2. \A q \in Live : parent_pid[q] \in old => q \in old
      BY <1>1, <1>2, <2>1, <2>2 DEF Live
    <3> HIDE DEF old
    <3>3. old = Live
      BY <3>1, <3>2 DEF IInv, Tree, Rooted
    <3>4. pid \in S
      BY <1>1, <1>2, <2>1, <2>2, <3>3 DEF old
    <3> QED BY <2>1, <3>3, <3>4 DEF old
  <2> QED BY <2>1, <2>2 DEF Rooted
<1>9. \E rank \in [Pids -> Int] : Ranked(rank)'
  <2> PICK rank \in [Pids -> Int] : Ranked(rank)
    BY DEF IInv, Tree
  <2>1. PICK next \in [Pids -> Int] :
          next[pid] = rank[parent] + 1 /\ \A p \in Pids : p # pid => next[p] = rank[p]
    <3> DEFINE r == [rank EXCEPT ![pid] = rank[parent] + 1]
    <3> r \in [Pids -> Int] /\ r[pid] = rank[parent] + 1
        /\ \A p \in Pids : p # pid => r[p] = rank[p]
      BY <1>1
    <3> QED OBVIOUS
  <2>2. ASSUME NEW child \in Pids, live'[child], parent_pid'[child] \in Pids
        PROVE  next[parent_pid'[child]] < next[child]
    <3>1. CASE child = pid
      BY <1>1, <1>2, <2>1, <3>1
    <3>2. CASE child # pid
      <4>1. live[child] /\ parent_pid[child] \in Pids /\ parent_pid'[child] = parent_pid[child]
        BY <1>1, <1>2, <2>2, <3>2
      <4>2. parent_pid[child] # pid /\ rank[parent_pid[child]] < rank[child]
        BY <1>5, <4>1 DEF Ranked
      <4> QED BY <2>1, <3>2, <4>1, <4>2
    <3> QED BY <3>1, <3>2
  <2>3. Ranked(next)'
    BY <1>1, <2>2 DEF Ranked
  <2> QED BY <2>1, <2>3
<1> QED BY <1>4, <1>6, <1>7, <1>8, <1>9 DEF Tree

\* proc_kill called with no other call of it in progress.
LEMMA EnterKillKeepsTree ==
  ASSUME IInv, kills = <<>>, NEW pid \in Pids, live[pid], NEW status, EnterKill(pid, status),
         UNCHANGED <<live, parent_pid, child_pids>>
  PROVE  Tree'
<1> USE PidsAreInts
<1>1. sch'.rsp = [sch.rsp EXCEPT ![pid] = NULL] /\ sch.rsp \in [Pids -> Pids \cup {NULL}]
  BY KilledTakesContext DEF IInv, EnterKill, TypeOK, SchStates
<1>2. /\ Range(kills) = {} /\ kills' = <<pid>>
      /\ Range(kills') = {pid} /\ Len(kills') = 1 /\ Len(kills) = 0
  BY DEF EnterKill, Range
<1>3. Slots'
  BY <1>1, <1>2 DEF IInv, Tree, Slots
<1>4. Queues'
  BY <1>2 DEF IInv, Tree, Queues
<1>5. Path' /\ Rooted'
  BY <1>2 DEF IInv, Tree, Path, Rooted, Live
<1>6. \E rank \in [Pids -> Int] : Ranked(rank)'
  BY <1>2 DEF IInv, Tree, Ranked
<1> QED BY <1>3, <1>4, <1>5, <1>6 DEF Tree

\* proc_create when the child cannot be added to its parent's queue.
LEMMA CreateUnlinkedKeepsTree ==
  ASSUME IInv, NEW pid \in Pids, NEW asked \in Int, CreateUnlinked(pid, asked)
  PROVE  Tree' /\ SchInv(sch')
<1> USE PidsAreInts
<1> DEFINE parent == sch.current
<1>1. /\ parent \in Pids /\ live[parent] /\ ~live[pid] /\ parent # pid /\ kills = <<>>
      /\ live' = [live EXCEPT ![pid] = TRUE]
      /\ parent_pid' = [parent_pid EXCEPT ![pid] = parent]
      /\ child_pids' = child_pids
      /\ kills' = <<pid>>
      /\ parent # KILLED_PROC_PID
  <2>1. parent \in Pids
    BY DEF IInv, TypeOK, SchStates, CreateUnlinked, TakeSlot, SystemCall, Contexts
  <2>2. live[parent]
    BY <2>1 DEF IInv, Tree, Slots, SchInv, ContextsKept, IsActive
  <2> QED BY <2>1, <2>2 DEF CreateUnlinked, TakeSlot, SystemCall, Interruptible, KernelDone
<1> HIDE DEF parent
<1>2. /\ live \in [Pids -> BOOLEAN] /\ parent_pid \in [Pids -> Contexts]
      /\ child_pids \in [Pids -> Seq(Pids)] /\ sch.rsp \in [Pids -> Pids \cup {NULL}]
  BY DEF IInv, TypeOK, SchStates
<1>3. /\ Range(kills) = {} /\ Len(kills) = 0
      /\ Range(kills') = {pid} /\ Len(kills') = 1 /\ kills'[1] = pid
  BY <1>1 DEF Range
<1>4. SchInv(sch') /\ sch'.rsp = sch.rsp
  <2> DEFINE created == SchOnProcessCreate(sch, pid, asked)
  <2>1. sch.rsp[pid] = NULL
    BY <1>1 DEF IInv, Tree, Slots
  <2>2. SchInv(created) /\ created.rsp = [sch.rsp EXCEPT ![pid] = pid]
    BY <1>1, <2>1, CreateKeepsSchInv, CreateGivesContext DEF IInv, parent
  <2>3. sch' = SchOnProcessKilled(created, pid, 255) /\ 255 \in ExitStatuses
    BY ProcessAssumption DEF CreateUnlinked
  <2> HIDE DEF created
  <2>4. SchInv(sch') /\ sch'.rsp = [created.rsp EXCEPT ![pid] = NULL]
    BY <2>2, <2>3, KilledKeepsSchInv, KilledTakesContext
  <2> QED BY <1>2, <2>1, <2>2, <2>4
<1>5. Slots'
  <2>1. /\ \A p \in Pids : live'[p] <=> live[p] \/ p = pid
        /\ \A p \in Pids : sch.rsp[p] # NULL <=> live[p]
    BY <1>1, <1>2, <1>3 DEF IInv, Tree, Slots
  <2>2. \A p \in Pids : sch'.rsp[p] # NULL <=> live'[p] /\ p \notin Range(kills')
    BY <1>1, <1>3, <1>4, <2>1
  <2>3. \A p \in Range(kills') : live'[p]
    BY <1>3, <2>1
  <2> QED BY <2>2, <2>3 DEF Slots
<1>6. /\ \A p \in Pids : pid \notin Range(child_pids[p])
      /\ \A child \in Pids : live[child] => parent_pid[child] # pid
  BY <1>1 DEF IInv, Tree, Queues
<1>7. Queues'
  <2>1. ASSUME NEW p \in Pids, NEW child \in Pids, child \in Range(child_pids'[p])
        PROVE  live'[p] /\ live'[child] /\ parent_pid'[child] = p
    BY <1>1, <1>2, <1>6, <2>1 DEF IInv, Tree, Queues
  <2>2. ASSUME NEW child \in Pids, live'[child], parent_pid'[child] \in Pids
        PROVE  /\ live'[parent_pid'[child]]
               /\ child \in Range(child_pids'[parent_pid'[child]]) \/ child \in Range(kills')
    BY <1>1, <1>2, <1>3, <1>6, <2>2 DEF IInv, Tree, Queues
  <2> QED BY <1>1, <1>3, <2>1, <2>2 DEF Queues, IInv, Tree
<1>8. Path'
  BY <1>3 DEF Path
<1>9. Rooted'
  <2>1. /\ \A p \in Pids : live'[p] => live'[0]
        /\ Live' = Live \cup {pid} /\ pid # 0 /\ parent \in Live /\ pid \notin Live
    <3>1. live[0]
      BY <1>1 DEF IInv, Tree, Rooted
    <3>2. \A p \in Pids : live'[p] <=> live[p] \/ p = pid
      BY <1>1, <1>2
    <3> QED BY <1>1, <1>2, <3>1, <3>2 DEF Live
  <2>2. ASSUME NEW S \in SUBSET Live', 0 \in S, \A q \in Live' : parent_pid'[q] \in S => q \in S
        PROVE  S = Live'
    <3> DEFINE old == S \ {pid}
    <3>1. old \in SUBSET Live /\ 0 \in old
      BY <2>1, <2>2
    <3>2. \A q \in Live : parent_pid[q] \in old => q \in old
      BY <1>1, <1>2, <2>1, <2>2 DEF Live
    <3> HIDE DEF old
    <3>3. old = Live
      BY <3>1, <3>2 DEF IInv, Tree, Rooted
    <3>4. pid \in S
      BY <1>1, <1>2, <2>1, <2>2, <3>3 DEF old
    <3> QED BY <2>1, <3>3, <3>4 DEF old
  <2> QED BY <2>1, <2>2 DEF Rooted
<1>10. \E rank \in [Pids -> Int] : Ranked(rank)'
  <2> PICK rank \in [Pids -> Int] : Ranked(rank)
    BY DEF IInv, Tree
  <2>1. PICK next \in [Pids -> Int] :
          next[pid] = rank[parent] + 1 /\ \A p \in Pids : p # pid => next[p] = rank[p]
    <3> DEFINE r == [rank EXCEPT ![pid] = rank[parent] + 1]
    <3> r \in [Pids -> Int] /\ r[pid] = rank[parent] + 1
        /\ \A p \in Pids : p # pid => r[p] = rank[p]
      BY <1>1
    <3> QED OBVIOUS
  <2>2. ASSUME NEW child \in Pids, live'[child], parent_pid'[child] \in Pids
        PROVE  next[parent_pid'[child]] < next[child]
    <3>1. CASE child = pid
      BY <1>1, <1>2, <2>1, <3>1
    <3>2. CASE child # pid
      <4>1. live[child] /\ parent_pid[child] \in Pids /\ parent_pid'[child] = parent_pid[child]
        BY <1>1, <1>2, <2>2, <3>2
      <4>2. parent_pid[child] # pid /\ rank[parent_pid[child]] < rank[child]
        BY <1>6, <4>1 DEF Ranked
      <4> QED BY <2>1, <3>2, <4>1, <4>2
    <3> QED BY <3>1, <3>2
  <2>3. Ranked(next)'
    BY <1>3, <2>2 DEF Ranked
  <2> QED BY <2>1, <2>3
<1> QED BY <1>4, <1>5, <1>7, <1>8, <1>9, <1>10 DEF Tree

\* proc_kill calls itself on a child.
LEMMA KillChildKeepsTree ==
  ASSUME IInv, KillChild
  PROVE  /\ Tree' /\ SchInv(sch')
         /\ kills' \in Seq(Pids) /\ child_pids' \in [Pids -> Seq(Pids)]
<1> USE PidsAreInts
<1> DEFINE n == Len(kills)
           child == Head(child_pids[Victim])
<1>1. /\ kills \in Seq(Pids) /\ kills # <<>> /\ n \in Nat \ {0}
      /\ Victim \in Pids /\ Victim = kills[n]
      /\ Range(kills) = {kills[i] : i \in 1 .. n} /\ \A i \in 1 .. n : kills[i] \in Pids
  BY EmptySeq, ElementOfSeq, RangeEquality DEF IInv, TypeOK, KillChild, Killing, Victim
<1>2. /\ live \in [Pids -> BOOLEAN] /\ parent_pid \in [Pids -> Contexts]
      /\ child_pids \in [Pids -> Seq(Pids)] /\ sch.rsp \in [Pids -> Pids \cup {NULL}]
  BY DEF IInv, TypeOK, SchStates
<1>3. /\ child_pids[Victim] \in Seq(Pids) /\ child_pids[Victim] # <<>>
      /\ IsInjective(child_pids[Victim])
  BY <1>1, <1>2 DEF KillChild, IInv, Tree, Queues
<1>4. /\ child \in Pids /\ child \in Range(child_pids[Victim])
      /\ Tail(child_pids[Victim]) \in Seq(Pids) /\ IsInjective(Tail(child_pids[Victim]))
      /\ Range(Tail(child_pids[Victim])) = Range(child_pids[Victim]) \ {child}
  BY <1>3, TailFacts
<1>5. /\ kills' = Append(kills, child) /\ sch' = SchOnProcessKilled(sch, child, 255)
      /\ child_pids' = [child_pids EXCEPT ![Victim] = Tail(child_pids[Victim])]
      /\ live' = live /\ parent_pid' = parent_pid
  BY <1>1, <1>2 DEF KillChild, EnterKill
<1>6. live[Victim] /\ live[child] /\ parent_pid[child] = Victim
  BY <1>1, <1>4 DEF IInv, Tree, Queues
<1>7. PICK rank \in [Pids -> Int] : Ranked(rank)
  BY DEF IInv, Tree
<1> HIDE DEF child
\* The child ranks above every call in progress, so it is none of them.
<1>8. \A i \in 1 .. n : rank[kills[i]] < rank[child] /\ kills[i] # child
  <2>1. rank[Victim] < rank[child]
    BY <1>1, <1>4, <1>6, <1>7 DEF Ranked
  <2>2. ASSUME NEW i \in 1 .. n
        PROVE  rank[kills[i]] < rank[child]
    <3>1. i = n \/ rank[kills[i]] < rank[kills[n]]
      BY <1>1, <1>7 DEF Ranked
    <3>2. /\ rank[kills[i]] \in Int /\ rank[child] \in Int /\ rank[Victim] \in Int
          /\ Victim = kills[n]
      BY <1>1, <1>4
    <3> HIDE DEF Victim
    <3> QED BY <2>1, <3>1, <3>2
  <2> QED BY <1>1, <1>4, <2>2
<1>9. /\ kills' \in Seq(Pids) /\ Len(kills') = n + 1 /\ kills'[n + 1] = child
      /\ \A i \in 1 .. n : kills'[i] = kills[i]
      /\ Range(kills') = Range(kills) \cup {child}
  BY <1>1, <1>4, <1>5, AppendFacts
<1> HIDE DEF n
<1>10. SchInv(sch') /\ sch'.rsp = [sch.rsp EXCEPT ![child] = NULL]
  <2>1. SchInv(sch) /\ child \in Pids /\ child \in Int /\ 255 \in ExitStatuses
    BY <1>4, ProcessAssumption DEF IInv
  <2>2. sch' = SchOnProcessKilled(sch, child, 255)
    BY <1>5
  <2> QED BY <2>1, <2>2, KilledKeepsSchInv, KilledTakesContext
<1>11. Slots'
  <2>1. /\ \A pid \in Pids : sch.rsp[pid] # NULL <=> live[pid] /\ pid \notin Range(kills)
        /\ \A pid \in Range(kills) : live[pid]
    BY DEF IInv, Tree, Slots
  <2>2. \A pid \in Pids : sch'.rsp[pid] = IF pid = child THEN NULL ELSE sch.rsp[pid]
    BY <1>2, <1>4, <1>10
  <2>3. live' = live /\ live[child] /\ Range(kills') = Range(kills) \cup {child}
    BY <1>5, <1>6, <1>9
  <2> QED BY <2>1, <2>2, <2>3 DEF Slots
<1>12. /\ child_pids' \in [Pids -> Seq(Pids)]
       /\ Range(child_pids'[Victim]) = Range(child_pids[Victim]) \ {child}
       /\ \A p \in Pids : p # Victim => child_pids'[p] = child_pids[p]
       /\ \A p \in Pids : IsInjective(child_pids'[p])
  <2> DEFINE q == Tail(child_pids[Victim])
             v == Victim
  <2>1. q \in Seq(Pids) /\ IsInjective(q) /\ Range(q) = Range(child_pids[v]) \ {child}
    BY <1>4
  <2>2. child_pids' = [child_pids EXCEPT ![v] = q] /\ v \in Pids
    BY <1>1, <1>5
  <2>3. \A p \in Pids : IsInjective(child_pids[p])
    BY DEF IInv, Tree, Queues
  <2> HIDE DEF q, v
  <2>4. /\ child_pids' \in [Pids -> Seq(Pids)]
        /\ child_pids'[v] = q /\ \A p \in Pids : p # v => child_pids'[p] = child_pids[p]
    BY <1>2, <2>1, <2>2
  <2>5. \A p \in Pids : IsInjective(child_pids'[p])
    BY <2>1, <2>3, <2>4
  <2> QED BY <2>1, <2>4, <2>5 DEF v
<1>13. Queues'
  <2>1. ASSUME NEW p \in Pids, NEW c \in Pids, c \in Range(child_pids'[p])
        PROVE  /\ live'[p] /\ live'[c] /\ parent_pid'[c] = p
               /\ \A i \in 2 .. Len(kills') : kills'[i] # c
    <3>1. c \in Range(child_pids[p])
      BY <1>12, <2>1
    <3>2. live[p] /\ live[c] /\ parent_pid[c] = p /\ \A i \in 2 .. n : kills[i] # c
      BY <3>1 DEF IInv, Tree, Queues, n
    <3>3. c # child
      BY <1>6, <1>12, <2>1, <3>2
    <3> QED BY <1>1, <1>5, <1>9, <3>2, <3>3
  <2>2. ASSUME NEW c \in Pids, live'[c], parent_pid'[c] \in Pids
        PROVE  /\ live'[parent_pid'[c]]
               /\ c \in Range(child_pids'[parent_pid'[c]]) \/ c \in Range(kills')
    <3>1. /\ live[parent_pid[c]]
          /\ c \in Range(child_pids[parent_pid[c]]) \/ c \in Range(kills)
      BY <1>5, <2>2 DEF IInv, Tree, Queues
    <3> QED BY <1>5, <1>9, <1>12, <2>2, <3>1
  <2> QED BY <1>12, <2>1, <2>2 DEF Queues
<1>14. Path'
  <2> SUFFICES ASSUME NEW i \in 2 .. Len(kills') PROVE parent_pid[kills'[i]] = kills'[i - 1]
    BY <1>5 DEF Path
  <2>1. CASE i = n + 1
    BY <1>1, <1>6, <1>9, <2>1
  <2>2. CASE i \in 2 .. n
    <3> i \in 1 .. n /\ i - 1 \in 1 .. n
      BY <1>1, <2>2
    <3> QED BY <1>9, <2>2 DEF IInv, Tree, Path, n
  <2> QED BY <1>1, <1>9, <2>1, <2>2
<1>15. Rooted'
  BY <1>5 DEF IInv, Tree, Rooted, Live
<1>16. Ranked(rank)'
  <2>1. ASSUME NEW i \in 1 .. Len(kills'), NEW j \in 1 .. Len(kills'), i < j
        PROVE  rank[kills'[i]] < rank[kills'[j]]
    <3>1. CASE j = n + 1
      <4> i \in 1 .. n
        BY <1>1, <1>9, <2>1, <3>1
      <4> QED BY <1>8, <1>9, <3>1
    <3>2. CASE j # n + 1
      <4> i \in 1 .. n /\ j \in 1 .. n
        BY <1>1, <1>9, <2>1, <3>2
      <4> QED BY <1>7, <1>9, <2>1 DEF Ranked, n
    <3> QED BY <3>1, <3>2
  <2> QED BY <1>5, <1>7, <2>1 DEF Ranked
<1> QED BY <1>9, <1>10, <1>11, <1>12, <1>13, <1>14, <1>15, <1>16 DEF Tree

\* proc_kill returns: its process, which has no children left, leaves the tree.
LEMMA FinishKillKeepsTree ==
  ASSUME IInv, FinishKill
  PROVE  Tree' /\ kills' \in Seq(Pids) /\ child_pids' \in [Pids -> Seq(Pids)]
<1> USE PidsAreInts
<1> DEFINE n == Len(kills)
           v == Victim
<1>1. /\ kills \in Seq(Pids) /\ kills # <<>> /\ n \in Nat \ {0}
      /\ v \in Pids /\ v = kills[n]
      /\ Range(kills) = {kills[i] : i \in 1 .. n} /\ \A i \in 1 .. n : kills[i] \in Pids
  BY EmptySeq, ElementOfSeq, RangeEquality DEF IInv, TypeOK, FinishKill, Killing, Victim
<1>2. /\ live \in [Pids -> BOOLEAN] /\ parent_pid \in [Pids -> Contexts]
      /\ child_pids \in [Pids -> Seq(Pids)] /\ sch.rsp \in [Pids -> Pids \cup {NULL}]
  BY DEF IInv, TypeOK, SchStates
<1>3. /\ child_pids[v] = <<>> /\ Range(child_pids[v]) = {}
      /\ live' = [live EXCEPT ![v] = FALSE]
      /\ parent_pid' = [parent_pid EXCEPT ![v] = 0]
      /\ child_pids' = IF parent_pid[v] \in Pids /\ live[parent_pid[v]]
                       THEN [child_pids EXCEPT ![parent_pid[v]] =
                               RemoveFirst(child_pids[parent_pid[v]], v)]
                       ELSE child_pids
      /\ kills' = Front(kills) /\ sch' = sch
  BY <1>2 DEF FinishKill, FreeSlot, Range
<1>4. live[v] /\ sch.rsp[v] = NULL
  BY <1>1 DEF IInv, Tree, Slots
<1>5. PICK rank \in [Pids -> Int] : Ranked(rank)
  BY DEF IInv, Tree
<1>6. /\ kills' \in Seq(Pids) /\ Len(kills') = n - 1
      /\ \A i \in 1 .. n - 1 : kills'[i] = kills[i]
  BY <1>1, <1>3, FrontFacts
<1>7. Range(kills') = {kills[i] : i \in 1 .. n - 1}
  <2>1. Range(kills') = {kills'[i] : i \in 1 .. Len(kills')}
    BY <1>6, RangeEquality
  <2> QED BY <1>6, <2>1
<1> HIDE DEF n, v
\* The innermost call ranks above the others.
<1>8. \A i \in 1 .. n - 1 : kills[i] # v /\ rank[kills[i]] < rank[v]
  <2> SUFFICES ASSUME NEW i \in 1 .. n - 1 PROVE rank[kills[i]] < rank[v] /\ kills[i] # v
    OBVIOUS
  <2>1. i \in 1 .. n /\ n \in 1 .. n /\ i < n
    BY <1>1
  <2>2. rank[kills[i]] < rank[v]
    BY <1>1, <1>5, <2>1 DEF Ranked, n
  <2>3. rank[kills[i]] \in Int /\ rank[v] \in Int
    BY <1>1, <2>1
  <2> QED BY <2>2, <2>3
<1>9. Range(kills') = Range(kills) \ {v}
  <2>1. 1 .. n = 1 .. n - 1 \cup {n}
    BY <1>1
  <2> QED BY <1>1, <1>7, <1>8, <2>1
\* It has no child any more: one in its queue it would still have to kill, and
\* one being killed would rank above it.
<1>10. \A c \in Pids : live[c] => parent_pid[c] # v
  <2> SUFFICES ASSUME NEW c \in Pids, live[c], parent_pid[c] = v PROVE FALSE
    OBVIOUS
  <2>1. c \in Range(kills) /\ rank[v] < rank[c]
    <3>1. v \in Pids /\ Range(child_pids[v]) = {}
      BY <1>1, <1>3
    <3>2. c \in Range(child_pids[v]) \/ c \in Range(kills)
      BY <3>1 DEF IInv, Tree, Queues
    <3>3. rank[v] < rank[c]
      BY <1>5, <3>1 DEF Ranked
    <3> QED BY <3>1, <3>2, <3>3
  <2>2. rank[v] \in Int /\ c # v
    BY <1>1, <2>1
  <2>3. c \in Range(kills')
    BY <1>9, <2>1, <2>2
  <2>4. PICK i \in 1 .. n - 1 : c = kills[i]
    BY <1>7, <2>3
  <2>5. rank[c] < rank[v] /\ rank[c] \in Int
    BY <1>8, <2>4
  <2> QED BY <2>1, <2>2, <2>5
<1>11. Slots'
  <2>1. \A p \in Pids : live'[p] <=> live[p] /\ p # v
    BY <1>1, <1>2, <1>3
  <2>2. \A p \in Range(kills') : p \in Pids
    BY <1>1, <1>9
  <2>3. /\ \A pid \in Pids : sch.rsp[pid] # NULL <=> live[pid] /\ pid \notin Range(kills)
        /\ \A pid \in Range(kills) : live[pid]
    BY DEF IInv, Tree, Slots
  <2> QED BY <1>3, <1>4, <1>9, <2>1, <2>2, <2>3 DEF Slots
\* Whatever the branch, v is in no queue after it and the rest is kept.
<1>12. /\ child_pids' \in [Pids -> Seq(Pids)]
       /\ \A p \in Pids : /\ IsInjective(child_pids'[p])
                         /\ Range(child_pids'[p]) = Range(child_pids[p]) \ {v}
  <2>1. /\ \A p \in Pids : IsInjective(child_pids[p])
        /\ \A p \in Pids : v \in Range(child_pids[p]) => p = parent_pid[v] /\ live[p]
    BY <1>1 DEF IInv, Tree, Queues
  <2>2. CASE parent_pid[v] \in Pids /\ live[parent_pid[v]]
    <3> DEFINE q == RemoveFirst(child_pids[parent_pid[v]], v)
    <3>1. /\ q \in Seq(Pids) /\ IsInjective(q)
          /\ Range(q) = Range(child_pids[parent_pid[v]]) \ {v}
      BY <1>2, <2>1, <2>2, RemoveFirstFacts
    <3>2. child_pids' = [child_pids EXCEPT ![parent_pid[v]] = q]
      BY <1>3, <2>2
    <3> HIDE DEF q
    <3>3. \A p \in Pids : child_pids'[p] = IF p = parent_pid[v] THEN q ELSE child_pids[p]
      BY <1>2, <3>2
    <3>4. child_pids' \in [Pids -> Seq(Pids)]
      BY <1>2, <3>1, <3>2
    <3>5. \A p \in Pids : p # parent_pid[v] => Range(child_pids[p]) = Range(child_pids[p]) \ {v}
      BY <2>1
    <3> QED BY <2>1, <3>1, <3>3, <3>4, <3>5
  <2>3. CASE ~(parent_pid[v] \in Pids /\ live[parent_pid[v]])
    BY <1>2, <1>3, <2>1, <2>3
  <2> QED BY <2>2, <2>3
<1>13. Queues'
  <2>1. ASSUME NEW p \in Pids, NEW c \in Pids, c \in Range(child_pids'[p])
        PROVE  /\ live'[p] /\ live'[c] /\ parent_pid'[c] = p
               /\ \A i \in 2 .. Len(kills') : kills'[i] # c
    <3>1. c \in Range(child_pids[p]) /\ c # v /\ p # v
      BY <1>3, <1>12, <2>1
    <3>2. live[p] /\ live[c] /\ parent_pid[c] = p /\ \A i \in 2 .. n : kills[i] # c
      BY <3>1 DEF IInv, Tree, Queues, n
    <3>3. \A i \in 2 .. n - 1 : i \in 2 .. n /\ i \in 1 .. n - 1
      BY <1>1
    <3> QED BY <1>2, <1>3, <1>6, <3>1, <3>2, <3>3
  <2>2. ASSUME NEW c \in Pids, live'[c], parent_pid'[c] \in Pids
        PROVE  /\ live'[parent_pid'[c]]
               /\ c \in Range(child_pids'[parent_pid'[c]]) \/ c \in Range(kills')
    <3>1. c # v /\ live[c] /\ parent_pid'[c] = parent_pid[c] /\ parent_pid[c] # v
      BY <1>1, <1>2, <1>3, <1>10, <2>2
    <3>2. /\ live[parent_pid[c]]
          /\ c \in Range(child_pids[parent_pid[c]]) \/ c \in Range(kills)
      BY <2>2, <3>1 DEF IInv, Tree, Queues
    <3>3. live'[parent_pid[c]]
      BY <1>2, <1>3, <2>2, <3>1, <3>2
    <3>4. c \in Range(child_pids'[parent_pid[c]]) \/ c \in Range(kills')
      BY <1>9, <1>12, <2>2, <3>1, <3>2
    <3> QED BY <3>1, <3>3, <3>4
  <2> QED BY <1>12, <2>1, <2>2 DEF Queues
<1>14. Path'
  <2> SUFFICES ASSUME NEW i \in 2 .. Len(kills') PROVE parent_pid'[kills'[i]] = kills'[i - 1]
    BY DEF Path
  <2>1. i \in 2 .. n /\ i \in 1 .. n - 1 /\ i - 1 \in 1 .. n - 1 /\ i \in 1 .. n
    BY <1>1, <1>6
  <2>2. parent_pid[kills[i]] = kills[i - 1]
    BY <2>1 DEF IInv, Tree, Path, n
  <2> QED BY <1>1, <1>2, <1>3, <1>6, <1>8, <2>1, <2>2
<1>15. Rooted'
  <2>1. /\ v \in Live /\ Live' = Live \ {v}
        /\ \A q \in Live : parent_pid[q] # v /\ (q # v => parent_pid'[q] = parent_pid[q])
    BY <1>1, <1>2, <1>3, <1>4, <1>10 DEF Live
  <2>2. /\ \A pid \in Pids : live[pid] => live[0]
        /\ \A S \in SUBSET Live :
             0 \in S /\ (\A q \in Live : parent_pid[q] \in S => q \in S) => S = Live
    BY DEF IInv, Tree, Rooted
  <2>3. ASSUME NEW p \in Pids, live'[p]
        PROVE  live'[0]
    <3>1. CASE v = 0
      <4>1. {0} \in SUBSET Live /\ \A q \in Live : parent_pid[q] \in {0} => q \in {0}
        BY <2>1, <3>1
      <4>2. Live = {0}
        BY <2>2, <4>1
      <4> QED BY <1>2, <1>3, <2>1, <2>3, <3>1, <4>2 DEF Live
    <3>2. CASE v # 0
      BY <1>1, <1>2, <1>3, <2>2, <2>3, <3>2
    <3> QED BY <3>1, <3>2
  <2>4. ASSUME NEW S \in SUBSET Live', 0 \in S, \A q \in Live' : parent_pid'[q] \in S => q \in S
        PROVE  S = Live'
    <3> DEFINE old == S \cup {v}
    <3>1. /\ old \in SUBSET Live /\ 0 \in old
          /\ \A q \in Live : parent_pid[q] \in old => q \in old
      BY <2>1, <2>4
    <3> HIDE DEF old
    <3>2. old = Live
      BY <2>2, <3>1
    <3> QED BY <2>1, <2>4, <3>2 DEF old
  <2> QED BY <2>3, <2>4 DEF Rooted
<1>16. Ranked(rank)'
  <2>1. ASSUME NEW c \in Pids, live'[c], parent_pid'[c] \in Pids
        PROVE  rank[parent_pid'[c]] < rank[c]
    BY <1>1, <1>2, <1>3, <1>5, <2>1 DEF Ranked
  <2>2. ASSUME NEW i \in 1 .. Len(kills'), NEW j \in 1 .. Len(kills'), i < j
        PROVE  rank[kills'[i]] < rank[kills'[j]]
    <3> i \in 1 .. n - 1 /\ j \in 1 .. n - 1 /\ i \in 1 .. n /\ j \in 1 .. n
      BY <1>1, <1>6
    <3> QED BY <1>5, <1>6, <2>2 DEF Ranked, n
  <2> QED BY <2>1, <2>2 DEF Ranked
<1> QED BY <1>6, <1>11, <1>12, <1>13, <1>14, <1>15, <1>16 DEF Tree

----------------------------------------------------------------------------
(* Every step keeps the invariant. *)

\* A step that calls only the scheduler, and may move a waiter or a waitpid on.
LEMMA QuietStepKeepsIInv ==
  ASSUME IInv, SchInv(sch'), sch'.rsp = sch.rsp, UNCHANGED <<live, parent_pid, child_pids, kills>>,
         waiting_pids' \in [Pids -> Seq(Pids \cup {KILLED_PROC_PID})],
         after' \in {"return", "yield"}, waiting' \in [Pids -> Pids \cup {NULL}],
         gone' \in SUBSET Pids
  PROVE  IInv'
<1>1. Tree'
  BY QuietStepKeepsTree DEF IInv
<1>2. TypeOK'
  BY DEF IInv, TypeOK, SchInv
<1> QED BY <1>1, <1>2 DEF IInv

LEMMA KillFromOutsideKeepsIInv ==
  ASSUME IInv, kills = <<>>, NEW pid \in Pids, live[pid], NEW status \in ExitStatuses,
         EnterKill(pid, status), UNCHANGED <<processes, waiting, gone>>,
         after' \in {"return", "yield"}
  PROVE  IInv'
<1>1. Tree'
  BY EnterKillKeepsTree DEF processes
<1>2. SchInv(sch')
  BY PidsAreInts, KilledKeepsSchInv DEF IInv, EnterKill
<1>3. kills' \in Seq(Pids)
  BY AppendFacts DEF IInv, TypeOK, EnterKill
<1>4. TypeOK'
  BY <1>2, <1>3 DEF IInv, TypeOK, SchInv, processes
<1> QED BY <1>1, <1>2, <1>4 DEF IInv

LEMMA CreateKeepsIInv ==
  ASSUME IInv, NEW pid \in Pids, NEW asked \in AskedPriorities,
         Create(pid, asked) \/ CreateUnlinked(pid, asked)
  PROVE  IInv'
<1> USE PidsAreInts
<1>1. /\ sch.current \in Pids /\ sch.current # KILLED_PROC_PID
      /\ asked \in Int /\ sch.rsp[pid] = NULL
  BY ProcessAssumption
     DEF IInv, TypeOK, SchStates, Tree, Slots, Create, CreateUnlinked, TakeSlot, SystemCall, Contexts
<1>2. /\ live' \in [Pids -> BOOLEAN] /\ parent_pid' \in [Pids -> Contexts]
      /\ UNCHANGED <<waiting_pids, after, waiting, gone>>
  BY <1>1 DEF IInv, TypeOK, Create, CreateUnlinked, TakeSlot, Contexts
<1>3. CASE Create(pid, asked)
  <2>1. Tree'
    BY <1>3, CreateKeepsTree
  <2>2. SchInv(sch')
    BY <1>1, <1>3, CreateKeepsSchInv DEF IInv, Create
  <2>3. child_pids' \in [Pids -> Seq(Pids)] /\ kills' = kills
    <3>1. Append(child_pids[sch.current], pid) \in Seq(Pids)
      BY <1>1, AppendFacts DEF IInv, TypeOK
    <3> QED BY <1>1, <1>3, <3>1 DEF IInv, TypeOK, Create
  <2>4. TypeOK'
    BY <1>2, <2>2, <2>3 DEF IInv, TypeOK, SchInv
  <2> QED BY <2>1, <2>2, <2>4 DEF IInv
<1>4. CASE CreateUnlinked(pid, asked)
  <2>1. Tree' /\ SchInv(sch')
    BY <1>1, <1>4, CreateUnlinkedKeepsTree
  <2>2. child_pids' = child_pids /\ kills' = <<pid>>
    BY <1>4 DEF CreateUnlinked
  <2>3. kills' \in Seq(Pids)
    BY <2>2
  <2>4. TypeOK'
    BY <1>2, <2>1, <2>2, <2>3 DEF IInv, TypeOK, SchInv
  <2> QED BY <2>1, <2>4 DEF IInv
<1> QED BY <1>3, <1>4

LEMMA NextKeepsIInv == IInv /\ [Next]_vars => IInv'
<1> SUFFICES ASSUME IInv, [Next]_vars PROVE IInv'
  OBVIOUS
<1> USE PidsAreInts
<1>0. /\ sch.current \in Int /\ SchInv(sch) /\ TypeOK
      /\ AskedPriorities \subseteq Int /\ {1, 255} \subseteq ExitStatuses
  <2>1. sch.current \in Pids \cup {KERNEL_PROC_PID, KILLED_PROC_PID} /\ SchInv(sch) /\ TypeOK
    BY DEF IInv, TypeOK, SchStates, Contexts
  <2>2. KERNEL_PROC_PID \in Int /\ KILLED_PROC_PID \in Int
    BY DEF KERNEL_PROC_PID, KILLED_PROC_PID
  <2> QED BY <2>1, <2>2, ProcessAssumption
<1>1. ASSUME NEW pid \in Pids, NEW asked \in AskedPriorities,
             Create(pid, asked) \/ CreateUnlinked(pid, asked)
      PROVE  IInv'
  BY <1>1, CreateKeepsIInv
<1>2. ASSUME NEW pid \in Pids, NEW status \in ExitStatuses, Interruptible, StartKill(pid, status)
      PROVE  IInv'
  BY <1>0, <1>2, KillFromOutsideKeepsIInv DEF StartKill, Interruptible, KernelDone, TypeOK
<1>3. ASSUME NEW status \in ExitStatuses, KillCurrentAndYield(status)
      PROVE  IInv'
  <2>1. CASE sch.current \in Pids
    <3>1. live[sch.current]
      BY <2>1 DEF IInv, Tree, Slots, SchInv, ContextsKept, IsActive
    <3> QED BY <1>3, <2>1, <3>1, KillFromOutsideKeepsIInv
            DEF KillCurrentAndYield, SystemCall, Interruptible, KernelDone
  <2>2. CASE sch.current \notin Pids
    BY <1>0, <1>3, <2>2, QuietStepKeepsIInv DEF KillCurrentAndYield, processes, TypeOK
  <2> QED BY <2>1, <2>2
<1>4. CASE KillChild
  <2>1. /\ Tree' /\ SchInv(sch') /\ kills' \in Seq(Pids)
        /\ child_pids' \in [Pids -> Seq(Pids)]
    BY <1>4, KillChildKeepsTree
  <2>2. UNCHANGED <<live, parent_pid, waiting_pids, after, waiting, gone>>
    BY <1>4 DEF KillChild
  <2>3. TypeOK'
    BY <1>0, <2>1, <2>2 DEF TypeOK, SchInv
  <2> QED BY <2>1, <2>3 DEF IInv
<1>5. CASE WakeWaiter
  <2>1. Victim \in Pids
    BY <1>0, <1>5, FrontFacts, ElementOfSeq DEF TypeOK, WakeWaiter, Killing, Victim
  <2> DEFINE q == waiting_pids[Victim]
  <2>2. q \in Seq(Pids \cup {KILLED_PROC_PID}) /\ q # <<>>
    BY <1>0, <1>5, <2>1 DEF TypeOK, WakeWaiter
  <2>3. Front(q) \in Seq(Pids \cup {KILLED_PROC_PID}) /\ Last(q) \in Pids \cup {KILLED_PROC_PID}
    BY <2>2, FrontFacts
  <2>4. /\ sch' = SchUnblock(sch, Last(q))
        /\ waiting_pids' = [waiting_pids EXCEPT ![Victim] = Front(q)]
        /\ UNCHANGED <<live, parent_pid, child_pids, kills, after, waiting, gone>>
    BY <1>0, <1>5, <2>1 DEF TypeOK, WakeWaiter
  <2> HIDE DEF q
  <2>5. waiting_pids' \in [Pids -> Seq(Pids \cup {KILLED_PROC_PID})]
    BY <1>0, <2>3, <2>4 DEF TypeOK
  <2>6. Last(q) \in Int
    <3> KILLED_PROC_PID \in Int
      BY DEF KILLED_PROC_PID
    <3> QED BY <2>3
  <2>7. SchInv(sch') /\ sch'.rsp = sch.rsp
    BY <1>0, <2>4, <2>6, UnblockKeepsSchInv, CallsKeepContexts
  <2> QED BY <1>0, <2>4, <2>5, <2>7, QuietStepKeepsIInv DEF TypeOK
<1>6. CASE FinishKill
  <2>1. /\ Tree' /\ kills' \in Seq(Pids) /\ child_pids' \in [Pids -> Seq(Pids)]
    BY <1>6, FinishKillKeepsTree
  <2>2. /\ live' \in [Pids -> BOOLEAN] /\ parent_pid' \in [Pids -> Contexts]
        /\ waiting' \in [Pids -> Pids \cup {NULL}] /\ gone' \in SUBSET Pids
        /\ UNCHANGED <<sch, after>>
    BY <1>0, <1>6 DEF TypeOK, FinishKill, FreeSlot, Contexts
  <2>3. waiting_pids' \in [Pids -> Seq(Pids \cup {KILLED_PROC_PID})]
    <3>1. \A S : <<>> \in Seq(S)
      BY EmptySeq
    <3> QED BY <1>0, <1>6, <3>1 DEF TypeOK, FinishKill, FreeSlot
  <2>4. TypeOK' /\ SchInv(sch')
    BY <1>0, <2>1, <2>2, <2>3 DEF TypeOK
  <2> QED BY <2>1, <2>4 DEF IInv
<1>7. CASE YieldAfterKill
  <2>1. SchInv(sch') /\ sch'.rsp = sch.rsp
    BY <1>0, <1>7, YieldKeepsSchInv, YieldKeepsContexts DEF YieldAfterKill
  <2> QED BY <1>0, <1>7, <2>1, QuietStepKeepsIInv DEF YieldAfterKill, processes, TypeOK
<1>8. ASSUME NEW pid \in Pids, Waitpid(pid)
      PROVE  IInv'
  <2> DEFINE caller == sch.current
  <2>1. caller \in Pids \cup {KILLED_PROC_PID}
    BY <1>0, <1>8 DEF Waitpid, SystemCall, TypeOK, SchStates, Contexts
  <2>2. waiting_pids' \in [Pids -> Seq(Pids \cup {KILLED_PROC_PID})]
    <3>1. Append(waiting_pids[pid], caller) \in Seq(Pids \cup {KILLED_PROC_PID})
      BY <1>0, <2>1, AppendFacts DEF TypeOK
    <3> QED BY <1>0, <1>8, <3>1 DEF TypeOK, Waitpid, ProcUnblockOnKilled
  <2>3. /\ waiting' \in [Pids -> Pids \cup {NULL}] /\ gone' \in SUBSET Pids
        /\ UNCHANGED <<live, parent_pid, child_pids, kills, after>>
        /\ SchYield(SchBlock(sch, caller), sch')
    BY <1>0, <1>8 DEF TypeOK, Waitpid
  <2>4. SchInv(sch') /\ sch'.rsp = sch.rsp
    <3>1. SchInv(SchBlock(sch, caller)) /\ SchBlock(sch, caller).rsp = sch.rsp
      BY <1>0, BlockKeepsSchInv, CallsKeepContexts
    <3> QED BY <2>3, <3>1, YieldKeepsSchInv, YieldKeepsContexts
  <2> QED BY <1>0, <2>2, <2>3, <2>4, QuietStepKeepsIInv DEF TypeOK
<1>9. CASE ReturnFromWaitpid
  <2>1. waiting' \in [Pids -> Pids \cup {NULL}]
    BY <1>0, <1>9 DEF ReturnFromWaitpid, TypeOK
  <2> QED BY <1>0, <1>9, <2>1, QuietStepKeepsIInv DEF ReturnFromWaitpid, processes, TypeOK
<1>10. ASSUME NEW pid \in Pids, Block(pid)
       PROVE  IInv'
  <2>1. SchInv(sch') /\ sch'.rsp = sch.rsp
    BY <1>0, <1>10, BlockKeepsSchInv, UnblockKeepsSchInv, CallsKeepContexts DEF Block
  <2> QED BY <1>0, <1>10, <2>1, QuietStepKeepsIInv DEF Block, processes, TypeOK
<1>11. ASSUME NEW pid \in Pids, NEW priority \in AskedPriorities, Nice(pid, priority)
       PROVE  IInv'
  <2>1. SchInv(sch') /\ sch'.rsp = sch.rsp
    BY <1>0, <1>11, SetPriorityKeepsSchInv, CallsKeepContexts DEF Nice
  <2> QED BY <1>0, <1>11, <2>1, QuietStepKeepsIInv DEF Nice, processes, TypeOK
<1>12. CASE Yield
  <2>1. SchInv(sch') /\ sch'.rsp = sch.rsp
    BY <1>0, <1>12, YieldKeepsSchInv, YieldKeepsContexts DEF Yield
  <2> QED BY <1>0, <1>12, <2>1, QuietStepKeepsIInv DEF Yield, processes, TypeOK
<1>13. CASE Tick
  <2>1. SchInv(sch') /\ sch'.rsp = sch.rsp
    BY <1>0, <1>13, SwitchKeepsSchInv, SwitchKeepsContexts DEF Tick
  <2> QED BY <1>0, <1>13, <2>1, QuietStepKeepsIInv DEF Tick, processes, TypeOK
<1>14. CASE UNCHANGED vars
  BY <1>0, <1>14, QuietStepKeepsIInv DEF vars, processes, TypeOK
<1> QED
  BY <1>0, <1>1, <1>2, <1>3, <1>4, <1>5, <1>6, <1>7, <1>8, <1>9, <1>10, <1>11, <1>12, <1>13, <1>14
     DEF Next, Kill, SystemCall, CtrlC, Exit, Exception

----------------------------------------------------------------------------

LEMMA InvariantOfProcess == Spec => []IInv
BY InitEstablishesIInv, NextKeepsIInv, PTL DEF Spec

(* The process table, the queues and the stack of proc_kill keep to their types:
   no pid in them is out of range, though killed callers enter waiting queues. *)
THEOREM ProcessTypeOK == Spec => []TypeOK
<1>1. IInv => TypeOK
  BY DEF IInv
<1> QED BY InvariantOfProcess, <1>1, PTL

(* The process table and the scheduler agree on which slots are in use. *)
THEOREM ProcessTablesAgree == Spec => []TablesAgree
<1>1. IInv => TablesAgree
  BY DEF IInv, Tree, Slots, SchInv, TablesAgree, IsActive
<1> QED BY InvariantOfProcess, <1>1, PTL

(* The queues of children and the parents' pids are the same tree. *)
THEOREM ProcessChildrenMatchParents == Spec => []ChildrenMatchParents
<1>1. IInv => ChildrenMatchParents
  BY DEF IInv, Tree, Queues, ChildrenMatchParents
<1> QED BY InvariantOfProcess, <1>1, PTL

(* The tree hangs from the shell, and a kill goes down one path of it: whatever
   is alive is reached from pid 0, so there are no orphans and no cycles. *)
THEOREM ProcessEverythingDescendsFromShell == Spec => []EverythingDescendsFromShell
<1>1. IInv => EverythingDescendsFromShell
  <2> SUFFICES ASSUME IInv PROVE EverythingDescendsFromShell
    OBVIOUS
  <2>1. ASSUME NEW pid \in Pids, live[pid]
        PROVE  live[0] /\ pid \in TreeOf(0)
    BY <2>1 DEF IInv, Tree, Rooted, TreeOf, Live
  <2> QED BY <2>1 DEF IInv, Tree, Path, EverythingDescendsFromShell
<1> QED BY InvariantOfProcess, <1>1, PTL

----------------------------------------------------------------------------
(* The tree of those who are to survive *)

\* S has the children of its members.
ClosedDown(S) == \A q \in Live : parent_pid[q] \in S => q \in S

\* Doomed is the least set of live processes that holds those proc_kill is at work
\* on, and the children of those it holds.
DoomedIsLeast ==
  /\ Doomed \in SUBSET Live /\ Range(kills) \subseteq Doomed /\ ClosedDown(Doomed)
  /\ \A S \in SUBSET Live : Range(kills) \subseteq S /\ ClosedDown(S) => Doomed \subseteq S

LEMMA DoomedFacts == IInv => DoomedIsLeast
<1> SUFFICES ASSUME IInv PROVE DoomedIsLeast
  OBVIOUS
<1>1. Range(kills) \subseteq Pids /\ \A pid \in Range(kills) : live[pid]
  <2>1. kills \in Seq(Pids)
    BY DEF IInv, TypeOK
  <2>2. Range(kills) = {kills[i] : i \in 1 .. Len(kills)}
    BY <2>1, RangeEquality
  <2> QED BY <2>1, <2>2, ElementOfSeq DEF IInv, Tree, Slots
<1>2. \A pid \in Range(kills) : pid \in TreeOf(pid) /\ TreeOf(pid) \subseteq Live
  BY <1>1 DEF TreeOf, Live
<1>3. ClosedDown(Doomed)
  <2> SUFFICES ASSUME NEW q \in Live, NEW pid \in Range(kills), parent_pid[q] \in TreeOf(pid)
               PROVE  q \in TreeOf(pid)
    BY DEF ClosedDown, Doomed
  <2> QED BY DEF TreeOf
<1>4. \A S \in SUBSET Live : Range(kills) \subseteq S /\ ClosedDown(S) => Doomed \subseteq S
  <2> SUFFICES ASSUME NEW S \in SUBSET Live, Range(kills) \subseteq S, ClosedDown(S),
                      NEW pid \in Range(kills), NEW p \in TreeOf(pid)
               PROVE  p \in S
    BY DEF Doomed
  <2> QED BY DEF TreeOf, ClosedDown
<1> QED BY <1>2, <1>3, <1>4 DEF Doomed, DoomedIsLeast

LEMMA DoomedFactsNext == IInv' => DoomedIsLeast'
BY DoomedFacts, PTL

\* The shell has no parent among the processes.
LEMMA ShellIsRoot ==
  ASSUME IInv, live[0]
  PROVE  parent_pid[0] \notin Pids
<1> SUFFICES ASSUME parent_pid[0] \in Pids PROVE FALSE
  OBVIOUS
<1>1. PICK rank \in [Pids -> Int] : Ranked(rank)
  BY DEF IInv, Tree
<1> DEFINE S == {q \in Live : rank[0] <= rank[q]}
           above == parent_pid[0]
<1>2. 0 \in Pids /\ above \in Pids /\ live[above] /\ rank[above] < rank[0]
  BY <1>1, PidsAreInts DEF Ranked, IInv, Tree, Queues
<1>3. 0 \in S /\ S \in SUBSET Live
  BY <1>1, <1>2 DEF Live
<1>4. ASSUME NEW q \in Live, parent_pid[q] \in S PROVE q \in S
  <2>1. rank[parent_pid[q]] < rank[q] /\ parent_pid[q] \in Pids /\ q \in Pids
    BY <1>1, <1>4 DEF Ranked, Live
  <2> QED BY <1>1, <1>2, <1>4, <2>1
<1>5. S = Live
  <2> HIDE DEF S
  <2> QED BY <1>3, <1>4 DEF IInv, Tree, Rooted
<1> QED BY <1>1, <1>2, <1>5 DEF Live

\* What Forest has for its parent.
Remaining == [pid \in Survivors |-> IF pid = 0 THEN 0 ELSE parent_pid[pid]]

\* Outside proc_kill everybody survives.
LEMMA NobodyDoomed ==
  ASSUME kills = <<>>
  PROVE  Survivors = Live
BY DEF Survivors, Doomed, Range

\* A step that leaves the tree of the survivors alone.
LEMMA SurvivorsKept ==
  ASSUME Survivors' = Survivors, Survivors \subseteq Pids,
         \A pid \in Survivors : parent_pid'[pid] = parent_pid[pid]
  PROVE  Remaining' = Remaining
BY DEF Remaining

LEMMA QuietStepIsStutter ==
  UNCHANGED <<live, parent_pid, kills>> => Remaining' = Remaining
BY DEF Remaining, Survivors, Doomed, TreeOf, Live

LEMMA CreateIsSpawn ==
  ASSUME IInv, NEW pid \in Pids, NEW asked, Create(pid, asked)
  PROVE  Forest!Spawn(pid, sch.current)
<1> DEFINE by == sch.current
<1>1. /\ by \in Pids /\ live[by] /\ ~live[pid] /\ kills = <<>> /\ kills' = <<>>
      /\ live' = [live EXCEPT ![pid] = TRUE] /\ live \in [Pids -> BOOLEAN]
      /\ parent_pid' = [parent_pid EXCEPT ![pid] = by] /\ parent_pid \in [Pids -> Contexts]
  <2>1. by \in Pids /\ IsActive(sch, by)
    BY DEF IInv, TypeOK, SchStates, Contexts, Create, TakeSlot, SystemCall, SchInv, ContextsKept
  <2> QED BY <2>1 DEF IInv, TypeOK, Tree, Slots, IsActive, Create, TakeSlot, SystemCall,
                      Interruptible, KernelDone
<1>2. live[0] /\ 0 \in Pids /\ pid # 0
  BY <1>1, PidsAreInts DEF IInv, Tree, Rooted
<1>3. Survivors = Live /\ Survivors' = Live'
  BY <1>1 DEF Survivors, Doomed, Range
<1>4. Live' = Live \cup {pid} /\ by \in Live /\ pid \notin Live /\ Live \subseteq Pids
  BY <1>1 DEF Live
<1>5. /\ Remaining = [p \in Live |-> IF p = 0 THEN 0 ELSE parent_pid[p]]
      /\ Remaining' = [p \in Live \cup {pid} |-> IF p = 0 THEN 0 ELSE parent_pid'[p]]
  BY <1>3, <1>4 DEF Remaining
<1>6. \A p \in Live \cup {pid} :
        parent_pid'[p] = IF p = pid THEN by ELSE parent_pid[p]
  BY <1>1, <1>4
<1> HIDE DEF by
<1>7. DOMAIN Remaining = Live
  BY <1>5
<1>8. Remaining' = [p \in Live \cup {pid} |-> IF p = pid THEN by ELSE Remaining[p]]
  BY <1>2, <1>4, <1>5, <1>6
<1> QED BY <1>4, <1>7, <1>8 DEF Forest!Spawn, Forest!Live, Remaining, by

\* The new process dies before anybody sees it.
LEMMA CreateUnlinkedIsStutter ==
  ASSUME IInv, NEW pid \in Pids, NEW asked, CreateUnlinked(pid, asked), IInv'
  PROVE  Remaining' = Remaining
<1> DEFINE by == sch.current
<1>1. /\ by \in Pids /\ live[by] /\ ~live[pid] /\ kills = <<>> /\ kills' = <<pid>>
      /\ live' = [live EXCEPT ![pid] = TRUE] /\ live \in [Pids -> BOOLEAN]
      /\ parent_pid' = [parent_pid EXCEPT ![pid] = by] /\ parent_pid \in [Pids -> Contexts]
  <2>1. by \in Pids /\ IsActive(sch, by)
    BY DEF IInv, TypeOK, SchStates, Contexts, CreateUnlinked, TakeSlot, SystemCall, SchInv, ContextsKept
  <2> QED BY <2>1 DEF IInv, TypeOK, Tree, Slots, IsActive, CreateUnlinked, TakeSlot, SystemCall,
                      Interruptible, KernelDone
<1>2. Live' = Live \cup {pid} /\ pid \notin Live /\ Live \subseteq Pids
  BY <1>1 DEF Live
<1>3. Range(kills') = {pid}
  BY <1>1 DEF Range
<1>4. ClosedDown({pid})'
  <2> SUFFICES ASSUME NEW q \in Live', parent_pid'[q] = pid, q # pid PROVE FALSE
    BY DEF ClosedDown
  <2>1. q \in Pids /\ live[q] /\ parent_pid[q] = pid
    BY <1>1, <1>2 DEF Live
  <2> QED BY <1>1, <2>1 DEF IInv, Tree, Queues
<1>5. Doomed' = {pid}
  BY <1>2, <1>3, <1>4, DoomedFactsNext DEF DoomedIsLeast
<1>6. Survivors = Live /\ Survivors' = Live
  BY <1>1, <1>2, <1>5, NobodyDoomed DEF Survivors
<1>7. \A p \in Live : parent_pid'[p] = parent_pid[p]
  BY <1>1, <1>2
<1> QED BY <1>2, <1>6, <1>7, SurvivorsKept

LEMMA EnterKillIsKillTree ==
  ASSUME IInv, kills = <<>>, NEW pid \in Pids, live[pid], NEW status, EnterKill(pid, status),
         UNCHANGED <<live, parent_pid>>
  PROVE  Forest!KillTree(pid)
<1>1. Survivors = Live /\ pid \in Live /\ Live \subseteq Pids
  BY NobodyDoomed DEF Live
<1>2. Remaining = [p \in Live |-> IF p = 0 THEN 0 ELSE parent_pid[p]] /\ DOMAIN Remaining = Live
  BY <1>1 DEF Remaining
<1>3. Survivors' = Live \ TreeOf(pid)
  <2>1. kills' = <<pid>> /\ Range(kills') = {pid}
    BY DEF EnterKill, Range
  <2>2. TreeOf(pid)' = TreeOf(pid) /\ Live' = Live
    BY DEF TreeOf, Live
  <2> QED BY <2>1, <2>2 DEF Survivors, Doomed
<1>4. ASSUME NEW S \in SUBSET Live
      PROVE  ClosedDown(S) <=> \A q \in Live : Remaining[q] \in S => q \in S
  <2>1. \A q \in Live : q # 0 => Remaining[q] = parent_pid[q]
    BY <1>2
  <2>2. 0 \in Live => Remaining[0] = 0 /\ parent_pid[0] \notin S
    BY <1>1, <1>2, ShellIsRoot DEF Live
  <2> QED BY <2>1, <2>2 DEF ClosedDown
<1>5. Forest!Tree(pid) = TreeOf(pid)
  <2>1. Forest!Tree(pid) = {p \in Live : \A S \in SUBSET Live : pid \in S /\ ClosedDown(S) => p \in S}
    BY <1>2, <1>4 DEF Forest!Tree, Forest!Live, Remaining
  <2> QED BY <2>1 DEF TreeOf, ClosedDown
<1>6. Remaining' = [p \in Live \ TreeOf(pid) |-> Remaining[p]]
  BY <1>2, <1>3 DEF Remaining
<1> QED BY <1>1, <1>2, <1>5, <1>6 DEF Forest!KillTree, Forest!Live, Forest!Restrict, Remaining

\* proc_kill goes down to a process it had doomed already.
LEMMA KillChildIsStutter ==
  ASSUME IInv, KillChild, IInv'
  PROVE  Remaining' = Remaining
<1> DEFINE v == Victim
           q == child_pids[v]
           child == Head(q)
<1>1. /\ v \in Range(kills) /\ v \in Pids /\ kills \in Seq(Pids)
      /\ kills' = Append(kills, child) /\ q \in Seq(Pids) /\ q # <<>>
      /\ UNCHANGED <<live, parent_pid>>
  <2>1. kills \in Seq(Pids) /\ kills # <<>> /\ v = kills[Len(kills)]
    BY DEF IInv, TypeOK, KillChild, Killing, Victim
  <2>2. Len(kills) \in 1 .. Len(kills)
    BY <2>1, EmptySeq
  <2>3. v \in Range(kills) /\ v \in Pids
    BY <2>1, <2>2, RangeEquality, ElementOfSeq
  <2> QED BY <2>1, <2>3 DEF IInv, TypeOK, KillChild, EnterKill
<1> HIDE DEF v
<1>2. child \in Range(q) /\ child \in Pids
  <2>1. 1 \in 1 .. Len(q) /\ child = q[1]
    BY <1>1, EmptySeq
  <2> HIDE DEF q, child
  <2> QED BY <1>1, <2>1, RangeEquality, ElementOfSeq
<1>3. live[child] /\ parent_pid[child] = v
  BY <1>1, <1>2 DEF IInv, Tree, Queues
<1>4. Range(kills') = Range(kills) \cup {child}
  <2> HIDE DEF child
  <2> QED BY <1>1, <1>2, AppendFacts
<1>5. Live' = Live /\ \A S : ClosedDown(S)' <=> ClosedDown(S)
  BY <1>1 DEF Live, ClosedDown
<1> HIDE DEF q, child
<1>6. DoomedIsLeast /\ DoomedIsLeast'
  BY DoomedFacts, DoomedFactsNext
<1>7. child \in Doomed
  BY <1>1, <1>2, <1>3, <1>6 DEF DoomedIsLeast, ClosedDown, Live
<1>8. Doomed' \subseteq Doomed
  <2>1. Range(kills') \subseteq Doomed /\ ClosedDown(Doomed) /\ Doomed \in SUBSET Live
    BY <1>4, <1>6, <1>7 DEF DoomedIsLeast
  <2>2. \A S \in SUBSET Live' : Range(kills') \subseteq S /\ ClosedDown(S)' => Doomed' \subseteq S
    BY <1>1, <1>6 DEF DoomedIsLeast, ClosedDown, Live
  <2> QED BY <1>5, <2>1, <2>2
<1>9. Doomed \subseteq Doomed'
  <2>1. Doomed' \in SUBSET Live /\ Range(kills) \subseteq Doomed'
    BY <1>4, <1>5, <1>6 DEF DoomedIsLeast
  <2>2. ClosedDown(Doomed')
    BY <1>1, <1>6 DEF DoomedIsLeast, ClosedDown, Live
  <2> QED BY <1>6, <2>1, <2>2 DEF DoomedIsLeast
<1>10. Survivors' = Survivors /\ Survivors \subseteq Pids
  BY <1>5, <1>8, <1>9 DEF Survivors, Live
<1> QED BY <1>1, <1>10, SurvivorsKept

\* The slot that is freed was doomed, and nobody is doomed because of it alone.
LEMMA FinishKillIsStutter ==
  ASSUME IInv, FinishKill, IInv'
  PROVE  Remaining' = Remaining
<1> DEFINE v == Victim
           n == Len(kills)
           r == Front(kills)
<1>1. /\ kills \in Seq(Pids) /\ kills # <<>> /\ v = kills[n] /\ kills' = r
      /\ n \in Nat \ {0}
  BY EmptySeq DEF IInv, TypeOK, FinishKill, FreeSlot, Killing, Victim
<1>2. r \in Seq(Pids) /\ Len(r) = n - 1 /\ \A i \in 1 .. n - 1 : r[i] = kills[i]
  BY <1>1, FrontFacts
<1> HIDE DEF v, n, r
<1>3. Range(kills) = {kills[i] : i \in 1 .. n}
  BY <1>1, RangeEquality DEF n
<1>4. Range(r) = {kills[i] : i \in 1 .. n - 1}
  <2>1. Range(r) = {r[i] : i \in 1 .. Len(r)}
    BY <1>2, RangeEquality
  <2> QED BY <1>2, <2>1
<1>5. PICK rank \in [Pids -> Int] : Ranked(rank)
  BY DEF IInv, Tree
<1>6. /\ v \in Pids /\ live[v] /\ v \notin Range(r) /\ Range(kills) = Range(r) \cup {v}
      /\ \A p \in Range(kills) : p \in Pids /\ rank[p] <= rank[v]
  <2>1. \A k \in 1 .. n : kills[k] \in Pids /\ (k = n \/ k \in 1 .. n - 1)
    BY <1>1, ElementOfSeq DEF n
  <2>2. n \in 1 .. n /\ n \in 1 .. Len(kills)
    BY <1>1 DEF n
  <2>3. v \in Pids /\ live[v]
    BY <1>1, <1>3, <2>1, <2>2 DEF IInv, Tree, Slots
  <2>4. \A k \in 1 .. n - 1 : rank[kills[k]] < rank[v]
    <3>1. \A k \in 1 .. n - 1 : k \in 1 .. Len(kills) /\ k < n
      BY <1>1 DEF n
    <3> QED BY <1>1, <1>5, <2>2, <3>1 DEF Ranked
  <2>5. v \notin Range(r)
    BY <1>4, <2>1, <2>3, <2>4, <1>5
  <2>6. Range(kills) = Range(r) \cup {v}
    BY <1>1, <1>3, <1>4, <2>1, <2>2
  <2>7. \A p \in Range(r) : p \in Pids /\ rank[p] <= rank[v]
    BY <1>4, <1>1, <2>1, <2>3, <2>4, <1>5
  <2> QED BY <1>5, <2>3, <2>5, <2>6, <2>7
<1>7. /\ live' = [live EXCEPT ![v] = FALSE] /\ live \in [Pids -> BOOLEAN]
      /\ parent_pid' = [parent_pid EXCEPT ![v] = 0] /\ parent_pid \in [Pids -> Contexts]
      /\ child_pids[v] = <<>>
  BY DEF IInv, TypeOK, FinishKill, FreeSlot, v
<1>8. Live' = Live \ {v} /\ v \in Live /\ Live \subseteq Pids
  BY <1>6, <1>7 DEF Live
<1>9. \A q \in Live' : parent_pid'[q] = parent_pid[q]
  BY <1>7, <1>8
<1>10. \A q \in Live : parent_pid[q] = v => q \in Range(kills)
  <2>1. Range(child_pids[v]) = {}
    BY <1>7 DEF Range
  <2> QED BY <1>6, <1>8, <2>1 DEF IInv, Tree, Queues, Live
<1>11. \A q \in Live : parent_pid[q] # v
  BY <1>5, <1>6, <1>8, <1>10 DEF Ranked, Live
<1>12. DoomedIsLeast /\ DoomedIsLeast'
  BY DoomedFacts, DoomedFactsNext
<1>13. Doomed' \subseteq Doomed \ {v}
  <2> DEFINE S == Doomed \ {v}
  <2>1. S \in SUBSET Live' /\ Range(kills') \subseteq S
    BY <1>1, <1>6, <1>8, <1>12 DEF DoomedIsLeast
  <2>2. \A q \in Live' : parent_pid'[q] \in S => q \in S
    BY <1>8, <1>9, <1>12 DEF DoomedIsLeast, ClosedDown
  <2> HIDE DEF S
  <2>3. \A T \in SUBSET Live' :
          Range(kills') \subseteq T /\ (\A q \in Live' : parent_pid'[q] \in T => q \in T) =>
            Doomed' \subseteq T
    BY <1>12 DEF DoomedIsLeast, ClosedDown
  <2>4. Doomed' \subseteq S
    BY <2>1, <2>2, <2>3
  <2> QED BY <2>4 DEF S
<1>14. Doomed \subseteq Doomed' \cup {v}
  <2> DEFINE S == Doomed' \cup {v}
  <2>1. S \in SUBSET Live /\ Range(kills) \subseteq S
    BY <1>1, <1>6, <1>8, <1>12 DEF DoomedIsLeast
  <2>2. \A q \in Live' : parent_pid'[q] \in Doomed' => q \in Doomed'
    BY <1>12 DEF DoomedIsLeast, ClosedDown
  <2>3. ClosedDown(S)
    BY <1>8, <1>9, <1>11, <2>2 DEF ClosedDown
  <2> HIDE DEF S
  <2>4. Doomed \subseteq S
    BY <1>12, <2>1, <2>3 DEF DoomedIsLeast
  <2> QED BY <2>4 DEF S
<1>15. v \in Doomed
  BY <1>6, <1>12 DEF DoomedIsLeast
<1>16. Survivors' = Survivors /\ Survivors \subseteq Live' /\ Survivors \subseteq Pids
  BY <1>8, <1>13, <1>14, <1>15 DEF Survivors
<1>17. \A p \in Survivors : parent_pid'[p] = parent_pid[p]
  BY <1>9, <1>16
<1> QED BY <1>16, <1>17, SurvivorsKept

----------------------------------------------------------------------------

LEMMA InitIsForestInit == Init => Forest!Init
<1> SUFFICES ASSUME Init PROVE Remaining = [p \in {0} |-> 0]
  BY DEF Forest!Init, Remaining
<1>1. kills = <<>> /\ Live = {0}
  BY PidsAreInts DEF Init, Live
<1>2. Survivors = {0}
  BY <1>1, NobodyDoomed
<1> QED BY <1>2 DEF Remaining

LEMMA NextIsForestNext == IInv /\ [Next]_vars /\ IInv' => [Forest!Next]_Forest!vars
<1> SUFFICES ASSUME IInv, [Next]_vars, IInv' PROVE Forest!Next \/ Remaining' = Remaining
  BY DEF Forest!vars, Remaining
<1>1. ASSUME NEW pid \in Pids, NEW asked \in AskedPriorities, Create(pid, asked)
      PROVE  Forest!Next
  <2>1. sch.current \in Pids
    BY <1>1 DEF IInv, TypeOK, SchStates, Contexts, Create, TakeSlot, SystemCall
  <2>2. Forest!Spawn(pid, sch.current)
    BY <1>1, CreateIsSpawn
  <2>3. \E by \in Pids : Forest!Spawn(pid, by)
    BY <2>1, <2>2 DEF Forest!Spawn
  <2> QED BY <2>3 DEF Forest!Next
<1>2. ASSUME NEW pid \in Pids, NEW asked \in AskedPriorities, CreateUnlinked(pid, asked)
      PROVE  Remaining' = Remaining
  BY <1>2, CreateUnlinkedIsStutter
<1>3. ASSUME NEW pid \in Pids, NEW status \in ExitStatuses, Interruptible, StartKill(pid, status)
      PROVE  Forest!Next
  BY <1>3, EnterKillIsKillTree DEF StartKill, processes, Interruptible, KernelDone, Forest!Next
<1>4. ASSUME NEW status \in ExitStatuses, KillCurrentAndYield(status)
      PROVE  Forest!Next \/ Remaining' = Remaining
  <2>1. CASE sch.current \in Pids
    <3>1. live[sch.current]
      BY <2>1 DEF IInv, Tree, Slots, SchInv, ContextsKept, IsActive
    <3> QED BY <1>4, <2>1, <3>1, EnterKillIsKillTree
            DEF KillCurrentAndYield, SystemCall, Interruptible, KernelDone, processes, Forest!Next
  <2>2. CASE sch.current \notin Pids
    BY <1>4, <2>2, QuietStepIsStutter DEF KillCurrentAndYield, processes
  <2> QED BY <2>1, <2>2
<1>5. CASE KillChild
  BY <1>5, KillChildIsStutter
<1>6. CASE FinishKill
  BY <1>6, FinishKillIsStutter
<1>7. CASE \/ WakeWaiter \/ YieldAfterKill \/ ReturnFromWaitpid \/ Yield \/ Tick
           \/ \E pid \in Pids : Waitpid(pid) \/ Block(pid)
           \/ \E pid \in Pids, priority \in AskedPriorities : Nice(pid, priority)
           \/ UNCHANGED vars
  <2>1. UNCHANGED <<live, parent_pid, kills>>
    BY <1>7 DEF WakeWaiter, YieldAfterKill, ReturnFromWaitpid, Yield, Tick, Waitpid, Block, Nice,
                processes, vars
  <2> QED BY <2>1, QuietStepIsStutter
<1> QED
  BY <1>1, <1>2, <1>3, <1>4, <1>5, <1>6, <1>7, ProcessAssumption
     DEF Next, Kill, SystemCall, CtrlC, Exit, Exception

(* Whichever way a process dies, it takes everything below it with it and nothing
   else: for every size of the table, what proc_kill does in many steps, and
   processes[] together with it, is one step of the tree of survivors. *)
THEOREM ProcessImplementsForest == Spec => ImplementsForest
BY InvariantOfProcess, InitIsForestInit, NextIsForestNext,
   PTL DEF Spec, ImplementsForest, Forest!Spec
----------------------------------------------------------------------------
(* waitpid *)


RunnerAwake == sch.current \in Pids => ~Asleep(sch, sch.current)

\* Who sleeps is in the queue of a process that is still to die.
SleepersQueued ==
  \A pid \in Pids : Asleep(sch, pid) =>
    /\ waiting[pid] \in Pids /\ live[waiting[pid]]
    /\ pid \in Range(waiting_pids[waiting[pid]])

\* Who is inside waitpid sleeps until the process it waits for is being killed;
\* and it is in that queue only.
WaitersGone ==
  /\ \A pid \in Pids : waiting[pid] # NULL =>
       /\ live[pid]
       /\ \/ pid \in gone \/ Asleep(sch, pid)
          \/ pid \in Range(kills) \/ waiting[pid] \in Range(kills)
  /\ \A target, pid \in Pids : pid \in Range(waiting_pids[target]) =>
       /\ live[target] /\ parent_pid[target] = pid
       /\ waiting[pid] = target /\ pid \notin gone

WaitInv ==
  RunnerAwake /\ (~MmMayFail => SleepersQueued) /\ (WaitOnlyChildren => WaitersGone)

----------------------------------------------------------------------------

LEMMA SleeperFacts ==
  ASSUME IInv, RunnerAwake
  PROVE  /\ SchInv(sch) /\ TypeOK /\ sch.current \in Int
         /\ sch.current \in Pids \cup {KERNEL_PROC_PID, KILLED_PROC_PID}
         /\ sch.current \in Pids => IsActive(sch, sch.current) /\ live[sch.current]
<1>1. SchInv(sch) /\ TypeOK /\ sch.current \in Pids \cup {KERNEL_PROC_PID, KILLED_PROC_PID}
  BY DEF IInv, TypeOK, SchStates, Contexts
<1>2. KERNEL_PROC_PID \in Int /\ KILLED_PROC_PID \in Int
  BY DEF KERNEL_PROC_PID, KILLED_PROC_PID
<1>3. sch.current \in Pids => IsActive(sch, sch.current)
  BY <1>1 DEF SchInv, ContextsKept
<1>4. sch.current \in Pids => live[sch.current]
  BY <1>3 DEF IsActive, IInv, Tree, Slots
<1> QED BY <1>1, <1>2, <1>3, <1>4, PidsAreInts

\* A step in which nobody falls asleep, enters or leaves waitpid, or dies for good.
LEMMA FrameKeepsWaitInv ==
  ASSUME WaitInv, RunnerAwake', waiting' = waiting, gone' = gone,
         \A pid \in Pids : live[pid] => live'[pid] /\ parent_pid'[pid] = parent_pid[pid],
         Range(kills) \subseteq Range(kills'),
         \A target \in Pids : Range(waiting_pids'[target]) \subseteq Range(waiting_pids[target]),
         \A target, pid \in Pids :
           pid \in Range(waiting_pids[target]) /\ Asleep(sch', pid) =>
             pid \in Range(waiting_pids'[target]),
         \A pid \in Pids : Asleep(sch', pid) => Asleep(sch, pid),
         WaitOnlyChildren =>
           \A pid \in Pids : Asleep(sch, pid) =>
             Asleep(sch', pid) \/ pid \in Range(kills') \/ waiting[pid] \in Range(kills)
  PROVE  WaitInv'
<1>1. ASSUME SleepersQueued PROVE SleepersQueued'
  BY <1>1 DEF SleepersQueued
<1>2. ASSUME WaitersGone, WaitOnlyChildren PROVE WaitersGone'
  <2>1. ASSUME NEW pid \in Pids, waiting'[pid] # NULL
        PROVE  /\ live'[pid]
               /\ \/ pid \in gone' \/ Asleep(sch', pid)
                  \/ pid \in Range(kills') \/ waiting'[pid] \in Range(kills')
    BY <1>2, <2>1 DEF WaitersGone
  <2>2. ASSUME NEW target \in Pids, NEW pid \in Pids, pid \in Range(waiting_pids'[target])
        PROVE  /\ live'[target] /\ parent_pid'[target] = pid
               /\ waiting'[pid] = target /\ pid \notin gone'
    BY <1>2, <2>2 DEF WaitersGone
  <2> QED BY <2>1, <2>2 DEF WaitersGone
<1> QED BY <1>1, <1>2 DEF WaitInv

\* The same for a step that touches the scheduler only.
LEMMA SchedulerStepKeepsWaitInv ==
  ASSUME WaitInv, RunnerAwake', UNCHANGED <<live, parent_pid, waiting_pids, waiting, gone>>,
         Range(kills) \subseteq Range(kills'), NEW killed \in SUBSET Range(kills'),
         \A pid \in Pids : Asleep(sch', pid) <=> Asleep(sch, pid) /\ pid \notin killed
  PROVE  WaitInv'
<1> QED BY FrameKeepsWaitInv

\* The timer or a yield.
LEMMA HandOverKeepsWaitInv ==
  ASSUME IInv, WaitInv, SchYield(sch, sch') \/ SchSwitch(sch, sch'),
         UNCHANGED <<processes, kills, waiting, gone>>
  PROVE  WaitInv'
<1>1. SchInv(sch)
  BY DEF IInv
<1>2. /\ \A pid \in Pids : Asleep(sch', pid) <=> Asleep(sch, pid)
      /\ sch'.current \in Pids => sch'.status[sch'.current] = "RUNNING"
  BY <1>1, YieldFacts, SwitchFacts
<1>3. RunnerAwake'
  BY <1>2 DEF RunnerAwake, Asleep
<1> DEFINE killed == {}
<1>4. killed \in SUBSET Range(kills') /\ Range(kills) \subseteq Range(kills')
  OBVIOUS
<1>5. \A pid \in Pids : Asleep(sch', pid) <=> Asleep(sch, pid) /\ pid \notin killed
  BY <1>2
<1> HIDE DEF killed
<1> QED BY <1>3, <1>4, <1>5, SchedulerStepKeepsWaitInv DEF processes

LEMMA EnterKillKeepsWaitInv ==
  ASSUME IInv, WaitInv, NEW pid \in Pids, NEW status \in ExitStatuses, EnterKill(pid, status),
         UNCHANGED <<live, parent_pid, waiting_pids, waiting, gone>>
  PROVE  WaitInv'
<1>1. /\ sch' = SchOnProcessKilled(sch, pid, status) /\ kills' = Append(kills, pid)
      /\ kills \in Seq(Pids) /\ SchInv(sch)
  BY DEF EnterKill, IInv, TypeOK
<1>2. Range(kills') = Range(kills) \cup {pid}
  BY <1>1, AppendFacts
<1>3. \A q \in Pids : Asleep(sch', q) <=> Asleep(sch, q) /\ q # pid
  BY <1>1, KilledFacts
<1>4. sch'.current = (IF IsActive(sch, pid) /\ sch.current = pid
                      THEN KILLED_PROC_PID ELSE sch.current)
  BY <1>1, KilledFacts
<1>5. RunnerAwake'
  BY <1>3, <1>4, PidsAreInts DEF WaitInv, RunnerAwake
<1> DEFINE killed == {pid}
<1>6. killed \in SUBSET Range(kills') /\ Range(kills) \subseteq Range(kills')
  BY <1>2
<1>7. \A q \in Pids : Asleep(sch', q) <=> Asleep(sch, q) /\ q \notin killed
  BY <1>3
<1> HIDE DEF killed
<1> QED BY <1>5, <1>6, <1>7, SchedulerStepKeepsWaitInv

\* Nobody waits for the process that will be in the slot.
LEMMA CreateKeepsWaitInv ==
  ASSUME IInv, WaitInv, NEW pid \in Pids, NEW asked \in AskedPriorities,
         Create(pid, asked) \/ CreateUnlinked(pid, asked)
  PROVE  WaitInv'
<1> DEFINE created == SchOnProcessCreate(sch, pid, asked)
<1>1. /\ sch.current # KILLED_PROC_PID /\ ~live[pid] /\ kills = <<>>
      /\ live' = [live EXCEPT ![pid] = TRUE] /\ live \in [Pids -> BOOLEAN]
      /\ parent_pid' = [parent_pid EXCEPT ![pid] = sch.current]
      /\ parent_pid \in [Pids -> Contexts]
      /\ UNCHANGED <<waiting_pids, waiting, gone>>
      /\ SchInv(sch) /\ asked \in Int
      /\ \/ sch' = created /\ kills' = kills
         \/ sch' = SchOnProcessKilled(created, pid, 255) /\ kills' = <<pid>>
  BY ProcessAssumption
     DEF Create, CreateUnlinked, TakeSlot, SystemCall, Interruptible, KernelDone, IInv, TypeOK
<1>2. sch.rsp[pid] = NULL /\ ~IsActive(sch, pid) /\ ~Asleep(sch, pid)
  BY <1>1 DEF IInv, Tree, Slots, IsActive, Asleep
<1>3. /\ SchInv(created) /\ created.current = sch.current
      /\ \A q \in Pids : Asleep(created, q) <=> Asleep(sch, q)
  BY <1>1, <1>2, CreateFacts
<1> HIDE DEF created
<1>4. /\ \A q \in Pids : Asleep(sch', q) <=> Asleep(sch, q)
      /\ sch'.current \in {sch.current, KILLED_PROC_PID}
  <2>1. CASE sch' = created
    BY <1>3, <2>1
  <2>2. CASE sch' = SchOnProcessKilled(created, pid, 255)
    <3>1. 255 \in ExitStatuses
      BY ProcessAssumption
    <3> DEFINE status == 255
    <3>2. status \in ExitStatuses /\ sch' = SchOnProcessKilled(created, pid, status)
      BY <2>2, <3>1
    <3> HIDE DEF status
    <3>5. SchInv(created) /\ pid \in Int /\ status \in ExitStatuses
      BY <1>3, <3>2, PidsAreInts
    <3>3. \A q \in Pids : Asleep(sch', q) <=> Asleep(created, q) /\ q # pid
      BY <3>2, <3>5, KilledFacts
    <3>4. sch'.current = (IF IsActive(created, pid) /\ created.current = pid
                          THEN KILLED_PROC_PID ELSE created.current)
      BY <1>3, <3>2, KilledFacts
    <3> QED BY <1>2, <1>3, <3>3, <3>4
  <2> QED BY <1>1, <2>1, <2>2
<1>5. RunnerAwake'
  BY <1>4, PidsAreInts DEF WaitInv, RunnerAwake
<1>6. /\ \A p \in Pids : live[p] => live'[p] /\ parent_pid'[p] = parent_pid[p]
      /\ Range(kills) \subseteq Range(kills')
  BY <1>1 DEF Range
<1> QED BY <1>1, <1>4, <1>5, <1>6, FrameKeepsWaitInv

\* Whom the dying process wakes was waiting for it.
LEMMA WakeWaiterKeepsWaitInv ==
  ASSUME IInv, WaitInv, WakeWaiter
  PROVE  WaitInv'
<1> DEFINE v == Victim
           q == waiting_pids[v]
<1>1. /\ kills \in Seq(Pids) /\ kills # <<>> /\ SchInv(sch)
      /\ waiting_pids \in [Pids -> Seq(Pids \cup {KILLED_PROC_PID})]
  BY DEF IInv, TypeOK, WakeWaiter, Killing
<1>2. v \in Pids /\ v \in Range(kills)
  <2>1. Len(kills) \in 1 .. Len(kills) /\ Range(kills) = {kills[i] : i \in 1 .. Len(kills)}
    BY <1>1, EmptySeq, RangeEquality
  <2> QED BY <1>1, <2>1, ElementOfSeq DEF Victim
<1>3. /\ q \in Seq(Pids \cup {KILLED_PROC_PID}) /\ q # <<>>
      /\ sch' = SchUnblock(sch, Last(q))
      /\ waiting_pids' = [waiting_pids EXCEPT ![v] = Front(q)]
      /\ UNCHANGED <<live, parent_pid, kills, waiting, gone>>
  BY <1>1, <1>2 DEF WakeWaiter
<1> HIDE DEF v, q
<1> DEFINE e == Last(q)
<1>4. /\ e \in Pids \cup {KILLED_PROC_PID} /\ e \in Range(q)
      /\ Range(Front(q)) \subseteq Range(q) /\ Range(q) \subseteq Range(Front(q)) \cup {e}
  <2> DEFINE S == Pids \cup {KILLED_PROC_PID}
             n == Len(q)
             r == Front(q)
  <2>1. /\ n \in Nat \ {0} /\ e \in S /\ e = q[n]
        /\ r \in Seq(S) /\ Len(r) = n - 1 /\ \A i \in 1 .. n - 1 : r[i] = q[i]
    BY <1>3, FrontFacts
  <2>2. Range(q) = {q[i] : i \in 1 .. n} /\ Range(r) = {r[i] : i \in 1 .. Len(r)}
    BY <1>3, <2>1, RangeEquality
  <2> HIDE DEF n, r, e, S
  <2>3. \A i \in 1 .. n : i = n \/ i \in 1 .. n - 1
    BY <2>1
  <2>4. n \in 1 .. n /\ \A i \in 1 .. n - 1 : i \in 1 .. n
    BY <2>1
  <2> QED BY <2>1, <2>2, <2>3, <2>4 DEF r, S
<1>5. e \in Int
  <2> KILLED_PROC_PID \in Int
    BY DEF KILLED_PROC_PID
  <2> QED BY <1>4, PidsAreInts
<1>6. /\ sch'.current = sch.current
      /\ \A pid \in Pids : Asleep(sch', pid) <=> Asleep(sch, pid) /\ pid # e
  <2> HIDE DEF e
  <2>1. sch' = SchUnblock(sch, e)
    BY <1>3 DEF e
  <2> QED BY <1>1, <1>5, <2>1, UnblockFacts
<1> HIDE DEF e
<1>7. RunnerAwake'
  BY <1>6 DEF WaitInv, RunnerAwake
<1>8. /\ \A target \in Pids : Range(waiting_pids'[target]) \subseteq Range(waiting_pids[target])
      /\ \A target, pid \in Pids :
           pid \in Range(waiting_pids[target]) /\ pid # e => pid \in Range(waiting_pids'[target])
  <2>1. \A target \in Pids :
          waiting_pids'[target] = IF target = v THEN Front(q) ELSE waiting_pids[target]
    BY <1>1, <1>3
  <2>2. waiting_pids[v] = q
    BY DEF q
  <2> QED BY <1>4, <2>1, <2>2
<1>9. ASSUME WaitOnlyChildren, e \in Pids
      PROVE  waiting[e] \in Range(kills)
  BY <1>2, <1>4, <1>9 DEF WaitInv, WaitersGone, q
<1> QED BY <1>3, <1>6, <1>7, <1>8, <1>9, FrameKeepsWaitInv

\* A slot is freed when its queue is empty: who waited for it is woken, and gone.
LEMMA FinishKillKeepsWaitInv ==
  ASSUME IInv, WaitInv, FinishKill, IInv'
  PROVE  WaitInv'
<1> DEFINE v == Victim
<1>1. /\ kills \in Seq(Pids) /\ kills # <<>> /\ sch' = sch
      /\ live' = [live EXCEPT ![v] = FALSE] /\ live \in [Pids -> BOOLEAN]
      /\ parent_pid' = [parent_pid EXCEPT ![v] = 0] /\ parent_pid \in [Pids -> Contexts]
      /\ waiting_pids[v] = <<>> /\ waiting_pids' = [waiting_pids EXCEPT ![v] = <<>>]
      /\ waiting_pids \in [Pids -> Seq(Pids \cup {KILLED_PROC_PID})]
      /\ waiting' = [waiting EXCEPT ![v] = NULL] /\ waiting \in [Pids -> Pids \cup {NULL}]
      /\ gone' = (gone \cup {pid \in Pids : waiting[pid] = v}) \ {v}
      /\ kills' = Front(kills)
  BY DEF IInv, TypeOK, FinishKill, FreeSlot, Killing
<1>2. /\ v \in Pids /\ v \in Range(kills) /\ v = Last(kills)
      /\ Range(kills) \subseteq Range(kills') \cup {v}
  <2> DEFINE n == Len(kills)
             r == Front(kills)
  <2>1. /\ n \in Nat \ {0} /\ Last(kills) \in Pids /\ Last(kills) = kills[n] /\ v = kills[n]
        /\ r \in Seq(Pids) /\ Len(r) = n - 1 /\ \A i \in 1 .. n - 1 : r[i] = kills[i]
    BY <1>1, FrontFacts DEF Victim
  <2>2. Range(kills) = {kills[i] : i \in 1 .. n} /\ Range(r) = {r[i] : i \in 1 .. Len(r)}
    <3>1. kills \in Seq(Pids)
      BY <1>1
    <3>2. Range(kills) = {kills[i] : i \in 1 .. n}
      BY <3>1, RangeEquality
    <3> HIDE DEF n, r
    <3>3. Range(r) = {r[i] : i \in 1 .. Len(r)}
      BY <2>1, RangeEquality
    <3> QED BY <3>2, <3>3
  <2>0. kills' = r
    BY <1>1
  <2> HIDE DEF n, r, v
  <2>3. n \in 1 .. n /\ \A i \in 1 .. n : i = n \/ i \in 1 .. n - 1
    BY <2>1
  <2> QED BY <2>0, <2>1, <2>2, <2>3
<1> HIDE DEF v
<1>3. ~IsActive(sch, v) /\ ~Asleep(sch, v)
  BY <1>2 DEF IInv, Tree, Slots, IsActive, Asleep
<1>4. Range(waiting_pids[v]) = {} /\ Range(waiting_pids'[v]) = {}
  BY <1>1, <1>2 DEF Range
\* It has no children left.
<1>5. \A c \in Pids : live[c] => parent_pid[c] # v
  <2> SUFFICES ASSUME NEW c \in Pids, live[c], parent_pid[c] = v PROVE FALSE
    OBVIOUS
  <2>1. \A child \in Pids : live'[child] /\ parent_pid'[child] \in Pids => live'[parent_pid'[child]]
    BY DEF IInv, Tree, Queues
  <2>2. CASE c # v
    BY <1>1, <1>2, <2>1, <2>2
  <2>3. CASE c = v
    <3> PICK rank \in [Pids -> Int] : Ranked(rank)
      BY DEF IInv, Tree
    <3>1. rank[v] < rank[v] /\ rank[v] \in Int
      BY <1>2, <2>3 DEF Ranked
    <3> QED BY <3>1
  <2> QED BY <2>2, <2>3
<1>6. RunnerAwake'
  BY <1>1 DEF WaitInv, RunnerAwake
<1>7. ASSUME SleepersQueued PROVE SleepersQueued'
  <2> SUFFICES ASSUME NEW pid \in Pids, Asleep(sch, pid)
               PROVE  /\ waiting'[pid] \in Pids /\ live'[waiting'[pid]]
                      /\ pid \in Range(waiting_pids'[waiting'[pid]])
    BY <1>1 DEF SleepersQueued
  <2>1. /\ waiting[pid] \in Pids /\ live[waiting[pid]]
        /\ pid \in Range(waiting_pids[waiting[pid]])
    BY <1>7 DEF SleepersQueued
  <2>2. waiting[pid] # v /\ pid # v
    BY <1>3, <1>4, <2>1
  <2> QED BY <1>1, <2>1, <2>2
<1>8. ASSUME WaitersGone PROVE WaitersGone'
  <2>1. ASSUME NEW pid \in Pids, waiting'[pid] # NULL
        PROVE  /\ live'[pid]
               /\ \/ pid \in gone' \/ Asleep(sch', pid)
                  \/ pid \in Range(kills') \/ waiting'[pid] \in Range(kills')
    <3>1. pid # v /\ waiting'[pid] = waiting[pid]
      BY <1>1, <2>1
    <3>2. /\ live[pid]
          /\ \/ pid \in gone \/ Asleep(sch, pid)
             \/ pid \in Range(kills) \/ waiting[pid] \in Range(kills)
      BY <1>8, <2>1, <3>1 DEF WaitersGone
    <3> QED BY <1>1, <1>2, <3>1, <3>2
  <2>2. ASSUME NEW target \in Pids, NEW pid \in Pids, pid \in Range(waiting_pids'[target])
        PROVE  /\ live'[target] /\ parent_pid'[target] = pid
               /\ waiting'[pid] = target /\ pid \notin gone'
    <3>1. target # v /\ waiting_pids'[target] = waiting_pids[target]
      BY <1>1, <1>4, <2>2
    <3>2. /\ live[target] /\ parent_pid[target] = pid
          /\ waiting[pid] = target /\ pid \notin gone
      BY <1>8, <2>2, <3>1 DEF WaitersGone
    <3>3. pid # v
      BY <1>5, <3>2
    <3> QED BY <1>1, <3>1, <3>2, <3>3
  <2> QED BY <2>1, <2>2 DEF WaitersGone
<1> QED BY <1>6, <1>7, <1>8 DEF WaitInv

----------------------------------------------------------------------------
(* waitpid *)

LEMMA WaitpidKeepsWaitInv ==
  ASSUME IInv, WaitInv, NEW pid \in Pids, Waitpid(pid)
  PROVE  WaitInv'
<1> DEFINE me == sch.current
           blocked == SchBlock(sch, me)
<1>1. /\ kills = <<>> /\ me # pid /\ live[pid]
      /\ me \in Pids => waiting[me] = NULL
      /\ WaitOnlyChildren => parent_pid[pid] = me
      /\ \/ waiting_pids' = [waiting_pids EXCEPT ![pid] = Append(@, me)]
         \/ MmMayFail /\ waiting_pids' = waiting_pids
      /\ waiting' = IF me \in Pids THEN [waiting EXCEPT ![me] = pid] ELSE waiting
      /\ gone' = gone \ {me}
      /\ SchYield(blocked, sch')
      /\ UNCHANGED <<live, parent_pid, kills>>
  BY DEF Waitpid, SystemCall, Interruptible, KernelDone, Resuming, ProcUnblockOnKilled
<1>2. /\ SchInv(sch) /\ me \in Int
      /\ me \in Pids \cup {KERNEL_PROC_PID, KILLED_PROC_PID} /\ me # KERNEL_PROC_PID
      /\ me \in Pids => IsActive(sch, me) /\ live[me]
      /\ waiting \in [Pids -> Pids \cup {NULL}]
      /\ waiting_pids \in [Pids -> Seq(Pids \cup {KILLED_PROC_PID})]
  BY SleeperFacts DEF Waitpid, SystemCall, IInv, TypeOK, WaitInv
<1> HIDE DEF me
<1>3. /\ SchInv(blocked)
      /\ \A q \in Pids : Asleep(blocked, q) <=> Asleep(sch, q) \/ (q = me /\ IsActive(sch, q))
  BY <1>2, BlockFacts
<1> HIDE DEF blocked
<1>4. /\ \A q \in Pids : Asleep(sch', q) <=> Asleep(blocked, q)
      /\ sch'.current \in Pids => sch'.status[sch'.current] = "RUNNING"
  BY <1>1, <1>3, YieldFacts
<1>5. \A q \in Pids : Asleep(sch', q) <=> Asleep(sch, q) \/ q = me
  <2> SUFFICES ASSUME NEW q \in Pids PROVE Asleep(sch', q) <=> Asleep(sch, q) \/ q = me
    OBVIOUS
  <2>1. CASE q = me
    <3>1. IsActive(sch, q)
      BY <1>2, <2>1
    <3> QED BY <1>3, <1>4, <2>1, <3>1
  <2>2. CASE q # me
    BY <1>3, <1>4, <2>2
  <2> QED BY <2>1, <2>2
<1>6. RunnerAwake'
  BY <1>4 DEF RunnerAwake, Asleep
<1>7. /\ \A q \in Pids : waiting'[q] = IF q = me THEN pid ELSE waiting[q]
      /\ NULL \notin Pids
  BY <1>1, <1>2, PidsAreInts
<1>8. /\ \A target \in Pids :
           /\ Range(waiting_pids[target]) \subseteq Range(waiting_pids'[target])
           /\ target # pid => waiting_pids'[target] = waiting_pids[target]
      /\ Range(waiting_pids'[pid]) \subseteq Range(waiting_pids[pid]) \cup {me}
      /\ ~MmMayFail => me \in Range(waiting_pids'[pid])
  <2> DEFINE q == waiting_pids[pid]
             longer == Append(q, me)
  <2>1. q \in Seq(Pids \cup {KILLED_PROC_PID}) /\ me \in Pids \cup {KILLED_PROC_PID}
    BY <1>2
  <2>2. Range(longer) = Range(q) \cup {me}
    BY <2>1, AppendFacts
  <2>3. \/ waiting_pids' = [waiting_pids EXCEPT ![pid] = longer]
        \/ MmMayFail /\ waiting_pids' = waiting_pids
    BY <1>1
  <2> HIDE DEF longer
  <2> QED BY <1>2, <2>2, <2>3
<1>9. ASSUME ~MmMayFail, SleepersQueued PROVE SleepersQueued'
  <2> SUFFICES ASSUME NEW q \in Pids, Asleep(sch', q)
               PROVE  /\ waiting'[q] \in Pids /\ live'[waiting'[q]]
                      /\ q \in Range(waiting_pids'[waiting'[q]])
    BY DEF SleepersQueued
  <2>1. CASE q = me
    BY <1>1, <1>7, <1>8, <1>9, <2>1
  <2>2. CASE q # me
    <3>1. /\ waiting[q] \in Pids /\ live[waiting[q]]
          /\ q \in Range(waiting_pids[waiting[q]])
      BY <1>5, <1>9, <2>2 DEF SleepersQueued
    <3> QED BY <1>1, <1>7, <1>8, <2>2, <3>1
  <2> QED BY <2>1, <2>2
<1>10. ASSUME WaitOnlyChildren, WaitersGone PROVE WaitersGone'
  <2>1. ASSUME NEW q \in Pids, waiting'[q] # NULL
        PROVE  /\ live'[q]
               /\ \/ q \in gone' \/ Asleep(sch', q)
                  \/ q \in Range(kills') \/ waiting'[q] \in Range(kills')
    <3>1. CASE q = me
      BY <1>1, <1>2, <1>5, <3>1
    <3>2. CASE q # me
      BY <1>1, <1>5, <1>7, <1>10, <2>1, <3>2 DEF WaitersGone
    <3> QED BY <3>1, <3>2
  <2>2. ASSUME NEW target \in Pids, NEW q \in Pids, q \in Range(waiting_pids'[target])
        PROVE  /\ live'[target] /\ parent_pid'[target] = q
               /\ waiting'[q] = target /\ q \notin gone'
    <3>1. CASE q \in Range(waiting_pids[target])
      <4>1. /\ live[target] /\ parent_pid[target] = q
            /\ waiting[q] = target /\ q \notin gone
        BY <1>10, <3>1 DEF WaitersGone
      <4>2. q # me
        BY <1>1, <1>7, <4>1
      <4> QED BY <1>1, <1>7, <4>1, <4>2
    <3>2. CASE q \notin Range(waiting_pids[target])
      <4>1. target = pid /\ q = me
        BY <1>8, <2>2, <3>2
      <4> QED BY <1>1, <1>7, <1>10, <4>1
    <3> QED BY <3>1, <3>2
  <2> QED BY <2>1, <2>2 DEF WaitersGone
<1> QED BY <1>6, <1>9, <1>10 DEF WaitInv

\* Outside proc_kill, who runs inside waitpid has seen its process die.
LEMMA ReturnsWhenGone ==
  ASSUME WaitInv, WaitOnlyChildren, ReturnFromWaitpid
  PROVE  sch.current \in gone
<1>1. /\ sch.current \in Pids /\ waiting[sch.current] # NULL
      /\ ~Asleep(sch, sch.current) /\ Range(kills) = {}
  BY DEF ReturnFromWaitpid, KernelDone, Resuming, WaitInv, RunnerAwake, Range
<1> QED BY <1>1 DEF WaitInv, WaitersGone

LEMMA ReturnKeepsWaitInv ==
  ASSUME IInv, WaitInv, ReturnFromWaitpid
  PROVE  WaitInv'
<1> DEFINE me == sch.current
<1>1. /\ me \in Pids /\ ~Asleep(sch, me)
      /\ waiting' = [waiting EXCEPT ![me] = NULL] /\ waiting \in [Pids -> Pids \cup {NULL}]
      /\ UNCHANGED <<sch, live, parent_pid, waiting_pids, kills, gone>>
      /\ WaitOnlyChildren => me \in gone
  BY ReturnsWhenGone
     DEF ReturnFromWaitpid, Resuming, WaitInv, RunnerAwake, IInv, TypeOK, processes
<1> HIDE DEF me
<1>2. \A pid \in Pids : waiting'[pid] = IF pid = me THEN NULL ELSE waiting[pid]
  BY <1>1
<1>3. RunnerAwake'
  BY <1>1 DEF WaitInv, RunnerAwake
<1>4. ASSUME SleepersQueued PROVE SleepersQueued'
  BY <1>1, <1>2, <1>4 DEF SleepersQueued
<1>5. ASSUME WaitOnlyChildren, WaitersGone PROVE WaitersGone'
  <2>1. ASSUME NEW pid \in Pids, waiting'[pid] # NULL
        PROVE  /\ live'[pid]
               /\ \/ pid \in gone' \/ Asleep(sch', pid)
                  \/ pid \in Range(kills') \/ waiting'[pid] \in Range(kills')
    BY <1>1, <1>2, <1>5, <2>1 DEF WaitersGone
  <2>2. ASSUME NEW target \in Pids, NEW pid \in Pids, pid \in Range(waiting_pids'[target])
        PROVE  /\ live'[target] /\ parent_pid'[target] = pid
               /\ waiting'[pid] = target /\ pid \notin gone'
    BY <1>1, <1>2, <1>5, <2>2 DEF WaitersGone
  <2> QED BY <2>1, <2>2 DEF WaitersGone
<1> QED BY <1>3, <1>4, <1>5 DEF WaitInv

----------------------------------------------------------------------------

LEMMA InitEstablishesWaitInv == Init => WaitInv
<1> SUFFICES ASSUME Init PROVE WaitInv
  OBVIOUS
<1> DEFINE start == SchInit
           first == 0
           asked == MAX_PRIORITY
<1>1. /\ sch = SchOnProcessCreate(start, first, asked)
      /\ waiting = [pid \in Pids |-> NULL] /\ waiting_pids = [pid \in Pids |-> <<>>]
  BY DEF Init
<1>2. /\ SchInv(start) /\ first \in Pids /\ asked \in Int
      /\ start.rsp[first] = NULL /\ start.current # KILLED_PROC_PID
      /\ \A pid \in Pids : start.rsp[pid] = NULL
  BY InitHasSchInv, PidsAreInts DEF SchInit, KERNEL_PROC_PID, KILLED_PROC_PID
<1> HIDE DEF start, first, asked
<1>3. \A pid \in Pids : Asleep(sch, pid) <=> Asleep(start, pid)
  BY <1>1, <1>2, CreateFacts
<1>4. \A pid \in Pids : ~Asleep(sch, pid)
  BY <1>2, <1>3 DEF Asleep, IsActive
<1>5. \A pid \in Pids : waiting[pid] = NULL /\ Range(waiting_pids[pid]) = {}
  BY <1>1 DEF Range
<1> QED BY <1>4, <1>5 DEF WaitInv, RunnerAwake, SleepersQueued, WaitersGone

LEMMA NextKeepsWaitInv ==
  ASSUME ~BlockCalls
  PROVE  IInv /\ WaitInv /\ [Next]_vars => WaitInv'
<1> SUFFICES ASSUME IInv, WaitInv, [Next]_vars PROVE WaitInv'
  OBVIOUS
<1>0. /\ IInv' /\ SchInv(sch) /\ {1, 255} \subseteq ExitStatuses
      /\ sch.current \in Pids => live[sch.current]
  BY NextKeepsIInv, ProcessAssumption, SleeperFacts DEF IInv, WaitInv
<1>1. ASSUME NEW pid \in Pids, NEW asked \in AskedPriorities,
             Create(pid, asked) \/ CreateUnlinked(pid, asked)
      PROVE  WaitInv'
  BY <1>1, CreateKeepsWaitInv
<1>2. ASSUME NEW pid \in Pids, NEW status \in ExitStatuses, StartKill(pid, status)
      PROVE  WaitInv'
  BY <1>2, EnterKillKeepsWaitInv DEF StartKill, processes
<1>3. ASSUME NEW status \in ExitStatuses, KillCurrentAndYield(status)
      PROVE  WaitInv'
  <2> DEFINE me == sch.current
  <2>1. CASE me \in Pids
    <3>1. EnterKill(me, status) /\ UNCHANGED <<live, parent_pid, waiting_pids, waiting, gone>>
      BY <1>3, <2>1 DEF KillCurrentAndYield, processes
    <3> HIDE DEF me
    <3> QED BY <2>1, <3>1, EnterKillKeepsWaitInv
  <2>2. CASE me \notin Pids
    <3>1. sch' = sch /\ kills' = kills /\ UNCHANGED <<processes, waiting, gone>>
      BY <1>3, <2>2 DEF KillCurrentAndYield
    <3> QED BY <3>1, FrameKeepsWaitInv DEF processes, WaitInv, RunnerAwake
  <2> QED BY <2>1, <2>2
<1>4. CASE KillChild
  <2> DEFINE child == Head(child_pids[Victim])
  <2>1. child \in Pids
    <3>1. Victim \in Pids
      BY <1>4, FrontFacts, ElementOfSeq DEF IInv, TypeOK, KillChild, Killing, Victim
    <3>2. child_pids[Victim] \in Seq(Pids) /\ child_pids[Victim] # <<>>
      BY <1>4, <3>1 DEF IInv, TypeOK, KillChild
    <3> QED BY <3>2, HeadTailProperties
  <2>2. EnterKill(child, 255) /\ UNCHANGED <<live, parent_pid, waiting_pids, waiting, gone>>
    BY <1>4 DEF KillChild
  <2> DEFINE status == 255
  <2>3. status \in ExitStatuses /\ EnterKill(child, status)
    BY <1>0, <2>2
  <2> HIDE DEF child, status
  <2> QED BY <2>1, <2>2, <2>3, EnterKillKeepsWaitInv
<1>5. CASE WakeWaiter
  BY <1>5, WakeWaiterKeepsWaitInv
<1>6. CASE FinishKill
  BY <1>0, <1>6, FinishKillKeepsWaitInv
<1>7. CASE YieldAfterKill \/ Yield \/ Tick
  BY <1>7, HandOverKeepsWaitInv DEF YieldAfterKill, Yield, Tick
<1>8. ASSUME NEW pid \in Pids, Waitpid(pid)
      PROVE  WaitInv'
  BY <1>8, WaitpidKeepsWaitInv
<1>9. CASE ReturnFromWaitpid
  BY <1>9, ReturnKeepsWaitInv
<1>10. ASSUME NEW pid \in Pids, NEW priority \in AskedPriorities, Nice(pid, priority)
       PROVE  WaitInv'
  <2>1. /\ sch'.rsp = sch.rsp /\ sch'.status = sch.status /\ sch'.current = sch.current
        /\ UNCHANGED <<processes, kills, waiting, gone>>
    BY <1>0, <1>10 DEF Nice, SchSetPriority, SchInv, SchStates
  <2>2. \A q \in Pids : Asleep(sch', q) <=> Asleep(sch, q)
    BY <2>1 DEF Asleep, IsActive
  <2>3. RunnerAwake'
    BY <2>1, <2>2 DEF WaitInv, RunnerAwake
  <2> QED BY <2>1, <2>2, <2>3, FrameKeepsWaitInv DEF processes
<1>11. CASE UNCHANGED vars
  <2>1. sch' = sch /\ UNCHANGED <<processes, kills, waiting, gone>>
    BY <1>11 DEF vars
  <2> QED BY <2>1, FrameKeepsWaitInv DEF processes, WaitInv, RunnerAwake
<1> QED
  BY <1>0, <1>1, <1>2, <1>3, <1>4, <1>5, <1>6, <1>7, <1>8, <1>9, <1>10, <1>11
     DEF Next, Kill, CtrlC, Exit, Exception, Block

(* Whoever sleeps in waitpid waits for a live process and is in its queue, for
   processes that do not use the block call and memory that does not run out. *)
THEOREM ProcessNoLostWakeup ==
  ASSUME ~BlockCalls, ~MmMayFail
  PROVE  Spec => []NoLostWakeup
<1>1. IInv /\ WaitInv => NoLostWakeup
  <2> SUFFICES ASSUME WaitInv PROVE NoLostWakeup
    OBVIOUS
  <2> QED BY PidsAreInts DEF WaitInv, SleepersQueued, NoLostWakeup, Asleep
<1>2. IInv /\ WaitInv /\ [Next]_vars => WaitInv'
  BY NextKeepsWaitInv
<1> QED BY InitEstablishesIInv, NextKeepsIInv, InitEstablishesWaitInv, <1>1, <1>2, PTL DEF Spec

(* waitpid on a child comes back only after that child is dead, however many
   processes die, and take slots again, meanwhile. *)
THEOREM ProcessWaitpidReturnsAfterExit ==
  ASSUME ~BlockCalls, WaitOnlyChildren
  PROVE  Spec => WaitpidReturnsAfterExit
<1>1. IInv /\ WaitInv /\ [Next]_vars => [ReturnFromWaitpid => sch.current \in gone]_vars
  BY ReturnsWhenGone
<1>2. IInv /\ WaitInv /\ [Next]_vars => WaitInv'
  BY NextKeepsWaitInv
<1> QED
  BY InitEstablishesIInv, NextKeepsIInv, InitEstablishesWaitInv, <1>1, <1>2,
     PTL DEF Spec, WaitpidReturnsAfterExit

----------------------------------------------------------------------------
(* testproc *)

Steps == {"none", "create", "kill_or_block", "unblock", "exit"}

TestTypes ==
  /\ step \in Steps /\ rq \in 0 .. max_processes /\ alive \in Int
  /\ p_rqs \in [Requests -> [pid : Pids, state : {"RUNNING", "BLOCKED", "KILLED"}]]

\* The shell, its child the test, and the children of the test.
Family ==
  /\ IsActive(sch, Shell) /\ parent_pid[Shell] = KERNEL_PROC_PID
  /\ live[Test] => parent_pid[Test] = Shell
  /\ \A pid \in Pids \ {Shell, Test} : live[pid] => parent_pid[pid] = Test
  /\ \A pid \in Pids : Range(waiting_pids[pid]) \subseteq {Shell}

\* The entries of processes the test has not killed.
Own == {k \in Requests : p_rqs[k].state # "KILLED"}

\* Its entries are its children, one each.
Records ==
  /\ \A k \in Own :
       /\ IsActive(sch, p_rqs[k].pid)
       /\ Asleep(sch, p_rqs[k].pid) <=> p_rqs[k].state = "BLOCKED"
  /\ \A j, k \in Own : p_rqs[j].pid = p_rqs[k].pid => j = k
  /\ \A pid \in Pids \ {Shell, Test} : IsActive(sch, pid) => \E k \in Own : p_rqs[k].pid = pid
  /\ Cardinality(Own) = alive
  /\ step = "create" => \A k \in Own : k < rq

Believed ==
  /\ TestTypes /\ Family /\ NeverAnError
  /\ \A k \in Own : p_rqs[k].pid \notin {Shell, Test}
  /\ IsActive(sch, Test) => Records

TestInv == IInv /\ Believed
----------------------------------------------------------------------------

LEMMA TestFacts ==
  /\ Shell \in Pids /\ Test \in Pids /\ Shell # Test
  /\ KERNEL_PROC_PID \notin Pids /\ KILLED_PROC_PID \notin Pids /\ NULL \notin Pids
  /\ max_processes \in Nat /\ 0 \in 0 .. max_processes
  /\ {0, DEFAULT_PRIORITY} \subseteq AskedPriorities /\ 255 \in ExitStatuses
<1> /\ max_processes \in Nat \ {0} /\ MAX_PROCESSES = max_processes + 2
    /\ {0, DEFAULT_PRIORITY} \subseteq AskedPriorities /\ 255 \in ExitStatuses
  BY TestProcessesAssumption, ProcessAssumption
<1> QED BY DEF Pids, Shell, Test, KERNEL_PROC_PID, KILLED_PROC_PID, NULL

LEMMA TestTypesOfEntry ==
  ASSUME TestTypes, rq < max_processes
  PROVE  /\ rq \in Requests /\ p_rqs[rq].pid \in Pids /\ rq + 1 \in 0 .. max_processes
         /\ alive + 1 \in Int /\ alive - 1 \in Int
<1>1. rq \in Requests /\ rq + 1 \in 0 .. max_processes
  BY TestFacts DEF TestTypes, Requests
<1>2. alive \in Int
  BY DEF TestTypes
<1>3. alive + 1 \in Int /\ alive - 1 \in Int
  BY <1>2
<1> QED BY <1>1, <1>3 DEF TestTypes

\* All it does are steps of processes.
LEMMA TestStepIsStep ==
  ASSUME TestTypes, TestNext
  PROVE  [Next]_vars
<1> USE TestFacts
<1>1. CASE Launch
  <2>1. Create(Test, DEFAULT_PRIORITY)
    BY <1>1 DEF Launch
  <2> QED BY <2>1 DEF Next
<1>2. CASE WaitForTest
  <2>1. CASE Waitpid(Test)
    BY <2>1 DEF Next
  <2>2. CASE UNCHANGED vars
    BY <2>2
  <2> QED BY <1>2, <2>1, <2>2 DEF WaitForTest
<1>3. CASE TestIsOver
  <2>1. ReturnFromWaitpid
    BY <1>3 DEF TestIsOver
  <2> QED BY <2>1 DEF Next
<1>4. CASE CreateOne
  <2>1. \E pid \in Pids : Create(pid, 0)
    BY <1>4 DEF CreateOne
  <2> QED BY <2>1 DEF Next
<1>5. CASE CannotCreate
  <2>1. CASE Fail
    BY <2>1 DEF Fail
  <2>2. CASE Yield
    BY <2>2 DEF Next
  <2> QED BY <1>5, <2>1, <2>2 DEF CannotCreate
<1>6. CASE KillOne
  <2>1. CASE Kill(p_rqs[rq].pid, 255)
    <3>1. p_rqs[rq].pid \in Pids
      BY <1>6, TestTypesOfEntry DEF KillOne
    <3> QED BY <2>1, <3>1 DEF Next
  <2>2. CASE Fail
    BY <2>2 DEF Fail
  <2> QED BY <1>6, <2>1, <2>2 DEF KillOne
<1>7. CASE BlockOne \/ UnblockOne
  <2>1. CASE Block(p_rqs[rq].pid)
    <3>1. p_rqs[rq].pid \in Pids
      BY <2>1 DEF Block, IsActive
    <3> QED BY <2>1, <3>1 DEF Next
  <2>2. CASE Fail
    BY <2>2 DEF Fail
  <2> QED BY <1>7, <2>1, <2>2 DEF BlockOne, UnblockOne, Toggle
<1>8. CASE LeaveAlone \/ NextLoop
  BY <1>8 DEF LeaveAlone, NextLoop
<1>9. CASE Leave
  BY <1>9 DEF Leave, Next
<1>10. CASE Abort
  <2>1. {Shell, Test} \in SUBSET Pids
    OBVIOUS
  <2>2. CtrlC
    BY <1>10, <2>1 DEF Abort, CtrlC
  <2> QED BY <2>2 DEF Next
<1>11. CASE KernelStep \/ TimerTick
  BY <1>11 DEF KernelStep, TimerTick, Next
<1> QED BY <1>1, <1>2, <1>3, <1>4, <1>5, <1>6, <1>7, <1>8, <1>9, <1>10, <1>11
        DEF TestNext, ShellStep, TestStep
----------------------------------------------------------------------------
(* What is the same after most steps *)

Offspring == Pids \ {Shell, Test}

LEMMA RecordsKept ==
  ASSUME Records, \A k \in Own : p_rqs[k].pid \in Offspring,
         \A pid \in Offspring : /\ IsActive(sch', pid) <=> IsActive(sch, pid)
                                /\ Asleep(sch', pid) <=> Asleep(sch, pid),
         UNCHANGED <<p_rqs, alive>>, step' = "create" => \A k \in Own : k < rq'
  PROVE  Records'
<1>1. Own' = Own /\ p_rqs' = p_rqs /\ alive' = alive
  BY DEF Own
<1> QED BY <1>1 DEF Records, Offspring

LEMMA FamilyKept ==
  ASSUME Family, IsActive(sch', Shell), UNCHANGED <<live, parent_pid>>,
         \A pid \in Pids : Range(waiting_pids'[pid]) \subseteq Range(waiting_pids[pid]) \cup {Shell}
  PROVE  Family'
BY DEF Family

LEMMA QuietStepKeepsBelieved ==
  ASSUME TestInv, sch'.rsp = sch.rsp,
         \A pid \in Offspring : Asleep(sch', pid) <=> Asleep(sch, pid),
         UNCHANGED <<live, parent_pid, p_rqs, alive>>, NeverAnError',
         \A pid \in Pids : Range(waiting_pids'[pid]) \subseteq Range(waiting_pids[pid]) \cup {Shell},
         step' \in Steps, rq' \in 0 .. max_processes,
         IsActive(sch, Test) /\ step' = "create" => \A k \in Own : k < rq'
  PROVE  Believed'
<1>1. \A pid \in Pids : IsActive(sch', pid) <=> IsActive(sch, pid)
  BY DEF IsActive
<1>2. Family'
  BY <1>1, TestFacts, FamilyKept DEF TestInv, Believed, Family
<1>3. TestTypes' /\ Own' = Own /\ p_rqs' = p_rqs
  BY DEF TestInv, Believed, TestTypes, Own
<1>4. \A k \in Own : p_rqs[k].pid \in Offspring
  BY DEF TestInv, Believed, Own, Offspring, TestTypes
<1>5. ASSUME IsActive(sch', Test) PROVE Records'
  <2>1. IsActive(sch, Test)
    BY <1>1, <1>5, TestFacts
  <2> QED BY <1>1, <1>4, <2>1, RecordsKept DEF TestInv, Believed, Offspring
<1> QED BY <1>2, <1>3, <1>4, <1>5 DEF Believed, Offspring

\* The scheduler hands over, or wakes or blocks the shell.
LEMMA SchedulerStepKeepsBelieved ==
  ASSUME TestInv, sch'.rsp = sch.rsp,
         \A pid \in Offspring : Asleep(sch', pid) <=> Asleep(sch, pid),
         UNCHANGED <<live, parent_pid, waiting_pids, step, rq, p_rqs, alive, error>>
  PROVE  Believed'
<1>1. step' \in Steps /\ rq' \in 0 .. max_processes /\ NeverAnError'
  BY DEF TestInv, Believed, TestTypes, NeverAnError
<1>2. IsActive(sch, Test) /\ step' = "create" => \A k \in Own : k < rq'
  BY DEF TestInv, Believed, Records
<1> QED BY <1>1, <1>2, QuietStepKeepsBelieved

----------------------------------------------------------------------------
(* The test *)

\* While it is alive the test runs as itself.
LEMMA WhoRunsTheTest ==
  ASSUME IInv, NEW loop, In(loop)
  PROVE  /\ sch.current = Test <=> IsActive(sch, Test)
         /\ sch.current = Test \/ sch.current = KILLED_PROC_PID
         /\ kills = <<>> /\ step = loop
<1>1. /\ sch.cpu = Test /\ sch.current # KERNEL_PROC_PID /\ kills = <<>> /\ step = loop
      /\ sch.current \in Contexts \cup {KILLED_PROC_PID} /\ ContextsKept(sch)
  BY DEF In, SystemCall, Interruptible, KernelDone, IInv, SchInv, SchStates
<1> QED BY <1>1, TestFacts DEF ContextsKept, Contexts, IsActive

\* Outside of proc_kill.
LEMMA LiveIsActive ==
  ASSUME IInv, kills = <<>>, NEW pid \in Pids
  PROVE  live[pid] <=> IsActive(sch, pid)
<1>1. Range(kills) = {}
  BY DEF Range
<1> QED BY <1>1 DEF IInv, Tree, Slots, IsActive, TypeOK

LEMMA FailKeepsBelieved ==
  ASSUME TestInv, Fail, sch.current # Test
  PROVE  Believed'
<1>1. /\ UNCHANGED <<sch, live, parent_pid, waiting_pids, rq, p_rqs, alive>>
      /\ step' = "exit" /\ NeverAnError' /\ rq' \in 0 .. max_processes
  BY DEF Fail, vars, processes, TestInv, Believed, NeverAnError, TestTypes
<1>2. \A pid \in Pids : Range(waiting_pids'[pid]) = Range(waiting_pids[pid])
  BY <1>1
<1> QED BY <1>1, <1>2, QuietStepKeepsBelieved DEF Steps

LEMMA EntriesAreFinite == IsFiniteSet(Own) /\ Own \subseteq Requests /\ IsFiniteSet(Requests)
                          /\ Cardinality(Requests) = max_processes
<1>1. IsFiniteSet(Requests) /\ Cardinality(Requests) = max_processes
  <2>1. 0 \in Int /\ max_processes - 1 \in Int /\ max_processes \in Nat /\ max_processes > 0
    BY TestProcessesAssumption
  <2> QED BY <2>1, FS_Interval DEF Requests
<1>2. Own \subseteq Requests
  BY DEF Own
<1> QED BY <1>1, <1>2, FS_Subset

\* There are as many of the test's processes as entries for them.
LEMMA OneEntryEach ==
  ASSUME Records
  PROVE  /\ IsFiniteSet({p_rqs[k].pid : k \in Own})
         /\ Cardinality({p_rqs[k].pid : k \in Own}) = Cardinality(Own)
<1> DEFINE image == {p_rqs[k].pid : k \in Own}
           f == [k \in Own |-> p_rqs[k].pid]
<1>1. f \in [Own -> image] /\ \A t \in image : \E k \in Own : f[k] = t
  OBVIOUS
<1>2. \A j, k \in Own : f[j] = f[k] => j = k
  BY DEF Records
<1> HIDE DEF image, f
<1>3. f \in Bijection(Own, image)
  BY <1>1, <1>2 DEF Bijection, Injection, Surjection, IsInjective
<1> QED BY <1>3, EntriesAreFinite, FS_Bijection DEF ExistsBijection, image

\* The kernel cannot be out of slots: fewer processes than entries are alive.
LEMMA ThereIsASlot ==
  ASSUME TestInv, In("create"), rq < max_processes, sch.current = Test
  PROVE  Live # Pids
<1> SUFFICES ASSUME Live = Pids PROVE FALSE
  OBVIOUS
<1>1. Records /\ step = "create" /\ kills = <<>> /\ \A k \in Own : k < rq
  BY WhoRunsTheTest DEF TestInv, Believed, Records
<1>2. \A pid \in Offspring : \E k \in Own : p_rqs[k].pid = pid
  <2>1. \A pid \in Offspring : IsActive(sch, pid)
    BY <1>1, LiveIsActive DEF TestInv, Live, Offspring
  <2> QED BY <1>1, <2>1 DEF Records, Offspring
<1>3. IsFiniteSet(Offspring) /\ Cardinality(Offspring) = max_processes
  <2>1. Offspring = 2 .. MAX_PROCESSES - 1 /\ MAX_PROCESSES = max_processes + 2
        /\ max_processes \in Nat /\ max_processes > 0
    BY TestProcessesAssumption DEF Offspring, Pids, Shell, Test
  <2> QED BY <2>1, FS_Interval
<1>4. IsFiniteSet(0 .. rq - 1) /\ Cardinality(0 .. rq - 1) = rq /\ rq \in Nat
  <2>1. rq \in Nat
    BY TestFacts DEF TestInv, Believed, TestTypes
  <2>2. 0 \in Int /\ rq - 1 \in Int /\ rq - 1 - 0 + 1 = rq /\ (0 > rq - 1 <=> rq = 0)
    BY <2>1
  <2> QED BY <2>1, <2>2, FS_Interval
<1>5. Own \subseteq 0 .. rq - 1
  BY <1>1, <1>4 DEF Own, Requests
<1>6. Cardinality(Own) <= rq
  BY <1>4, <1>5, FS_Subset
<1> DEFINE image == {p_rqs[k].pid : k \in Own}
<1>7. IsFiniteSet(image) /\ Cardinality(image) = Cardinality(Own)
  BY <1>1, OneEntryEach
<1>8. Offspring \subseteq image
  BY <1>2
<1>9. Cardinality(Offspring) <= Cardinality(image)
  <2> HIDE DEF image
  <2> QED BY <1>7, <1>8, FS_Subset
<1> QED BY <1>3, <1>4, <1>6, <1>7, <1>9, EntriesAreFinite, FS_CardinalityType, TestFacts

LEMMA CannotCreateKeepsBelieved ==
  ASSUME TestInv, CannotCreate
  PROVE  Believed'
<1>1. CASE sch.current = Test
  <2>1. In("create") /\ rq < max_processes /\ Live = Pids
    BY <1>1 DEF CannotCreate
  <2> QED BY <1>1, <2>1, ThereIsASlot
<1>2. CASE sch.current # Test
  <2>1. SchYield(sch, sch') /\ UNCHANGED <<live, parent_pid, waiting_pids, step, rq, p_rqs, alive, error>>
    BY <1>2 DEF CannotCreate, Yield, processes, testVars
  <2>2. sch'.rsp = sch.rsp /\ \A pid \in Offspring : Asleep(sch', pid) <=> Asleep(sch, pid)
    BY <2>1, YieldFacts DEF TestInv, IInv, Offspring
  <2> QED BY <2>1, <2>2, SchedulerStepKeepsBelieved
<1> QED BY <1>1, <1>2

LEMMA LoopsKeepBelieved ==
  ASSUME TestInv, LeaveAlone \/ NextLoop
  PROVE  Believed'
<1>1. /\ UNCHANGED <<sch, live, parent_pid, waiting_pids, p_rqs, alive, error>>
      /\ \A pid \in Pids : Range(waiting_pids'[pid]) = Range(waiting_pids[pid])
      /\ step \in Steps /\ rq \in 0 .. max_processes
  BY DEF LeaveAlone, NextLoop, vars, processes, TestInv, Believed, TestTypes
<1>2. CASE LeaveAlone
  <2>1. step' = step /\ step # "create" /\ rq' \in 0 .. max_processes
    <3>1. step' = step /\ rq' = rq + 1 /\ rq < max_processes
      BY <1>2 DEF LeaveAlone
    <3>2. step = "unblock" \/ step = "kill_or_block"
      BY <1>2 DEF LeaveAlone, In
    <3>3. rq + 1 \in 0 .. max_processes
      BY <3>1, TestTypesOfEntry DEF TestInv, Believed
    <3> QED BY <3>1, <3>2, <3>3
  <2> QED BY <1>1, <2>1, QuietStepKeepsBelieved DEF TestInv, Believed, NeverAnError
<1>3. CASE NextLoop
  <2>1. step' \in Steps /\ rq' \in 0 .. max_processes
    BY <1>3, TestFacts DEF NextLoop, Steps
  <2>2. ASSUME IsActive(sch, Test), step' = "create" PROVE Own = {}
    <3>1. ~(alive > 0) /\ Cardinality(Own) = alive
      BY <1>3, <2>2 DEF NextLoop, TestInv, Believed, Records
    <3>2. Cardinality(Own) = 0
      BY <3>1, EntriesAreFinite, FS_CardinalityType
    <3> QED BY <3>2, EntriesAreFinite, FS_EmptySet
  <2> QED BY <1>1, <2>1, <2>2, QuietStepKeepsBelieved DEF TestInv, Believed, NeverAnError
<1> QED BY <1>2, <1>3

LEMMA CreateOneKeepsBelieved ==
  ASSUME TestInv, CreateOne
  PROVE  Believed'
<1>1. In("create") /\ rq < max_processes
  BY DEF CreateOne
<1> PICK pid \in Pids :
       /\ Create(pid, 0)
       /\ p_rqs' = [p_rqs EXCEPT ![rq] = [pid |-> pid, state |-> "RUNNING"]]
  BY DEF CreateOne
<1>2. /\ sch.current = Test /\ IsActive(sch, Test) /\ kills = <<>> /\ step = "create"
      /\ Records /\ Family /\ TestTypes /\ SchInv(sch)
      /\ \A k \in Own : k < rq /\ p_rqs[k].pid \in Offspring
  <2>1. sch.current # KILLED_PROC_PID
    BY DEF Create, TakeSlot
  <2>2. \A k \in Own : p_rqs[k].pid \in Offspring
    BY DEF TestInv, Believed, Own, Offspring, TestTypes
  <2> QED BY <1>1, <2>1, <2>2, WhoRunsTheTest DEF TestInv, Believed, Records, IInv
<1>3. /\ ~live[pid] /\ live' = [live EXCEPT ![pid] = TRUE]
      /\ parent_pid' = [parent_pid EXCEPT ![pid] = Test] /\ waiting_pids' = waiting_pids
      /\ sch' = SchOnProcessCreate(sch, pid, 0) /\ sch.current # KILLED_PROC_PID
      /\ step' = step /\ error' = error /\ alive' = alive + 1 /\ rq' = rq + 1
  BY <1>2 DEF Create, TakeSlot, CreateOne
<1>4. /\ live \in [Pids -> BOOLEAN] /\ parent_pid \in [Pids -> Contexts]
      /\ \A p \in Pids : live[p] <=> IsActive(sch, p)
  BY <1>2, LiveIsActive DEF TestInv, IInv, TypeOK
<1>5. pid \in Offspring
  BY <1>2, <1>3, <1>4 DEF Offspring, Family
<1>6. /\ \A p \in Pids : IsActive(sch', p) <=> IsActive(sch, p) \/ p = pid
      /\ \A p \in Pids : Asleep(sch', p) <=> Asleep(sch, p)
  <2>1. sch.rsp[pid] = NULL
    BY <1>3, <1>4 DEF IsActive
  <2>2. /\ sch'.rsp = [sch.rsp EXCEPT ![pid] = pid]
        /\ \A p \in Pids : Asleep(sch', p) <=> Asleep(sch, p)
    <3> PICK t : t = SchOnProcessCreate(sch, pid, 0)
      OBVIOUS
    <3>1. 0 \in Int
      OBVIOUS
    <3>2. t.rsp = [sch.rsp EXCEPT ![pid] = pid] /\ \A p \in Pids : Asleep(t, p) <=> Asleep(sch, p)
      BY <1>2, <1>3, <2>1, <3>1, CreateFacts
    <3> QED BY <1>3, <3>2
  <2>3. sch.rsp \in [Pids -> Pids \cup {NULL}] /\ pid # NULL
    BY <1>2, TestFacts DEF SchInv, SchStates
  <2> QED BY <2>2, <2>3 DEF IsActive
<1>7. /\ rq \in Requests /\ rq \notin Own /\ p_rqs'[rq] = [pid |-> pid, state |-> "RUNNING"]
      /\ \A k \in Requests : k # rq => p_rqs'[k] = p_rqs[k]
      /\ p_rqs' \in [Requests -> [pid : Pids, state : {"RUNNING", "BLOCKED", "KILLED"}]]
      /\ rq \in Nat
  <2>1. rq \in Requests /\ rq \in Nat
    BY <1>1, <1>2, TestTypesOfEntry, TestFacts DEF TestTypes
  <2>2. [pid |-> pid, state |-> "RUNNING"] \in [pid : Pids, state : {"RUNNING", "BLOCKED", "KILLED"}]
    OBVIOUS
  <2> QED BY <1>2, <2>1, <2>2 DEF TestTypes
<1>8. Own' = Own \cup {rq}
  BY <1>7 DEF Own
<1>9. TestTypes' /\ NeverAnError'
  <2>1. rq + 1 \in 0 .. max_processes /\ alive + 1 \in Int
    BY <1>1, <1>2, TestFacts DEF TestTypes
  <2> QED BY <1>2, <1>3, <1>7, <2>1 DEF TestTypes, NeverAnError, TestInv, Believed
<1>10. Family'
  BY <1>2, <1>3, <1>4, <1>5, <1>6, TestFacts DEF Family, Offspring
<1>11. \A k \in Own' : p_rqs'[k].pid \in Offspring
  BY <1>2, <1>5, <1>7, <1>8 DEF Own
<1>12. Records'
  <2>1. ASSUME NEW k \in Own'
        PROVE  /\ IsActive(sch', p_rqs'[k].pid)
               /\ Asleep(sch', p_rqs'[k].pid) <=> p_rqs'[k].state = "BLOCKED"
    <3>1. CASE k = rq
      <4>1. ~Asleep(sch, pid)
        BY <1>3, <1>4 DEF Asleep
      <4> QED BY <1>6, <1>7, <3>1, <4>1
    <3>2. CASE k # rq
      <4>1. k \in Own /\ p_rqs'[k] = p_rqs[k] /\ p_rqs[k].pid \in Pids
        BY <1>2, <1>7, <1>8, <3>2 DEF Own, Offspring
      <4> QED BY <1>2, <1>6, <4>1 DEF Records
    <3> QED BY <3>1, <3>2
  <2>2. ASSUME NEW j \in Own', NEW k \in Own', p_rqs'[j].pid = p_rqs'[k].pid
        PROVE  j = k
    <3>1. \A o \in Own : p_rqs'[o] = p_rqs[o] /\ p_rqs[o].pid # pid
      BY <1>2, <1>3, <1>4, <1>7 DEF Own, Records
    <3> QED BY <1>2, <1>7, <1>8, <2>2, <3>1 DEF Records
  <2>3. ASSUME NEW p \in Offspring, IsActive(sch', p)
        PROVE  \E k \in Own' : p_rqs'[k].pid = p
    <3>1. CASE p = pid
      BY <1>7, <1>8, <3>1
    <3>2. CASE p # pid
      <4>1. PICK k \in Own : p_rqs[k].pid = p
        BY <1>2, <1>6, <2>3, <3>2 DEF Records, Offspring
      <4>2. k \in Own' /\ p_rqs'[k] = p_rqs[k]
        BY <1>7, <1>8 DEF Own
      <4> QED BY <4>1, <4>2
    <3> QED BY <3>1, <3>2
  <2>4. Cardinality(Own') = alive'
    BY <1>2, <1>3, <1>7, <1>8, EntriesAreFinite, FS_AddElement DEF Records
  <2>5. \A k \in Own' : k < rq'
    <3>1. \A k \in Own : k \in Int
      BY DEF Own, Requests
    <3> QED BY <1>2, <1>3, <1>7, <1>8, <3>1
  <2> QED BY <2>1, <2>2, <2>3, <2>4, <2>5 DEF Records, Offspring
<1> QED BY <1>9, <1>10, <1>11, <1>12 DEF Believed, Offspring

----------------------------------------------------------------------------
(* Killing and blocking *)

\* The test notes what it did to its entry rq.
LEMMA EntryStored ==
  ASSUME TestTypes, rq < max_processes, NEW state \in {"RUNNING", "BLOCKED", "KILLED"},
         p_rqs' = [p_rqs EXCEPT ![rq].state = state], rq' = rq + 1, step' = step, alive' \in Int
  PROVE  /\ TestTypes' /\ rq \in Requests
         /\ p_rqs'[rq].pid = p_rqs[rq].pid /\ p_rqs'[rq].state = state
         /\ \A k \in Requests : k # rq => p_rqs'[k] = p_rqs[k]
<1> DEFINE entry == [p_rqs[rq] EXCEPT !.state = state]
<1>1. rq \in Requests /\ p_rqs[rq] \in [pid : Pids, state : {"RUNNING", "BLOCKED", "KILLED"}]
  BY TestTypesOfEntry DEF TestTypes
<1>2. /\ entry \in [pid : Pids, state : {"RUNNING", "BLOCKED", "KILLED"}]
      /\ entry.pid = p_rqs[rq].pid /\ entry.state = state
  BY <1>1
<1>3. p_rqs' = [p_rqs EXCEPT ![rq] = entry]
  OBVIOUS
<1> HIDE DEF entry
<1>4. rq + 1 \in 0 .. max_processes
  BY TestFacts DEF TestTypes
<1> QED BY <1>1, <1>2, <1>3, <1>4 DEF TestTypes

\* sch_on_process_killed for a process other than the shell.
LEMMA EnterKillFacts ==
  ASSUME TestInv, NEW pid \in Pids \ {Shell}, EnterKill(pid, 255)
  PROVE  /\ \A p \in Pids : IsActive(sch', p) <=> IsActive(sch, p) /\ p # pid
         /\ \A p \in Pids : Asleep(sch', p) <=> Asleep(sch, p) /\ p # pid
         /\ IsActive(sch', Shell)
<1> PICK t : t = SchOnProcessKilled(sch, pid, 255)
  OBVIOUS
<1>1. /\ SchInv(sch) /\ IsActive(sch, Shell) /\ sch.rsp \in [Pids -> Pids \cup {NULL}]
      /\ sch' = t
  BY DEF TestInv, IInv, Believed, Family, EnterKill, SchInv, SchStates
<1>2. t.rsp = [sch.rsp EXCEPT ![pid] = NULL] /\ \A p \in Pids : Asleep(t, p) <=> Asleep(sch, p) /\ p # pid
  BY <1>1, TestFacts, KilledFacts
<1> QED BY <1>1, <1>2, TestFacts DEF IsActive

\* The test dies: of what it believes nothing is left to show.
LEMMA TestDies ==
  ASSUME TestInv, ~IsActive(sch', Test), IsActive(sch', Shell),
         UNCHANGED <<live, parent_pid, waiting_pids>>, TestTypes', NeverAnError', p_rqs' = p_rqs
  PROVE  Believed'
<1>1. Own' = Own
  BY DEF Own
<1>2. Family'
  BY FamilyKept DEF TestInv, Believed
<1> QED BY <1>1, <1>2 DEF TestInv, Believed

LEMMA KillOneKeepsBelieved ==
  ASSUME TestInv, KillOne
  PROVE  Believed'
<1>1. /\ In("kill_or_block") /\ rq < max_processes /\ p_rqs[rq].state # "KILLED"
      /\ TestTypes /\ Family /\ NeverAnError
  BY DEF KillOne, TestInv, Believed
<1>2. rq \in Own /\ rq \in Requests /\ \A k \in Own : p_rqs[k].pid \in Offspring
  BY <1>1, TestTypesOfEntry DEF TestInv, Believed, Own, Offspring, TestTypes
<1>3. sch.current = Test => Records /\ live[p_rqs[rq].pid]
  <2> SUFFICES ASSUME sch.current = Test PROVE Records /\ live[p_rqs[rq].pid]
    OBVIOUS
  <2>1. IsActive(sch, Test) /\ kills = <<>>
    BY <1>1, WhoRunsTheTest DEF TestInv
  <2>2. Records /\ IsActive(sch, p_rqs[rq].pid) /\ p_rqs[rq].pid \in Pids
    BY <1>2, <2>1 DEF TestInv, Believed, Records, Offspring
  <2> QED BY <2>1, <2>2, LiveIsActive DEF TestInv
<1>4. CASE ~live[p_rqs[rq].pid] /\ Fail
  BY <1>3, <1>4, FailKeepsBelieved
<1>5. CASE /\ Kill(p_rqs[rq].pid, 255)
           /\ p_rqs' = [p_rqs EXCEPT ![rq].state = "KILLED"] /\ alive' = alive - 1 /\ rq' = rq + 1
           /\ UNCHANGED <<shell, step, error>>
  <2> PICK pid \in Offspring : pid = p_rqs[rq].pid
    BY <1>2
  <2>1. /\ EnterKill(pid, 255) /\ UNCHANGED <<live, parent_pid, waiting_pids>>
        /\ p_rqs' = [p_rqs EXCEPT ![rq].state = "KILLED"] /\ alive' = alive - 1
        /\ rq' = rq + 1 /\ step' = step /\ error' = error
    BY <1>5 DEF KillOne, Kill, StartKill, processes
  <2>2. /\ \A p \in Pids : IsActive(sch', p) <=> IsActive(sch, p) /\ p # pid
        /\ \A p \in Pids : Asleep(sch', p) <=> Asleep(sch, p) /\ p # pid
        /\ IsActive(sch', Shell)
    BY <2>1, EnterKillFacts DEF Offspring
  <2>3. /\ TestTypes' /\ p_rqs'[rq].state = "KILLED"
        /\ \A k \in Requests : k # rq => p_rqs'[k] = p_rqs[k]
    BY <1>1, <2>1, TestTypesOfEntry, EntryStored
  <2>4. Own' = Own \ {rq} /\ \A k \in Own' : p_rqs'[k] = p_rqs[k]
    BY <1>2, <2>3 DEF Own
  <2>5. Family'
    BY <1>1, <2>1, <2>2, FamilyKept
  <2>6. NeverAnError' /\ \A k \in Own' : p_rqs'[k].pid \in Offspring
    BY <1>1, <1>2, <2>1, <2>4 DEF NeverAnError
  <2>7. ASSUME IsActive(sch', Test) PROVE Records'
    <3>1. Records /\ step = "kill_or_block"
      <4>1. IsActive(sch, Test)
        BY <2>2, <2>7, TestFacts
      <4> QED BY <1>1, <4>1, WhoRunsTheTest DEF TestInv, Believed
    <3>2. ASSUME NEW k \in Own'
          PROVE  /\ IsActive(sch', p_rqs'[k].pid)
                 /\ Asleep(sch', p_rqs'[k].pid) <=> p_rqs'[k].state = "BLOCKED"
      <4>1. k \in Own /\ k # rq /\ p_rqs'[k] = p_rqs[k] /\ p_rqs[k].pid \in Pids
        BY <1>2, <2>4 DEF Offspring
      <4>2. p_rqs[k].pid # pid
        BY <1>2, <3>1, <4>1 DEF Records
      <4> QED BY <2>2, <3>1, <4>1, <4>2 DEF Records
    <3>3. ASSUME NEW p \in Offspring, IsActive(sch', p)
          PROVE  \E k \in Own' : p_rqs'[k].pid = p
      <4>1. p # pid /\ IsActive(sch, p)
        BY <2>2, <3>3 DEF Offspring
      <4>2. PICK k \in Own : p_rqs[k].pid = p
        BY <3>1, <4>1 DEF Records, Offspring
      <4> QED BY <2>4, <4>1, <4>2
    <3>4. \A j, k \in Own' : p_rqs'[j].pid = p_rqs'[k].pid => j = k
      <4> SUFFICES ASSUME NEW j \in Own', NEW k \in Own', p_rqs'[j].pid = p_rqs'[k].pid
                   PROVE  j = k
        OBVIOUS
      <4>1. /\ j \in Own /\ k \in Own /\ p_rqs'[j] = p_rqs[j] /\ p_rqs'[k] = p_rqs[k]
        BY <2>4
      <4>2. p_rqs[j].pid = p_rqs[k].pid
        BY <4>1
      <4> QED BY <3>1, <4>1, <4>2 DEF Records
    <3>5. Cardinality(Own') = alive'
      <4>1. Cardinality(Own \ {rq}) = Cardinality(Own) - 1
        BY <1>2, EntriesAreFinite, FS_RemoveElement
      <4> QED BY <2>1, <2>4, <3>1, <4>1 DEF Records
    <3> QED BY <2>1, <3>1, <3>2, <3>3, <3>4, <3>5 DEF Records, Offspring
  <2> QED BY <2>3, <2>5, <2>6, <2>7 DEF Believed, Offspring
<1> QED BY <1>4, <1>5 DEF KillOne

\* block: it puts a process to sleep or wakes it up.
LEMMA BlockToggles ==
  ASSUME TestInv, NEW pid \in Offspring, Block(pid)
  PROVE  /\ sch'.rsp = sch.rsp
         /\ Asleep(sch', pid) <=> ~Asleep(sch, pid)
         /\ \A p \in Pids : p # pid => (Asleep(sch', p) <=> Asleep(sch, p))
<1>1. /\ SchInv(sch) /\ pid \in Pids /\ pid \in Int /\ IsActive(sch, pid)
      /\ sch' = IF sch.status[pid] = "BLOCKED" THEN SchUnblock(sch, pid) ELSE SchBlock(sch, pid)
  BY PidsAreInts DEF TestInv, IInv, Offspring, Block
<1>2. CASE sch.status[pid] = "BLOCKED"
  <2> PICK t : t = SchUnblock(sch, pid)
    OBVIOUS
  <2>1. t.rsp = sch.rsp /\ \A p \in Pids : Asleep(t, p) <=> Asleep(sch, p) /\ p # pid
    BY <1>1, UnblockFacts
  <2>2. Asleep(sch, pid) /\ sch' = t
    BY <1>1, <1>2 DEF Asleep
  <2> QED BY <1>1, <2>1, <2>2
<1>3. CASE sch.status[pid] # "BLOCKED"
  <2> PICK t : t = SchBlock(sch, pid)
    OBVIOUS
  <2>1. t.rsp = sch.rsp /\ \A p \in Pids : Asleep(t, p) <=> Asleep(sch, p) \/ (p = pid /\ IsActive(sch, p))
    BY <1>1, BlockFacts
  <2>2. ~Asleep(sch, pid) /\ sch' = t
    BY <1>1, <1>3 DEF Asleep
  <2> QED BY <1>1, <2>1, <2>2
<1> QED BY <1>2, <1>3

LEMMA ToggleKeepsBelieved ==
  ASSUME TestInv, BlockOne \/ UnblockOne
  PROVE  Believed'
<1> PICK from \in {"RUNNING", "BLOCKED"}, to \in {"RUNNING", "BLOCKED"} :
       /\ from # to /\ rq < max_processes /\ Toggle(from, to)
       /\ In("kill_or_block") \/ In("unblock")
  BY DEF BlockOne, UnblockOne
<1>1. /\ TestTypes /\ Family /\ NeverAnError /\ p_rqs[rq].state = from
      /\ \A k \in Own : p_rqs[k].pid \in Offspring
  BY DEF Toggle, TestInv, Believed, Own, Offspring, TestTypes
<1>2. rq \in Own /\ rq \in Requests
  BY <1>1, TestTypesOfEntry DEF Own
<1>3. /\ sch.current = Test <=> IsActive(sch, Test)
      /\ step # "create"
      /\ IsActive(sch, Test) => Records
  <2>1. PICK loop \in {"kill_or_block", "unblock"} : In(loop)
    OBVIOUS
  <2>2. IInv /\ (IsActive(sch, Test) => Records)
    BY DEF TestInv, Believed
  <2>3. (sch.current = Test <=> IsActive(sch, Test)) /\ step = loop
    BY <2>1, <2>2, WhoRunsTheTest
  <2> QED BY <2>2, <2>3
<1>4. CASE ~IsActive(sch, p_rqs[rq].pid) /\ Fail
  <2>1. sch.current # Test
    BY <1>2, <1>3, <1>4 DEF Records
  <2> QED BY <1>4, <2>1, FailKeepsBelieved
<1>5. CASE /\ Block(p_rqs[rq].pid)
           /\ p_rqs' = [p_rqs EXCEPT ![rq].state = to] /\ rq' = rq + 1
           /\ UNCHANGED <<shell, step, alive, error>>
  <2> PICK pid \in Offspring : pid = p_rqs[rq].pid
    BY <1>1, <1>2
  <2>1. UNCHANGED <<live, parent_pid, waiting_pids>> /\ Block(pid)
    BY <1>5 DEF Block, processes
  <2>2. /\ sch'.rsp = sch.rsp
        /\ Asleep(sch', pid) <=> ~Asleep(sch, pid)
        /\ \A p \in Pids : p # pid => (Asleep(sch', p) <=> Asleep(sch, p))
    BY <2>1, BlockToggles
  <2>3. \A p \in Pids : IsActive(sch', p) <=> IsActive(sch, p)
    BY <2>2 DEF IsActive
  <2>4. /\ TestTypes' /\ p_rqs'[rq].state = to /\ p_rqs'[rq].pid = pid
        /\ \A k \in Requests : k # rq => p_rqs'[k] = p_rqs[k]
    <3>1. alive' \in Int
      BY <1>1, <1>5 DEF TestTypes
    <3> QED BY <1>1, <1>5, <3>1, EntryStored
  <2>5. Own' = Own /\ \A k \in Own : p_rqs'[k].pid = p_rqs[k].pid
    BY <1>2, <2>4 DEF Own
  <2>6. Family'
    BY <1>1, <2>1, <2>3, TestFacts, FamilyKept DEF Family
  <2>7. NeverAnError' /\ \A k \in Own' : p_rqs'[k].pid \in Offspring
    BY <1>1, <1>5, <2>5 DEF NeverAnError
  <2>8. ASSUME IsActive(sch', Test) PROVE Records'
    <3>1. Records
      BY <1>3, <2>3, <2>8, TestFacts
    <3>2. ASSUME NEW k \in Own'
          PROVE  /\ IsActive(sch', p_rqs'[k].pid)
                 /\ Asleep(sch', p_rqs'[k].pid) <=> p_rqs'[k].state = "BLOCKED"
      <4>1. k \in Own /\ p_rqs[k].pid \in Pids /\ p_rqs'[k].pid = p_rqs[k].pid
        BY <1>1, <2>5 DEF Offspring
      <4>2. IsActive(sch, p_rqs[k].pid) /\ (Asleep(sch, p_rqs[k].pid) <=> p_rqs[k].state = "BLOCKED")
        BY <3>1, <4>1 DEF Records
      <4>3. CASE k = rq
        BY <1>1, <2>2, <2>3, <2>4, <4>1, <4>2, <4>3
      <4>4. CASE k # rq
        <5>1. p_rqs[k].pid # pid /\ p_rqs'[k] = p_rqs[k]
          BY <1>2, <2>4, <3>1, <4>1, <4>4 DEF Records, Own
        <5> QED BY <2>2, <2>3, <4>1, <4>2, <5>1
      <4> QED BY <4>3, <4>4
    <3>3. ASSUME NEW p \in Offspring, IsActive(sch', p)
          PROVE  \E k \in Own' : p_rqs'[k].pid = p
      <4>1. IsActive(sch, p)
        BY <2>3, <3>3 DEF Offspring
      <4>2. PICK k \in Own : p_rqs[k].pid = p
        BY <3>1, <4>1 DEF Records, Offspring
      <4> QED BY <2>5, <4>2
    <3>4. \A j, k \in Own' : p_rqs'[j].pid = p_rqs'[k].pid => j = k
      <4> SUFFICES ASSUME NEW j \in Own', NEW k \in Own', p_rqs'[j].pid = p_rqs'[k].pid
                   PROVE  j = k
        OBVIOUS
      <4>1. j \in Own /\ k \in Own /\ p_rqs[j].pid = p_rqs[k].pid
        BY <2>5
      <4> QED BY <3>1, <4>1 DEF Records
    <3>5. Cardinality(Own') = alive' /\ step' # "create"
      BY <1>3, <1>5, <2>5, <3>1 DEF Records
    <3> QED BY <3>2, <3>3, <3>4, <3>5 DEF Records, Offspring
  <2> QED BY <2>4, <2>6, <2>7, <2>8 DEF Believed, Offspring
<1> QED BY <1>4, <1>5 DEF Toggle

LEMMA LeaveKeepsBelieved ==
  ASSUME TestInv, Leave
  PROVE  Believed'
<1>1. /\ In("exit") /\ step' = "none" /\ UNCHANGED <<live, parent_pid, waiting_pids, rq, p_rqs, alive, error>>
  BY DEF Leave, Exit, KillCurrentAndYield, processes
<1>2. TestTypes' /\ NeverAnError'
  BY <1>1 DEF TestInv, Believed, TestTypes, NeverAnError, Steps
<1>3. IsActive(sch', Shell) /\ ~IsActive(sch', Test)
  <2>1. CASE sch.current = Test
    <3>1. EnterKill(Test, 255)
      BY <2>1, TestFacts DEF Leave, Exit, KillCurrentAndYield
    <3> QED BY <3>1, TestFacts, EnterKillFacts
  <2>2. CASE sch.current # Test
    <3>1. sch.current \notin Pids /\ ~IsActive(sch, Test)
      BY <1>1, <2>2, WhoRunsTheTest, TestFacts DEF TestInv
    <3>2. sch' = sch
      BY <3>1 DEF Leave, Exit, KillCurrentAndYield
    <3> QED BY <3>1, <3>2 DEF TestInv, Believed, Family
  <2> QED BY <2>1, <2>2
<1> QED BY <1>1, <1>2, <1>3, TestDies

\* Of the two in the foreground, Ctrl-C gets the test.
LEMMA AbortKeepsBelieved ==
  ASSUME TestInv, Abort
  PROVE  Believed'
<1> PICK pid \in SchGetRunningPid(sch, {Shell, Test}) : pid \in Pids /\ StartKill(pid, 255)
  BY DEF Abort
<1>1. pid = Test
  <2>1. {Shell, Test} \ {0} = {Test}
    BY DEF Shell, Test
  <2> QED BY <2>1, PidsAreInts DEF SchGetRunningPid, Pids
<1>2. /\ EnterKill(Test, 255) /\ UNCHANGED testVars
      /\ UNCHANGED <<live, parent_pid, waiting_pids>>
  BY <1>1 DEF StartKill, Abort, processes
<1>3. IsActive(sch', Shell) /\ ~IsActive(sch', Test)
  BY <1>2, TestFacts, EnterKillFacts
<1>4. TestTypes' /\ NeverAnError' /\ p_rqs' = p_rqs
  BY <1>2 DEF testVars, TestInv, Believed, TestTypes, NeverAnError
<1> QED BY <1>2, <1>3, <1>4, TestDies

----------------------------------------------------------------------------
(* The kernel *)

LEMMA VictimFacts ==
  ASSUME TestInv, Killing
  PROVE  /\ Victim \in Pids /\ live[Victim] /\ ~IsActive(sch, Victim) /\ Victim # Shell
<1>1. kills \in Seq(Pids) /\ kills # <<>>
  BY DEF Killing, TestInv, IInv, TypeOK
<1>2. Len(kills) \in Nat /\ Len(kills) # 0
  BY <1>1, EmptySeq
<1>3. Len(kills) \in DOMAIN kills /\ kills[Len(kills)] \in Pids
  BY <1>1, <1>2, ElementOfSeq, LenProperties
<1>4. Victim \in Range(kills) /\ Victim \in Pids
  BY <1>3 DEF Victim, Range
<1>5. live[Victim] /\ ~IsActive(sch, Victim)
  BY <1>4 DEF TestInv, IInv, Tree, Slots, IsActive
<1> QED BY <1>4, <1>5 DEF TestInv, Believed, Family

\* Only a test that is dead loses a process this way.
LEMMA KillChildKeepsBelieved ==
  ASSUME TestInv, KillChild, UNCHANGED testVars
  PROVE  Believed'
<1> PICK v \in Pids : v = Victim
  BY VictimFacts DEF KillChild
<1>1. /\ live[v] /\ ~IsActive(sch, v) /\ child_pids[v] \in Seq(Pids) /\ child_pids[v] # <<>>
      /\ IsInjective(child_pids[v])
  BY VictimFacts DEF KillChild, TestInv, IInv, TypeOK, Tree, Queues
<1> PICK child \in Pids : child = Head(child_pids[v]) /\ child \in Range(child_pids[v])
  BY <1>1, TailFacts
<1>2. live[child] /\ parent_pid[child] = v
  BY DEF TestInv, IInv, Tree, Queues
<1>3. /\ child # Shell
      /\ IsActive(sch, Test) => child = Test
  BY <1>1, <1>2, TestFacts DEF TestInv, Believed, Family, Offspring
<1>4. EnterKill(child, 255) /\ UNCHANGED <<live, parent_pid, waiting_pids>> /\ UNCHANGED testVars
  BY DEF KillChild
<1>5. IsActive(sch', Shell) /\ \A p \in Pids : IsActive(sch', p) <=> IsActive(sch, p) /\ p # child
  BY <1>3, <1>4, EnterKillFacts
<1>6. ~IsActive(sch', Test)
  BY <1>3, <1>5, TestFacts
<1>7. TestTypes' /\ NeverAnError' /\ p_rqs' = p_rqs
  BY <1>4 DEF testVars, TestInv, Believed, TestTypes, NeverAnError
<1> QED BY <1>4, <1>5, <1>6, <1>7, TestDies

\* Those who wait are the shell.
LEMMA WakeWaiterKeepsBelieved ==
  ASSUME TestInv, WakeWaiter, UNCHANGED testVars
  PROVE  Believed'
<1> PICK v \in Pids : v = Victim
  BY VictimFacts DEF WakeWaiter
<1>1. /\ waiting_pids \in [Pids -> Seq(Pids \cup {KILLED_PROC_PID})] /\ waiting_pids[v] # <<>>
      /\ Range(waiting_pids[v]) \subseteq {Shell} /\ SchInv(sch)
      /\ UNCHANGED <<live, parent_pid, step, rq, p_rqs, alive, error>>
      /\ sch' = SchUnblock(sch, Last(waiting_pids[v]))
      /\ waiting_pids' = [waiting_pids EXCEPT ![v] = Front(waiting_pids[v])]
  <2>1. waiting_pids \in [Pids -> Seq(Pids \cup {KILLED_PROC_PID})] /\ SchInv(sch)
    BY DEF TestInv, IInv, TypeOK
  <2>2. Range(waiting_pids[v]) \subseteq {Shell}
    BY DEF TestInv, Believed, Family
  <2> QED BY <2>1, <2>2 DEF WakeWaiter, testVars
<1> PICK q \in Seq(Pids \cup {KILLED_PROC_PID}) : q = waiting_pids[v]
  BY <1>1
<1>2. /\ Len(q) \in Nat \ {0} /\ Last(q) = q[Len(q)] /\ Front(q) \in Seq(Pids \cup {KILLED_PROC_PID})
      /\ Len(Front(q)) = Len(q) - 1 /\ \A i \in 1 .. Len(q) - 1 : Front(q)[i] = q[i]
  <2>1. q # <<>>
    BY <1>1
  <2> QED BY <2>1, FrontFacts
<1>3. DOMAIN q = 1 .. Len(q) /\ DOMAIN Front(q) = 1 .. Len(q) - 1
  BY <1>2, LenProperties
<1>4. Last(q) = Shell
  <2>1. Last(q) \in Range(q)
    BY <1>2, <1>3 DEF Range
  <2> QED BY <1>1, <2>1
<1>5. Range(Front(q)) \subseteq Range(q)
  BY <1>2, <1>3 DEF Range
<1>6. \A p \in Pids : Range(waiting_pids'[p]) \subseteq Range(waiting_pids[p]) \cup {Shell}
  BY <1>1, <1>5
<1>7. sch'.rsp = sch.rsp /\ \A p \in Offspring : Asleep(sch', p) <=> Asleep(sch, p)
  <2> PICK t : t = SchUnblock(sch, Shell)
    OBVIOUS
  <2>1. Shell \in Int /\ SchInv(sch)
    BY <1>1, PidsAreInts, TestFacts
  <2>2. t.rsp = sch.rsp /\ \A p \in Pids : Asleep(t, p) <=> Asleep(sch, p) /\ p # Shell
    BY <2>1, UnblockFacts
  <2>3. sch' = t
    BY <1>1, <1>4
  <2> QED BY <2>2, <2>3 DEF Offspring
<1>8. step' \in Steps /\ rq' \in 0 .. max_processes /\ NeverAnError'
  BY <1>1 DEF TestInv, Believed, TestTypes, NeverAnError
<1>9. IsActive(sch, Test) /\ step' = "create" => \A k \in Own : k < rq'
  BY <1>1 DEF TestInv, Believed, Records
<1> QED BY <1>1, <1>6, <1>7, <1>8, <1>9, QuietStepKeepsBelieved

LEMMA FinishKillKeepsBelieved ==
  ASSUME TestInv, FinishKill, UNCHANGED testVars
  PROVE  Believed'
<1> PICK v \in Pids : v = Victim
  BY VictimFacts DEF FinishKill
<1>1. /\ v # Shell /\ sch' = sch /\ UNCHANGED <<step, rq, p_rqs, alive, error>>
      /\ live \in [Pids -> BOOLEAN] /\ parent_pid \in [Pids -> Contexts]
      /\ waiting_pids \in [Pids -> Seq(Pids \cup {KILLED_PROC_PID})] /\ waiting_pids[v] = <<>>
      /\ live' = [live EXCEPT ![v] = FALSE] /\ parent_pid' = [parent_pid EXCEPT ![v] = 0]
      /\ waiting_pids' = [waiting_pids EXCEPT ![v] = <<>>]
  BY VictimFacts DEF FinishKill, FreeSlot, testVars, TestInv, IInv, TypeOK
<1>2. waiting_pids' = waiting_pids
  BY <1>1
<1>3. Family'
  BY <1>1, <1>2, TestFacts DEF TestInv, Believed, Family
<1>4. TestTypes' /\ NeverAnError' /\ Own' = Own
  BY <1>1 DEF TestInv, Believed, TestTypes, NeverAnError, Own
<1>5. Records => Records'
  BY <1>1, <1>4 DEF Records
<1> QED BY <1>1, <1>3, <1>4, <1>5 DEF TestInv, Believed

LEMMA HandOverKeepsBelieved ==
  ASSUME TestInv, YieldAfterKill \/ Tick, UNCHANGED testVars
  PROVE  Believed'
<1>1. /\ SchYield(sch, sch') \/ SchSwitch(sch, sch')
      /\ UNCHANGED <<live, parent_pid, waiting_pids, step, rq, p_rqs, alive, error>>
  BY DEF YieldAfterKill, Tick, processes, testVars
<1>2. sch'.rsp = sch.rsp /\ \A p \in Offspring : Asleep(sch', p) <=> Asleep(sch, p)
  BY <1>1, YieldFacts, SwitchFacts DEF TestInv, IInv, Offspring
<1> QED BY <1>1, <1>2, SchedulerStepKeepsBelieved


----------------------------------------------------------------------------
(* The shell *)

\* No process is left below a test that is gone.
LEMMA LaunchKeepsBelieved ==
  ASSUME TestInv, Launch
  PROVE  Believed'
<1>1. /\ sch.current = Shell /\ ~live[Test] /\ kills = <<>> /\ sch.current # KILLED_PROC_PID
      /\ sch' = SchOnProcessCreate(sch, Test, DEFAULT_PRIORITY)
      /\ live' = [live EXCEPT ![Test] = TRUE] /\ parent_pid' = [parent_pid EXCEPT ![Test] = Shell]
      /\ waiting_pids' = waiting_pids
      /\ step' = "create" /\ rq' = 0 /\ p_rqs' = NoProcesses /\ alive' = 0 /\ error' = error
  BY DEF Launch, Create, TakeSlot, SystemCall, Interruptible, KernelDone
<1>2. /\ live \in [Pids -> BOOLEAN] /\ parent_pid \in [Pids -> Contexts]
      /\ \A p \in Pids : live[p] <=> IsActive(sch, p)
      /\ SchInv(sch) /\ Family /\ NeverAnError
  BY <1>1, LiveIsActive DEF TestInv, Believed, IInv, TypeOK
<1>3. \A p \in Offspring : ~live[p]
  BY <1>1, <1>2, TestFacts DEF TestInv, IInv, Tree, Queues, Family, Offspring
<1>4. \A p \in Pids : IsActive(sch', p) <=> IsActive(sch, p) \/ p = Test
  <2> PICK t : t = SchOnProcessCreate(sch, Test, DEFAULT_PRIORITY)
    OBVIOUS
  <2>1. t.rsp = [sch.rsp EXCEPT ![Test] = Test] /\ sch.rsp \in [Pids -> Pids \cup {NULL}]
    BY <1>2, TestFacts, CreateGivesContext DEF SchInv, SchStates
  <2> QED BY <1>1, <2>1, TestFacts DEF IsActive
<1>5. Family'
  BY <1>1, <1>2, <1>3, <1>4, TestFacts DEF Family, Offspring
<1>6. NoProcesses \in [Requests -> [pid : Pids, state : {"RUNNING", "BLOCKED", "KILLED"}]]
  BY PidsAreInts DEF NoProcesses
<1>7. TestTypes' /\ NeverAnError'
  BY <1>1, <1>2, <1>6, TestFacts DEF TestTypes, Steps, NeverAnError
<1>8. Own' = {}
  BY <1>1 DEF Own, NoProcesses
<1>9. Records'
  <2>1. Cardinality(Own') = 0
    BY <1>8, FS_EmptySet
  <2>2. \A p \in Offspring : ~IsActive(sch', p)
    BY <1>2, <1>3, <1>4 DEF Offspring
  <2> QED BY <1>1, <1>8, <2>1, <2>2 DEF Records, Offspring
<1> QED BY <1>5, <1>7, <1>8, <1>9 DEF Believed

\* The shell enters the test's queue, and nobody else does.
LEMMA WaitForTestKeepsBelieved ==
  ASSUME TestInv, WaitForTest
  PROVE  Believed'
<1>0. UNCHANGED <<step, rq, p_rqs, alive, error>>
  BY DEF WaitForTest
<1>1. CASE UNCHANGED vars
  <2>1. UNCHANGED <<sch, live, parent_pid, waiting_pids>>
    BY <1>1 DEF vars, processes
  <2> QED BY <1>0, <2>1, SchedulerStepKeepsBelieved
<1>2. CASE Waitpid(Test)
  <2>1. /\ sch.current = Shell /\ SchInv(sch) /\ Shell \in Int
        /\ waiting_pids \in [Pids -> Seq(Pids \cup {KILLED_PROC_PID})]
    BY PidsAreInts, TestFacts DEF WaitForTest, TestInv, IInv, TypeOK
  <2> PICK blocked : blocked = SchBlock(sch, Shell)
    OBVIOUS
  <2>2. /\ SchYield(blocked, sch') /\ UNCHANGED <<live, parent_pid>>
        /\ \/ waiting_pids' = [waiting_pids EXCEPT ![Test] = Append(@, Shell)]
           \/ waiting_pids' = waiting_pids
    BY <1>2, <2>1 DEF Waitpid, ProcUnblockOnKilled
  <2>3. /\ SchInv(blocked) /\ blocked.rsp = sch.rsp
        /\ \A p \in Pids : Asleep(blocked, p) <=> Asleep(sch, p) \/ (p = Shell /\ IsActive(sch, p))
    BY <2>1, BlockFacts
  <2>4. sch'.rsp = blocked.rsp /\ \A p \in Pids : Asleep(sch', p) <=> Asleep(blocked, p)
    BY <2>2, <2>3, YieldFacts
  <2>5. sch'.rsp = sch.rsp /\ \A p \in Offspring : Asleep(sch', p) <=> Asleep(sch, p)
    BY <2>3, <2>4 DEF Offspring
  <2>6. \A p \in Pids : Range(waiting_pids'[p]) \subseteq Range(waiting_pids[p]) \cup {Shell}
    <3> PICK q \in Seq(Pids \cup {KILLED_PROC_PID}) : q = waiting_pids[Test]
      BY <2>1, TestFacts
    <3>1. Range(Append(q, Shell)) = Range(q) \cup {Shell}
      BY TestFacts, AppendFacts
    <3> QED BY <2>1, <2>2, <3>1
  <2>7. step' \in Steps /\ rq' \in 0 .. max_processes /\ NeverAnError'
    BY <1>0 DEF TestInv, Believed, TestTypes, NeverAnError
  <2>8. IsActive(sch, Test) /\ step' = "create" => \A k \in Own : k < rq'
    BY <1>0 DEF TestInv, Believed, Records
  <2> QED BY <1>0, <2>2, <2>5, <2>6, <2>7, <2>8, QuietStepKeepsBelieved
<1> QED BY <1>1, <1>2 DEF WaitForTest

LEMMA TestIsOverKeepsBelieved ==
  ASSUME TestInv, TestIsOver
  PROVE  Believed'
<1>1. UNCHANGED <<sch, live, parent_pid, waiting_pids, step, rq, p_rqs, alive, error>>
  BY DEF TestIsOver, ReturnFromWaitpid, processes
<1> QED BY <1>1, SchedulerStepKeepsBelieved

----------------------------------------------------------------------------

LEMMA InitEstablishesTestInv == TestInit => TestInv
<1> SUFFICES ASSUME TestInit PROVE TestInv
  OBVIOUS
<1>1. /\ IInv /\ step = "none" /\ rq = 0 /\ p_rqs = NoProcesses /\ alive = 0 /\ error = FALSE
  BY InitEstablishesIInv DEF TestInit
<1>2. /\ \A p \in Pids : live[p] <=> p = Shell
      /\ parent_pid[Shell] = KERNEL_PROC_PID /\ kills = <<>>
      /\ \A p \in Pids : waiting_pids[p] = <<>>
  BY TestFacts DEF TestInit, Init, Shell
<1>3. \A p \in Pids : IsActive(sch, p) <=> p = Shell
  BY <1>1, <1>2, LiveIsActive
<1>4. ASSUME NEW none, none = <<>> PROVE Range(none) = {}
  BY <1>4 DEF Range
<1>5. Family
  BY <1>2, <1>3, <1>4, TestFacts DEF Family
<1>6. NoProcesses \in [Requests -> [pid : Pids, state : {"RUNNING", "BLOCKED", "KILLED"}]]
  BY PidsAreInts DEF NoProcesses
<1>7. TestTypes /\ NeverAnError
  BY <1>1, <1>6, TestFacts DEF TestTypes, Steps, NeverAnError
<1>8. Own = {}
  BY <1>1 DEF Own, NoProcesses
<1> QED BY <1>1, <1>3, <1>5, <1>7, <1>8, TestFacts DEF TestInv, Believed

LEMMA TestNextKeepsTestInv == TestInv /\ [TestNext]_allVars => TestInv'
<1> SUFFICES ASSUME TestInv, [TestNext]_allVars PROVE TestInv'
  OBVIOUS
<1>1. IInv'
  <2>1. [Next]_vars
    <3>1. CASE UNCHANGED allVars
      BY <3>1 DEF allVars
    <3> QED BY <3>1, TestStepIsStep DEF TestInv, Believed
  <2> QED BY <2>1, NextKeepsIInv DEF TestInv
<1>2. Believed'
  <2>1. CASE UNCHANGED allVars
    <3>1. UNCHANGED <<sch, live, parent_pid, waiting_pids, step, rq, p_rqs, alive, error>>
      BY <2>1 DEF allVars, vars, processes, testVars
    <3> QED BY <3>1, SchedulerStepKeepsBelieved
  <2>2. CASE ShellStep
    BY <2>2, LaunchKeepsBelieved, WaitForTestKeepsBelieved, TestIsOverKeepsBelieved DEF ShellStep
  <2>3. CASE TestStep
    BY <2>3, CreateOneKeepsBelieved, CannotCreateKeepsBelieved, KillOneKeepsBelieved,
       ToggleKeepsBelieved, LoopsKeepBelieved, LeaveKeepsBelieved DEF TestStep
  <2>4. CASE Abort
    BY <2>4, AbortKeepsBelieved
  <2>5. CASE KernelStep
    BY <2>5, KillChildKeepsBelieved, WakeWaiterKeepsBelieved, FinishKillKeepsBelieved,
       HandOverKeepsBelieved DEF KernelStep
  <2>6. CASE TimerTick
    BY <2>6, HandOverKeepsBelieved DEF TimerTick
  <2> QED BY <2>1, <2>2, <2>3, <2>4, <2>5, <2>6 DEF TestNext
<1> QED BY <1>1, <1>2 DEF TestInv

LEMMA InvariantOfTestProcesses == TestSpec => []TestInv
BY InitEstablishesTestInv, TestNextKeepsTestInv, PTL DEF TestSpec

(* For every number of processes the test is told to make: as long as it lives,
   its entries are exactly its living children, alive counts them, and those it
   holds for blocked are the ones the scheduler has blocked. *)
THEOREM TestProcessesRecordsAreTrue == TestSpec => []RecordsAreTrue
<1>1. TestInv => RecordsAreTrue
  <2> SUFFICES ASSUME TestInv, IsActive(sch, Test) PROVE
        /\ {p_rqs[k].pid : k \in Own} = {pid \in Pids : IsActive(sch, pid) /\ parent_pid[pid] = Test}
        /\ Cardinality({p_rqs[k].pid : k \in Own}) = alive
        /\ \A k \in Own : p_rqs[k].state = "BLOCKED" <=> sch.status[p_rqs[k].pid] = "BLOCKED"
    BY DEF RecordsAreTrue, Own
  <2>1. Records /\ Family
    BY DEF TestInv, Believed
  <2>2. /\ \A k \in Own : p_rqs[k].pid \in Offspring
        /\ \A p \in Pids : IsActive(sch, p) => live[p]
    BY DEF TestInv, Believed, Own, Offspring, TestTypes, IInv, Tree, Slots, IsActive
  <2>3. \A p \in Pids : IsActive(sch, p) => (parent_pid[p] = Test <=> p \in Offspring)
    BY <2>1, <2>2, TestFacts DEF Family, Offspring
  <2>4. {p_rqs[k].pid : k \in Own} = {pid \in Pids : IsActive(sch, pid) /\ parent_pid[pid] = Test}
    BY <2>1, <2>2, <2>3 DEF Records, Offspring
  <2>5. Cardinality({p_rqs[k].pid : k \in Own}) = alive
    BY <2>1, OneEntryEach DEF Records
  <2>6. \A k \in Own : p_rqs[k].state = "BLOCKED" <=> sch.status[p_rqs[k].pid] = "BLOCKED"
    BY <2>1 DEF Records, Asleep
  <2> QED BY <2>4, <2>5, <2>6
<1> QED BY <1>1, InvariantOfTestProcesses, PTL

(* The test never reports an error unless it was killed: there is always a slot
   for the process it creates, and what it kills or blocks is alive. *)
THEOREM TestProcessesNeverAnError == TestSpec => []NeverAnError
<1>1. TestInv => NeverAnError
  BY DEF TestInv, Believed
<1> QED BY <1>1, InvariantOfTestProcesses, PTL
=============================================================================
