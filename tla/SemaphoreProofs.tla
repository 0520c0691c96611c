-------------------------- MODULE SemaphoreProofs --------------------------
(***************************************************************************)
(* The invariants of Semaphore, for every number of processes and          *)
(* semaphores, every width of a byte and every bound on the links; and     *)
(* over them those of testsync, for every number of workers and rounds.    *)
(***************************************************************************)
EXTENDS TestSync, KernelLemmas

\* Who holds a semaphore, alive or not.
Holders(sem) == {pid \in Pids : sem \in links[pid]}

Typed ==
  /\ semaphores \in [DOMAIN semaphores -> SemInfo] /\ DOMAIN semaphores \subseteq Semaphores
  /\ waiting \in [Pids -> Semaphores \cup {NULL}]
  /\ links \in [Pids -> SUBSET Semaphores]
  /\ leaked \in [Semaphores -> Nat]
  /\ stray \in BOOLEAN

\* linked_processes counts, and never overflows.
Counted ==
  /\ \A sem \in DOMAIN semaphores :
       semaphores[sem].linked_processes = Links(sem) /\ Links(sem) <= MAX_LINKS
  /\ \A sem \in Semaphores \ DOMAIN semaphores : leaked[sem] = 0
  /\ \A sem, other \in DOMAIN semaphores :
       semaphores[sem].name = semaphores[other].name => sem = other

Held ==
  \A pid \in Pids :
    /\ links[pid] \subseteq DOMAIN semaphores
    /\ waiting[pid] # NULL => waiting[pid] \in links[pid] /\ IsActive(sch, pid)

IInv == SchInv(sch) /\ Typed /\ Counted /\ Held

----------------------------------------------------------------------------

LEMMA ConstantFacts ==
  /\ Pids \subseteq 0 .. 253 /\ KERNEL_PROC_PID \notin Pids /\ KILLED_PROC_PID \notin Pids
  /\ NULL \notin Semaphores /\ NULL \notin Pids
  /\ MAX_LINKS \in Nat \ {0} /\ UINT8 \in Nat /\ MAX_LINKS < UINT8
  /\ IsFiniteSet(Pids)
<1>1. IsFiniteSet(0 .. MAX_PROCESSES - 1)
  BY SchedulerAssumption, FS_Interval
<1> QED
  BY <1>1, SchedulerAssumption, SemaphoreAssumption DEF Pids, Semaphores, NULL,
     KERNEL_PROC_PID, KILLED_PROC_PID

LEMMA HoldersFinite ==
  ASSUME NEW sem
  PROVE  IsFiniteSet(Holders(sem)) /\ Cardinality(Holders(sem)) \in Nat
<1>1. Holders(sem) \in SUBSET Pids
  BY DEF Holders
<1> QED BY <1>1, ConstantFacts, FS_Subset, FS_CardinalityType

LEMMA LinksFacts ==
  ASSUME Typed, NEW sem \in Semaphores
  PROVE  /\ Links(sem) \in Nat /\ leaked[sem] \in Nat
         /\ Links(sem) = Cardinality(Holders(sem)) + leaked[sem]
<1>1. Links(sem) = Cardinality(Holders(sem)) + leaked[sem]
  BY DEF Links, Holders
<1> QED BY <1>1, HoldersFinite DEF Typed

\* The caller of a system call is a process, which waits for nothing.
LEMMA CallerFacts ==
  ASSUME IInv, SystemCall
  PROVE  /\ Caller \in Pids /\ waiting[Caller] = NULL
         /\ sch.current \in Pids => Caller = sch.current
         /\ sch.current \notin Pids => sch.current = KILLED_PROC_PID
<1>1. sch.current \in Contexts \cup {KILLED_PROC_PID} /\ sch.current # KERNEL_PROC_PID
  BY DEF IInv, SchInv, SchStates, SystemCall
<1>2. CASE sch.current \in Pids
  BY <1>2 DEF IInv, SchInv, ContextsKept, Contexts, SystemCall, Interruptible, Resuming, Caller
<1>3. CASE sch.current \notin Pids
  <2>1. sch.current = KILLED_PROC_PID
    BY <1>1, <1>3 DEF Contexts
  <2>2. Caller \in Pids /\ ~IsActive(sch, Caller)
    BY <2>1 DEF IInv, SchInv, ContextsKept, IsActive, Caller
  <2> QED BY <1>3, <2>1, <2>2 DEF IInv, Held
<1> QED BY <1>2, <1>3

LEMMA InitEstablishesIInv == Init => IInv
<1> SUFFICES ASSUME Init PROVE IInv
  OBVIOUS
<1>1. SchInv(sch)
  <2>1. /\ SchInit.rsp[0] = NULL /\ SchInit.current # KILLED_PROC_PID
        /\ 0 \in Pids /\ MAX_PRIORITY \in Int
    BY SchedulerAssumption DEF SchInit, Pids, KERNEL_PROC_PID, KILLED_PROC_PID
  <2> QED BY <2>1, InitHasSchInv, CreateKeepsSchInv DEF Init
<1>2. DOMAIN semaphores = {} /\ semaphores \in [{} -> SemInfo]
  BY DEF Init
<1>3. Typed
  BY <1>2 DEF Init, Typed
<1>4. Counted
  BY <1>2 DEF Init, Counted
<1>5. Held
  BY <1>2 DEF Init, Held
<1> QED BY <1>1, <1>3, <1>4, <1>5 DEF IInv

----------------------------------------------------------------------------
(* Opening and closing *)

LEMMA OpenExistingKeepsIInv ==
  ASSUME IInv, NEW name \in Names, SemOpenExisting(name)
  PROVE  IInv'
<1> PICK sem \in SearchSemaphore(name) :
       /\ sem \notin links[Caller] /\ Links(sem) < MAX_LINKS
       /\ semaphores' = [semaphores EXCEPT ![sem].linked_processes = (@ + 1) % UINT8]
       /\ links' = [links EXCEPT ![Caller] = @ \cup {sem}]
  BY DEF SemOpenExisting
<1> DEFINE info == [semaphores[sem] EXCEPT !.linked_processes = (@ + 1) % UINT8]
           me == Caller
<1>1. /\ sch' = sch /\ waiting' = waiting /\ leaked' = leaked /\ stray' = stray
      /\ sem \in DOMAIN semaphores /\ sem \in Semaphores
      /\ me \in Pids /\ semaphores \in [DOMAIN semaphores -> SemInfo]
      /\ links \in [Pids -> SUBSET Semaphores]
  BY CallerFacts DEF SemOpenExisting, SearchSemaphore, IInv, Typed
<1>2. Links(sem) \in Nat /\ semaphores[sem].linked_processes = Links(sem)
  BY <1>1, LinksFacts DEF IInv, Counted
<1>3. /\ info \in SemInfo /\ info.linked_processes = Links(sem) + 1
      /\ info.name = semaphores[sem].name
  <2>1. (Links(sem) + 1) % UINT8 = Links(sem) + 1 /\ Links(sem) + 1 \in 0 .. UINT8 - 1
    BY <1>2, ConstantFacts
  <2>2. semaphores[sem] \in SemInfo
    BY <1>1
  <2> HIDE DEF Links
  <2> QED BY <1>2, <2>1, <2>2 DEF SemInfo
<1>4. semaphores' = [semaphores EXCEPT ![sem] = info]
  OBVIOUS
<1>5. links' = [links EXCEPT ![me] = @ \cup {sem}] /\ sem \notin links[me]
  OBVIOUS
<1> HIDE DEF info, me
<1>6. /\ DOMAIN semaphores' = DOMAIN semaphores
      /\ \A other \in DOMAIN semaphores :
           semaphores'[other] = IF other = sem THEN info ELSE semaphores[other]
      /\ \A pid \in Pids : links'[pid] = IF pid = me THEN links[me] \cup {sem} ELSE links[pid]
  BY <1>1, <1>4, <1>5
<1>7. Typed'
  BY <1>1, <1>3, <1>4, <1>5, <1>6 DEF IInv, Typed
<1>8. Links(sem)' = Links(sem) + 1
  <2>1. Holders(sem)' = Holders(sem) \cup {me} /\ me \notin Holders(sem)
    BY <1>1, <1>5, <1>6 DEF Holders
  <2>2. Cardinality(Holders(sem)') = Cardinality(Holders(sem)) + 1
    BY <2>1, HoldersFinite, FS_AddElement
  <2>3. Links(sem) = Cardinality(Holders(sem)) + leaked[sem] /\ leaked[sem] \in Nat
        /\ Links(sem)' = Cardinality(Holders(sem)') + leaked[sem]
    BY <1>1 DEF Links, Holders, IInv, Typed
  <2> QED BY <2>2, <2>3, HoldersFinite
<1>9. \A other \in DOMAIN semaphores : other # sem => Links(other)' = Links(other)
  <2> SUFFICES ASSUME NEW other \in DOMAIN semaphores, other # sem
               PROVE  Links(other)' = Links(other)
    OBVIOUS
  <2>1. Holders(other)' = Holders(other)
    BY <1>6 DEF Holders
  <2> QED BY <1>1, <2>1 DEF Links, Holders
<1>10. Counted'
  <2>1. ASSUME NEW other \in DOMAIN semaphores
        PROVE  semaphores'[other].linked_processes = Links(other)' /\ Links(other)' <= MAX_LINKS
    <3>1. CASE other = sem
      BY <1>2, <1>3, <1>6, <1>8, <3>1, ConstantFacts
    <3>2. CASE other # sem
      BY <1>6, <1>9, <3>2 DEF IInv, Counted
    <3> QED BY <3>1, <3>2
  <2>2. \A other \in DOMAIN semaphores : semaphores'[other].name = semaphores[other].name
    BY <1>3, <1>6
  <2> QED BY <1>1, <1>6, <2>1, <2>2 DEF IInv, Counted
<1>11. Held'
  BY <1>1, <1>6 DEF IInv, Held
<1> QED BY <1>1, <1>7, <1>10, <1>11 DEF IInv

LEMMA OpenNewKeepsIInv ==
  ASSUME IInv, NEW name \in Names, NEW initial_value \in InitialValues,
         SemOpenNew(name, initial_value)
  PROVE  IInv'
<1> PICK sem \in Semaphores \ DOMAIN semaphores :
       /\ semaphores' = Opened(sem, name, initial_value)
       /\ links' = [links EXCEPT ![Caller] = @ \cup {sem}]
  BY DEF SemOpenNew, SearchNext
<1> DEFINE info == [name |-> name, value |-> initial_value, linked_processes |-> 1,
                    waiting_processes |-> <<>>]
           me == Caller
<1>1. /\ sch' = sch /\ waiting' = waiting /\ leaked' = leaked /\ stray' = stray
      /\ me \in Pids /\ semaphores \in [DOMAIN semaphores -> SemInfo]
      /\ links \in [Pids -> SUBSET Semaphores]
      /\ SearchSemaphore(name) = {}
  BY CallerFacts DEF SemOpenNew, SearchNext, IInv, Typed
<1>2. info \in SemInfo /\ info.linked_processes = 1 /\ info.name = name
  BY SemaphoreAssumption DEF SemInfo
<1>3. semaphores' = [other \in DOMAIN semaphores \cup {sem} |->
                       IF other = sem THEN info ELSE semaphores[other]]
  BY DEF Opened
<1>4. links' = [links EXCEPT ![me] = @ \cup {sem}]
  OBVIOUS
<1> HIDE DEF info, me
<1>5. /\ DOMAIN semaphores' = DOMAIN semaphores \cup {sem}
      /\ semaphores'[sem] = info
      /\ \A other \in DOMAIN semaphores : semaphores'[other] = semaphores[other]
      /\ \A pid \in Pids : links'[pid] = IF pid = me THEN links[me] \cup {sem} ELSE links[pid]
  BY <1>1, <1>3, <1>4
<1>6. Typed'
  <2>1. links' \in [Pids -> SUBSET Semaphores] /\ DOMAIN semaphores' \subseteq Semaphores
    <3>1. sem \in Semaphores /\ DOMAIN semaphores \subseteq Semaphores
      BY DEF IInv, Typed
    <3>2. DOMAIN semaphores' \subseteq Semaphores
      BY <1>5, <3>1
    <3>3. links[me] \cup {sem} \in SUBSET Semaphores
      BY <1>1, <3>1
    <3>4. links' \in [Pids -> SUBSET Semaphores]
      BY <1>1, <1>4, <3>3
    <3> QED BY <3>2, <3>4
  <2>2. \A other \in DOMAIN semaphores' : semaphores'[other] \in SemInfo
    BY <1>1, <1>2, <1>5
  <2>3. semaphores' = [other \in DOMAIN semaphores' |-> semaphores'[other]]
    BY <1>3
  <2>4. semaphores' \in [DOMAIN semaphores' -> SemInfo]
    BY <2>2, <2>3
  <2> QED BY <1>1, <2>1, <2>4 DEF IInv, Typed
<1>7. Links(sem)' = 1
  <2>1. Holders(sem)' = {me}
    BY <1>1, <1>5 DEF Holders, IInv, Held
  <2>2. Cardinality({me}) = 1
    BY FS_Singleton
  <2>3. leaked[sem] = 0 /\ Links(sem)' = Cardinality(Holders(sem)') + leaked[sem]
    BY <1>1 DEF Links, Holders, IInv, Counted
  <2> QED BY <2>1, <2>2, <2>3
<1>8. \A other \in DOMAIN semaphores : Links(other)' = Links(other)
  <2> SUFFICES ASSUME NEW other \in DOMAIN semaphores PROVE Links(other)' = Links(other)
    OBVIOUS
  <2>1. Holders(other)' = Holders(other)
    BY <1>5 DEF Holders
  <2> QED BY <1>1, <2>1 DEF Links, Holders
<1>9. Counted'
  <2>1. ASSUME NEW other \in DOMAIN semaphores'
        PROVE  semaphores'[other].linked_processes = Links(other)' /\ Links(other)' <= MAX_LINKS
    <3>1. CASE other = sem
      BY <1>2, <1>5, <1>7, <3>1, ConstantFacts
    <3>2. CASE other # sem
      BY <1>5, <1>8, <2>1, <3>2 DEF IInv, Counted
    <3> QED BY <3>1, <3>2
  <2>2. \A other \in DOMAIN semaphores : semaphores[other].name # name
    BY <1>1 DEF SearchSemaphore
  <2>3. \A other, another \in DOMAIN semaphores' :
          semaphores'[other].name = semaphores'[another].name => other = another
    BY <1>2, <1>5, <2>2 DEF IInv, Counted
  <2>4. \A other \in Semaphores \ DOMAIN semaphores' : leaked'[other] = 0
    BY <1>1, <1>5 DEF IInv, Counted
  <2> QED BY <2>1, <2>3, <2>4 DEF Counted
<1>10. Held'
  BY <1>1, <1>5 DEF IInv, Held
<1> QED BY <1>1, <1>6, <1>9, <1>10 DEF IInv

\* What sem_close does: the last process to close destroys the semaphore, any
\* other is counted off.
Destroys(sem) ==
  /\ Holders(sem) = {Caller}
  /\ sch' = QueueUnblockAll(sch, semaphores[sem].waiting_processes)
  /\ semaphores' = Restrict(semaphores, DOMAIN semaphores \ {sem})
  /\ leaked' = [leaked EXCEPT ![sem] = 0]

CountsOff(sem) ==
  /\ Links(sem) # 1
  /\ sch' = sch /\ leaked' = leaked
  /\ semaphores' = [semaphores EXCEPT
                      ![sem] = [semaphores[sem] EXCEPT !.linked_processes = (@ - 1) % UINT8]]

LEMMA CloseCases ==
  ASSUME IInv, NEW sem \in Semaphores, SemClose(sem)
  PROVE  /\ Links(sem) \in 1 .. MAX_LINKS /\ semaphores[sem].linked_processes = Links(sem)
         /\ Cardinality(Holders(sem) \ {Caller}) = Cardinality(Holders(sem)) - 1
         /\ Cardinality(Holders(sem)) \in Nat \ {0}
         /\ Destroys(sem) \/ CountsOff(sem)
<1> DEFINE me == Caller
           queue == semaphores[sem].waiting_processes
           k == Closed([sch |-> sch, semaphores |-> semaphores], sem)
<1>1. /\ sem \in DOMAIN semaphores /\ sem \in links[me]
      /\ sch' = k.sch /\ semaphores' = k.semaphores
      /\ leaked' = IF sem \in DOMAIN k.semaphores THEN leaked ELSE [leaked EXCEPT ![sem] = 0]
      /\ me \in Pids
  BY CallerFacts DEF SemClose
<1>2. /\ Links(sem) \in 1 .. MAX_LINKS /\ semaphores[sem].linked_processes = Links(sem)
      /\ Cardinality(Holders(sem) \ {me}) = Cardinality(Holders(sem)) - 1
      /\ Cardinality(Holders(sem)) \in Nat \ {0}
      /\ Links(sem) = 1 => Cardinality(Holders(sem)) = 1
  <2>1. me \in Holders(sem)
    BY <1>1 DEF Holders
  <2>2. Cardinality(Holders(sem) \ {me}) = Cardinality(Holders(sem)) - 1
        /\ Cardinality(Holders(sem) \ {me}) \in Nat
    BY <2>1, HoldersFinite, FS_RemoveElement, FS_CardinalityType
  <2>3. Links(sem) = Cardinality(Holders(sem)) + leaked[sem] /\ leaked[sem] \in Nat
        /\ Links(sem) \in Nat
    BY LinksFacts DEF IInv
  <2>4. semaphores[sem].linked_processes = Links(sem) /\ Links(sem) <= MAX_LINKS
    BY <1>1 DEF IInv, Counted
  <2> QED BY <2>2, <2>3, <2>4, HoldersFinite, ConstantFacts
<1>3. CASE Links(sem) = 1
  <2>1. k = [sch |-> QueueUnblockAll(sch, queue),
             semaphores |-> Restrict(semaphores, DOMAIN semaphores \ {sem})]
    BY <1>1, <1>2, <1>3 DEF Closed, Freed
  <2>2. DOMAIN Restrict(semaphores, DOMAIN semaphores \ {sem}) = DOMAIN semaphores \ {sem}
    BY DEF Restrict
  <2>3. Holders(sem) = {me}
    <3>1. PICK x : Holders(sem) = {x}
      BY <1>2, <1>3, HoldersFinite, FS_Singleton
    <3> QED BY <1>1, <3>1 DEF Holders
  <2> HIDE DEF queue, k
  <2>4. /\ sch' = QueueUnblockAll(sch, queue)
        /\ semaphores' = Restrict(semaphores, DOMAIN semaphores \ {sem})
        /\ leaked' = [leaked EXCEPT ![sem] = 0]
    BY <1>1, <2>1, <2>2
  <2> QED BY <1>2, <2>3, <2>4 DEF Destroys, queue
<1>4. CASE Links(sem) # 1
  <2> DEFINE info == [semaphores[sem] EXCEPT !.linked_processes = (@ - 1) % UINT8]
  <2>1. k = [[sch |-> sch, semaphores |-> semaphores] EXCEPT
               !.semaphores[sem].linked_processes = (@ - 1) % UINT8]
    BY <1>1, <1>2, <1>4 DEF Closed, Freed
  <2>2. k.sch = sch /\ k.semaphores = [semaphores EXCEPT ![sem] = info]
    BY <2>1
  <2>3. sem \in DOMAIN k.semaphores
    BY <1>1, <2>2
  <2> HIDE DEF info, k
  <2>4. sch' = sch /\ leaked' = leaked /\ semaphores' = [semaphores EXCEPT ![sem] = info]
    BY <1>1, <2>2, <2>3
  <2> QED BY <1>2, <1>4, <2>4 DEF CountsOff, info
<1> QED BY <1>3, <1>4

LEMMA CloseKeepsIInv ==
  ASSUME IInv, NEW sem \in Semaphores, SemClose(sem)
  PROVE  IInv'
<1> DEFINE me == Caller
           queue == semaphores[sem].waiting_processes
<1>1. /\ waiting' = waiting /\ stray' = stray
      /\ sem \in DOMAIN semaphores /\ sem \in links[me]
      /\ links' = [links EXCEPT ![me] = @ \ {sem}]
  BY DEF SemClose
<1>2. /\ me \in Pids /\ waiting[me] = NULL
      /\ semaphores \in [DOMAIN semaphores -> SemInfo] /\ DOMAIN semaphores \subseteq Semaphores
      /\ links \in [Pids -> SUBSET Semaphores] /\ leaked \in [Semaphores -> Nat]
      /\ waiting \in [Pids -> Semaphores \cup {NULL}] /\ stray \in BOOLEAN
      /\ SchInv(sch)
  BY CallerFacts DEF SemClose, IInv, Typed
<1>3. /\ Links(sem) \in 1 .. MAX_LINKS /\ semaphores[sem].linked_processes = Links(sem)
      /\ Cardinality(Holders(sem) \ {me}) = Cardinality(Holders(sem)) - 1
      /\ Cardinality(Holders(sem)) \in Nat \ {0}
  BY CloseCases
<1>4. /\ \A pid \in Pids : links'[pid] = IF pid = me THEN links[me] \ {sem} ELSE links[pid]
      /\ links' \in [Pids -> SUBSET Semaphores]
  BY <1>1, <1>2
<1>5. Holders(sem)' = Holders(sem) \ {me}
      /\ \A other \in DOMAIN semaphores : other # sem => Holders(other)' = Holders(other)
  BY <1>1, <1>2, <1>4 DEF Holders
<1>6. CASE Destroys(sem)
  <2>1. /\ sch' = QueueUnblockAll(sch, queue)
        /\ semaphores' = Restrict(semaphores, DOMAIN semaphores \ {sem})
        /\ leaked' = [leaked EXCEPT ![sem] = 0] /\ Holders(sem) = {me}
    BY <1>6 DEF Destroys
  <2>2. /\ DOMAIN semaphores' = DOMAIN semaphores \ {sem}
        /\ semaphores' \in [DOMAIN semaphores' -> SemInfo]
        /\ \A other \in DOMAIN semaphores' : semaphores'[other] = semaphores[other]
    BY <1>2, <2>1 DEF Restrict
  <2>3. queue \in Seq(Int)
    <3>1. queue \in Seq(0 .. 255)
      BY <1>1, <1>2 DEF SemInfo
    <3>2. 0 .. 255 \subseteq Int
      OBVIOUS
    <3> HIDE DEF queue
    <3> QED BY <3>1, <3>2, SeqMonotonic
  <2> HIDE DEF me, queue
  <2>4. SchInv(sch') /\ sch'.rsp = sch.rsp
    BY <1>2, <2>1, <2>3, UnblockAllFacts
  <2>5. Typed'
    <3>1. leaked' \in [Semaphores -> Nat]
      BY <1>2, <2>1
    <3> QED BY <1>1, <1>2, <1>4, <2>2, <3>1 DEF Typed
  <2>6. Counted'
    <3>1. ASSUME NEW other \in DOMAIN semaphores'
          PROVE  semaphores'[other].linked_processes = Links(other)' /\ Links(other)' <= MAX_LINKS
      <4>1. Links(other)' = Links(other)
        <5>1. other # sem /\ other \in DOMAIN semaphores /\ leaked'[other] = leaked[other]
          BY <1>2, <2>1, <2>2, <3>1
        <5> QED BY <1>5, <5>1 DEF Links, Holders
      <4> QED BY <2>2, <3>1, <4>1 DEF IInv, Counted
    <3>2. \A other \in Semaphores \ DOMAIN semaphores' : leaked'[other] = 0
      BY <1>2, <2>1, <2>2 DEF IInv, Counted
    <3>3. \A other, another \in DOMAIN semaphores' :
            semaphores'[other].name = semaphores'[another].name => other = another
      BY <2>2 DEF IInv, Counted
    <3> QED BY <3>1, <3>2, <3>3 DEF Counted
  <2>7. Held'
    <3> SUFFICES ASSUME NEW pid \in Pids
                 PROVE  /\ links'[pid] \subseteq DOMAIN semaphores'
                        /\ waiting'[pid] # NULL =>
                             waiting'[pid] \in links'[pid] /\ IsActive(sch', pid)
      BY DEF Held
    <3>1. links[pid] \subseteq DOMAIN semaphores
          /\ (waiting[pid] # NULL => waiting[pid] \in links[pid] /\ IsActive(sch, pid))
      BY DEF IInv, Held
    <3>2. pid # me => sem \notin links[pid]
      BY <2>1 DEF Holders
    <3> QED BY <1>1, <1>2, <1>4, <2>2, <2>4, <3>1, <3>2 DEF IsActive, me
  <2> QED BY <2>4, <2>5, <2>6, <2>7 DEF IInv
<1>7. CASE CountsOff(sem)
  <2> DEFINE info == [semaphores[sem] EXCEPT !.linked_processes = (@ - 1) % UINT8]
  <2>1. sch' = sch /\ semaphores' = [semaphores EXCEPT ![sem] = info] /\ leaked' = leaked
    BY <1>7 DEF CountsOff
  <2>2. /\ info \in SemInfo /\ info.linked_processes = Links(sem) - 1
        /\ info.name = semaphores[sem].name
    <3>1. (Links(sem) - 1) % UINT8 = Links(sem) - 1 /\ Links(sem) - 1 \in 0 .. UINT8 - 1
      BY <1>3, ConstantFacts
    <3>2. semaphores[sem] \in SemInfo
      BY <1>1, <1>2
    <3> HIDE DEF Links
    <3> QED BY <1>3, <3>1, <3>2 DEF SemInfo
  <2> HIDE DEF info, me
  <2>3. /\ DOMAIN semaphores' = DOMAIN semaphores
        /\ semaphores' \in [DOMAIN semaphores' -> SemInfo]
        /\ \A other \in DOMAIN semaphores :
             semaphores'[other] = IF other = sem THEN info ELSE semaphores[other]
    BY <1>2, <2>1, <2>2
  <2>4. Typed'
    BY <1>1, <1>2, <1>4, <2>1, <2>3 DEF Typed
  <2>5. Links(sem)' = Links(sem) - 1
    <3>1. Links(sem)' = Cardinality(Holders(sem)') + leaked[sem]
      BY <2>1 DEF Links, Holders
    <3>2. Links(sem) = Cardinality(Holders(sem)) + leaked[sem] /\ leaked[sem] \in Nat
      BY LinksFacts DEF IInv
    <3> QED BY <1>3, <1>5, <3>1, <3>2
  <2>6. Counted'
    <3>1. ASSUME NEW other \in DOMAIN semaphores
          PROVE  semaphores'[other].linked_processes = Links(other)' /\ Links(other)' <= MAX_LINKS
      <4>1. CASE other = sem
        BY <1>3, <2>2, <2>3, <2>5, <4>1, ConstantFacts
      <4>2. CASE other # sem
        <5>1. Links(other)' = Links(other)
          BY <1>5, <2>1, <4>2 DEF Links, Holders
        <5> QED BY <2>3, <4>2, <5>1 DEF IInv, Counted
      <4> QED BY <4>1, <4>2
    <3>2. \A other \in DOMAIN semaphores : semaphores'[other].name = semaphores[other].name
      BY <2>2, <2>3
    <3> QED BY <2>1, <2>3, <3>1, <3>2 DEF IInv, Counted
  <2>7. Held'
    BY <1>1, <1>2, <1>4, <2>1, <2>3 DEF IInv, Held, me
  <2> QED BY <1>2, <2>1, <2>4, <2>6, <2>7 DEF IInv
<1> QED BY <1>6, <1>7, CloseCases

----------------------------------------------------------------------------
(* Waiting and posting change a value and a queue *)

\* A semaphore with a new value and queue, and everything else as it was.
LEMMA NewValueKeepsTable ==
  ASSUME IInv, NEW sem \in DOMAIN semaphores, NEW info \in SemInfo,
         info.name = semaphores[sem].name,
         info.linked_processes = semaphores[sem].linked_processes,
         semaphores' = [semaphores EXCEPT ![sem] = info],
         links' = links, leaked' = leaked
  PROVE  /\ DOMAIN semaphores' = DOMAIN semaphores
         /\ semaphores' \in [DOMAIN semaphores' -> SemInfo]
         /\ \A other \in DOMAIN semaphores :
              semaphores'[other] = IF other = sem THEN info ELSE semaphores[other]
         /\ Counted'
<1>1. semaphores \in [DOMAIN semaphores -> SemInfo]
  BY DEF IInv, Typed
<1>2. /\ DOMAIN semaphores' = DOMAIN semaphores
      /\ semaphores' \in [DOMAIN semaphores' -> SemInfo]
      /\ \A other \in DOMAIN semaphores :
           semaphores'[other] = IF other = sem THEN info ELSE semaphores[other]
  BY <1>1
<1>3. \A other : Links(other)' = Links(other)
  BY DEF Links
<1>4. \A other \in DOMAIN semaphores :
        /\ semaphores'[other].name = semaphores[other].name
        /\ semaphores'[other].linked_processes = semaphores[other].linked_processes
  BY <1>2
<1>5. Counted'
  BY <1>2, <1>3, <1>4 DEF IInv, Counted
<1> QED BY <1>2, <1>5

LEMMA TakeKeepsIInv ==
  ASSUME IInv, NEW sem, Take(sem)
  PROVE  IInv'
<1> DEFINE info == [semaphores[sem] EXCEPT !.value = @ - 1]
<1>1. /\ sem \in DOMAIN semaphores /\ semaphores[sem].value # 0
      /\ semaphores' = [semaphores EXCEPT ![sem] = info]
      /\ sch' = sch /\ links' = links /\ leaked' = leaked /\ stray' = stray
      /\ waiting' = IF sch.current \in Pids THEN [waiting EXCEPT ![sch.current] = NULL] ELSE waiting
  BY DEF Take
<1>2. info \in SemInfo /\ info.name = semaphores[sem].name
      /\ info.linked_processes = semaphores[sem].linked_processes
  <2>1. semaphores[sem] \in SemInfo
    BY <1>1 DEF IInv, Typed
  <2>2. semaphores[sem].value \in 0 .. UINT8 - 1 /\ semaphores[sem].value - 1 \in 0 .. UINT8 - 1
    BY <1>1, <2>1, ConstantFacts DEF SemInfo
  <2> QED BY <2>1, <2>2 DEF SemInfo
<1> HIDE DEF info
<1>3. /\ DOMAIN semaphores' = DOMAIN semaphores
      /\ semaphores' \in [DOMAIN semaphores' -> SemInfo] /\ Counted'
  BY <1>1, <1>2, NewValueKeepsTable
<1>4. waiting \in [Pids -> Semaphores \cup {NULL}]
  BY DEF IInv, Typed
<1>5. /\ waiting' \in [Pids -> Semaphores \cup {NULL}]
      /\ \A pid \in Pids : waiting'[pid] # NULL => waiting'[pid] = waiting[pid]
  BY <1>1, <1>4
<1>6. Typed'
  BY <1>1, <1>3, <1>5 DEF IInv, Typed
<1>7. Held'
  BY <1>1, <1>3, <1>5 DEF IInv, Held
<1> QED BY <1>1, <1>3, <1>6, <1>7 DEF IInv

\* Who may call sem_wait: a process that holds the semaphore, or the code of one
\* that was killed.
MayWait(sem) ==
  /\ sch.current \in Pids \cup {KILLED_PROC_PID}
  /\ sch.current \in Pids => sem \in links[sch.current]

LEMMA QueuedPidFacts ==
  ASSUME NEW current \in Pids \cup {KILLED_PROC_PID}
  PROVE  /\ (current + 256) % 256 \in 0 .. 255
         /\ current \in Pids => (current + 256) % 256 = current
         /\ current \notin Pids => (current + 256) % 256 \notin Pids
<1>1. CASE current \in Pids
  BY <1>1, ConstantFacts
<1>2. CASE current = KILLED_PROC_PID
  <2>1. (current + 256) % 256 = 254
    BY <1>2 DEF KILLED_PROC_PID
  <2>2. 254 \notin Pids /\ current \notin Pids
    BY <1>2, ConstantFacts
  <2> QED BY <2>1, <2>2
<1> QED BY <1>1, <1>2

LEMMA SleepKeepsIInv ==
  ASSUME IInv, NEW sem, MayWait(sem), Sleep(sem)
  PROVE  IInv'
<1> DEFINE pid == (sch.current + 256) % 256
           info == [semaphores[sem] EXCEPT !.waiting_processes = Append(@, pid)]
<1>1. /\ sem \in DOMAIN semaphores
      /\ links' = links /\ leaked' = leaked
      /\ waiting' = IF pid \in Pids THEN [waiting EXCEPT ![pid] = sem] ELSE waiting
      /\ SchYield(SchBlock(sch, pid), sch')
      /\ \/ semaphores' = [semaphores EXCEPT ![sem] = info] /\ stray' = (stray \/ pid \notin Pids)
         \/ semaphores' = semaphores /\ stray' = TRUE
  BY DEF Sleep
<1>2. pid \in 0 .. 255 /\ pid \in Int
      /\ (pid \in Pids => pid = sch.current /\ sem \in links[pid] /\ IsActive(sch, pid))
  BY QueuedPidFacts DEF MayWait, IInv, SchInv, ContextsKept, IsActive
<1>3. info \in SemInfo /\ info.name = semaphores[sem].name
      /\ info.linked_processes = semaphores[sem].linked_processes
  <2>1. semaphores[sem] \in SemInfo
    BY <1>1 DEF IInv, Typed
  <2>2. Append(semaphores[sem].waiting_processes, pid) \in Seq(0 .. 255)
    BY <1>2, <2>1 DEF SemInfo
  <2> HIDE DEF pid
  <2> QED BY <2>1, <2>2 DEF SemInfo
<1> HIDE DEF pid, info
<1>4. /\ DOMAIN semaphores' = DOMAIN semaphores
      /\ semaphores' \in [DOMAIN semaphores' -> SemInfo] /\ Counted'
  <2>1. CASE semaphores' = [semaphores EXCEPT ![sem] = info]
    BY <1>1, <1>3, <2>1, NewValueKeepsTable
  <2>2. CASE semaphores' = semaphores
    <3>1. \A other : Links(other)' = Links(other)
      BY <1>1 DEF Links
    <3> QED BY <1>1, <2>2, <3>1 DEF IInv, Typed, Counted
  <2> QED BY <1>1, <2>1, <2>2
<1>5. SchInv(sch') /\ sch'.rsp = sch.rsp
  <2> DEFINE blocked == SchBlock(sch, pid)
  <2>1. SchInv(blocked) /\ blocked.rsp = sch.rsp
    BY <1>2, BlockFacts DEF IInv
  <2>2. SchYield(blocked, sch')
    BY <1>1
  <2> HIDE DEF blocked
  <2> QED BY <2>1, <2>2, YieldFacts
<1>6. /\ waiting \in [Pids -> Semaphores \cup {NULL}] /\ sem \in Semaphores
      /\ stray' \in BOOLEAN
  BY <1>1 DEF IInv, Typed
<1>7. /\ waiting' \in [Pids -> Semaphores \cup {NULL}]
      /\ \A q \in Pids : waiting'[q] = IF q = pid THEN sem ELSE waiting[q]
  BY <1>1, <1>6
<1>8. Typed'
  BY <1>1, <1>4, <1>6, <1>7 DEF IInv, Typed
<1>9. Held'
  BY <1>1, <1>2, <1>4, <1>5, <1>7 DEF IInv, Held, IsActive
<1> QED BY <1>4, <1>5, <1>8, <1>9 DEF IInv

LEMMA WaitKeepsIInv ==
  ASSUME IInv, NEW sem, SemWait(sem) \/ (ContinueWait /\ sem = waiting[sch.current])
  PROVE  IInv'
<1>1. MayWait(sem)
  <2>1. CASE SemWait(sem)
    BY <2>1, CallerFacts DEF SemWait, MayWait
  <2>2. CASE ContinueWait /\ sem = waiting[sch.current]
    BY <2>2 DEF ContinueWait, Resuming, MayWait, IInv, Held
  <2> QED BY <2>1, <2>2
<1>2. Take(sem) \/ Sleep(sem)
  BY DEF SemWait, ContinueWait
<1> QED BY <1>1, <1>2, TakeKeepsIInv, SleepKeepsIInv

LEMMA ReleaseKeepsIInv ==
  ASSUME IInv, NEW sem, Release(sem)
  PROVE  IInv'
<1> DEFINE queue == semaphores[sem].waiting_processes
           info == [semaphores[sem] EXCEPT !.value = (@ + 1) % UINT8,
                                           !.waiting_processes = IF @ = <<>> THEN @ ELSE Tail(@)]
<1>1. /\ sem \in DOMAIN semaphores
      /\ semaphores' = [semaphores EXCEPT ![sem] = info]
      /\ sch' = IF queue = <<>> THEN sch ELSE SchUnblock(sch, Head(queue))
      /\ waiting' = waiting /\ links' = links /\ leaked' = leaked /\ stray' = stray
  <2>1. semaphores[sem] \in SemInfo /\ sem \in DOMAIN semaphores
    BY DEF Release, IInv, Typed
  <2> QED BY <2>1 DEF Release, SemInfo
<1>2. semaphores[sem] \in SemInfo /\ queue \in Seq(0 .. 255)
      /\ semaphores[sem].value \in 0 .. UINT8 - 1
  BY <1>1 DEF IInv, Typed, SemInfo
<1>3. info \in SemInfo /\ info.name = semaphores[sem].name
      /\ info.linked_processes = semaphores[sem].linked_processes
  <2>1. (semaphores[sem].value + 1) % UINT8 \in 0 .. UINT8 - 1
    BY <1>2, ConstantFacts
  <2>2. (IF queue = <<>> THEN queue ELSE Tail(queue)) \in Seq(0 .. 255)
    BY <1>2
  <2> QED BY <1>2, <2>1, <2>2 DEF SemInfo
<1>4. queue # <<>> => Head(queue) \in Int
  <2> HIDE DEF queue
  <2> SUFFICES ASSUME queue # <<>> PROVE Head(queue) \in Int
    OBVIOUS
  <2>1. queue \in Seq(0 .. 255)
    BY <1>2
  <2>2. Head(queue) \in 0 .. 255
    BY <2>1, HeadTailProperties
  <2>3. 0 .. 255 \subseteq Int
    OBVIOUS
  <2> QED BY <2>2, <2>3, Zenon
<1> HIDE DEF queue, info
<1>5. /\ DOMAIN semaphores' = DOMAIN semaphores
      /\ semaphores' \in [DOMAIN semaphores' -> SemInfo] /\ Counted'
  BY <1>1, <1>3, NewValueKeepsTable
<1>6. SchInv(sch') /\ sch'.rsp = sch.rsp
  BY <1>1, <1>4, UnblockFacts DEF IInv
<1>7. Typed'
  BY <1>1, <1>5 DEF IInv, Typed
<1>8. Held'
  BY <1>1, <1>5, <1>6 DEF IInv, Held, IsActive
<1> QED BY <1>5, <1>6, <1>7, <1>8 DEF IInv

----------------------------------------------------------------------------
(* Processes come and go *)

\* A step of the scheduler that ends no process inside sem_wait.
LEMMA SchedulerStepKeepsIInv ==
  ASSUME IInv, SchInv(sch'), UNCHANGED <<semaphores, waiting, links, leaked>>,
         stray' \in BOOLEAN,
         \A pid \in Pids : waiting[pid] # NULL /\ IsActive(sch, pid) => IsActive(sch', pid)
  PROVE  IInv'
<1>1. Typed'
  BY DEF IInv, Typed
<1>2. \A sem : Links(sem)' = Links(sem)
  BY DEF Links
<1>3. Counted'
  BY <1>2 DEF IInv, Counted
<1>4. Held'
  BY DEF IInv, Held
<1> QED BY <1>1, <1>3, <1>4 DEF IInv

LEMMA YieldKeepsIInv ==
  ASSUME IInv, Yield \/ Tick
  PROVE  IInv'
<1>1. /\ SchYield(sch, sch') \/ SchSwitch(sch, sch')
      /\ UNCHANGED <<semaphores, waiting, links, leaked>> /\ stray' = stray
  BY DEF Yield, Tick, semVars
<1>2. SchInv(sch') /\ sch'.rsp = sch.rsp
  BY <1>1, YieldFacts, SwitchFacts DEF IInv
<1>3. stray' \in BOOLEAN
  BY <1>1 DEF IInv, Typed
<1>4. \A pid \in Pids : IsActive(sch, pid) => IsActive(sch', pid)
  BY <1>2 DEF IsActive
<1> QED BY <1>1, <1>2, <1>3, <1>4, SchedulerStepKeepsIInv

LEMMA ExitKeepsIInv ==
  ASSUME IInv, NEW status \in ExitStatuses, Exit(status)
  PROVE  IInv'
<1> DEFINE killed == SchOnProcessKilled(sch, sch.current, status)
<1>1. /\ sch.current \in Pids /\ SchYield(killed, sch') /\ waiting[sch.current] = NULL
      /\ UNCHANGED <<semaphores, waiting, links, leaked>> /\ stray' = stray
  BY CallerFacts DEF Exit, semVars
<1>2. SchInv(killed) /\ killed.rsp = [sch.rsp EXCEPT ![sch.current] = NULL]
  BY <1>1, KilledFacts DEF IInv
<1> HIDE DEF killed
<1>3. SchInv(sch') /\ sch'.rsp = [sch.rsp EXCEPT ![sch.current] = NULL]
  BY <1>1, <1>2, YieldFacts
<1>4. stray' \in BOOLEAN /\ sch.rsp \in [Pids -> Pids \cup {NULL}]
  BY <1>1 DEF IInv, Typed, SchInv, SchStates
<1>5. \A pid \in Pids : waiting[pid] # NULL /\ IsActive(sch, pid) => IsActive(sch', pid)
  BY <1>1, <1>3, <1>4 DEF IsActive
<1> QED BY <1>1, <1>3, <1>4, <1>5, SchedulerStepKeepsIInv

LEMMA KillKeepsIInv ==
  ASSUME IInv, NEW pid \in Pids, NEW status \in ExitStatuses, Kill(pid, status)
  PROVE  IInv'
<1>1. /\ sch' = SchOnProcessKilled(sch, pid, status)
      /\ waiting' = [waiting EXCEPT ![pid] = NULL]
      /\ stray' = (stray \/ waiting[pid] # NULL)
      /\ UNCHANGED <<semaphores, links, leaked>>
  BY DEF Kill, DiesInSemWait
<1>2. SchInv(sch') /\ sch'.rsp = [sch.rsp EXCEPT ![pid] = NULL]
  BY <1>1, KilledFacts DEF IInv
<1>3. /\ waiting \in [Pids -> Semaphores \cup {NULL}] /\ stray \in BOOLEAN
      /\ sch.rsp \in [Pids -> Pids \cup {NULL}]
  BY DEF IInv, Typed, SchInv, SchStates
<1>4. Typed'
  BY <1>1, <1>3 DEF IInv, Typed
<1>5. \A sem : Links(sem)' = Links(sem)
  BY <1>1 DEF Links
<1>6. Counted'
  BY <1>1, <1>5 DEF IInv, Counted
<1>7. Held'
  <2> SUFFICES ASSUME NEW q \in Pids
               PROVE  /\ links'[q] \subseteq DOMAIN semaphores'
                      /\ waiting'[q] # NULL => waiting'[q] \in links'[q] /\ IsActive(sch', q)
    BY DEF Held
  <2>1. waiting'[q] # NULL => q # pid /\ waiting'[q] = waiting[q]
    BY <1>1, <1>3
  <2>2. IsActive(sch, q) /\ q # pid => IsActive(sch', q)
    BY <1>2, <1>3 DEF IsActive
  <2> QED BY <1>1, <2>1, <2>2 DEF IInv, Held
<1> QED BY <1>2, <1>4, <1>6, <1>7 DEF IInv

\* The links of a dead process pass to leaked when its slot is taken.
LEMMA CreateKeepsIInv ==
  ASSUME IInv, NEW pid \in Pids, Create(pid)
  PROVE  IInv'
<1>1. /\ sch.current # KILLED_PROC_PID /\ sch.rsp[pid] = NULL
      /\ sch' = SchOnProcessCreate(sch, pid, DEFAULT_PRIORITY)
      /\ leaked' = [sem \in Semaphores |-> leaked[sem] + (IF sem \in links[pid] THEN 1 ELSE 0)]
      /\ links' = [links EXCEPT ![pid] = {}]
      /\ UNCHANGED <<semaphores, waiting, stray>>
  BY DEF Create, Free
<1>2. SchInv(sch') /\ sch'.rsp = [sch.rsp EXCEPT ![pid] = pid]
  <2>1. DEFAULT_PRIORITY \in Int
    BY SchedulerAssumption
  <2> QED BY <1>1, <2>1, CreateFacts DEF IInv
<1>3. /\ links \in [Pids -> SUBSET Semaphores] /\ leaked \in [Semaphores -> Nat]
      /\ sch.rsp \in [Pids -> Pids \cup {NULL}]
  BY DEF IInv, Typed, SchInv, SchStates
<1>4. Typed'
  BY <1>1, <1>3 DEF IInv, Typed
<1>5. /\ \A q \in Pids : links'[q] = IF q = pid THEN {} ELSE links[q]
      /\ links[pid] \subseteq DOMAIN semaphores
  BY <1>1, <1>3 DEF IInv, Held
<1>6. ASSUME NEW sem \in Semaphores
      PROVE  Links(sem)' = Links(sem)
  <2>1. Links(sem)' = Cardinality(Holders(sem)') + leaked'[sem]
        /\ Links(sem) = Cardinality(Holders(sem)) + leaked[sem] /\ leaked[sem] \in Nat
    BY <1>3 DEF Links, Holders
  <2>2. leaked'[sem] = leaked[sem] + (IF sem \in links[pid] THEN 1 ELSE 0)
    BY <1>1
  <2>3. Holders(sem)' = Holders(sem) \ {pid} /\ (pid \in Holders(sem) <=> sem \in links[pid])
    BY <1>5 DEF Holders
  <2>4. Cardinality(Holders(sem)')
          = IF sem \in links[pid] THEN Cardinality(Holders(sem)) - 1 ELSE Cardinality(Holders(sem))
    BY <2>3, HoldersFinite, FS_RemoveElement
  <2> QED BY <2>1, <2>2, <2>4, HoldersFinite
<1>7. Counted'
  <2>1. \A sem \in Semaphores \ DOMAIN semaphores : leaked'[sem] = 0
    <3>1. \A sem \in Semaphores \ DOMAIN semaphores : sem \notin links[pid] /\ leaked[sem] = 0
      BY <1>5 DEF IInv, Counted
    <3> QED BY <1>1, <3>1
  <2>2. \A sem \in DOMAIN semaphores : Links(sem)' = Links(sem)
    BY <1>6 DEF IInv, Typed
  <2> QED BY <1>1, <2>1, <2>2 DEF IInv, Counted
<1>8. Held'
  <2>1. ~IsActive(sch, pid) /\ waiting[pid] = NULL
    BY <1>1 DEF IsActive, IInv, Held
  <2>2. \A q \in Pids : IsActive(sch, q) => IsActive(sch', q)
    BY <1>2, <1>3, ConstantFacts DEF IsActive
  <2> QED BY <1>1, <1>5, <2>1, <2>2 DEF IInv, Held
<1> QED BY <1>2, <1>4, <1>7, <1>8 DEF IInv

LEMMA NextKeepsIInv == IInv /\ [Next]_vars => IInv'
<1> SUFFICES ASSUME IInv, [Next]_vars PROVE IInv'
  OBVIOUS
<1>1. ASSUME NEW name \in Names, NEW initial_value \in InitialValues, SemOpen(name, initial_value)
      PROVE  IInv'
  BY <1>1, OpenExistingKeepsIInv, OpenNewKeepsIInv DEF SemOpen
<1>2. ASSUME NEW sem \in Semaphores, SemClose(sem)
      PROVE  IInv'
  BY <1>2, CloseKeepsIInv
<1>3. ASSUME NEW sem \in Semaphores, SemWait(sem)
      PROVE  IInv'
  BY <1>3, WaitKeepsIInv
<1>4. CASE ContinueWait
  BY <1>4, WaitKeepsIInv
<1>5. ASSUME NEW sem \in Semaphores, SemPost(sem)
      PROVE  IInv'
  BY <1>5, ReleaseKeepsIInv DEF SemPost
<1>6. ASSUME NEW pid \in Pids, Create(pid)
      PROVE  IInv'
  BY <1>6, CreateKeepsIInv
<1>7. ASSUME NEW pid \in Pids, NEW status \in ExitStatuses, Kill(pid, status)
      PROVE  IInv'
  BY <1>7, KillKeepsIInv
<1>8. ASSUME NEW status \in ExitStatuses, Exit(status)
      PROVE  IInv'
  BY <1>8, ExitKeepsIInv
<1>9. CASE Yield \/ Tick
  BY <1>9, YieldKeepsIInv
<1>10. CASE UNCHANGED vars
  <2>1. /\ sch' = sch /\ semaphores' = semaphores /\ waiting' = waiting
        /\ links' = links /\ leaked' = leaked /\ stray' = stray
    BY <1>10 DEF vars, semVars
  <2> QED BY <2>1, SchedulerStepKeepsIInv DEF IInv, Typed
<1> QED
  BY <1>1, <1>2, <1>3, <1>4, <1>5, <1>6, <1>7, <1>8, <1>9, <1>10 DEF Next

----------------------------------------------------------------------------

(* The table and what processes hold of it keep to their types: no counter of a
   semaphore leaves its byte. *)
THEOREM SemaphoreTypeOK == Spec => []TypeOK
<1>1. IInv => TypeOK
  <2> SUFFICES ASSUME IInv PROVE TypeOK
    OBVIOUS
  <2>1. Range(semaphores) \subseteq SemInfo
    BY DEF IInv, Typed, Range
  <2>2. ASSUME NEW sem \in Semaphores
        PROVE  leaked[sem] \in 0 .. MAX_LINKS
    <3>1. CASE sem \in DOMAIN semaphores
      <4>1. Links(sem) <= MAX_LINKS
        BY <3>1 DEF IInv, Counted
      <4> QED BY <4>1, LinksFacts, HoldersFinite, ConstantFacts DEF IInv
    <3>2. CASE sem \notin DOMAIN semaphores
      BY <3>2, ConstantFacts DEF IInv, Counted
    <3> QED BY <3>1, <3>2
  <2> QED BY <2>1, <2>2 DEF IInv, Typed, SchInv, TypeOK
<1> QED BY InitEstablishesIInv, NextKeepsIInv, <1>1, PTL DEF Spec

(* linked_processes is the number of opens that were not closed, those of dead
   processes too, and no two semaphores share a name. *)
THEOREM SemaphoreLinksCounted == Spec => []LinksCounted
<1>1. IInv => LinksCounted
  <2> SUFFICES ASSUME IInv, NEW sem \in DOMAIN semaphores
               PROVE  /\ semaphores[sem].linked_processes = Links(sem)
                      /\ SearchSemaphore(semaphores[sem].name) = {sem}
    BY DEF LinksCounted
  <2> QED BY DEF IInv, Counted, SearchSemaphore
<1> QED BY InitEstablishesIInv, NextKeepsIInv, <1>1, PTL DEF Spec

(* A semaphore somebody holds, or sleeps in, is not destroyed. *)
THEOREM SemaphoreHeldSemaphoreExists == Spec => []HeldSemaphoreExists
<1>1. IInv => HeldSemaphoreExists
  BY DEF IInv, Held, HeldSemaphoreExists
<1> QED BY InitEstablishesIInv, NextKeepsIInv, <1>1, PTL DEF Spec

----------------------------------------------------------------------------
(* Nobody sleeps on *)

\* The processes inside sem_wait of sem that are not asleep: Awake(sem), said
\* with what the lemmas on the scheduler speak of.
Awakened(sem) == {pid \in Pids : waiting[pid] = sem /\ ~Asleep(sch, pid)}

\* While nobody went astray, the queue of a semaphore is exactly who sleeps in it.
QueuesAreSleepers ==
  /\ sch.current \in Pids => ~Asleep(sch, sch.current)
  /\ \A pid \in Pids : Asleep(sch, pid) =>
       /\ waiting[pid] \in DOMAIN semaphores
       /\ pid \in Range(semaphores[waiting[pid]].waiting_processes)
  /\ \A sem \in DOMAIN semaphores :
       /\ IsInjective(semaphores[sem].waiting_processes)
       /\ \A pid \in Range(semaphores[sem].waiting_processes) :
            pid \in Pids /\ waiting[pid] = sem /\ Asleep(sch, pid)

ValueForTheAwake ==
  \A sem \in DOMAIN semaphores :
    semaphores[sem].waiting_processes # <<>> =>
      semaphores[sem].value <= Cardinality(Awakened(sem))

WakeInv == ~stray => QueuesAreSleepers /\ ValueForTheAwake

LEMMA AwakenedFinite ==
  ASSUME NEW sem
  PROVE  IsFiniteSet(Awakened(sem)) /\ Cardinality(Awakened(sem)) \in Nat
<1>1. Awakened(sem) \in SUBSET Pids
  BY DEF Awakened
<1> QED BY <1>1, ConstantFacts, FS_Subset, FS_CardinalityType

LEMMA AwakeIsAwakened ==
  ASSUME IInv, NEW sem \in Semaphores
  PROVE  Awake(sem) = Awakened(sem)
<1>1. \A pid \in Pids : waiting[pid] = sem => IsActive(sch, pid)
  BY ConstantFacts DEF IInv, Held
<1> QED BY <1>1 DEF Awake, Awakened, Asleep

\* A step that wakes nobody, puts nobody to sleep and leaves the queues that
\* somebody is in alone.
LEMMA FrameKeepsWakeInv ==
  ASSUME QueuesAreSleepers, ValueForTheAwake, waiting' = waiting,
         \A pid \in Pids : Asleep(sch', pid) <=> Asleep(sch, pid),
         sch'.current \in Pids => ~Asleep(sch', sch'.current),
         \A sem \in DOMAIN semaphores :
           (\E pid \in Pids : waiting[pid] = sem) => sem \in DOMAIN semaphores',
         \A sem \in DOMAIN semaphores' :
           IF sem \in DOMAIN semaphores
           THEN /\ semaphores'[sem].value = semaphores[sem].value
                /\ semaphores'[sem].waiting_processes = semaphores[sem].waiting_processes
           ELSE semaphores'[sem].waiting_processes = <<>>
  PROVE  QueuesAreSleepers' /\ ValueForTheAwake'
<1>1. Range(<<>>) = {} /\ IsInjective(<<>>)
  BY DEF Range, IsInjective
<1>2. QueuesAreSleepers'
  <2>1. ASSUME NEW pid \in Pids, Asleep(sch', pid)
        PROVE  /\ waiting'[pid] \in DOMAIN semaphores'
               /\ pid \in Range(semaphores'[waiting'[pid]].waiting_processes)
    BY <2>1 DEF QueuesAreSleepers
  <2>2. ASSUME NEW sem \in DOMAIN semaphores'
        PROVE  /\ IsInjective(semaphores'[sem].waiting_processes)
               /\ \A pid \in Range(semaphores'[sem].waiting_processes) :
                    pid \in Pids /\ waiting'[pid] = sem /\ Asleep(sch', pid)
    <3>1. CASE sem \in DOMAIN semaphores
      BY <3>1 DEF QueuesAreSleepers
    <3>2. CASE sem \notin DOMAIN semaphores
      BY <1>1, <3>2
    <3> QED BY <3>1, <3>2
  <2> QED BY <2>1, <2>2 DEF QueuesAreSleepers
<1>3. \A sem : Awakened(sem)' = Awakened(sem)
  BY DEF Awakened
<1>4. ValueForTheAwake'
  BY <1>3 DEF ValueForTheAwake
<1> QED BY <1>2, <1>4

LEMMA OpenKeepsWakeInv ==
  ASSUME IInv, WakeInv, NEW name, NEW initial_value, SemOpen(name, initial_value)
  PROVE  WakeInv'
<1> SUFFICES ASSUME ~stray PROVE QueuesAreSleepers' /\ ValueForTheAwake'
  BY DEF WakeInv, SemOpen, SemOpenExisting, SemOpenNew, SearchNext
<1>1. /\ QueuesAreSleepers /\ ValueForTheAwake /\ sch' = sch /\ waiting' = waiting
      /\ semaphores \in [DOMAIN semaphores -> SemInfo]
  BY DEF WakeInv, SemOpen, SemOpenExisting, SemOpenNew, SearchNext, IInv, Typed
<1>2. ASSUME NEW sem \in DOMAIN semaphores,
             semaphores' = [semaphores EXCEPT ![sem].linked_processes = (@ + 1) % UINT8]
      PROVE  /\ DOMAIN semaphores' = DOMAIN semaphores
             /\ \A other \in DOMAIN semaphores :
                  /\ semaphores'[other].value = semaphores[other].value
                  /\ semaphores'[other].waiting_processes = semaphores[other].waiting_processes
  <2>1. semaphores[sem] \in SemInfo
    BY <1>1, <1>2
  <2> QED BY <1>1, <1>2, <2>1 DEF SemInfo
<1>3. ASSUME NEW sem, sem \notin DOMAIN semaphores, semaphores' = Opened(sem, name, initial_value)
      PROVE  /\ DOMAIN semaphores' = DOMAIN semaphores \cup {sem}
             /\ semaphores'[sem].waiting_processes = <<>>
             /\ \A other \in DOMAIN semaphores : semaphores'[other] = semaphores[other]
  BY <1>3 DEF Opened
<1>4. /\ DOMAIN semaphores \subseteq DOMAIN semaphores'
      /\ \A sem \in DOMAIN semaphores' :
           IF sem \in DOMAIN semaphores
           THEN /\ semaphores'[sem].value = semaphores[sem].value
                /\ semaphores'[sem].waiting_processes = semaphores[sem].waiting_processes
           ELSE semaphores'[sem].waiting_processes = <<>>
  <2>1. CASE SemOpenExisting(name)
    <3> PICK sem \in DOMAIN semaphores :
          semaphores' = [semaphores EXCEPT ![sem].linked_processes = (@ + 1) % UINT8]
      BY <2>1 DEF SemOpenExisting, SearchSemaphore
    <3> QED BY <1>2
  <2>2. CASE SemOpenNew(name, initial_value)
    <3> PICK sem \in Semaphores \ DOMAIN semaphores :
          semaphores' = Opened(sem, name, initial_value)
      BY <2>2 DEF SemOpenNew, SearchNext
    <3> QED BY <1>3
  <2> QED BY <2>1, <2>2 DEF SemOpen
<1>5. sch'.current \in Pids => ~Asleep(sch', sch'.current)
  BY <1>1 DEF QueuesAreSleepers
<1> QED BY <1>1, <1>4, <1>5, FrameKeepsWakeInv

LEMMA CloseKeepsWakeInv ==
  ASSUME IInv, WakeInv, NEW sem \in Semaphores, SemClose(sem)
  PROVE  WakeInv'
<1> SUFFICES ASSUME ~stray PROVE QueuesAreSleepers' /\ ValueForTheAwake'
  BY DEF WakeInv, SemClose
<1> DEFINE queue == semaphores[sem].waiting_processes
<1>1. /\ QueuesAreSleepers /\ ValueForTheAwake /\ waiting' = waiting
      /\ sem \in DOMAIN semaphores /\ semaphores \in [DOMAIN semaphores -> SemInfo]
      /\ SchInv(sch) /\ Caller \in Pids /\ waiting[Caller] = NULL /\ sem # NULL
  BY CallerFacts, ConstantFacts DEF WakeInv, SemClose, IInv, Typed
<1>2. semaphores[sem] \in SemInfo /\ queue \in Seq(0 .. 255)
  BY <1>1 DEF SemInfo
<1>3. CASE Destroys(sem)
  <2>1. \A pid \in Pids : waiting[pid] # sem
    <3>1. \A pid \in Pids : waiting[pid] = sem => pid \in Holders(sem)
      BY <1>1 DEF IInv, Held, Holders
    <3> QED BY <1>1, <1>3, <3>1 DEF Destroys
  <2>2. Range(queue) = {}
    BY <1>1, <2>1 DEF QueuesAreSleepers
  <2>3. /\ sch' = QueueUnblockAll(sch, queue)
        /\ DOMAIN semaphores' = DOMAIN semaphores \ {sem}
        /\ \A other \in DOMAIN semaphores' : semaphores'[other] = semaphores[other]
    BY <1>3 DEF Destroys, Restrict
  <2>4. queue \in Seq(Int)
    <3>1. 0 .. 255 \subseteq Int
      OBVIOUS
    <3> HIDE DEF queue
    <3> QED BY <1>2, <3>1, SeqMonotonic
  <2> HIDE DEF queue
  <2>5. sch'.current = sch.current
        /\ \A pid \in Pids : Asleep(sch', pid) <=> Asleep(sch, pid)
    BY <1>1, <2>2, <2>3, <2>4, UnblockAllFacts
  <2>6. sch'.current \in Pids => ~Asleep(sch', sch'.current)
    BY <1>1, <2>5 DEF QueuesAreSleepers
  <2> QED BY <1>1, <2>1, <2>3, <2>5, <2>6, FrameKeepsWakeInv
<1>4. CASE CountsOff(sem)
  <2>1. /\ sch' = sch /\ DOMAIN semaphores' = DOMAIN semaphores
        /\ \A other \in DOMAIN semaphores :
             /\ semaphores'[other].value = semaphores[other].value
             /\ semaphores'[other].waiting_processes = semaphores[other].waiting_processes
    BY <1>1, <1>2, <1>4 DEF CountsOff, SemInfo
  <2>2. sch'.current \in Pids => ~Asleep(sch', sch'.current)
    BY <1>1, <2>1 DEF QueuesAreSleepers
  <2> QED BY <1>1, <2>1, <2>2, FrameKeepsWakeInv
<1> QED BY <1>3, <1>4, CloseCases

\* Who takes a value is, or was not yet, among those it is there for.
LEMMA TakeKeepsWakeInv ==
  ASSUME IInv, WakeInv, NEW sem, Take(sem),
         sch.current \in Pids => waiting[sch.current] \in {NULL, sem}
  PROVE  WakeInv'
<1> SUFFICES ASSUME ~stray PROVE QueuesAreSleepers' /\ ValueForTheAwake'
  BY DEF WakeInv, Take
<1> DEFINE me == sch.current
<1>1. /\ QueuesAreSleepers /\ ValueForTheAwake /\ sch' = sch
      /\ sem \in DOMAIN semaphores /\ semaphores \in [DOMAIN semaphores -> SemInfo]
      /\ semaphores' = [semaphores EXCEPT ![sem].value = @ - 1]
      /\ waiting' = IF me \in Pids THEN [waiting EXCEPT ![me] = NULL] ELSE waiting
      /\ waiting \in [Pids -> Semaphores \cup {NULL}]
      /\ DOMAIN semaphores \subseteq Semaphores /\ NULL \notin DOMAIN semaphores
  BY ConstantFacts DEF WakeInv, Take, IInv, Typed
<1>2. /\ DOMAIN semaphores' = DOMAIN semaphores
      /\ semaphores'[sem].value = semaphores[sem].value - 1
      /\ \A other \in DOMAIN semaphores :
           /\ other # sem => semaphores'[other].value = semaphores[other].value
           /\ semaphores'[other].waiting_processes = semaphores[other].waiting_processes
      /\ semaphores[sem].value \in Int
  <2>1. semaphores[sem] \in SemInfo
    BY <1>1
  <2> QED BY <1>1, <2>1 DEF SemInfo
<1>3. \A pid \in Pids : waiting'[pid] = IF pid = me THEN NULL ELSE waiting[pid]
  BY <1>1
<1>4. me \in Pids => ~Asleep(sch, me)
  BY <1>1 DEF QueuesAreSleepers
<1> HIDE DEF me
<1>5. QueuesAreSleepers'
  <2>1. ASSUME NEW pid \in Pids, Asleep(sch, pid)
        PROVE  /\ waiting'[pid] \in DOMAIN semaphores'
               /\ pid \in Range(semaphores'[waiting'[pid]].waiting_processes)
    BY <1>1, <1>2, <1>3, <1>4, <2>1 DEF QueuesAreSleepers
  <2>2. ASSUME NEW other \in DOMAIN semaphores
        PROVE  /\ IsInjective(semaphores'[other].waiting_processes)
               /\ \A pid \in Range(semaphores'[other].waiting_processes) :
                    pid \in Pids /\ waiting'[pid] = other /\ Asleep(sch, pid)
    BY <1>1, <1>2, <1>3, <1>4 DEF QueuesAreSleepers
  <2> QED BY <1>1, <1>2, <1>4, <2>1, <2>2 DEF QueuesAreSleepers, me
<1>6. ASSUME NEW other \in DOMAIN semaphores, semaphores[other].waiting_processes # <<>>
      PROVE  semaphores'[other].value <= Cardinality(Awakened(other)')
  <2>1. semaphores[other].value <= Cardinality(Awakened(other))
    BY <1>1, <1>6 DEF ValueForTheAwake
  <2>2. CASE other = sem
    <3>1. Awakened(sem)' = Awakened(sem) \ {me}
      BY <1>1, <1>3 DEF Awakened
    <3>2. Cardinality(Awakened(sem)') \in
            {Cardinality(Awakened(sem)), Cardinality(Awakened(sem)) - 1}
      BY <3>1, AwakenedFinite, FS_RemoveElement
    <3> QED BY <1>2, <2>1, <2>2, <3>2, AwakenedFinite
  <2>3. CASE other # sem
    <3>1. \A pid \in Pids : waiting'[pid] = other <=> waiting[pid] = other
      BY <1>1, <1>3, <2>3 DEF me
    <3>2. Awakened(other)' = Awakened(other)
      BY <1>1, <3>1 DEF Awakened
    <3> QED BY <1>2, <2>1, <2>3, <3>2
  <2> QED BY <2>2, <2>3
<1> QED BY <1>2, <1>5, <1>6 DEF ValueForTheAwake

\* Who sleeps joins the queue, and there is nothing to take.
LEMMA SleepKeepsWakeInv ==
  ASSUME IInv, WakeInv, NEW sem, MayWait(sem), Sleep(sem),
         sch.current \in Pids => waiting[sch.current] \in {NULL, sem}
  PROVE  WakeInv'
<1> SUFFICES ASSUME ~stray' PROVE QueuesAreSleepers' /\ ValueForTheAwake'
  BY DEF WakeInv
<1> DEFINE me == sch.current
           queue == semaphores[sem].waiting_processes
           longer == Append(queue, me)
<1>1. /\ (me + 256) % 256 = me /\ me \in Pids /\ ~stray
      /\ semaphores' = [semaphores EXCEPT ![sem].waiting_processes = Append(@, me)]
      /\ sem \in DOMAIN semaphores /\ semaphores[sem].value = 0
      /\ waiting' = [waiting EXCEPT ![me] = sem]
      /\ SchYield(SchBlock(sch, me), sch')
  <2> DEFINE pid == (me + 256) % 256
  <2>1. /\ sem \in DOMAIN semaphores /\ semaphores[sem].value = 0
        /\ waiting' = IF pid \in Pids THEN [waiting EXCEPT ![pid] = sem] ELSE waiting
        /\ SchYield(SchBlock(sch, pid), sch')
        /\ \/ /\ semaphores' = [semaphores EXCEPT ![sem].waiting_processes = Append(@, pid)]
              /\ stray' = (stray \/ pid \notin Pids)
           \/ stray' = TRUE
    BY DEF Sleep
  <2>2. /\ pid \in Pids <=> me \in Pids
        /\ me \in Pids => pid = me
    BY QueuedPidFacts DEF MayWait
  <2> HIDE DEF pid, me
  <2>3. /\ pid \in Pids /\ ~stray
        /\ semaphores' = [semaphores EXCEPT ![sem].waiting_processes = Append(@, pid)]
    BY <2>1, Zenon
  <2>4. pid = me /\ me \in Pids
    BY <2>2, <2>3
  <2>5. pid = (me + 256) % 256
    BY DEF pid
  <2>6. waiting' = [waiting EXCEPT ![me] = sem]
    BY <2>1, <2>4
  <2>7. semaphores' = [semaphores EXCEPT ![sem].waiting_processes = Append(@, me)]
    BY <2>3, <2>4
  <2>8. SchYield(SchBlock(sch, me), sch')
    BY <2>1, <2>4
  <2> QED BY <2>1, <2>3, <2>4, <2>5, <2>6, <2>7, <2>8
<1>2. /\ QueuesAreSleepers /\ ValueForTheAwake
      /\ semaphores \in [DOMAIN semaphores -> SemInfo]
      /\ waiting \in [Pids -> Semaphores \cup {NULL}]
      /\ DOMAIN semaphores \subseteq Semaphores /\ NULL \notin DOMAIN semaphores
      /\ SchInv(sch) /\ IsActive(sch, me) /\ me \in 0 .. 255
  <2>1. SchInv(sch) /\ IsActive(sch, me)
    BY <1>1 DEF IInv, SchInv, ContextsKept
  <2>2. Pids \subseteq 0 .. 255
    BY ConstantFacts
  <2> HIDE DEF me
  <2> QED BY <1>1, <2>1, <2>2, ConstantFacts DEF WakeInv, IInv, Typed
<1>3. /\ queue \in Seq(0 .. 255) /\ IsInjective(queue)
      /\ me \notin Range(queue) /\ ~Asleep(sch, me)
      /\ \A other \in DOMAIN semaphores :
           other # sem => me \notin Range(semaphores[other].waiting_processes)
  <2>1. semaphores[sem] \in SemInfo
    BY <1>1, <1>2
  <2> QED BY <1>1, <1>2, <2>1 DEF QueuesAreSleepers, SemInfo
<1>4. /\ DOMAIN semaphores' = DOMAIN semaphores
      /\ semaphores'[sem].waiting_processes = longer
      /\ semaphores'[sem].value = 0
      /\ \A other \in DOMAIN semaphores :
           other # sem => semaphores'[other] = semaphores[other]
  <2>1. semaphores[sem] \in SemInfo
    BY <1>1, <1>2
  <2> DEFINE info == [semaphores[sem] EXCEPT !.waiting_processes = longer]
  <2>2. info.waiting_processes = longer /\ info.value = 0
    BY <1>1, <2>1 DEF SemInfo
  <2>3. semaphores' = [semaphores EXCEPT ![sem] = info]
    BY <1>1
  <2> HIDE DEF info, longer
  <2> QED BY <1>1, <1>2, <2>2, <2>3
<1>5. \A pid \in Pids : waiting'[pid] = IF pid = me THEN sem ELSE waiting[pid]
  BY <1>1, <1>2
<1> HIDE DEF me, queue
<1>6. /\ \A pid \in Pids : Asleep(sch', pid) <=> Asleep(sch, pid) \/ pid = me
      /\ sch'.current \in Pids => ~Asleep(sch', sch'.current)
  <2> DEFINE blocked == SchBlock(sch, me)
  <2>0. me \in Int
    BY <1>2
  <2>2. SchYield(blocked, sch')
    BY <1>1
  <2>4. blocked = SchBlock(sch, me)
    OBVIOUS
  <2> HIDE DEF blocked
  <2>5. /\ SchInv(blocked)
        /\ \A pid \in Pids :
             Asleep(blocked, pid) <=> Asleep(sch, pid) \/ (pid = me /\ IsActive(sch, pid))
    BY <1>2, <2>0, <2>4, BlockFacts
  <2>6. IsActive(sch, me)
    BY <1>2
  <2>1. \A pid \in Pids : Asleep(blocked, pid) <=> Asleep(sch, pid) \/ pid = me
    BY <2>5, <2>6, Zenon
  <2>3. /\ \A pid \in Pids : Asleep(sch', pid) <=> Asleep(blocked, pid)
        /\ sch'.current \in Pids => sch'.status[sch'.current] = "RUNNING"
    BY <2>2, <2>5, YieldFacts
  <2> QED BY <2>1, <2>3 DEF Asleep
<1>7. IsInjective(longer) /\ Range(longer) = Range(queue) \cup {me}
  <2>1. longer \in Seq(0 .. 255) /\ Range(longer) = Range(queue) \cup {me}
    BY <1>2, <1>3, AppendFacts
  <2>2. queue \in Seq(0 .. 255) /\ IsInjective(queue) /\ me \in 0 .. 255 /\ me \notin Range(queue)
    BY <1>2, <1>3
  <2>3. IsInjective(longer)
    BY <2>2, AppendKeepsInjective, Zenon
  <2> QED BY <2>1, <2>3
<1> HIDE DEF longer
<1>8. QueuesAreSleepers'
  <2>1. ASSUME NEW pid \in Pids, Asleep(sch', pid)
        PROVE  /\ waiting'[pid] \in DOMAIN semaphores'
               /\ pid \in Range(semaphores'[waiting'[pid]].waiting_processes)
    <3>1. CASE pid = me
      <4>1. waiting'[pid] = sem /\ sem \in DOMAIN semaphores
        BY <1>1, <1>5, <3>1
      <4>2. pid \in Range(longer)
        BY <1>7, <3>1
      <4> QED BY <1>4, <4>1, <4>2
    <3>2. CASE pid # me
      <4>1. waiting[pid] \in DOMAIN semaphores /\ waiting'[pid] = waiting[pid]
            /\ pid \in Range(semaphores[waiting[pid]].waiting_processes)
        BY <1>2, <1>5, <1>6, <2>1, <3>2 DEF QueuesAreSleepers
      <4> QED BY <1>4, <1>7, <4>1 DEF queue
    <3> QED BY <3>1, <3>2
  <2>2. ASSUME NEW other \in DOMAIN semaphores
        PROVE  /\ IsInjective(semaphores'[other].waiting_processes)
               /\ \A pid \in Range(semaphores'[other].waiting_processes) :
                    pid \in Pids /\ waiting'[pid] = other /\ Asleep(sch', pid)
    <3>0. \A pid \in Range(semaphores[other].waiting_processes) :
            pid \in Pids /\ waiting[pid] = other /\ Asleep(sch, pid)
      BY <1>2 DEF QueuesAreSleepers
    <3>1. CASE other = sem
      <4>1. semaphores'[other].waiting_processes = longer
        BY <1>4, <3>1
      <4>2. ASSUME NEW pid \in Range(queue)
            PROVE  pid \in Pids /\ waiting[pid] = sem /\ Asleep(sch, pid)
        BY <3>0, <3>1 DEF queue
      <4>3. ASSUME NEW pid \in Range(queue) \cup {me}
            PROVE  pid \in Pids /\ waiting'[pid] = sem /\ Asleep(sch', pid)
        BY <1>1, <1>5, <1>6, <4>2
      <4> QED BY <1>7, <3>1, <4>1, <4>3
    <3>2. CASE other # sem
      <4>1. IsInjective(semaphores[other].waiting_processes)
        BY <1>2 DEF QueuesAreSleepers
      <4> QED BY <1>3, <1>4, <1>5, <1>6, <3>0, <3>2, <4>1
    <3> QED BY <3>1, <3>2
  <2> QED BY <1>4, <1>6, <2>1, <2>2 DEF QueuesAreSleepers
<1>9. ASSUME NEW other \in DOMAIN semaphores, semaphores'[other].waiting_processes # <<>>
      PROVE  semaphores'[other].value <= Cardinality(Awakened(other)')
  <2>1. CASE other = sem
    <3>1. IsFiniteSet(Awakened(sem)') /\ Cardinality(Awakened(sem)') \in Nat
      <4>1. Awakened(sem)' \in SUBSET Pids
        BY DEF Awakened
      <4> QED BY <4>1, ConstantFacts, FS_Subset, FS_CardinalityType
    <3> QED BY <1>4, <2>1, <3>1
  <2>2. CASE other # sem
    <3>1. semaphores[other].value <= Cardinality(Awakened(other))
      BY <1>2, <1>4, <1>9, <2>2 DEF ValueForTheAwake
    <3>2. \A pid \in Pids : waiting'[pid] = other <=> waiting[pid] = other
      BY <1>2, <1>5, <2>2 DEF me
    <3>3. \A pid \in Pids : waiting'[pid] = other => pid # me
      BY <1>5, <2>2
    <3>4. Awakened(other)' = Awakened(other)
      BY <1>6, <3>2, <3>3 DEF Awakened
    <3> QED BY <1>4, <2>2, <3>1, <3>4
  <2> QED BY <2>1, <2>2
<1> QED BY <1>4, <1>8, <1>9 DEF ValueForTheAwake

\* Who posts leaves one more to take, and wakes one of those that sleep.
LEMMA ReleaseKeepsWakeInv ==
  ASSUME IInv, WakeInv, NEW sem, Release(sem)
  PROVE  WakeInv'
<1> SUFFICES ASSUME ~stray PROVE QueuesAreSleepers' /\ ValueForTheAwake'
  BY DEF WakeInv, Release
<1> DEFINE queue == semaphores[sem].waiting_processes
           rest == IF queue = <<>> THEN queue ELSE Tail(queue)
           woken == IF queue = <<>> THEN {} ELSE {Head(queue)}
<1>1. /\ QueuesAreSleepers /\ ValueForTheAwake /\ waiting' = waiting
      /\ sem \in DOMAIN semaphores /\ semaphores \in [DOMAIN semaphores -> SemInfo]
      /\ DOMAIN semaphores \subseteq Semaphores /\ SchInv(sch)
      /\ sch' = IF queue = <<>> THEN sch ELSE SchUnblock(sch, Head(queue))
  BY DEF WakeInv, Release, IInv, Typed
<1>2. /\ semaphores[sem] \in SemInfo /\ queue \in Seq(0 .. 255)
      /\ semaphores[sem].value \in 0 .. UINT8 - 1
      /\ IsInjective(queue)
      /\ \A pid \in Range(queue) : pid \in Pids /\ waiting[pid] = sem /\ Asleep(sch, pid)
  <2>1. semaphores[sem] \in SemInfo
    BY <1>1
  <2> QED BY <1>1, <2>1 DEF SemInfo, QueuesAreSleepers
<1>3. /\ DOMAIN semaphores' = DOMAIN semaphores
      /\ semaphores'[sem].value = (semaphores[sem].value + 1) % UINT8
      /\ semaphores'[sem].waiting_processes = rest
      /\ \A other \in DOMAIN semaphores :
           other # sem => semaphores'[other] = semaphores[other]
  BY <1>1, <1>2 DEF Release, SemInfo
<1> HIDE DEF queue
<1>4. /\ IsInjective(rest) /\ Range(rest) = Range(queue) \ woken
      /\ woken \subseteq Range(queue)
  <2>1. CASE queue = <<>>
    BY <1>2, <2>1
  <2>2. CASE queue # <<>>
    <3>1. /\ Head(queue) \in Range(queue) /\ IsInjective(Tail(queue))
          /\ Range(Tail(queue)) = Range(queue) \ {Head(queue)}
      BY <1>2, <2>2, TailFacts
    <3> QED BY <2>2, <3>1
  <2> QED BY <2>1, <2>2
<1>5. /\ sch'.current = sch.current
      /\ \A pid \in Pids : Asleep(sch', pid) <=> Asleep(sch, pid) /\ pid \notin woken
  <2>1. CASE queue = <<>>
    BY <1>1, <2>1
  <2>2. CASE queue # <<>>
    <3>1. Head(queue) \in Pids /\ sch' = SchUnblock(sch, Head(queue))
      BY <1>1, <1>2, <1>4, <2>2
    <3>2. Head(queue) \in Int
      BY <3>1, ConstantFacts DEF Pids
    <3>3. /\ sch'.current = sch.current
          /\ \A pid \in Pids : Asleep(sch', pid) <=> Asleep(sch, pid) /\ pid # Head(queue)
      BY <1>1, <3>1, <3>2, UnblockFacts
    <3> QED BY <2>2, <3>3
  <2> QED BY <2>1, <2>2
<1> HIDE DEF rest
<1>6. QueuesAreSleepers'
  <2>1. ASSUME NEW pid \in Pids, Asleep(sch', pid)
        PROVE  /\ waiting'[pid] \in DOMAIN semaphores'
               /\ pid \in Range(semaphores'[waiting'[pid]].waiting_processes)
    <3>1. /\ Asleep(sch, pid) /\ pid \notin woken /\ waiting[pid] \in DOMAIN semaphores
          /\ pid \in Range(semaphores[waiting[pid]].waiting_processes)
      BY <1>1, <1>5, <2>1 DEF QueuesAreSleepers
    <3>2. CASE waiting[pid] = sem
      BY <1>1, <1>3, <1>4, <3>1, <3>2 DEF queue
    <3>3. CASE waiting[pid] # sem
      BY <1>1, <1>3, <3>1, <3>3
    <3> QED BY <3>2, <3>3
  <2>2. ASSUME NEW other \in DOMAIN semaphores
        PROVE  /\ IsInjective(semaphores'[other].waiting_processes)
               /\ \A pid \in Range(semaphores'[other].waiting_processes) :
                    pid \in Pids /\ waiting'[pid] = other /\ Asleep(sch', pid)
    <3>1. CASE other = sem
      BY <1>1, <1>2, <1>3, <1>4, <1>5, <3>1
    <3>2. CASE other # sem
      <4>1. /\ semaphores'[other] = semaphores[other]
            /\ IsInjective(semaphores[other].waiting_processes)
            /\ \A pid \in Range(semaphores[other].waiting_processes) :
                 pid \in Pids /\ waiting[pid] = other /\ Asleep(sch, pid)
        BY <1>1, <1>3, <3>2 DEF QueuesAreSleepers
      <4>2. \A pid \in woken : waiting[pid] = sem
        BY <1>2, <1>4
      <4> QED BY <1>1, <1>5, <3>2, <4>1, <4>2
    <3> QED BY <3>1, <3>2
  <2>3. sch'.current \in Pids => ~Asleep(sch', sch'.current)
    BY <1>1, <1>5 DEF QueuesAreSleepers
  <2> QED BY <1>3, <2>1, <2>2, <2>3 DEF QueuesAreSleepers
<1>7. ASSUME NEW other \in DOMAIN semaphores, semaphores'[other].waiting_processes # <<>>
      PROVE  semaphores'[other].value <= Cardinality(Awakened(other)')
  <2>1. CASE other = sem
    <3>1. queue # <<>>
      BY <1>3, <1>7, <2>1 DEF rest
    <3>2. semaphores[sem].value <= Cardinality(Awakened(sem))
      BY <1>1, <3>1 DEF ValueForTheAwake, queue
    <3>3. Head(queue) \in Pids /\ waiting[Head(queue)] = sem /\ Asleep(sch, Head(queue))
      BY <1>2, <1>4, <3>1
    <3>4. Awakened(sem)' = Awakened(sem) \cup {Head(queue)}
      BY <1>1, <1>5, <3>1, <3>3 DEF Awakened
    <3>5. Head(queue) \notin Awakened(sem)
      BY <3>3 DEF Awakened
    <3>6. Cardinality(Awakened(sem)') = Cardinality(Awakened(sem)) + 1
      BY <3>4, <3>5, AwakenedFinite, FS_AddElement
    <3>7. /\ (semaphores[sem].value + 1) % UINT8 <= semaphores[sem].value + 1
          /\ (semaphores[sem].value + 1) % UINT8 \in Int /\ semaphores[sem].value \in Int
      <4> PICK v \in 0 .. UINT8 - 1 : v = semaphores[sem].value
        BY <1>2
      <4>1. UINT8 \in Nat /\ UINT8 > 1 /\ v \in Nat /\ v < UINT8
        BY ConstantFacts
      <4>2. (v + 1) % UINT8 = IF v + 1 < UINT8 THEN v + 1 ELSE 0
        BY <4>1
      <4> QED BY <4>1, <4>2
    <3> QED BY <1>3, <2>1, <3>2, <3>6, <3>7, AwakenedFinite
  <2>2. CASE other # sem
    <3>1. \A pid \in woken : waiting[pid] # other
      BY <1>2, <1>4, <2>2
    <3>2. Awakened(other)' = Awakened(other)
      BY <1>1, <1>5, <3>1 DEF Awakened
    <3> QED BY <1>1, <1>3, <1>7, <2>2, <3>2 DEF ValueForTheAwake
  <2> QED BY <2>1, <2>2
<1> QED BY <1>3, <1>6, <1>7 DEF ValueForTheAwake

\* A step of the scheduler that touches no semaphore and puts nobody to sleep.
LEMMA SchedulerStepKeepsWakeInv ==
  ASSUME IInv, WakeInv, UNCHANGED <<semaphores, waiting, stray>>,
         \A pid \in Pids : Asleep(sch', pid) <=> Asleep(sch, pid),
         sch'.current \in Pids => ~Asleep(sch', sch'.current)
  PROVE  WakeInv'
<1> SUFFICES ASSUME ~stray PROVE QueuesAreSleepers' /\ ValueForTheAwake'
  BY DEF WakeInv
<1> QED BY FrameKeepsWakeInv DEF WakeInv

LEMMA YieldKeepsWakeInv ==
  ASSUME IInv, WakeInv, Yield \/ Tick
  PROVE  WakeInv'
<1>1. /\ SchYield(sch, sch') \/ SchSwitch(sch, sch')
      /\ UNCHANGED <<semaphores, waiting, stray>>
  BY DEF Yield, Tick, semVars
<1>2. /\ \A pid \in Pids : Asleep(sch', pid) <=> Asleep(sch, pid)
      /\ sch'.current \in Pids => sch'.status[sch'.current] = "RUNNING"
  BY <1>1, YieldFacts, SwitchFacts DEF IInv
<1>3. sch'.current \in Pids => ~Asleep(sch', sch'.current)
  BY <1>2 DEF Asleep
<1> QED BY <1>1, <1>2, <1>3, SchedulerStepKeepsWakeInv

\* Who runs is not asleep: its death wakes nobody and leaves no queue with it.
LEMMA ExitKeepsWakeInv ==
  ASSUME IInv, WakeInv, NEW status \in ExitStatuses, Exit(status)
  PROVE  WakeInv'
<1> SUFFICES ASSUME ~stray PROVE WakeInv'
  BY DEF WakeInv, Exit, semVars
<1> DEFINE me == sch.current
           killed == SchOnProcessKilled(sch, me, status)
<1>1. /\ me \in Pids /\ SchYield(killed, sch') /\ SchInv(sch)
      /\ UNCHANGED <<semaphores, waiting, stray>>
  BY DEF Exit, semVars, IInv
<1>2. ~Asleep(sch, me)
  BY <1>1 DEF WakeInv, QueuesAreSleepers
<1> HIDE DEF me
<1>3. SchInv(killed) /\ \A q \in Pids : Asleep(killed, q) <=> Asleep(sch, q) /\ q # me
  BY <1>1, KilledFacts
<1> HIDE DEF killed
<1>4. /\ \A q \in Pids : Asleep(sch', q) <=> Asleep(killed, q)
      /\ sch'.current \in Pids => sch'.status[sch'.current] = "RUNNING"
  BY <1>1, <1>3, YieldFacts
<1>5. \A q \in Pids : Asleep(sch', q) <=> Asleep(sch, q)
  BY <1>2, <1>3, <1>4
<1>6. sch'.current \in Pids => ~Asleep(sch', sch'.current)
  BY <1>4 DEF Asleep
<1> QED BY <1>1, <1>5, <1>6, SchedulerStepKeepsWakeInv

\* Who is killed outside sem_wait is not asleep either.
LEMMA KillKeepsWakeInv ==
  ASSUME IInv, WakeInv, NEW pid \in Pids, NEW status \in ExitStatuses, Kill(pid, status)
  PROVE  WakeInv'
<1> SUFFICES ASSUME ~stray' PROVE WakeInv'
  BY DEF WakeInv
<1>1. /\ sch' = SchOnProcessKilled(sch, pid, status)
      /\ waiting' = [waiting EXCEPT ![pid] = NULL] /\ semaphores' = semaphores
      /\ stray' = (stray \/ waiting[pid] # NULL)
      /\ waiting \in [Pids -> Semaphores \cup {NULL}]
  BY DEF Kill, DiesInSemWait, IInv, Typed
<1>2. ~stray /\ waiting[pid] = NULL /\ stray \in BOOLEAN
  BY <1>1 DEF IInv, Typed
<1>3. waiting' = waiting
  BY <1>1, <1>2
<1>4. QueuesAreSleepers /\ DOMAIN semaphores \subseteq Semaphores
  BY <1>2 DEF WakeInv, IInv, Typed
<1>5. ~Asleep(sch, pid)
  BY <1>2, <1>4, ConstantFacts DEF QueuesAreSleepers
<1>6. /\ sch'.current = (IF IsActive(sch, pid) /\ sch.current = pid
                         THEN KILLED_PROC_PID ELSE sch.current)
      /\ \A q \in Pids : Asleep(sch', q) <=> Asleep(sch, q) /\ q # pid
  <2>1. SchInv(sch)
    BY DEF IInv
  <2>2. sch' = SchOnProcessKilled(sch, pid, status)
    BY <1>1
  <2>3. \A q \in Pids : Asleep(sch', q) <=> Asleep(sch, q) /\ q # pid
    BY <2>1, <2>2, KilledFacts
  <2>4. sch'.current = (IF IsActive(sch, pid) /\ sch.current = pid
                        THEN KILLED_PROC_PID ELSE sch.current)
    BY <2>1, <2>2, KilledFacts
  <2> QED BY <2>3, <2>4
<1>7. \A q \in Pids : Asleep(sch', q) <=> Asleep(sch, q)
  BY <1>5, <1>6
<1>8. sch'.current \in Pids => ~Asleep(sch', sch'.current)
  BY <1>4, <1>6, <1>7, ConstantFacts DEF QueuesAreSleepers
<1>9. UNCHANGED <<semaphores, waiting, stray>>
  <2>1. stray' = stray
    BY <1>1, <1>2, Zenon
  <2> QED BY <1>1, <1>3, <2>1
<1> QED BY <1>7, <1>8, <1>9, SchedulerStepKeepsWakeInv

LEMMA CreateKeepsWakeInv ==
  ASSUME IInv, WakeInv, NEW pid \in Pids, Create(pid)
  PROVE  WakeInv'
<1> SUFFICES ASSUME ~stray PROVE WakeInv'
  BY DEF WakeInv, Create
<1>1. /\ sch.current # KILLED_PROC_PID /\ sch.rsp[pid] = NULL
      /\ sch' = SchOnProcessCreate(sch, pid, DEFAULT_PRIORITY)
      /\ UNCHANGED <<semaphores, waiting, stray>>
  BY DEF Create, Free
<1>2. DEFAULT_PRIORITY \in Int
  BY SchedulerAssumption
<1>3. /\ sch'.current = sch.current
      /\ \A q \in Pids : Asleep(sch', q) <=> Asleep(sch, q)
  BY <1>1, <1>2, CreateFacts DEF IInv
<1>4. sch'.current \in Pids => ~Asleep(sch', sch'.current)
  BY <1>3 DEF WakeInv, QueuesAreSleepers
<1> QED BY <1>1, <1>3, <1>4, SchedulerStepKeepsWakeInv

LEMMA WaitKeepsWakeInv ==
  ASSUME IInv, WakeInv, NEW sem, SemWait(sem) \/ (ContinueWait /\ sem = waiting[sch.current])
  PROVE  WakeInv'
<1>1. /\ MayWait(sem)
      /\ sch.current \in Pids => waiting[sch.current] \in {NULL, sem}
  <2>1. CASE SemWait(sem)
    BY <2>1, CallerFacts DEF SemWait, MayWait
  <2>2. CASE ContinueWait /\ sem = waiting[sch.current]
    BY <2>2 DEF ContinueWait, Resuming, MayWait, IInv, Held
  <2> QED BY <2>1, <2>2
<1>2. Take(sem) \/ Sleep(sem)
  BY DEF SemWait, ContinueWait
<1> QED BY <1>1, <1>2, TakeKeepsWakeInv, SleepKeepsWakeInv

LEMMA InitEstablishesWakeInv == Init => WakeInv
<1> SUFFICES ASSUME Init PROVE QueuesAreSleepers /\ ValueForTheAwake
  BY DEF WakeInv
<1> DEFINE start == SchInit
           shell == 0
           asked == MAX_PRIORITY
<1>1. /\ sch = SchOnProcessCreate(start, shell, asked) /\ DOMAIN semaphores = {}
  BY DEF Init
<1>2. /\ SchInv(start) /\ start.current = KERNEL_PROC_PID /\ shell \in Pids
      /\ \A pid \in Pids : start.rsp[pid] = NULL
  BY InitHasSchInv, SchedulerAssumption DEF SchInit, Pids
<1>3. asked \in Int
  BY SchedulerAssumption
<1> HIDE DEF start, shell, asked
<1>4. /\ sch.current = start.current
      /\ \A pid \in Pids : Asleep(sch, pid) <=> Asleep(start, pid)
  <2>1. /\ SchInv(start) /\ shell \in Pids /\ asked \in Int
        /\ start.rsp[shell] = NULL /\ start.current # KILLED_PROC_PID
    BY <1>2, <1>3 DEF KERNEL_PROC_PID, KILLED_PROC_PID
  <2>2. sch = SchOnProcessCreate(start, shell, asked)
    BY <1>1
  <2> QED BY <2>1, <2>2, CreateFacts
<1>5. \A pid \in Pids : ~Asleep(sch, pid)
  BY <1>2, <1>4 DEF Asleep, IsActive
<1> QED BY <1>1, <1>5 DEF QueuesAreSleepers, ValueForTheAwake

LEMMA NextKeepsWakeInv == IInv /\ WakeInv /\ [Next]_vars => WakeInv'
<1> SUFFICES ASSUME IInv, WakeInv, [Next]_vars PROVE WakeInv'
  OBVIOUS
<1>1. ASSUME NEW name \in Names, NEW initial_value \in InitialValues, SemOpen(name, initial_value)
      PROVE  WakeInv'
  BY <1>1, OpenKeepsWakeInv
<1>2. ASSUME NEW sem \in Semaphores, SemClose(sem)
      PROVE  WakeInv'
  BY <1>2, CloseKeepsWakeInv
<1>3. ASSUME NEW sem \in Semaphores, SemWait(sem)
      PROVE  WakeInv'
  BY <1>3, WaitKeepsWakeInv
<1>4. CASE ContinueWait
  BY <1>4, WaitKeepsWakeInv
<1>5. ASSUME NEW sem \in Semaphores, SemPost(sem)
      PROVE  WakeInv'
  BY <1>5, ReleaseKeepsWakeInv DEF SemPost
<1>6. ASSUME NEW pid \in Pids, Create(pid)
      PROVE  WakeInv'
  BY <1>6, CreateKeepsWakeInv
<1>7. ASSUME NEW pid \in Pids, NEW status \in ExitStatuses, Kill(pid, status)
      PROVE  WakeInv'
  BY <1>7, KillKeepsWakeInv
<1>8. ASSUME NEW status \in ExitStatuses, Exit(status)
      PROVE  WakeInv'
  BY <1>8, ExitKeepsWakeInv
<1>9. CASE Yield \/ Tick
  BY <1>9, YieldKeepsWakeInv
<1>10. CASE UNCHANGED vars
  <2>1. UNCHANGED <<sch, semaphores, waiting, stray>>
    BY <1>10 DEF vars, semVars
  <2> SUFFICES ASSUME ~stray PROVE WakeInv'
    BY <2>1 DEF WakeInv
  <2> QED BY <2>1, SchedulerStepKeepsWakeInv DEF WakeInv, QueuesAreSleepers
<1> QED
  BY <1>1, <1>2, <1>3, <1>4, <1>5, <1>6, <1>7, <1>8, <1>9, <1>10 DEF Next

(* No wakeup is lost: unless a waiter died or could not be queued, whoever is
   blocked is in the queue of its semaphore, and while somebody is there every unit
   of the value has a woken process on its way to take it. *)
THEOREM SemaphoreNoLostWakeup == Spec => []NoLostWakeup
<1>1. IInv /\ WakeInv => NoLostWakeup
  <2> SUFFICES ASSUME IInv, WakeInv, ~stray PROVE NoLostWakeup
    BY DEF NoLostWakeup
  <2>1. \A sem \in DOMAIN semaphores : Awake(sem) = Awakened(sem)
    BY AwakeIsAwakened DEF IInv, Typed
  <2> QED
    BY <2>1 DEF WakeInv, QueuesAreSleepers, ValueForTheAwake, NoLostWakeup, Asleep
<1> QED
  BY InitEstablishesIInv, NextKeepsIInv, InitEstablishesWakeInv, NextKeepsWakeInv, <1>1,
     PTL DEF Spec
----------------------------------------------------------------------------
(* testsync: the workers exclude each other and lose no update. *)

Holding == {"sem_wait", "read", "yield", "write", "sem_post", "sem_close"}

\* What a worker has while it is at a step.
WorkerInv(w) ==
  /\ pc[w] \in Holding => links[w] # {}
  /\ waiting[w] # NULL => pc[w] = "read"
  /\ pc[w] \in {"sem_open", "sem_wait", "read", "yield", "write"} => left[w] >= 1
  /\ pc[w] \in {"yield", "write"} => aux[w] = global

\* All semaphores have the workers' name, so there is one at most, and it is taken
\* while a worker is inside.
ValueInv ==
  \A sem \in DOMAIN semaphores :
    /\ semaphores[sem].name = SEM_ID /\ semaphores[sem].value \in {0, 1}
    /\ semaphores[sem].value = 1 => \A w \in Workers : ~Critical(w)

SyncInv ==
  /\ IInv /\ WorkerTypeOK /\ ValueInv /\ MutualExclusion /\ NoLostUpdate
  /\ \A w \in Workers : WorkerInv(w)

\* What most steps do to the semaphores, as far as ValueInv goes: some go away.
KeepsValues ==
  /\ DOMAIN semaphores' \subseteq DOMAIN semaphores
  /\ \A sem \in DOMAIN semaphores' :
       /\ semaphores'[sem].name = semaphores[sem].name
       /\ semaphores'[sem].value = semaphores[sem].value

----------------------------------------------------------------------------

LEMMA WorkerFacts ==
  /\ Workers \subseteq Pids /\ 0 \notin Workers
  /\ SEM_ID \in Names /\ 1 \in InitialValues /\ 0 \in ExitStatuses /\ N \in Nat \ {0}
  /\ UINT8 \in Nat /\ UINT8 > 1
<1>1. SEM_ID \in Names
  BY TestSyncAssumption, Zenon DEF SEM_ID
<1> QED BY <1>1, TestSyncAssumption, SchedulerAssumption, SemaphoreAssumption DEF Workers

\* A semaphore in use is the only one.
LEMMA OneSemaphore ==
  ASSUME SyncInv, NEW sem \in DOMAIN semaphores, NEW other \in DOMAIN semaphores
  PROVE  sem = other
BY DEF SyncInv, ValueInv, IInv, Counted

LEMMA CriticalHolds ==
  ASSUME SyncInv, NEW w \in Workers, Critical(w)
  PROVE  DOMAIN semaphores # {} /\ \A sem \in DOMAIN semaphores : semaphores[sem].value = 0
<1>1. links[w] # {} /\ links[w] \subseteq DOMAIN semaphores
  BY WorkerFacts DEF SyncInv, WorkerInv, Critical, Holding, IInv, Held
<1> QED BY <1>1 DEF SyncInv, ValueInv

\* The semaphores keep their values and nobody goes in.
LEMMA FrameKeepsExclusion ==
  ASSUME SyncInv, KeepsValues, \A w \in Workers : Critical(w)' => Critical(w)
  PROVE  ValueInv' /\ MutualExclusion'
<1>1. ValueInv'
  BY DEF SyncInv, ValueInv, KeepsValues
<1>2. MutualExclusion'
  BY DEF SyncInv, MutualExclusion
<1> QED BY <1>1, <1>2

\* A new semaphore is made only when nobody is inside.
LEMMA OpenKeepsSyncInv ==
  ASSUME SyncInv, NEW w \in Workers, Open(w)
  PROVE  SyncInv'
<1>1. /\ sch.current = w /\ pc[w] = "sem_open" /\ SemOpen(SEM_ID, 1)
      /\ pc' = [pc EXCEPT ![w] = "sem_wait"]
      /\ UNCHANGED <<inc, left, aux, global, created, applied>>
  BY DEF Open, AtStep, Goto
<1>2. /\ IInv' /\ IInv /\ WorkerTypeOK
      /\ Caller = w /\ links \in [Pids -> SUBSET Semaphores] /\ waiting' = waiting
  <2>1. SystemCall
    BY <1>1 DEF SemOpen, SemOpenExisting, SemOpenNew, SearchNext
  <2> QED
    BY <1>1, <2>1, WorkerFacts, CallerFacts, OpenExistingKeepsIInv, OpenNewKeepsIInv
       DEF SyncInv, SemOpen, SemOpenExisting, SemOpenNew, SearchNext, IInv, Typed
<1>3. WorkerTypeOK'
  BY <1>1, <1>2 DEF WorkerTypeOK
<1>4. \A v \in Workers : pc'[v] = IF v = w THEN "sem_wait" ELSE pc[v]
  BY <1>1, <1>2 DEF WorkerTypeOK
<1>5. \A v \in Workers : Critical(v)' => Critical(v)
  BY <1>2, <1>4 DEF Critical
<1>6. /\ \A v \in Workers : v # w => links'[v] = links[v]
      /\ links'[w] # {}
      /\ ValueInv' /\ MutualExclusion'
  <2>1. CASE SemOpenExisting(SEM_ID)
    <3> PICK sem \in SearchSemaphore(SEM_ID) :
          /\ semaphores' = [semaphores EXCEPT ![sem].linked_processes = (@ + 1) % UINT8]
          /\ links' = [links EXCEPT ![Caller] = @ \cup {sem}]
      BY <2>1 DEF SemOpenExisting
    <3>1. sem \in DOMAIN semaphores /\ \A other \in DOMAIN semaphores : semaphores[other] \in SemInfo
      BY <1>2 DEF SearchSemaphore, IInv, Typed
    <3>2. KeepsValues
      BY <3>1 DEF KeepsValues, SemInfo
    <3>3. /\ \A v \in Workers : v # w => links'[v] = links[v]
          /\ links'[w] = links[w] \cup {sem}
      BY <1>2, WorkerFacts
    <3> QED BY <1>5, <3>2, <3>3, FrameKeepsExclusion
  <2>2. CASE SemOpenNew(SEM_ID, 1)
    <3> PICK sem \in Semaphores \ DOMAIN semaphores :
          /\ semaphores' = Opened(sem, SEM_ID, 1)
          /\ links' = [links EXCEPT ![Caller] = @ \cup {sem}]
      BY <2>2 DEF SemOpenNew, SearchNext
    <3>1. DOMAIN semaphores = {}
      BY <2>2 DEF SemOpenNew, SearchNext, SearchSemaphore, SyncInv, ValueInv
    <3>2. \A v \in Workers : ~Critical(v)'
      BY <1>5, <3>1, CriticalHolds
    <3>3. /\ DOMAIN semaphores' = {sem} /\ semaphores'[sem].name = SEM_ID
          /\ semaphores'[sem].value = 1
      BY <3>1 DEF Opened
    <3>4. ValueInv' /\ MutualExclusion'
      BY <3>2, <3>3 DEF ValueInv, MutualExclusion
    <3>5. /\ \A v \in Workers : v # w => links'[v] = links[v]
          /\ links'[w] = links[w] \cup {sem}
      BY <1>2, WorkerFacts
    <3> QED BY <3>4, <3>5
  <2> QED BY <1>1, <2>1, <2>2 DEF SemOpen
<1>7. ASSUME NEW v \in Workers PROVE WorkerInv(v)'
  <2>1. CASE v = w
    BY <1>1, <1>2, <1>4, <1>6, <2>1 DEF WorkerInv, SyncInv
  <2>2. CASE v # w
    BY <1>1, <1>2, <1>4, <1>6, <2>2 DEF WorkerInv, SyncInv
  <2> QED BY <2>1, <2>2
<1>8. NoLostUpdate'
  BY <1>1 DEF SyncInv, NoLostUpdate
<1> QED BY <1>2, <1>3, <1>6, <1>7, <1>8 DEF SyncInv

----------------------------------------------------------------------------
(* sem_wait *)

LEMMA SleepKeepsValues ==
  ASSUME IInv, NEW sem, Sleep(sem)
  PROVE  KeepsValues /\ links' = links
<1>1. sem \in DOMAIN semaphores /\ semaphores[sem] \in SemInfo /\ links' = links
  BY DEF Sleep, IInv, Typed
<1> DEFINE pid == (sch.current + 256) % 256
<1>2. \/ semaphores' = [semaphores EXCEPT ![sem].waiting_processes = Append(@, pid)]
      \/ semaphores' = semaphores
  BY DEF Sleep
<1> HIDE DEF pid
<1> QED BY <1>1, <1>2 DEF KeepsValues, SemInfo

\* Whoever takes the value finds nobody inside.
LEMMA TakeKeepsExclusion ==
  ASSUME SyncInv, NEW sem, Take(sem), NEW w,
         \A v \in Workers : Critical(v)' => Critical(v) \/ v = w
  PROVE  ValueInv' /\ MutualExclusion'
<1>1. /\ sem \in DOMAIN semaphores /\ semaphores[sem].value # 0
      /\ semaphores' = [semaphores EXCEPT ![sem].value = @ - 1]
      /\ semaphores[sem] \in SemInfo
  BY DEF Take, SyncInv, IInv, Typed
<1>2. semaphores[sem].value = 1 /\ semaphores[sem].name = SEM_ID
  BY <1>1 DEF SyncInv, ValueInv
<1>3. DOMAIN semaphores = {sem}
  BY <1>1, OneSemaphore
<1>4. /\ DOMAIN semaphores' = {sem} /\ semaphores'[sem].name = SEM_ID
      /\ semaphores'[sem].value = 0
  BY <1>1, <1>2, <1>3 DEF SemInfo
<1>5. \A v \in Workers : ~Critical(v)
  BY <1>1, <1>2 DEF SyncInv, ValueInv
<1> QED BY <1>4, <1>5 DEF ValueInv, MutualExclusion

LEMMA WaitKeepsSyncInv ==
  ASSUME SyncInv, NEW w \in Workers, Wait(w)
  PROVE  SyncInv'
<1> PICK sem \in links[w] : SemWait(sem)
  BY DEF Wait
<1>1. /\ sch.current = w /\ pc[w] = "sem_wait"
      /\ Take(sem) \/ Sleep(sem)
      /\ pc' = [pc EXCEPT ![w] = "read"]
      /\ UNCHANGED <<inc, left, aux, global, created, applied>>
  BY DEF Wait, AtStep, Goto, SemWait
<1>2. /\ IInv' /\ IInv /\ WorkerTypeOK /\ waiting \in [Pids -> Semaphores \cup {NULL}]
      /\ w \in Pids /\ links' = links
  <2>1. IInv' /\ IInv
    BY WaitKeepsIInv DEF SyncInv
  <2> QED BY <1>1, <2>1, WorkerFacts DEF SyncInv, IInv, Typed, Take, Sleep
<1>3. WorkerTypeOK'
  BY <1>1, <1>2 DEF WorkerTypeOK
<1>4. \A v \in Workers : pc'[v] = IF v = w THEN "read" ELSE pc[v]
  BY <1>1, <1>2 DEF WorkerTypeOK
<1>5. /\ \A v \in Workers : v # w => waiting'[v] = waiting[v]
      /\ Sleep(sem) => waiting'[w] # NULL
  <2>1. CASE Take(sem)
    <3>1. sem \in DOMAIN semaphores /\ semaphores[sem].value # 0
      BY <2>1 DEF Take
    <3> QED BY <1>1, <1>2, <2>1, <3>1, WorkerFacts DEF Take, Sleep
  <2>2. CASE Sleep(sem)
    <3> DEFINE pid == (sch.current + 256) % 256
    <3>1. pid = w
      BY <1>1, <1>2, QueuedPidFacts
    <3>2. sem \in DOMAIN semaphores
          /\ waiting' = IF pid \in Pids THEN [waiting EXCEPT ![pid] = sem] ELSE waiting
      BY <2>2 DEF Sleep
    <3> HIDE DEF pid
    <3>3. waiting' = [waiting EXCEPT ![w] = sem] /\ sem \in Semaphores
      BY <1>2, <3>1, <3>2 DEF IInv, Typed
    <3> QED BY <1>2, <3>3, WorkerFacts, ConstantFacts
  <2> QED BY <1>1, <2>1, <2>2
<1>6. \A v \in Workers : v # w => (Critical(v)' <=> Critical(v))
  BY <1>4, <1>5 DEF Critical
<1>7. ValueInv' /\ MutualExclusion'
  <2>1. CASE Take(sem)
    BY <1>6, <2>1, TakeKeepsExclusion
  <2>2. CASE Sleep(sem)
    <3>1. ~Critical(w)'
      BY <1>5, <2>2 DEF Critical
    <3> QED BY <1>2, <1>6, <2>2, <3>1, SleepKeepsValues, FrameKeepsExclusion
  <2> QED BY <1>1, <2>1, <2>2
<1>8. ASSUME NEW v \in Workers PROVE WorkerInv(v)'
  <2>1. CASE v = w
    BY <1>1, <1>2, <1>4, <2>1 DEF WorkerInv, SyncInv, Holding
  <2>2. CASE v # w
    BY <1>1, <1>2, <1>4, <1>5, <2>2 DEF WorkerInv, SyncInv
  <2> QED BY <2>1, <2>2
<1>9. NoLostUpdate'
  BY <1>1 DEF SyncInv, NoLostUpdate
<1> QED BY <1>2, <1>3, <1>7, <1>8, <1>9 DEF SyncInv

LEMMA ContinueKeepsSyncInv ==
  ASSUME SyncInv, Continue
  PROVE  SyncInv'
<1> DEFINE me == sch.current
           sem == waiting[me]
<1>1. /\ me \in Pids /\ sem # NULL
      /\ Take(sem) \/ Sleep(sem)
      /\ UNCHANGED <<pc, inc, left, aux, global, created, applied>>
  BY DEF Continue, ContinueWait, Resuming, workerVars
<1>2. /\ IInv' /\ IInv /\ WorkerTypeOK /\ waiting \in [Pids -> Semaphores \cup {NULL}]
      /\ links' = links
  <2>1. IInv' /\ IInv
    BY WaitKeepsIInv DEF SyncInv, Continue
  <2> QED BY <1>1, <2>1 DEF SyncInv, IInv, Typed, Take, Sleep
<1>3. WorkerTypeOK'
  BY <1>1, <1>2 DEF WorkerTypeOK
<1>4. IF Take(sem) THEN waiting' = [waiting EXCEPT ![me] = NULL] ELSE waiting' = waiting
  <2>1. CASE Take(sem)
    BY <1>1, <2>1 DEF Take
  <2>2. CASE ~Take(sem)
    <3>1. (me + 256) % 256 = me
      BY <1>1, QueuedPidFacts
    <3>2. waiting' = [waiting EXCEPT ![me] = sem]
      BY <1>1, <2>2, <3>1 DEF Sleep
    <3>3. sem = waiting[me]
      OBVIOUS
    <3> HIDE DEF me, sem
    <3>4. waiting' = waiting
      BY <1>1, <1>2, <3>2, <3>3
    <3> QED BY <2>2, <3>4
  <2> QED BY <2>1, <2>2
<1>5. ValueInv' /\ MutualExclusion'
  <2>1. CASE Take(sem)
    <3>1. \A v \in Workers : Critical(v)' => Critical(v) \/ v = me
      BY <1>1, <1>2, <1>4, <2>1, WorkerFacts DEF Critical
    <3> HIDE DEF me, sem
    <3> QED BY <2>1, <3>1, TakeKeepsExclusion
  <2>2. CASE ~Take(sem)
    <3>1. Sleep(sem)
      BY <1>1, <2>2
    <3>2. \A v \in Workers : Critical(v)' => Critical(v)
      BY <1>1, <1>4, <2>2 DEF Critical
    <3> HIDE DEF me, sem
    <3> QED BY <1>2, <3>1, <3>2, SleepKeepsValues, FrameKeepsExclusion
  <2> QED BY <2>1, <2>2
<1>6. ASSUME NEW v \in Workers PROVE WorkerInv(v)'
  <2>1. waiting'[v] \in {NULL, waiting[v]}
    BY <1>1, <1>2, <1>4, WorkerFacts
  <2> QED BY <1>1, <1>2, <2>1 DEF WorkerInv, SyncInv
<1>7. NoLostUpdate'
  BY <1>1 DEF SyncInv, NoLostUpdate
<1> QED BY <1>2, <1>3, <1>5, <1>6, <1>7 DEF SyncInv

----------------------------------------------------------------------------
(* Between sem_wait and sem_post *)

\* A step of worker w that leaves the kernel as it is, up to who runs.
LEMMA FrameKeepsWorkers ==
  ASSUME SyncInv, NEW w \in Workers, links' = links, waiting' = waiting,
         \A v \in Workers : v # w =>
           pc'[v] = pc[v] /\ left'[v] = left[v] /\ aux'[v] = aux[v],
         global' = global \/ Critical(w)
  PROVE  \A v \in Workers : v # w => WorkerInv(v)'
<1> SUFFICES ASSUME NEW v \in Workers, v # w PROVE WorkerInv(v)'
  OBVIOUS
<1>1. WorkerInv(v)
  BY DEF SyncInv
<1>2. pc[v] \in {"yield", "write"} => Critical(v)
  BY <1>1 DEF WorkerInv, Critical
<1>3. Critical(w) => ~Critical(v)
  BY DEF SyncInv, MutualExclusion
<1> QED BY <1>1, <1>2, <1>3 DEF WorkerInv

LEMMA ReadKeepsSyncInv ==
  ASSUME SyncInv, NEW w \in Workers, Read(w)
  PROVE  SyncInv'
<1>1. /\ pc[w] = "read" /\ sch.current = w /\ SystemCall
      /\ aux' = [aux EXCEPT ![w] = global] /\ pc' = [pc EXCEPT ![w] = "yield"]
      /\ UNCHANGED <<sch, semaphores, waiting, links, leaked, stray>>
      /\ UNCHANGED <<inc, left, global, created, applied>>
      /\ WorkerTypeOK /\ IInv /\ w \in Pids
  BY WorkerFacts DEF Read, AtStep, Goto, vars, semVars, SyncInv
<1>2. IInv'
  BY <1>1, NextKeepsIInv DEF vars, semVars
<1>3. WorkerTypeOK'
  BY <1>1 DEF WorkerTypeOK
<1>4. /\ \A v \in Workers : pc'[v] = IF v = w THEN "yield" ELSE pc[v]
      /\ \A v \in Workers : aux'[v] = IF v = w THEN global ELSE aux[v]
  BY <1>1 DEF WorkerTypeOK
<1>5. waiting[w] = NULL
  BY <1>1 DEF SystemCall, Interruptible, Resuming
<1>6. ValueInv' /\ MutualExclusion'
  <2>1. KeepsValues
    BY <1>1 DEF KeepsValues
  <2>2. \A v \in Workers : Critical(v)' => Critical(v)
    BY <1>1, <1>4 DEF Critical
  <2> QED BY <2>1, <2>2, FrameKeepsExclusion
<1>7. \A v \in Workers : v # w => WorkerInv(v)'
  BY <1>1, <1>4, FrameKeepsWorkers
<1>8. WorkerInv(w)'
  BY <1>1, <1>4, <1>5 DEF SyncInv, WorkerInv, Holding
<1>9. NoLostUpdate'
  BY <1>1 DEF SyncInv, NoLostUpdate
<1> QED BY <1>2, <1>3, <1>6, <1>7, <1>8, <1>9 DEF SyncInv

\* The worker, and the timer, give the processor away.
LEMMA YieldInsideKeepsSyncInv ==
  ASSUME SyncInv, NEW w \in Workers, YieldInside(w)
  PROVE  SyncInv'
<1>1. /\ pc[w] = "yield" /\ sch.current = w /\ Yield
      /\ pc' = [pc EXCEPT ![w] = "write"]
      /\ UNCHANGED <<semaphores, waiting, links, leaked, stray>>
      /\ UNCHANGED <<inc, left, aux, global, created, applied>>
      /\ WorkerTypeOK /\ IInv
  BY DEF YieldInside, AtStep, Goto, Yield, semVars, SyncInv
<1>2. IInv'
  BY <1>1, YieldKeepsIInv
<1>3. WorkerTypeOK'
  BY <1>1 DEF WorkerTypeOK
<1>4. \A v \in Workers : pc'[v] = IF v = w THEN "write" ELSE pc[v]
  BY <1>1 DEF WorkerTypeOK
<1>5. ValueInv' /\ MutualExclusion'
  <2>1. KeepsValues
    BY <1>1 DEF KeepsValues
  <2>2. \A v \in Workers : Critical(v)' => Critical(v)
    BY <1>1, <1>4 DEF Critical
  <2> QED BY <2>1, <2>2, FrameKeepsExclusion
<1>6. \A v \in Workers : v # w => WorkerInv(v)'
  BY <1>1, <1>4, FrameKeepsWorkers
<1>7. WorkerInv(w)'
  BY <1>1, <1>4 DEF SyncInv, WorkerInv, Holding
<1>8. NoLostUpdate'
  BY <1>1 DEF SyncInv, NoLostUpdate
<1> QED BY <1>2, <1>3, <1>5, <1>6, <1>7, <1>8 DEF SyncInv

\* Only the worker inside writes, and what it read is still the value.
LEMMA WriteKeepsSyncInv ==
  ASSUME SyncInv, NEW w \in Workers, Write(w)
  PROVE  SyncInv'
<1>1. /\ pc[w] = "write" /\ sch.current = w
      /\ global' = aux[w] + inc[w] /\ applied' = applied + inc[w]
      /\ left' = [left EXCEPT ![w] = @ - 1] /\ aux' = [aux EXCEPT ![w] = 0]
      /\ pc' = [pc EXCEPT ![w] = "sem_post"]
      /\ UNCHANGED <<sch, semaphores, waiting, links, leaked, stray>>
      /\ UNCHANGED <<inc, created>>
      /\ WorkerTypeOK /\ IInv
  BY DEF Write, AtStep, Goto, vars, semVars, SyncInv
<1>2. IInv'
  BY <1>1, NextKeepsIInv DEF vars, semVars
<1>3. /\ left[w] >= 1 /\ left[w] \in 0 .. N /\ aux[w] = global /\ global \in Int
      /\ inc[w] \in Int /\ waiting[w] = NULL /\ links[w] # {}
  BY <1>1 DEF SyncInv, WorkerInv, WorkerTypeOK, Holding
<1>4. WorkerTypeOK'
  <2>1. left[w] - 1 \in 0 .. N
    BY <1>3, WorkerFacts
  <2> QED BY <1>1, <1>3, <2>1 DEF WorkerTypeOK
<1>5. /\ \A v \in Workers : pc'[v] = IF v = w THEN "sem_post" ELSE pc[v]
      /\ \A v \in Workers : v # w => aux'[v] = aux[v] /\ left'[v] = left[v]
  BY <1>1 DEF WorkerTypeOK
<1>6. ValueInv' /\ MutualExclusion'
  <2>1. KeepsValues
    BY <1>1 DEF KeepsValues
  <2>2. \A v \in Workers : Critical(v)' => Critical(v)
    BY <1>1, <1>5 DEF Critical
  <2> QED BY <2>1, <2>2, FrameKeepsExclusion
<1>7. Critical(w)
  BY <1>1, <1>3 DEF Critical
<1>8. \A v \in Workers : v # w => WorkerInv(v)'
  BY <1>1, <1>5, <1>7, FrameKeepsWorkers
<1>9. WorkerInv(w)'
  BY <1>1, <1>3, <1>5 DEF WorkerInv, Holding
<1>10. NoLostUpdate'
  BY <1>1, <1>3 DEF SyncInv, NoLostUpdate
<1> QED BY <1>2, <1>4, <1>6, <1>8, <1>9, <1>10 DEF SyncInv

----------------------------------------------------------------------------
(* sem_post, sem_close and the end *)

LEMMA PostKeepsSyncInv ==
  ASSUME SyncInv, NEW w \in Workers, Post(w)
  PROVE  SyncInv'
<1> PICK sem \in links[w] : SemPost(sem)
  BY DEF Post
<1> DEFINE next == IF left[w] > 0 THEN "sem_wait" ELSE "sem_close"
<1>1. /\ pc[w] = "sem_post" /\ sch.current = w /\ SemPost(sem) /\ Release(sem)
      /\ pc' = [pc EXCEPT ![w] = next]
      /\ UNCHANGED <<waiting, links>>
      /\ UNCHANGED <<inc, left, aux, global, created, applied>>
      /\ WorkerTypeOK /\ IInv /\ sem \in DOMAIN semaphores
  BY DEF Post, AtStep, Goto, SemPost, Release, SyncInv
<1>2. IInv'
  BY <1>1, ReleaseKeepsIInv
<1>3. WorkerTypeOK'
  BY <1>1 DEF WorkerTypeOK
<1>4. \A v \in Workers : pc'[v] = IF v = w THEN next ELSE pc[v]
  BY <1>1 DEF WorkerTypeOK
<1>5. waiting[w] = NULL /\ links[w] # {} /\ Critical(w)
  BY <1>1 DEF SyncInv, WorkerInv, Critical, Holding
<1>6. \A v \in Workers : ~Critical(v)'
  <2>1. \A v \in Workers : v # w => ~Critical(v)
    BY <1>5 DEF SyncInv, MutualExclusion
  <2> QED BY <1>1, <1>4, <2>1 DEF Critical
<1>7. ValueInv' /\ MutualExclusion'
  <2>1. DOMAIN semaphores = {sem} /\ semaphores[sem].value = 0 /\ semaphores[sem] \in SemInfo
        /\ semaphores[sem].name = SEM_ID
    BY <1>1, <1>5, OneSemaphore, CriticalHolds DEF SyncInv, ValueInv, IInv, Typed
  <2>2. 1 % UINT8 = 1
    BY WorkerFacts
  <2>3. /\ DOMAIN semaphores' = {sem} /\ semaphores'[sem].name = SEM_ID
        /\ semaphores'[sem].value = 1
    BY <1>1, <2>1, <2>2 DEF Release, SemInfo
  <2> QED BY <1>6, <2>3 DEF ValueInv, MutualExclusion
<1>8. \A v \in Workers : v # w => WorkerInv(v)'
  BY <1>1, <1>4, FrameKeepsWorkers
<1>9. WorkerInv(w)'
  <2>1. left[w] \in 0 .. N
    BY <1>1 DEF WorkerTypeOK
  <2> QED BY <1>1, <1>4, <1>5, <2>1, WorkerFacts DEF WorkerInv
<1>10. NoLostUpdate'
  BY <1>1 DEF SyncInv, NoLostUpdate
<1> QED BY <1>2, <1>3, <1>7, <1>8, <1>9, <1>10 DEF SyncInv

LEMMA CloseKeepsSyncInv ==
  ASSUME SyncInv, NEW w \in Workers, Close(w)
  PROVE  SyncInv'
<1> PICK sem \in links[w] : SemClose(sem)
  BY DEF Close
<1>1. /\ pc[w] = "sem_close" /\ sch.current = w /\ SemClose(sem)
      /\ pc' = [pc EXCEPT ![w] = "exit"] /\ waiting' = waiting
      /\ UNCHANGED <<inc, left, aux, global, created, applied>>
      /\ WorkerTypeOK /\ IInv /\ SystemCall /\ w \in Pids
      /\ links' = [links EXCEPT ![Caller] = @ \ {sem}]
      /\ sem \in DOMAIN semaphores
  BY WorkerFacts DEF Close, AtStep, Goto, SemClose, SyncInv
<1>2. /\ Caller = w /\ sem \in Semaphores /\ links \in [Pids -> SUBSET Semaphores]
      /\ semaphores \in [DOMAIN semaphores -> SemInfo]
  BY <1>1, CallerFacts DEF IInv, Typed
<1>3. IInv'
  BY <1>1, <1>2, CloseKeepsIInv
<1>4. WorkerTypeOK'
  BY <1>1 DEF WorkerTypeOK
<1>5. \A v \in Workers :
        /\ pc'[v] = IF v = w THEN "exit" ELSE pc[v]
        /\ v # w => links'[v] = links[v]
  BY <1>1, <1>2, WorkerFacts DEF WorkerTypeOK
<1>6. KeepsValues
  <2>1. CASE Destroys(sem)
    BY <2>1 DEF Destroys, Restrict, KeepsValues
  <2>2. CASE CountsOff(sem)
    BY <1>1, <1>2, <2>2 DEF CountsOff, KeepsValues, SemInfo
  <2> QED BY <1>1, <1>2, <2>1, <2>2, CloseCases
<1>7. ValueInv' /\ MutualExclusion'
  <2>1. \A v \in Workers : Critical(v)' => Critical(v)
    BY <1>1, <1>5 DEF Critical
  <2> QED BY <1>6, <2>1, FrameKeepsExclusion
<1>8. ASSUME NEW v \in Workers PROVE WorkerInv(v)'
  <2>1. CASE v = w
    BY <1>1, <1>5, <2>1 DEF SyncInv, WorkerInv, Holding
  <2>2. CASE v # w
    BY <1>1, <1>5, <2>2 DEF SyncInv, WorkerInv
  <2> QED BY <2>1, <2>2
<1>9. NoLostUpdate'
  BY <1>1 DEF SyncInv, NoLostUpdate
<1> QED BY <1>3, <1>4, <1>7, <1>8, <1>9 DEF SyncInv

LEMMA ReturnKeepsSyncInv ==
  ASSUME SyncInv, NEW w \in Workers, Return(w)
  PROVE  SyncInv'
<1>1. /\ pc[w] = "exit" /\ Exit(0)
      /\ pc' = [pc EXCEPT ![w] = "none"] /\ inc' = [inc EXCEPT ![w] = 1]
      /\ UNCHANGED <<semaphores, waiting, links, leaked, stray>>
      /\ UNCHANGED <<left, aux, global, created, applied>>
      /\ WorkerTypeOK /\ IInv
  BY DEF Return, AtStep, Goto, Exit, semVars, SyncInv
<1>2. IInv'
  BY <1>1, WorkerFacts, ExitKeepsIInv
<1>3. WorkerTypeOK'
  BY <1>1 DEF WorkerTypeOK
<1>4. \A v \in Workers : pc'[v] = IF v = w THEN "none" ELSE pc[v]
  BY <1>1 DEF WorkerTypeOK
<1>5. ValueInv' /\ MutualExclusion'
  <2>1. KeepsValues
    BY <1>1 DEF KeepsValues
  <2>2. \A v \in Workers : Critical(v)' => Critical(v)
    BY <1>1, <1>4 DEF Critical
  <2> QED BY <2>1, <2>2, FrameKeepsExclusion
<1>6. \A v \in Workers : v # w => WorkerInv(v)'
  BY <1>1, <1>4, FrameKeepsWorkers
<1>7. WorkerInv(w)'
  BY <1>1, <1>4 DEF SyncInv, WorkerInv, Holding
<1>8. NoLostUpdate'
  BY <1>1 DEF SyncInv, NoLostUpdate
<1> QED BY <1>2, <1>3, <1>5, <1>6, <1>7, <1>8 DEF SyncInv

\* A new worker starts outside, whatever the one before it in the slot was at.
LEMMA CreateWorkerKeepsSyncInv ==
  ASSUME SyncInv, NEW w \in Workers, CreateWorker(w)
  PROVE  SyncInv'
<1>1. /\ Create(w) /\ created < 2 * TOTAL_PAIR_PROCESSES /\ created' = created + 1
      /\ inc' = [inc EXCEPT ![w] = IF created % 2 = 0 THEN -1 ELSE 1]
      /\ left' = [left EXCEPT ![w] = N] /\ pc' = [pc EXCEPT ![w] = "sem_open"]
      /\ links' = [links EXCEPT ![w] = {}] /\ UNCHANGED <<semaphores, waiting, stray>>
      /\ UNCHANGED <<aux, global, applied>>
      /\ sch.rsp[w] = NULL /\ WorkerTypeOK /\ IInv /\ w \in Pids
  BY WorkerFacts DEF CreateWorker, Goto, Create, Free, SyncInv
<1>2. IInv'
  BY <1>1, CreateKeepsIInv
<1>3. WorkerTypeOK'
  <2>1. created + 1 \in 0 .. 2 * TOTAL_PAIR_PROCESSES
    BY <1>1, TestSyncAssumption DEF WorkerTypeOK
  <2> QED BY <1>1, <2>1, WorkerFacts DEF WorkerTypeOK
<1>4. /\ \A v \in Workers : pc'[v] = IF v = w THEN "sem_open" ELSE pc[v]
      /\ \A v \in Workers : left'[v] = IF v = w THEN N ELSE left[v]
      /\ \A v \in Workers : v # w => links'[v] = links[v]
  BY <1>1, WorkerFacts DEF WorkerTypeOK, IInv, Typed
<1>5. waiting[w] = NULL
  BY <1>1 DEF IInv, Held, IsActive
<1>6. ValueInv' /\ MutualExclusion'
  <2>1. KeepsValues
    BY <1>1 DEF KeepsValues
  <2>2. \A v \in Workers : Critical(v)' => Critical(v)
    BY <1>1, <1>4 DEF Critical
  <2> QED BY <2>1, <2>2, FrameKeepsExclusion
<1>7. ASSUME NEW v \in Workers PROVE WorkerInv(v)'
  <2>1. CASE v = w
    BY <1>1, <1>4, <1>5, <2>1, WorkerFacts DEF WorkerInv, Holding
  <2>2. CASE v # w
    BY <1>1, <1>4, <2>2 DEF SyncInv, WorkerInv
  <2> QED BY <2>1, <2>2
<1>8. NoLostUpdate'
  BY <1>1 DEF SyncInv, NoLostUpdate
<1> QED BY <1>2, <1>3, <1>6, <1>7, <1>8 DEF SyncInv

\* Who runs changes, or nothing does.
LEMMA IdleKeepsSyncInv ==
  ASSUME SyncInv, TimerTick \/ UNCHANGED syncVars
  PROVE  SyncInv'
<1>1. /\ UNCHANGED <<semaphores, waiting, links, leaked, stray>>
      /\ UNCHANGED <<pc, inc, left, aux, global, created, applied>>
      /\ Tick \/ UNCHANGED vars
  BY DEF TimerTick, Tick, syncVars, vars, semVars, workerVars
<1>2. IInv'
  BY <1>1, YieldKeepsIInv, NextKeepsIInv DEF SyncInv
<1>3. WorkerTypeOK'
  BY <1>1 DEF SyncInv, WorkerTypeOK
<1>4. ValueInv' /\ MutualExclusion'
  <2>1. KeepsValues
    BY <1>1 DEF KeepsValues
  <2>2. \A v \in Workers : Critical(v)' => Critical(v)
    BY <1>1 DEF Critical
  <2> QED BY <2>1, <2>2, FrameKeepsExclusion
<1>5. \A v \in Workers : WorkerInv(v)'
  BY <1>1 DEF SyncInv, WorkerInv
<1>6. NoLostUpdate'
  BY <1>1 DEF SyncInv, NoLostUpdate
<1> QED BY <1>2, <1>3, <1>4, <1>5, <1>6 DEF SyncInv

----------------------------------------------------------------------------

LEMMA SyncInitEstablishesSyncInv == SyncInit => SyncInv
<1> SUFFICES ASSUME SyncInit PROVE SyncInv
  OBVIOUS
<1>1. IInv
  BY InitEstablishesIInv DEF SyncInit
<1>2. /\ pc = [w \in Workers |-> "none"] /\ DOMAIN semaphores = {}
      /\ waiting = [pid \in Pids |-> NULL] /\ global = 0 /\ applied = 0
  BY DEF SyncInit, Init
<1>3. WorkerTypeOK
  BY TestSyncAssumption DEF SyncInit, WorkerTypeOK
<1>4. \A w \in Workers : WorkerInv(w) /\ ~Critical(w)
  BY <1>2, WorkerFacts DEF WorkerInv, Critical, Holding
<1> QED BY <1>1, <1>2, <1>3, <1>4 DEF SyncInv, ValueInv, MutualExclusion, NoLostUpdate

LEMMA SyncNextKeepsSyncInv == SyncInv /\ [SyncNext]_syncVars => SyncInv'
<1> SUFFICES ASSUME SyncInv, [SyncNext]_syncVars PROVE SyncInv'
  OBVIOUS
<1>1. ASSUME NEW w \in Workers, CreateWorker(w) PROVE SyncInv'
  BY <1>1, CreateWorkerKeepsSyncInv
<1>2. ASSUME NEW w \in Workers, Step(w) PROVE SyncInv'
  <2>1. CASE Open(w)
    BY <2>1, OpenKeepsSyncInv
  <2>2. CASE Wait(w)
    BY <2>2, WaitKeepsSyncInv
  <2>3. CASE Read(w)
    BY <2>3, ReadKeepsSyncInv
  <2>4. CASE YieldInside(w)
    BY <2>4, YieldInsideKeepsSyncInv
  <2>5. CASE Write(w)
    BY <2>5, WriteKeepsSyncInv
  <2>6. CASE Post(w)
    BY <2>6, PostKeepsSyncInv
  <2>7. CASE Close(w)
    BY <2>7, CloseKeepsSyncInv
  <2>8. CASE Return(w)
    BY <2>8, ReturnKeepsSyncInv
  <2> QED BY <1>2, <2>1, <2>2, <2>3, <2>4, <2>5, <2>6, <2>7, <2>8 DEF Step
<1>3. CASE Continue
  BY <1>3, ContinueKeepsSyncInv
<1>4. CASE TimerTick \/ UNCHANGED syncVars
  BY <1>4, IdleKeepsSyncInv
<1> QED BY <1>1, <1>2, <1>3, <1>4 DEF SyncNext

(* The workers' variables keep to their types: nobody does a round too many. *)
THEOREM TestSyncWorkerTypeOK == SyncSpec => []WorkerTypeOK
<1>1. SyncInv => WorkerTypeOK
  BY DEF SyncInv
<1> QED BY SyncInitEstablishesSyncInv, SyncNextKeepsSyncInv, <1>1, PTL DEF SyncSpec

(* One worker at a time is between sem_wait and sem_post, however many there are
   and however often the semaphore is destroyed and made anew. *)
THEOREM TestSyncMutualExclusion == SyncSpec => []MutualExclusion
<1>1. SyncInv => MutualExclusion
  BY DEF SyncInv
<1> QED BY SyncInitEstablishesSyncInv, SyncNextKeepsSyncInv, <1>1, PTL DEF SyncSpec

(* The variable is always the sum of what the workers have added. *)
THEOREM TestSyncNoLostUpdate == SyncSpec => []NoLostUpdate
<1>1. SyncInv => NoLostUpdate
  BY DEF SyncInv
<1> QED BY SyncInitEstablishesSyncInv, SyncNextKeepsSyncInv, <1>1, PTL DEF SyncSpec
=============================================================================
