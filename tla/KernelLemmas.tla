---------------------------- MODULE KernelLemmas ----------------------------
(***************************************************************************)
(* The lemmas the proofs of every component rest on: each function of      *)
(* scheduler.c preserves the type of the statics and what ContextsKept and *)
(* OnlyCurrentRuns say of them; what the operations of queue.c do to the   *)
(* queues of pids the kernel keeps; and which processes are asleep after   *)
(* each call of the scheduler.                                             *)
(***************************************************************************)
EXTENDS KernelQueue, SequenceTheorems, FiniteSetTheorems, WellFoundedInduction, TLAPS

SchInv(s) == s \in SchStates /\ ContextsKept(s) /\ OnlyCurrentRuns(s)

\* The quantums of any priority fit the range of the field.
LEMMA QuantumsInRange ==
  /\ 0 \in 0 .. MIN_PRIORITY - MAX_PRIORITY
  /\ \A p \in Priorities : MIN_PRIORITY - p \in 0 .. MIN_PRIORITY - MAX_PRIORITY
BY SchedulerAssumption DEF Priorities

LEMMA InitHasSchInv == SchInv(SchInit)
BY SchedulerAssumption DEF SchInv, SchStates, ContextsKept, OnlyCurrentRuns, SchInit,
   IsActive, Pids, Contexts, Priorities, Statuses, KERNEL_PROC_PID, KILLED_PROC_PID, NULL

\* sch_on_process_create on a free slot, by a live caller.
LEMMA CreateKeepsSchInv ==
  ASSUME NEW s, SchInv(s), NEW pid \in Pids, s.rsp[pid] = NULL, NEW asked \in Int,
         s.current # KILLED_PROC_PID
  PROVE  SchInv(SchOnProcessCreate(s, pid, asked))
<1> DEFINE priority == IF ValidPriority(asked) THEN asked ELSE DEFAULT_PRIORITY
           t == [s EXCEPT !.force = IF priority <= REALTIME_PRIORITY THEN pid ELSE @,
                          !.priority[pid] = priority,
                          !.status[pid] = "READY",
                          !.rsp[pid] = pid]
<1>1. SchOnProcessCreate(s, pid, asked) = t
  BY DEF SchOnProcessCreate
<1>2. priority \in Priorities
  BY SchedulerAssumption DEF ValidPriority, Priorities
<1>3. t \in SchStates
  <2> HIDE DEF priority
  <2>1. [s.priority EXCEPT ![pid] = priority] \in [Pids -> Priorities]
    BY <1>2 DEF SchInv, SchStates
  <2>2. [s.status EXCEPT ![pid] = "READY"] \in [Pids -> Statuses]
    BY DEF SchInv, SchStates, Statuses
  <2>3. [s.rsp EXCEPT ![pid] = pid] \in [Pids -> Pids \cup {NULL}]
    BY DEF SchInv, SchStates
  <2> QED BY <2>1, <2>2, <2>3 DEF SchInv, SchStates
<1>4. /\ t.status = [s.status EXCEPT ![pid] = "READY"]
      /\ t.rsp = [s.rsp EXCEPT ![pid] = pid]
      /\ t.current = s.current /\ t.cpu = s.cpu /\ t.kernel_rsp = s.kernel_rsp
  BY DEF SchInv, SchStates
<1> HIDE DEF t
<1>5. ContextsKept(t)
  BY <1>4 DEF SchInv, SchStates, ContextsKept, IsActive, Pids, NULL
<1>6. OnlyCurrentRuns(t)
  BY <1>4 DEF SchInv, SchStates, OnlyCurrentRuns, IsActive
<1> QED BY <1>1, <1>3, <1>5, <1>6 DEF SchInv

LEMMA KilledKeepsSchInv ==
  ASSUME NEW s, SchInv(s), NEW pid \in Int, NEW status \in ExitStatuses
  PROVE  SchInv(SchOnProcessKilled(s, pid, status))
<1>1. CASE ~IsActive(s, pid) \/ s.status[pid] = "KILLED"
  BY <1>1 DEF SchOnProcessKilled
<1>2. CASE ~(~IsActive(s, pid) \/ s.status[pid] = "KILLED")
  <2> DEFINE t == [s EXCEPT !.status[pid] = "KILLED",
                            !.rsp[pid] = NULL,
                            !.exit_status[pid] = status,
                            !.current = IF @ = pid THEN KILLED_PROC_PID ELSE @]
  <2>1. pid \in Pids /\ SchOnProcessKilled(s, pid, status) = t
    BY <1>2 DEF SchOnProcessKilled, IsActive
  <2>2. t \in SchStates
    <3>1. [s.status EXCEPT ![pid] = "KILLED"] \in [Pids -> Statuses]
      BY DEF SchInv, SchStates, Statuses
    <3>2. [s.rsp EXCEPT ![pid] = NULL] \in [Pids -> Pids \cup {NULL}]
      BY DEF SchInv, SchStates
    <3>3. [s.exit_status EXCEPT ![pid] = status] \in [Pids -> ExitStatuses]
      BY DEF SchInv, SchStates
    <3> QED BY <3>1, <3>2, <3>3 DEF SchInv, SchStates
  <2>3. /\ t.status = [s.status EXCEPT ![pid] = "KILLED"]
        /\ t.rsp = [s.rsp EXCEPT ![pid] = NULL]
        /\ t.current = IF s.current = pid THEN KILLED_PROC_PID ELSE s.current
        /\ t.cpu = s.cpu /\ t.kernel_rsp = s.kernel_rsp
    BY DEF SchInv, SchStates
  <2> HIDE DEF t
  <2>4. ContextsKept(t)
    <3>1. CASE s.current = pid
      <4>1. s.cpu = pid /\ s.kernel_rsp = KERNEL_PROC_PID
        BY <3>1, <2>1 DEF SchInv, ContextsKept, Contexts, Pids, KERNEL_PROC_PID
      <4>2. t.current = KILLED_PROC_PID /\ KILLED_PROC_PID \notin Contexts
        BY <3>1, <2>3 DEF Contexts, Pids, KERNEL_PROC_PID, KILLED_PROC_PID
      <4>3. t.rsp[pid] = NULL /\ \A q \in Pids : IsActive(t, q) => q # pid /\ t.rsp[q] = s.rsp[q]
        BY <2>1, <2>3 DEF SchInv, SchStates, IsActive
      <4> QED
        BY <2>1, <2>3, <4>1, <4>2, <4>3 DEF SchInv, ContextsKept, IsActive, Contexts
    <3>2. CASE s.current # pid
      BY <3>2, <2>1, <2>3 DEF SchInv, SchStates, ContextsKept, IsActive, Pids, Contexts,
         KERNEL_PROC_PID, KILLED_PROC_PID
    <3> QED BY <3>1, <3>2
  <2>5. OnlyCurrentRuns(t)
    <3> SUFFICES ASSUME NEW q \in Pids, IsActive(t, q)
                 PROVE  t.status[q] # "KILLED" /\ (t.status[q] = "RUNNING" => t.current = q)
      BY DEF OnlyCurrentRuns
    <3>1. DOMAIN s.rsp = Pids /\ DOMAIN s.status = Pids
      BY DEF SchInv, SchStates
    <3>2. q # pid /\ IsActive(s, q) /\ t.status[q] = s.status[q]
      BY <2>1, <2>3, <3>1 DEF IsActive
    <3>3. s.status[q] # "KILLED" /\ (s.status[q] = "RUNNING" => s.current = q)
      BY <3>2 DEF SchInv, OnlyCurrentRuns
    <3> QED BY <2>3, <3>2, <3>3
  <2> QED BY <2>1, <2>2, <2>4, <2>5 DEF SchInv
<1> QED BY <1>1, <1>2

LEMMA BlockKeepsSchInv ==
  ASSUME NEW s, SchInv(s), NEW pid \in Int
  PROVE  SchInv(SchBlock(s, pid))
<1>1. CASE ~IsActive(s, pid)
  BY <1>1 DEF SchBlock
<1>2. CASE IsActive(s, pid)
  <2> DEFINE t == [s EXCEPT !.status[pid] = "BLOCKED",
                            !.quantums = IF s.current = pid THEN 0 ELSE @]
  <2>1. pid \in Pids /\ SchBlock(s, pid) = t
    BY <1>2 DEF SchBlock, IsActive
  <2>2. t \in SchStates
    <3>1. [s.status EXCEPT ![pid] = "BLOCKED"] \in [Pids -> Statuses]
      BY DEF SchInv, SchStates, Statuses
    <3> QED BY <3>1, QuantumsInRange DEF SchInv, SchStates
  <2>3. /\ t.status = [s.status EXCEPT ![pid] = "BLOCKED"] /\ t.rsp = s.rsp
        /\ t.current = s.current /\ t.cpu = s.cpu /\ t.kernel_rsp = s.kernel_rsp
    BY DEF SchInv, SchStates
  <2> HIDE DEF t
  <2>4. ContextsKept(t)
    BY <2>3 DEF SchInv, ContextsKept, IsActive
  <2>5. OnlyCurrentRuns(t)
    BY <2>1, <2>3 DEF SchInv, SchStates, OnlyCurrentRuns, IsActive
  <2> QED BY <2>1, <2>2, <2>4, <2>5 DEF SchInv
<1> QED BY <1>1, <1>2

LEMMA UnblockKeepsSchInv ==
  ASSUME NEW s, SchInv(s), NEW pid \in Int
  PROVE  SchInv(SchUnblock(s, pid))
<1>1. CASE ~IsActive(s, pid) \/ s.status[pid] \in {"READY", "RUNNING"}
  BY <1>1 DEF SchUnblock
<1>2. CASE ~(~IsActive(s, pid) \/ s.status[pid] \in {"READY", "RUNNING"})
  <2> DEFINE t == [s EXCEPT !.status[pid] = "READY",
                            !.force = IF s.priority[pid] <= REALTIME_PRIORITY THEN pid ELSE @]
  <2>1. pid \in Pids /\ SchUnblock(s, pid) = t
    BY <1>2 DEF SchUnblock, IsActive
  <2>2. t \in SchStates
    <3>1. [s.status EXCEPT ![pid] = "READY"] \in [Pids -> Statuses]
      BY DEF SchInv, SchStates, Statuses
    <3> QED BY <3>1, <2>1 DEF SchInv, SchStates
  <2>3. /\ t.status = [s.status EXCEPT ![pid] = "READY"] /\ t.rsp = s.rsp
        /\ t.current = s.current /\ t.cpu = s.cpu /\ t.kernel_rsp = s.kernel_rsp
    BY DEF SchInv, SchStates
  <2> HIDE DEF t
  <2>4. ContextsKept(t)
    BY <2>3 DEF SchInv, ContextsKept, IsActive
  <2>5. OnlyCurrentRuns(t)
    BY <2>1, <2>3 DEF SchInv, SchStates, OnlyCurrentRuns, IsActive
  <2> QED BY <2>1, <2>2, <2>4, <2>5 DEF SchInv
<1> QED BY <1>1, <1>2

LEMMA SetPriorityKeepsSchInv ==
  ASSUME NEW s, SchInv(s), NEW pid \in Int, NEW priority \in Int
  PROVE  SchInv(SchSetPriority(s, pid, priority))
<1>1. CASE ~(IsActive(s, pid) /\ ValidPriority(priority))
  BY <1>1 DEF SchSetPriority
<1>2. CASE IsActive(s, pid) /\ ValidPriority(priority)
  <2> DEFINE t == [s EXCEPT !.priority[pid] = priority]
  <2>1. pid \in Pids /\ SchSetPriority(s, pid, priority) = t
    BY <1>2 DEF SchSetPriority, IsActive
  <2>2. t \in SchStates
    BY <1>2 DEF SchInv, SchStates, ValidPriority
  <2>3. /\ t.status = s.status /\ t.rsp = s.rsp
        /\ t.current = s.current /\ t.cpu = s.cpu /\ t.kernel_rsp = s.kernel_rsp
    BY DEF SchInv, SchStates
  <2> HIDE DEF t
  <2> QED BY <2>1, <2>2, <2>3 DEF SchInv, ContextsKept, OnlyCurrentRuns, IsActive
<1> QED BY <1>1, <1>2

----------------------------------------------------------------------------
(* sch_switch: first the context is saved, then the next process chosen. *)

\* Between the two no process is RUNNING, and the kernel's context is kept.
SavedInv(s) ==
  /\ s \in SchStates
  /\ \A pid \in Pids : IsActive(s, pid) =>
       s.rsp[pid] = pid /\ s.status[pid] \notin {"RUNNING", "KILLED"}
  /\ s.kernel_rsp = KERNEL_PROC_PID

LEMMA SaveContextEstablishesSavedInv ==
  ASSUME NEW s, SchInv(s)
  PROVE  SavedInv(SaveContext(s))
<1>1. CASE s.current \in Pids
  <2> DEFINE status == [s.status EXCEPT ![s.current] = IF @ = "RUNNING" THEN "READY" ELSE @]
             rsp == [s.rsp EXCEPT ![s.current] = s.cpu]
             t == [s EXCEPT !.rsp[s.current] = s.cpu,
                            !.status[s.current] = IF @ = "RUNNING" THEN "READY" ELSE @]
  <2>1. SaveContext(s) = t
    BY <1>1 DEF SaveContext
  <2>2. s.cpu = s.current /\ s.kernel_rsp = KERNEL_PROC_PID /\ IsActive(s, s.current)
    BY <1>1 DEF SchInv, ContextsKept, Pids, Contexts, KERNEL_PROC_PID
  <2>3. status \in [Pids -> Statuses] /\ rsp \in [Pids -> Pids \cup {NULL}]
    BY <1>1, <2>2 DEF SchInv, SchStates, Statuses
  <2>4. t.status = status /\ t.rsp = rsp /\ t.kernel_rsp = s.kernel_rsp /\ t \in SchStates
    BY <2>3 DEF SchInv, SchStates
  <2>5. ASSUME NEW pid \in Pids, IsActive(t, pid)
        PROVE  t.rsp[pid] = pid /\ t.status[pid] \notin {"RUNNING", "KILLED"}
    <3> HIDE DEF t
    <3>1. IsActive(s, pid)
      BY <2>2, <2>4, <2>5 DEF IsActive, SchInv, SchStates
    <3>2. s.rsp[pid] = pid /\ s.status[pid] # "KILLED"
          /\ (s.status[pid] = "RUNNING" => pid = s.current)
      BY <3>1 DEF SchInv, ContextsKept, OnlyCurrentRuns
    <3> QED BY <1>1, <2>2, <2>4, <3>2 DEF SchInv, SchStates, Statuses
  <2> QED BY <2>1, <2>2, <2>4, <2>5 DEF SavedInv
<1>2. CASE s.current = KERNEL_PROC_PID
  <2> DEFINE t == [s EXCEPT !.kernel_rsp = s.cpu]
  <2>1. SaveContext(s) = t /\ s.cpu = KERNEL_PROC_PID
    BY <1>2 DEF SaveContext, SchInv, ContextsKept, Pids, Contexts, KERNEL_PROC_PID
  <2>2. t \in SchStates /\ t.kernel_rsp = s.cpu /\ t.status = s.status /\ t.rsp = s.rsp
    BY <2>1 DEF SchInv, SchStates
  <2> HIDE DEF t
  <2>3. \A pid \in Pids : s.current # pid
    BY <1>2 DEF Pids, KERNEL_PROC_PID
  <2> QED BY <2>1, <2>2, <2>3 DEF SavedInv, SchInv, ContextsKept, OnlyCurrentRuns, IsActive
<1>3. CASE s.current \notin Pids /\ s.current # KERNEL_PROC_PID
  BY <1>3 DEF SaveContext, SavedInv, SchInv, ContextsKept, OnlyCurrentRuns, IsActive
<1> QED BY <1>1, <1>2, <1>3

LEMMA DispatchEstablishesSchInv ==
  ASSUME NEW s, SavedInv(s), NEW pid, IsReady(s, pid), NEW force \in Pids \cup {KILLED_PROC_PID}
  PROVE  SchInv([Dispatch(s, pid) EXCEPT !.force = force])
<1> DEFINE t == [Dispatch(s, pid) EXCEPT !.force = force]
<1>1. pid \in Pids /\ s.rsp[pid] = pid /\ s.kernel_rsp = KERNEL_PROC_PID
  BY DEF SavedInv, IsReady, IsActive
<1>2. GetQuantums(s, pid) \in 0 .. MIN_PRIORITY - MAX_PRIORITY
  BY <1>1, QuantumsInRange DEF GetQuantums, SavedInv, SchStates
<1>3. [s.status EXCEPT ![pid] = "RUNNING"] \in [Pids -> Statuses]
  BY DEF SavedInv, SchStates, Statuses
<1>4. /\ t \in SchStates
      /\ t.status = [s.status EXCEPT ![pid] = "RUNNING"] /\ t.rsp = s.rsp
      /\ t.current = pid /\ t.cpu = pid /\ t.kernel_rsp = s.kernel_rsp
  <2> HIDE DEF GetQuantums
  <2> QED BY <1>1, <1>2, <1>3 DEF Dispatch, SavedInv, SchStates, Contexts
<1> HIDE DEF t
<1>5. pid # KILLED_PROC_PID
  BY <1>1 DEF Pids, KILLED_PROC_PID
<1>6. ContextsKept(t)
  BY <1>1, <1>4, <1>5 DEF SavedInv, SchStates, ContextsKept, IsReady, IsActive
<1>7. OnlyCurrentRuns(t)
  BY <1>1, <1>4 DEF SavedInv, SchStates, OnlyCurrentRuns, IsActive
<1> QED BY <1>4, <1>6, <1>7 DEF SchInv, t

LEMMA IdleEstablishesSchInv ==
  ASSUME NEW s, SavedInv(s)
  PROVE  SchInv(Idle(s))
<1> DEFINE t == Idle(s)
<1>1. /\ t \in SchStates /\ t.status = s.status /\ t.rsp = s.rsp
      /\ t.current = KERNEL_PROC_PID /\ t.cpu = KERNEL_PROC_PID
      /\ t.kernel_rsp = s.kernel_rsp
  BY QuantumsInRange DEF Idle, SavedInv, SchStates, Contexts
<1> HIDE DEF t
<1>2. KERNEL_PROC_PID \notin Pids /\ KERNEL_PROC_PID # KILLED_PROC_PID
  BY DEF Pids, KERNEL_PROC_PID, KILLED_PROC_PID
<1>3. SchInv(t)
  BY <1>1, <1>2 DEF SchInv, SavedInv, ContextsKept, OnlyCurrentRuns, IsActive
<1> QED BY <1>3 DEF t

LEMMA KeepRunningEstablishesSchInv ==
  ASSUME NEW s, SavedInv(s), IsReady(s, s.current), s.quantums # 0
  PROVE  SchInv(KeepRunning(s))
<1> DEFINE t == KeepRunning(s)
<1>1. /\ s.current \in Pids /\ s.rsp[s.current] = s.current
      /\ s.kernel_rsp = KERNEL_PROC_PID
  BY DEF SavedInv, IsReady, IsActive
<1>2. s.quantums - 1 \in 0 .. MIN_PRIORITY - MAX_PRIORITY
  BY SchedulerAssumption DEF SavedInv, SchStates
<1>3. [s.status EXCEPT ![s.current] = "RUNNING"] \in [Pids -> Statuses]
  BY DEF SavedInv, SchStates, Statuses
<1>4. /\ t \in SchStates
      /\ t.status = [s.status EXCEPT ![s.current] = "RUNNING"] /\ t.rsp = s.rsp
      /\ t.current = s.current /\ t.cpu = s.current /\ t.kernel_rsp = s.kernel_rsp
  BY <1>1, <1>2, <1>3 DEF KeepRunning, SavedInv, SchStates, Contexts
<1> HIDE DEF t
<1>5. s.current # KILLED_PROC_PID
  BY <1>1 DEF Pids, KILLED_PROC_PID
<1>6. ContextsKept(t)
  BY <1>1, <1>4, <1>5 DEF SavedInv, SchStates, ContextsKept, IsReady, IsActive
<1>7. OnlyCurrentRuns(t)
  BY <1>1, <1>4 DEF SavedInv, SchStates, OnlyCurrentRuns, IsActive
<1> QED BY <1>4, <1>6, <1>7 DEF SchInv, t

LEMMA SwitchKeepsSchInv ==
  ASSUME NEW s, SchInv(s), NEW t, SchSwitch(s, t)
  PROVE  SchInv(t)
<1> DEFINE saved == SaveContext(s)
<1>1. SavedInv(saved)
  BY SaveContextEstablishesSavedInv
<1> HIDE DEF saved
<1>2. CASE IsReady(saved, saved.force)
           /\ t = [Dispatch(saved, saved.force) EXCEPT !.force = KILLED_PROC_PID]
  BY <1>1, <1>2, DispatchEstablishesSchInv
<1>3. ASSUME NEW next \in GetNextReadyPid(saved),
             t = IF next = KERNEL_PROC_PID THEN Idle(saved) ELSE Dispatch(saved, next)
      PROVE  SchInv(t)
  <2>1. CASE next = KERNEL_PROC_PID
    BY <1>1, <1>3, <2>1, IdleEstablishesSchInv
  <2>2. CASE next # KERNEL_PROC_PID
    <3>1. IsReady(saved, next)
      BY <1>3, <2>2 DEF GetNextReadyPid, ReadyPids
    <3>2. /\ saved.force \in Pids \cup {KILLED_PROC_PID}
          /\ [Dispatch(saved, next) EXCEPT !.force = saved.force] = Dispatch(saved, next)
      BY <1>1 DEF SavedInv, SchStates, Dispatch
    <3> QED BY <1>1, <1>3, <2>2, <3>1, <3>2, DispatchEstablishesSchInv
  <2> QED BY <2>1, <2>2
<1>4. CASE IsReady(saved, saved.current) /\ saved.quantums # 0 /\ t = KeepRunning(saved)
  BY <1>1, <1>4, KeepRunningEstablishesSchInv
<1> QED BY <1>2, <1>3, <1>4 DEF SchSwitch, saved

LEMMA YieldKeepsSchInv ==
  ASSUME NEW s, SchInv(s), NEW t, SchYield(s, t)
  PROVE  SchInv(t)
<1> DEFINE u == [s EXCEPT !.quantums = 0]
<1>1. SchInv(u)
  <2>1. /\ u \in SchStates /\ u.status = s.status /\ u.rsp = s.rsp
        /\ u.current = s.current /\ u.cpu = s.cpu /\ u.kernel_rsp = s.kernel_rsp
    BY QuantumsInRange DEF SchInv, SchStates
  <2> HIDE DEF u
  <2> QED BY <2>1 DEF SchInv, ContextsKept, OnlyCurrentRuns, IsActive
<1>2. SchSwitch(u, t)
  BY DEF SchYield
<1> QED BY <1>1, <1>2, SwitchKeepsSchInv

----------------------------------------------------------------------------
(* What each function does to the saved contexts: only creation and death    *)
(* give and take one.                                                        *)

LEMMA CreateGivesContext ==
  ASSUME NEW s, SchInv(s), NEW pid \in Pids, NEW asked
  PROVE  SchOnProcessCreate(s, pid, asked).rsp = [s.rsp EXCEPT ![pid] = pid]
BY DEF SchOnProcessCreate, SchInv, SchStates

LEMMA KilledTakesContext ==
  ASSUME NEW s, SchInv(s), NEW pid \in Pids, NEW status
  PROVE  SchOnProcessKilled(s, pid, status).rsp = [s.rsp EXCEPT ![pid] = NULL]
<1>1. CASE ~IsActive(s, pid)
  BY <1>1 DEF SchOnProcessKilled, IsActive, SchInv, SchStates
<1>2. CASE IsActive(s, pid)
  <2>1. s.status[pid] # "KILLED"
    BY <1>2 DEF SchInv, OnlyCurrentRuns
  <2> QED BY <1>2, <2>1 DEF SchOnProcessKilled, SchInv, SchStates
<1> QED BY <1>1, <1>2

LEMMA CallsKeepContexts ==
  ASSUME NEW s, SchInv(s), NEW pid, NEW priority
  PROVE  /\ SchBlock(s, pid).rsp = s.rsp
         /\ SchUnblock(s, pid).rsp = s.rsp
         /\ SchSetPriority(s, pid, priority).rsp = s.rsp
BY DEF SchBlock, SchUnblock, SchSetPriority, SchInv, SchStates

LEMMA SwitchKeepsContexts ==
  ASSUME NEW s, SchInv(s), NEW t, SchSwitch(s, t)
  PROVE  t.rsp = s.rsp
<1> DEFINE saved == SaveContext(s)
<1>1. saved \in SchStates /\ saved.rsp = s.rsp
  <2>1. CASE s.current \in Pids
    <3>1. s.cpu = s.current /\ s.rsp[s.current] = s.current
      BY <2>1 DEF SchInv, ContextsKept, Contexts
    <3>2. [s.rsp EXCEPT ![s.current] = s.cpu] = s.rsp
      BY <2>1, <3>1 DEF SchInv, SchStates
    <3>3. saved.rsp = [s.rsp EXCEPT ![s.current] = s.cpu]
      BY <2>1 DEF SaveContext, SchInv, SchStates
    <3> QED BY <3>2, <3>3, SaveContextEstablishesSavedInv DEF SavedInv
  <2>2. CASE s.current \notin Pids
    BY <2>2, SaveContextEstablishesSavedInv DEF SaveContext, SavedInv, SchInv, SchStates
  <2> QED BY <2>1, <2>2
<1> HIDE DEF saved
<1>2. \A pid : /\ Dispatch(saved, pid).rsp = saved.rsp
               /\ [Dispatch(saved, pid) EXCEPT !.force = KILLED_PROC_PID].rsp = saved.rsp
  BY <1>1 DEF Dispatch, SchStates
<1>3. Idle(saved).rsp = saved.rsp /\ KeepRunning(saved).rsp = saved.rsp
  BY <1>1 DEF Idle, KeepRunning, SchStates
<1> QED BY <1>1, <1>2, <1>3 DEF SchSwitch, saved

LEMMA YieldKeepsContexts ==
  ASSUME NEW s, SchInv(s), NEW t, SchYield(s, t)
  PROVE  t.rsp = s.rsp
<1> DEFINE u == [s EXCEPT !.quantums = 0]
<1>1. /\ u \in SchStates /\ u.status = s.status /\ u.rsp = s.rsp
      /\ u.current = s.current /\ u.cpu = s.cpu /\ u.kernel_rsp = s.kernel_rsp
  BY QuantumsInRange DEF SchInv, SchStates
<1>2. SchSwitch(u, t)
  BY DEF SchYield
<1> HIDE DEF u
<1>3. SchInv(u)
  BY <1>1 DEF SchInv, ContextsKept, OnlyCurrentRuns, IsActive
<1> QED BY <1>1, <1>2, <1>3, SwitchKeepsContexts

----------------------------------------------------------------------------
(* Sets *)

LEMMA MinFacts ==
  ASSUME NEW S \in SUBSET Nat, S # {}
  PROVE  Min(S) \in S /\ \A y \in S : Min(S) <= y
<1>1. PICK x \in S : \A y \in S : ~(<<y, x>> \in OpToRel(<, Nat))
  BY NatLessThanWellFounded, WFMin, Zenon
<1>2. \A y \in S : ~(y < x)
  BY <1>1, Zenon DEF OpToRel
<1>3. \A y \in S : x <= y
  BY <1>2
<1> QED BY <1>3 DEF Min

LEMMA MaxFacts ==
  ASSUME NEW n \in Nat, NEW S \in SUBSET (0 .. n), S # {}
  PROVE  Max(S) \in S /\ \A y \in S : y <= Max(S)
<1> DEFINE Gaps == {n - y : y \in S}
<1>1. Gaps \in SUBSET Nat /\ Gaps # {}
  <2>1. \A y \in S : n - y \in Nat
    OBVIOUS
  <2> QED BY <2>1
<1>a. PICK g : g = Min(Gaps)
  OBVIOUS
<1>2. g \in Gaps /\ \A h \in Gaps : g <= h
  <2> HIDE DEF Gaps
  <2> QED BY <1>1, <1>a, MinFacts
<1>3. PICK x \in S : g = n - x
  BY <1>2
<1>4. \A y \in S : x >= y
  <2> SUFFICES ASSUME NEW y \in S PROVE x >= y
    OBVIOUS
  <2>1. n - x <= n - y /\ x \in Int /\ y \in Int
    BY <1>2, <1>3
  <2> QED BY <2>1
<1>5. Max(S) \in S /\ \A y \in S : Max(S) >= y
  BY <1>4, Zenon DEF Max
<1> QED BY <1>5

LEMMA MinOfTwo ==
  ASSUME NEW a \in Nat, NEW b \in Nat
  PROVE  Min({a, b}) = IF a <= b THEN a ELSE b
<1> DEFINE S == {a, b}
<1>1. S \in SUBSET Nat /\ S # {} /\ a \in S /\ b \in S
      /\ \A x \in S : x = a \/ x = b
  OBVIOUS
<1> HIDE DEF S
<1>2. Min(S) \in S /\ \A y \in S : Min(S) <= y
  BY <1>1, MinFacts
<1>3. PICK m : m = Min(S)
  OBVIOUS
<1>4. (m = a \/ m = b) /\ m <= a /\ m <= b
  BY <1>1, <1>2, <1>3
<1>5. m = IF a <= b THEN a ELSE b
  BY <1>4
<1> QED BY <1>3, <1>5 DEF S

\* SetToSeq returns each member of a finite set once.
LEMMA SetToSeqFacts ==
  ASSUME NEW S, IsFiniteSet(S)
  PROVE  SetToSeq(S) \in Seq(S) /\ IsInjective(SetToSeq(S)) /\ Range(SetToSeq(S)) = S
<1> DEFINE n == Cardinality(S)
           f == SetToSeq(S)
<1>1. n \in Nat /\ ExistsBijection(1 .. n, S)
  BY FS_CardinalityType
<1>2. PICK g : g \in Bijection(1 .. n, S)
  BY <1>1 DEF ExistsBijection
<1>3. g \in [1 .. n -> S] /\ IsInjective(g)
  BY <1>2 DEF Bijection, Injection, IsInjective
<1>4. f \in [1 .. n -> S] /\ IsInjective(f)
  BY <1>3 DEF SetToSeq
<1> HIDE DEF f
<1>5. f \in Seq(S)
  BY <1>1, <1>4
<1>6. Range(f) = S
  <2> DEFINE m == 1 .. n
  <2>1. f \in Injection(m, S)
    BY <1>4 DEF Injection, IsInjective
  <2>2. IsFiniteSet(m) /\ Cardinality(m) = n
    BY <1>1, FS_CountingElements, FS_Interval
  <2> HIDE DEF m
  <2>3. f \in Surjection(m, S)
    BY <2>1, <2>2, FS_Injection
  <2> QED BY <1>4, <2>3 DEF Surjection, Range, m
<1> QED BY <1>4, <1>5, <1>6 DEF f

----------------------------------------------------------------------------
(* Queues *)

LEMMA AppendFacts ==
  ASSUME NEW S, NEW q \in Seq(S), NEW e \in S
  PROVE  LET r == Append(q, e)
         IN  /\ r \in Seq(S) /\ r # <<>> /\ Len(r) = Len(q) + 1
             /\ \A i \in 1 .. Len(q) : r[i] = q[i]
             /\ r[Len(q) + 1] = e
             /\ Range(r) = Range(q) \cup {e}
<1> DEFINE r == Append(q, e)
<1>1. /\ r \in Seq(S) /\ r # <<>> /\ Len(r) = Len(q) + 1
      /\ \A i \in 1 .. Len(q) : r[i] = q[i]
      /\ r[Len(q) + 1] = e /\ Len(q) \in Nat
  BY AppendProperties, LenProperties
<1> HIDE DEF r
<1>2. Range(r) = {r[i] : i \in 1 .. Len(r)} /\ Range(q) = {q[i] : i \in 1 .. Len(q)}
  BY <1>1, RangeEquality
<1>3. 1 .. Len(r) = 1 .. Len(q) \cup {Len(q) + 1}
  BY <1>1
<1>4. Range(r) = Range(q) \cup {e}
  BY <1>1, <1>2, <1>3
<1> QED BY <1>1, <1>4 DEF r

LEMMA AppendKeepsInjective ==
  ASSUME NEW S, NEW q \in Seq(S), IsInjective(q), NEW e \in S, e \notin Range(q)
  PROVE  IsInjective(Append(q, e))
<1> DEFINE r == Append(q, e)
<1>1. /\ r \in Seq(S) /\ Len(r) = Len(q) + 1 /\ r[Len(q) + 1] = e
      /\ \A i \in 1 .. Len(q) : r[i] = q[i]
  BY AppendFacts
<1> HIDE DEF r
<1>2. /\ Len(q) \in Nat /\ DOMAIN q = 1 .. Len(q) /\ DOMAIN r = 1 .. Len(q) + 1
      /\ \A i \in 1 .. Len(q) : q[i] # e
  BY <1>1, LenProperties DEF Range
<1>3. IsInjective(r)
  BY <1>1, <1>2 DEF IsInjective
<1> QED BY <1>3 DEF r

LEMMA TailFacts ==
  ASSUME NEW S, NEW q \in Seq(S), q # <<>>, IsInjective(q)
  PROVE  /\ Head(q) \in S /\ Head(q) \in Range(q)
         /\ Tail(q) \in Seq(S) /\ IsInjective(Tail(q))
         /\ Range(Tail(q)) = Range(q) \ {Head(q)}
<1> DEFINE r == Tail(q)
<1>1. /\ Len(q) \in Nat \ {0} /\ DOMAIN q = 1 .. Len(q)
      /\ Head(q) = q[1] /\ Head(q) \in S
      /\ r \in Seq(S) /\ Len(r) = Len(q) - 1
      /\ \A i \in 1 .. Len(q) - 1 : r[i] = q[i + 1]
  BY EmptySeq, LenProperties, HeadTailProperties
<1>2. DOMAIN r = 1 .. Len(q) - 1
  BY <1>1, LenProperties
<1> HIDE DEF r
<1>3. IsInjective(r)
  <2> SUFFICES ASSUME NEW i \in 1 .. Len(q) - 1, NEW j \in 1 .. Len(q) - 1, r[i] = r[j] PROVE i = j
    BY <1>2 DEF IsInjective
  <2>1. i + 1 \in 1 .. Len(q) /\ j + 1 \in 1 .. Len(q) /\ q[i + 1] = q[j + 1]
    BY <1>1
  <2>2. i + 1 = j + 1
    BY <1>1, <2>1 DEF IsInjective
  <2> QED BY <2>2
<1>4. Range(q) = {q[i] : i \in 1 .. Len(q)} /\ Range(r) = {q[i + 1] : i \in 1 .. Len(q) - 1}
  BY <1>1, <1>2 DEF Range
<1>5. \A i \in 1 .. Len(q) - 1 : q[i + 1] # q[1]
  BY <1>1 DEF IsInjective
<1>6. Range(r) = Range(q) \ {q[1]}
  <2>1. ASSUME NEW x \in Range(q), x # q[1]
        PROVE  x \in Range(r)
    <3> PICK i \in 1 .. Len(q) : x = q[i]
      BY <1>4
    <3>1. i # 1 /\ i - 1 \in 1 .. Len(q) - 1 /\ x = q[(i - 1) + 1]
      BY <1>1, <2>1
    <3> QED BY <1>4, <3>1
  <2>2. ASSUME NEW x \in Range(r)
        PROVE  x \in Range(q) /\ x # q[1]
    <3> PICK i \in 1 .. Len(q) - 1 : x = q[i + 1]
      BY <1>4
    <3>1. i + 1 \in 1 .. Len(q)
      BY <1>1
    <3> QED BY <1>4, <1>5, <3>1
  <2> QED BY <2>1, <2>2
<1> QED BY <1>1, <1>3, <1>4, <1>6 DEF r

\* The facts of the library on SubSeq, for a segment of a sequence.
LEMMA SegmentFacts ==
  ASSUME NEW S, NEW q \in Seq(S), NEW m \in 1 .. Len(q) + 1, NEW n \in m - 1 .. Len(q)
  PROVE  LET r == SubSeq(q, m, n)
         IN  /\ r \in Seq(S) /\ Len(r) = n - m + 1
             /\ \A i \in 1 .. n - m + 1 : r[i] = q[m + i - 1]
<1>1. Len(q) \in Nat /\ \A i \in 1 .. Len(q) : q[i] \in S
  BY ElementOfSeq, LenProperties
<1>2. m \in Int /\ n \in Int /\ \A i \in m .. n : q[i] \in S
  BY <1>1
<1>3. /\ SubSeq(q, m, n) \in Seq(S)
      /\ Len(SubSeq(q, m, n)) = IF m <= n THEN n - m + 1 ELSE 0
      /\ \A i \in 1 .. n - m + 1 : SubSeq(q, m, n)[i] = q[m + i - 1]
  BY <1>2, SubSeqProperties
<1>4. n - m + 1 = IF m <= n THEN n - m + 1 ELSE 0
  BY <1>1
<1> QED BY <1>3, <1>4

LEMMA FrontFacts ==
  ASSUME NEW S, NEW q \in Seq(S), q # <<>>
  PROVE  /\ Len(q) \in Nat \ {0} /\ Last(q) \in S /\ Last(q) = q[Len(q)]
         /\ Front(q) \in Seq(S) /\ Len(Front(q)) = Len(q) - 1
         /\ \A i \in 1 .. Len(q) - 1 : Front(q)[i] = q[i]
<1>1. Len(q) \in Nat \ {0}
  BY EmptySeq
<1>2. \A i \in 1 .. Len(q) : q[i] \in S
  BY ElementOfSeq
<1>3. /\ SubSeq(q, 1, Len(q) - 1) \in Seq(S)
      /\ Len(SubSeq(q, 1, Len(q) - 1)) = Len(q) - 1
      /\ \A i \in 1 .. Len(q) - 1 : SubSeq(q, 1, Len(q) - 1)[i] = q[i]
  <2> DEFINE n == Len(q) - 1
  <2>1. 1 \in 1 .. Len(q) + 1 /\ n \in 1 - 1 .. Len(q) /\ n - 1 + 1 = n
        /\ \A i \in 1 .. n : 1 + i - 1 = i
    BY <1>1
  <2> HIDE DEF n
  <2>2. /\ SubSeq(q, 1, n) \in Seq(S) /\ Len(SubSeq(q, 1, n)) = n
        /\ \A i \in 1 .. n : SubSeq(q, 1, n)[i] = q[i]
    BY <2>1, SegmentFacts
  <2> QED BY <2>2 DEF n
<1> QED BY <1>1, <1>2, <1>3 DEF Front, Last

LEMMA RemoveFirstFacts ==
  ASSUME NEW S, NEW q \in Seq(S), IsInjective(q), NEW e
  PROVE  LET r == RemoveFirst(q, e)
         IN  r \in Seq(S) /\ IsInjective(r) /\ Range(r) = Range(q) \ {e}
<1>0. Len(q) \in Nat /\ DOMAIN q = 1 .. Len(q) /\ \A i \in 1 .. Len(q) : q[i] \in S
  BY ElementOfSeq, LenProperties
<1>1. CASE \E i \in 1 .. Len(q) : q[i] = e
  <2> PICK i \in 1 .. Len(q) : q[i] = e
    BY <1>1
  <2> DEFINE r == RemoveAt(q, i)
  <2>1. \A j \in 1 .. Len(q) : q[j] = e => j = i
    BY <1>0 DEF IsInjective
  <2>2. RemoveFirst(q, e) = r
    <3>1. {j \in 1 .. Len(q) : q[j] = e} = {i}
      BY <2>1
    <3>2. Min({i}) = i
      BY <1>0 DEF Min
    <3> QED BY <1>1, <3>1, <3>2 DEF RemoveFirst, SelectInSeq
  <2>3. /\ r \in Seq(S) /\ Len(r) = Len(q) - 1
        /\ \A j \in 1 .. Len(q) - 1 : r[j] = IF j < i THEN q[j] ELSE q[j + 1]
    <3> DEFINE low == SubSeq(q, 1, i - 1)
               high == SubSeq(q, i + 1, Len(q))
    <3>0. /\ 1 \in 1 .. Len(q) + 1 /\ i - 1 \in 1 - 1 .. Len(q)
          /\ i + 1 \in 1 .. Len(q) + 1 /\ Len(q) \in i + 1 - 1 .. Len(q)
          /\ (i - 1) - 1 + 1 = i - 1 /\ Len(q) - (i + 1) + 1 = Len(q) - i
          /\ \A j \in 1 .. i - 1 : 1 + j - 1 = j
          /\ \A j \in 1 .. Len(q) - i : (i + 1) + j - 1 = i + j
      BY <1>0
    <3>1. /\ low \in Seq(S) /\ Len(low) = i - 1
          /\ \A j \in 1 .. i - 1 : low[j] = q[j]
      <4> DEFINE n == i - 1
      <4>1. /\ SubSeq(q, 1, n) \in Seq(S) /\ Len(SubSeq(q, 1, n)) = n - 1 + 1
            /\ \A j \in 1 .. n - 1 + 1 : SubSeq(q, 1, n)[j] = q[1 + j - 1]
        <5> n \in 1 - 1 .. Len(q) /\ 1 \in 1 .. Len(q) + 1
          BY <3>0
        <5> HIDE DEF n
        <5> QED BY SegmentFacts
      <4> QED BY <3>0, <4>1
    <3>2. /\ high \in Seq(S) /\ Len(high) = Len(q) - i
          /\ \A j \in 1 .. Len(q) - i : high[j] = q[i + j]
      <4> DEFINE m == i + 1
                 n == Len(q)
      <4>1. /\ SubSeq(q, m, n) \in Seq(S) /\ Len(SubSeq(q, m, n)) = n - m + 1
            /\ \A j \in 1 .. n - m + 1 : SubSeq(q, m, n)[j] = q[m + j - 1]
        <5> m \in 1 .. Len(q) + 1 /\ n \in m - 1 .. Len(q)
          BY <3>0
        <5> HIDE DEF m, n
        <5> QED BY SegmentFacts
      <4> QED BY <3>0, <4>1
    <3> HIDE DEF low, high
    <3>3. /\ low \o high \in Seq(S) /\ Len(low \o high) = Len(q) - 1
          /\ \A j \in 1 .. Len(q) - 1 :
               (low \o high)[j] = IF j <= Len(low) THEN low[j] ELSE high[j - Len(low)]
      <4>1. /\ low \o high \in Seq(S) /\ Len(low \o high) = Len(low) + Len(high)
            /\ \A j \in 1 .. Len(low) + Len(high) :
                 (low \o high)[j] = IF j <= Len(low) THEN low[j] ELSE high[j - Len(low)]
        BY <3>1, <3>2, ConcatProperties
      <4>2. Len(low) + Len(high) = Len(q) - 1
        BY <1>0, <3>1, <3>2
      <4> QED BY <4>1, <4>2
    <3>4. \A j \in 1 .. Len(q) - 1 : (low \o high)[j] = IF j < i THEN q[j] ELSE q[j + 1]
      BY <1>0, <3>1, <3>2, <3>3
    <3> QED BY <3>3, <3>4 DEF RemoveAt, low, high
  <2>4. DOMAIN r = 1 .. Len(q) - 1
    BY <2>3, LenProperties
  <2> HIDE DEF r
  <2>5. IsInjective(r)
    <3> SUFFICES ASSUME NEW j \in 1 .. Len(q) - 1, NEW k \in 1 .. Len(q) - 1, r[j] = r[k] PROVE j = k
      BY <2>4 DEF IsInjective
    <3> DEFINE from(n) == IF n < i THEN n ELSE n + 1
    <3>1. from(j) \in 1 .. Len(q) /\ from(k) \in 1 .. Len(q) /\ q[from(j)] = q[from(k)]
      BY <1>0, <2>3
    <3>2. from(j) = from(k)
      BY <1>0, <3>1 DEF IsInjective
    <3> QED BY <1>0, <3>2
  <2>6. Range(r) \subseteq Range(q) \ {e}
    BY <1>0, <2>1, <2>3, <2>4 DEF Range
  <2>7. ASSUME NEW x \in Range(q), x # e
        PROVE  x \in Range(r)
    <3> PICK j \in 1 .. Len(q) : x = q[j]
      BY <1>0 DEF Range
    <3>1. CASE j < i
      BY <1>0, <2>3, <2>4, <3>1 DEF Range
    <3>2. CASE j > i
      <4>1. j - 1 \in 1 .. Len(q) - 1 /\ r[j - 1] = q[(j - 1) + 1]
        BY <1>0, <2>3, <3>2
      <4> QED BY <1>0, <2>4, <4>1 DEF Range
    <3> QED BY <2>7, <3>1, <3>2
  <2> QED BY <2>2, <2>3, <2>5, <2>6, <2>7
<1>2. CASE ~\E i \in 1 .. Len(q) : q[i] = e
  BY <1>0, <1>2 DEF RemoveFirst, Range
<1> QED BY <1>1, <1>2

----------------------------------------------------------------------------
(* Who is asleep *)

\* A process the scheduler does not dispatch until somebody unblocks it.
Asleep(s, pid) == IsActive(s, pid) /\ s.status[pid] = "BLOCKED"

\* Waking a queue dispatches nobody, puts nobody to sleep and leaves nobody of it
\* asleep.
LEMMA UnblockAllFacts ==
  ASSUME NEW s, SchInv(s), NEW queue \in Seq(Int), NEW t, t = QueueUnblockAll(s, queue)
  PROVE  /\ SchInv(t) /\ t.rsp = s.rsp /\ t.current = s.current /\ t.cpu = s.cpu
         /\ \A pid \in Pids : Asleep(t, pid) <=> Asleep(s, pid) /\ pid \notin Range(queue)
<1> DEFINE Wakes(pid) == IsActive(s, pid) /\ s.status[pid] \notin {"READY", "RUNNING"}
           realtime == {i \in LastPlaces(queue) :
                          Wakes(queue[i]) /\ s.priority[queue[i]] <= REALTIME_PRIORITY}
           status == [pid \in Pids |-> IF pid \in Range(queue) /\ Wakes(pid)
                                       THEN "READY" ELSE s.status[pid]]
           force == IF realtime = {} THEN s.force ELSE queue[Min(realtime)]
<1>1. t = IF queue = <<>> \/ status = s.status THEN s ELSE [s EXCEPT !.status = status, !.force = force]
  BY DEF QueueUnblockAll
<1>2. force \in Pids \cup {KILLED_PROC_PID}
  <2>1. CASE realtime = {}
    BY <2>1 DEF SchInv, SchStates
  <2>2. CASE realtime # {}
    <3>1. realtime \in SUBSET Nat
      BY DEF LastPlaces
    <3>2. Min(realtime) \in realtime
      BY <2>2, <3>1, MinFacts
    <3>3. \A i \in realtime : queue[i] \in Pids
      BY DEF IsActive
    <3> HIDE DEF realtime
    <3> QED BY <2>2, <3>2, <3>3
  <2> QED BY <2>1, <2>2
<1>3. status \in [Pids -> Statuses]
  BY DEF SchInv, SchStates, Statuses
<1>4. \A pid \in Pids : status[pid] = IF pid \in Range(queue) /\ Wakes(pid)
                                      THEN "READY" ELSE s.status[pid]
  OBVIOUS
<1> HIDE DEF force, status
<1>5. /\ t \in SchStates /\ t.status = status /\ t.rsp = s.rsp
      /\ t.current = s.current /\ t.cpu = s.cpu /\ t.kernel_rsp = s.kernel_rsp
  <2>1. CASE status = s.status
    BY <1>1, <2>1 DEF SchInv
  <2>2. CASE status # s.status
    <3>0. queue # <<>>
      <4>1. queue = <<>> => Range(queue) = {}
        BY DEF Range
      <4> QED BY <1>3, <1>4, <2>2, <4>1 DEF SchInv, SchStates
    <3>1. t = [s EXCEPT !.status = status, !.force = force]
      BY <1>1, <2>2, <3>0
    <3> QED BY <1>2, <1>3, <3>1 DEF SchInv, SchStates
  <2> QED BY <2>1, <2>2
<1>6. ContextsKept(t)
  BY <1>5 DEF SchInv, ContextsKept, IsActive
<1>7. OnlyCurrentRuns(t)
  BY <1>4, <1>5 DEF SchInv, OnlyCurrentRuns, IsActive
<1>8. \A pid \in Pids : Asleep(t, pid) <=> Asleep(s, pid) /\ pid \notin Range(queue)
  BY <1>4, <1>5 DEF Asleep, IsActive
<1> QED BY <1>5, <1>6, <1>7, <1>8 DEF SchInv

LEMMA UnblockFacts ==
  ASSUME NEW s, SchInv(s), NEW pid \in Int, NEW t, t = SchUnblock(s, pid)
  PROVE  /\ SchInv(t) /\ t.rsp = s.rsp /\ t.current = s.current /\ t.cpu = s.cpu
         /\ \A q \in Pids : Asleep(t, q) <=> Asleep(s, q) /\ q # pid
<1>1. SchInv(t)
  BY UnblockKeepsSchInv
<1>2. CASE ~IsActive(s, pid) \/ s.status[pid] \in {"READY", "RUNNING"}
  BY <1>1, <1>2 DEF SchUnblock, Asleep
<1>3. CASE ~(~IsActive(s, pid) \/ s.status[pid] \in {"READY", "RUNNING"})
  <2>1. t = [s EXCEPT !.status[pid] = "READY",
                      !.force = IF s.priority[pid] <= REALTIME_PRIORITY THEN pid ELSE @]
    BY <1>3 DEF SchUnblock
  <2>2. /\ t.status = [s.status EXCEPT ![pid] = "READY"] /\ t.rsp = s.rsp
        /\ t.current = s.current /\ t.cpu = s.cpu
    BY <2>1 DEF SchInv, SchStates
  <2>3. s.status \in [Pids -> Statuses] /\ pid \in Pids
    BY <1>3 DEF SchInv, SchStates, IsActive
  <2> QED BY <1>1, <2>2, <2>3 DEF Asleep, IsActive
<1> QED BY <1>2, <1>3

LEMMA BlockFacts ==
  ASSUME NEW s, SchInv(s), NEW pid \in Int, NEW t, t = SchBlock(s, pid)
  PROVE  /\ SchInv(t) /\ t.rsp = s.rsp /\ t.current = s.current /\ t.cpu = s.cpu
         /\ \A q \in Pids : Asleep(t, q) <=> Asleep(s, q) \/ (q = pid /\ IsActive(s, q))
<1>1. SchInv(t)
  BY BlockKeepsSchInv
<1>2. CASE ~IsActive(s, pid)
  BY <1>1, <1>2 DEF SchBlock, Asleep
<1>3. CASE IsActive(s, pid)
  <2>1. t = [s EXCEPT !.status[pid] = "BLOCKED",
                      !.quantums = IF s.current = pid THEN 0 ELSE @]
    BY <1>3 DEF SchBlock
  <2>2. /\ t.status = [s.status EXCEPT ![pid] = "BLOCKED"] /\ t.rsp = s.rsp
        /\ t.current = s.current /\ t.cpu = s.cpu
    BY <2>1 DEF SchInv, SchStates
  <2>3. s.status \in [Pids -> Statuses] /\ pid \in Pids
    BY <1>3 DEF SchInv, SchStates, IsActive
  <2> QED BY <1>1, <2>2, <2>3 DEF Asleep, IsActive
<1> QED BY <1>2, <1>3

\* A switch gives the processor to a process that is awake, or to nobody, and
\* neither wakes anybody nor puts anybody to sleep.
LEMMA SwitchFacts ==
  ASSUME NEW s, SchInv(s), NEW t, SchSwitch(s, t)
  PROVE  /\ SchInv(t) /\ t.rsp = s.rsp /\ t.current \in Contexts /\ t.cpu = t.current
         /\ t.current \in Pids => t.status[t.current] = "RUNNING"
         /\ \A pid \in Pids : Asleep(t, pid) <=> Asleep(s, pid)
<1> DEFINE saved == SaveContext(s)
<1>1. SchInv(t) /\ t.rsp = s.rsp
  BY SwitchKeepsSchInv, SwitchKeepsContexts
<1>2. SavedInv(saved) /\ saved.rsp = s.rsp
      /\ \A pid \in Pids : saved.status[pid] = "BLOCKED" <=> s.status[pid] = "BLOCKED"
  <2>1. SavedInv(saved)
    BY SaveContextEstablishesSavedInv
  <2>2. CASE s.current \in Pids
    <3>1. saved = [s EXCEPT !.rsp[s.current] = s.cpu,
                            !.status[s.current] = IF @ = "RUNNING" THEN "READY" ELSE @]
      BY <2>2 DEF SaveContext
    <3>2. /\ saved.status = [s.status EXCEPT ![s.current] = IF @ = "RUNNING" THEN "READY" ELSE @]
          /\ saved.rsp = [s.rsp EXCEPT ![s.current] = s.cpu]
          /\ s.status \in [Pids -> Statuses] /\ s.rsp \in [Pids -> Pids \cup {NULL}]
      BY <3>1 DEF SchInv, SchStates
    <3>3. s.cpu = s.current /\ s.rsp[s.current] = s.current
      BY <2>2 DEF SchInv, ContextsKept, Contexts
    <3> HIDE DEF saved
    <3> QED BY <2>1, <2>2, <3>2, <3>3
  <2>3. CASE s.current \notin Pids
    BY <2>1, <2>3 DEF SaveContext, SchInv, SchStates
  <2> QED BY <2>2, <2>3
<1> DEFINE Good(u) ==
      /\ u.current \in Contexts /\ u.cpu = u.current
      /\ u.current \in Pids => u.status[u.current] = "RUNNING"
      /\ \A pid \in Pids : u.status[pid] = "BLOCKED" <=> saved.status[pid] = "BLOCKED"
<1>3. ASSUME NEW pid, IsReady(saved, pid)
      PROVE  /\ Good(Dispatch(saved, pid))
             /\ Good([Dispatch(saved, pid) EXCEPT !.force = KILLED_PROC_PID])
  <2> DEFINE u == Dispatch(saved, pid)
             f == [u EXCEPT !.force = KILLED_PROC_PID]
  <2>1. pid \in Pids /\ saved.rsp[pid] = pid /\ saved.status[pid] = "READY"
        /\ saved.status \in [Pids -> Statuses]
    BY <1>2, <1>3 DEF IsReady, IsActive, SavedInv, SchStates
  <2>2. /\ u.current = pid /\ u.cpu = pid /\ u.status = [saved.status EXCEPT ![pid] = "RUNNING"]
        /\ f.current = pid /\ f.cpu = pid /\ f.status = u.status
    BY <1>2, <2>1 DEF Dispatch, SavedInv, SchStates
  <2> HIDE DEF u, f, saved
  <2>3. Good(u) /\ Good(f)
    BY <2>1, <2>2 DEF Contexts
  <2> QED BY <2>3 DEF u, f
<1>4. Good(Idle(saved))
  <2>1. /\ Idle(saved).current = KERNEL_PROC_PID /\ Idle(saved).cpu = KERNEL_PROC_PID
        /\ Idle(saved).status = saved.status
    BY <1>2 DEF Idle, SavedInv, SchStates
  <2> HIDE DEF saved
  <2> QED BY <2>1 DEF Contexts, Pids, KERNEL_PROC_PID
<1>5. ASSUME IsReady(saved, saved.current)
      PROVE  Good(KeepRunning(saved))
  <2> DEFINE u == KeepRunning(saved)
             pid == saved.current
  <2>1. pid \in Pids /\ saved.rsp[pid] = pid /\ saved.status[pid] = "READY"
        /\ saved.status \in [Pids -> Statuses]
    BY <1>2, <1>5 DEF IsReady, IsActive, SavedInv, SchStates
  <2>2. u.current = pid /\ u.cpu = pid /\ u.status = [saved.status EXCEPT ![pid] = "RUNNING"]
    BY <1>2, <2>1 DEF KeepRunning, SavedInv, SchStates
  <2> HIDE DEF u, pid, saved
  <2>3. Good(u)
    BY <2>1, <2>2 DEF Contexts
  <2> QED BY <2>3 DEF u
<1>6. Good(t)
  <2>1. CASE /\ IsReady(saved, saved.force)
             /\ t = [Dispatch(saved, saved.force) EXCEPT !.force = KILLED_PROC_PID]
    <3> HIDE DEF saved, Good
    <3> QED BY <1>3, <2>1
  <2>2. ASSUME NEW next \in GetNextReadyPid(saved),
               t = IF next = KERNEL_PROC_PID THEN Idle(saved) ELSE Dispatch(saved, next)
        PROVE  Good(t)
    <3>1. next # KERNEL_PROC_PID => IsReady(saved, next)
      BY <2>2 DEF GetNextReadyPid, ReadyPids
    <3> HIDE DEF saved, Good
    <3> QED BY <1>3, <1>4, <2>2, <3>1
  <2>3. CASE IsReady(saved, saved.current) /\ t = KeepRunning(saved)
    <3> HIDE DEF saved, Good
    <3> QED BY <1>5, <2>3
  <2> QED
    <3> HIDE DEF Good
    <3> QED BY <2>1, <2>2, <2>3 DEF SchSwitch
<1> HIDE DEF saved
<1> QED BY <1>1, <1>2, <1>6 DEF Asleep, IsActive

LEMMA YieldFacts ==
  ASSUME NEW s, SchInv(s), NEW t, SchYield(s, t)
  PROVE  /\ SchInv(t) /\ t.rsp = s.rsp /\ t.current \in Contexts /\ t.cpu = t.current
         /\ t.current \in Pids => t.status[t.current] = "RUNNING"
         /\ \A pid \in Pids : Asleep(t, pid) <=> Asleep(s, pid)
<1> DEFINE u == [s EXCEPT !.quantums = 0]
<1>1. /\ u \in SchStates /\ u.status = s.status /\ u.rsp = s.rsp
      /\ u.current = s.current /\ u.cpu = s.cpu /\ u.kernel_rsp = s.kernel_rsp
  BY QuantumsInRange DEF SchInv, SchStates
<1>2. SchSwitch(u, t)
  BY DEF SchYield
<1> HIDE DEF u
<1>3. SchInv(u)
  BY <1>1 DEF SchInv, ContextsKept, OnlyCurrentRuns, IsActive
<1>4. \A pid \in Pids : Asleep(u, pid) <=> Asleep(s, pid)
  BY <1>1 DEF Asleep, IsActive
<1> QED BY <1>1, <1>2, <1>3, <1>4, SwitchFacts

LEMMA CreateFacts ==
  ASSUME NEW s, SchInv(s), NEW pid \in Pids, s.rsp[pid] = NULL, s.current # KILLED_PROC_PID,
         NEW asked \in Int, NEW t, t = SchOnProcessCreate(s, pid, asked)
  PROVE  /\ SchInv(t) /\ t.rsp = [s.rsp EXCEPT ![pid] = pid]
         /\ t.current = s.current /\ t.cpu = s.cpu
         /\ \A q \in Pids : Asleep(t, q) <=> Asleep(s, q)
<1>1. SchInv(t) /\ t.rsp = [s.rsp EXCEPT ![pid] = pid]
  BY CreateKeepsSchInv, CreateGivesContext
<1>2. /\ t.status = [s.status EXCEPT ![pid] = "READY"]
      /\ t.current = s.current /\ t.cpu = s.cpu
      /\ s.status \in [Pids -> Statuses] /\ s.rsp \in [Pids -> Pids \cup {NULL}]
  BY DEF SchOnProcessCreate, SchInv, SchStates
<1>3. \A q \in Pids : Asleep(t, q) <=> Asleep(s, q)
  BY <1>1, <1>2 DEF Asleep, IsActive
<1> QED BY <1>1, <1>2, <1>3

LEMMA KilledFacts ==
  ASSUME NEW s, SchInv(s), NEW pid \in Pids, NEW status \in ExitStatuses,
         NEW t, t = SchOnProcessKilled(s, pid, status)
  PROVE  /\ SchInv(t) /\ t.rsp = [s.rsp EXCEPT ![pid] = NULL]
         /\ t.current = (IF IsActive(s, pid) /\ s.current = pid
                         THEN KILLED_PROC_PID ELSE s.current)
         /\ \A q \in Pids : Asleep(t, q) <=> Asleep(s, q) /\ q # pid
<1>1. SchInv(t) /\ t.rsp = [s.rsp EXCEPT ![pid] = NULL]
  <2>1. pid \in Int
    BY DEF Pids
  <2> QED BY <2>1, KilledKeepsSchInv, KilledTakesContext
<1>2. CASE ~IsActive(s, pid)
  BY <1>1, <1>2 DEF SchOnProcessKilled, Asleep
<1>3. CASE IsActive(s, pid)
  <2>1. s.status[pid] # "KILLED"
    BY <1>3 DEF SchInv, OnlyCurrentRuns
  <2>2. t = [s EXCEPT !.status[pid] = "KILLED", !.rsp[pid] = NULL, !.exit_status[pid] = status,
                      !.current = IF @ = pid THEN KILLED_PROC_PID ELSE @]
    BY <1>3, <2>1 DEF SchOnProcessKilled
  <2>3. /\ t.status = [s.status EXCEPT ![pid] = "KILLED"]
        /\ t.current = IF s.current = pid THEN KILLED_PROC_PID ELSE s.current
        /\ s.status \in [Pids -> Statuses] /\ s.rsp \in [Pids -> Pids \cup {NULL}]
    BY <2>2 DEF SchInv, SchStates
  <2>4. \A q \in Pids : Asleep(t, q) <=> Asleep(s, q) /\ q # pid
    BY <1>1, <2>3 DEF Asleep, IsActive
  <2> QED BY <1>1, <1>3, <2>3, <2>4
<1> QED BY <1>2, <1>3

----------------------------------------------------------------------------
(* Induction on the number of members *)

\* A set of naturals that no least one is missing from.
LEMMA NaturalInduction ==
  ASSUME NEW G, 0 \in G, \A n \in Nat : n \in G => n + 1 \in G
  PROVE  Nat \subseteq G
<1> SUFFICES ASSUME NEW k \in Nat, k \notin G PROVE FALSE
  OBVIOUS
<1> DEFINE T == {n \in Nat : n \notin G}
<1>1. T \subseteq Nat /\ T # {}
  OBVIOUS
<1>2. PICK m \in T : \A n \in T : ~(<<n, m>> \in OpToRel(<, Nat))
  <2> HIDE DEF T
  <2> QED BY <1>1, NatLessThanWellFounded, WFMin, Zenon
<1>3. \A n \in T : ~(n < m)
  BY <1>2 DEF OpToRel
<1>4. m # 0 /\ m - 1 \in Nat /\ m - 1 \notin T
  BY <1>3
<1>5. m - 1 \in G /\ m = (m - 1) + 1
  BY <1>4
<1>6. (m - 1) + 1 \in G
  BY <1>4, <1>5
<1> QED BY <1>5, <1>6

\* Subsets of a finite set that have at most n members.
Small(S, n) == {s \in SUBSET S : Cardinality(s) <= n}

LEMMA SmallFacts ==
  ASSUME NEW S, IsFiniteSet(S), NEW n \in Nat
  PROVE  /\ Small(S, 0) = {{}} /\ Small(S, n) \subseteq Small(S, n + 1)
         /\ \A s \in Small(S, n + 1), x \in S : x \in s => s \ {x} \in Small(S, n)
         /\ Cardinality(S) \in Nat /\ Small(S, Cardinality(S)) = SUBSET S
<1>1. \A s \in SUBSET S : IsFiniteSet(s) /\ Cardinality(s) \in Nat /\ Cardinality(s) <= Cardinality(S)
  BY FS_Subset, FS_CardinalityType
<1>2. Cardinality(S) \in Nat
  BY FS_CardinalityType
<1>3. \A s \in SUBSET S : Cardinality(s) = 0 <=> s = {}
  BY <1>1, FS_EmptySet
<1>4. \A s \in SUBSET S, x \in S : x \in s => Cardinality(s \ {x}) = Cardinality(s) - 1
  BY <1>1, FS_RemoveElement
<1>5. Small(S, 0) = {{}}
  BY <1>1, <1>3 DEF Small
<1>6. Small(S, n) \subseteq Small(S, n + 1)
  BY <1>1 DEF Small
<1>7. \A s \in Small(S, n + 1), x \in S : x \in s => s \ {x} \in Small(S, n)
  BY <1>1, <1>4 DEF Small
<1> QED BY <1>1, <1>2, <1>5, <1>6, <1>7 DEF Small

\* The member a fold over a set takes next.
Anyone(s) == CHOOSE x \in s : TRUE
=============================================================================
