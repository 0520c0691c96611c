------------------------------ MODULE Semaphore ------------------------------
(***************************************************************************)
(* semaphore.c and the processes that use it, on top of the scheduler.     *)
(*                                                                         *)
(* semaphores[] is a function from the ids whose pointer is not NULL.  The *)
(* two spin locks are left out: system calls run with interrupts off, and  *)
(* sem_wait gives its lock back before it yields, so nobody ever finds one *)
(* taken.  A process inside the loop of sem_wait comes back to it when it  *)
(* is dispatched, before anything else happens.                            *)
(*                                                                         *)
(* Clients are those of test_sync.c: a process waits on, posts and closes  *)
(* only the semaphores it opened, and does not use the block call.  Its    *)
(* death closes nothing.                                                   *)
(***************************************************************************)
EXTENDS KernelQueue

CONSTANTS
  MAX_SEMAPHORES,  \* slots of semaphores[]
  Names,           \* names of semaphores in use
  InitialValues,   \* what sem_open is called with
  UINT8,           \* values of a uint8_t: 256, fewer in model checking
  MAX_LINKS,       \* bound: opens of one semaphore that were never closed
  MmMayFail        \* queue_add's mm_alloc may return NULL

Semaphores == 0 .. MAX_SEMAPHORES - 1

ASSUME SemaphoreAssumption ==
  /\ MAX_SEMAPHORES \in Nat \ {0} /\ MAX_PROCESSES <= 254
  /\ UINT8 \in Nat /\ MAX_LINKS \in Nat \ {0} /\ MAX_LINKS < UINT8
  /\ InitialValues \subseteq 0 .. UINT8 - 1
  /\ MmMayFail \in BOOLEAN

VARIABLES
  sch,         \* the statics of scheduler.c
  semaphores,  \* semaphores[], without its NULLs
  waiting,     \* the semaphore a process is inside sem_wait of, or NULL
  links,       \* the ids a process, or its code after its death, holds
  leaked,      \* history: links to a semaphore whose holder's slot is reused
  stray        \* history: a queue missed a waiter, or held one that died

semVars == <<semaphores, waiting, links, leaked, stray>>
vars == <<sch, semVars>>

SemInfo ==
  [name : Names, value : 0 .. UINT8 - 1, linked_processes : 0 .. UINT8 - 1,
   waiting_processes : Seq(0 .. 255)]

TypeOK ==
  /\ sch \in SchStates
  /\ DOMAIN semaphores \subseteq Semaphores /\ Range(semaphores) \subseteq SemInfo
  /\ waiting \in [Pids -> Semaphores \cup {NULL}]
  /\ links \in [Pids -> SUBSET Semaphores]
  /\ leaked \in [Semaphores -> 0 .. MAX_LINKS]
  /\ stray \in BOOLEAN

----------------------------------------------------------------------------

\* sch_switch has come back to a process in the middle of sem_wait.
Resuming == sch.current \in Pids /\ waiting[sch.current] # NULL

Interruptible == ~Resuming

\* A process, or the code of a process killed while it ran, is at a system call.
SystemCall == Interruptible /\ sch.current # KERNEL_PROC_PID

Caller == sch.cpu

Init ==
  /\ sch = SchOnProcessCreate(SchInit, 0, MAX_PRIORITY)
  /\ semaphores = <<>>
  /\ waiting = [pid \in Pids |-> NULL]
  /\ links = [pid \in Pids |-> {}]
  /\ leaked = [sem \in Semaphores |-> 0]
  /\ stray = FALSE

----------------------------------------------------------------------------
(* sem_open and sem_close *)

SearchSemaphore(name) == {sem \in DOMAIN semaphores : semaphores[sem].name = name}

Links(sem) == Cardinality({pid \in Pids : sem \in links[pid]}) + leaked[sem]

\* A semaphore of that name exists: sem_open counts one more process.
SemOpenExisting(name) ==
  /\ SystemCall
  /\ \E sem \in SearchSemaphore(name) :
       /\ sem \notin links[Caller] /\ Links(sem) < MAX_LINKS
       /\ semaphores' = [semaphores EXCEPT ![sem].linked_processes = (@ + 1) % UINT8]
       /\ links' = [links EXCEPT ![Caller] = @ \cup {sem}]
  /\ UNCHANGED <<sch, waiting, leaked, stray>>

\* The table with a new semaphore at id sem.
Opened(sem, name, initial_value) ==
  [other \in DOMAIN semaphores \cup {sem} |->
     IF other = sem
     THEN [name |-> name, value |-> initial_value, linked_processes |-> 1,
           waiting_processes |-> <<>>]
     ELSE semaphores[other]]

\* The first id that is free, if one is.
SearchNext ==
  {sem \in Semaphores \ DOMAIN semaphores : \A other \in Semaphores \ DOMAIN semaphores : sem <= other}

\* Mutant: sem_open does not look for the name.
SemOpenAlwaysNew(name, initial_value) ==
  /\ SystemCall
  /\ \E sem \in Semaphores \ DOMAIN semaphores :
       /\ semaphores' = Opened(sem, name, initial_value)
       /\ links' = [links EXCEPT ![Caller] = @ \cup {sem}]
  /\ UNCHANGED <<sch, waiting, leaked, stray>>

\* It does not: sem_open makes it, at the first free id.  When there is none, or
\* no memory, it returns -1 and changes nothing.
SemOpenNew(name, initial_value) ==
  /\ SystemCall
  /\ SearchSemaphore(name) = {}
  /\ \E sem \in SearchNext :
       /\ semaphores' = Opened(sem, name, initial_value)
       /\ links' = [links EXCEPT ![Caller] = @ \cup {sem}]
  /\ UNCHANGED <<sch, waiting, leaked, stray>>

SemOpen(name, initial_value) ==
  SemOpenExisting(name) \/ SemOpenNew(name, initial_value)

\* Mutant: every close destroys the semaphore.
SemCloseAlways(sem) ==
  /\ SystemCall
  /\ sem \in links[Caller] \cap DOMAIN semaphores
  /\ sch' = QueueUnblockAll(sch, semaphores[sem].waiting_processes)
  /\ semaphores' = Restrict(semaphores, DOMAIN semaphores \ {sem})
  /\ leaked' = [leaked EXCEPT ![sem] = 0]
  /\ links' = [links EXCEPT ![Caller] = @ \ {sem}]
  /\ UNCHANGED <<waiting, stray>>

\* Mutant: the process is not counted off.
SemCloseForgets(sem) ==
  /\ SystemCall
  /\ sem \in links[Caller] \cap DOMAIN semaphores
  /\ links' = [links EXCEPT ![Caller] = @ \ {sem}]
  /\ UNCHANGED <<sch, semaphores, leaked, waiting, stray>>

\* free: those who sleep in the semaphore are woken, and its id is free again.
Freed(k, sem) ==
  [sch |-> QueueUnblockAll(k.sch, k.semaphores[sem].waiting_processes),
   semaphores |-> Restrict(k.semaphores, DOMAIN k.semaphores \ {sem})]

\* sem_close, given the scheduler and the table as fields of a record: the last
\* process to close a semaphore destroys it, and an id that has none is refused.
Closed(k, sem) ==
  IF sem \notin DOMAIN k.semaphores
  THEN k
  ELSE IF k.semaphores[sem].linked_processes = 1
       THEN Freed(k, sem)
       ELSE [k EXCEPT !.semaphores[sem].linked_processes = (@ - 1) % UINT8]

SemClose(sem) ==
  /\ SystemCall
  /\ sem \in links[Caller] \cap DOMAIN semaphores
  /\ LET k == Closed([sch |-> sch, semaphores |-> semaphores], sem)
     IN  /\ sch' = k.sch /\ semaphores' = k.semaphores
         /\ leaked' = IF sem \in DOMAIN k.semaphores THEN leaked ELSE [leaked EXCEPT ![sem] = 0]
  /\ links' = [links EXCEPT ![Caller] = @ \ {sem}]
  /\ UNCHANGED <<waiting, stray>>

----------------------------------------------------------------------------
(* sem_wait and sem_post *)

\* value is not zero: sem_wait takes one and returns.
Take(sem) ==
  /\ sem \in DOMAIN semaphores /\ semaphores[sem].value # 0
  /\ semaphores' = [semaphores EXCEPT ![sem].value = @ - 1]
  /\ waiting' = IF sch.current \in Pids THEN [waiting EXCEPT ![sch.current] = NULL] ELSE waiting
  /\ UNCHANGED <<sch, links, leaked, stray>>

\* value is zero: the caller queues, blocks and yields.  The pid it queues is a
\* uint8_t, so that of a killed caller is one no process has, and it does not
\* come back.  The code ignores that queue_add may fail.
Sleep(sem) ==
  LET pid == (sch.current + 256) % 256
  IN  /\ sem \in DOMAIN semaphores /\ semaphores[sem].value = 0
      /\ \/ /\ semaphores' = [semaphores EXCEPT ![sem].waiting_processes = Append(@, pid)]
            /\ stray' = (stray \/ pid \notin Pids)
         \/ /\ MmMayFail
            /\ stray' = TRUE
            /\ UNCHANGED semaphores
      /\ waiting' = IF pid \in Pids THEN [waiting EXCEPT ![pid] = sem] ELSE waiting
      /\ SchYield(SchBlock(sch, pid), sch')
      /\ UNCHANGED <<links, leaked>>

SemWait(sem) ==
  /\ SystemCall
  /\ sem \in links[Caller]
  /\ Take(sem) \/ Sleep(sem)

\* Mutant: a woken process takes without looking again.
ReturnWithoutLooking ==
  /\ Resuming
  /\ LET sem == waiting[sch.current]
     IN  /\ sem \in DOMAIN semaphores
         /\ semaphores' = [semaphores EXCEPT ![sem].value = (@ - 1) % UINT8]
  /\ waiting' = [waiting EXCEPT ![sch.current] = NULL]
  /\ UNCHANGED <<sch, links, leaked, stray>>

\* The loop of sem_wait goes round.  Its semaphore may have been destroyed; what
\* the code does with the NULL pointer is not modelled.
ContinueWait ==
  /\ Resuming
  /\ Take(waiting[sch.current]) \/ Sleep(waiting[sch.current])

\* Mutant: only the post that finds the value at zero wakes somebody.
SemPostWakesFromZero(sem) ==
  /\ SystemCall
  /\ sem \in links[Caller] \cap DOMAIN semaphores
  /\ LET queue == semaphores[sem].waiting_processes
         wakes == queue # <<>> /\ semaphores[sem].value = 0
     IN  /\ semaphores' =
              [semaphores EXCEPT ![sem].value = (@ + 1) % UINT8,
                                 ![sem].waiting_processes = IF wakes THEN Tail(@) ELSE @]
         /\ sch' = IF wakes THEN SchUnblock(sch, Head(queue)) ELSE sch
  /\ UNCHANGED <<waiting, links, leaked, stray>>

\* Mutant: nobody is woken.
SemPostWakesNobody(sem) ==
  /\ SystemCall
  /\ sem \in links[Caller] \cap DOMAIN semaphores
  /\ semaphores' = [semaphores EXCEPT ![sem].value = (@ + 1) % UINT8]
  /\ UNCHANGED <<sch, waiting, links, leaked, stray>>

\* One more to take, and one process woken.
Release(sem) ==
  /\ sem \in DOMAIN semaphores
  /\ LET queue == semaphores[sem].waiting_processes
     IN  /\ semaphores' =
              [semaphores EXCEPT ![sem].value = (@ + 1) % UINT8,
                                 ![sem].waiting_processes = IF @ = <<>> THEN @ ELSE Tail(@)]
         /\ sch' = IF queue = <<>> THEN sch ELSE SchUnblock(sch, Head(queue))
  /\ UNCHANGED <<waiting, links, leaked, stray>>

SemPost(sem) ==
  /\ SystemCall
  /\ sem \in links[Caller]
  /\ Release(sem)

----------------------------------------------------------------------------
(* Processes come, go and lose the processor.  No semaphore hears of it. *)

Free == {pid \in Pids : sch.rsp[pid] = NULL}

Create(pid) ==
  /\ SystemCall /\ sch.current # KILLED_PROC_PID
  /\ pid \in Free /\ \A other \in Free : pid <= other
  /\ sch' = SchOnProcessCreate(sch, pid, DEFAULT_PRIORITY)
  /\ leaked' = [sem \in Semaphores |-> leaked[sem] + (IF sem \in links[pid] THEN 1 ELSE 0)]
  /\ links' = [links EXCEPT ![pid] = {}]
  /\ UNCHANGED <<semaphores, waiting, stray>>

DiesInSemWait(pid) ==
  /\ waiting' = [waiting EXCEPT ![pid] = NULL]
  /\ stray' = (stray \/ waiting[pid] # NULL)
  /\ UNCHANGED <<semaphores, links, leaked>>

\* proc_kill by a system call or by Ctrl-C.
Kill(pid, status) ==
  /\ Interruptible
  /\ IsActive(sch, pid)
  /\ sch' = SchOnProcessKilled(sch, pid, status)
  /\ DiesInSemWait(pid)

\* exit and the exception handler.
Exit(status) ==
  /\ SystemCall /\ sch.current \in Pids
  /\ SchYield(SchOnProcessKilled(sch, sch.current, status), sch')
  /\ UNCHANGED semVars

Yield ==
  /\ Interruptible
  /\ SchYield(sch, sch')
  /\ UNCHANGED semVars

Tick ==
  /\ Interruptible
  /\ SchSwitch(sch, sch')
  /\ UNCHANGED semVars

Next ==
  \/ \E name \in Names, initial_value \in InitialValues : SemOpen(name, initial_value)
  \/ \E sem \in Semaphores : SemClose(sem)
  \/ \E sem \in Semaphores : SemWait(sem)
  \/ ContinueWait
  \/ \E sem \in Semaphores : SemPost(sem)
  \/ \E pid \in Pids : Create(pid)
  \/ \E pid \in Pids, status \in ExitStatuses : Kill(pid, status)
  \/ \E status \in ExitStatuses : Exit(status)
  \/ Yield
  \/ Tick

Spec == Init /\ [][Next]_vars

----------------------------------------------------------------------------

(* linked_processes counts the links to a semaphore, those of processes that died
   without closing it too, and two semaphores never have one name: so sem_open
   brings together everyone who asks for a name (semaphore.c:36-39), and a
   semaphore a killed process held stays for good (informe.md:207). *)
LinksCounted ==
  \A sem \in DOMAIN semaphores :
    /\ semaphores[sem].linked_processes = Links(sem)
    /\ SearchSemaphore(semaphores[sem].name) = {sem}

(* A process only holds, and only sleeps in, a semaphore that exists, whoever
   else closes it or dies: sem_wait dereferences it again when it wakes up
   (semaphore.c:99, :102). *)
HeldSemaphoreExists ==
  \A pid \in Pids :
    /\ links[pid] \subseteq DOMAIN semaphores
    /\ waiting[pid] # NULL => waiting[pid] \in links[pid]

\* Processes that sem_wait will let go on with the loop.
Awake(sem) ==
  {pid \in Pids : waiting[pid] = sem /\ sch.status[pid] # "BLOCKED"}

(* No wakeup is lost: every blocked process is in the queue of the semaphore it
   waits on, and while anyone sleeps there is no more value to take than woken
   processes on their way to take it.  A post wakes one process even if the value
   was not zero (semaphore.c:119-120), or this would fail.  For processes that do
   not die inside sem_wait and memory that does not run out. *)
NoLostWakeup ==
  ~stray =>
    /\ \A pid \in Pids : IsActive(sch, pid) /\ sch.status[pid] = "BLOCKED" =>
         /\ waiting[pid] \in DOMAIN semaphores
         /\ pid \in Range(semaphores[waiting[pid]].waiting_processes)
    /\ \A sem \in DOMAIN semaphores :
         semaphores[sem].waiting_processes # <<>> =>
           semaphores[sem].value <= Cardinality(Awake(sem))
=============================================================================
