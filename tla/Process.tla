------------------------------ MODULE Process ------------------------------
(***************************************************************************)
(* process.c and the system calls on processes, on top of the scheduler.   *)
(*                                                                         *)
(* A process is its slot of processes[]: in use when stack_end is not      *)
(* NULL (live), with its parent and the queues of its children and of the  *)
(* processes waiting for its death.  A queue that is not allocated is the  *)
(* empty one.  proc_kill calls itself; kills is the stack of its calls,    *)
(* the outermost first, and each child killed, waiter woken and slot       *)
(* cleared is a step.  Interrupts are off all that time, so no other       *)
(* process runs between those steps.  File descriptors and kill callbacks  *)
(* are left out.                                                           *)
(***************************************************************************)
EXTENDS SchedulerOps, SequencesExt

CONSTANTS
  AskedPriorities,   \* what proc_create and nice are called with
  MAX_WAITERS,       \* bound: entries of one waiting_pids
  MmMayFail,         \* mm_alloc may return NULL
  BlockCalls,        \* processes use the block system call
  WaitOnlyChildren   \* processes call waitpid on their children only

ASSUME ProcessAssumption ==
  /\ AskedPriorities \subseteq Int
  /\ MAX_WAITERS \in Nat
  /\ {MmMayFail, BlockCalls, WaitOnlyChildren} \subseteq BOOLEAN
  /\ {1, 255} \subseteq ExitStatuses

VARIABLES
  sch,            \* the statics of scheduler.c
  live,           \* processes[pid].stack_end # NULL
  parent_pid,     \* processes[pid].parent_pid
  child_pids,     \* processes[pid].child_pids
  waiting_pids,   \* processes[pid].waiting_pids
  kills,          \* calls of proc_kill in progress, a stack
  after,          \* what the kernel does when they return
  waiting,        \* the waitpid a process is inside of: its argument, or NULL
  gone            \* history: callers of waitpid whose target has died since

processes == <<live, parent_pid, child_pids, waiting_pids>>
vars == <<sch, processes, kills, after, waiting, gone>>

TypeOK ==
  /\ sch \in SchStates
  /\ live \in [Pids -> BOOLEAN]
  /\ parent_pid \in [Pids -> Contexts]
  /\ child_pids \in [Pids -> Seq(Pids)]
  /\ waiting_pids \in [Pids -> Seq(Pids \cup {KILLED_PROC_PID})]
  /\ kills \in Seq(Pids)
  /\ after \in {"return", "yield"}
  /\ waiting \in [Pids -> Pids \cup {NULL}]
  /\ gone \in SUBSET Pids

----------------------------------------------------------------------------
(* Who runs. *)

KernelDone == kills = <<>> /\ after = "return"

\* sch_switch has come back to a process in the middle of waitpid_handler.
Resuming == sch.current \in Pids /\ waiting[sch.current] # NULL

Interruptible == KernelDone /\ ~Resuming

\* A process, or the code of a process killed while it ran, is at a system call.
SystemCall == Interruptible /\ sch.current # KERNEL_PROC_PID

----------------------------------------------------------------------------

\* main() has created the shell: pid 0, child of the kernel.
Init ==
  /\ sch = SchOnProcessCreate(SchInit, 0, MAX_PRIORITY)
  /\ live = [pid \in Pids |-> pid = 0]
  /\ parent_pid = [pid \in Pids |-> IF pid = 0 THEN KERNEL_PROC_PID ELSE 0]
  /\ child_pids = [pid \in Pids |-> <<>>]
  /\ waiting_pids = [pid \in Pids |-> <<>>]
  /\ kills = <<>> /\ after = "return"
  /\ waiting = [pid \in Pids |-> NULL]
  /\ gone = {}

\* proc_create up to the slot it takes, the first free one.  A killed caller
\* yields instead; it never comes back.
TakeSlot(pid) ==
  /\ SystemCall /\ sch.current # KILLED_PROC_PID
  /\ ~live[pid] /\ \A other \in Pids : live[other] \/ pid <= other
  /\ live' = [live EXCEPT ![pid] = TRUE]
  /\ parent_pid' = [parent_pid EXCEPT ![pid] = sch.current]
  /\ UNCHANGED <<waiting_pids, after, waiting, gone>>

\* Mutant: the parent is not told of its child.
CreateWithoutLink(pid, asked) ==
  /\ TakeSlot(pid)
  /\ sch' = SchOnProcessCreate(sch, pid, asked)
  /\ UNCHANGED <<child_pids, kills>>

Create(pid, asked) ==
  /\ TakeSlot(pid)
  /\ sch' = SchOnProcessCreate(sch, pid, asked)
  /\ child_pids' = [child_pids EXCEPT ![sch.current] = Append(@, pid)]
  /\ UNCHANGED kills

\* The queue of children cannot grow: the new process is killed again.
CreateUnlinked(pid, asked) ==
  /\ MmMayFail
  /\ TakeSlot(pid)
  /\ sch' = SchOnProcessKilled(SchOnProcessCreate(sch, pid, asked), pid, 255)
  /\ kills' = <<pid>>
  /\ UNCHANGED child_pids

----------------------------------------------------------------------------
(* proc_kill *)

\* Mutant: the scheduler is not told.
EnterKillSilently(pid, status) ==
  /\ kills' = Append(kills, pid)
  /\ UNCHANGED sch

\* proc_kill on a process in use, up to its loop over the children.
EnterKill(pid, status) ==
  /\ sch' = SchOnProcessKilled(sch, pid, status)
  /\ kills' = Append(kills, pid)

\* A kill from outside, by a system call or a key, after which the caller goes
\* on, even if it killed itself.
StartKill(pid, status) ==
  /\ live[pid]
  /\ EnterKill(pid, status)
  /\ UNCHANGED <<processes, after, waiting, gone>>

Kill(pid, status) == SystemCall /\ StartKill(pid, status)

\* Ctrl-C kills the foreground process with the highest pid; which processes
\* are in the foreground is left open.
CtrlC ==
  /\ Interruptible
  /\ \E foreground \in SUBSET Pids :
       \E pid \in SchGetRunningPid(sch, foreground) : pid \in Pids /\ StartKill(pid, 255)

\* proc_kill(sch_get_current_pid(), status); sch_yield().
KillCurrentAndYield(status) ==
  /\ SystemCall
  /\ IF sch.current \in Pids
     THEN EnterKill(sch.current, status)
     ELSE UNCHANGED <<sch, kills>>
  /\ after' = "yield"
  /\ UNCHANGED <<processes, waiting, gone>>

Exit(status) == KillCurrentAndYield(status)

\* For the shell, init_shell follows: proc_create then yields first, because the
\* caller is killed, and no process is created.
Exception == KillCurrentAndYield(1)

Killing == kills # <<>>
Victim == kills[Len(kills)]

\* Mutant: a child is killed without the processes below it.
KillChildAlone ==
  /\ Killing /\ child_pids[Victim] # <<>>
  /\ LET child == Head(child_pids[Victim])
     IN  /\ sch' = SchOnProcessKilled(sch, child, 255)
         /\ live' = [live EXCEPT ![child] = FALSE]
  /\ child_pids' = [child_pids EXCEPT ![Victim] = Tail(@)]
  /\ UNCHANGED <<parent_pid, waiting_pids, kills, after, waiting, gone>>

KillChild ==
  /\ Killing /\ child_pids[Victim] # <<>>
  /\ EnterKill(Head(child_pids[Victim]), 255)
  /\ child_pids' = [child_pids EXCEPT ![Victim] = Tail(@)]
  /\ UNCHANGED <<live, parent_pid, waiting_pids, after, waiting, gone>>

\* queue_free unblocks from the last waiter to the first.
WakeWaiter ==
  /\ Killing /\ child_pids[Victim] = <<>> /\ waiting_pids[Victim] # <<>>
  /\ sch' = SchUnblock(sch, Last(waiting_pids[Victim]))
  /\ waiting_pids' = [waiting_pids EXCEPT ![Victim] = Front(@)]
  /\ UNCHANGED <<live, parent_pid, child_pids, kills, after, waiting, gone>>

\* What proc_kill does last: the process leaves its parent's queue, its slot is
\* zeroed and the call returns.  The code removes it from that queue before it
\* wakes the waiters; neither depends on the other.
FreeSlot ==
  /\ live' = [live EXCEPT ![Victim] = FALSE]
  /\ parent_pid' = [parent_pid EXCEPT ![Victim] = 0]
  /\ child_pids' = LET parent == parent_pid[Victim]
                   IN  IF parent \in Pids /\ live[parent]
                       THEN [child_pids EXCEPT ![parent] = RemoveFirst(@, Victim)]
                       ELSE child_pids
  /\ waiting_pids' = [waiting_pids EXCEPT ![Victim] = <<>>]
  /\ waiting' = [waiting EXCEPT ![Victim] = NULL]
  /\ gone' = (gone \cup {pid \in Pids : waiting[pid] = Victim}) \ {Victim}
  /\ kills' = Front(kills)
  /\ UNCHANGED <<sch, after>>

\* Mutant: the queue of waiters is freed without unblocking them.
FinishKillForgetsWaiters ==
  Killing /\ child_pids[Victim] = <<>> /\ FreeSlot

\* Mutant: the children are left alive.
FinishKillLeavesChildren ==
  Killing /\ waiting_pids[Victim] = <<>> /\ FreeSlot

FinishKill ==
  Killing /\ child_pids[Victim] = <<>> /\ waiting_pids[Victim] = <<>> /\ FreeSlot

\* The sch_yield of exit and of the exception handler.
YieldAfterKill ==
  /\ kills = <<>> /\ after = "yield"
  /\ SchYield(sch, sch')
  /\ after' = "return"
  /\ UNCHANGED <<processes, kills, waiting, gone>>

----------------------------------------------------------------------------
(* The other system calls on processes, and the clock. *)

\* proc_unblock_on_killed on a process in use.  The code ignores that queue_add
\* may fail.
ProcUnblockOnKilled(waiter, pid) ==
  /\ live[pid] /\ Len(waiting_pids[pid]) < MAX_WAITERS
  /\ \/ waiting_pids' = [waiting_pids EXCEPT ![pid] = Append(@, waiter)]
     \/ MmMayFail /\ UNCHANGED waiting_pids

\* Mutant: the caller yields but does not block.
WaitpidWithoutBlock(pid) ==
  LET caller == sch.current
  IN  /\ SystemCall /\ caller \in Pids /\ pid # caller
      /\ WaitOnlyChildren => parent_pid[pid] = caller
      /\ ProcUnblockOnKilled(caller, pid)
      /\ waiting' = [waiting EXCEPT ![caller] = pid]
      /\ gone' = gone \ {caller}
      /\ SchYield(sch, sch')
      /\ UNCHANGED <<live, parent_pid, child_pids, kills, after>>

\* waitpid up to its sch_yield.  The killed caller enters the queue as
\* KILLED_PROC_PID and does not come back.
Waitpid(pid) ==
  LET caller == sch.current
  IN  /\ SystemCall /\ pid # caller
      /\ WaitOnlyChildren => parent_pid[pid] = caller
      /\ ProcUnblockOnKilled(caller, pid)
      /\ waiting' = IF caller \in Pids THEN [waiting EXCEPT ![caller] = pid] ELSE waiting
      /\ gone' = gone \ {caller}
      /\ SchYield(SchBlock(sch, caller), sch')
      /\ UNCHANGED <<live, parent_pid, child_pids, kills, after>>

\* The rest of waitpid.
ReturnFromWaitpid ==
  /\ KernelDone /\ Resuming
  /\ waiting' = [waiting EXCEPT ![sch.current] = NULL]
  /\ UNCHANGED <<sch, processes, kills, after, gone>>

\* Mutant: block only blocks.
BlockOnlyBlocks(pid) ==
  /\ BlockCalls /\ SystemCall
  /\ IsActive(sch, pid)
  /\ sch' = SchBlock(sch, pid)
  /\ UNCHANGED <<processes, kills, after, waiting, gone>>

\* block toggles: it stops a running or ready process, the caller too, and
\* lets a blocked one go.
Block(pid) ==
  /\ BlockCalls /\ SystemCall
  /\ IsActive(sch, pid)
  /\ sch' = IF sch.status[pid] = "BLOCKED" THEN SchUnblock(sch, pid) ELSE SchBlock(sch, pid)
  /\ UNCHANGED <<processes, kills, after, waiting, gone>>

Nice(pid, priority) ==
  /\ SystemCall
  /\ sch' = SchSetPriority(sch, pid, priority)
  /\ UNCHANGED <<processes, kills, after, waiting, gone>>

\* The yield system call, or the kernel's idle loop.
Yield ==
  /\ Interruptible
  /\ SchYield(sch, sch')
  /\ UNCHANGED <<processes, kills, after, waiting, gone>>

\* The timer interrupt.
Tick ==
  /\ Interruptible
  /\ SchSwitch(sch, sch')
  /\ UNCHANGED <<processes, kills, after, waiting, gone>>

Next ==
  \/ \E pid \in Pids, asked \in AskedPriorities : Create(pid, asked)
  \/ \E pid \in Pids, asked \in AskedPriorities : CreateUnlinked(pid, asked)
  \/ \E pid \in Pids, status \in ExitStatuses : Kill(pid, status)
  \/ CtrlC
  \/ \E status \in ExitStatuses : Exit(status)
  \/ Exception
  \/ KillChild
  \/ WakeWaiter
  \/ FinishKill
  \/ YieldAfterKill
  \/ \E pid \in Pids : Waitpid(pid)
  \/ ReturnFromWaitpid
  \/ \E pid \in Pids : Block(pid)
  \/ \E pid \in Pids, priority \in AskedPriorities : Nice(pid, priority)
  \/ Yield
  \/ Tick

Spec == Init /\ [][Next]_vars

----------------------------------------------------------------------------

(* The two tables of processes agree: a slot of processes[] is in use exactly
   when the scheduler has a context for it, except while proc_kill is between
   sch_on_process_killed and the memset that frees the slot (process.c:126-156).
   And the scheduler's own record of who runs holds under these callers. *)
TablesAgree ==
  /\ \A pid \in Pids : IsActive(sch, pid) <=> live[pid] /\ pid \notin Range(kills)
  /\ \A pid \in Range(kills) : live[pid]
  /\ ContextsKept(sch) /\ OnlyCurrentRuns(sch)

(* A process is in its parent's queue of children, once, and in no other; the
   parent of a live process is live, so parent_pid never names a slot that was
   given to somebody else (process.c:128-135).  Exempt are the processes that
   proc_kill has already taken out of the queue. *)
ChildrenMatchParents ==
  /\ \A pid \in Pids : IsInjective(child_pids[pid])
  /\ \A pid, child \in Pids :
       child \in Range(child_pids[pid]) => live[pid] /\ live[child] /\ parent_pid[child] = pid
  /\ \A child \in Pids : live[child] /\ parent_pid[child] \in Pids =>
       /\ live[parent_pid[child]]
       /\ child \in Range(child_pids[parent_pid[child]]) \/ child \in Range(kills)

Live == {pid \in Pids : live[pid]}

\* A live process and everything below it.
TreeOf(pid) ==
  {p \in Live : \A S \in SUBSET Live :
     pid \in S /\ (\A q \in Live : parent_pid[q] \in S => q \in S) => p \in S}

(* Every live process descends from the shell, so nothing survives its death;
   and proc_kill goes down one path of the tree. *)
EverythingDescendsFromShell ==
  /\ \A pid \in Pids : live[pid] => live[0] /\ pid \in TreeOf(0)
  /\ \A i \in 2 .. Len(kills) : parent_pid[kills[i]] = kills[i - 1]

\* What the tree will be once proc_kill is done.
Doomed == UNION {TreeOf(pid) : pid \in Range(kills)}
Survivors == Live \ Doomed

Forest == INSTANCE ProcessForest WITH
  Shell <- 0,
  parent <- [pid \in Survivors |-> IF pid = 0 THEN 0 ELSE parent_pid[pid]]

(* "al matar un proceso, también podamos matar a los hijos" (informe.md:226):
   whichever way a process dies, it takes its descendants with it and nobody
   else, and a process created below it never escapes. *)
ImplementsForest == Forest!Spec

(* A process that sleeps in waitpid is waiting for a live process, and is in its
   queue, so that process's death wakes it up.  For processes that do not use
   the block call, and memory that does not run out (process.c:169). *)
NoLostWakeup ==
  \A pid \in Pids :
    IsActive(sch, pid) /\ sch.status[pid] = "BLOCKED" =>
      /\ waiting[pid] # NULL
      /\ live[waiting[pid]] /\ pid \in Range(waiting_pids[waiting[pid]])

(* waitpid on a child comes back only after that child died (test_pipes.c:72-73
   says it "finished"), although queues keep pids of processes that no longer
   wait and pids are reused. *)
WaitpidReturnsAfterExit == [][ReturnFromWaitpid => sch.current \in gone]_vars
=============================================================================
