----------------------------- MODULE Scheduler -----------------------------
(***************************************************************************)
(* The scheduler under any client that keeps to the calls the rest of the  *)
(* kernel makes.  Interrupts are off inside system calls and interrupt     *)
(* handlers, so one such call is one step, up to the sch_yield that ends   *)
(* it if it has one.  System calls come from a process, dead or alive;     *)
(* timer and keyboard interrupts also from the kernel's idle loop.         *)
(***************************************************************************)
EXTENDS SchedulerOps

CONSTANT AskedPriorities   \* what proc_create and nice are called with

ASSUME AskedPrioritiesAssumption == AskedPriorities \subseteq Int

VARIABLE sch

TypeOK == sch \in SchStates

Free == {pid \in Pids : sch.rsp[pid] = NULL}

\* main() creates the shell, pid 0, before it turns interrupts on.
Init == sch = SchOnProcessCreate(SchInit, 0, MAX_PRIORITY)

\* A process, or the code of a process killed while it ran, makes system calls.
InProcess == sch.current # KERNEL_PROC_PID

\* proc_create takes the first free slot; called by a killed process it yields
\* instead.
Create(pid, priority) ==
  /\ InProcess /\ sch.current # KILLED_PROC_PID
  /\ pid \in Free /\ \A other \in Free : pid <= other
  /\ sch' = SchOnProcessCreate(sch, pid, priority)

\* proc_kill by a system call or by Ctrl-C.
Kill(pid, status) ==
  /\ IsActive(sch, pid)
  /\ sch' = SchOnProcessKilled(sch, pid, status)

\* exit and the exception handler: the process kills itself and yields.
Exit(status) ==
  /\ sch.current \in Pids
  /\ SchYield(SchOnProcessKilled(sch, sch.current, status), sch')

\* A system call that waits: waitpid, sem_wait, read, write.
BlockAndYield ==
  /\ sch.current \in Pids
  /\ SchYield(SchBlock(sch, sch.current), sch')

\* The block system call, also on the caller, which goes on running.
Block(pid) ==
  /\ InProcess /\ IsActive(sch, pid) /\ sch.status[pid] \in {"READY", "RUNNING"}
  /\ sch' = SchBlock(sch, pid)

\* The block system call on a blocked process, a key, a post, an exit.
Unblock(pid) ==
  /\ IsActive(sch, pid) /\ sch.status[pid] = "BLOCKED"
  /\ sch' = SchUnblock(sch, pid)

SetPriority(pid, priority) ==
  /\ InProcess
  /\ sch' = SchSetPriority(sch, pid, priority)

\* The yield system call, or the kernel's idle loop.
Yield == SchYield(sch, sch')

\* The timer interrupt.
Tick == SchSwitch(sch, sch')

Next ==
  \/ \E pid \in Pids, priority \in AskedPriorities : Create(pid, priority)
  \/ \E pid \in Pids, status \in ExitStatuses : Kill(pid, status)
  \/ \E status \in ExitStatuses : Exit(status)
  \/ BlockAndYield
  \/ \E pid \in Pids : Block(pid)
  \/ \E pid \in Pids : Unblock(pid)
  \/ \E pid \in Pids, priority \in AskedPriorities : SetPriority(pid, priority)
  \/ Yield
  \/ Tick

Spec == Init /\ [][Next]_sch

\* The timer keeps interrupting: every system call and handler ends with
\* interrupts on again.
FairSpec == Spec /\ WF_sch(Tick)

----------------------------------------------------------------------------

(* What current_running_pid says is what the processor executes, so a system
   call acts for its real caller; every saved context is on its owner's stack;
   and while the processor still executes a killed process (scheduler.c:72),
   nobody else has been given its slot and stack. *)
CpuRunsCurrent == ContextsKept(sch)

(* At most one process is RUNNING, the current one: whichever way it lost the
   processor, it was put back to READY or BLOCKED, else no switch would ever
   take it again (sch_switch only dispatches READY processes). *)
RunningIsCurrent == OnlyCurrentRuns(sch)

(* sch_yield gives the processor to somebody else whenever somebody else is
   ready, unless the yielding process was itself forced. *)
YieldHandsOver ==
  [][Yield /\ sch.current \in Pids /\ sch.force # sch.current
       => \/ sch'.current # sch.current
          \/ ReadyPids(sch) \subseteq {sch.current}]_sch

(* The processor goes idle only when no process is ready, whichever way the last
   one gave it up: at a tick, by a yield, by waiting or by dying; and neither a tick
   nor a yield of the idle loop leaves it idle once one is (scheduler.c:126). *)
IdleOnlyWithoutWork ==
  [][sch'.current = KERNEL_PROC_PID /\ (sch.current # KERNEL_PROC_PID \/ Tick \/ Yield)
       => ReadyPids(sch') = {}]_sch

\* The current process dies, which sends the circular search back to pid 0.
CurrentDies == sch.current \in Pids /\ sch'.rsp[sch.current] = NULL

\* A realtime process is woken or created, and will take the next switch.
ForcesSwitch == sch'.force # KILLED_PROC_PID

(* Round robin: once processes stop dying while they run and no realtime
   process is woken any more, every ready process is dispatched (or blocked, or
   killed).  Both conditions are needed: each death and each forced switch moves
   the point the circular search starts from. *)
StarvationFree ==
  <>[][~CurrentDies /\ ~ForcesSwitch]_sch
    => \A pid \in Pids : IsReady(sch, pid) ~> ~IsReady(sch, pid)
=============================================================================
