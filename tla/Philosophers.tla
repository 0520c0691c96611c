----------------------------- MODULE Philosophers -----------------------------
(***************************************************************************)
(* The dining philosophers of programs/philosophers.c over the real        *)
(* semaphores and scheduler, with the part of proc_kill that the command   *)
(* relies on: its kill callback, its children, and who waits for whom.     *)
(*                                                                         *)
(* Process 0 is the shell, which runs the command in the foreground and    *)
(* waits; the command is process 1.  No other process uses semaphores,     *)
(* there are enough of them, and memory does not run out.                  *)
(*                                                                         *)
(* A philosopher thinks for at least two seconds.  The model takes from    *)
(* that only that the command is done with its preparations by then.       *)
(* What a philosopher that Ctrl-C kills while it runs still does until the *)
(* next tick of the clock is left out.                                     *)
(***************************************************************************)
EXTENDS Semaphore

CONSTANTS
  philo_count,        \* philosophers, 5 to 12 in the program
  MAX_PHILOSOPHERS,   \* places in forks[]
  AbortDuringSetup    \* Ctrl-C may come before the command waits for its children

ASSUME PhilosophersAssumption ==
  /\ philo_count \in Nat /\ philo_count >= 2
  /\ MAX_PHILOSOPHERS \in Nat /\ MAX_PHILOSOPHERS >= philo_count
  /\ MAX_PROCESSES > philo_count + 1 /\ MAX_SEMAPHORES > philo_count
  /\ Names = 0 .. philo_count /\ AbortDuringSetup \in BOOLEAN

Command == 1

Places == 0 .. philo_count - 1

\* Fork i has the name i.
FORK_SEM_NAME(i) == i
BIG_FORK_NAME == philo_count

VARIABLES
  pc,            \* the next thing a process does
  place,         \* the philosopher a process is, argv[0]
  i,             \* the command's loop variable
  result,        \* what its last system call returned and it has not stored yet
  philos,        \* philos[].philo_pid
  forks,         \* forks[]
  sem_big_fork,
  ate,           \* history: the philosophers that have eaten
  aborted        \* history: there was a Ctrl-C

philoVars == <<pc, place, i, result, philos, forks, sem_big_fork, ate, aborted>>
diningVars == <<vars, philoVars>>

PhiloInit ==
  /\ Init
  /\ pc = [pid \in Pids |-> IF pid = 0 THEN "launch" ELSE "none"]
  /\ place = [pid \in Pids |-> 0]
  /\ i = 0 /\ result = NULL
  /\ philos = [k \in Places |-> 0]
  /\ forks = [k \in 0 .. MAX_PHILOSOPHERS - 1 |-> IF k \in Places THEN -1 ELSE 0]
  /\ sem_big_fork = 0
  /\ ate = {} /\ aborted = FALSE

AtStep(pid, step) == sch.current = pid /\ pc[pid] = step

Goto(pid, step) == pc' = [pc EXCEPT ![pid] = step]

Block(pid) == SchYield(SchBlock(sch, pid), sch') /\ UNCHANGED semVars

----------------------------------------------------------------------------
(* The shell *)

Launch ==
  /\ AtStep(0, "launch") /\ Create(Command)
  /\ pc' = [pc EXCEPT ![0] = "wait", ![Command] = "add_philo"]
  /\ UNCHANGED <<place, i, result, philos, forks, sem_big_fork, ate, aborted>>

ShellWaits ==
  /\ AtStep(0, "wait") /\ SystemCall
  /\ IF IsActive(sch, Command)
     THEN Block(0) /\ Goto(0, "waiting")
     ELSE Goto(0, "prompt") /\ UNCHANGED vars
  /\ UNCHANGED <<place, i, result, philos, forks, sem_big_fork, ate, aborted>>

ShellGoesOn ==
  /\ AtStep(0, "waiting") /\ Goto(0, "prompt")
  /\ UNCHANGED <<vars, place, i, result, philos, forks, sem_big_fork, ate, aborted>>

----------------------------------------------------------------------------
(* The command, init_philo_dilemma.  It can be interrupted between the return  *)
(* of a system call and the store of what that returned.                       *)

AddPhilo(pid) ==
  /\ AtStep(Command, "add_philo") /\ Create(pid)
  /\ pc' = [pc EXCEPT ![Command] = "store_philo", ![pid] = "think"]
  /\ place' = [place EXCEPT ![pid] = i]
  /\ result' = pid
  /\ UNCHANGED <<i, philos, forks, sem_big_fork, ate, aborted>>

StorePhilo ==
  /\ AtStep(Command, "store_philo") /\ Goto(Command, "add_fork")
  /\ philos' = [philos EXCEPT ![i] = result]
  /\ result' = NULL
  /\ UNCHANGED <<vars, place, i, forks, sem_big_fork, ate, aborted>>

OpenFork(from, to, name) ==
  /\ AtStep(Command, from) /\ Goto(Command, to)
  /\ SemOpen(name, 1)
  /\ result' = CHOOSE sem \in DOMAIN semaphores' : semaphores'[sem].name = name
  /\ UNCHANGED <<place, i, philos, forks, sem_big_fork, ate, aborted>>

AddFork == OpenFork("add_fork", "store_fork", FORK_SEM_NAME(i))

StoreFork ==
  /\ AtStep(Command, "store_fork")
  /\ Goto(Command, IF i = philo_count - 1 THEN "open_big_fork" ELSE "add_philo")
  /\ forks' = [forks EXCEPT ![i] = result]
  /\ result' = NULL
  /\ i' = (i + 1) % philo_count
  /\ UNCHANGED <<vars, place, philos, sem_big_fork, ate, aborted>>

OpenBigFork == OpenFork("open_big_fork", "store_big_fork", BIG_FORK_NAME)

StoreBigFork ==
  /\ AtStep(Command, "store_big_fork") /\ Goto(Command, "wait")
  /\ sem_big_fork' = result
  /\ result' = NULL
  /\ UNCHANGED <<vars, place, i, philos, forks, ate, aborted>>

\* It waits for one philosopher after the other.
WaitForPhilo ==
  /\ AtStep(Command, "wait") /\ SystemCall /\ i < philo_count
  /\ IF IsActive(sch, philos[i])
     THEN Block(Command) /\ Goto(Command, "waiting") /\ UNCHANGED i
     ELSE i' = i + 1 /\ UNCHANGED <<vars, pc>>
  /\ UNCHANGED <<place, result, philos, forks, sem_big_fork, ate, aborted>>

WaitedForPhilo ==
  /\ AtStep(Command, "waiting") /\ Goto(Command, "wait")
  /\ i' = i + 1
  /\ UNCHANGED <<vars, place, result, philos, forks, sem_big_fork, ate, aborted>>

----------------------------------------------------------------------------
(* The end of the command: proc_kill, which philo_kill is called from first *)

Killed(s, victims) == FoldSet(LAMBDA pid, t : SchOnProcessKilled(t, pid, 0), s, victims)

\* The ids terminate_forks closes, in order; those never used are zero.
ForksClosed == [k \in 1 .. MAX_PHILOSOPHERS |-> forks[k - 1]] \o <<sem_big_fork>>

Philosophers == {pid \in Pids \ {0, Command} : pc[pid] # "none"}

\* Mutant: the semaphores are left to themselves.
PhiloKillLeavesForks(k) ==
  [k EXCEPT !.sch = Killed(@, Range(philos) \cap {pid \in Pids : IsActive(@, pid)})]

\* philo_kill: terminate_philos, with what philos[] holds, and terminate_forks.
PhiloKill(k) ==
  LET victims == Range(philos) \cap {pid \in Pids : IsActive(k.sch, pid)}
  IN  FoldLeft(Closed, [k EXCEPT !.sch = Killed(@, victims)], ForksClosed)

\* proc_kill of the command: after the callback the scheduler is told, the children
\* that are left die, and the shell, if it waits, is woken.
KillCommand(exits) ==
  LET k == PhiloKill([sch |-> sch, semaphores |-> semaphores])
      killed == Killed(k.sch, {Command} \cup Philosophers)
      woken == IF pc[0] = "waiting" THEN SchUnblock(killed, 0) ELSE killed
  IN  /\ semaphores' = k.semaphores
      /\ IF exits THEN SchYield(woken, sch') ELSE sch' = woken
      /\ waiting' = [pid \in Pids |-> NULL]
      /\ pc' = [pid \in Pids |-> IF pid = 0 THEN pc[0] ELSE "none"]
      /\ forks' = [f \in DOMAIN forks |-> IF f \in Places THEN -1 ELSE forks[f]]
      /\ UNCHANGED <<links, leaked, stray, place, i, result, philos, sem_big_fork, ate>>

\* Ctrl-C: of the foreground processes the command has the highest pid.
CtrlC ==
  /\ Interruptible /\ IsActive(sch, Command)
  /\ AbortDuringSetup \/ pc[Command] \in {"wait", "waiting"}
  /\ KillCommand(FALSE)
  /\ aborted' = TRUE

\* All philosophers are gone: exit kills the caller, and yields.
CommandReturns ==
  /\ AtStep(Command, "wait") /\ SystemCall /\ i = philo_count
  /\ KillCommand(TRUE)
  /\ UNCHANGED aborted

----------------------------------------------------------------------------
(* A philosopher *)

Fork(pid) == forks[place[pid]]
NeighboursFork(pid) == forks[(place[pid] + 1) % philo_count]

\* ti_sleep: the philosopher yields each time it is dispatched, until it has
\* slept long enough.
Nap(pid) ==
  /\ sch.current = pid /\ pc[pid] \in {"think", "eat"} /\ Yield
  /\ UNCHANGED philoVars

StopThinking(pid) ==
  /\ AtStep(pid, "think") /\ SystemCall
  /\ pc[Command] \in {"wait", "waiting"}
  /\ Goto(pid, "big_fork")
  /\ UNCHANGED <<vars, place, i, result, philos, forks, sem_big_fork, ate, aborted>>

StopEating(pid) ==
  /\ AtStep(pid, "eat") /\ SystemCall
  /\ Goto(pid, "return_next")
  /\ ate' = ate \cup {place[pid]}
  /\ UNCHANGED <<vars, place, i, result, philos, forks, sem_big_fork, aborted>>

WaitFor(pid, sem, from, to) ==
  /\ AtStep(pid, from) /\ SystemCall /\ (Take(sem) \/ Sleep(sem))
  /\ Goto(pid, to)
  /\ UNCHANGED <<place, i, result, philos, forks, sem_big_fork, ate, aborted>>

Return(pid, sem, from, to) ==
  /\ AtStep(pid, from) /\ SystemCall /\ Release(sem)
  /\ Goto(pid, to)
  /\ UNCHANGED <<place, i, result, philos, forks, sem_big_fork, ate, aborted>>

\* Mutant: no big fork, each takes its own and then the neighbour's.
PickUpWithoutBigFork(pid) ==
  \/ AtStep(pid, "big_fork") /\ Goto(pid, "own_fork")
     /\ UNCHANGED <<vars, place, i, result, philos, forks, sem_big_fork, ate, aborted>>
  \/ WaitFor(pid, Fork(pid), "own_fork", "next_fork")
  \/ WaitFor(pid, NeighboursFork(pid), "next_fork", "eat")

\* Mutant: the neighbour's fork is not waited for.
PickUpOne(pid) ==
  \/ WaitFor(pid, sem_big_fork, "big_fork", "own_fork")
  \/ WaitFor(pid, Fork(pid), "own_fork", "return_big_fork")
  \/ Return(pid, sem_big_fork, "return_big_fork", "eat")

PickUp(pid) ==
  \/ WaitFor(pid, sem_big_fork, "big_fork", "own_fork")
  \/ WaitFor(pid, Fork(pid), "own_fork", "next_fork")
  \/ WaitFor(pid, NeighboursFork(pid), "next_fork", "return_big_fork")
  \/ Return(pid, sem_big_fork, "return_big_fork", "eat")

PutDown(pid) ==
  \/ Return(pid, NeighboursFork(pid), "return_next", "return_own")
  \/ Return(pid, Fork(pid), "return_own", "exit")

\* Who waits for the philosopher is woken.
Leave(pid) ==
  /\ AtStep(pid, "exit") /\ SystemCall
  /\ LET s == SchOnProcessKilled(sch, pid, 0)
         awaited == pc[Command] = "waiting" /\ philos[i] = pid
     IN  SchYield(IF awaited THEN SchUnblock(s, Command) ELSE s, sch')
  /\ Goto(pid, "none")
  /\ UNCHANGED <<semVars, place, i, result, philos, forks, sem_big_fork, ate, aborted>>

----------------------------------------------------------------------------

ShellStep == Launch \/ ShellWaits \/ ShellGoesOn

CommandStep ==
  \/ \E pid \in Pids : AddPhilo(pid)
  \/ StorePhilo \/ AddFork \/ StoreFork \/ OpenBigFork \/ StoreBigFork
  \/ WaitForPhilo \/ WaitedForPhilo \/ CommandReturns

PhilosopherStep(pid) ==
  StopThinking(pid) \/ PickUp(pid) \/ StopEating(pid) \/ PutDown(pid) \/ Leave(pid)

Continue == ContinueWait /\ UNCHANGED philoVars
TimerTick == Tick /\ UNCHANGED philoVars

PhiloNext ==
  \/ ShellStep
  \/ CommandStep
  \/ \E pid \in Pids : PhilosopherStep(pid)
  \/ \E pid \in Pids : Nap(pid)
  \/ CtrlC
  \/ Continue
  \/ TimerTick

PhiloSpec == PhiloInit /\ [][PhiloNext]_diningVars

\* The timer keeps interrupting, whoever is given the processor again and again
\* gets something done, naps end, and sem_wait goes on where it stopped.  Nobody
\* has to press Ctrl-C.
FairPhiloSpec ==
  /\ PhiloSpec
  /\ WF_diningVars(TimerTick) /\ WF_diningVars(Continue)
  /\ SF_diningVars(ShellStep) /\ SF_diningVars(CommandStep)
  /\ \A pid \in Pids : SF_diningVars(PhilosopherStep(pid))

----------------------------------------------------------------------------

\* sem_wait has returned for both forks and sem_post was called for neither.
Eating(pid) ==
  /\ pc[pid] \in {"return_big_fork", "eat", "return_next"} /\ waiting[pid] = NULL

(* Philosophers who share a fork never eat at once, whoever wakes up in which
   order and takes the forks one by one (philosophers.c:125-143). *)
NeighboursDontEat ==
  \A p, q \in Pids :
    Eating(p) /\ Eating(q) /\ p # q => {Fork(p), NeighboursFork(p)} \cap {Fork(q), NeighboursFork(q)} = {}

(* Unless Ctrl-C ends the dinner everyone gets to eat, and the prompt returns: the big fork keeps them from
   each taking one fork and waiting for the other (philosophers.c:132-135). *)
EveryoneEats == <>(pc[0] = "prompt" /\ (aborted \/ ate = Places))

(* Once the command is over, by Ctrl-C or by itself, its philosophers are dead,
   none of its semaphores is left, the one it opened for all of them included,
   and the shell is still there: philo "can be called again" (informe.md:216). *)
CanBeCalledAgain ==
  pc[0] # "launch" /\ ~IsActive(sch, Command) =>
    /\ \A pid \in Pids : IsActive(sch, pid) <=> pid = 0
    /\ semaphores = <<>>
=============================================================================
