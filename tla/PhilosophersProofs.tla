------------------------- MODULE PhilosophersProofs -------------------------
(***************************************************************************)
(* Philosophers who share a fork do not eat at once, for every number of   *)
(* philosophers and processes, and whether or not Ctrl-C may come during   *)
(* the preparations.  If it may not, the end of the command leaves nothing *)
(* behind: every process but the shell is dead, every semaphore is closed. *)
(***************************************************************************)
EXTENDS Philosophers, KernelLemmas

SetupSteps == {"add_philo", "store_philo", "add_fork", "store_fork"}
WaitSteps == {"wait", "waiting"}
CommandSteps == SetupSteps \cup {"open_big_fork", "store_big_fork"} \cup WaitSteps

\* What philosophers do with the semaphores in hand.
TableSteps ==
  {"big_fork", "own_fork", "next_fork", "return_big_fork", "eat",
   "return_next", "return_own", "exit"}

PhilosopherPids == Pids \ {0, Command}

\* Before the command runs, while it runs, and once it is over.
NotStarted ==
  /\ pc = [pid \in Pids |-> IF pid = 0 THEN "launch" ELSE "none"]
  /\ SchInv(sch) /\ \A pid \in Pids : IsActive(sch, pid) <=> pid = 0
  /\ semaphores = <<>> /\ i = 0 /\ result \in Int
  /\ waiting = [pid \in Pids |-> NULL] /\ place = [pid \in Pids |-> 0]
  /\ DOMAIN forks = 0 .. MAX_PHILOSOPHERS - 1

Over ==
  /\ pc = [pid \in Pids |-> pc[pid]]
  /\ pc[0] \in {"wait", "waiting", "prompt"}
  /\ \A pid \in Pids \ {0} : pc[pid] = "none"

DiningTypes ==
  /\ semaphores \in [DOMAIN semaphores -> SemInfo] /\ DOMAIN semaphores \subseteq Semaphores
  /\ waiting \in [Pids -> Semaphores \cup {NULL}]
  /\ pc = [pid \in Pids |-> pc[pid]] /\ place \in [Pids -> Places]
  /\ i \in Nat
  /\ DOMAIN forks = 0 .. MAX_PHILOSOPHERS - 1

\* Nobody sits down at the table before it is laid.
StepsInOrder ==
  /\ pc[0] \in {"wait", "waiting", "prompt"} /\ pc[Command] \in CommandSteps
  /\ pc[Command] \in SetupSteps => i \in Places
  /\ \A pid \in PhilosopherPids :
       /\ pc[pid] \in {"none", "think"} \cup TableSteps
       /\ pc[pid] \in TableSteps => pc[Command] \in WaitSteps
  /\ \A pid \in Pids : pc[pid] # "none" => IsActive(sch, pid)

\* The semaphore of fork k, or the big one.
NamedSem(sem, name) == sem \in DOMAIN semaphores /\ semaphores[sem].name = name

IsLaid(k) == pc[Command] \in SetupSteps => k < i

ForksLaid ==
  /\ \A k \in Places : IsLaid(k) => NamedSem(forks[k], FORK_SEM_NAME(k))
  /\ pc[Command] = "store_fork" => NamedSem(result, FORK_SEM_NAME(i))
  /\ pc[Command] = "store_big_fork" => NamedSem(result, BIG_FORK_NAME)
  /\ pc[Command] \in WaitSteps => NamedSem(sem_big_fork, BIG_FORK_NAME)

\* The steps in or behind a sem_wait, and what it waits for.
AttemptSteps == {"own_fork", "next_fork", "return_big_fork"}

Wanted(pid, step) ==
  IF step = "own_fork" THEN sem_big_fork
  ELSE IF step = "next_fork" THEN Fork(pid) ELSE NeighboursFork(pid)

WaitsForIts ==
  \A pid \in Pids : waiting[pid] # NULL =>
    pid \in PhilosopherPids /\ pc[pid] \in AttemptSteps /\ waiting[pid] = Wanted(pid, pc[pid])

NeighboursPlace(pid) == (place[pid] + 1) % philo_count

\* sem_wait has returned for the fork, and sem_post was not called.
HoldsOwn(pid) ==
  \/ pc[pid] = "next_fork" /\ waiting[pid] = NULL
  \/ pc[pid] \in {"return_big_fork", "eat", "return_next", "return_own"}

HoldsNeighbours(pid) ==
  \/ pc[pid] = "return_big_fork" /\ waiting[pid] = NULL
  \/ pc[pid] \in {"eat", "return_next"}

Holds(pid, k) ==
  \/ HoldsOwn(pid) /\ place[pid] = k
  \/ HoldsNeighbours(pid) /\ NeighboursPlace(pid) = k

\* A fork is on the table once, or in one hand.
OneOfEachFork ==
  /\ \A sem \in DOMAIN semaphores : semaphores[sem].name \in Places => semaphores[sem].value \in {0, 1}
  /\ \A pid \in PhilosopherPids, k \in Places :
       Holds(pid, k) => /\ semaphores[forks[k]].value = 0
                        /\ \A other \in PhilosopherPids : Holds(other, k) => other = pid

Dining == SchInv(sch) /\ DiningTypes /\ StepsInOrder /\ ForksLaid /\ WaitsForIts /\ OneOfEachFork

PhiloInv == NotStarted \/ Dining \/ Over
----------------------------------------------------------------------------
(* What the calls do *)

LEMMA ConstantFacts ==
  /\ Pids \subseteq 0 .. 253 /\ {0, Command} \subseteq Pids /\ Command # 0 /\ 1 \in 0 .. UINT8 - 1
  /\ KERNEL_PROC_PID \notin Pids /\ KILLED_PROC_PID \notin Pids
  /\ UINT8 \in Nat /\ UINT8 >= 2 /\ NULL \notin Semaphores
  /\ philo_count \in Nat /\ philo_count >= 2 /\ philo_count \notin Places /\ 0 \in Places
  /\ Places \subseteq 0 .. MAX_PHILOSOPHERS - 1
<1> /\ MAX_PROCESSES \in Nat /\ philo_count \in Nat /\ philo_count >= 2
    /\ MAX_PROCESSES > philo_count + 1 /\ MAX_PROCESSES <= 254
    /\ MAX_PHILOSOPHERS >= philo_count /\ MAX_PHILOSOPHERS \in Int
    /\ UINT8 \in Nat /\ UINT8 >= 2 /\ MAX_SEMAPHORES \in Nat
  BY PhilosophersAssumption, SemaphoreAssumption, SchedulerAssumption
<1> QED BY DEF Pids, Command, Places, Semaphores, NULL, KERNEL_PROC_PID, KILLED_PROC_PID

\* Who sits next to a philosopher is somebody else.
LEMMA NextPlace ==
  ASSUME NEW k \in Places
  PROVE  (k + 1) % philo_count \in Places /\ (k + 1) % philo_count # k
<1>1. philo_count \in Nat /\ philo_count >= 2
  BY PhilosophersAssumption
<1>2. CASE k = philo_count - 1
  <2>1. (k + 1) % philo_count = 0
    BY <1>1, <1>2
  <2> QED BY <1>1, <1>2, <2>1 DEF Places
<1>3. CASE k # philo_count - 1
  <2>1. k \in Nat /\ k + 1 < philo_count
    BY <1>1, <1>3 DEF Places
  <2>2. (k + 1) % philo_count = k + 1
    BY <1>1, <2>1
  <2> QED BY <1>1, <2>1, <2>2 DEF Places
<1> QED BY <1>2, <1>3

\* sem_wait that takes one.
LEMMA TakeFacts ==
  ASSUME semaphores \in [DOMAIN semaphores -> SemInfo], NEW sem, Take(sem), sch.current \in Pids
  PROVE  /\ sem \in DOMAIN semaphores /\ DOMAIN semaphores' = DOMAIN semaphores
         /\ semaphores' \in [DOMAIN semaphores' -> SemInfo]
         /\ \A other \in DOMAIN semaphores :
              /\ semaphores'[other].name = semaphores[other].name
              /\ other # sem => semaphores'[other].value = semaphores[other].value
         /\ semaphores[sem].value # 0 /\ semaphores'[sem].value = semaphores[sem].value - 1
         /\ waiting' = [waiting EXCEPT ![sch.current] = NULL]
         /\ sch' = sch
<1> DEFINE info == [semaphores[sem] EXCEPT !.value = @ - 1]
<1>1. /\ sem \in DOMAIN semaphores /\ semaphores[sem].value # 0
      /\ semaphores' = [semaphores EXCEPT ![sem] = info]
      /\ waiting' = [waiting EXCEPT ![sch.current] = NULL] /\ sch' = sch
  BY DEF Take
<1>2. semaphores[sem] \in SemInfo
  BY <1>1
<1>3. /\ info \in SemInfo /\ info.name = semaphores[sem].name
      /\ info.value = semaphores[sem].value - 1
  <2>1. semaphores[sem].value \in 0 .. UINT8 - 1
    BY <1>2 DEF SemInfo
  <2>2. semaphores[sem].value - 1 \in 0 .. UINT8 - 1
    BY <1>1, <2>1, ConstantFacts
  <2> QED BY <1>2, <2>2 DEF SemInfo
<1> HIDE DEF info
<1> QED BY <1>1, <1>3

\* sem_wait that goes to sleep.
LEMMA SleepFacts ==
  ASSUME semaphores \in [DOMAIN semaphores -> SemInfo], SchInv(sch), sch.current \in Pids,
         NEW sem, Sleep(sem)
  PROVE  /\ sem \in DOMAIN semaphores /\ DOMAIN semaphores' = DOMAIN semaphores
         /\ semaphores' \in [DOMAIN semaphores' -> SemInfo]
         /\ \A other \in DOMAIN semaphores :
              /\ semaphores'[other].name = semaphores[other].name
              /\ semaphores'[other].value = semaphores[other].value
         /\ waiting' = [waiting EXCEPT ![sch.current] = sem]
         /\ SchInv(sch') /\ sch'.rsp = sch.rsp
<1> DEFINE me == sch.current
           info == [semaphores[sem] EXCEPT !.waiting_processes = Append(@, me)]
<1>1. me \in 0 .. 253 /\ (me + 256) % 256 = me
  BY ConstantFacts
<1>2. /\ sem \in DOMAIN semaphores
      /\ semaphores' = [semaphores EXCEPT ![sem] = info] \/ semaphores' = semaphores
      /\ waiting' = [waiting EXCEPT ![me] = sem]
      /\ SchYield(SchBlock(sch, me), sch')
  <2> DEFINE queued == (me + 256) % 256
             longer == [semaphores EXCEPT ![sem].waiting_processes = Append(@, queued)]
  <2>1. /\ sem \in DOMAIN semaphores
        /\ semaphores' = longer \/ semaphores' = semaphores
        /\ waiting' = IF queued \in Pids THEN [waiting EXCEPT ![queued] = sem] ELSE waiting
        /\ SchYield(SchBlock(sch, queued), sch')
    BY DEF Sleep
  <2>2. queued = me /\ me \in Pids
    BY <1>1
  <2> HIDE DEF me, queued
  <2>3. longer = [semaphores EXCEPT ![sem] = info]
    BY <2>2
  <2> HIDE DEF longer, info
  <2> QED BY <2>1, <2>2, <2>3
<1>3. semaphores[sem] \in SemInfo
  BY <1>2
<1>4. info \in SemInfo /\ info.name = semaphores[sem].name /\ info.value = semaphores[sem].value
  <2>1. semaphores[sem].waiting_processes \in Seq(0 .. 255) /\ me \in 0 .. 255
    BY <1>1, <1>3 DEF SemInfo
  <2>2. Append(semaphores[sem].waiting_processes, me) \in Seq(0 .. 255)
    BY <2>1, AppendFacts
  <2> HIDE DEF me
  <2> QED BY <1>3, <2>2 DEF SemInfo
<1> HIDE DEF info, me
<1>5. PICK blocked : blocked = SchBlock(sch, me)
  OBVIOUS
<1>6. me \in Int /\ SchYield(blocked, sch')
  BY <1>1, <1>2, <1>5
<1>7. SchInv(blocked) /\ blocked.rsp = sch.rsp
  BY <1>5, <1>6, BlockFacts
<1>8. SchInv(sch') /\ sch'.rsp = sch.rsp
  BY <1>6, <1>7, YieldFacts
<1> QED BY <1>2, <1>4, <1>8 DEF me

\* sem_post.
LEMMA ReleaseFacts ==
  ASSUME semaphores \in [DOMAIN semaphores -> SemInfo], SchInv(sch), NEW sem, Release(sem)
  PROVE  /\ sem \in DOMAIN semaphores /\ DOMAIN semaphores' = DOMAIN semaphores
         /\ semaphores' \in [DOMAIN semaphores' -> SemInfo]
         /\ \A other \in DOMAIN semaphores :
              /\ semaphores'[other].name = semaphores[other].name
              /\ other # sem => semaphores'[other].value = semaphores[other].value
         /\ semaphores'[sem].value = (semaphores[sem].value + 1) % UINT8
         /\ waiting' = waiting
         /\ SchInv(sch') /\ sch'.rsp = sch.rsp
<1> DEFINE queue == semaphores[sem].waiting_processes
           rest == IF queue = <<>> THEN queue ELSE Tail(queue)
           value == (semaphores[sem].value + 1) % UINT8
           info == [semaphores[sem] EXCEPT !.value = value, !.waiting_processes = rest]
<1>1. /\ sem \in DOMAIN semaphores /\ waiting' = waiting
      /\ sch' = IF queue = <<>> THEN sch ELSE SchUnblock(sch, Head(queue))
  BY DEF Release
<1>2. semaphores' = [semaphores EXCEPT ![sem] = info]
  BY DEF Release
<1>3. semaphores[sem] \in SemInfo
  BY <1>1
<1>4. queue \in Seq(0 .. 255) /\ semaphores[sem].value \in 0 .. UINT8 - 1
  BY <1>3 DEF SemInfo
<1>5. rest \in Seq(0 .. 255) /\ (queue # <<>> => Head(queue) \in Int)
  <2>1. CASE queue = <<>>
    BY <1>4, <2>1
  <2>2. CASE queue # <<>>
    <3>1. rest = Tail(queue)
      BY <2>2
    <3> HIDE DEF queue, rest
    <3>2. Tail(queue) \in Seq(0 .. 255) /\ Head(queue) \in 0 .. 255
      BY <1>4, <2>2, HeadTailProperties
    <3>3. ASSUME NEW h \in 0 .. 255 PROVE h \in Int
      OBVIOUS
    <3>4. Head(queue) \in Int
      BY <3>2, <3>3, Zenon
    <3> QED BY <3>1, <3>2, <3>4, Zenon
  <2> QED BY <2>1, <2>2
<1>6. value \in 0 .. UINT8 - 1
  BY <1>4, ConstantFacts
<1> HIDE DEF queue, rest, value
<1>7. info \in SemInfo /\ info.name = semaphores[sem].name /\ info.value = value
  BY <1>3, <1>5, <1>6 DEF SemInfo
<1> HIDE DEF info
<1>8. SchInv(sch') /\ sch'.rsp = sch.rsp
  <2>1. CASE queue = <<>>
    BY <1>1, <2>1
  <2>2. CASE queue # <<>>
    BY <1>1, <1>5, <2>2, UnblockFacts
  <2> QED BY <2>1, <2>2
<1> QED BY <1>1, <1>2, <1>7, <1>8 DEF value

----------------------------------------------------------------------------
(* The forks *)

LEMMA StepFacts ==
  /\ TableSteps \cap {"none", "think", "launch", "prompt"} = {}
  /\ (TableSteps \cup {"none", "think"}) \cap (CommandSteps \cup {"launch", "prompt"}) = {}
  /\ AttemptSteps \subseteq TableSteps /\ SetupSteps \cap WaitSteps = {}
  /\ WaitSteps \subseteq CommandSteps /\ SetupSteps \subseteq CommandSteps
  /\ {"open_big_fork", "store_big_fork"} \subseteq CommandSteps \ (SetupSteps \cup WaitSteps)
BY DEF TableSteps, CommandSteps, SetupSteps, WaitSteps, AttemptSteps

\* While philosophers eat, all forks are on the table, each with its name.
LEMMA LaidForks ==
  ASSUME Dining, pc[Command] \in WaitSteps
  PROVE  /\ \A k \in Places : NamedSem(forks[k], k)
         /\ \A j, k \in Places : forks[j] = forks[k] => j = k
         /\ NamedSem(sem_big_fork, philo_count)
         /\ \A k \in Places : forks[k] # sem_big_fork
<1>1. /\ \A k \in Places : NamedSem(forks[k], k)
      /\ NamedSem(sem_big_fork, philo_count)
  BY StepFacts DEF Dining, ForksLaid, IsLaid, FORK_SEM_NAME, BIG_FORK_NAME
<1> QED BY <1>1, ConstantFacts DEF NamedSem

LEMMA HoldersAreAtTheTable ==
  ASSUME Dining, NEW pid \in PhilosopherPids, NEW k \in Places, Holds(pid, k)
  PROVE  pc[pid] \in TableSteps /\ pc[Command] \in WaitSteps
<1>1. pc[pid] \in TableSteps
  BY DEF Holds, HoldsOwn, HoldsNeighbours, TableSteps
<1> QED BY <1>1 DEF Dining, StepsInOrder

\* A philosopher takes fork j off the table.
LEMMA TakingAFork ==
  ASSUME Dining, pc[Command] \in WaitSteps, NEW pid \in PhilosopherPids, NEW j \in Places,
         DOMAIN semaphores' = DOMAIN semaphores, forks' = forks,
         \A sem \in DOMAIN semaphores :
           /\ semaphores'[sem].name = semaphores[sem].name
           /\ sem # forks[j] => semaphores'[sem].value = semaphores[sem].value,
         semaphores[forks[j]].value # 0,
         semaphores'[forks[j]].value = semaphores[forks[j]].value - 1,
         \A other \in PhilosopherPids, k \in Places :
           Holds(other, k)' <=> Holds(other, k) \/ (other = pid /\ k = j)
  PROVE  OneOfEachFork'
<1>1. /\ \A k \in Places : NamedSem(forks[k], k)
      /\ \A k \in Places : forks[k] = forks[j] => k = j
  BY LaidForks
<1>2. semaphores[forks[j]].value \in {0, 1}
  BY <1>1 DEF Dining, OneOfEachFork, NamedSem
<1>3. semaphores'[forks[j]].value = 0 /\ \A other \in PhilosopherPids : ~Holds(other, j)
  BY <1>2 DEF Dining, OneOfEachFork
<1>4. \A k \in Places : k # j => semaphores'[forks[k]].value = semaphores[forks[k]].value
  BY <1>1 DEF NamedSem
<1>5. \A sem \in DOMAIN semaphores' :
        semaphores'[sem].name \in Places => semaphores'[sem].value \in {0, 1}
  BY <1>3 DEF Dining, OneOfEachFork
<1>6. ASSUME NEW other \in PhilosopherPids, NEW k \in Places, Holds(other, k)'
      PROVE  /\ semaphores'[forks'[k]].value = 0
             /\ \A another \in PhilosopherPids : Holds(another, k)' => another = other
  <2>1. CASE k = j
    BY <1>3, <1>6, <2>1
  <2>2. CASE k # j
    BY <1>4, <1>6, <2>2 DEF Dining, OneOfEachFork
  <2> QED BY <2>1, <2>2
<1> QED BY <1>5, <1>6 DEF OneOfEachFork

\* A philosopher puts fork j back.
LEMMA PuttingAForkBack ==
  ASSUME Dining, pc[Command] \in WaitSteps, NEW pid \in PhilosopherPids, NEW j \in Places,
         DOMAIN semaphores' = DOMAIN semaphores, forks' = forks,
         \A sem \in DOMAIN semaphores :
           /\ semaphores'[sem].name = semaphores[sem].name
           /\ sem # forks[j] => semaphores'[sem].value = semaphores[sem].value,
         semaphores'[forks[j]].value = (semaphores[forks[j]].value + 1) % UINT8,
         Holds(pid, j),
         \A other \in PhilosopherPids, k \in Places :
           Holds(other, k)' <=> Holds(other, k) /\ ~(other = pid /\ k = j)
  PROVE  OneOfEachFork'
<1>1. \A k \in Places : /\ NamedSem(forks[k], k)
                        /\ forks[k] = forks[j] => k = j
  BY LaidForks
<1>2. semaphores[forks[j]].value = 0 /\ \A other \in PhilosopherPids : Holds(other, j) => other = pid
  BY DEF Dining, OneOfEachFork
<1>3. semaphores'[forks[j]].value = 1
  <2>1. ASSUME NEW m \in Nat, m >= 2 PROVE (0 + 1) % m = 1
    BY <2>1
  <2>2. (0 + 1) % UINT8 = 1
    BY <2>1, ConstantFacts
  <2> QED BY <1>2, <2>2
<1>4. \A k \in Places : k # j => semaphores'[forks[k]].value = semaphores[forks[k]].value
  BY <1>1 DEF NamedSem
<1>5. \A sem \in DOMAIN semaphores' :
        semaphores'[sem].name \in Places => semaphores'[sem].value \in {0, 1}
  BY <1>3 DEF Dining, OneOfEachFork
<1>6. ASSUME NEW other \in PhilosopherPids, NEW k \in Places, Holds(other, k)'
      PROVE  /\ semaphores'[forks'[k]].value = 0
             /\ \A another \in PhilosopherPids : Holds(another, k)' => another = other
  <2>1. Holds(other, k) /\ k # j
    BY <1>2, <1>6
  <2> QED BY <1>4, <2>1 DEF Dining, OneOfEachFork
<1> QED BY <1>5, <1>6 DEF OneOfEachFork

\* A step that touches no fork.
LEMMA LeavingTheForks ==
  ASSUME Dining,
         \A sem \in DOMAIN semaphores' :
           semaphores'[sem].name \in Places => semaphores'[sem].value \in {0, 1},
         \A pid \in PhilosopherPids, k \in Places :
           Holds(pid, k)' => /\ Holds(pid, k)
                             /\ semaphores'[forks'[k]].value = semaphores[forks[k]].value
  PROVE  OneOfEachFork'
BY DEF Dining, OneOfEachFork

----------------------------------------------------------------------------
(* Philosophers *)

LEMMA ThePidAtAStep ==
  ASSUME Dining, NEW pid \in Pids, pc[pid] \in TableSteps \cup {"think"}
  PROVE  pid \in PhilosopherPids
BY StepFacts, ConstantFacts DEF Dining, StepsInOrder, PhilosopherPids, CommandSteps, WaitSteps,
   SetupSteps, TableSteps

\* sem_wait, when it is called and whenever it looks again.
LEMMA AttemptKeepsDining ==
  ASSUME Dining, NEW pid \in PhilosopherPids, sch.current = pid, pc[Command] \in WaitSteps,
         NEW step \in AttemptSteps,
         Take(Wanted(pid, step)) \/ Sleep(Wanted(pid, step)),
         \A k \in Places : Holds(pid, k) <=> step = "return_big_fork" /\ place[pid] = k,
         pc' = [pc EXCEPT ![pid] = step],
         UNCHANGED <<place, i, result, forks, sem_big_fork>>
  PROVE  Dining'
<1> PICK sem : sem = Wanted(pid, step)
  OBVIOUS
<1>1. /\ semaphores \in [DOMAIN semaphores -> SemInfo] /\ DOMAIN semaphores \subseteq Semaphores
      /\ SchInv(sch) /\ pid \in Pids /\ pid # Command /\ pid # 0
      /\ waiting \in [Pids -> Semaphores \cup {NULL}] /\ pc = [other \in Pids |-> pc[other]]
      /\ place[pid] \in Places /\ NeighboursPlace(pid) \in Places
  BY ConstantFacts, NextPlace DEF Dining, DiningTypes, PhilosopherPids, NeighboursPlace
<1>2. /\ sem \in DOMAIN semaphores /\ DOMAIN semaphores' = DOMAIN semaphores
      /\ semaphores' \in [DOMAIN semaphores' -> SemInfo]
      /\ \A other \in DOMAIN semaphores : semaphores'[other].name = semaphores[other].name
      /\ \A other \in DOMAIN semaphores :
           other # sem => semaphores'[other].value = semaphores[other].value
      /\ SchInv(sch') /\ sch'.rsp = sch.rsp
      /\ \/ Take(sem) /\ waiting' = [waiting EXCEPT ![pid] = NULL]
         \/ Sleep(sem) /\ waiting' = [waiting EXCEPT ![pid] = sem]
  <2>1. CASE Take(sem)
    BY <1>1, <2>1, TakeFacts
  <2>2. CASE Sleep(sem)
    BY <1>1, <2>2, SleepFacts
  <2> QED BY <2>1, <2>2
<1>3. /\ \A other \in Pids \ {pid} : pc'[other] = pc[other] /\ waiting'[other] = waiting[other]
      /\ pc'[pid] = step /\ waiting'[pid] \in {NULL, sem} /\ pc' = [other \in Pids |-> pc'[other]]
      /\ place' = place /\ i' = i /\ result' = result /\ forks' = forks
      /\ sem_big_fork' = sem_big_fork
  <2>2. pc'[pid] = step /\ pc' = [other \in Pids |-> pc'[other]] /\ \A other \in Pids \ {pid} : pc'[other] = pc[other]
    BY <1>1
  <2>3. waiting'[pid] \in {NULL, sem} /\ \A other \in Pids \ {pid} : waiting'[other] = waiting[other]
    BY <1>1, <1>2
  <2>4. /\ place' = place /\ i' = i /\ result' = result /\ forks' = forks
        /\ sem_big_fork' = sem_big_fork
    OBVIOUS
  <2> QED BY <2>2, <2>3, <2>4
<1>4. DiningTypes'
  <2>1. sem \in Semaphores
    BY <1>1, <1>2
  <2>2. waiting' \in [Pids -> Semaphores \cup {NULL}]
    BY <1>1, <1>2, <2>1
  <2>3. /\ place \in [Pids -> Places] /\ i \in Nat
        /\ DOMAIN forks = 0 .. MAX_PHILOSOPHERS - 1
    BY DEF Dining, DiningTypes
  <2>4. /\ place' \in [Pids -> Places] /\ i' \in Nat
        /\ DOMAIN forks' = 0 .. MAX_PHILOSOPHERS - 1
    BY <1>3, <2>3
  <2>5. DOMAIN semaphores' \subseteq Semaphores /\ pc' = [other \in Pids |-> pc'[other]]
    BY <1>1, <1>2, <1>3
  <2> QED BY <1>2, <2>2, <2>4, <2>5 DEF DiningTypes
<1>5. StepsInOrder'
  <2>1. IsActive(sch, pid) /\ \A other \in Pids : IsActive(sch', other) <=> IsActive(sch, other)
    BY <1>1, <1>2 DEF SchInv, ContextsKept, IsActive
  <2>2. pc'[0] = pc[0] /\ pc'[Command] = pc[Command] /\ step \in TableSteps
    BY <1>1, <1>3, StepFacts, ConstantFacts
  <2>3. ASSUME NEW other \in PhilosopherPids
        PROVE  /\ pc'[other] \in {"none", "think"} \cup TableSteps
               /\ pc'[other] \in TableSteps => pc'[Command] \in WaitSteps
    BY <1>3, <2>2 DEF Dining, StepsInOrder, PhilosopherPids
  <2>4. ASSUME NEW other \in Pids, pc'[other] # "none"
        PROVE  IsActive(sch', other)
    BY <1>3, <2>1, <2>4 DEF Dining, StepsInOrder
  <2> QED BY <1>3, <2>2, <2>3, <2>4 DEF Dining, StepsInOrder
<1>6. ForksLaid'
  <2>1. pc'[Command] = pc[Command]
    BY <1>1, <1>3, ConstantFacts
  <2>2. \A other, name : NamedSem(other, name)' <=> NamedSem(other, name)
    BY <1>2 DEF NamedSem
  <2> QED BY <1>3, <2>1, <2>2 DEF Dining, ForksLaid, IsLaid
<1>7. WaitsForIts'
  <2> SUFFICES ASSUME NEW other \in Pids, waiting'[other] # NULL
               PROVE  /\ other \in PhilosopherPids /\ pc'[other] \in AttemptSteps
                      /\ waiting'[other] = Wanted(other, pc[other])'
    BY DEF WaitsForIts
  <2>1. CASE other = pid
    BY <1>3, <2>1 DEF Wanted, Fork, NeighboursFork
  <2>2. CASE other # pid
    <3>1. waiting'[other] = waiting[other] /\ pc'[other] = pc[other]
      BY <1>3, <2>2
    <3>2. other \in PhilosopherPids /\ pc[other] \in AttemptSteps /\ waiting[other] = Wanted(other, pc[other])
      BY <3>1 DEF Dining, WaitsForIts
    <3> QED BY <1>3, <3>1, <3>2 DEF Wanted, Fork, NeighboursFork
  <2> QED BY <2>1, <2>2
<1>8. OneOfEachFork'
  <2>1. \A other \in PhilosopherPids \ {pid}, k \in Places : Holds(other, k)' <=> Holds(other, k)
    BY <1>3 DEF Holds, HoldsOwn, HoldsNeighbours, NeighboursPlace, PhilosopherPids
  <2>2. /\ \A k \in Places : NamedSem(forks[k], k)
        /\ NamedSem(sem_big_fork, philo_count)
    BY LaidForks
  <2>3. \A k \in Places : Holds(pid, k)' <=>
          \/ Holds(pid, k)
          \/ waiting'[pid] = NULL /\ step = "next_fork" /\ place[pid] = k
          \/ waiting'[pid] = NULL /\ step = "return_big_fork" /\ NeighboursPlace(pid) = k
    BY <1>3 DEF Holds, HoldsOwn, HoldsNeighbours, NeighboursPlace, AttemptSteps
  <2>4. CASE Sleep(sem) /\ waiting' = [waiting EXCEPT ![pid] = sem]
    <3>1. waiting'[pid] # NULL
      BY <1>1, <1>2, <2>4, ConstantFacts
    <3>2. \A other \in DOMAIN semaphores : semaphores'[other].value = semaphores[other].value
      BY <1>1, <2>4, SleepFacts
    <3>3. \A other \in PhilosopherPids, k \in Places : Holds(other, k)' => Holds(other, k)
      BY <2>1, <2>3, <3>1
    <3> QED BY <1>2, <1>3, <2>2, <3>2, <3>3, LeavingTheForks DEF Dining, OneOfEachFork, NamedSem
  <2>5. CASE Take(sem) /\ waiting' = [waiting EXCEPT ![pid] = NULL]
    <3>1. /\ waiting'[pid] = NULL /\ semaphores[sem].value # 0
          /\ semaphores'[sem].value = semaphores[sem].value - 1
      BY <1>1, <2>5, TakeFacts
    <3>2. CASE step = "own_fork"
      <4>1. semaphores[sem].name = philo_count
        BY <2>2, <3>2 DEF Wanted, NamedSem
      <4>2. \A other \in PhilosopherPids, k \in Places : Holds(other, k)' => Holds(other, k)
        BY <2>1, <2>3, <3>2
      <4>3. \A k \in Places : semaphores'[forks[k]].value = semaphores[forks[k]].value
        <5> SUFFICES ASSUME NEW k \in Places
                     PROVE  semaphores'[forks[k]].value = semaphores[forks[k]].value
          OBVIOUS
        <5>1. forks[k] \in DOMAIN semaphores /\ semaphores[forks[k]].name = k /\ k # philo_count
          BY <2>2, ConstantFacts DEF NamedSem
        <5>2. forks[k] # sem
          BY <4>1, <5>1
        <5> QED BY <1>2, <5>1, <5>2
      <4>4. \A other \in DOMAIN semaphores' :
              semaphores'[other].name \in Places => semaphores'[other].value \in {0, 1}
        BY <1>2, <4>1, ConstantFacts DEF Dining, OneOfEachFork
      <4> QED BY <1>3, <4>2, <4>3, <4>4, LeavingTheForks
    <3>3. CASE step # "own_fork"
      <4>0. PICK j : j = IF step = "next_fork" THEN place[pid] ELSE NeighboursPlace(pid)
        OBVIOUS
      <4>1. j \in Places /\ sem = forks[j]
        BY <1>1, <3>3, <4>0 DEF Wanted, Fork, NeighboursFork, NeighboursPlace
      <4>2. \A other \in PhilosopherPids, k \in Places :
              Holds(other, k)' <=> Holds(other, k) \/ (other = pid /\ k = j)
        <5>1. \A k \in Places : Holds(pid, k)' <=> Holds(pid, k) \/ k = j
          <6>1. step \in {"next_fork", "return_big_fork"}
            BY <3>3 DEF AttemptSteps
          <6>2. waiting'[pid] = NULL
            BY <3>1
          <6> QED BY <2>3, <4>0, <6>1, <6>2
        <5> QED BY <2>1, <5>1
      <4>3. \A other \in DOMAIN semaphores :
              /\ semaphores'[other].name = semaphores[other].name
              /\ other # forks[j] => semaphores'[other].value = semaphores[other].value
        BY <1>2, <4>1
      <4>4. /\ semaphores[forks[j]].value # 0
            /\ semaphores'[forks[j]].value = semaphores[forks[j]].value - 1
        BY <3>1, <4>1
      <4>5. DOMAIN semaphores' = DOMAIN semaphores /\ forks' = forks /\ Dining
            /\ j \in Places /\ pid \in PhilosopherPids /\ pc[Command] \in WaitSteps
        BY <1>1, <1>2, <1>3, <4>1
      <4> HIDE DEF Dining, Holds
      <4> QED BY <4>2, <4>3, <4>4, <4>5, TakingAFork
    <3> QED BY <3>2, <3>3
  <2> QED BY <1>2, <2>4, <2>5
<1> QED BY <1>2, <1>4, <1>5, <1>6, <1>7, <1>8 DEF Dining

\* A philosopher who picks up a fork, or the big one.
LEMMA PickUpKeepsDining ==
  ASSUME Dining, NEW pid \in Pids,
         \/ WaitFor(pid, sem_big_fork, "big_fork", "own_fork")
         \/ WaitFor(pid, Fork(pid), "own_fork", "next_fork")
         \/ WaitFor(pid, NeighboursFork(pid), "next_fork", "return_big_fork")
  PROVE  Dining'
<1>1. /\ sch.current = pid /\ waiting[pid] = NULL
      /\ UNCHANGED <<place, i, result, forks, sem_big_fork>>
  BY DEF WaitFor, AtStep, SystemCall, Interruptible, Resuming
<1>2. ASSUME pc[pid] \in TableSteps
      PROVE  pid \in PhilosopherPids /\ pc[Command] \in WaitSteps
  <2>1. pid \in PhilosopherPids
    BY <1>2, ThePidAtAStep
  <2> QED BY <1>2, <2>1 DEF Dining, StepsInOrder
<1>3. CASE WaitFor(pid, sem_big_fork, "big_fork", "own_fork")
  <2> PICK step : step = "own_fork"
    OBVIOUS
  <2>1. /\ pc[pid] = "big_fork" /\ pc' = [pc EXCEPT ![pid] = step] /\ step \in AttemptSteps
        /\ Take(Wanted(pid, step)) \/ Sleep(Wanted(pid, step))
    BY <1>3 DEF WaitFor, AtStep, Goto, Wanted, AttemptSteps
  <2>2. \A k \in Places : Holds(pid, k) <=> step = "return_big_fork" /\ place[pid] = k
    BY <2>1 DEF Holds, HoldsOwn, HoldsNeighbours
  <2>3. pid \in PhilosopherPids /\ pc[Command] \in WaitSteps
    BY <1>2, <2>1 DEF TableSteps
  <2> QED BY <1>1, <2>1, <2>2, <2>3, AttemptKeepsDining
<1>4. CASE WaitFor(pid, Fork(pid), "own_fork", "next_fork")
  <2> PICK step : step = "next_fork"
    OBVIOUS
  <2>1. /\ pc[pid] = "own_fork" /\ pc' = [pc EXCEPT ![pid] = step] /\ step \in AttemptSteps
        /\ Take(Wanted(pid, step)) \/ Sleep(Wanted(pid, step))
    BY <1>4 DEF WaitFor, AtStep, Goto, Wanted, AttemptSteps
  <2>2. \A k \in Places : Holds(pid, k) <=> step = "return_big_fork" /\ place[pid] = k
    BY <2>1 DEF Holds, HoldsOwn, HoldsNeighbours
  <2>3. pid \in PhilosopherPids /\ pc[Command] \in WaitSteps
    BY <1>2, <2>1 DEF TableSteps
  <2> QED BY <1>1, <2>1, <2>2, <2>3, AttemptKeepsDining
<1>5. CASE WaitFor(pid, NeighboursFork(pid), "next_fork", "return_big_fork")
  <2> PICK step : step = "return_big_fork"
    OBVIOUS
  <2>1. /\ pc[pid] = "next_fork" /\ pc' = [pc EXCEPT ![pid] = step] /\ step \in AttemptSteps
        /\ Take(Wanted(pid, step)) \/ Sleep(Wanted(pid, step))
    BY <1>5 DEF WaitFor, AtStep, Goto, Wanted, AttemptSteps
  <2>2. \A k \in Places : Holds(pid, k) <=> step = "return_big_fork" /\ place[pid] = k
    BY <1>1, <2>1 DEF Holds, HoldsOwn, HoldsNeighbours
  <2>3. pid \in PhilosopherPids /\ pc[Command] \in WaitSteps
    BY <1>2, <2>1 DEF TableSteps
  <2> QED BY <1>1, <2>1, <2>2, <2>3, AttemptKeepsDining
<1> QED BY <1>3, <1>4, <1>5

\* A philosopher whom sem_post has woken, or a close.
LEMMA ContinueKeepsDining ==
  ASSUME Dining, ContinueWait, UNCHANGED philoVars
  PROVE  Dining'
<1> PICK pid : pid = sch.current
  OBVIOUS
<1> PICK step : step = pc[pid]
  OBVIOUS
<1>1. pid \in Pids /\ waiting[pid] # NULL
  BY DEF ContinueWait, Resuming
<1>2. pid \in PhilosopherPids /\ step \in AttemptSteps /\ waiting[pid] = Wanted(pid, step)
  BY <1>1 DEF Dining, WaitsForIts
<1>3. Take(Wanted(pid, step)) \/ Sleep(Wanted(pid, step))
  BY <1>2 DEF ContinueWait
<1>4. pc[Command] \in WaitSteps
  BY <1>2, StepFacts DEF Dining, StepsInOrder
<1>5. \A k \in Places : Holds(pid, k) <=> step = "return_big_fork" /\ place[pid] = k
  BY <1>1, <1>2 DEF Holds, HoldsOwn, HoldsNeighbours, AttemptSteps
<1>6. pc' = [pc EXCEPT ![pid] = step] /\ UNCHANGED <<place, i, result, forks, sem_big_fork>>
  BY <1>1 DEF Dining, DiningTypes, philoVars
<1> QED BY <1>2, <1>3, <1>4, <1>5, <1>6, AttemptKeepsDining

\* A philosopher gives back a fork, or the big one.
LEMMA ReturnKeepsDining ==
  ASSUME Dining, NEW pid \in Pids,
         \/ Return(pid, sem_big_fork, "return_big_fork", "eat")
         \/ Return(pid, NeighboursFork(pid), "return_next", "return_own")
         \/ Return(pid, Fork(pid), "return_own", "exit")
  PROVE  Dining'
<1>1. PICK sem \in DOMAIN semaphores, to \in TableSteps :
        /\ sch.current = pid /\ waiting[pid] = NULL /\ pc[pid] \in TableSteps
        /\ pc' = [pc EXCEPT ![pid] = to] /\ to \notin AttemptSteps
        /\ Release(sem)
        /\ \/ pc[pid] = "return_big_fork" /\ to = "eat" /\ sem = sem_big_fork
           \/ pc[pid] = "return_next" /\ to = "return_own" /\ sem = NeighboursFork(pid)
           \/ pc[pid] = "return_own" /\ to = "exit" /\ sem = Fork(pid)
        /\ place' = place /\ i' = i /\ result' = result /\ forks' = forks
        /\ sem_big_fork' = sem_big_fork
  <2>1. CASE Return(pid, sem_big_fork, "return_big_fork", "eat")
    <3> sem_big_fork \in DOMAIN semaphores
      BY <2>1 DEF Return, Release
    <3> "eat" \in TableSteps
      BY DEF TableSteps
    <3> WITNESS sem_big_fork \in DOMAIN semaphores, "eat" \in TableSteps
    <3> QED BY <2>1 DEF Return, AtStep, Goto, SystemCall, Interruptible, Resuming, TableSteps, AttemptSteps
  <2>2. CASE Return(pid, NeighboursFork(pid), "return_next", "return_own")
    <3> NeighboursFork(pid) \in DOMAIN semaphores
      BY <2>2 DEF Return, Release
    <3> "return_own" \in TableSteps
      BY DEF TableSteps
    <3> WITNESS NeighboursFork(pid) \in DOMAIN semaphores, "return_own" \in TableSteps
    <3> QED BY <2>2 DEF Return, AtStep, Goto, SystemCall, Interruptible, Resuming, TableSteps, AttemptSteps
  <2>3. CASE Return(pid, Fork(pid), "return_own", "exit")
    <3> Fork(pid) \in DOMAIN semaphores
      BY <2>3 DEF Return, Release
    <3> "exit" \in TableSteps
      BY DEF TableSteps
    <3> WITNESS Fork(pid) \in DOMAIN semaphores, "exit" \in TableSteps
    <3> QED BY <2>3 DEF Return, AtStep, Goto, SystemCall, Interruptible, Resuming, TableSteps, AttemptSteps
  <2> QED BY <2>1, <2>2, <2>3
<1>2. pid \in PhilosopherPids /\ pc[Command] \in WaitSteps /\ pid # 0 /\ pid # Command
  <2>1. pid \in PhilosopherPids
    BY <1>1, ThePidAtAStep
  <2> QED BY <1>1, <2>1 DEF Dining, StepsInOrder, PhilosopherPids
<1>3. /\ sem \in DOMAIN semaphores /\ DOMAIN semaphores' = DOMAIN semaphores
      /\ semaphores' \in [DOMAIN semaphores' -> SemInfo]
      /\ \A other \in DOMAIN semaphores :
           /\ semaphores'[other].name = semaphores[other].name
           /\ other # sem => semaphores'[other].value = semaphores[other].value
      /\ semaphores'[sem].value = (semaphores[sem].value + 1) % UINT8
      /\ waiting' = waiting /\ SchInv(sch') /\ sch'.rsp = sch.rsp
  BY <1>1, ReleaseFacts DEF Dining, DiningTypes
<1>4. /\ pc'[pid] = to /\ pc' = [other \in Pids |-> pc'[other]]
      /\ \A other \in Pids \ {pid} : pc'[other] = pc[other]
  BY <1>1 DEF Dining, DiningTypes
<1>5. pc'[0] = pc[0] /\ pc'[Command] = pc[Command]
  BY <1>2, <1>4, ConstantFacts
<1>6. DiningTypes'
  BY <1>1, <1>3, <1>4 DEF Dining, DiningTypes
<1>7. StepsInOrder'
  <2>1. \A other \in Pids : IsActive(sch', other) <=> IsActive(sch, other)
    BY <1>3 DEF IsActive
  <2>2. IsActive(sch, pid)
    BY <1>1, StepFacts DEF Dining, StepsInOrder
  <2>3. ASSUME NEW other \in PhilosopherPids
        PROVE  /\ pc'[other] \in {"none", "think"} \cup TableSteps
               /\ pc'[other] \in TableSteps => pc'[Command] \in WaitSteps
    BY <1>2, <1>4, <1>5 DEF Dining, StepsInOrder, PhilosopherPids
  <2>4. ASSUME NEW other \in Pids, pc'[other] # "none"
        PROVE  IsActive(sch', other)
    BY <1>4, <2>1, <2>2, <2>4 DEF Dining, StepsInOrder
  <2> QED BY <1>1, <1>5, <2>3, <2>4 DEF Dining, StepsInOrder
<1>8. ForksLaid'
  <2>1. \A other, name : NamedSem(other, name)' <=> NamedSem(other, name)
    BY <1>3 DEF NamedSem
  <2> QED BY <1>1, <1>5, <2>1 DEF Dining, ForksLaid, IsLaid
<1>9. WaitsForIts'
  BY <1>1, <1>3, <1>4 DEF Dining, WaitsForIts, Wanted, Fork, NeighboursFork
<1>10. OneOfEachFork'
  <2>1. \A other \in PhilosopherPids \ {pid}, k \in Places : Holds(other, k)' <=> Holds(other, k)
    BY <1>1, <1>3, <1>4 DEF Holds, HoldsOwn, HoldsNeighbours, NeighboursPlace, PhilosopherPids
  <2>2. /\ \A k \in Places : NamedSem(forks[k], k)
        /\ NamedSem(sem_big_fork, philo_count)
    BY <1>2, LaidForks
  <2>3. place[pid] \in Places /\ NeighboursPlace(pid) \in Places /\ NeighboursPlace(pid) # place[pid]
    BY NextPlace DEF Dining, DiningTypes, NeighboursPlace
  <2>4. CASE pc[pid] = "return_big_fork" /\ to = "eat" /\ sem = sem_big_fork
    <3>1. semaphores[sem].name = philo_count
      BY <2>2, <2>4 DEF NamedSem
    <3>2. \A other \in PhilosopherPids, k \in Places : Holds(other, k)' => Holds(other, k)
      <4>1. \A k \in Places : Holds(pid, k)' => Holds(pid, k)
        BY <1>1, <1>4, <2>4 DEF Holds, HoldsOwn, HoldsNeighbours, NeighboursPlace
      <4> QED BY <2>1, <4>1
    <3>3. ASSUME NEW k \in Places
          PROVE  semaphores'[forks'[k]].value = semaphores[forks[k]].value
      <4>1. forks[k] \in DOMAIN semaphores /\ semaphores[forks[k]].name = k /\ k # philo_count
        BY <2>2, ConstantFacts DEF NamedSem
      <4> QED BY <1>1, <1>3, <3>1, <4>1
    <3>4. \A other \in DOMAIN semaphores' :
            semaphores'[other].name \in Places => semaphores'[other].value \in {0, 1}
      BY <1>3, <3>1, ConstantFacts DEF Dining, OneOfEachFork
    <3> QED BY <3>2, <3>3, <3>4, LeavingTheForks
  <2>5. CASE pc[pid] = "return_next" /\ to = "return_own" /\ sem = NeighboursFork(pid)
    <3> PICK j : j = NeighboursPlace(pid)
      OBVIOUS
    <3>1. sem = forks[j] /\ j \in Places
      BY <2>3, <2>5 DEF NeighboursFork, NeighboursPlace
    <3>2. Holds(pid, j)
      BY <2>5 DEF Holds, HoldsNeighbours
    <3>3. \A k \in Places : Holds(pid, k)' <=> Holds(pid, k) /\ k # j
      BY <1>1, <1>4, <2>3, <2>5 DEF Holds, HoldsOwn, HoldsNeighbours, NeighboursPlace
    <3>4. \A other \in PhilosopherPids, k \in Places :
            Holds(other, k)' <=> Holds(other, k) /\ ~(other = pid /\ k = j)
      BY <2>1, <3>3
    <3> QED BY <1>1, <1>2, <1>3, <3>1, <3>2, <3>4, PuttingAForkBack
  <2>6. CASE pc[pid] = "return_own" /\ to = "exit" /\ sem = Fork(pid)
    <3> PICK j : j = place[pid]
      OBVIOUS
    <3>1. sem = forks[j] /\ j \in Places
      BY <2>3, <2>6 DEF Fork
    <3>2. Holds(pid, j)
      BY <2>6 DEF Holds, HoldsOwn
    <3>3. \A k \in Places : Holds(pid, k)' <=> Holds(pid, k) /\ k # j
      BY <1>1, <1>4, <2>6 DEF Holds, HoldsOwn, HoldsNeighbours, NeighboursPlace
    <3>4. \A other \in PhilosopherPids, k \in Places :
            Holds(other, k)' <=> Holds(other, k) /\ ~(other = pid /\ k = j)
      BY <2>1, <3>3
    <3> QED BY <1>1, <1>2, <1>3, <3>1, <3>2, <3>4, PuttingAForkBack
  <2> QED BY <1>1, <2>4, <2>5, <2>6
<1> QED BY <1>3, <1>6, <1>7, <1>8, <1>9, <1>10 DEF Dining

----------------------------------------------------------------------------
(* Steps that leave the semaphores alone *)

LEMMA CallerWaitsForNothing ==
  ASSUME Dining, NEW pid \in Pids, sch.current = pid, SystemCall
  PROVE  waiting[pid] = NULL
BY DEF SystemCall, Interruptible, Resuming

LEMMA BlockedAndYielded ==
  ASSUME SchInv(sch), NEW pid \in Pids, Block(pid)
  PROVE  SchInv(sch') /\ sch'.rsp = sch.rsp
<1> PICK blocked : blocked = SchBlock(sch, pid)
  OBVIOUS
<1>1. pid \in Int /\ SchYield(blocked, sch')
  BY ConstantFacts DEF Block
<1>2. SchInv(blocked) /\ blocked.rsp = sch.rsp
  BY <1>1, BlockFacts
<1> QED BY <1>1, <1>2, YieldFacts

LEMMA OrderKept ==
  ASSUME Dining, NEW pid \in Pids, NEW step, pc' = [pc EXCEPT ![pid] = step],
         sch'.rsp = sch.rsp, pc[pid] # "none",
         pid = 0 => step \in {"wait", "waiting", "prompt"},
         pid = Command =>
           /\ step \in CommandSteps /\ (step \in SetupSteps => i' \in Places)
           /\ pc[Command] \in WaitSteps => step \in WaitSteps,
         pid # Command => i' = i,
         pid \in PhilosopherPids =>
           /\ step \in {"think"} \cup TableSteps
           /\ step \in TableSteps => pc[Command] \in WaitSteps
  PROVE  StepsInOrder'
<1>1. /\ \A other \in Pids : IsActive(sch', other) <=> IsActive(sch, other)
      /\ pc'[pid] = step /\ \A other \in Pids : other # pid => pc'[other] = pc[other]
      /\ 0 \in Pids /\ Command \in Pids /\ Command # 0
  BY ConstantFacts DEF Dining, DiningTypes, IsActive
<1>2. \A other \in Pids : pc'[other] # "none" => IsActive(sch', other)
  BY <1>1 DEF Dining, StepsInOrder
<1>3. pc'[0] \in {"wait", "waiting", "prompt"} /\ pc'[Command] \in CommandSteps
  BY <1>1 DEF Dining, StepsInOrder
<1>4. pc'[Command] \in SetupSteps => i' \in Places
  BY <1>1 DEF Dining, StepsInOrder
<1>5. pc[Command] \in WaitSteps => pc'[Command] \in WaitSteps
  BY <1>1
<1>6. ASSUME NEW other \in PhilosopherPids
      PROVE  /\ pc'[other] \in {"none", "think"} \cup TableSteps
             /\ pc'[other] \in TableSteps => pc'[Command] \in WaitSteps
  BY <1>1, <1>5 DEF Dining, StepsInOrder, PhilosopherPids
<1> QED BY <1>2, <1>3, <1>4, <1>6 DEF StepsInOrder

LEMMA LaidKept ==
  ASSUME Dining, pc'[Command] = pc[Command],
         UNCHANGED <<semaphores, i, result, forks, sem_big_fork>>
  PROVE  ForksLaid'
BY DEF Dining, ForksLaid, IsLaid, NamedSem

LEMMA QuietStepKeepsDining ==
  ASSUME Dining, NEW pid \in Pids, NEW step, pc' = [pc EXCEPT ![pid] = step], waiting[pid] = NULL,
         UNCHANGED <<semaphores, waiting, place, forks, sem_big_fork>>,
         SchInv(sch'), i' \in Nat, StepsInOrder', ForksLaid',
         \A k \in Places : pid \in PhilosopherPids /\ Holds(pid, k)' => Holds(pid, k)
  PROVE  Dining'
<1>1. /\ semaphores' = semaphores /\ waiting' = waiting /\ place' = place
      /\ forks' = forks /\ sem_big_fork' = sem_big_fork
      /\ pc' = [other \in Pids |-> pc'[other]]
      /\ \A other \in Pids : other # pid => pc'[other] = pc[other]
  BY DEF Dining, DiningTypes
<1>2. DiningTypes'
  BY <1>1 DEF Dining, DiningTypes
<1>3. WaitsForIts'
  BY <1>1 DEF Dining, WaitsForIts, Wanted, Fork, NeighboursFork
<1>4. \A other \in PhilosopherPids, k \in Places : Holds(other, k)' => Holds(other, k)
  BY <1>1 DEF Holds, HoldsOwn, HoldsNeighbours, NeighboursPlace, PhilosopherPids
<1>5. OneOfEachFork'
  <2>1. \A sem \in DOMAIN semaphores' :
          semaphores'[sem].name \in Places => semaphores'[sem].value \in {0, 1}
    BY <1>1 DEF Dining, OneOfEachFork
  <2> QED BY <1>1, <1>4, <2>1, LeavingTheForks
<1> QED BY <1>2, <1>3, <1>5 DEF Dining

\* The shell waits for the command.
LEMMA ShellStepKeepsDining ==
  ASSUME Dining, ShellStep
  PROVE  Dining'
<1>1. /\ 0 \in Pids /\ Command \in Pids /\ Command # 0 /\ 0 \notin PhilosopherPids
      /\ pc[0] \in {"wait", "waiting", "prompt"} /\ SchInv(sch) /\ waiting[0] = NULL
      /\ pc = [pid \in Pids |-> pc[pid]]
  BY ConstantFacts DEF Dining, DiningTypes, StepsInOrder, WaitsForIts, PhilosopherPids
<1>2. ~Launch
  BY <1>1 DEF Launch, AtStep
<1>3. PICK step \in {"wait", "waiting", "prompt"} :
        /\ pc' = [pc EXCEPT ![0] = step]
        /\ UNCHANGED <<semaphores, waiting, place, i, result, forks, sem_big_fork>>
        /\ SchInv(sch') /\ sch'.rsp = sch.rsp
  <2>1. CASE ShellWaits
    <3>1. CASE Block(0) /\ Goto(0, "waiting")
      <4>1. SchInv(sch') /\ sch'.rsp = sch.rsp
        BY <1>1, <3>1, BlockedAndYielded
      <4> QED BY <2>1, <3>1, <4>1 DEF ShellWaits, Block, Goto, semVars
    <3>2. CASE Goto(0, "prompt") /\ UNCHANGED vars
      BY <1>1, <2>1, <3>2 DEF ShellWaits, Goto, vars, semVars
    <3> QED BY <2>1, <3>1, <3>2 DEF ShellWaits
  <2>2. CASE ShellGoesOn
    BY <1>1, <2>2 DEF ShellGoesOn, Goto, vars, semVars
  <2> QED BY <1>2, <2>1, <2>2 DEF ShellStep
<1>4. StepsInOrder'
  BY <1>1, <1>3, OrderKept
<1>5. ForksLaid'
  BY <1>1, <1>3, LaidKept
<1>6. i' \in Nat
  BY <1>3 DEF Dining, DiningTypes
<1> QED BY <1>1, <1>3, <1>4, <1>5, <1>6, QuietStepKeepsDining

\* The command waits for its philosophers.
LEMMA CommandWaitKeepsDining ==
  ASSUME Dining, WaitForPhilo \/ WaitedForPhilo
  PROVE  Dining'
<1>1. /\ Command \in Pids /\ Command # 0 /\ Command \notin PhilosopherPids
      /\ SchInv(sch) /\ waiting[Command] = NULL /\ i \in Nat
      /\ pc = [pid \in Pids |-> pc[pid]]
  BY ConstantFacts DEF Dining, DiningTypes, WaitsForIts, PhilosopherPids
<1>2. PICK step \in WaitSteps :
        /\ pc' = [pc EXCEPT ![Command] = step] /\ pc[Command] \in WaitSteps
        /\ UNCHANGED <<semaphores, waiting, place, result, forks, sem_big_fork>>
        /\ SchInv(sch') /\ sch'.rsp = sch.rsp
  <2>1. CASE WaitForPhilo
    <3>1. CASE Block(Command) /\ Goto(Command, "waiting")
      <4>1. SchInv(sch') /\ sch'.rsp = sch.rsp
        BY <1>1, <3>1, BlockedAndYielded
      <4> QED BY <2>1, <3>1, <4>1 DEF WaitForPhilo, AtStep, Block, Goto, semVars, WaitSteps
    <3>2. CASE UNCHANGED <<vars, pc>>
      <4>1. pc[Command] = "wait" /\ pc' = [pc EXCEPT ![Command] = "wait"]
        BY <1>1, <2>1, <3>2 DEF WaitForPhilo, AtStep
      <4> QED BY <1>1, <2>1, <3>2, <4>1 DEF WaitForPhilo, vars, semVars, WaitSteps
    <3> QED BY <2>1, <3>1, <3>2 DEF WaitForPhilo
  <2>2. CASE WaitedForPhilo
    BY <1>1, <2>2 DEF WaitedForPhilo, AtStep, Goto, vars, semVars, WaitSteps
  <2> QED BY <2>1, <2>2
<1>3. i' \in Nat
  <2>1. CASE WaitForPhilo
    BY <1>1, <2>1, ConstantFacts DEF WaitForPhilo
  <2>2. CASE WaitedForPhilo
    BY <2>2, <1>1, ConstantFacts DEF WaitedForPhilo
  <2> QED BY <2>1, <2>2
<1>4. StepsInOrder'
  BY <1>1, <1>2, StepFacts, OrderKept
<1>5. ForksLaid'
  <2>1. pc'[Command] \in WaitSteps
    BY <1>1, <1>2
  <2>2. \A name : \A sem : NamedSem(sem, name)' <=> NamedSem(sem, name)
    BY <1>2 DEF NamedSem
  <2> QED BY <1>2, <2>1, <2>2, StepFacts DEF Dining, ForksLaid, IsLaid, WaitSteps
<1> QED BY <1>1, <1>2, <1>3, <1>4, <1>5, QuietStepKeepsDining

----------------------------------------------------------------------------
(* The preparations *)

\* Before the command waits nobody is at the table.
LEMMA NobodyAtTheTable ==
  ASSUME Dining, pc[Command] \notin WaitSteps
  PROVE  /\ \A pid \in PhilosopherPids : pc[pid] \in {"none", "think"}
         /\ waiting = [pid \in Pids |-> NULL]
BY StepFacts DEF Dining, StepsInOrder, WaitsForIts, DiningTypes

LEMMA TableKeptInSetup ==
  ASSUME waiting' = [pid \in Pids |-> NULL],
         \A pid \in PhilosopherPids : pc'[pid] \in {"none", "think"},
         \A sem \in DOMAIN semaphores' :
           semaphores'[sem].name \in Places => semaphores'[sem].value \in {0, 1}
  PROVE  WaitsForIts' /\ OneOfEachFork'
<1>1. \A pid \in PhilosopherPids, k \in Places : ~Holds(pid, k)'
  BY DEF Holds, HoldsOwn, HoldsNeighbours
<1> QED BY <1>1 DEF WaitsForIts, OneOfEachFork

\* sem_open: no semaphore goes or changes its value, and a new one is 1.
LEMMA OpenFacts ==
  ASSUME Dining, NEW name \in 0 .. philo_count, SemOpen(name, 1)
  PROVE  /\ semaphores' \in [DOMAIN semaphores' -> SemInfo]
         /\ DOMAIN semaphores \subseteq DOMAIN semaphores'
         /\ DOMAIN semaphores' \subseteq Semaphores
         /\ \A sem \in DOMAIN semaphores :
              /\ semaphores'[sem].name = semaphores[sem].name
              /\ semaphores'[sem].value = semaphores[sem].value
         /\ \A sem \in DOMAIN semaphores' \ DOMAIN semaphores : semaphores'[sem].value = 1
         /\ \E sem \in DOMAIN semaphores' : semaphores'[sem].name = name
         /\ sch' = sch /\ waiting' = waiting
<1>1. /\ semaphores \in [DOMAIN semaphores -> SemInfo] /\ DOMAIN semaphores \subseteq Semaphores
      /\ Names = 0 .. philo_count
  BY PhilosophersAssumption DEF Dining, DiningTypes
<1>2. CASE SemOpenExisting(name)
  <2> PICK sem \in SearchSemaphore(name) :
         semaphores' = [semaphores EXCEPT ![sem].linked_processes = (@ + 1) % UINT8]
    BY <1>2 DEF SemOpenExisting
  <2> DEFINE links_now == (semaphores[sem].linked_processes + 1) % UINT8
             info == [semaphores[sem] EXCEPT !.linked_processes = links_now]
  <2>1. sem \in DOMAIN semaphores /\ semaphores[sem].name = name /\ semaphores[sem] \in SemInfo
    BY <1>1 DEF SearchSemaphore
  <2>2. links_now \in 0 .. UINT8 - 1
    <3>1. semaphores[sem].linked_processes \in Nat
      BY <2>1 DEF SemInfo
    <3> QED BY <3>1, ConstantFacts
  <2>3. semaphores' = [semaphores EXCEPT ![sem] = info]
    OBVIOUS
  <2> HIDE DEF links_now
  <2>4. /\ info \in SemInfo /\ info.name = semaphores[sem].name
        /\ info.value = semaphores[sem].value
    BY <2>1, <2>2 DEF SemInfo
  <2> HIDE DEF info
  <2> QED BY <1>1, <1>2, <2>1, <2>3, <2>4 DEF SemOpenExisting
<1>3. CASE SemOpenNew(name, 1)
  <2> PICK sem \in Semaphores \ DOMAIN semaphores : semaphores' = Opened(sem, name, 1)
    BY <1>3 DEF SemOpenNew, SearchNext
  <2> DEFINE info == [name |-> name, value |-> 1, linked_processes |-> 1,
                      waiting_processes |-> <<>>]
  <2>1. info \in SemInfo /\ info.name = name /\ info.value = 1
    BY <1>1, ConstantFacts DEF SemInfo
  <2>2. semaphores' = [other \in DOMAIN semaphores \cup {sem} |->
                         IF other = sem THEN info ELSE semaphores[other]]
    BY DEF Opened
  <2> HIDE DEF info
  <2> QED BY <1>1, <1>3, <2>1, <2>2 DEF SemOpenNew
<1> QED BY <1>2, <1>3 DEF SemOpen

LEMMA OpenForkKeepsDining ==
  ASSUME Dining, AddFork \/ OpenBigFork
  PROVE  Dining'
<1>1. PICK from \in {"add_fork", "open_big_fork"},
           to \in {"store_fork", "store_big_fork"}, name \in 0 .. philo_count :
        /\ pc[Command] = from /\ pc' = [pc EXCEPT ![Command] = to] /\ SemOpen(name, 1)
        /\ result' = CHOOSE sem \in DOMAIN semaphores' : semaphores'[sem].name = name
        /\ place' = place /\ i' = i /\ forks' = forks /\ sem_big_fork' = sem_big_fork
        /\ \/ from = "add_fork" /\ to = "store_fork" /\ name = i /\ i \in Places
           \/ from = "open_big_fork" /\ to = "store_big_fork" /\ name = philo_count
  <2>1. CASE AddFork
    <3>1. pc[Command] = "add_fork"
      BY <2>1 DEF AddFork, OpenFork, AtStep
    <3>2. i \in Places
      BY <3>1 DEF Dining, StepsInOrder, SetupSteps
    <3>3. i \in 0 .. philo_count
      BY <3>2, ConstantFacts DEF Places
    <3> QED BY <2>1, <3>1, <3>2, <3>3 DEF AddFork, OpenFork, AtStep, Goto, FORK_SEM_NAME
  <2>2. CASE OpenBigFork
    <3>1. philo_count \in 0 .. philo_count
      BY ConstantFacts
    <3> QED BY <2>2, <3>1 DEF OpenBigFork, OpenFork, AtStep, Goto, BIG_FORK_NAME
  <2> QED BY <2>1, <2>2
<1>2. /\ semaphores' \in [DOMAIN semaphores' -> SemInfo]
      /\ DOMAIN semaphores \subseteq DOMAIN semaphores' /\ DOMAIN semaphores' \subseteq Semaphores
      /\ \A sem \in DOMAIN semaphores :
           /\ semaphores'[sem].name = semaphores[sem].name
           /\ semaphores'[sem].value = semaphores[sem].value
      /\ \A sem \in DOMAIN semaphores' \ DOMAIN semaphores : semaphores'[sem].value = 1
      /\ \E sem \in DOMAIN semaphores' : semaphores'[sem].name = name
      /\ sch' = sch /\ waiting' = waiting
  BY <1>1, OpenFacts
<1>3. /\ Command \in Pids /\ Command # 0 /\ Command \notin PhilosopherPids
      /\ pc[Command] \notin WaitSteps /\ SchInv(sch) /\ pc[Command] # "none"
      /\ pc'[Command] = to /\ \A pid \in PhilosopherPids : pc'[pid] = pc[pid]
      /\ pc' = [pid \in Pids |-> pc'[pid]]
  BY <1>1, ConstantFacts DEF Dining, DiningTypes, PhilosopherPids, WaitSteps
<1>4. DiningTypes'
  BY <1>1, <1>2, <1>3 DEF Dining, DiningTypes
<1>5. StepsInOrder'
  BY <1>1, <1>2, <1>3, OrderKept DEF CommandSteps, SetupSteps
<1>6. ForksLaid'
  <2>1. NamedSem(result, name)'
    BY <1>1, <1>2 DEF NamedSem
  <2>2. \A sem, other : NamedSem(sem, other) => NamedSem(sem, other)'
    BY <1>2 DEF NamedSem
  <2>3. \A k \in Places : IsLaid(k)' => IsLaid(k)
    BY <1>1, <1>3 DEF IsLaid, SetupSteps
  <2> QED BY <1>1, <1>3, <2>1, <2>2, <2>3
          DEF Dining, ForksLaid, FORK_SEM_NAME, BIG_FORK_NAME, WaitSteps
<1>7. WaitsForIts' /\ OneOfEachFork'
  <2>1. \A sem \in DOMAIN semaphores' :
          semaphores'[sem].name \in Places => semaphores'[sem].value \in {0, 1}
    BY <1>2 DEF Dining, OneOfEachFork
  <2> QED BY <1>2, <1>3, <2>1, NobodyAtTheTable, TableKeptInSetup
<1> QED BY <1>2, <1>4, <1>5, <1>6, <1>7 DEF Dining

\* What the command stores.
LEMMA StoreKeepsDining ==
  ASSUME Dining, StorePhilo \/ StoreFork \/ StoreBigFork
  PROVE  Dining'
<1>1. PICK step \in CommandSteps :
        /\ pc' = [pc EXCEPT ![Command] = step] /\ sch' = sch
        /\ semaphores' = semaphores /\ waiting' = waiting /\ place' = place
        /\ \/ /\ pc[Command] = "store_philo" /\ step = "add_fork"
              /\ UNCHANGED <<i, forks, sem_big_fork>>
           \/ /\ pc[Command] = "store_fork"
              /\ step = IF i = philo_count - 1 THEN "open_big_fork" ELSE "add_philo"
              /\ forks' = [forks EXCEPT ![i] = result] /\ i' = (i + 1) % philo_count
              /\ UNCHANGED sem_big_fork
           \/ /\ pc[Command] = "store_big_fork" /\ step = "wait"
              /\ sem_big_fork' = result /\ UNCHANGED <<i, forks>>
  BY DEF StorePhilo, StoreFork, StoreBigFork, AtStep, Goto, vars, semVars, CommandSteps,
     SetupSteps, WaitSteps
<1>2. /\ Command \in Pids /\ Command # 0 /\ Command \notin PhilosopherPids
      /\ pc[Command] \notin WaitSteps /\ SchInv(sch) /\ pc[Command] # "none" /\ i \in Nat
      /\ pc'[Command] = step /\ \A pid \in PhilosopherPids : pc'[pid] = pc[pid]
      /\ pc' = [pid \in Pids |-> pc'[pid]]
  BY <1>1, ConstantFacts DEF Dining, DiningTypes, PhilosopherPids, WaitSteps
<1>3. pc[Command] \in SetupSteps => i \in Places
  BY DEF Dining, StepsInOrder
<1>4. ASSUME pc[Command] = "store_fork"
      PROVE  /\ i \in Places /\ i' \in Places
             /\ step = "add_philo" => i' = i + 1 /\ i' \in Places
             /\ step = "open_big_fork" => i = philo_count - 1
             /\ step \in {"add_philo", "open_big_fork"}
  <2>1. i \in Places /\ i' = (i + 1) % philo_count
    BY <1>1, <1>3, <1>4 DEF SetupSteps
  <2>2. i # philo_count - 1 => (i + 1) % philo_count = i + 1 /\ i + 1 \in Places
    <3> SUFFICES ASSUME i # philo_count - 1
                 PROVE  (i + 1) % philo_count = i + 1 /\ i + 1 \in Places
      OBVIOUS
    <3>1. i \in Nat /\ i + 1 < philo_count /\ philo_count \in Nat
      BY <2>1, ConstantFacts DEF Places
    <3>2. (i + 1) % philo_count = i + 1
      BY <3>1
    <3> QED BY <3>1, <3>2 DEF Places
  <2>3. (i + 1) % philo_count \in Places
    BY <2>1, NextPlace
  <2> QED BY <1>1, <1>4, <2>1, <2>2, <2>3
<1>5. DiningTypes'
  <2>1. i' \in Nat
    <3>1. \A k \in Places : k \in Nat
      BY DEF Places
    <3> QED BY <1>1, <1>2, <1>4, <3>1
  <2>2. DOMAIN forks' = 0 .. MAX_PHILOSOPHERS - 1
    BY <1>1 DEF Dining, DiningTypes
  <2> QED BY <1>1, <1>2, <2>1, <2>2 DEF Dining, DiningTypes
<1>6. StepsInOrder'
  <2>1. step \in SetupSteps => i' \in Places
    BY <1>1, <1>3, <1>4 DEF SetupSteps
  <2> QED BY <1>1, <1>2, <2>1, OrderKept
<1>7. ForksLaid'
  <2>1. \A sem, other : NamedSem(sem, other)' <=> NamedSem(sem, other)
    BY <1>1 DEF NamedSem
  <2>2. CASE pc[Command] = "store_philo"
    BY <1>1, <1>2, <2>1, <2>2 DEF Dining, ForksLaid, IsLaid, SetupSteps, WaitSteps
  <2>3. CASE pc[Command] = "store_fork"
    <3>1. /\ forks'[i] = result /\ i \in Places /\ NamedSem(result, FORK_SEM_NAME(i))
          /\ \A k \in Places : k # i => forks'[k] = forks[k]
      BY <1>1, <1>4, <2>3, ConstantFacts DEF Dining, DiningTypes, ForksLaid
    <3>2. \A k \in Places : k < i => NamedSem(forks[k], FORK_SEM_NAME(k))
      BY <2>3 DEF Dining, ForksLaid, IsLaid
    <3>3. ASSUME NEW k \in Places, IsLaid(k)' PROVE k <= i
      <4>1. k \in Nat /\ i \in Nat /\ k <= philo_count - 1
        BY <1>2, ConstantFacts DEF Places
      <4>2. CASE step = "add_philo"
        <5>1. k < i + 1
          BY <1>2, <1>4, <2>3, <3>3, <4>2 DEF IsLaid, SetupSteps
        <5> QED BY <4>1, <5>1
      <4>3. CASE step = "open_big_fork"
        BY <1>4, <2>3, <4>1, <4>3
      <4> QED BY <1>4, <2>3, <4>2, <4>3
    <3>4. \A k \in Places : IsLaid(k)' => NamedSem(forks'[k], FORK_SEM_NAME(k))
      BY <3>1, <3>2, <3>3, ConstantFacts DEF Places
    <3> QED BY <1>2, <1>4, <2>1, <2>3, <3>4 DEF ForksLaid, WaitSteps
  <2>4. CASE pc[Command] = "store_big_fork"
    BY <1>1, <1>2, <2>1, <2>4 DEF Dining, ForksLaid, IsLaid, SetupSteps, WaitSteps
  <2> QED BY <1>1, <2>2, <2>3, <2>4
<1>8. WaitsForIts' /\ OneOfEachFork'
  <2>1. \A sem \in DOMAIN semaphores' :
          semaphores'[sem].name \in Places => semaphores'[sem].value \in {0, 1}
    BY <1>1 DEF Dining, OneOfEachFork
  <2> QED BY <1>1, <1>2, <2>1, NobodyAtTheTable, TableKeptInSetup
<1> QED BY <1>1, <1>2, <1>5, <1>6, <1>7, <1>8 DEF Dining

\* proc_create as far as the scheduler is concerned.
LEMMA CreatedInv ==
  ASSUME SchInv(sch), NEW pid \in Pids, Create(pid)
  PROVE  SchInv(sch') /\ sch'.rsp = [sch.rsp EXCEPT ![pid] = pid]
<1>1. /\ sch.rsp[pid] = NULL /\ sch.current # KILLED_PROC_PID
      /\ sch' = SchOnProcessCreate(sch, pid, DEFAULT_PRIORITY)
  BY DEF Create, Free
<1>2. DEFAULT_PRIORITY \in Int
  BY SchedulerAssumption
<1> QED BY <1>1, <1>2, CreateKeepsSchInv, CreateGivesContext

LEMMA Created ==
  ASSUME SchInv(sch), NEW pid \in Pids, sch'.rsp = [sch.rsp EXCEPT ![pid] = pid]
  PROVE  IsActive(sch', pid)
<1>1. pid # NULL
  BY DEF Pids, NULL
<1>2. sch.rsp \in [Pids -> Pids \cup {NULL}]
  BY DEF SchInv, SchStates
<1> QED BY <1>1, <1>2 DEF IsActive

\* A philosopher is born, and thinks.
LEMMA AddPhiloKeepsDining ==
  ASSUME Dining, NEW pid \in Pids, AddPhilo(pid)
  PROVE  Dining'
<1>1. /\ pc[Command] = "add_philo" /\ sch.current = Command /\ pid \in Free /\ Create(pid)
      /\ semaphores' = semaphores /\ waiting' = waiting
      /\ pc' = [pc EXCEPT ![Command] = "store_philo", ![pid] = "think"]
      /\ place' = [place EXCEPT ![pid] = i]
      /\ i' = i /\ forks' = forks /\ sem_big_fork' = sem_big_fork
  BY DEF AddPhilo, AtStep, Create
<1>2. /\ 0 \in Pids /\ Command \in Pids /\ Command # 0 /\ DEFAULT_PRIORITY \in Int
      /\ IsActive(sch, 0) /\ IsActive(sch, Command) /\ SchInv(sch) /\ sch.rsp[pid] = NULL
      /\ i \in Places /\ pc[Command] \notin WaitSteps
  BY <1>1, ConstantFacts, SchedulerAssumption
     DEF Dining, StepsInOrder, Free, SetupSteps, WaitSteps
<1>3. pid # 0 /\ pid # Command /\ pid \in PhilosopherPids
  BY <1>2 DEF IsActive, PhilosopherPids
<1>4. SchInv(sch') /\ sch'.rsp = [sch.rsp EXCEPT ![pid] = pid]
  BY <1>1, <1>2, CreatedInv
<1>5. /\ pc'[Command] = "store_philo" /\ pc'[pid] = "think" /\ pc' = [other \in Pids |-> pc'[other]]
      /\ \A other \in Pids \ {Command, pid} : pc'[other] = pc[other]
  BY <1>1, <1>2, <1>3 DEF Dining, DiningTypes
<1>6. DiningTypes'
  <2>1. place' \in [Pids -> Places]
    BY <1>1, <1>2 DEF Dining, DiningTypes
  <2> QED BY <1>1, <1>5, <2>1 DEF Dining, DiningTypes
<1>7. StepsInOrder'
  <2>1. ASSUME NEW other \in Pids, pc'[other] # "none" PROVE IsActive(sch', other)
    <3>1. CASE other = pid
      BY <1>2, <1>4, <3>1, Created
    <3>2. CASE other # pid
      <4>1. IsActive(sch, other)
        BY <1>2, <1>5, <2>1, <3>2 DEF Dining, StepsInOrder
      <4> QED BY <1>4, <3>2, <4>1 DEF IsActive, SchInv, SchStates
    <3> QED BY <3>1, <3>2
  <2>2. pc'[0] \in {"wait", "waiting", "prompt"}
    BY <1>2, <1>3, <1>5 DEF Dining, StepsInOrder
  <2>3. ASSUME NEW other \in PhilosopherPids
        PROVE  pc'[other] \in {"none", "think"}
    BY <1>2, <1>5, NobodyAtTheTable DEF PhilosopherPids
  <2>4. pc'[Command] \in CommandSteps /\ pc'[Command] \in SetupSteps
    BY <1>5 DEF CommandSteps, SetupSteps
  <2>5. \A other \in PhilosopherPids : pc'[other] \notin TableSteps
    BY <2>3, StepFacts
  <2> QED BY <1>1, <1>2, <1>5, <2>1, <2>2, <2>3, <2>4, <2>5 DEF StepsInOrder
<1>8. ForksLaid'
  <2>1. \A sem, other : NamedSem(sem, other)' <=> NamedSem(sem, other)
    BY <1>1 DEF NamedSem
  <2> QED BY <1>1, <1>5, <2>1 DEF Dining, ForksLaid, IsLaid, SetupSteps, WaitSteps
<1>9. WaitsForIts' /\ OneOfEachFork'
  <2>1. \A sem \in DOMAIN semaphores' :
          semaphores'[sem].name \in Places => semaphores'[sem].value \in {0, 1}
    BY <1>1 DEF Dining, OneOfEachFork
  <2>2. \A other \in PhilosopherPids : pc'[other] \in {"none", "think"}
    BY <1>2, <1>5, NobodyAtTheTable DEF PhilosopherPids
  <2>3. waiting' = [other \in Pids |-> NULL]
    BY <1>1, <1>2, NobodyAtTheTable
  <2> QED BY <2>1, <2>2, <2>3, TableKeptInSetup
<1> QED BY <1>4, <1>6, <1>7, <1>8, <1>9 DEF Dining

----------------------------------------------------------------------------
(* The rest of a philosopher's life, and the ticks of the clock *)

LEMMA StopsKeepDining ==
  ASSUME Dining, NEW pid \in Pids, StopThinking(pid) \/ StopEating(pid)
  PROVE  Dining'
<1>1. PICK step \in {"big_fork", "return_next"} :
        /\ sch.current = pid /\ SystemCall
        /\ pc' = [pc EXCEPT ![pid] = step] /\ sch' = sch
        /\ UNCHANGED <<semaphores, waiting, place, i, result, forks, sem_big_fork>>
        /\ \/ pc[pid] = "think" /\ step = "big_fork" /\ pc[Command] \in WaitSteps
           \/ pc[pid] = "eat" /\ step = "return_next"
  BY DEF StopThinking, StopEating, AtStep, Goto, vars, semVars, WaitSteps
<1>2. pid \in PhilosopherPids /\ pid # 0 /\ pid # Command /\ pc[Command] \in WaitSteps
  <2>1. pid \in PhilosopherPids
    BY <1>1, ThePidAtAStep DEF TableSteps
  <2> QED BY <1>1, <2>1 DEF Dining, StepsInOrder, PhilosopherPids, TableSteps
<1>3. /\ waiting[pid] = NULL /\ pc'[pid] = step /\ pc'[Command] = pc[Command]
      /\ SchInv(sch) /\ pc[pid] # "none" /\ i \in Nat
  BY <1>1, <1>2, CallerWaitsForNothing, ConstantFacts DEF Dining, DiningTypes
<1>4. StepsInOrder'
  BY <1>1, <1>2, <1>3, OrderKept DEF TableSteps
<1>5. ForksLaid'
  BY <1>1, <1>3, LaidKept
<1>6. \A k \in Places : Holds(pid, k)' => Holds(pid, k)
  BY <1>1, <1>3 DEF Holds, HoldsOwn, HoldsNeighbours, NeighboursPlace
<1> QED BY <1>1, <1>3, <1>4, <1>5, <1>6, QuietStepKeepsDining

LEMMA SwitchKeepsDining ==
  ASSUME Dining, SchInv(sch'), sch'.rsp = sch.rsp, UNCHANGED <<semVars, philoVars>>
  PROVE  Dining'
<1>1. /\ semaphores' = semaphores /\ waiting' = waiting /\ pc' = pc /\ place' = place
      /\ i' = i /\ result' = result /\ forks' = forks /\ sem_big_fork' = sem_big_fork
  BY DEF semVars, philoVars
<1>2. \A pid \in Pids : IsActive(sch', pid) <=> IsActive(sch, pid)
  BY DEF IsActive
<1>3. DiningTypes' /\ StepsInOrder'
  BY <1>1, <1>2 DEF Dining, DiningTypes, StepsInOrder
<1>4. ForksLaid' /\ WaitsForIts'
  BY <1>1 DEF Dining, ForksLaid, IsLaid, NamedSem, WaitsForIts, Wanted, Fork, NeighboursFork
<1>5. OneOfEachFork'
  <2>1. \A pid \in PhilosopherPids, k \in Places : Holds(pid, k)' => Holds(pid, k)
    BY <1>1 DEF Holds, HoldsOwn, HoldsNeighbours, NeighboursPlace
  <2>2. \A sem \in DOMAIN semaphores' :
          semaphores'[sem].name \in Places => semaphores'[sem].value \in {0, 1}
    BY <1>1 DEF Dining, OneOfEachFork
  <2> QED BY <1>1, <2>1, <2>2, LeavingTheForks
<1> QED BY <1>3, <1>4, <1>5 DEF Dining

LEMMA NapKeepsDining ==
  ASSUME Dining, NEW pid \in Pids, Nap(pid) \/ TimerTick
  PROVE  Dining'
<1>1. SchYield(sch, sch') \/ SchSwitch(sch, sch')
  BY DEF Nap, Yield, TimerTick, Tick
<1>2. SchInv(sch') /\ sch'.rsp = sch.rsp
  <2>1. SchInv(sch)
    BY DEF Dining
  <2> QED BY <1>1, <2>1, YieldFacts, SwitchFacts
<1>3. UNCHANGED <<semVars, philoVars>>
  BY DEF Nap, Yield, TimerTick, Tick
<1> QED BY <1>2, <1>3, SwitchKeepsDining

\* A philosopher exits, and the command wakes up if it waited for it.
LEMMA LeaveKeepsDining ==
  ASSUME Dining, NEW pid \in Pids, Leave(pid)
  PROVE  Dining'
<1>1. /\ sch.current = pid /\ SystemCall /\ pc[pid] = "exit"
      /\ pc' = [pc EXCEPT ![pid] = "none"]
      /\ UNCHANGED <<semaphores, waiting, place, i, result, forks, sem_big_fork>>
  BY DEF Leave, AtStep, Goto, semVars
<1>2. pid \in PhilosopherPids /\ pid # 0 /\ pid # Command
  <2>1. pid \in PhilosopherPids
    BY <1>1, ThePidAtAStep DEF TableSteps
  <2> QED BY <2>1 DEF PhilosopherPids
<1>3. /\ waiting[pid] = NULL /\ pc'[pid] = "none" /\ pc'[Command] = pc[Command]
      /\ SchInv(sch) /\ i \in Nat /\ \A other \in Pids \ {pid} : pc'[other] = pc[other]
      /\ 0 \in Pids /\ Command \in Pids
  BY <1>1, <1>2, CallerWaitsForNothing, ConstantFacts DEF Dining, DiningTypes
<1>4. SchInv(sch') /\ sch'.rsp = [sch.rsp EXCEPT ![pid] = NULL]
  <2> PICK s : s = SchOnProcessKilled(sch, pid, 0)
    OBVIOUS
  <2> PICK t : t = IF pc[Command] = "waiting" /\ philos[i] = pid THEN SchUnblock(s, Command) ELSE s
    OBVIOUS
  <2>1. SchYield(t, sch')
    BY DEF Leave
  <2>2. SchInv(s) /\ s.rsp = [sch.rsp EXCEPT ![pid] = NULL]
    BY <1>3, KilledFacts, SchedulerAssumption
  <2>3. SchInv(t) /\ t.rsp = s.rsp
    <3>1. Command \in Int
      BY DEF Command
    <3> QED BY <2>2, <3>1, UnblockFacts
  <2> QED BY <2>1, <2>2, <2>3, YieldFacts
<1>5. StepsInOrder'
  <2>1. ASSUME NEW other \in Pids, pc'[other] # "none" PROVE IsActive(sch', other)
    <3>1. other # pid /\ IsActive(sch, other)
      BY <1>3, <2>1 DEF Dining, StepsInOrder
    <3> QED BY <1>4, <3>1 DEF IsActive
  <2>2. pc'[0] = pc[0]
    BY <1>2, <1>3
  <2>3. ASSUME NEW other \in PhilosopherPids
        PROVE  /\ pc'[other] \in {"none", "think"} \cup TableSteps
               /\ pc'[other] \in TableSteps => pc'[Command] \in WaitSteps
    BY <1>3, StepFacts DEF Dining, StepsInOrder, PhilosopherPids
  <2> QED BY <1>1, <1>3, <2>1, <2>2, <2>3 DEF Dining, StepsInOrder
<1>6. ForksLaid'
  BY <1>1, <1>3, LaidKept
<1>7. \A k \in Places : ~Holds(pid, k)'
  BY <1>3 DEF Holds, HoldsOwn, HoldsNeighbours
<1> QED BY <1>1, <1>3, <1>4, <1>5, <1>6, <1>7, QuietStepKeepsDining

----------------------------------------------------------------------------
(* Before and after *)

LEMMA InitNotStarted == PhiloInit => NotStarted
<1> SUFFICES ASSUME PhiloInit PROVE NotStarted
  OBVIOUS
<1>1. /\ SchInv(SchInit) /\ 0 \in Pids /\ SchInit.rsp[0] = NULL
      /\ SchInit.current # KILLED_PROC_PID /\ MAX_PRIORITY \in Int
      /\ \A pid \in Pids : SchInit.rsp[pid] = NULL
      /\ sch = SchOnProcessCreate(SchInit, 0, MAX_PRIORITY)
  BY InitHasSchInv, ConstantFacts, SchedulerAssumption
     DEF PhiloInit, Init, SchInit, KERNEL_PROC_PID, KILLED_PROC_PID
<1>2. SchInv(sch) /\ sch.rsp = [SchInit.rsp EXCEPT ![0] = 0]
  BY <1>1, CreateFacts
<1>3. \A pid \in Pids : IsActive(sch, pid) <=> pid = 0
  BY <1>1, <1>2 DEF IsActive, SchInv, SchStates, SchInit, NULL
<1>4. result \in Int /\ DOMAIN forks = 0 .. MAX_PHILOSOPHERS - 1
  BY DEF PhiloInit, NULL
<1> QED BY <1>2, <1>3, <1>4 DEF PhiloInit, Init, NotStarted

LEMMA LaunchStartsDining ==
  ASSUME NotStarted, Launch
  PROVE  Dining'
<1>1. /\ sch.current = 0 /\ Create(Command) /\ Command \in Free
      /\ semaphores' = <<>> /\ waiting' = [pid \in Pids |-> NULL]
      /\ pc' = [pc EXCEPT ![0] = "wait", ![Command] = "add_philo"]
      /\ place' = [pid \in Pids |-> 0] /\ i' = 0 /\ forks' = forks
  BY DEF Launch, AtStep, Create, NotStarted
<1>2. /\ 0 \in Pids /\ Command \in Pids /\ Command # 0 /\ DEFAULT_PRIORITY \in Int
      /\ SchInv(sch) /\ sch.rsp[Command] = NULL /\ 0 \in Places
      /\ \A pid \in Pids : IsActive(sch, pid) <=> pid = 0
  BY <1>1, ConstantFacts, SchedulerAssumption DEF NotStarted, Free
<1>3. SchInv(sch') /\ sch'.rsp = [sch.rsp EXCEPT ![Command] = Command]
  BY <1>1, <1>2, CreatedInv
<1>4. /\ pc'[0] = "wait" /\ pc'[Command] = "add_philo" /\ pc' = [pid \in Pids |-> pc'[pid]]
      /\ \A pid \in PhilosopherPids : pc'[pid] = "none"
  BY <1>1, <1>2 DEF NotStarted, PhilosopherPids
<1>5. DiningTypes'
  <2>1. /\ DOMAIN semaphores' = {} /\ semaphores' \in [{} -> SemInfo]
    <3>1. ASSUME NEW none, none = <<>> PROVE DOMAIN none = {} /\ none \in [{} -> SemInfo]
      BY <3>1
    <3> QED BY <1>1, <3>1
  <2>2. DOMAIN forks' = 0 .. MAX_PHILOSOPHERS - 1
    BY <1>1 DEF NotStarted
  <2>3. place' \in [Pids -> Places] /\ i' \in Nat /\ waiting' \in [Pids -> Semaphores \cup {NULL}]
    BY <1>1, <1>2
  <2> QED BY <1>4, <2>1, <2>2, <2>3 DEF DiningTypes
<1>6. StepsInOrder'
  <2>1. ASSUME NEW pid \in Pids, pc'[pid] # "none" PROVE IsActive(sch', pid)
    <3>1. pid = 0 \/ pid = Command
      BY <1>4, <2>1 DEF PhilosopherPids
    <3>2. CASE pid = Command
      BY <1>2, <1>3, <3>2, Created
    <3>3. CASE pid = 0
      <4>1. IsActive(sch, 0)
        BY <1>2
      <4> QED BY <1>2, <1>3, <3>3, <4>1 DEF IsActive
    <3> QED BY <3>1, <3>2, <3>3
  <2> QED BY <1>1, <1>2, <1>4, <2>1, StepFacts DEF StepsInOrder, CommandSteps, SetupSteps
<1>7. ForksLaid'
  <2>1. \A k \in Places : ~(k < 0)
    BY DEF Places
  <2> QED BY <1>1, <1>4, <2>1 DEF ForksLaid, IsLaid, SetupSteps, WaitSteps
<1>8. WaitsForIts' /\ OneOfEachFork'
  <2>1. DOMAIN semaphores' = {}
    <3>1. ASSUME NEW none, none = <<>> PROVE DOMAIN none = {}
      BY <3>1
    <3> QED BY <1>1, <3>1
  <2>2. \A pid \in PhilosopherPids : pc'[pid] \in {"none", "think"}
    BY <1>4
  <2> QED BY <1>1, <2>1, <2>2, TableKeptInSetup
<1> QED BY <1>3, <1>5, <1>6, <1>7, <1>8 DEF Dining

\* Nothing happens before the launch but ticks of the clock.
LEMMA FirstStep ==
  ASSUME NotStarted, PhiloNext
  PROVE  Launch \/ NotStarted'
<1>1. /\ 0 \in Pids /\ Command \in Pids /\ Command # 0 /\ pc[0] = "launch" /\ SchInv(sch)
      /\ \A pid \in Pids \ {0} : pc[pid] = "none"
      /\ ~IsActive(sch, Command) /\ ~Resuming
  BY ConstantFacts DEF NotStarted, Resuming
<1>3. CASE TimerTick
  <2>1. SchInv(sch') /\ sch'.rsp = sch.rsp
    BY <1>1, <1>3, SwitchFacts DEF TimerTick, Tick
  <2>2. \A pid \in Pids : IsActive(sch', pid) <=> IsActive(sch, pid)
    BY <2>1 DEF IsActive
  <2> QED BY <1>3, <2>1, <2>2 DEF TimerTick, Tick, semVars, philoVars, NotStarted
<1>4. ~ShellWaits /\ ~ShellGoesOn /\ ~CommandStep
  BY <1>1 DEF ShellWaits, ShellGoesOn, CommandStep, AddPhilo, StorePhilo, AddFork, StoreFork,
     OpenBigFork, OpenFork, StoreBigFork, WaitForPhilo, WaitedForPhilo, CommandReturns, AtStep
<1>5. \A pid \in Pids : ~PhilosopherStep(pid) /\ ~Nap(pid)
  BY <1>1 DEF PhilosopherStep, StopThinking, PickUp, StopEating, PutDown, Leave, Nap, WaitFor,
     Return, AtStep
<1>6. ~CtrlC /\ ~Continue
  BY <1>1 DEF CtrlC, Continue, ContinueWait
<1> QED BY <1>3, <1>4, <1>5, <1>6 DEF PhiloNext, ShellStep

LEMMA StepFromNotStarted ==
  ASSUME NotStarted, PhiloNext
  PROVE  PhiloInv'
BY FirstStep, LaunchStartsDining DEF PhiloInv

\* proc_kill leaves nobody at the table.
LEMMA KillCommandEndsDining ==
  ASSUME pc[0] \in {"wait", "waiting", "prompt"}, NEW exits \in BOOLEAN, KillCommand(exits)
  PROVE  Over'
<1>1. pc' = [pid \in Pids |-> IF pid = 0 THEN pc[0] ELSE "none"] /\ 0 \in Pids
  BY ConstantFacts DEF KillCommand
<1> QED BY <1>1 DEF Over

\* Until proc_kill is called for the command.
LEMMA DinnerGoesOn ==
  ASSUME Dining, PhiloNext, ~CtrlC, ~CommandReturns
  PROVE  Dining'
<1>1. CASE ShellStep
  BY <1>1, ShellStepKeepsDining
<1>2. CASE CommandStep
  <2>1. CASE \E pid \in Pids : AddPhilo(pid)
    BY <2>1, AddPhiloKeepsDining
  <2>2. CASE StorePhilo \/ StoreFork \/ StoreBigFork
    BY <2>2, StoreKeepsDining
  <2>3. CASE AddFork \/ OpenBigFork
    BY <2>3, OpenForkKeepsDining
  <2>4. CASE WaitForPhilo \/ WaitedForPhilo
    BY <2>4, CommandWaitKeepsDining
  <2> QED BY <1>2, <2>1, <2>2, <2>3, <2>4 DEF CommandStep
<1>3. ASSUME NEW pid \in Pids, PhilosopherStep(pid) PROVE Dining'
  <2>1. CASE StopThinking(pid) \/ StopEating(pid)
    BY <2>1, StopsKeepDining
  <2>2. CASE PickUp(pid)
    <3>1. CASE Return(pid, sem_big_fork, "return_big_fork", "eat")
      BY <3>1, ReturnKeepsDining
    <3> QED BY <2>2, <3>1, PickUpKeepsDining DEF PickUp
  <2>3. CASE PutDown(pid)
    BY <2>3, ReturnKeepsDining DEF PutDown
  <2>4. CASE Leave(pid)
    BY <2>4, LeaveKeepsDining
  <2> QED BY <1>3, <2>1, <2>2, <2>3, <2>4 DEF PhilosopherStep
<1>4. CASE (\E pid \in Pids : Nap(pid)) \/ TimerTick
  <2>1. 0 \in Pids
    BY ConstantFacts
  <2> QED BY <1>4, <2>1, NapKeepsDining
<1>5. CASE Continue
  BY <1>5, ContinueKeepsDining DEF Continue
<1> QED BY <1>1, <1>2, <1>3, <1>4, <1>5 DEF PhiloNext

LEMMA StepFromDining ==
  ASSUME Dining, PhiloNext
  PROVE  PhiloInv'
<1>1. CASE CtrlC \/ CommandReturns
  <2>1. pc[0] \in {"wait", "waiting", "prompt"}
    BY DEF Dining, StepsInOrder
  <2> QED BY <1>1, <2>1, KillCommandEndsDining DEF CtrlC, CommandReturns, PhiloInv
<1>2. CASE ~CtrlC /\ ~CommandReturns
  BY <1>2, DinnerGoesOn DEF PhiloInv
<1> QED BY <1>1, <1>2

\* Nobody but the shell has anything left to do.
LEMMA StepsWhenOver ==
  ASSUME Over, PhiloNext
  PROVE  ShellStep \/ CtrlC \/ Continue \/ TimerTick
<1>1. /\ Command \in Pids \ {0} /\ pc[0] \in {"wait", "waiting", "prompt"}
      /\ \A pid \in Pids \ {0} : pc[pid] = "none"
  BY ConstantFacts DEF Over
<1>2. ~CommandStep
  <2>1. ~\E pid \in Pids : AddPhilo(pid)
    BY <1>1 DEF AddPhilo, AtStep
  <2> QED BY <1>1, <2>1 DEF CommandStep, StorePhilo, AddFork, StoreFork, OpenBigFork, OpenFork,
          StoreBigFork, WaitForPhilo, WaitedForPhilo, CommandReturns, AtStep
<1>3. \A pid \in Pids : ~PhilosopherStep(pid) /\ ~Nap(pid)
  BY <1>1 DEF PhilosopherStep, StopThinking, PickUp, StopEating, PutDown, Leave, Nap, WaitFor,
     Return, AtStep
<1> QED BY <1>2, <1>3 DEF PhiloNext

LEMMA StepFromOver ==
  ASSUME Over, PhiloNext
  PROVE  Over'
<1>1. /\ 0 \in Pids /\ Command \in Pids \ {0} /\ pc = [pid \in Pids |-> pc[pid]]
      /\ pc[0] \in {"wait", "waiting", "prompt"} /\ \A pid \in Pids \ {0} : pc[pid] = "none"
  BY ConstantFacts DEF Over
<1>2. CASE ShellStep
  BY <1>1, <1>2 DEF ShellStep, Launch, ShellWaits, ShellGoesOn, AtStep, Goto, Over
<1>3. CASE CtrlC
  BY <1>1, <1>3, KillCommandEndsDining DEF CtrlC
<1>4. CASE Continue \/ TimerTick
  BY <1>4 DEF Continue, TimerTick, philoVars, Over
<1> QED BY <1>2, <1>3, <1>4, StepsWhenOver

LEMMA PhiloInvIsInvariant == PhiloSpec => []PhiloInv
<1>1. PhiloInit => PhiloInv
  BY InitNotStarted DEF PhiloInv
<1>2. PhiloInv /\ [PhiloNext]_diningVars => PhiloInv'
  <2>1. ASSUME PhiloInv, PhiloNext PROVE PhiloInv'
    BY <2>1, StepFromNotStarted, StepFromDining, StepFromOver DEF PhiloInv
  <2>2. ASSUME PhiloInv, UNCHANGED diningVars PROVE PhiloInv'
    <3>1. /\ sch' = sch /\ UNCHANGED <<semVars, philoVars>>
      BY <2>2 DEF diningVars, vars
    <3>2. CASE Dining
      <4>1. SchInv(sch') /\ sch'.rsp = sch.rsp
        BY <3>1, <3>2 DEF Dining
      <4> QED BY <3>1, <3>2, <4>1, SwitchKeepsDining DEF PhiloInv
    <3>3. CASE NotStarted \/ Over
      BY <3>1, <3>3 DEF semVars, philoVars, NotStarted, Over, PhiloInv
    <3> QED BY <2>2, <3>2, <3>3 DEF PhiloInv
  <2> QED BY <2>1, <2>2
<1> QED BY <1>1, <1>2, PTL DEF PhiloSpec

LEMMA PhiloInvExcludes == PhiloInv => NeighboursDontEat
<1> SUFFICES ASSUME PhiloInv, NEW p \in Pids, NEW q \in Pids, Eating(p), Eating(q), p # q
             PROVE  {Fork(p), NeighboursFork(p)} \cap {Fork(q), NeighboursFork(q)} = {}
  BY DEF NeighboursDontEat
<1>1. {pc[p], pc[q]} \subseteq TableSteps \ {"launch", "none", "wait", "waiting", "prompt"}
  BY DEF Eating, TableSteps
<1>2. Dining
  <2>1. ~NotStarted
    BY <1>1 DEF NotStarted
  <2>2. ~Over
    BY <1>1 DEF Over
  <2> QED BY <2>1, <2>2 DEF PhiloInv
<1>3. p \in PhilosopherPids /\ q \in PhilosopherPids /\ pc[Command] \in WaitSteps
  <2>1. p \in PhilosopherPids /\ q \in PhilosopherPids
    BY <1>1, <1>2, ThePidAtAStep
  <2> QED BY <1>1, <1>2, <2>1 DEF Dining, StepsInOrder
<1>4. ASSUME NEW pid \in {p, q}
      PROVE  /\ place[pid] \in Places /\ Holds(pid, place[pid])
             /\ NeighboursPlace(pid) \in Places /\ Holds(pid, NeighboursPlace(pid))
  <2>1. place[pid] \in Places /\ NeighboursPlace(pid) \in Places
    BY <1>2, NextPlace DEF Dining, DiningTypes, NeighboursPlace
  <2> QED BY <2>1 DEF Holds, HoldsOwn, HoldsNeighbours, Eating
<1>5. \A j, k \in Places : Holds(p, j) /\ Holds(q, k) => forks[j] # forks[k]
  BY <1>2, <1>3, LaidForks DEF Dining, OneOfEachFork
<1> QED BY <1>4, <1>5 DEF Fork, NeighboursFork, NeighboursPlace

(* Philosophers who share a fork never eat at once, however many there are and
   whoever is dispatched, woken or killed when (philosophers.c:125-143). *)
THEOREM PhilosophersNeighboursDontEat == PhiloSpec => []NeighboursDontEat
BY PhiloInvIsInvariant, PhiloInvExcludes, PTL

----------------------------------------------------------------------------
(* Folds.  The library defines one by a function that CHOOSE picks among those  *)
(* that satisfy an equation; that there is one is shown from the small sets up. *)

\* The states of the scheduler between the kills.
LEMMA KilledFold ==
  ASSUME NEW S, IsFiniteSet(S), NEW base
  PROVE  \E f : /\ f = [s \in SUBSET S |->
                          IF s = {} THEN base ELSE SchOnProcessKilled(f[s \ {Anyone(s)}], Anyone(s), 0)]
                /\ Killed(base, S) = f[S]
<1> DEFINE Goes(f, D) == f = [s \in D |-> IF s = {} THEN base
                        ELSE SchOnProcessKilled(f[s \ {Anyone(s)}], Anyone(s), 0)]
           G == {n \in Nat : \E f : Goes(f, Small(S, n))}
<1>1. 0 \in G
  <2>1. Goes([s \in {{}} |-> base], {{}})
    OBVIOUS
  <2> HIDE DEF Goes
  <2>2. 0 \in Nat /\ Small(S, 0) = {{}}
    BY SmallFacts
  <2> QED BY <2>1, <2>2
<1>2. ASSUME NEW n \in Nat, n \in G PROVE n + 1 \in G
  <2>1. PICK f : Goes(f, Small(S, n))
    BY <1>2
  <2> DEFINE g == [s \in Small(S, n + 1) |-> IF s = {} THEN base
                        ELSE SchOnProcessKilled(f[s \ {Anyone(s)}], Anyone(s), 0)]
  <2>2. \A s \in Small(S, n) : f[s] = g[s]
    BY <2>1, SmallFacts
  <2>3. \A s \in Small(S, n + 1) : s # {} => Anyone(s) \in s /\ Anyone(s) \in S
    BY DEF Anyone, Small
  <2>4. \A s \in Small(S, n + 1) : s # {} => f[s \ {Anyone(s)}] = g[s \ {Anyone(s)}]
    <3> HIDE DEF g
    <3> QED BY <2>2, <2>3, SmallFacts
  <2>5. Goes(g, Small(S, n + 1))
    BY <2>4
  <2> HIDE DEF Goes, g
  <2> QED BY <2>5
<1>3. \E f : Goes(f, SUBSET S)
  <2> HIDE DEF Goes
  <2>1. Cardinality(S) \in G
    <3> HIDE DEF G
    <3>1. Nat \subseteq G
      BY <1>1, <1>2, NaturalInduction
    <3> QED BY <3>1, SmallFacts
  <2> QED BY <2>1, SmallFacts
<1>4. Killed(base, S) = (CHOOSE f : Goes(f, SUBSET S))[S]
  BY DEF Killed, FoldSet, MapThenFoldSet, Anyone
<1> QED BY <1>3, <1>4

\* A set of processes dies.
LEMMA KilledAll ==
  ASSUME NEW S \in SUBSET Pids, NEW base, SchInv(base), NEW t, t = Killed(base, S)
  PROVE  /\ SchInv(t)
         /\ \A pid \in Pids : t.rsp[pid] = IF pid \in S THEN NULL ELSE base.rsp[pid]
<1>1. IsFiniteSet(S)
  <2>1. IsFiniteSet(Pids)
    BY FS_Interval, SchedulerAssumption DEF Pids
  <2> QED BY <2>1, FS_Subset
<1>2. PICK f : /\ f = [s \in SUBSET S |->
                        IF s = {} THEN base ELSE SchOnProcessKilled(f[s \ {Anyone(s)}], Anyone(s), 0)]
               /\ t = f[S]
  BY <1>1, KilledFold
<1> DEFINE Right(s) == /\ SchInv(f[s])
                       /\ \A pid \in Pids : f[s].rsp[pid] = IF pid \in s THEN NULL ELSE base.rsp[pid]
           G == {n \in Nat : \A s \in Small(S, n) : Right(s)}
<1>3. 0 \in G
  <2>1. f[{}] = base
    BY <1>2
  <2>2. Small(S, 0) = {{}}
    BY <1>1, SmallFacts
  <2> QED BY <2>1, <2>2
<1>4. ASSUME NEW n \in Nat, n \in G PROVE n + 1 \in G
  <2>1. ASSUME NEW s \in Small(S, n + 1), s # {} PROVE Right(s)
    <3>a. PICK p : p = Anyone(s)
      OBVIOUS
    <3>b. PICK before : before = s \ {p}
      OBVIOUS
    <3>1. p \in s /\ s \in SUBSET S
      BY <2>1, <3>a DEF Anyone, Small
    <3>2. p \in S /\ p \in Pids
      BY <3>1
    <3>3. before \in Small(S, n)
      BY <1>1, <2>1, <3>b, <3>1, <3>2, SmallFacts
    <3>4. Right(before)
      BY <1>4, <3>3
    <3>5. f[s] = SchOnProcessKilled(f[before], p, 0)
      BY <1>2, <2>1, <3>a, <3>b, <3>1
    <3>6. 0 \in ExitStatuses
      BY SchedulerAssumption
    <3>7. SchInv(f[s]) /\ f[s].rsp = [f[before].rsp EXCEPT ![p] = NULL]
      <4>1. SchInv(f[before])
        BY <3>4
      <4>a. PICK now : now = f[s]
        OBVIOUS
      <4>b. PICK then : then = f[before]
        OBVIOUS
      <4>2. SchInv(then) /\ now = SchOnProcessKilled(then, p, 0)
        BY <3>5, <4>a, <4>b, <4>1
      <4>3. SchInv(now) /\ now.rsp = [then.rsp EXCEPT ![p] = NULL]
        BY <3>2, <3>6, <4>2, KilledFacts
      <4> QED BY <4>a, <4>b, <4>3
    <3>8. f[before].rsp \in [Pids -> Pids \cup {NULL}]
      BY <3>4 DEF SchInv, SchStates
    <3> QED BY <3>b, <3>1, <3>2, <3>4, <3>7, <3>8
  <2>2. Right({})
    BY <1>2
  <2> HIDE DEF Right
  <2> QED BY <2>1, <2>2
<1>5. Right(S)
  <2>1. Nat \subseteq G
    <3> HIDE DEF G
    <3> QED BY <1>3, <1>4, NaturalInduction
  <2>2. Cardinality(S) \in Nat /\ S \in Small(S, Cardinality(S))
    <3>1. Cardinality(S) \in Nat /\ Small(S, Cardinality(S)) = SUBSET S
      BY <1>1, SmallFacts, FS_CardinalityType
    <3> QED BY <3>1
  <2> HIDE DEF Right
  <2> QED BY <2>1, <2>2
<1> QED BY <1>2, <1>5

\* sem_close on one id after the other.
AllClosed(base, seq) == FoldLeft(Closed, base, seq)

\* The states of the kernel between the closes.
OneByOne(f, n, base, seq) ==
  /\ f[0] = base /\ \A k \in 1 .. n : f[k] = Closed(f[k - 1], seq[k])
  /\ AllClosed(base, seq) = f[n]

LEMMA ClosedFold ==
  ASSUME NEW n \in Nat, NEW seq, DOMAIN seq = 1 .. n, NEW base
  PROVE  \E f : OneByOne(f, n, base, seq)
<1> DEFINE S == 1 .. n
           Goes(f, D) == f = [s \in D |-> IF s = {} THEN base
                               ELSE Closed(f[s \ {Max(s)}], seq[Max(s)])]
           G == {m \in Nat : \E f : Goes(f, Small(S, m))}
<1>0. IsFiniteSet(S)
  BY FS_Interval
<1>1. 0 \in G
  <2>1. Goes([s \in {{}} |-> base], {{}})
    OBVIOUS
  <2> HIDE DEF Goes
  <2>2. 0 \in Nat /\ Small(S, 0) = {{}}
    BY <1>0, SmallFacts
  <2> QED BY <2>1, <2>2
<1>2. ASSUME NEW m \in Nat, m \in G PROVE m + 1 \in G
  <2>1. PICK f : Goes(f, Small(S, m))
    BY <1>2
  <2> DEFINE g == [s \in Small(S, m + 1) |-> IF s = {} THEN base
                    ELSE Closed(f[s \ {Max(s)}], seq[Max(s)])]
  <2>2. \A s \in Small(S, m) : f[s] = g[s]
    BY <1>0, <2>1, SmallFacts
  <2>3. \A s \in Small(S, m + 1) : s # {} => Max(s) \in s /\ Max(s) \in S
    <3>1. \A s \in Small(S, m + 1) : s \subseteq S /\ s \in SUBSET (0 .. n)
      BY DEF Small
    <3>2. n \in Nat
      OBVIOUS
    <3> HIDE DEF S
    <3> QED BY <3>1, <3>2, MaxFacts
  <2>4. \A s \in Small(S, m + 1) : s # {} => f[s \ {Max(s)}] = g[s \ {Max(s)}]
    <3> HIDE DEF g, S
    <3> QED BY <1>0, <2>2, <2>3, SmallFacts
  <2>5. Goes(g, Small(S, m + 1))
    BY <2>4
  <2> HIDE DEF Goes, g
  <2> QED BY <2>5
<1>3. \E f : Goes(f, SUBSET S)
  <2> HIDE DEF Goes, S
  <2>1. Cardinality(S) \in G
    <3> HIDE DEF G
    <3>1. Nat \subseteq G
      BY <1>1, <1>2, NaturalInduction
    <3> QED BY <1>0, <3>1, SmallFacts
  <2> QED BY <1>0, <2>1, SmallFacts
<1> DEFINE iter == CHOOSE f : Goes(f, SUBSET S)
<1>4. AllClosed(base, seq) = iter[S]
  BY DEF AllClosed, FoldLeft, MapThenFoldSet
<1>5. Goes(iter, SUBSET S)
  BY <1>3
<1> HIDE DEF iter
<1> DEFINE Upto(k) == 1 .. k
           h == [k \in 0 .. n |-> iter[Upto(k)]]
<1>6. h[0] = base /\ h[n] = iter[S]
  <2>1. Upto(0) = {} /\ Upto(n) = S /\ iter[{}] = base /\ 0 \in 0 .. n /\ n \in 0 .. n
    BY <1>5
  <2> HIDE DEF Upto
  <2> QED BY <2>1
<1>7. ASSUME NEW k \in 1 .. n PROVE h[k] = Closed(h[k - 1], seq[k])
  <2>1. Upto(k) \in SUBSET S /\ Upto(k) # {} /\ Upto(k) \ {k} = Upto(k - 1) /\ k - 1 \in 0 .. n
    <3>1. ASSUME NEW x PROVE x \in (1 .. k) \ {k} <=> x \in 1 .. k - 1
      OBVIOUS
    <3>2. (1 .. k) \ {k} = 1 .. k - 1
      BY <3>1, Zenon
    <3>3. k \in 1 .. k /\ (1 .. k) \in SUBSET (1 .. n) /\ k - 1 \in 0 .. n
      OBVIOUS
    <3> QED BY <3>2, <3>3
  <2>2. Max(Upto(k)) = k
    <3>1. /\ k \in Upto(k) /\ \A y \in Upto(k) : y \in Int /\ y <= k
          /\ Upto(k) \in SUBSET (0 .. k) /\ k \in Nat
      OBVIOUS
    <3> HIDE DEF Upto
    <3>2. Max(Upto(k)) \in Upto(k) /\ k <= Max(Upto(k))
      BY <2>1, <3>1, MaxFacts
    <3> QED BY <3>1, <3>2
  <2> HIDE DEF Upto
  <2>3. iter[Upto(k)] = Closed(iter[Upto(k) \ {Max(Upto(k))}], seq[Max(Upto(k))])
    BY <1>5, <2>1
  <2>4. h[k] = iter[Upto(k)] /\ h[k - 1] = iter[Upto(k - 1)]
    BY <2>1
  <2> HIDE DEF h
  <2> QED BY <2>1, <2>2, <2>3, <2>4
<1> HIDE DEF h
<1> QED BY <1>4, <1>6, <1>7 DEF OneByOne

\* The scheduler and a table of semaphores with one link each, sems of them left.
Table(k, sems) ==
  /\ SchInv(k.sch) /\ k.semaphores \in [sems -> SemInfo]
  /\ \A sem \in sems : k.semaphores[sem].linked_processes = 1

\* The close of the only link frees the semaphore, that of a stale id nothing.
LEMMA ClosedOnce ==
  ASSUME NEW k, NEW sems, Table(k, sems), NEW sem, NEW t, t = Closed(k, sem)
  PROVE  Table(t, sems \ {sem}) /\ t.sch.rsp = k.sch.rsp
<1>1. CASE sem \notin sems
  BY <1>1 DEF Closed, Table
<1>2. CASE sem \in sems
  <2>1. DOMAIN k.semaphores = sems /\ k.semaphores[sem].linked_processes = 1
    BY <1>2 DEF Table
  <2>2. t = Freed(k, sem)
    BY <1>2, <2>1 DEF Closed
  <2> PICK queue : queue = k.semaphores[sem].waiting_processes
    OBVIOUS
  <2>3. /\ t.sch = QueueUnblockAll(k.sch, queue)
        /\ t.semaphores = Restrict(k.semaphores, sems \ {sem})
    BY <2>1, <2>2 DEF Freed
  <2>4. queue \in Seq(Int)
    <3>1. queue \in Seq(0 .. 255)
      BY <1>2 DEF Table, SemInfo
    <3>2. (0 .. 255) \subseteq Int
      OBVIOUS
    <3> QED BY <3>1, <3>2, SeqMonotonic
  <2>5. SchInv(t.sch) /\ t.sch.rsp = k.sch.rsp
    <3>1. SchInv(k.sch)
      BY DEF Table
    <3>a. PICK s : s = k.sch
      OBVIOUS
    <3>b. PICK u : u = t.sch
      OBVIOUS
    <3>2. SchInv(s) /\ u = QueueUnblockAll(s, queue)
      BY <2>3, <3>1, <3>a, <3>b
    <3>3. SchInv(u) /\ u.rsp = s.rsp
      BY <2>4, <3>2, UnblockAllFacts
    <3> QED BY <3>3, <3>a, <3>b
  <2>6. t.semaphores = [other \in sems \ {sem} |-> k.semaphores[other]]
    BY <2>3 DEF Restrict
  <2> QED BY <2>5, <2>6 DEF Table
<1> QED BY <1>1, <1>2

\* Once every semaphore's id has come, none is left.
LEMMA ClosedAll ==
  ASSUME NEW base, NEW sems, Table(base, sems), NEW n \in Nat, NEW seq, DOMAIN seq = 1 .. n,
         sems \subseteq Range(seq), NEW t, t = AllClosed(base, seq)
  PROVE  SchInv(t.sch) /\ t.sch.rsp = base.sch.rsp /\ t.semaphores = <<>>
<1>0. PICK f : OneByOne(f, n, base, seq)
  BY ClosedFold
<1>1. f[0] = base /\ \A k \in 1 .. n : f[k] = Closed(f[k - 1], seq[k])
  BY <1>0 DEF OneByOne
<1>a. t = f[n]
  BY <1>0 DEF OneByOne
<1> DEFINE Left(k) == {sem \in sems : \A j \in 1 .. k : seq[j] # sem}
           Right(k) == Table(f[k], Left(k)) /\ f[k].sch.rsp = base.sch.rsp
           G == {k \in Nat : k <= n => Right(k)}
<1>2. 0 \in G
  <2>1. Left(0) = sems
    OBVIOUS
  <2> HIDE DEF Left
  <2> QED BY <1>1, <2>1
<1>3. ASSUME NEW k \in Nat, k \in G PROVE k + 1 \in G
  <2>1. ASSUME k + 1 <= n PROVE Right(k + 1)
    <3>1. k + 1 \in 1 .. n /\ (k + 1) - 1 = k /\ k <= n
      BY <2>1
    <3>2. Right(k)
      BY <1>3, <3>1
    <3>3. Left(k + 1) = Left(k) \ {seq[k + 1]}
      <4>1. \A j : j \in 1 .. k + 1 <=> j \in 1 .. k \/ j = k + 1
        OBVIOUS
      <4> QED BY <4>1
    <3>4. f[k + 1] = Closed(f[k], seq[k + 1])
      BY <1>1, <3>1
    <3> HIDE DEF Left
    <3>5. PICK before : before = f[k]
      OBVIOUS
    <3>6. PICK now : now = f[k + 1]
      OBVIOUS
    <3>7. Table(before, Left(k)) /\ now = Closed(before, seq[k + 1])
      BY <3>2, <3>4, <3>5, <3>6
    <3>8. Table(now, Left(k) \ {seq[k + 1]}) /\ now.sch.rsp = before.sch.rsp
      BY <3>7, ClosedOnce
    <3> QED BY <3>2, <3>3, <3>5, <3>6, <3>8
  <2> HIDE DEF Right
  <2> QED BY <2>1
<1>4. Right(n)
  <2>1. Nat \subseteq G
    <3> HIDE DEF G
    <3> QED BY <1>2, <1>3, NaturalInduction
  <2> HIDE DEF Right
  <2> QED BY <2>1
<1>5. Left(n) = {}
  BY DEF Range
<1>6. t.semaphores = <<>>
  <2>1. t.semaphores \in [{} -> SemInfo]
    BY <1>a, <1>4, <1>5 DEF Table
  <2> QED BY <2>1
<1> QED BY <1>a, <1>4, <1>6 DEF Table

----------------------------------------------------------------------------
(* What the kill callback finds.  terminate_philos kills what philos[] names, *)
(* terminate_forks closes what forks[] names: that is enough if the command   *)
(* knows everybody who is active, and every semaphore has one link.           *)

\* The command has stored the pid of philosopher k.
PhiloAdded(k) ==
  /\ pc[Command] \in {"add_philo", "store_philo"} => k < i
  /\ pc[Command] \in {"add_fork", "store_fork"} => k <= i

\* A semaphore is on the table, or sem_open has just returned it.
HeldAs(sem) ==
  \/ \E k \in Places : IsLaid(k) /\ forks[k] = sem
  \/ pc[Command] \in {"store_fork", "store_big_fork"} /\ result = sem
  \/ pc[Command] \in WaitSteps /\ sem_big_fork = sem

\* The command knows every philosopher and every semaphore there is.
Known ==
  /\ \A pid \in Pids : IsActive(sch, pid) => pc[pid] # "none"
  /\ \A k \in Places : PhiloAdded(k) => philos[k] \in PhilosopherPids
  /\ pc[Command] = "store_philo" => result \in PhilosopherPids
  /\ \A sem \in DOMAIN semaphores : semaphores[sem].linked_processes = 1 /\ HeldAs(sem)

\* Nothing is left of it.
Cleared ==
  /\ SchInv(sch) /\ \A pid \in Pids : IsActive(sch, pid) <=> pid = 0
  /\ semaphores = <<>> /\ waiting = [pid \in Pids |-> NULL]

\* A command that is not killed during its preparations leaves nothing.
TidyInv ==
  /\ NotStarted \/ (Dining /\ Known) \/ (Over /\ Cleared)
  /\ DOMAIN philos = Places

\* Neither sem_wait nor sem_post makes, closes or opens a semaphore.
LEMMA CallsKeepLinks ==
  ASSUME semaphores \in [DOMAIN semaphores -> SemInfo], NEW sem, Take(sem) \/ Sleep(sem) \/ Release(sem)
  PROVE  /\ DOMAIN semaphores' = DOMAIN semaphores
         /\ \A other \in DOMAIN semaphores :
              semaphores'[other].linked_processes = semaphores[other].linked_processes
<1>1. CASE Take(sem)
  BY <1>1 DEF Take
<1>2. CASE Sleep(sem)
  <2> DEFINE queued == (sch.current + 256) % 256
             longer == [semaphores EXCEPT ![sem].waiting_processes = Append(@, queued)]
             info == [semaphores[sem] EXCEPT !.waiting_processes = Append(@, queued)]
  <2>1. sem \in DOMAIN semaphores /\ (semaphores' = longer \/ semaphores' = semaphores)
    BY <1>2 DEF Sleep
  <2>2. semaphores[sem] \in SemInfo
    BY <2>1
  <2> HIDE DEF queued
  <2>3. longer = [semaphores EXCEPT ![sem] = info]
    OBVIOUS
  <2>4. info.linked_processes = semaphores[sem].linked_processes
    BY <2>2 DEF SemInfo
  <2> HIDE DEF longer, info
  <2> QED BY <2>1, <2>3, <2>4
<1>3. CASE Release(sem)
  BY <1>3 DEF Release
<1> QED BY <1>1, <1>2, <1>3

\* A step of a process that is there already.
LEMMA KnownKept ==
  ASSUME Known, \A pid \in Pids : IsActive(sch', pid) => IsActive(sch, pid) /\ pc'[pid] # "none",
         DOMAIN semaphores' = DOMAIN semaphores,
         \A sem \in DOMAIN semaphores :
           semaphores'[sem].linked_processes = semaphores[sem].linked_processes,
         UNCHANGED <<philos, forks, sem_big_fork>>,
         \/ pc'[Command] = pc[Command] /\ i' = i /\ result' = result
         \/ pc[Command] \in WaitSteps /\ pc'[Command] \in WaitSteps
  PROVE  Known'
<1>1. CASE pc'[Command] = pc[Command] /\ i' = i /\ result' = result
  <2>1. \A k \in Places : PhiloAdded(k)' => PhiloAdded(k)
    BY <1>1 DEF PhiloAdded
  <2>2. \A sem : HeldAs(sem) => HeldAs(sem)'
    BY <1>1 DEF HeldAs, IsLaid
  <2> QED BY <1>1, <2>1, <2>2 DEF Known
<1>2. CASE pc[Command] \in WaitSteps /\ pc'[Command] \in WaitSteps
  <2>1. \A k \in Places : PhiloAdded(k)
    BY <1>2 DEF PhiloAdded, WaitSteps
  <2>2. \A sem : HeldAs(sem) => HeldAs(sem)'
    BY <1>2, StepFacts DEF HeldAs, IsLaid, WaitSteps
  <2>3. pc'[Command] # "store_philo"
    BY <1>2 DEF WaitSteps
  <2> QED BY <1>2, <2>1, <2>2, <2>3 DEF Known
<1> QED BY <1>1, <1>2

\* The process goes on to another step, and those that are active stay so.
LEMMA KnownGoesOn ==
  ASSUME Known, Dining, NEW pid \in Pids, NEW step, step # "none",
         pc' = [pc EXCEPT ![pid] = step], sch'.rsp = sch.rsp,
         DOMAIN semaphores' = DOMAIN semaphores,
         \A sem \in DOMAIN semaphores :
           semaphores'[sem].linked_processes = semaphores[sem].linked_processes,
         UNCHANGED <<philos, forks, sem_big_fork>>,
         \/ pid # Command /\ i' = i /\ result' = result
         \/ pid = Command /\ pc[Command] \in WaitSteps /\ step \in WaitSteps
  PROVE  Known'
<1>1. /\ pc'[pid] = step /\ \A other \in Pids : other # pid => pc'[other] = pc[other]
      /\ Command \in Pids
  BY ConstantFacts DEF Dining, DiningTypes
<1>2. \A other \in Pids : IsActive(sch', other) => IsActive(sch, other) /\ pc'[other] # "none"
  BY <1>1 DEF Known, IsActive
<1> QED BY <1>1, <1>2, KnownKept

----------------------------------------------------------------------------
(* While the dinner goes on *)

\* A sem_wait, whether it takes the fork or sleeps.
LEMMA AttemptKeepsKnown ==
  ASSUME Known, Dining, NEW pid \in PhilosopherPids, sch.current = pid, NEW sem,
         Take(sem) \/ Sleep(sem), NEW step \in AttemptSteps, pc' = [pc EXCEPT ![pid] = step],
         UNCHANGED <<i, result, philos, forks, sem_big_fork>>
  PROVE  Known'
<1>1. pid \in Pids /\ pid # Command /\ step # "none"
  BY DEF PhilosopherPids, AttemptSteps
<1>2. semaphores \in [DOMAIN semaphores -> SemInfo] /\ SchInv(sch)
  BY DEF Dining, DiningTypes
<1>3. sch'.rsp = sch.rsp
  <2>1. CASE Take(sem)
    BY <1>1, <1>2, <2>1, TakeFacts
  <2>2. CASE Sleep(sem)
    BY <1>1, <1>2, <2>2, SleepFacts
  <2> QED BY <2>1, <2>2
<1>4. /\ DOMAIN semaphores' = DOMAIN semaphores
      /\ \A other \in DOMAIN semaphores :
           semaphores'[other].linked_processes = semaphores[other].linked_processes
  BY <1>2, CallsKeepLinks
<1> QED BY <1>1, <1>3, <1>4, KnownGoesOn

LEMMA PhilosopherKeepsKnown ==
  ASSUME Known, Dining, NEW pid \in Pids, PhilosopherStep(pid)
  PROVE  Known'
<1>1. pid \in PhilosopherPids /\ pid # Command /\ sch.current = pid /\ UNCHANGED philos
  <2>1. /\ pc[pid] \in TableSteps \cup {"think"} /\ sch.current = pid /\ UNCHANGED philos
    BY DEF PhilosopherStep, StopThinking, PickUp, StopEating, PutDown, Leave, WaitFor, Return,
           AtStep, TableSteps
  <2>2. pid \in PhilosopherPids
    BY <2>1, ThePidAtAStep
  <2> QED BY <2>1, <2>2 DEF PhilosopherPids
<1>2. CASE StopThinking(pid) \/ StopEating(pid)
  <2>1. PICK step \in {"big_fork", "return_next"} : pc' = [pc EXCEPT ![pid] = step]
    BY <1>2 DEF StopThinking, StopEating, Goto
  <2>2. UNCHANGED <<sch, semaphores, i, result, forks, sem_big_fork>>
    BY <1>2 DEF StopThinking, StopEating, vars, semVars
  <2> QED BY <1>1, <2>1, <2>2, KnownGoesOn
<1>3. ASSUME NEW sem, NEW from, NEW to \in AttemptSteps, WaitFor(pid, sem, from, to)
      PROVE  Known'
  BY <1>1, <1>3, AttemptKeepsKnown DEF WaitFor, Goto
<1>4. ASSUME NEW sem, NEW from, NEW to \in {"eat", "return_own", "exit"}, Return(pid, sem, from, to)
      PROVE  Known'
  <2>1. semaphores \in [DOMAIN semaphores -> SemInfo] /\ SchInv(sch)
    BY DEF Dining, DiningTypes
  <2>2. /\ Release(sem) /\ pc' = [pc EXCEPT ![pid] = to]
        /\ UNCHANGED <<i, result, forks, sem_big_fork>>
    BY <1>4 DEF Return, Goto
  <2>3. sch'.rsp = sch.rsp
    BY <2>1, <2>2, ReleaseFacts
  <2>4. /\ DOMAIN semaphores' = DOMAIN semaphores
        /\ \A other \in DOMAIN semaphores :
             semaphores'[other].linked_processes = semaphores[other].linked_processes
    BY <2>1, <2>2, CallsKeepLinks
  <2> QED BY <1>1, <2>2, <2>3, <2>4, KnownGoesOn
<1>5. CASE Leave(pid)
  <2>1. pc' = [pc EXCEPT ![pid] = "none"] /\ UNCHANGED <<semaphores, i, result, forks, sem_big_fork>>
    BY <1>5 DEF Leave, Goto, semVars
  <2>2. sch'.rsp = [sch.rsp EXCEPT ![pid] = NULL]
    <3>a. PICK s : s = SchOnProcessKilled(sch, pid, 0)
      OBVIOUS
    <3>b. PICK t : t = IF pc[Command] = "waiting" /\ philos[i] = pid THEN SchUnblock(s, Command) ELSE s
      OBVIOUS
    <3>1. SchYield(t, sch')
      BY <1>5, <3>a, <3>b DEF Leave
    <3>2. SchInv(sch) /\ 0 \in ExitStatuses
      BY SchedulerAssumption DEF Dining
    <3>3. SchInv(s) /\ s.rsp = [sch.rsp EXCEPT ![pid] = NULL]
      BY <3>2, <3>a, KilledFacts
    <3>4. SchInv(t) /\ t.rsp = s.rsp
      <4>1. Command \in Int
        BY DEF Command
      <4> QED BY <3>3, <3>b, <4>1, UnblockFacts
    <3> QED BY <3>1, <3>3, <3>4, YieldFacts
  <2>3. /\ pc'[Command] = pc[Command] /\ sch.rsp \in [Pids -> Pids \cup {NULL}]
        /\ \A other \in Pids : other # pid => pc'[other] = pc[other]
    BY <1>1, <2>1, ConstantFacts DEF Dining, DiningTypes, SchInv, SchStates
  <2>4. \A other \in Pids : IsActive(sch', other) => IsActive(sch, other) /\ pc'[other] # "none"
    BY <2>2, <2>3 DEF IsActive, Known
  <2> QED BY <1>1, <2>1, <2>3, <2>4, KnownKept
<1>6. CASE PickUp(pid)
  <2>1. {"own_fork", "next_fork", "return_big_fork"} \subseteq AttemptSteps
    BY DEF AttemptSteps
  <2>2. ASSUME Return(pid, sem_big_fork, "return_big_fork", "eat") PROVE Known'
    BY <1>4, <2>2
  <2> QED BY <1>3, <1>6, <2>1, <2>2 DEF PickUp
<1>7. CASE PutDown(pid)
  BY <1>4, <1>7 DEF PutDown
<1> QED BY <1>2, <1>5, <1>6, <1>7 DEF PhilosopherStep

\* Continue, the ticks of the clock, and naps.
LEMMA SwitchKeepsKnown ==
  ASSUME Known, Dining, sch'.rsp = sch.rsp,
         DOMAIN semaphores' = DOMAIN semaphores,
         \A sem \in DOMAIN semaphores :
           semaphores'[sem].linked_processes = semaphores[sem].linked_processes,
         UNCHANGED philoVars
  PROVE  Known'
<1>1. \A pid \in Pids : IsActive(sch', pid) => IsActive(sch, pid) /\ pc'[pid] # "none"
  BY DEF IsActive, Known, philoVars
<1> QED BY <1>1, KnownKept DEF philoVars

LEMMA OthersKeepKnown ==
  ASSUME Known, Dining, Continue \/ TimerTick \/ \E pid \in Pids : Nap(pid)
  PROVE  Known'
<1>1. semaphores \in [DOMAIN semaphores -> SemInfo] /\ SchInv(sch)
  BY DEF Dining, DiningTypes
<1>2. CASE Continue
  <2>1. PICK sem : (Take(sem) \/ Sleep(sem)) /\ sch.current \in Pids /\ UNCHANGED philoVars
    BY <1>2 DEF Continue, ContinueWait, Resuming
  <2>2. sch'.rsp = sch.rsp
    <3>1. CASE Take(sem)
      BY <1>1, <2>1, <3>1, TakeFacts
    <3>2. CASE Sleep(sem)
      BY <1>1, <2>1, <3>2, SleepFacts
    <3> QED BY <2>1, <3>1, <3>2
  <2>3. /\ DOMAIN semaphores' = DOMAIN semaphores
        /\ \A other \in DOMAIN semaphores :
             semaphores'[other].linked_processes = semaphores[other].linked_processes
    BY <1>1, <2>1, CallsKeepLinks
  <2> QED BY <2>1, <2>2, <2>3, SwitchKeepsKnown
<1>3. CASE TimerTick \/ \E pid \in Pids : Nap(pid)
  <2>1. SchYield(sch, sch') \/ SchSwitch(sch, sch')
    BY <1>3 DEF Nap, Yield, TimerTick, Tick
  <2>2. sch'.rsp = sch.rsp
    BY <1>1, <2>1, YieldFacts, SwitchFacts
  <2>3. semaphores' = semaphores /\ UNCHANGED philoVars
    BY <1>3 DEF Nap, Yield, TimerTick, Tick, semVars
  <2> QED BY <2>2, <2>3, SwitchKeepsKnown
<1> QED BY <1>2, <1>3

\* The shell blocks or is woken.
LEMMA ShellKeepsKnown ==
  ASSUME Known, Dining, ShellStep
  PROVE  Known'
<1>1. /\ 0 \in Pids /\ 0 # Command /\ SchInv(sch) /\ ~Launch
  BY ConstantFacts DEF Dining, StepsInOrder, Launch, AtStep
<1>2. PICK step \in {"waiting", "prompt"} :
        /\ pc' = [pc EXCEPT ![0] = step] /\ sch'.rsp = sch.rsp
        /\ UNCHANGED <<semaphores, i, result, philos, forks, sem_big_fork>>
  <2>1. CASE ShellWaits
    <3>1. CASE Block(0) /\ Goto(0, "waiting")
      <4>1. sch'.rsp = sch.rsp
        BY <1>1, <3>1, BlockedAndYielded
      <4> QED BY <2>1, <3>1, <4>1 DEF ShellWaits, Block, Goto, semVars
    <3>2. CASE Goto(0, "prompt") /\ UNCHANGED vars
      BY <2>1, <3>2 DEF ShellWaits, Goto, vars, semVars
    <3> QED BY <2>1, <3>1, <3>2 DEF ShellWaits
  <2>2. CASE ShellGoesOn
    BY <2>2 DEF ShellGoesOn, Goto, vars, semVars
  <2> QED BY <1>1, <2>1, <2>2 DEF ShellStep
<1> QED BY <1>1, <1>2, KnownGoesOn

----------------------------------------------------------------------------
(* The preparations and the wait *)

\* The command blocks until a philosopher is gone.
LEMMA CommandWaitKeepsKnown ==
  ASSUME Known, Dining, WaitForPhilo \/ WaitedForPhilo
  PROVE  Known'
<1>1. Command \in Pids /\ SchInv(sch) /\ pc = [pid \in Pids |-> pc[pid]]
  BY ConstantFacts DEF Dining, DiningTypes
<1>2. PICK step \in WaitSteps :
        /\ pc' = [pc EXCEPT ![Command] = step] /\ pc[Command] \in WaitSteps
        /\ UNCHANGED <<semaphores, philos, forks, sem_big_fork>> /\ sch'.rsp = sch.rsp
  <2>1. CASE WaitForPhilo
    <3>1. CASE Block(Command) /\ Goto(Command, "waiting")
      <4>1. sch'.rsp = sch.rsp
        BY <1>1, <3>1, BlockedAndYielded
      <4> QED BY <2>1, <3>1, <4>1 DEF WaitForPhilo, AtStep, Block, Goto, semVars, WaitSteps
    <3>2. CASE UNCHANGED <<vars, pc>>
      <4>1. pc[Command] = "wait" /\ pc' = [pc EXCEPT ![Command] = "wait"]
        BY <1>1, <2>1, <3>2 DEF WaitForPhilo, AtStep
      <4> QED BY <2>1, <3>2, <4>1 DEF WaitForPhilo, vars, semVars, WaitSteps
    <3> QED BY <2>1, <3>1, <3>2 DEF WaitForPhilo
  <2>2. CASE WaitedForPhilo
    BY <2>2 DEF WaitedForPhilo, AtStep, Goto, vars, semVars, WaitSteps
  <2> QED BY <2>1, <2>2
<1>3. step # "none"
  BY DEF WaitSteps
<1> QED BY <1>1, <1>2, <1>3, KnownGoesOn

\* The pid of the new process is what is stored next.
LEMMA AddPhiloKeepsKnown ==
  ASSUME Known, Dining, NEW pid \in Pids, AddPhilo(pid)
  PROVE  Known'
<1>1. /\ pc[Command] = "add_philo" /\ pid \in Free /\ Create(pid) /\ result' = pid
      /\ pc' = [pc EXCEPT ![Command] = "store_philo", ![pid] = "think"]
      /\ UNCHANGED <<semaphores, i, philos, forks, sem_big_fork>>
  BY DEF AddPhilo, AtStep, Create
<1>2. /\ 0 \in Pids /\ Command \in Pids /\ IsActive(sch, 0) /\ IsActive(sch, Command)
      /\ SchInv(sch) /\ sch.rsp[pid] = NULL
  BY <1>1, ConstantFacts DEF Dining, StepsInOrder, Free
<1>3. pid # 0 /\ pid # Command /\ pid \in PhilosopherPids
  BY <1>2 DEF IsActive, PhilosopherPids
<1>4. sch'.rsp = [sch.rsp EXCEPT ![pid] = pid] /\ sch.rsp \in [Pids -> Pids \cup {NULL}]
  BY <1>1, <1>2, CreatedInv DEF SchInv, SchStates
<1>5. /\ pc'[Command] = "store_philo" /\ pc'[pid] = "think"
      /\ \A other \in Pids \ {Command, pid} : pc'[other] = pc[other]
  BY <1>1, <1>2, <1>3 DEF Dining, DiningTypes
<1>6. ASSUME NEW other \in Pids, IsActive(sch', other) PROVE pc'[other] # "none"
  <2>1. CASE other \in {pid, Command}
    BY <1>5, <2>1
  <2>2. CASE other \notin {pid, Command}
    BY <1>4, <1>5, <1>6, <2>2 DEF IsActive, Known
  <2> QED BY <2>1, <2>2
<1>7. \A k \in Places : PhiloAdded(k)' => PhiloAdded(k)
  BY <1>1, <1>5 DEF PhiloAdded
<1>8. \A sem : HeldAs(sem) => HeldAs(sem)'
  BY <1>1, <1>5 DEF HeldAs, IsLaid, SetupSteps, WaitSteps
<1> QED BY <1>1, <1>3, <1>5, <1>6, <1>7, <1>8 DEF Known

\* sem_open finds no semaphore of the fork's name, and makes one.
LEMMA OpenKeepsKnown ==
  ASSUME Known, Dining, AddFork \/ OpenBigFork
  PROVE  Known'
<1>1. PICK from \in {"add_fork", "open_big_fork"},
           to \in {"store_fork", "store_big_fork"}, name \in 0 .. philo_count :
        /\ pc[Command] = from /\ pc' = [pc EXCEPT ![Command] = to] /\ SemOpen(name, 1)
        /\ result' = CHOOSE sem \in DOMAIN semaphores' : semaphores'[sem].name = name
        /\ UNCHANGED <<i, philos, forks, sem_big_fork>>
        /\ \/ from = "add_fork" /\ to = "store_fork" /\ name = i /\ i \in Places
           \/ from = "open_big_fork" /\ to = "store_big_fork" /\ name = philo_count
  <2>1. CASE AddFork
    <3>1. pc[Command] = "add_fork"
      BY <2>1 DEF AddFork, OpenFork, AtStep
    <3>2. i \in Places
      BY <3>1 DEF Dining, StepsInOrder, SetupSteps
    <3>3. i \in 0 .. philo_count
      BY <3>2, ConstantFacts DEF Places
    <3> QED BY <2>1, <3>1, <3>2, <3>3 DEF AddFork, OpenFork, AtStep, Goto, FORK_SEM_NAME
  <2>2. CASE OpenBigFork
    <3>1. philo_count \in 0 .. philo_count
      BY ConstantFacts
    <3> QED BY <2>2, <3>1 DEF OpenBigFork, OpenFork, AtStep, Goto, BIG_FORK_NAME
  <2> QED BY <2>1, <2>2
<1>2. /\ Command \in Pids /\ pc'[Command] = to /\ pc[Command] \notin WaitSteps
      /\ \A pid \in Pids : pid # Command => pc'[pid] = pc[pid]
  BY <1>1, ConstantFacts DEF Dining, DiningTypes, WaitSteps
<1>3. \A sem \in DOMAIN semaphores : semaphores[sem].name # name
  <2> SUFFICES ASSUME NEW sem \in DOMAIN semaphores PROVE semaphores[sem].name # name
    OBVIOUS
  <2>1. HeldAs(sem)
    BY DEF Known
  <2>2. PICK k \in Places : IsLaid(k) /\ forks[k] = sem
    BY <1>1, <1>2, <2>1 DEF HeldAs
  <2>3. semaphores[sem].name = k
    BY <2>2 DEF Dining, ForksLaid, NamedSem, FORK_SEM_NAME
  <2>4. CASE from = "add_fork"
    <3>1. k < i /\ k \in Int /\ name = i /\ i \in Int
      BY <1>1, <2>2, <2>4 DEF IsLaid, SetupSteps, Places
    <3> QED BY <2>3, <3>1
  <2>5. CASE from = "open_big_fork"
    BY <1>1, <2>3, <2>5, ConstantFacts
  <2> QED BY <2>4, <2>5
<1>4. PICK sem \in Semaphores \ DOMAIN semaphores : semaphores' = Opened(sem, name, 1)
  BY <1>1, <1>3 DEF SemOpen, SemOpenExisting, SemOpenNew, SearchSemaphore, SearchNext
<1>5. sch' = sch
  BY <1>1 DEF SemOpen, SemOpenExisting, SemOpenNew
<1>6. /\ DOMAIN semaphores' = DOMAIN semaphores \cup {sem}
      /\ semaphores'[sem].name = name /\ semaphores'[sem].linked_processes = 1
      /\ \A other \in DOMAIN semaphores : semaphores'[other] = semaphores[other]
  BY <1>4 DEF Opened
<1>7. result' = sem
  BY <1>1, <1>3, <1>6
<1>8. \A other \in DOMAIN semaphores : HeldAs(other)'
  <2> SUFFICES ASSUME NEW other \in DOMAIN semaphores PROVE HeldAs(other)'
    OBVIOUS
  <2>1. PICK k \in Places : IsLaid(k) /\ forks[k] = other
    BY <1>1, <1>2 DEF Known, HeldAs
  <2>2. IsLaid(k)'
    BY <1>1, <1>2, <2>1 DEF IsLaid, SetupSteps
  <2> QED BY <1>1, <2>1, <2>2 DEF HeldAs
<1>9. HeldAs(sem)'
  BY <1>2, <1>7 DEF HeldAs
<1>10. \A k \in Places : PhiloAdded(k)' => PhiloAdded(k)
  <2>1. ASSUME NEW k \in Places, PhiloAdded(k)', from = "add_fork" PROVE PhiloAdded(k)
    BY <1>1, <1>2, <2>1 DEF PhiloAdded
  <2>2. ASSUME NEW k \in Places, from = "open_big_fork" PROVE PhiloAdded(k)
    BY <1>1, <2>2 DEF PhiloAdded
  <2> QED BY <2>1, <2>2
<1>11. \A pid \in Pids : IsActive(sch', pid) => pc'[pid] # "none"
  BY <1>1, <1>2, <1>5 DEF Known
<1> QED BY <1>1, <1>2, <1>6, <1>8, <1>9, <1>10, <1>11 DEF Known

\* From the result of the system call to philos[] and forks[].
LEMMA StoreKeepsKnown ==
  ASSUME Known, Dining, DOMAIN philos = Places, StorePhilo \/ StoreFork \/ StoreBigFork
  PROVE  Known' /\ DOMAIN philos' = Places
<1>1. PICK step :
        /\ pc' = [pc EXCEPT ![Command] = step] /\ UNCHANGED <<sch, semaphores>>
        /\ \/ /\ pc[Command] = "store_philo" /\ step = "add_fork"
              /\ philos' = [philos EXCEPT ![i] = result] /\ UNCHANGED <<i, forks, sem_big_fork>>
           \/ /\ pc[Command] = "store_fork"
              /\ step = IF i = philo_count - 1 THEN "open_big_fork" ELSE "add_philo"
              /\ forks' = [forks EXCEPT ![i] = result] /\ i' = (i + 1) % philo_count
              /\ UNCHANGED <<philos, sem_big_fork>>
           \/ /\ pc[Command] = "store_big_fork" /\ step = "wait"
              /\ sem_big_fork' = result /\ UNCHANGED <<i, philos, forks>>
  BY DEF StorePhilo, StoreFork, StoreBigFork, AtStep, Goto, vars, semVars
<1>2. /\ Command \in Pids /\ pc'[Command] = step
      /\ \A pid \in Pids : pid # Command => pc'[pid] = pc[pid]
      /\ pc[Command] \in SetupSteps => i \in Places
      /\ DOMAIN forks = 0 .. MAX_PHILOSOPHERS - 1
  BY <1>1, ConstantFacts DEF Dining, DiningTypes, StepsInOrder
<1>3. step # "none"
  BY <1>1
<1>4. \A pid \in Pids : IsActive(sch', pid) => pc'[pid] # "none"
  BY <1>1, <1>2, <1>3 DEF Known
<1>5. DOMAIN philos' = Places
  BY <1>1
<1>6. CASE pc[Command] = "store_philo"
  <2>1. i \in Places /\ result \in PhilosopherPids /\ i' = i /\ forks' = forks /\ step = "add_fork"
    BY <1>1, <1>2, <1>6 DEF SetupSteps, Known
  <2>2. ASSUME NEW k \in Places, PhiloAdded(k)' PROVE philos'[k] \in PhilosopherPids
    <3>1. k <= i
      BY <1>2, <2>1, <2>2 DEF PhiloAdded
    <3>2. CASE k = i
      BY <1>1, <1>6, <2>1, <3>2
    <3>3. CASE k # i
      <4>1. k < i
        BY <2>1, <3>1, <3>3 DEF Places
      <4>2. philos[k] \in PhilosopherPids
        BY <1>6, <4>1 DEF Known, PhiloAdded
      <4> QED BY <1>1, <1>6, <2>1, <3>3, <4>2
    <3> QED BY <3>2, <3>3
  <2>3. \A sem : HeldAs(sem) => HeldAs(sem)'
    BY <1>2, <1>6, <2>1 DEF HeldAs, IsLaid, SetupSteps, WaitSteps
  <2> QED BY <1>1, <1>2, <1>4, <1>5, <2>1, <2>2, <2>3 DEF Known
<1>7. CASE pc[Command] = "store_fork"
  <2>1. i \in Places /\ i \in DOMAIN forks /\ forks'[i] = result /\ philos' = philos
    BY <1>1, <1>2, <1>7, ConstantFacts DEF SetupSteps
  <2>2. \A k \in Places : k # i => forks'[k] = forks[k]
    BY <1>1, <1>2, <1>7, <2>1, ConstantFacts
  <2>3. \/ step = "add_philo" /\ i' = i + 1
        \/ step = "open_big_fork" /\ i = philo_count - 1
    <3>1. i \in Nat /\ i <= philo_count - 1 /\ philo_count \in Nat
      BY <2>1, ConstantFacts DEF Places
    <3>2. i # philo_count - 1 => (i + 1) % philo_count = i + 1
      BY <3>1
    <3> QED BY <1>1, <1>7, <3>2
  <2>4. ASSUME NEW k \in Places, PhiloAdded(k)' PROVE philos'[k] \in PhilosopherPids
    <3>1. k <= i
      BY <1>2, <2>1, <2>3, <2>4, ConstantFacts DEF PhiloAdded, Places
    <3> QED BY <1>7, <2>1, <3>1 DEF Known, PhiloAdded
  <2>5. ASSUME NEW sem \in DOMAIN semaphores PROVE HeldAs(sem)'
    <3>1. HeldAs(sem)
      BY DEF Known
    <3>2. CASE result = sem
      <4>a. PICK here : here = i
        OBVIOUS
      <4>1. IsLaid(here)'
        BY <1>2, <2>1, <2>3, <4>a DEF IsLaid, SetupSteps, Places
      <4> QED BY <2>1, <3>2, <4>a, <4>1 DEF HeldAs
    <3>3. CASE result # sem
      <4>1. PICK k \in Places : IsLaid(k) /\ forks[k] = sem
        BY <1>7, <3>1, <3>3 DEF HeldAs, WaitSteps
      <4>2. k < i
        BY <1>7, <4>1 DEF IsLaid, SetupSteps
      <4>3. IsLaid(k)' /\ k # i
        BY <1>2, <2>1, <2>3, <4>2 DEF IsLaid, SetupSteps, Places
      <4> QED BY <2>2, <4>1, <4>3 DEF HeldAs
    <3> QED BY <3>2, <3>3
  <2>6. step # "store_philo"
    BY <2>3
  <2> QED BY <1>1, <1>2, <1>4, <1>5, <2>4, <2>5, <2>6 DEF Known
<1>8. CASE pc[Command] = "store_big_fork"
  <2>1. \A k \in Places : PhiloAdded(k) /\ philos' = philos
    BY <1>1, <1>8 DEF PhiloAdded
  <2>2. \A sem : HeldAs(sem) => HeldAs(sem)'
    BY <1>1, <1>2, <1>8 DEF HeldAs, IsLaid, SetupSteps, WaitSteps
  <2> QED BY <1>1, <1>2, <1>4, <1>5, <1>8, <2>1, <2>2 DEF Known
<1> QED BY <1>1, <1>6, <1>7, <1>8

----------------------------------------------------------------------------
(* The end of the command *)

\* terminate_forks leaves no fork out.
LEMMA ForksClosedFacts ==
  ASSUME Dining
  PROVE  /\ DOMAIN ForksClosed = 1 .. MAX_PHILOSOPHERS + 1
         /\ \A k \in Places : forks[k] \in Range(ForksClosed)
         /\ sem_big_fork \in Range(ForksClosed)
<1> DEFINE ids == {forks[k - 1] : k \in 1 .. MAX_PHILOSOPHERS} \cup {sem_big_fork}
           laid == [k \in 1 .. MAX_PHILOSOPHERS |-> forks[k - 1]]
           big == <<sem_big_fork>>
           all == laid \o big
<1>1. MAX_PHILOSOPHERS \in Nat /\ \A k \in Places : k + 1 \in 1 .. MAX_PHILOSOPHERS /\ (k + 1) - 1 = k
  BY PhilosophersAssumption DEF Places
<1>2. laid \in Seq(ids) /\ Len(laid) = MAX_PHILOSOPHERS
  <2>1. \A k \in 1 .. MAX_PHILOSOPHERS : forks[k - 1] \in ids
    OBVIOUS
  <2> HIDE DEF ids
  <2>2. laid \in [1 .. MAX_PHILOSOPHERS -> ids]
    BY <2>1
  <2> HIDE DEF laid
  <2> QED BY <1>1, <2>2
<1>3. big \in Seq(ids) /\ Len(big) = 1 /\ big[1] = sem_big_fork
  OBVIOUS
<1>4. \A k \in Places : laid[k + 1] = forks[k]
  BY <1>1
<1> HIDE DEF ids, laid, big
<1>5. /\ all \in Seq(ids) /\ Len(all) = MAX_PHILOSOPHERS + 1
      /\ \A k \in 1 .. MAX_PHILOSOPHERS + 1 :
           all[k] = IF k <= MAX_PHILOSOPHERS THEN laid[k] ELSE big[k - MAX_PHILOSOPHERS]
  <2>1. /\ all \in Seq(ids) /\ Len(all) = Len(laid) + Len(big)
        /\ \A k \in 1 .. Len(laid) + Len(big) :
             all[k] = IF k <= Len(laid) THEN laid[k] ELSE big[k - Len(laid)]
    BY <1>2, <1>3, ConcatProperties
  <2> HIDE DEF all
  <2> QED BY <1>2, <1>3, <2>1
<1> HIDE DEF all
<1>6. DOMAIN all = 1 .. MAX_PHILOSOPHERS + 1
  BY <1>1, <1>5
<1>7. ASSUME NEW k \in Places PROVE forks[k] \in Range(all)
  <2>1. k + 1 \in DOMAIN all /\ all[k + 1] = forks[k]
    BY <1>1, <1>4, <1>5, <1>6
  <2> QED BY <2>1 DEF Range
<1>8. sem_big_fork \in Range(all)
  <2>1. MAX_PHILOSOPHERS + 1 \in DOMAIN all /\ all[MAX_PHILOSOPHERS + 1] = sem_big_fork
    BY <1>1, <1>3, <1>5, <1>6
  <2> QED BY <2>1 DEF Range
<1>9. ForksClosed = all
  BY DEF ForksClosed, all, laid, big
<1> QED BY <1>6, <1>7, <1>8, <1>9

\* Whether it exits or is killed, all of it goes.
LEMMA KillCommandClears ==
  ASSUME Known, Dining, DOMAIN philos = Places, pc[Command] \in WaitSteps,
         NEW exits \in BOOLEAN, KillCommand(exits)
  PROVE  Cleared'
<1>1. /\ SchInv(sch) /\ semaphores \in [DOMAIN semaphores -> SemInfo]
      /\ 0 \in Pids /\ Command \in Pids /\ 0 # Command /\ IsActive(sch, 0)
      /\ MAX_PHILOSOPHERS + 1 \in Nat
  BY ConstantFacts, PhilosophersAssumption DEF Dining, DiningTypes, StepsInOrder
<1>a. PICK first : first = Range(philos) \cap {pid \in Pids : IsActive(sch, pid)}
  OBVIOUS
<1>b. PICK s : s = Killed(sch, first)
  OBVIOUS
<1>c. PICK base : base = [sch |-> s, semaphores |-> semaphores]
  OBVIOUS
<1>d. PICK k : k = AllClosed(base, ForksClosed)
  OBVIOUS
<1>e. PICK others : others = {Command} \cup Philosophers
  OBVIOUS
<1>f. PICK killed : killed = Killed(k.sch, others)
  OBVIOUS
<1>g. PICK woken : woken = IF pc[0] = "waiting" THEN SchUnblock(killed, 0) ELSE killed
  OBVIOUS
<1>2. PhiloKill([sch |-> sch, semaphores |-> semaphores]) = k
  BY <1>a, <1>b, <1>c, <1>d DEF PhiloKill, AllClosed
<1>3. /\ semaphores' = k.semaphores /\ waiting' = [pid \in Pids |-> NULL]
      /\ IF exits THEN SchYield(woken, sch') ELSE sch' = woken
  BY <1>2, <1>e, <1>f, <1>g DEF KillCommand
<1>4. first \in SUBSET Pids /\ 0 \notin first
  <2>1. \A j \in Places : PhiloAdded(j)
    BY DEF PhiloAdded, WaitSteps
  <2>2. \A j \in Places : philos[j] # 0
    BY <2>1 DEF Known, PhilosopherPids
  <2> QED BY <1>a, <2>2 DEF Range
<1>5. SchInv(s) /\ \A pid \in Pids : s.rsp[pid] = IF pid \in first THEN NULL ELSE sch.rsp[pid]
  BY <1>1, <1>4, <1>b, KilledAll
<1>6. Table(base, DOMAIN semaphores)
  BY <1>1, <1>5, <1>c DEF Table, Known
<1>7. DOMAIN semaphores \subseteq Range(ForksClosed)
  BY ForksClosedFacts, StepFacts DEF Known, HeldAs, WaitSteps
<1>8. SchInv(k.sch) /\ k.sch.rsp = base.sch.rsp /\ k.semaphores = <<>>
  BY <1>1, <1>6, <1>7, <1>d, ForksClosedFacts, ClosedAll
<1>9. others \in SUBSET Pids /\ 0 \notin others
  BY <1>1, <1>e DEF Philosophers
<1>10. /\ SchInv(killed)
       /\ \A pid \in Pids : killed.rsp[pid] = IF pid \in others THEN NULL ELSE s.rsp[pid]
  <2>1. PICK before : before = k.sch
    OBVIOUS
  <2>2. SchInv(before) /\ killed = Killed(before, others) /\ before.rsp = s.rsp
    BY <1>8, <1>c, <1>f, <2>1
  <2> QED BY <1>9, <2>2, KilledAll
<1>11. SchInv(woken) /\ woken.rsp = killed.rsp
  BY <1>10, <1>g, UnblockFacts
<1>12. SchInv(sch') /\ sch'.rsp = woken.rsp
  BY <1>3, <1>11, YieldFacts
<1>13. \A pid \in Pids : IsActive(sch', pid) <=> pid = 0
  <2>1. \A pid \in Pids : IsActive(sch, pid) /\ pid # 0 => pid \in others
    BY <1>e DEF Known, Philosophers
  <2> QED BY <1>1, <1>4, <1>5, <1>9, <1>10, <1>11, <1>12, <2>1 DEF IsActive
<1> QED BY <1>3, <1>8, <1>12, <1>13 DEF Cleared

----------------------------------------------------------------------------
(* The whole evening *)

LEMMA LaunchIsKnown ==
  ASSUME NotStarted, Launch
  PROVE  Known'
<1>1. /\ Create(Command) /\ Command \in Free /\ semaphores' = <<>> /\ i' = 0
      /\ pc' = [pc EXCEPT ![0] = "wait", ![Command] = "add_philo"]
  BY DEF Launch, AtStep, Create, NotStarted
<1>2. /\ 0 \in Pids /\ Command \in Pids /\ Command # 0 /\ SchInv(sch) /\ sch.rsp[Command] = NULL
      /\ \A pid \in Pids : IsActive(sch, pid) <=> pid = 0
  BY <1>1, ConstantFacts DEF NotStarted, Free
<1>3. sch'.rsp = [sch.rsp EXCEPT ![Command] = Command] /\ sch.rsp \in [Pids -> Pids \cup {NULL}]
  BY <1>1, <1>2, CreatedInv DEF SchInv, SchStates
<1>4. pc'[0] = "wait" /\ pc'[Command] = "add_philo"
  BY <1>1, <1>2 DEF NotStarted
<1>5. \A pid \in Pids : IsActive(sch', pid) => pc'[pid] # "none"
  BY <1>2, <1>3, <1>4 DEF IsActive
<1>6. \A k \in Places : ~PhiloAdded(k)'
  BY <1>1, <1>4 DEF PhiloAdded, Places
<1>7. DOMAIN semaphores' = {}
  BY <1>1
<1> QED BY <1>4, <1>5, <1>6, <1>7 DEF Known

\* Without the command there is nobody to kill, nor anybody in a sem_wait.
LEMMA ClearedStays ==
  ASSUME Over, Cleared, PhiloNext
  PROVE  Cleared'
<1>1. /\ Command \in Pids \ {0} /\ SchInv(sch) /\ ~IsActive(sch, Command)
      /\ pc[0] # "launch" /\ \A pid \in Pids : waiting[pid] = NULL
  BY ConstantFacts DEF Over, Cleared
<1>2. CASE ShellStep
  BY <1>1, <1>2 DEF ShellStep, Launch, ShellWaits, ShellGoesOn, AtStep, vars, semVars, Cleared
<1>3. ~CtrlC /\ ~Continue
  BY <1>1 DEF CtrlC, Continue, ContinueWait, Resuming
<1>4. CASE TimerTick
  <2>1. SchInv(sch') /\ sch'.rsp = sch.rsp
    BY <1>1, <1>4, SwitchFacts DEF TimerTick, Tick
  <2> QED BY <1>4, <2>1 DEF TimerTick, Tick, semVars, IsActive, Cleared
<1> QED BY <1>2, <1>3, <1>4, StepsWhenOver

LEMMA DinnerStaysKnown ==
  ASSUME Dining, Known, DOMAIN philos = Places, PhiloNext, ~CtrlC, ~CommandReturns
  PROVE  Known'
<1>1. CASE ShellStep
  BY <1>1, ShellKeepsKnown
<1>2. CASE CommandStep
  <2>1. CASE \E pid \in Pids : AddPhilo(pid)
    BY <2>1, AddPhiloKeepsKnown
  <2>2. CASE StorePhilo \/ StoreFork \/ StoreBigFork
    BY <2>2, StoreKeepsKnown
  <2>3. CASE AddFork \/ OpenBigFork
    BY <2>3, OpenKeepsKnown
  <2>4. CASE WaitForPhilo \/ WaitedForPhilo
    BY <2>4, CommandWaitKeepsKnown
  <2> QED BY <1>2, <2>1, <2>2, <2>3, <2>4 DEF CommandStep
<1>3. CASE \E pid \in Pids : PhilosopherStep(pid)
  BY <1>3, PhilosopherKeepsKnown
<1>4. CASE Continue \/ TimerTick \/ \E pid \in Pids : Nap(pid)
  BY <1>4, OthersKeepKnown
<1> QED BY <1>1, <1>2, <1>3, <1>4 DEF PhiloNext

\* philos[] keeps its places.
LEMMA PhilosKept ==
  ASSUME DOMAIN philos = Places, PhiloNext
  PROVE  DOMAIN philos' = Places
<1>1. CASE CommandStep
  BY <1>1 DEF CommandStep, AddPhilo, StorePhilo, AddFork, StoreFork, OpenBigFork, OpenFork,
     StoreBigFork, WaitForPhilo, WaitedForPhilo, CommandReturns, KillCommand
<1>2. CASE ShellStep
  BY <1>2 DEF ShellStep, Launch, ShellWaits, ShellGoesOn
<1>3. CASE \E pid \in Pids : PhilosopherStep(pid)
  BY <1>3 DEF PhilosopherStep, StopThinking, PickUp, StopEating, PutDown, Leave, WaitFor, Return
<1>4. CASE (\E pid \in Pids : Nap(pid)) \/ Continue \/ TimerTick
  BY <1>4 DEF Nap, Continue, TimerTick, philoVars
<1>5. CASE CtrlC
  BY <1>5 DEF CtrlC, KillCommand
<1> QED BY <1>1, <1>2, <1>3, <1>4, <1>5 DEF PhiloNext

LEMMA TidyStep ==
  ASSUME ~AbortDuringSetup, TidyInv, PhiloNext
  PROVE  TidyInv'
<1>0. DOMAIN philos' = Places
  BY PhilosKept DEF TidyInv
<1>1. CASE NotStarted
  BY <1>0, <1>1, FirstStep, LaunchStartsDining, LaunchIsKnown DEF TidyInv
<1>2. CASE Dining /\ Known
  <2>1. CASE CtrlC \/ CommandReturns
    <3>1. PICK exits \in BOOLEAN : KillCommand(exits)
      BY <2>1 DEF CtrlC, CommandReturns
    <3>2. pc[Command] \in WaitSteps
      BY <2>1 DEF CtrlC, CommandReturns, AtStep, WaitSteps
    <3>3. Cleared'
      BY <1>2, <3>1, <3>2, KillCommandClears DEF TidyInv
    <3>4. Over'
      BY <1>2, <3>1, KillCommandEndsDining DEF Dining, StepsInOrder
    <3> QED BY <1>0, <3>3, <3>4 DEF TidyInv
  <2>2. CASE ~CtrlC /\ ~CommandReturns
    BY <1>0, <1>2, <2>2, DinnerGoesOn, DinnerStaysKnown DEF TidyInv
  <2> QED BY <2>1, <2>2
<1>3. CASE Over /\ Cleared
  BY <1>0, <1>3, StepFromOver, ClearedStays DEF TidyInv
<1> QED BY <1>1, <1>2, <1>3 DEF TidyInv

LEMMA TidyInvIsInvariant ==
  ASSUME ~AbortDuringSetup
  PROVE  PhiloSpec => []TidyInv
<1>1. PhiloInit => TidyInv
  <2>1. PhiloInit => DOMAIN philos = Places
    BY DEF PhiloInit
  <2> QED BY <2>1, InitNotStarted DEF TidyInv
<1>2. TidyInv /\ [PhiloNext]_diningVars => TidyInv'
  <2>1. ASSUME TidyInv, PhiloNext PROVE TidyInv'
    BY <2>1, TidyStep
  <2>2. ASSUME TidyInv, UNCHANGED diningVars PROVE TidyInv'
    <3>1. sch' = sch /\ UNCHANGED <<semVars, philoVars>> /\ philos' = philos
      BY <2>2 DEF diningVars, vars, philoVars
    <3>2. CASE Dining /\ Known
      <4>1. SchInv(sch') /\ sch'.rsp = sch.rsp /\ semaphores' = semaphores
        BY <3>1, <3>2 DEF Dining, semVars
      <4>2. Dining' /\ Known'
        BY <3>1, <3>2, <4>1, SwitchKeepsDining, SwitchKeepsKnown
      <4> QED BY <2>2, <3>1, <4>2 DEF TidyInv
    <3>3. CASE NotStarted \/ (Over /\ Cleared)
      BY <2>2, <3>1, <3>3 DEF semVars, philoVars, NotStarted, Over, Cleared, TidyInv
    <3> QED BY <2>2, <3>2, <3>3 DEF TidyInv
  <2> QED BY <2>1, <2>2
<1> QED BY <1>1, <1>2, PTL DEF PhiloSpec

LEMMA TidyInvClears == TidyInv => CanBeCalledAgain
<1>1. NotStarted => pc[0] = "launch"
  BY ConstantFacts DEF NotStarted
<1>2. Dining => IsActive(sch, Command)
  BY ConstantFacts, StepFacts DEF Dining, StepsInOrder
<1>3. Over /\ Cleared => CanBeCalledAgain
  BY DEF Cleared, CanBeCalledAgain
<1> QED BY <1>1, <1>2, <1>3 DEF TidyInv, CanBeCalledAgain

(* Once the command is over, by itself or by a Ctrl-C that found it waiting for
   its philosophers, every process but the shell is dead and no semaphore is left,
   however many philosophers there were and whatever they were doing
   (philosophers.c:101-105, 192-210, informe.md:216). *)
THEOREM PhilosophersCanBeCalledAgain ==
  ASSUME ~AbortDuringSetup
  PROVE  PhiloSpec => []CanBeCalledAgain
BY TidyInvIsInvariant, TidyInvClears, PTL
=============================================================================
