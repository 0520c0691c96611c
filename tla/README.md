# A specification of the kernel

This directory holds TLA+ modules that model the kernel of this repository, a
small 64-bit teaching kernel with preemptive processes, semaphores, pipes and
two memory managers, with some of the programs that come with it; the TLC runs
that check them on small instances; and proofs that hold for every size. Paths
below are relative to the repository.

## The system

### How it runs

One processor. Every gate of the interrupt table is an interrupt gate
(`Kernel/idt/idtLoader.c`), so system calls, exceptions and interrupt handlers
run with interrupts off. What a handler does is therefore atomic, up to the
points where it gives the processor away itself with `sch_yield` (int 81h). All
concurrency comes from there and from the timer, which interrupts user code and
the kernel's idle loop. A step of a model is a handler, or the part of one
between two such points.

One case makes this subtle: a process can be killed while it is the one running
(it kills itself, it faults, or Ctrl-C is typed). `proc_kill` frees its slot and
its stack, but the processor goes on executing its code until the next switch.
The models keep what the processor executes (`cpu`) apart from what the
scheduler believes (`current`).

### Components

| Part | State | Operations | What makes it correct |
| --- | --- | --- | --- |
| Scheduler, `Kernel/processes/scheduler.c` | per pid: status, priority, exit status, saved stack; current pid, forced pid, quantums | create, killed, block, unblock, priority, switch, yield | the context loaded belongs to the pid that is current; one process runs; no ready process is forgotten |
| Process table, `Kernel/processes/process.c` | per pid: stack, parent, children, waiters, descriptors, kill callback | `proc_create`, `proc_kill`, `proc_unblock_on_killed`, descriptors | the table and the scheduler agree; processes are a tree; a death kills the subtree and wakes the waiters |
| Queues, `Kernel/libc/queue.c` | list of pids | add, pop, remove, unblock one or all | order, no entry lost |
| System calls, `Kernel/idt/syscalls.c` | none | dispatch, `waitpid`, `exit`, `block`, pipe set-up | what a caller reads after a yield is still what it meant |
| Semaphores, `Kernel/ipc/semaphore.c` | per id: name, value, links, queue | open, close, wait, post | mutual exclusion; no wakeup is lost; freed by the last user only |
| Pipes, `Kernel/ipc/pipe.c` | ring buffer, readers, writers, two queues, table of descriptors | open, read, write, close, dup, unlink | bytes in order, none lost; end of file reaches readers; freed when unused |
| Keyboard, `Kernel/drivers/keyboard.c` | buffer, modifiers, readers' queue | key, read, Ctrl-C, Ctrl-D | keys in order; a reader wakes up |
| Clock, `Kernel/drivers/time.c` | ticks | tick, sleep | a sleeper returns |
| Free-list and buddy memory managers, `Kernel/drivers/` | list of free blocks; tree of blocks; counters | alloc, free, realloc | blocks are disjoint; what is freed can be allocated again |
| Shell and pipelines, `Userland/.../programs/commands.c` | the words of a line; pids and descriptors of two commands | read a line, create, redirect, wait | what one writes the other reads and makes of it what it should; the prompt comes back |
| Philosophers, `Userland/.../programs/philosophers.c` | forks, pids | dine, be killed | no neighbours eat at once; everyone eats; nothing is left behind |
| Tests, `Userland/.../tests/` | - | testsync, testproc, testmm, testpipe, testprio | they report no error and end |
| Screen, sound, clock chip, boot loader, tools | device registers | output, start-up | not modelled: no process waits for them |

They meet in the scheduler: whatever waits, waits by putting a pid in a queue,
`sch_block` and `sch_yield`, and is woken by somebody who takes the pid out of
the queue and calls `sch_unblock`. Nothing ties the two together: a queue keeps
the pid of a process that died, pids are reused at once (the first free slot),
and the `block` system call unblocks anybody. That is where the hard behaviour
is: stale pids in queues, wakeups that come early or go to nobody, deaths
between a wakeup and the return, descriptors that are closed while their owner
sleeps. `PROJECT.json` lists these hazards with their lines and with the
properties that cover them.

## Modules

| Module | Role |
| --- | --- |
| `SchedulerOps` | `scheduler.c` as operators on a record of its statics |
| `Scheduler` | the scheduler under its most general client |
| `KernelQueue` | waking a queue, over `SchedulerOps` |
| `Process` | process table and system calls on processes, over `SchedulerOps` |
| `ProcessForest` | what the process table promises: a tree, subtrees die at once |
| `TestProcesses` | `tests/test_processes.c` with a shell and Ctrl-C, over `Process` |
| `Semaphore` | `semaphore.c` and processes that use it and die, over `KernelQueue` |
| `TestSync` | `tests/test_sync.c`, over `Semaphore` |
| `Philosophers` | `programs/philosophers.c` with its kill callback, over `Semaphore` |
| `PipeBuffer` | the ring buffer of `pipe.c` as operators |
| `Pipe` | `pipe.c`, descriptors and the system calls on them, over `PipeBuffer` and `KernelQueue` |
| `Pipeline` | the shell's execution of a line, the commands in it, and `tests/test_pipes.c`, over `Pipe` |
| `Keyboard` | `keyboard.c` and its readers, over `KernelQueue` |
| `FreeList`, `Buddy` | the two memory managers as operators on their state |
| `Memory` | the heap and its system calls, with either manager |
| `Heap` | what a memory manager promises: blocks nobody else has |
| `TestMm` | `tests/test_mm.c`, over `Memory` |
| `MC...` | values of constants, bounds, views, symmetry for a run |
| `KernelLemmas` | lemmas on `SchedulerOps`, `KernelQueue`, sequences of pids and small sets |
| `KernelProofs` | theorems about `Scheduler` and `Memory` |
| `ProcessProofs` | theorems about `Process` and `TestProcesses` |
| `SemaphoreProofs` | theorems about `Semaphore` and `TestSync` |
| `PhilosophersProofs` | theorems about `Philosophers` |
| `KeyboardProofs`, `PipeProofs` | theorems about `Keyboard` and `Pipe` |
| `PipelineProofs` | theorems about `Pipeline`, over `PipeProofs` |

**SchedulerOps.** A saved stack pointer matters only for whose stack it points
into, so it is a pid, `KERNEL_PROC_PID`, or `NULL` (three negative numbers).
`sch_switch` is a relation `SchSwitch(s, t)`: the new context on the processor
is part of `t`. The circular search is stated by distance: the ready pid closest
after the current one.

**Scheduler.** One action for each kind of call that the kernel makes, in any
order: create, kill, exit, block and yield, the block call, a wakeup, priority,
yield, tick. It checks `scheduler.c` against every caller, present or future.

**Process.** `proc_kill` is recursive. `kills` is the stack of its calls;
each child killed, waiter woken and slot freed is a step of its own, so the
states half way are states of the model. `after` says whether the kernel yields
when the outermost call returns (exit, exception) or goes on (kill, Ctrl-C).
`waiting` is the kernel stack of a process inside `waitpid`; `gone` is history.
A fault of the shell kills it and creates a new one, but as the killed process,
which `proc_create` sends away: the model has no restart because the code has
none. Left out: names and arguments, and the value `waitpid` returns;
descriptors are in `Pipe`, kill callbacks in `Philosophers`. Ctrl-C may pick any
set of foreground processes.

**TestProcesses.** The three loops of the test, each call of which is an action
of `Process`; the guard of each comes from what the test believes. Ctrl-C kills
it at any moment. If it was running, it goes on as a killed process, whose calls
work, until it yields.

**Semaphore.** `semaphores` is a function on the ids that are in use. The spin
locks are omitted: they are taken and given back with interrupts off, and
`sem_wait` gives its lock back before it yields. Bytes wrap (`% UINT8`). The
queued pid is a byte: a killed caller, pid -2, queues 254, which wakes nobody.
The death of a process changes nothing in `semaphores`: its links stay
(`informe.md:207`), and the model counts them (`leaked`, once the slot is
reused). Clients close what they opened and use what they hold open, which is
what `test_sync.c` does; the philosophers share their parent's semaphores and
so use the operators below these guards (`Take`, `Sleep`, `Release`, `Closed`).

**TestSync.** Each line of a worker that touches shared state is a step, with
the timer between any two. Process 0 stands for the shell and `test_sync`, and
creates workers at any pace, so slots are reused while other workers run, and
the semaphore is destroyed and made anew in mid-program.

**Philosophers.** The command can lose the processor between the return of a
system call and the store of what it returned. `KillCommand` is `proc_kill` of the
command: the kill callback closes and kills what the two arrays hold, then the
children that are left die and the shell is woken. One assumption is about time,
which TLA+ does not see: a philosopher thinks for two seconds, and the model lets
nobody stop before the command is done with its preparations (otherwise
philosophers use `forks[]` entries that are not there yet). The second
assumption is a constant: with `AbortDuringSetup = FALSE` Ctrl-C comes only after
the preparations. With `TRUE`, TLC finds `CanBeCalledAgain` violated: entries of
`philos[]` that are not filled in yet are zero, and the callback kills the shell.

**PipeBuffer, Pipe.** A pipe is a record with the ring buffer as the code has it,
unused bytes included. A system call that sleeps leaves what it will go on with
in `waiting`. Closing can sleep too, in the middle, because the mark for the end of
the file is written by the same function that blocks writers, and `proc_kill`
closes all descriptors; so `closing` says how far the kernel is, one step at a
time. Two things the code does are in the model as they are: the mark goes into
pipe 0 (its descriptor is already gone when it is looked up, and address 0 holds
the interrupt table, which reads as pipe 0), and a pipe is freed only if the byte
before `read_idx` is the mark. Where a pointer to a freed pipe would be used, the
model stops describing (`stray`): the read is of memory somebody else may have.
So it does when a process dies that is in the middle of a close, or that another
process is in the middle of closing for: half of the close is then never done, and
the counts are off. That takes three processes. Buffers are powers of two up to
`BUFFER_MAX_SIZE`, which is one itself, as in the code (4096).

**Pipeline.** Two programs in one module, chosen in the initial state: what the
shell does with a line, and `testpipe`. The shell reads the words of a line,
which say whether it is refused, runs in the background, alone, or as a pipeline.
The second command of a pipeline is `cat`, `wc` or `filter`; each is the loop of `fgets`
over bytes of the pipe and what it does with a line. `help` stands for commands that
only write. Two things in it are the code's, not the model's: when nothing follows
the bar, the second command is whatever `args[]` still points to (`Leftovers`), with
an argument count of less than none; and a second command with a wrong count returns
without a look at its input. If it is dead before the shell opens the pipe for it, `pipe_open`
fails after it has found the pipe and frees it, although the first command may sleep in it.
The processes run at every relative speed. What the first command writes before
the shell redirects it goes to the screen, and what the second reads before comes
from the keyboard.

**Keyboard.** A key is one step: modifiers, Ctrl-C and Ctrl-D included.
`waitpid` is there because it sleeps on the same scheduler without looking again
when it wakes up. `accepted` and `taken` are history.

**FreeList, Buddy, Memory, Heap.** Free-list blocks have their real header
size and alignment; the state is the list of free blocks and the set of
allocated ones, by address, and the counters. The buddy tree is a function from
nodes to their two bits and count. `Memory` has one of the two managers, chosen
in the initial state, and remembers what clients have. `Heap` is the abstract
specification; both managers implement it, each with its own sizes.

**TestMm.** One round of the test. Contents are kept by address, so an overlap
of two blocks shows as the test sees it.

## Runs

Every property has, in a module it depends on, a mutant: the same operator with a
plausible bug (commented "Mutant"), under which TLC finds the property violated.

| Run | Instance | Properties |
| --- | --- | --- |
| `scheduler` | 3 slots, priorities -1..1 and an invalid one | `TypeOK`, `CpuRunsCurrent`, `RunningIsCurrent`, `YieldHandsOver`, `IdleOnlyWithoutWork`, `StarvationFree` |
| `process_tables` | 3 slots, everything allowed | `TypeOK`, `TablesAgree`, `ChildrenMatchParents` |
| `process_tree` | 4 slots, memory suffices, no block call, waits on children | `EverythingDescendsFromShell`, `NoLostWakeup`, `ImplementsForest`, `WaitpidReturnsAfterExit` |
| `test_processes` | `max_processes` = 3, and as many slots as that needs | `RecordsAreTrue`, `NeverAnError`, `PromptComesBack` |
| `semaphore` | 4 processes, 1 semaphore, 2 names, bytes of 4 values, failing allocation | `TypeOK`, `LinksCounted`, `HeldSemaphoreExists`, `NoLostWakeup` |
| `test_sync` | 3 worker slots, 2 pairs, 2 rounds, 2 semaphores | `MutualExclusion`, `NoLostUpdate`, `FinalValueIsZero` |
| `pipe` | 2 processes, 1 pipe of at most 2 bytes, 5 descriptors, messages of 1 and 3 bytes | `TypeOK`, `EndsCounted`, `NoLostWakeup` |
| `pipeline` | 3 processes, 2 pipes of at most 4 bytes, 14 lines typed, 3 writes of 2, 1 and 3 bytes, a line buffer of one byte and a zero | `PipedInOrder`, `EndIsAfterAll`, `OutputIsRight`, `PromptReturns` |
| `philosophers` | 3 philosophers, 4 semaphores, shell and command | `NeighboursDontEat`, `CanBeCalledAgain`, `EveryoneEats` |
| `keyboard` | 2 processes, 2 letters, 3 keys, a buffer of 2 | `TypeOK`, `KeysInOrder`, `NoLostWakeup`, `KeyIsRead` |
| `memory` | 160 bytes for the free list, 8 blocks of 8 for the buddy system, 4 sizes | `ListKept`, `BuddyKept`, `ImplementsHeap` |
| `test_mm_buddy` | 4 blocks of 4, up to 3 requests of 12 bytes in all | `NoTestMmError`, which is violated |

What they show:

* The scheduler never resumes a process on a stack that is not its own, under
  any order of calls, killed runners included; whichever call or interrupt leaves the processor to the
  idle loop, nobody is ready.
  `StarvationFree` needs both its premises. Each death of the running process
  and each forced switch moves the start of the circular search, and without an
  end to them a ready process can be passed over for ever.
* Processes stay a tree under the shell, and each kill removes exactly one
  subtree, as the abstract `ProcessForest` says. A process counts as gone from
  the moment the kill that will reach it starts, which is when interrupts go off.
* `waitpid` on a child comes back only after its death, although queues hold
  stale pids. With waits on strangers (`WaitOnlyChildren = FALSE`) this fails:
  pid 2 waits for 1 and is killed, a new process gets pid 2 and waits for
  another, 1 dies, and the new pid 2 comes back. The shell and the tests wait
  only for their own children, and those die with them.
* `NoLostWakeup` of `Process` needs memory: `process.c:169` ignores that
  `queue_add` may fail, and the caller then blocks for ever.
* `testproc` never fails although there is not one slot to spare, and whatever
  moment Ctrl-C ends it at, its processes are gone when it is started again. A
  Ctrl-C while it runs makes its own calls fail, but it is dead by then.
* A semaphore exists exactly as long as it has links. No post leaves a sleeper
  behind, unless a process died inside `sem_wait` or could not be queued
  (`stray`): the post that takes a dead process from the queue wakes nobody,
  and a live one behind it sleeps on beside a value that is not zero.
* `testsync` ends with zero: mutual exclusion holds with woken processes that
  find the value taken, and with semaphores destroyed and remade.
* Philosophers who share a fork never eat at once, all of them eat, and the
  command leaves no process and no semaphore, whether it ends or is killed.
* The ends of a pipe stay counted through every order of open, dup, close and
  death, and a sleeper in `read` or `write` is in a queue that will be woken.
  The exception has a name, `BlockedByAClose`: closing the last writer of a full
  pipe blocks the process whose descriptor it is, in whatever call that is.
* In a pipeline, bytes come in order, and the end after all of them, and the second
  command shows each line of what it has read once, an unfinished last one
  included. The prompt returns but for two races, and when nobody reads
  (`NobodyReads`), all of which the property names. `MarkDidNotFit`: the pipe
  is full when its last writer goes, so the mark is not written. `WasTooEarly`:
  the second command reads the keyboard before it is redirected, or the first is
  dead before the second is created and both have one pid.
* Keys in the keyboard's buffer are neither lost nor read twice, and a reader
  sleeps only when there are none.
* Both memory managers keep their structure under every sequence of calls, and
  never hand out a byte twice. For the free list that is in the sizes asked for.
  For the buddy system it is in the sizes of its levels, which may be smaller:
  `test_mm_buddy` shows what comes of it.

### A finding

`get_level` (`Kernel/drivers/buddyMemoryManager.c:86-96`) halves `size - 1` with
truncation until it is at most `MIN_BLOCK`, so a request for `MIN_BLOCK + 1`
bytes, for one, gets a block of `MIN_BLOCK`. With `USE_BUDDY`, two blocks that
`testmm` holds overlap, and the test reports `test_mm ERROR`
(`tests/test_mm.c:58-59`). The run `test_mm_buddy` ends in that state. The free
list, which `Kernel/Makefile.inc` selects, does not have this.

### Bounds

* *Slots*: the real table has many more. Four give a shell, its child, a
  grandchild and a bystander, or two processes in a queue with one that runs and
  one that dies; reuse of a slot needs only two. The theorems cover any size.
* *Priorities*: one realtime, the default and the lowest (no quantums) cover
  every branch on priorities; an invalid value covers the default. The modules
  above the scheduler have two priorities: they change none.
* `MAX_WAITERS` = 1: a waiter, and stale entries, one at a time. The order of
  wakeups does not matter as all are woken.
* `UINT8` = 4 makes the value of a semaphore wrap. `MAX_LINKS` = 3 < `UINT8`
  keeps links from wrapping: after as many unclosed opens as a byte has values a
  close would free the semaphore under its users, and `HeldSemaphoreExists` fails.
* `MAX_SEMAPHORES` = 1 in `semaphore`, 2 in `test_sync`. One slot and two names
  exercise reuse and exhaustion; two semaphores with two links each also passed.
* `pipe`: two processes suffice for a reader and a writer that close, open and
  kill for each other; a buffer that grows from nothing to one byte and to two,
  with a message that fits and one that does not, covers growth, wrap and partial
  writes. `Modelled` in `MCPipe` stops the search where the code is undefined
  (`stray`), when the shell is dead, beyond four descriptors of pipes, and at
  queues longer than the number of processes (a process that tries in vain to
  leave its mark enters it again at every attempt).
* `pipeline`: the first read of `fgets` asks for one byte, `testpipe` for more than there
  are (`Counts`). In a buffer of four, the second line can wrap and the third makes it
  grow with bytes in it, and does not always fit. The lines typed are one for each way
  a line is taken. `Modelled` in `MCPipeline` bounds queues as above, and stops the
  search when nobody reads and the pipe was freed under its writer.
* `philosophers`: three, at a table where everyone is everyone's neighbour, and
  one place more in `forks[]` than is used, as in the program.
* `keyboard`: `MAX_PRESSED` = 3 fills a buffer of two and drops a key, or is
  Ctrl, a letter and one more.
* `memory`: 160 bytes have room for five of the smallest blocks, enough for a
  block between two free ones and others beside them. Eight buddy blocks have
  pointers whose alignment is not their level. The sizes 1, 9, 17, 40 need one
  unit, just more than one, and several.
* `test_processes`: three processes to kill, block and leave alone at once.
* Views leave out the exit statuses, which no guard reads; `gone` where no
  property mentions it; and bytes of a pipe that were already read, but for the
  mark. Names of semaphores are symmetric in `semaphore`. One run checks liveness
  with a view, `keyboard`: its view leaves out the exit statuses only, no action
  reads them, and none is enabled or leads elsewhere because of them. No other
  run with a view, symmetry or a constraint
  checks liveness but `pipeline`; its `Modelled` cuts only behaviours in
  `MarkDidNotFit` or `NobodyReads`, where `PromptReturns` already holds.
* Deadlock is checked but in three runs. In `pipe` the kernel does not survive
  the mark of the end of a file when there is no pipe 0. In `keyboard` a
  process waits for the other while that waits for a key, and after the last key
  nothing may happen but ticks, which do not change the state. `test_mm_buddy`
  ends. Everywhere else the kernel's idle loop can always be interrupted.

### Fairness

* `Scheduler`: weak fairness of the tick alone. The timer is periodic and every
  handler ends with interrupts on again. Nothing else is assumed of processes.
* In all others, besides: a handler that was started, or got the processor back,
  goes on (weak: interrupts are off, nothing else can happen); and a process
  that is dispatched again and again takes its next step (strong: it is preempted
  by every tick, but runs many instructions between two).
* `TestProcesses` assumes the latter of the shell only: the test may do nothing.
  `Philosophers` assumes besides that a nap ends, which the ticks it counts do.
* `Keyboard` assumes nothing of processes, and nobody has to press a key. Nobody
  has to press Ctrl-C in any module. No fairness of semaphores or pipes is assumed.

## Proofs

All are for every size of the table and any scale of priorities, under
the named assumptions of the modules.

* `KernelProofs`, on `Scheduler`: `SchedulerTypeOK`, `SchedulerCpuRunsCurrent`,
  `SchedulerRunningIsCurrent`, `SchedulerYieldHandsOver`,
  `SchedulerIdleOnlyWithoutWork`. The inductive invariant is
  `SchInv(s)`: types, `ContextsKept` and `OnlyCurrentRuns`. None is inductive
  alone: that the stack loaded is not null needs that a ready process has a
  context, and that a status saved is right needs that only the current process
  is RUNNING. The proof is a lemma for each operator of `SchedulerOps`,
  which all the other proofs use again.
* `ProcessProofs`: `ProcessTypeOK`, `ProcessTablesAgree`,
  `ProcessChildrenMatchParents`, `ProcessEverythingDescendsFromShell`. The
  invariant adds to `SchInv` and types a description of the tree: slots
  (who has a context), queues (each live child is once in its parent's queue,
  unless it is being killed), the path (each process on the stack of kills is the
  parent of the next), descent from the shell, and a rank. The
  rank, a number that grows from parent to child, is what makes descent from the
  shell inductive: that every live process has a live parent does not exclude
  cycles. It exists but is no variable of the program, so each step picks
  one and shows that it still serves, or raises it for the new process.
  `ProcessImplementsForest` is the refinement: the doomed are the least set of live
  processes that holds the stack of kills and is closed under children
  (`DoomedIsLeast`), so going down to a child or freeing a slot leaves the
  survivors as they are, and only the call from outside is a step of `ProcessForest`.
  `ProcessNoLostWakeup` and `ProcessWaitpidReturnsAfterExit` are
  both for processes that do not use the block call, the first for memory that does
  not run out, the second for processes that wait for their own children. To the
  invariant `WaitInv` adds that the running process is awake; that
  who sleeps is in the queue of a process that is not freed yet; that who is inside
  waitpid sleeps until its target is among those proc_kill is at work on, or is gone;
  and that only the parent is ever in a queue. Without the last part a pid
  left in a queue could wake a later owner of the slot too early.
* `KernelLemmas`: every operator of `SchedulerOps` keeps `SchInv`, and which
  processes are blocked after it, and after a whole queue is woken; what append,
  tail, front and removal do to a queue without repetition. `NaturalInduction` is the one
  induction the proofs need: a set that holds 0 and with each number the next.
* `SemaphoreProofs`: `SemaphoreTypeOK`, `SemaphoreLinksCounted`,
  `SemaphoreHeldSemaphoreExists` follow from `IInv`: `SchInv`, types, `Counted`
  and `Held`. `Counted` bounds the links below the width of a byte and says that
  a free id has no `leaked` links, without which the count of a new semaphore
  would start wrong. `Held` adds that who waits is alive: so the slot of a dead
  process, whose links pass to `leaked`, is no waiter's. `SemaphoreNoLostWakeup`
  needs more: that the queue of a semaphore is exactly who is blocked in it,
  each once, and that who runs is not blocked (`QueuesAreSleepers`). A post then
  adds one to the value and moves one process from the queue to the woken ones,
  and a woken process that takes is counted off both sides.
* `SemaphoreProofs`, on `TestSync`: `TestSyncWorkerTypeOK` (no run checks types of workers
  alone), `TestSyncMutualExclusion`, `TestSyncNoLostUpdate`, over `IInv`. That workers exclude each other is not
  inductive: `ValueInv` says that there is one semaphore at most and that its
  value is 1 only while nobody is inside, and `WorkerInv` that a worker inside
  holds it. So a semaphore made anew, with a value of 1, finds nobody
  inside. It needs that 1 is an initial value and that the name is one.
* `ProcessProofs`, on `TestProcesses`: `TestProcessesRecordsAreTrue`, `TestProcessesNeverAnError`, for
  every number of processes that the test is told to make, when the table has two
  slots more and the priorities it asks for are valid arguments. Every step of the test is a
  step of `Process` (`TestStepIsStep`), so `IInv` holds. Above
  it, `Family` says who there is: the shell, the test, and children of the test, and
  that only the shell ever waits. While the test is alive `Records` holds: an entry for
  each child and a child for each entry, no two alike, blocked or not as the scheduler has
  it, as many as `alive` says, and in the first loop only entries already
  passed. So a create finds a slot: the entries below `rq` are fewer than the
  slots beside the shell's and the test's. None of it holds once the test
  is killed, and its code goes on: what is kept then is that what it calls is
  done to no process but former children, and that its errors are not counted.
* `PhilosophersProofs`: `PhilosophersNeighboursDontEat`, for any number of philosophers
  from two on and whether or not Ctrl-C may come during the preparations. The
  invariant has three phases: `NotStarted`, `Dining`, `Over`. In `Dining` nobody is
  at the table before all forks are laid (`StepsInOrder`, from the two seconds
  of thinking that the model takes for granted); each fork laid is a semaphore with
  that fork's name (`ForksLaid`), so that no two are the same; who sleeps in
  `sem_wait` wants the fork of its step (`WaitsForIts`); and the semaphore of a
  fork is 1 on the table or 0 in one hand (`OneOfEachFork`), where a hand holds a fork
  from the return of `sem_wait` to the call of `sem_post`. Nothing of the
  queues is needed: a woken philosopher looks at the value again. Nor is the big
  fork: it keeps the dinner alive, not the neighbours apart. After a kill or Ctrl-C nobody is at the table,
  so for this theorem what the fold over the victims leaves need not be known.
* `PhilosophersProofs` again: `PhilosophersCanBeCalledAgain`, when Ctrl-C comes only after the
  preparations (`~AbortDuringSetup`; otherwise it is false). The kill callback only reaches what `philos[]` and `forks[]`
  name. So while the command runs, `Known` says that every active process is the shell, the
  command, or one that has not left; that the pids stored are philosophers', never the
  shell's; and that every semaphore has exactly one link, and its id is in `forks[]`, in
  `sem_big_fork`, or still the unstored result of `sem_open`. The last needs the names:
  `sem_open` would link a second time a semaphore whose name is already there.
  `Cleared` is what `KillCommand` then leaves (`KillCommandClears`), and keeps. Its two folds,
  over a set of victims and over the ids to close, are taken apart by induction on the number of
  members: the set of sizes for which the function the library chooses exists holds 0
  and with each number the next (`NaturalInduction`), then the same for what that function
  gives (`KilledAll`, `ClosedAll`).
* `KernelProofs`, on `Memory`: `MemoryListKept` and `MemoryImplementsListHeap`, for a heap of
  any place and size with room for two headers, and any sizes asked for. `ListWellFormed`
  speaks of what a walk along `next` meets, and a step changes the whole walk. The inductive
  invariant `ListInv` speaks of one header at a time: `Tiled`, each block ends where
  another begins and none is inside it; `Linked`, the `next` of a free block is the free one after it, and
  does not begin where it ends; `Aligned`; `Counted`. That the walk then passes all free
  blocks in order is by induction from the end of the heap (`WalkExists`, `FreeNodesFacts`).
  `insert_block` is proved once (`InsertedTiles`, `InsertedLinks`), for the four cases of merging backward and
  forward, and used by `mm_free` and by the split in `mm_alloc`, where
  the heap in between, block unlinked and rest not yet inserted, is `Tiled` and `Linked` too (`SplitTo`).
  `Counted` needs that a sum over a set does not depend on the order in which its members are
  taken (`SumsInAnyOrder`), by induction on their number. `Clients` says that the pointers
  handed out are those of the allocated blocks, with room for header and request, so no two
  clients' bytes meet (`ClientsAreApart`), and each call is a step of `Heap`.
* `KernelProofs`, on `Memory` again: `MemoryBuddyKept`, `MemoryImplementsBuddyHeap` and, from both
  managers' halves, `MemoryImplementsHeap`, for a tree of any depth, any `MIN_BLOCK` and any sizes asked for. The
  code has 16 levels of 256 bytes and up, where an `int` holds every index and offset; the model
  computes with integers, so the theorems say nothing of a tree too deep for that. The library
  has no fact about exponents but that a set of n members has 2 ^ n subsets: `PowerDoubles` and all
  the other laws of powers used come from it by induction. With them, dividing twice is dividing
  by the product (`DividedTwice`), so going up k levels from the node of an address leads to
  the node of the same address at a level k higher (`ParentsFacts`, `AncestorsOfNode`). The
  inductive invariant `BuddyInv` is `TreeWellFormed` with what it needs of
  the blocks (`Placed`): each begins at a multiple of its size, and no block's node
  is above another's, or two would share bytes (`PlacedAreApart`). A node that
  is neither `used` nor has `used_subnodes` has no block on it, above or below
  (`FreeNode`), so `mm_alloc` keeps `Placed`. The way down from the
  alignment of a pointer passes no used node before its block's, since that would be of a
  block above it (`SearchFinds`), so `mm_free` takes back what `mm_alloc` gave.
* `KeyboardProofs`: `KeyboardTypeOK`, `KeyboardKeysInOrder`,
  `KeyboardNoLostWakeup`, for any buffer, any letters and any number of keys. To `SchInv` and types the
  invariant adds that only live processes wait (`OnlyLiveWait`), so the owner of a
  new slot starts awake, and that a reader that sleeps is in the queue and the buffer
  is empty (`ReadersQueued`): each key empties the queue. What else can be in the
  queue is of no harm.
* `PipeProofs`: `PipeTypeOK`, `PipeEndsCounted`, `PipeNoLostWakeup`,
  `PipeBytesStayInOrder`, each until `stray`. The invariant is `Good`, in parts. That the counts are right is
  not inductive: a close takes the descriptor away first, then the entry in the
  table with its count, then the mark is written, and in between it may sleep. So
  `Mapped`, `ClosingInv` and `WaitingCloses` say how far every close is, the one in
  progress and those asleep, and that no two are of one descriptor; `Counted` is
  then about the entries alone, and `Unique` and `Slots` that an entry belongs
  to one descriptor of one live process. A count does not wrap, because all
  descriptors of all processes together are fewer than its width
  (`PipeAssumption`). For the wakeups `Sleepers` says that who sleeps in `read` or
  `write` is in its pipe's queue, or (`BlockedForMark`) was blocked by a close of
  one of its descriptors, which put it into the queue of pipe 0. That the bytes
  stay in order rests on three lemmas about the circular buffer, for every size
  and every place of `read_idx`: reading takes `Contents` from the front
  (`ReadTakesTheFront`), a bigger buffer has the same `Contents`
  (`GrowKeepsContents`), writing adds to their end what fits (`WriteAppends`).
* `PipelineProofs`: `PipelinePipedInOrder`, `PipelineEndIsAfterAll`, for the shell's
  pipelines and for `testpipe`, any text that has no mark of the end in it and is not
  empty, and any number of processes, pipes and descriptors. Neither is inductive: that
  bytes come out in order says nothing of those in the pipe. `Flow` says where all
  are: what was received, then `Contents` of the pipe, then what the writer sleeps with
  in `write` (`Pending`), is what was sent, and after it the marks; and there is a mark
  only when the writer is done. That this is so is the rest of the invariant. `Roles`,
  `InCalls` and `Running` say how far the shell and the two commands are and in which
  call they may be asleep. `Redirected` and `WriterHasEnd` say who holds which end at each
  step of open, dup, close, close: while the pipe is there and the writer not done it has the writing end,
  under its own number or already as its output, so a close of the shell, which comes
  after the dup, is not of the last one. `OwnCloses` says whose closes are in progress: until the
  writer is done only the shell's. It stands on `Good` of `PipeProofs`, which holds until a pipe
  is freed under its users. In these programs that happens only when `pipe_open` fails for a
  command that is dead already, and then nothing will be read any more; so
  the invariant is that all this holds, or `Frozen`: what was received is right, and
  nobody is left who could receive more.

Only model-checked:

* Liveness under fairness, which the prover does not handle.
* `OutputIsRight`, the lines that a command makes of what it reads: it compares what was
  printed with a text that is split at its newlines, filtered and joined by functions which are
  recursive or choose, each of which would need an induction of its own.

## Not modelled

* *testprio* leaves the judgement to who watches the screen; its calls are those of
  `Process`, in one fixed order.
* *Screen, sound, clock chip, boot loader, tools*: output, device registers and
  code that does not run beside the kernel. No process waits for them.
* *Splitting a line into words*, and conversions of numbers to text: functions
  that a test can call one at a time; a hazard in them is listed. The other
  commands write something and return, or call what the tests call.
* *What one `putchar` writes*: it hands `fputs` a character that no zero follows
  (`Userland/SampleCodeModule/libc/stdio.c:70-74`); `Pipeline` has the one byte. Nor are the
  backspaces and negative characters of `fgets` (`stdio.c:18-30`) in `Pipeline`: no message of
  its runs has any.
* *Memory that runs out inside `pipe.c`*: the code writes through the null pointer.
* *Output on the screen*, and so the echo of the keyboard.

## Plan

Done: the scheduler, processes, semaphores, pipes, the keyboard, memory, and
the programs over them, and the proofs above. Left:

* Descriptors and kill callbacks as part of `Process`, instead of in modules of
  their own, if the states of one run allow.
