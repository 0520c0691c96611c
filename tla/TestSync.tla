------------------------------- MODULE TestSync -------------------------------
(***************************************************************************)
(* testsync with its semaphore (tests/test_sync.c): workers that add to    *)
(* and subtract from one variable, each inside sem_wait and sem_post, over *)
(* the real semaphore and scheduler.                                       *)
(*                                                                         *)
(* Process 0 stands for the shell and test_sync itself: it creates the     *)
(* workers, one by one, and then runs and loses the processor like anybody *)
(* else.  It may be so slow that a worker gets the slot of one that is     *)
(* done.  A worker is preempted between any two of its steps.  Nobody is   *)
(* killed and memory does not run out.                                     *)
(***************************************************************************)
EXTENDS Semaphore

CONSTANTS
  N,                    \* times each worker changes the variable
  TOTAL_PAIR_PROCESSES  \* pairs of workers, one that subtracts and one that adds

ASSUME TestSyncAssumption ==
  /\ {N, TOTAL_PAIR_PROCESSES} \subseteq Nat \ {0}
  /\ Names # {} /\ 1 \in InitialValues

\* The semaphore the workers open, SEM_ID.
SEM_ID == CHOOSE name \in Names : TRUE

Workers == Pids \ {0}

VARIABLES
  pc,       \* the next thing a worker does
  inc,      \* what it adds to the variable, 1 when there is no worker
  left,     \* how often it still has to
  aux,      \* slow_inc's copy of the variable, while it has one
  global,   \* the variable
  created,  \* workers created so far
  applied   \* history: the sum of what workers have added

workerVars == <<pc, inc, left, aux, global, created, applied>>
syncVars == <<vars, workerVars>>

WorkerTypeOK ==
  /\ pc \in [Workers -> {"none", "sem_open", "sem_wait", "read", "yield", "write",
                         "sem_post", "sem_close", "exit"}]
  /\ inc \in [Workers -> {-1, 1}]
  /\ left \in [Workers -> 0 .. N]
  /\ aux \in [Workers -> Int]
  /\ global \in Int /\ applied \in Int
  /\ created \in 0 .. 2 * TOTAL_PAIR_PROCESSES

SyncInit ==
  /\ Init
  /\ pc = [w \in Workers |-> "none"]
  /\ inc = [w \in Workers |-> 1]
  /\ left = [w \in Workers |-> 0]
  /\ aux = [w \in Workers |-> 0]
  /\ global = 0 /\ created = 0 /\ applied = 0

AtStep(w, step) == sch.current = w /\ pc[w] = step

Goto(w, step) == pc' = [pc EXCEPT ![w] = step]

\* Of each pair the one that subtracts comes first.
CreateWorker(w) ==
  /\ sch.current = 0 /\ created < 2 * TOTAL_PAIR_PROCESSES
  /\ Create(w)
  /\ inc' = [inc EXCEPT ![w] = IF created % 2 = 0 THEN -1 ELSE 1]
  /\ left' = [left EXCEPT ![w] = N]
  /\ created' = created + 1
  /\ Goto(w, "sem_open")
  /\ UNCHANGED <<aux, global, applied>>

Open(w) ==
  /\ AtStep(w, "sem_open") /\ SemOpen(SEM_ID, 1)
  /\ Goto(w, "sem_wait")
  /\ UNCHANGED <<inc, left, aux, global, created, applied>>

\* The worker reads the variable when the call returns.
Wait(w) ==
  /\ AtStep(w, "sem_wait")
  /\ \E sem \in links[w] : SemWait(sem)
  /\ Goto(w, "read")
  /\ UNCHANGED <<inc, left, aux, global, created, applied>>

Read(w) ==
  /\ AtStep(w, "read") /\ SystemCall
  /\ aux' = [aux EXCEPT ![w] = global]
  /\ Goto(w, "yield")
  /\ UNCHANGED <<vars, inc, left, global, created, applied>>

YieldInside(w) ==
  /\ AtStep(w, "yield") /\ Yield
  /\ Goto(w, "write")
  /\ UNCHANGED <<inc, left, aux, global, created, applied>>

Write(w) ==
  /\ AtStep(w, "write") /\ SystemCall
  /\ global' = aux[w] + inc[w]
  /\ applied' = applied + inc[w]
  /\ left' = [left EXCEPT ![w] = @ - 1]
  /\ aux' = [aux EXCEPT ![w] = 0]
  /\ Goto(w, "sem_post")
  /\ UNCHANGED <<vars, inc, created>>

Post(w) ==
  /\ AtStep(w, "sem_post")
  /\ \E sem \in links[w] : SemPost(sem)
  /\ Goto(w, IF left[w] > 0 THEN "sem_wait" ELSE "sem_close")
  /\ UNCHANGED <<inc, left, aux, global, created, applied>>

Close(w) ==
  /\ AtStep(w, "sem_close")
  /\ \E sem \in links[w] : SemClose(sem)
  /\ Goto(w, "exit")
  /\ UNCHANGED <<inc, left, aux, global, created, applied>>

Return(w) ==
  /\ AtStep(w, "exit") /\ Exit(0)
  /\ inc' = [inc EXCEPT ![w] = 1]
  /\ Goto(w, "none")
  /\ UNCHANGED <<left, aux, global, created, applied>>

Step(w) ==
  \/ Open(w) \/ Wait(w) \/ Read(w) \/ YieldInside(w) \/ Write(w) \/ Post(w)
  \/ Close(w) \/ Return(w)

Continue == ContinueWait /\ UNCHANGED workerVars
TimerTick == Tick /\ UNCHANGED workerVars

SyncNext ==
  \/ \E w \in Workers : CreateWorker(w)
  \/ \E w \in Workers : Step(w)
  \/ Continue
  \/ TimerTick

SyncSpec == SyncInit /\ [][SyncNext]_syncVars

\* The timer keeps interrupting, a process that is given the processor again and
\* again gets something done, and a system call goes on where it stopped.
FairSyncSpec ==
  /\ SyncSpec
  /\ WF_syncVars(TimerTick) /\ WF_syncVars(Continue)
  /\ SF_syncVars(\E w \in Workers : CreateWorker(w))
  /\ \A w \in Workers : SF_syncVars(Step(w))

----------------------------------------------------------------------------

\* w is between the return of sem_wait and its call of sem_post.
Critical(w) == pc[w] \in {"read", "yield", "write", "sem_post"} /\ waiting[w] = NULL

(* One worker at a time is between sem_wait and sem_post, although workers open
   and close the semaphore all along: the last to close destroys it and a later
   one makes it anew, with a value of its own. *)
MutualExclusion ==
  \A v, w \in Workers : Critical(v) /\ Critical(w) => v = w

(* No update is lost, in spite of the yield between the read and the write that
   "makes the race condition highly probable" (test_sync.c:20). *)
NoLostUpdate == global = applied

(* All workers finish and the final value is zero: nobody is left in the queue,
   even though a woken worker may find the value taken again and has to queue
   anew (semaphore.c:93-100). *)
FinalValueIsZero ==
  <>(/\ created = 2 * TOTAL_PAIR_PROCESSES
     /\ \A w \in Workers : pc[w] = "none"
     /\ global = 0)
=============================================================================
