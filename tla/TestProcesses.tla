----------------------------- MODULE TestProcesses -----------------------------
(***************************************************************************)
(* testproc (tests/test_processes.c) over the process table and the        *)
(* scheduler: it creates processes, kills, blocks and unblocks them as     *)
(* chance has it, and starts again once all are dead, for ever.            *)
(*                                                                         *)
(* Process 0 is the shell, which runs it in the foreground again and       *)
(* again; process 1, the first free slot, is the test.  Ctrl-C may end it  *)
(* at any moment.  If it was running, its code goes on until the next      *)
(* switch, as a killed process.  What it creates (endless_loop) does       *)
(* nothing.  Storing what a system call returned is part of the call.      *)
(***************************************************************************)
EXTENDS Process

CONSTANT max_processes  \* the argument of testproc

\* There are just enough slots, and processes get these priorities.
ASSUME TestProcessesAssumption ==
  /\ max_processes \in Nat \ {0} /\ MAX_PROCESSES = max_processes + 2
  /\ {0, DEFAULT_PRIORITY} \subseteq AskedPriorities

Shell == 0
Test == 1

VARIABLES
  shell,   \* what the shell does next
  step,    \* which loop the test is in
  rq,      \* its loop variable
  p_rqs,   \* the processes it made and what it believes of them
  alive,   \* how many it believes to be alive
  error    \* history: it reported an error without having been killed

testVars == <<shell, step, rq, p_rqs, alive, error>>
allVars == <<vars, testVars>>

Requests == 0 .. max_processes - 1

\* Nothing reads an entry before the test has written it.
NoProcesses == [k \in Requests |-> [pid |-> 0, state |-> "KILLED"]]

TestInit ==
  /\ Init
  /\ shell = "launch" /\ step = "none" /\ rq = 0
  /\ p_rqs = NoProcesses
  /\ alive = 0 /\ error = FALSE

----------------------------------------------------------------------------
(* The shell *)

Launch ==
  /\ sch.current = Shell /\ shell = "launch"
  /\ Create(Test, DEFAULT_PRIORITY)
  /\ shell' = "wait" /\ step' = "create" /\ rq' = 0 /\ p_rqs' = NoProcesses /\ alive' = 0
  /\ UNCHANGED error

WaitForTest ==
  /\ sch.current = Shell /\ shell = "wait"
  /\ \/ Waitpid(Test) /\ shell' = "waiting"
     \/ SystemCall /\ ~live[Test] /\ shell' = "launch" /\ UNCHANGED vars
  /\ UNCHANGED <<step, rq, p_rqs, alive, error>>

TestIsOver ==
  /\ sch.current = Shell /\ shell = "waiting"
  /\ ReturnFromWaitpid
  /\ shell' = "launch"
  /\ UNCHANGED <<step, rq, p_rqs, alive, error>>

----------------------------------------------------------------------------
(* The test.  Its code runs while the processor is on its stack. *)

In(loop) == SystemCall /\ sch.cpu = Test /\ step = loop

\* An error message, and return -1.
Fail ==
  /\ step' = "exit" /\ error' = (error \/ sch.current = Test)
  /\ UNCHANGED <<vars, shell, rq, p_rqs, alive>>

CreateOne ==
  /\ In("create") /\ rq < max_processes
  /\ \E pid \in Pids :
       /\ Create(pid, 0)
       /\ p_rqs' = [p_rqs EXCEPT ![rq] = [pid |-> pid, state |-> "RUNNING"]]
  /\ alive' = alive + 1
  /\ rq' = rq + 1
  /\ UNCHANGED <<shell, step, error>>

\* The killed test yields in proc_create, for good.
CannotCreate ==
  /\ In("create") /\ rq < max_processes
  /\ IF sch.current = Test THEN Live = Pids /\ Fail ELSE Yield /\ UNCHANGED testVars

\* action 0
KillOne ==
  /\ In("kill_or_block") /\ rq < max_processes
  /\ p_rqs[rq].state # "KILLED"
  /\ \/ /\ Kill(p_rqs[rq].pid, 255)
        /\ p_rqs' = [p_rqs EXCEPT ![rq].state = "KILLED"]
        /\ alive' = alive - 1
        /\ rq' = rq + 1
        /\ UNCHANGED <<shell, step, error>>
     \/ ~live[p_rqs[rq].pid] /\ Fail

\* block, which also unblocks, in one of the two loops.
Toggle(from, to) ==
  /\ p_rqs[rq].state = from
  /\ \/ /\ Block(p_rqs[rq].pid)
        /\ p_rqs' = [p_rqs EXCEPT ![rq].state = to]
        /\ rq' = rq + 1
        /\ UNCHANGED <<shell, step, alive, error>>
     \/ ~IsActive(sch, p_rqs[rq].pid) /\ Fail

\* action 1
BlockOne == In("kill_or_block") /\ rq < max_processes /\ Toggle("RUNNING", "BLOCKED")

UnblockOne == In("unblock") /\ rq < max_processes /\ Toggle("BLOCKED", "RUNNING")

\* Chance picked nothing, or what cannot be done in that state.
LeaveAlone ==
  /\ rq < max_processes
  /\ \/ In("unblock")
     \/ In("kill_or_block") /\ p_rqs[rq].state # "RUNNING"
  /\ rq' = rq + 1
  /\ UNCHANGED <<vars, shell, step, p_rqs, alive, error>>

NextLoop ==
  /\ rq = max_processes
  /\ \/ In("create") /\ step' = "kill_or_block"
     \/ In("kill_or_block") /\ step' = "unblock"
     \/ In("unblock") /\ step' = IF alive > 0 THEN "kill_or_block" ELSE "create"
  /\ rq' = 0
  /\ UNCHANGED <<vars, shell, p_rqs, alive, error>>

\* return -1; whoever comes there was killed.
Leave ==
  /\ In("exit") /\ Exit(255)
  /\ step' = "none"
  /\ UNCHANGED <<shell, rq, p_rqs, alive, error>>

----------------------------------------------------------------------------

Abort ==
  /\ Interruptible
  /\ \E pid \in SchGetRunningPid(sch, {Shell, Test}) : pid \in Pids /\ StartKill(pid, 255)
  /\ UNCHANGED testVars

ShellStep == Launch \/ WaitForTest \/ TestIsOver

TestStep ==
  \/ CreateOne \/ CannotCreate \/ KillOne \/ BlockOne \/ UnblockOne
  \/ LeaveAlone \/ NextLoop \/ Leave

KernelStep ==
  (KillChild \/ WakeWaiter \/ FinishKill \/ YieldAfterKill) /\ UNCHANGED testVars

TimerTick == Tick /\ UNCHANGED testVars

TestNext == ShellStep \/ TestStep \/ Abort \/ KernelStep \/ TimerTick

TestSpec == TestInit /\ [][TestNext]_allVars

\* The timer keeps interrupting, proc_kill comes to its end, and the shell gets
\* something done if it is dispatched again and again.
FairTestSpec ==
  /\ TestSpec
  /\ WF_allVars(TimerTick) /\ WF_allVars(KernelStep) /\ SF_allVars(ShellStep)

----------------------------------------------------------------------------

(* What the test believes is what the kernel has, at every moment of its life:
   the processes it did not kill are its children, there are alive of them, and
   those it blocked, and only those, are blocked (test_processes.c:40-90). *)
RecordsAreTrue ==
  IsActive(sch, Test) =>
    LET own == {k \in Requests : p_rqs[k].state # "KILLED"}
    IN  /\ {p_rqs[k].pid : k \in own} = {pid \in Pids : IsActive(sch, pid) /\ parent_pid[pid] = Test}
        /\ Cardinality({p_rqs[k].pid : k \in own}) = alive
        /\ \A k \in own : p_rqs[k].state = "BLOCKED" <=> sch.status[p_rqs[k].pid] = "BLOCKED"

(* With one slot for each process it makes, the test never says "ERROR": what a
   kill or a Ctrl-C frees is there again for the next round, and the next
   test (test_processes.c:43-87, informe.md:228). *)
NeverAnError == ~error

(* When the test is dead, whenever Ctrl-C struck, the shell gets its prompt back,
   whether it waits already or was about to (commands.c:193). *)
PromptComesBack == ~live[Test] /\ shell # "launch" ~> shell = "launch"
=============================================================================
