---------------------------- MODULE SchedulerOps ----------------------------
(***************************************************************************)
(* scheduler.c as operators on one record, the file's static variables:    *)
(*                                                                         *)
(*   status, priority, exit_status, rsp   processes_states[pid].<field>    *)
(*   current, force, quantums, kernel_rsp the other statics                *)
(*   cpu                                  the context the processor is     *)
(*                                        executing (the register rsp)     *)
(*                                                                         *)
(* A saved stack pointer matters only for whose stack it points into, so   *)
(* it is the pid of that process, KERNEL_PROC_PID, or NULL.  sch_switch is *)
(* a relation between the record before and after; every other function    *)
(* of the file is an operator that returns the new record.                 *)
(***************************************************************************)
EXTENDS Integers

CONSTANTS
  MAX_PROCESSES,      \* slots of the process table
  MAX_PRIORITY,       \* numerically smallest priority
  MIN_PRIORITY,       \* numerically largest priority
  REALTIME_PRIORITY,  \* priorities up to this one force the next switch
  DEFAULT_PRIORITY,   \* what an invalid priority is replaced by
  ExitStatuses        \* exit statuses in use, uint8_t values

ASSUME SchedulerAssumption ==
  /\ MAX_PROCESSES \in Nat \ {0}
  /\ {MAX_PRIORITY, MIN_PRIORITY, REALTIME_PRIORITY, DEFAULT_PRIORITY} \subseteq Int
  /\ MAX_PRIORITY <= REALTIME_PRIORITY
  /\ REALTIME_PRIORITY < DEFAULT_PRIORITY
  /\ DEFAULT_PRIORITY <= MIN_PRIORITY
  /\ 0 \in MAX_PRIORITY .. MIN_PRIORITY  \* what the zeroed statics hold
  /\ MIN_PRIORITY - MAX_PRIORITY < 256   \* quantums is a uint8_t
  /\ 0 \in ExitStatuses /\ ExitStatuses \subseteq 0 .. 255

KERNEL_PROC_PID == -1
KILLED_PROC_PID == -2
NULL == -3

Pids == 0 .. MAX_PROCESSES - 1
Contexts == Pids \cup {KERNEL_PROC_PID}
Priorities == MAX_PRIORITY .. MIN_PRIORITY
Statuses == {"READY", "RUNNING", "BLOCKED", "KILLED"}

\* The statics of scheduler.c, and the context on the processor.
SchStates ==
  [status      : [Pids -> Statuses],
   priority    : [Pids -> Priorities],
   exit_status : [Pids -> ExitStatuses],
   rsp         : [Pids -> Pids \cup {NULL}],
   current     : Contexts \cup {KILLED_PROC_PID},
   force       : Pids \cup {KILLED_PROC_PID},
   quantums    : 0 .. MIN_PRIORITY - MAX_PRIORITY,
   kernel_rsp  : {KERNEL_PROC_PID, NULL},
   cpu         : Contexts]

----------------------------------------------------------------------------

ValidPriority(priority) == priority \in Priorities

IsActive(s, pid) == pid \in Pids /\ s.rsp[pid] # NULL

IsReady(s, pid) == IsActive(s, pid) /\ s.status[pid] = "READY"

\* Mutant: one quantum too many.
GetQuantumsInclusive(s, pid) == MIN_PRIORITY - s.priority[pid] + 1

\* A process gives the processor away at the first timer tick that finds its
\* quantums at zero.
GetQuantums(s, pid) == MIN_PRIORITY - s.priority[pid]

ReadyPids(s) == {pid \in Pids : IsReady(s, pid)}

\* Mutant: the search always starts at the same pid.
SearchDistanceFromZero(s, pid) == IF pid > 0 THEN pid ELSE MAX_PROCESSES

\* Steps of the circular search that starts after the current pid, or after
\* pid 0 when no process is current, until it reaches pid.
SearchDistance(s, pid) ==
  LET first == IF s.current < 0 THEN 0 ELSE s.current
  IN  IF pid > first THEN pid - first ELSE pid - first + MAX_PROCESSES

\* Mutant: the search stops before it comes back to where it started.
GetNextReadyPidSkipsFirst(s) ==
  LET others == {pid \in ReadyPids(s) : SearchDistance(s, pid) < MAX_PROCESSES}
  IN  IF others = {}
      THEN {KERNEL_PROC_PID}
      ELSE {pid \in others : \A q \in others : SearchDistance(s, pid) <= SearchDistance(s, q)}

\* What get_next_ready_pid may return, at most one pid.
GetNextReadyPid(s) ==
  IF ReadyPids(s) = {}
  THEN {KERNEL_PROC_PID}
  ELSE {pid \in ReadyPids(s) :
          \A q \in ReadyPids(s) : SearchDistance(s, pid) <= SearchDistance(s, q)}

----------------------------------------------------------------------------

\* The zeroed statics after sch_init; main() is what the processor executes.
SchInit ==
  [status      |-> [pid \in Pids |-> "READY"],
   priority    |-> [pid \in Pids |-> 0],
   exit_status |-> [pid \in Pids |-> 0],
   rsp         |-> [pid \in Pids |-> NULL],
   current     |-> KERNEL_PROC_PID,
   force       |-> KILLED_PROC_PID,
   quantums    |-> 0,
   kernel_rsp  |-> NULL,
   cpu         |-> KERNEL_PROC_PID]

SchOnProcessCreate(s, pid, asked) ==
  LET priority == IF ValidPriority(asked) THEN asked ELSE DEFAULT_PRIORITY
  IN  [s EXCEPT !.force = IF priority <= REALTIME_PRIORITY THEN pid ELSE @,
                !.priority[pid] = priority,
                !.status[pid] = "READY",
                !.rsp[pid] = pid]

\* Mutant: the killed process stays the current one.
SchOnProcessKilledStaysCurrent(s, pid, status) ==
  IF ~IsActive(s, pid) \/ s.status[pid] = "KILLED"
  THEN s
  ELSE [s EXCEPT !.status[pid] = "KILLED", !.rsp[pid] = NULL, !.exit_status[pid] = status]

SchOnProcessKilled(s, pid, status) ==
  IF ~IsActive(s, pid) \/ s.status[pid] = "KILLED"
  THEN s
  ELSE [s EXCEPT !.status[pid] = "KILLED",
                 !.rsp[pid] = NULL,
                 !.exit_status[pid] = status,
                 !.current = IF @ = pid THEN KILLED_PROC_PID ELSE @]

SchBlock(s, pid) ==
  IF ~IsActive(s, pid)
  THEN s
  ELSE [s EXCEPT !.status[pid] = "BLOCKED",
                 !.quantums = IF s.current = pid THEN 0 ELSE @]

SchUnblock(s, pid) ==
  IF ~IsActive(s, pid) \/ s.status[pid] \in {"READY", "RUNNING"}
  THEN s
  ELSE [s EXCEPT !.status[pid] = "READY",
                 !.force = IF s.priority[pid] <= REALTIME_PRIORITY THEN pid ELSE @]

SchSetPriority(s, pid, priority) ==
  IF IsActive(s, pid) /\ ValidPriority(priority)
  THEN [s EXCEPT !.priority[pid] = priority]
  ELSE s

----------------------------------------------------------------------------

\* Mutant: the status of the interrupted process is left alone.
SaveContextKeepsRunning(s) ==
  IF s.current \in Pids
  THEN [s EXCEPT !.rsp[s.current] = s.cpu]
  ELSE IF s.current = KERNEL_PROC_PID
       THEN [s EXCEPT !.kernel_rsp = s.cpu]
       ELSE s

\* First part of sch_switch: keep the interrupted context.  That of a process
\* that died is dropped.
SaveContext(s) ==
  IF s.current \in Pids
  THEN [s EXCEPT !.rsp[s.current] = s.cpu,
                 !.status[s.current] = IF @ = "RUNNING" THEN "READY" ELSE @]
  ELSE IF s.current = KERNEL_PROC_PID
       THEN [s EXCEPT !.kernel_rsp = s.cpu]
       ELSE s

Dispatch(s, pid) ==
  [s EXCEPT !.current = pid,
            !.quantums = GetQuantums(s, pid),
            !.status[pid] = "RUNNING",
            !.cpu = s.rsp[pid]]

Idle(s) ==
  [s EXCEPT !.current = KERNEL_PROC_PID, !.quantums = 0, !.cpu = s.kernel_rsp]

KeepRunning(s) ==
  [s EXCEPT !.quantums = @ - 1, !.status[s.current] = "RUNNING", !.cpu = s.rsp[s.current]]

\* sch_switch takes the scheduler from s to t.
SchSwitch(s, t) ==
  LET saved == SaveContext(s)
  IN  \/ /\ IsReady(saved, saved.force)
         /\ t = [Dispatch(saved, saved.force) EXCEPT !.force = KILLED_PROC_PID]
      \/ /\ ~IsReady(saved, saved.force)
         /\ ~IsReady(saved, saved.current) \/ saved.quantums = 0
         /\ \E next \in GetNextReadyPid(saved) :
              t = IF next = KERNEL_PROC_PID THEN Idle(saved) ELSE Dispatch(saved, next)
      \/ /\ ~IsReady(saved, saved.force)
         /\ IsReady(saved, saved.current) /\ saved.quantums # 0
         /\ t = KeepRunning(saved)

\* Mutant: sch_yield does not give up the rest of the quantums.
SchYieldKeepsQuantums(s, t) == SchSwitch(s, t)

\* sch_yield, int 81h included: the caller goes on in the step that finds its
\* context on the processor again.
SchYield(s, t) == SchSwitch([s EXCEPT !.quantums = 0], t)

\* The pid Ctrl-C kills, given the pids that are in the foreground: the highest
\* live one, never pid 0.
SchGetRunningPid(s, foreground) ==
  LET fg == {pid \in foreground \ {0} : IsActive(s, pid)}
  IN  IF fg = {} THEN {-1} ELSE {pid \in fg : \A q \in fg : q <= pid}

----------------------------------------------------------------------------
(* What holds of the record between any two steps of the kernel. *)

\* Every saved context is on its owner's stack; the current pid is what the
\* processor executes, or is KILLED_PROC_PID while the processor still executes
\* a killed process, whose slot is then free.
ContextsKept(s) ==
  /\ \A pid \in Pids : IsActive(s, pid) => s.rsp[pid] = pid
  /\ s.current \in Contexts => s.cpu = s.current
  /\ s.current \in Pids => IsActive(s, s.current)
  /\ s.current = KILLED_PROC_PID => s.cpu \in Pids /\ s.rsp[s.cpu] = NULL
  /\ s.current # KERNEL_PROC_PID => s.kernel_rsp = KERNEL_PROC_PID

\* No process other than the current one is RUNNING, and none that is KILLED
\* still has a context.
OnlyCurrentRuns(s) ==
  \A pid \in Pids : IsActive(s, pid) =>
    /\ s.status[pid] # "KILLED"
    /\ s.status[pid] = "RUNNING" => s.current = pid

=============================================================================
