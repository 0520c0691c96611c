-------------------------------- MODULE Pipe --------------------------------
(***************************************************************************)
(* pipe.c, the file descriptors of process.c and the system calls on both, *)
(* on top of the scheduler.                                                *)
(*                                                                         *)
(* pipes is pipe_table without its NULLs.  A PipeFd is a record of the set *)
(* pipe_fd_table; no process has two for one descriptor.  fds says for     *)
(* each descriptor of a process whose callbacks it has: the pipe's, those  *)
(* of the keyboard or the screen ("device"), or none.                      *)
(*                                                                         *)
(* Closing a descriptor may sleep in the middle (the end-of-file mark goes *)
(* through write_callback), and proc_kill closes them all, so closing is a *)
(* record of how far the kernel is.  Interrupts are off until it is done   *)
(* or sleeps.  Memory does not run out.                                    *)
(*                                                                         *)
(* The sleeper in read_callback and write_callback keeps a pointer to the  *)
(* pipe.  What the code does with it after the pipe is freed, and with     *)
(* other uses of a descriptor whose PipeFd is gone than close, is not      *)
(* modelled, and neither is what becomes of a descriptor when the process  *)
(* it belongs to, or the one that closes it, is killed in the middle of    *)
(* that: stray says that it has come to that.                              *)
(***************************************************************************)
EXTENDS KernelQueue, PipeBuffer

CONSTANTS
  MAX_PIPES,     \* slots of pipe_table
  MAX_FDS,       \* descriptors of a process
  UINT,          \* values of an unsigned int: 2^32, fewer in model checking
  Names,         \* names of pipes in use
  Messages,      \* what processes write
  Counts,        \* how much they read at once
  DupTargets     \* the descriptors they duplicate onto

FDs == 0 .. MAX_FDS - 1
PipeIds == 0 .. MAX_PIPES - 1

ASSUME PipeAssumption ==
  /\ MAX_PIPES \in Nat \ {0} /\ MAX_FDS \in Nat /\ MAX_FDS >= 5
  /\ UINT \in Nat /\ 2 * MAX_PROCESSES * MAX_FDS < UINT
  /\ \A data \in Messages : data \in Seq(Range(data))
  /\ Counts \subseteq Nat \ {0} /\ DupTargets \subseteq {0, 1} /\ NULL \notin Names

EOF == "eof"  \* '\e'

VARIABLES
  sch,            \* the statics of scheduler.c
  live,           \* pids whose slot of processes[] is in use
  fds,            \* processes[pid].fds
  pipes,          \* pipe_table, without its NULLs
  pipe_fd_table,  \* the PipeFds
  waiting,        \* what a process, or the kernel, sleeps in the middle of
  closing,        \* the close the kernel is in the middle of, or NONE
  stray           \* history: a pipe was freed that somebody still had open or slept in,
                  \* or a process was killed while a descriptor was closed for or by it

pipeVars == <<live, fds, pipes, pipe_fd_table, waiting, closing, stray>>
vars == <<sch, pipeVars>>

NONE == [op |-> "none"]

NewPipe(name) ==
  [name |-> name, buffer |-> <<>>, read_idx |-> 0, bytes_to_read |-> 0,
   readers |-> 0, writers |-> 0, rd_q |-> <<>>, wr_q |-> <<>>]

----------------------------------------------------------------------------

Init ==
  /\ sch = SchOnProcessCreate(SchInit, 0, MAX_PRIORITY)
  /\ live = {0}
  /\ fds = [pid \in Pids |-> [fd \in FDs |-> IF fd < 3 THEN "device" ELSE "none"]]
  /\ pipes = <<>> /\ pipe_fd_table = {}
  /\ waiting = [context \in Contexts |-> NONE]
  /\ closing = NONE
  /\ stray = FALSE

\* sch_switch has come back to somebody who slept in the kernel.
Resuming == sch.current \in Contexts /\ waiting[sch.current] # NONE

Interruptible == closing = NONE /\ ~Resuming

\* A process that is alive is at a system call.
SystemCall == Interruptible /\ sch.current \in Pids

\* Nobody opens, duplicates or closes descriptors of a process that was killed but
\* still has its slot, because the kernel sleeps in one of its closes.
Alive(pid) == pid \in live /\ IsActive(sch, pid)

\* The process takes a nap, in the middle of what it will go on with.
Sleep(s, pid, what) ==
  /\ SchYield(SchBlock(s, pid), sch')
  /\ waiting' = IF s.current \in Contexts THEN [waiting EXCEPT ![s.current] = what] ELSE waiting

WakeUp == [waiting EXCEPT ![sch.current] = NONE]

----------------------------------------------------------------------------
(* pipe_open, pipe_create, pipe_unlink and dup *)

FindNamedPipe(name) == {id \in DOMAIN pipes : name # NULL /\ pipes[id].name = name}

FindFreePipe == {id \in PipeIds \ DOMAIN pipes : \A other \in PipeIds \ DOMAIN pipes : id <= other}

\* The pipe a process gets, a new one when no pipe has the name.
Opened(name) == IF FindNamedPipe(name) = {} THEN FindFreePipe ELSE FindNamedPipe(name)

PipeFd(pid, fd, id, allow_rd) ==
  [pid |-> pid, fd |-> fd, pipe_id |-> id, allow_rd |-> allow_rd, allow_wr |-> ~allow_rd]

EntriesOf(id) == {entry \in pipe_fd_table : entry.pipe_id = id}

\* What proc_map_fd takes for fd = -1.
FreeFds(pid) == {fd \in FDs \ 0 .. 2 : fds[pid][fd] = "none"}

\* pipe_free, with an empty queue for those who sleep there.
PipeFree(s, id) ==
  /\ sch' = QueueUnblockAll(QueueUnblockAll(s, pipes[id].wr_q), pipes[id].rd_q)
  /\ pipes' = Restrict(pipes, DOMAIN pipes \ {id})
  /\ pipe_fd_table' = pipe_fd_table \ EntriesOf(id)

\* Somebody asleep in a callback has a pointer to the pipe, in a close to pipe 0 too.
SleptIn(id) ==
  \E c \in Contexts :
    \/ waiting[c].op \in {"read", "write", "close"} /\ waiting[c].pipe = id
    \/ waiting[c].op = "close" /\ id = 0

\* pipe_table with p for pipe id, a new one or not.
WithPipe(id, p) ==
  [other \in DOMAIN pipes \cup {id} |-> IF other = id THEN p ELSE pipes[other]]

\* pipe_open_handler and, without a name, pipe_create_handler: the process
\* gets a descriptor for each end.  Any process may open for another.
OpenFor(pid, name) ==
  LET rd == Min(FreeFds(pid))
      wr == Min(FreeFds(pid) \ {rd})
  IN  /\ SystemCall /\ Alive(pid)
      /\ Cardinality(FreeFds(pid)) >= 2
      /\ \E id \in Opened(name) :
           LET p == IF id \in DOMAIN pipes THEN pipes[id] ELSE NewPipe(name)
           IN  /\ pipes' = WithPipe(id, [p EXCEPT !.readers = (@ + 1) % UINT,
                                                   !.writers = (@ + 1) % UINT])
               /\ pipe_fd_table' =
                    pipe_fd_table \cup {PipeFd(pid, rd, id, TRUE), PipeFd(pid, wr, id, FALSE)}
      /\ fds' = [fds EXCEPT ![pid][rd] = "pipe", ![pid][wr] = "pipe"]
      /\ UNCHANGED <<sch, live, waiting, closing, stray>>

\* The process is dead: its descriptor cannot be mapped, and the handler frees
\* the pipe, even one that was there before.
OpenForTheDead(pid, name) ==
  /\ SystemCall /\ pid \notin live
  /\ \E id \in Opened(name) :
       IF id \in DOMAIN pipes
       THEN PipeFree(sch, id) /\ stray' = TRUE
       ELSE UNCHANGED <<sch, pipes, pipe_fd_table, stray>>
  /\ UNCHANGED <<live, fds, waiting, closing>>

PipeOpen(pid, name) == OpenFor(pid, name) \/ OpenForTheDead(pid, name)

\* The pipe is freed whoever has it open, or sleeps in it.
PipeUnlink(name) ==
  /\ SystemCall
  /\ \E id \in FindNamedPipe(name) :
       /\ PipeFree(sch, id)
       /\ stray' = (stray \/ EntriesOf(id) # {} \/ SleptIn(id))
  /\ UNCHANGED <<live, fds, waiting, closing>>

\* The pipe with one more, or one less, end like the one of entry.
EndCounted(p, entry, by) ==
  [p EXCEPT !.readers = IF entry.allow_rd THEN (p.readers + by) % UINT ELSE p.readers,
            !.writers = IF entry.allow_wr THEN (p.writers + by) % UINT ELSE p.writers]

\* dup_callback: one end more.
DupEnd(pid, from, to) ==
  \E entry \in pipe_fd_table :
    /\ entry.pid = pid /\ entry.fd = from
    /\ pipe_fd_table' = pipe_fd_table \cup {[entry EXCEPT !.fd = to]}
    /\ pipes' = [pipes EXCEPT ![entry.pipe_id] = EndCounted(pipes[entry.pipe_id], entry, 1)]

\* dup of a pipe's end, onto a descriptor of a device.
Dup(pid, from, to) ==
  /\ SystemCall /\ Alive(pid) /\ fds[pid][to] = "device"
  /\ DupEnd(pid, from, to)
  /\ fds' = [fds EXCEPT ![pid][to] = "pipe"]
  /\ UNCHANGED <<sch, live, waiting, closing, stray>>

----------------------------------------------------------------------------
(* read and write *)

\* Mutant: the writers sleep on.
ReadRoundWakesNobody(pid, id, count) ==
  LET p == pipes[id]
      asleep == p.bytes_to_read = 0 /\ (p.name # NULL \/ p.writers > 0)
  IN  /\ id \in DOMAIN pipes
      /\ IF asleep
         THEN /\ pipes' = [pipes EXCEPT ![id].rd_q = Append(@, pid)]
              /\ Sleep(sch, pid, [op |-> "read", pipe |-> id, count |-> count])
         ELSE /\ pipes' = [pipes EXCEPT ![id] = ReadPipeBuffer(p, count)]
              /\ waiting' = WakeUp
              /\ UNCHANGED sch
      /\ UNCHANGED <<live, fds, pipe_fd_table, closing, stray>>

\* One round of read_callback's loop: some bytes, or none because no writer is
\* left and the pipe has no name, or sleep.
ReadRound(pid, id, count) ==
  LET p == pipes[id]
      asleep == p.bytes_to_read = 0 /\ (p.name # NULL \/ p.writers > 0)
  IN  /\ id \in DOMAIN pipes
      /\ IF asleep
         THEN /\ pipes' = [pipes EXCEPT ![id].rd_q = Append(@, pid)]
              /\ Sleep(sch, pid, [op |-> "read", pipe |-> id, count |-> count])
         ELSE /\ pipes' = IF p.bytes_to_read = 0
                          THEN pipes
                          ELSE [pipes EXCEPT ![id] = [ReadPipeBuffer(p, count) EXCEPT !.wr_q = <<>>]]
              /\ sch' = IF p.bytes_to_read = 0 THEN sch ELSE QueueUnblockAll(sch, p.wr_q)
              /\ waiting' = WakeUp
      /\ UNCHANGED <<live, fds, pipe_fd_table, closing, stray>>

Read(fd, count) ==
  /\ SystemCall
  /\ \E entry \in pipe_fd_table :
       /\ entry.pid = sch.current /\ entry.fd = fd
       /\ ReadRound(sch.current, entry.pipe_id, count)

ContinueRead ==
  /\ closing = NONE /\ Resuming /\ waiting[sch.current].op = "read"
  /\ ReadRound(sch.current, waiting[sch.current].pipe, waiting[sch.current].count)

\* write_callback's loop until it is done or sleeps: what fits is written at
\* once, and of nothing nobody is woken.
WriteRound(pid, id, data) ==
  LET p == pipes[id]
      n == BytesWritten(p, data)
      written == IF n = 0 THEN WritePipeBuffer(p, data)
                 ELSE [WritePipeBuffer(p, data) EXCEPT !.rd_q = <<>>]
      woken == IF n = 0 THEN sch ELSE QueueUnblockAll(sch, p.rd_q)
  IN  /\ id \in DOMAIN pipes
      /\ IF n = Len(data)
         THEN /\ pipes' = [pipes EXCEPT ![id] = written]
              /\ sch' = woken
              /\ waiting' = WakeUp
         ELSE /\ pipes' = [pipes EXCEPT ![id] = [written EXCEPT !.wr_q = Append(@, pid)]]
              /\ Sleep(woken, pid,
                       [op |-> "write", pipe |-> id, data |-> SubSeq(data, n + 1, Len(data))])
      /\ UNCHANGED <<live, fds, pipe_fd_table, closing, stray>>

Write(fd, data) ==
  /\ SystemCall
  /\ \E entry \in pipe_fd_table :
       /\ entry.pid = sch.current /\ entry.fd = fd
       /\ WriteRound(sch.current, entry.pipe_id, data)

ContinueWrite ==
  /\ closing = NONE /\ Resuming /\ waiting[sch.current].op = "write"
  /\ WriteRound(sch.current, waiting[sch.current].pipe, waiting[sch.current].data)

----------------------------------------------------------------------------
(* close, and proc_kill, which closes everything *)

CloseOf(pid, fd, dying) ==
  [op |-> "close", pid |-> pid, fd |-> fd, dying |-> dying, step |-> "close", pipe |-> NULL]

\* A descriptor whose PipeFd is gone because it is being closed.
BeingClosed(pid, fd) ==
  \E c \in {closing} \cup {waiting[context] : context \in Contexts} :
    c.op = "close" /\ c.step # "close" /\ c.pid = pid /\ c.fd = fd

\* close(pid, fd), of any process that is alive, even one that sleeps.
Close(pid, fd) ==
  /\ SystemCall /\ Alive(pid) /\ fds[pid][fd] = "pipe" /\ ~BeingClosed(pid, fd)
  /\ closing' = CloseOf(pid, fd, FALSE)
  /\ UNCHANGED <<sch, live, fds, pipes, pipe_fd_table, waiting, stray>>

\* The PipeFd of a descriptor.  When there is none, get_pipe_fd returns NULL and
\* the code reads the interrupt descriptor table, which is at address 0
\* (idtLoader.c:21): pipe 0, for writing.
GetPipeFd(pid, fd) ==
  LET found == {entry \in pipe_fd_table : entry.pid = pid /\ entry.fd = fd}
  IN  IF found = {} THEN PipeFd(pid, fd, 0, FALSE) ELSE CHOOSE entry \in found : TRUE

\* Mutant: it forgets to count the reader off.
CloseEndKeepsReaders ==
  LET entry == GetPipeFd(closing.pid, closing.fd)
      id == entry.pipe_id
      last == entry.allow_wr /\ id \in DOMAIN pipes /\ pipes[id].writers = 1
  IN  /\ closing.op = "close" /\ closing.step = "close"
      /\ pipe_fd_table' = pipe_fd_table \ {entry}
      /\ IF id \in DOMAIN pipes
         THEN pipes' = [pipes EXCEPT ![id].writers = IF entry.allow_wr THEN (@ - 1) % UINT ELSE @]
         ELSE UNCHANGED pipes
      /\ closing' = [closing EXCEPT !.step = IF last THEN "eof" ELSE "finish", !.pipe = id]
      /\ UNCHANGED <<sch, live, fds, waiting, stray>>

\* close_callback: the end is counted off and its PipeFd removed.
CloseEnd ==
  LET entry == GetPipeFd(closing.pid, closing.fd)
      id == entry.pipe_id
      p == pipes[id]
      last_rd == entry.allow_rd /\ p.readers = 1
      last_wr == entry.allow_wr /\ p.writers = 1
  IN  /\ closing.op = "close" /\ closing.step = "close"
      /\ pipe_fd_table' = pipe_fd_table \ {entry}
      /\ IF id \in DOMAIN pipes
         THEN /\ pipes' = [pipes EXCEPT ![id] = [EndCounted(p, entry, -1) EXCEPT
                                                   !.wr_q = IF last_rd THEN <<>> ELSE p.wr_q]]
              /\ sch' = IF last_rd THEN QueueUnblockAll(sch, p.wr_q) ELSE sch
              /\ closing' = [closing EXCEPT !.step = IF last_wr THEN "eof" ELSE "finish", !.pipe = id]
         ELSE /\ closing' = [closing EXCEPT !.step = "finish", !.pipe = id]
              /\ UNCHANGED <<sch, pipes>>
      /\ UNCHANGED <<live, fds, waiting, stray>>

\* The last writer leaves a mark.  write_callback looks for the PipeFd that
\* CloseEnd has removed, so the mark goes into pipe 0; without a pipe 0 the
\* kernel does not survive it.
WriteEof ==
  /\ closing.op = "close" /\ closing.step = "eof" /\ 0 \in DOMAIN pipes
  /\ BytesWritten(pipes[0], <<EOF>>) = 1
  /\ LET woken == QueueUnblockAll(sch, pipes[0].rd_q)
         marked == [pipes EXCEPT ![0] = [WritePipeBuffer(@, <<EOF>>) EXCEPT !.rd_q = <<>>]]
     IN  /\ sch' = QueueUnblockAll(woken, marked[closing.pipe].rd_q)
         /\ pipes' = [marked EXCEPT ![closing.pipe].rd_q = <<>>]
  /\ closing' = [closing EXCEPT !.step = "finish"]
  /\ UNCHANGED <<live, fds, pipe_fd_table, waiting, stray>>

\* Pipe 0 is full: write_callback blocks the process that is losing its
\* descriptor, and yields.  If that is the current one, killed, it never goes
\* on; somebody else tries again, and again.
WaitToWriteEof ==
  /\ closing.op = "close" /\ closing.step = "eof" /\ 0 \in DOMAIN pipes
  /\ BytesWritten(pipes[0], <<EOF>>) = 0
  /\ pipes' = [pipes EXCEPT ![0].wr_q = Append(@, closing.pid)]
  /\ Sleep(sch, closing.pid, closing)
  /\ closing' = NONE
  /\ UNCHANGED <<live, fds, pipe_fd_table, stray>>

ContinueClose ==
  /\ closing = NONE /\ Resuming /\ waiting[sch.current].op = "close"
  /\ closing' = waiting[sch.current]
  /\ waiting' = WakeUp
  /\ UNCHANGED <<sch, live, fds, pipes, pipe_fd_table, stray>>

\* The byte before read_idx is the last one read; when read_idx is 0 it is not
\* in the buffer, but in the header the free list keeps in front of it.
EofWasRead(p) == p.read_idx > 0 /\ p.buffer[p.read_idx] = EOF

NextFd(pid, fd) == {next \in fd + 1 .. MAX_FDS - 1 : fds[pid][next] = "pipe"}

\* Mutant: a pipe is freed with its last end, whatever is still in it.
FreesUnread(p) == p.readers = 0 /\ p.writers = 0 /\ Size(p) > 0

FreesPipe(p) == p.readers = 0 /\ p.writers = 0 /\ Size(p) > 0 /\ EofWasRead(p)

\* The rest of close_callback and of proc_unmap_fd; proc_kill goes on with the
\* next descriptor.
FinishClose ==
  /\ closing.op = "close" /\ closing.step = "finish"
  /\ fds' = [fds EXCEPT ![closing.pid][closing.fd] = "none"]
  /\ closing' = IF ~closing.dying
                THEN NONE
                ELSE IF NextFd(closing.pid, closing.fd) = {}
                     THEN [op |-> "die", pid |-> closing.pid]
                     ELSE CloseOf(closing.pid, Min(NextFd(closing.pid, closing.fd)), TRUE)
  /\ IF closing.pipe \in DOMAIN pipes /\ FreesPipe(pipes[closing.pipe])
     THEN PipeFree(sch, closing.pipe) /\ stray' = (stray \/ SleptIn(closing.pipe))
     ELSE UNCHANGED <<sch, pipes, pipe_fd_table, stray>>
  /\ UNCHANGED <<live, waiting>>

\* proc_kill up to the descriptors: the scheduler is told and those who wait for
\* the process are woken.  Kill callback and children are left out.
StartKill(pid, status) ==
  LET waiters == {w \in Pids : waiting[w].op = "waitpid" /\ waiting[w].pid = pid}
  IN  /\ sch' = QueueUnblockAll(SchOnProcessKilled(sch, pid, status), SetToSeq(waiters))
      /\ waiting' = [waiting EXCEPT ![pid] = NONE]
      /\ closing' = IF NextFd(pid, -1) = {}
                    THEN [op |-> "die", pid |-> pid]
                    ELSE CloseOf(pid, Min(NextFd(pid, -1)), TRUE)
      /\ stray' = (stray \/ \E c \in Contexts :
                              waiting[c].op = "close" /\ (c = pid \/ waiting[c].pid = pid))
      /\ UNCHANGED <<live, fds, pipes, pipe_fd_table>>

\* By a system call of another process, or by Ctrl-C.  (A process that is killed
\* while it runs is Process.tla's.)
Kill(pid, status) ==
  /\ Interruptible /\ pid \in live /\ pid # sch.current /\ IsActive(sch, pid)
  /\ StartKill(pid, status)

Exit(status) == SystemCall /\ StartKill(sch.current, status)

\* proc_kill frees the slot.  When the process killed itself, exit yields.
FinishKill ==
  /\ closing.op = "die"
  /\ live' = live \ {closing.pid}
  /\ fds' = [fds EXCEPT ![closing.pid] = [fd \in FDs |-> IF fd < 3 THEN "device" ELSE "none"]]
  /\ closing' = NONE
  /\ IF sch.current = KILLED_PROC_PID THEN SchYield(sch, sch') ELSE UNCHANGED sch
  /\ UNCHANGED <<pipes, pipe_fd_table, waiting, stray>>

----------------------------------------------------------------------------
(* The rest of the kernel *)

\* process_create_handler, with the descriptors of the keyboard and the screen.
Create(pid, asked) ==
  /\ SystemCall
  /\ pid \notin live /\ \A other \in Pids : other \in live \/ pid <= other
  /\ sch' = SchOnProcessCreate(sch, pid, asked)
  /\ live' = live \cup {pid}
  /\ UNCHANGED <<fds, pipes, pipe_fd_table, waiting, closing, stray>>

Waitpid(pid) ==
  /\ SystemCall /\ pid # sch.current /\ pid \in live
  /\ Sleep(sch, sch.current, [op |-> "waitpid", pid |-> pid])
  /\ UNCHANGED <<live, fds, pipes, pipe_fd_table, closing, stray>>

ReturnFromWaitpid ==
  /\ closing = NONE /\ Resuming /\ waiting[sch.current].op = "waitpid"
  /\ waiting' = WakeUp
  /\ UNCHANGED <<sch, live, fds, pipes, pipe_fd_table, closing, stray>>

Tick ==
  /\ Interruptible
  /\ SchSwitch(sch, sch')
  /\ UNCHANGED pipeVars

Next ==
  \/ \E pid \in Pids, name \in Names \cup {NULL} : PipeOpen(pid, name)
  \/ \E name \in Names : PipeUnlink(name)
  \/ \E pid \in Pids, from \in FDs, to \in DupTargets : Dup(pid, from, to)
  \/ \E fd \in FDs, count \in Counts : Read(fd, count)
  \/ ContinueRead
  \/ \E fd \in FDs, data \in Messages : Write(fd, data)
  \/ ContinueWrite
  \/ \E pid \in Pids, fd \in FDs : Close(pid, fd)
  \/ CloseEnd
  \/ WriteEof
  \/ WaitToWriteEof
  \/ ContinueClose
  \/ FinishClose
  \/ \E pid \in Pids, status \in ExitStatuses : Kill(pid, status)
  \/ \E status \in ExitStatuses : Exit(status)
  \/ FinishKill
  \/ \E pid \in Pids : Create(pid, DEFAULT_PRIORITY)
  \/ \E pid \in Pids : Waitpid(pid)
  \/ ReturnFromWaitpid
  \/ Tick

Spec == Init /\ [][Next]_vars

----------------------------------------------------------------------------

Bytes == (UNION {Range(data) : data \in Messages}) \cup {EOF, NOTHING}

PipeFds ==
  [pid : Pids, fd : FDs, pipe_id : PipeIds, allow_rd : BOOLEAN, allow_wr : BOOLEAN]

PipeInfo ==
  {p \in [name : Names \cup {NULL}, buffer : Seq(Bytes), read_idx : Nat, bytes_to_read : Nat,
          readers : 0 .. UINT - 1, writers : 0 .. UINT - 1, rd_q : Seq(Pids), wr_q : Seq(Pids)] :
     /\ Size(p) <= BUFFER_MAX_SIZE
     /\ p.bytes_to_read <= Size(p) /\ p.read_idx <= Size(p)}

Closes ==
  [op : {"close"}, pid : Pids, fd : FDs, dying : BOOLEAN,
   step : {"close", "eof", "finish"}, pipe : PipeIds \cup {NULL}]

\* Only processes call read, write and waitpid; Ctrl-C also strikes the idle kernel.
\* (It is in Pipeline that one reads the keyboard.)
Calls ==
  [op : {"read"}, pipe : PipeIds, count : Counts] \cup [op : {"write"}, pipe : PipeIds, data : Seq(Bytes)]
    \cup [op : {"waitpid"}, pid : Pids] \cup [op : {"keyboard"}]

TypeOK ==
  /\ sch \in SchStates
  /\ live \subseteq Pids
  /\ fds \in [Pids -> [FDs -> {"none", "device", "pipe"}]]
  /\ DOMAIN pipes \subseteq PipeIds /\ pipes \in [DOMAIN pipes -> PipeInfo]
  /\ pipe_fd_table \subseteq PipeFds
  /\ waiting \in [Contexts -> {NONE} \cup Calls \cup Closes]
  /\ waiting[KERNEL_PROC_PID] \notin Calls
  /\ closing \in {NONE} \cup Closes \cup [op : {"die"}, pid : Pids]
  /\ stray \in BOOLEAN

EndsOf(id, reading) == {entry \in EntriesOf(id) : entry.allow_rd = reading}

(* readers and writers count the descriptors of a pipe's ends, whoever opened,
   duplicated or closed them for whom, in whatever order processes died; and
   a process has a descriptor of a pipe exactly when pipe_fd_table says so
   (pipe.c:213-216, :456-466, :509-512).  For pipes that nobody unlinks while
   they are open. *)
EndsCounted ==
  ~stray =>
    /\ \A id \in DOMAIN pipes :
         /\ pipes[id].readers = Cardinality(EndsOf(id, TRUE))
         /\ pipes[id].writers = Cardinality(EndsOf(id, FALSE))
    /\ \A entry \in pipe_fd_table :
         entry.pipe_id \in DOMAIN pipes /\ fds[entry.pid][entry.fd] = "pipe"
    /\ \A pid \in live, fd \in FDs :
         fds[pid][fd] = "pipe" /\ IsActive(sch, pid)
         => \/ BeingClosed(pid, fd)
            \/ \E entry \in pipe_fd_table : entry.pid = pid /\ entry.fd = fd

\* A close of one of its descriptors, by somebody else, has put the process to sleep.
BlockedByAClose(pid) ==
  \E c \in {closing} \cup {waiting[context] : context \in Contexts} : c.op = "close" /\ c.pid = pid

(* A process sleeps in read only while the pipe is empty, in write only while it
   is full, and is in the pipe's queue, so the next write or read wakes it up;
   its pipe is not freed before it goes on (pipe.c:415-419, :436-441).  But for
   the process that write_callback blocks instead of the one that closes. *)
NoLostWakeup ==
  ~stray =>
    \A pid \in Pids :
      waiting[pid].op \in {"read", "write"} =>
        /\ waiting[pid].pipe \in DOMAIN pipes
        /\ sch.status[pid] = "BLOCKED" /\ ~BlockedByAClose(pid) =>
             LET p == pipes[waiting[pid].pipe]
             IN  IF waiting[pid].op = "read"
                 THEN p.bytes_to_read = 0 /\ pid \in Range(p.rd_q)
                 ELSE p.bytes_to_read = BUFFER_MAX_SIZE /\ pid \in Range(p.wr_q)
=============================================================================
