------------------------------- MODULE Pipeline -------------------------------
(***************************************************************************)
(* Two programs over the real pipes and scheduler: "pipeline" is the       *)
(* shell's execution of a line, which may pipe a command into another      *)
(* (shell.c, commands.c, stdio.c), and "testpipe" is tests/test_pipes.c,   *)
(* where a process writes to a named pipe and is dead when another one     *)
(* reads.                                                                  *)
(*                                                                         *)
(* Process 0 stands for the shell and for test_pipes.  A line is the words *)
(* strtok finds in it.  Of the commands, help stands for those that only   *)
(* write; it and the three that read their input are here.  The shell      *)
(* redirects commands that already run, so either may be faster: what the  *)
(* first writes then appears on the screen, and what the second reads      *)
(* comes from the keyboard, on which nobody types.  Nobody is killed, and  *)
(* every call that needs memory gets it.  What fgets echoes is left out.   *)
(***************************************************************************)
EXTENDS Pipe

CONSTANTS
  Lines,       \* what the writer writes, call by call
  Programs,    \* the programs looked at, of "pipeline" and "testpipe"
  TypedLines,  \* lines the shell may read
  Leftovers,   \* what args[] may point to behind the words of a line
  BUFF_SIZE    \* what fgets keeps of a line, and a zero

STDIN == 0
STDOUT == 1

\* The name of the pipe, pname and PIPE_NAME.
PIPE_NAME == CHOOSE name \in Names : TRUE

\* More than is ever in the pipe; test_pipes reads 101 bytes.
ALL == 101

\* commands[], as far as it goes here.
Readers == {"cat", "wc", "filter"}
Commands == {"help"} \cup Readers

IsValidCommand(word) == word \in Commands

ASSUME PipelineAssumption ==
  /\ Names # {} /\ Lines \in Seq(Messages) \ {<<>>} /\ \A data \in Messages : EOF \notin Range(data)
  /\ Programs \subseteq {"pipeline", "testpipe"} /\ {1, ALL} \subseteq Counts
  /\ DupTargets = {STDIN, STDOUT} /\ BUFF_SIZE \in Nat \ {0}
  /\ \A line \in TypedLines : line # <<>> => line[1] \notin Readers
  /\ \A line \in TypedLines : \A i \in 1 .. Len(line) - 1 : line[i] = "|" => line[i + 1] # "help"
  /\ "help" \notin Leftovers

VARIABLES
  program,   \* what process 0 runs
  command,   \* what the shell has read: piped, in the foreground, the second command
  pc,        \* the next thing a process does
  pids,      \* process 0's pid1 and pid2, or wpid and rpid
  ends,      \* the descriptors pipe_open has returned, the reading one first
  lines,     \* lines the writer has still to write
  sent,      \* history: what went into the pipe
  received,  \* what the reader has read from the pipe
  buff,      \* of it, what fgets has kept of a line
  printed    \* what the second command has put on the screen, or the lines wc has counted

programVars == <<program, command, pc, pids, ends, lines, sent, received, buff, printed>>
pipelineVars == <<vars, programVars>>

PipelineInit ==
  /\ Init
  /\ program \in Programs
  /\ command = [is_piped |-> FALSE, is_fg |-> TRUE, second |-> "", argc |-> 0]
  /\ pc = [pid \in Pids |-> IF pid # 0 THEN "none"
                            ELSE IF program = "pipeline" THEN "execute" ELSE "create_first"]
  /\ pids = <<NULL, NULL>>
  /\ ends = [pid \in Pids |-> <<NULL, NULL>>]
  /\ lines = IF program = "pipeline" THEN Lines ELSE SubSeq(Lines, 1, 1)
  /\ sent = <<>> /\ received = <<>> /\ buff = <<>> /\ printed = <<>>

AtStep(pid, step) == sch.current = pid /\ pc[pid] = step

Goto(pid, step) == pc' = [pc EXCEPT ![pid] = step]

----------------------------------------------------------------------------
(* Process 0 *)

Refused == [is_piped |-> FALSE, is_fg |-> FALSE, second |-> "", argc |-> -1]

\* What the words of a line say.  When nothing follows the bar, what args[] holds
\* there is of an earlier line.  argc is the second command's.
Parsed(line, leftover) ==
  LET is_fg == Last(line) # "&"
      args_len == IF is_fg THEN Len(line) ELSE Len(line) - 1
      bars == {i \in 1 .. args_len : line[i] = "|"}
      second == IF bars = {} THEN ""
                ELSE IF Min(bars) < args_len THEN line[Min(bars) + 1] ELSE leftover
  IN  IF \/ bars # {} /\ ~is_fg
         \/ ~IsValidCommand(line[1])
         \/ bars # {} /\ ~IsValidCommand(second)
      THEN Refused
      ELSE [is_piped |-> bars # {}, is_fg |-> is_fg, second |-> second,
            argc |-> IF bars = {} THEN 0 ELSE args_len - Min(bars) - 1]

\* The shell reads a line and, but for an empty one, looks at its words.
ExecuteLine ==
  /\ AtStep(0, "execute") /\ SystemCall
  /\ \E line \in TypedLines, leftover \in Leftovers :
       /\ command' = IF line = <<>> THEN Refused ELSE Parsed(line, leftover)
       /\ Goto(0, IF command' = Refused THEN "prompt" ELSE "create_first")
  /\ UNCHANGED <<vars, program, pids, ends, lines, sent, received, buff, printed>>

AfterFirst ==
  IF program = "testpipe" THEN "wait_first"
  ELSE IF command.is_piped THEN "create_second"
  ELSE IF command.is_fg THEN "wait_first" ELSE "prompt"

\* A command that takes no arguments and gets some, or fewer than none, returns.
StartOfSecond ==
  IF program = "testpipe" THEN "open_to_read"
  ELSE IF command.argc = 0 THEN "read" ELSE "exit"

\* asm_execve, of the writer first.
CreateCommand(pid) ==
  /\ Create(pid, DEFAULT_PRIORITY)
  /\ \/ /\ AtStep(0, "create_first")
        /\ pc' = [pc EXCEPT ![0] = AfterFirst,
                            ![pid] = IF program = "pipeline" THEN "write" ELSE "open_to_write"]
        /\ pids' = <<pid, NULL>>
     \/ /\ AtStep(0, "create_second")
        /\ pc' = [pc EXCEPT ![0] = IF program = "pipeline" THEN "open_1" ELSE "wait_second",
                            ![pid] = StartOfSecond]
        /\ pids' = <<pids[1], pid>>
  /\ UNCHANGED <<program, command, ends, lines, sent, received, buff, printed>>

\* What a system call does for a process that is gone.
Fails(pid) == SystemCall /\ pid \notin live /\ UNCHANGED vars

\* The shell connects command i to the pipe: its STDOUT, or its STDIN, becomes
\* an end of the pipe, and the two descriptors pipe_open has given it are closed.
Redirect(i) ==
  LET pid == pids[i]
      rd == ends[0][1]
      wr == ends[0][2]
  IN  /\ \/ /\ AtStep(0, <<"open_1", "open_2">>[i]) /\ Goto(0, <<"dup_1", "dup_2">>[i])
            /\ PipeOpen(pid, PIPE_NAME)
            /\ ends' = IF Alive(pid)
                       THEN [ends EXCEPT ![0] = <<Min(FreeFds(pid)), Min(FreeFds(pid) \ {Min(FreeFds(pid))})>>]
                       ELSE ends
         \/ /\ AtStep(0, <<"dup_1", "dup_2">>[i]) /\ Goto(0, <<"close_rd_1", "close_rd_2">>[i])
            /\ Dup(pid, IF i = 1 THEN wr ELSE rd, IF i = 1 THEN STDOUT ELSE STDIN) \/ Fails(pid)
            /\ UNCHANGED ends
         \/ /\ AtStep(0, <<"close_rd_1", "close_rd_2">>[i]) /\ Goto(0, <<"close_wr_1", "close_wr_2">>[i])
            /\ Close(pid, rd) \/ Fails(pid)
            /\ UNCHANGED ends
         \/ /\ AtStep(0, <<"close_wr_1", "close_wr_2">>[i]) /\ Goto(0, <<"open_2", "wait_first">>[i])
            /\ Close(pid, wr) \/ Fails(pid)
            /\ UNCHANGED ends
      /\ UNCHANGED <<program, command, pids, lines, sent, received, buff, printed>>

\* The shell and test_pipes wait for one after the other; test_pipes creates the
\* reader in between.
WaitForCommand(i) ==
  /\ AtStep(0, <<"wait_first", "wait_second">>[i])
  /\ Goto(0, IF i = 1 /\ program = "testpipe" THEN "create_second"
             ELSE IF i = 1 /\ command.is_piped THEN "wait_second" ELSE "prompt")
  /\ Waitpid(pids[i]) \/ Fails(pids[i])
  /\ UNCHANGED <<program, command, pids, ends, lines, sent, received, buff, printed>>

----------------------------------------------------------------------------
(* The commands *)

\* The processes of test_pipes open the pipe themselves.
OpenItself(pid) ==
  /\ pc[pid] \in {"open_to_write", "open_to_read"} /\ sch.current = pid
  /\ PipeOpen(pid, PIPE_NAME)
  /\ ends' = [ends EXCEPT ![pid] = <<Min(FreeFds(pid)), Min(FreeFds(pid) \ {Min(FreeFds(pid))})>>]
  /\ Goto(pid, IF pc[pid] = "open_to_write" THEN "write" ELSE "read")
  /\ UNCHANGED <<program, command, pids, lines, sent, received, buff, printed>>

\* fputs, to the pipe or, before the shell redirects it, the screen.
PutString(pid, data) ==
  LET fd == IF program = "pipeline" THEN STDOUT ELSE ends[pid][2]
  IN  \/ /\ fds[pid][fd] = "pipe"
         /\ Write(fd, data)
         /\ sent' = sent \o data
      \/ /\ fds[pid][fd] = "device" /\ SystemCall
         /\ UNCHANGED <<vars, sent>>

\* The loop of help; the writer of test_pipes writes once.
WriteLine(pid) ==
  /\ AtStep(pid, "write") /\ lines # <<>>
  /\ PutString(pid, Head(lines))
  /\ lines' = Tail(lines)
  /\ UNCHANGED <<program, command, pc, pids, ends, received, buff, printed>>

\* What the commands do with a line that fgets has returned.
Cat(out, line) == IF line = <<>> THEN out ELSE Append(out \o line, "\n")

\* Mutant: the last line counts although nothing is in it.
WcCountsTheEnd(out, line, eof) == Append(out, "line")

Wc(out, line, eof) == IF line # <<>> \/ ~eof THEN Append(out, "line") ELSE out

Vowels == {"a", "A", "e", "E", "i", "I", "o", "O", "u", "U", " "}

Filter(out, line) ==
  IF line = <<>> THEN out ELSE Append(out \o SelectSeq(line, LAMBDA c : c \in Vowels), "\n")

\* The loop of fgets, and at the end of a line the loop of the command.
TakeChar(c) ==
  IF c \in {"\n", EOF}
  THEN /\ buff' = <<>>
       /\ printed' = CASE command.second = "cat"    -> Cat(printed, buff)
                       [] command.second = "wc"     -> Wc(printed, buff, c = EOF)
                       [] command.second = "filter" -> Filter(printed, buff)
  ELSE /\ buff' = IF Len(buff) < BUFF_SIZE - 1 THEN Append(buff, c) ELSE buff
       /\ UNCHANGED printed

\* What the reader gets when it does not go to sleep.
Receive(id, count) ==
  LET bytes == BytesRead(pipes[id], count)
  IN  IF waiting'[sch.current] = NONE
      THEN /\ received' = received \o bytes
           /\ IF program = "pipeline" THEN TakeChar(bytes[1]) ELSE UNCHANGED <<buff, printed>>
      ELSE UNCHANGED <<received, buff, printed>>

MarkWasRead == EOF \in Range(received)

\* fgets reads a byte at a time until the mark; test_pipes' reader reads once.
ReadInput(pid) ==
  LET fd == IF program = "pipeline" THEN STDIN ELSE ends[pid][1]
      count == IF program = "pipeline" THEN 1 ELSE ALL
  IN  /\ AtStep(pid, "read") /\ ~MarkWasRead
      /\ \/ /\ fds[pid][fd] = "pipe"
            /\ Read(fd, count)
            /\ \E entry \in pipe_fd_table :
                 entry.pid = pid /\ entry.fd = fd /\ Receive(entry.pipe_id, count)
            /\ Goto(pid, IF program = "pipeline" THEN "read" ELSE "unlink")
         \/ /\ fds[pid][fd] = "device" /\ SystemCall
            /\ Sleep(sch, pid, [op |-> "keyboard"])
            /\ Goto(pid, "keyboard")
            /\ UNCHANGED <<live, fds, pipes, pipe_fd_table, closing, stray, received, buff, printed>>
      /\ UNCHANGED <<program, command, pids, ends, lines, sent>>

\* test_pipes' reader unlinks the pipe while its own descriptors are open.
Unlink(pid) ==
  /\ AtStep(pid, "unlink") /\ PipeUnlink(PIPE_NAME)
  /\ Goto(pid, "exit")
  /\ UNCHANGED <<program, command, pids, ends, lines, sent, received, buff, printed>>

Return(pid) ==
  /\ \/ AtStep(pid, "write") /\ lines = <<>>
     \/ AtStep(pid, "read") /\ MarkWasRead
     \/ AtStep(pid, "exit")
  /\ Exit(0)
  /\ Goto(pid, "none")
  /\ UNCHANGED <<program, command, pids, ends, lines, sent, received, buff, printed>>

----------------------------------------------------------------------------

ContinueReading ==
  /\ ContinueRead
  /\ Receive(waiting[sch.current].pipe, waiting[sch.current].count)
  /\ UNCHANGED <<program, command, pc, pids, ends, lines, sent>>

\* What else the kernel goes on with.
Continue ==
  /\ \/ ContinueWrite \/ ContinueClose \/ ReturnFromWaitpid
     \/ CloseEnd \/ WriteEof \/ WaitToWriteEof \/ FinishClose \/ FinishKill
  /\ UNCHANGED programVars

TimerTick == Tick /\ UNCHANGED programVars

ProcessStep(pid) ==
  \/ pid = 0 /\ ExecuteLine
  \/ pid = 0 /\ \E child \in Pids : CreateCommand(child)
  \/ pid = 0 /\ \E i \in 1 .. 2 : Redirect(i) \/ WaitForCommand(i)
  \/ OpenItself(pid) \/ WriteLine(pid) \/ ReadInput(pid) \/ Unlink(pid) \/ Return(pid)

PipelineNext == (\E pid \in Pids : ProcessStep(pid)) \/ ContinueReading \/ Continue \/ TimerTick

PipelineSpec == PipelineInit /\ [][PipelineNext]_pipelineVars

\* The timer keeps interrupting, a process that is given the processor again and
\* again gets something done, and the kernel goes on where it stopped.
FairPipelineSpec ==
  /\ PipelineSpec
  /\ WF_pipelineVars(TimerTick) /\ WF_pipelineVars(ContinueReading) /\ WF_pipelineVars(Continue)
  /\ \A pid \in Pids : SF_pipelineVars(ProcessStep(pid))

----------------------------------------------------------------------------

(* The bytes come out of the pipe as they went in, none lost, none twice, none
   out of place, across the wrap of the circular buffer and its growth with
   bytes in it (pipe.c:334-347, :361-403). *)
PipedInOrder == IsPrefix(received, sent \o <<EOF>>)

(* The reader sees the end only when the writer has come to its end, and has got
   by then all it wrote into the pipe: the mark comes with the last descriptor
   for writing, not with those the shell closes after dup, and a pipe outlives
   its writer (pipe.c:466-476, test_pipes.c:40). *)
EndIsAfterAll == MarkWasRead => lines = <<>> /\ received = sent \o <<EOF>>

\* What a text is made of: the parts its newlines separate, the last one too.
PartsOf(text) ==
  LET breaks == {i \in DOMAIN text : text[i] = "\n"}
      ends_at == SetToSortSeq(breaks \cup {Len(text) + 1}, <)
  IN  [k \in DOMAIN ends_at |->
         SubSeq(text, IF k = 1 THEN 1 ELSE ends_at[k - 1] + 1, ends_at[k] - 1)]

\* What a command makes of a whole text: line by line, and of each what fits in BUFF_SIZE.
OutputFor(name, text) ==
  LET parts == PartsOf(text)
      kept(k) == SubSeq(parts[k], 1, Min({BUFF_SIZE - 1, Len(parts[k])}))
      \* what a line is printed as, with its newline
      shown(k) == IF name = "cat" THEN kept(k) ELSE SelectSeq(kept(k), LAMBDA c : c \in Vowels)
  IN  IF name = "wc"
      THEN [k \in 1 .. Len(parts) - (IF Last(parts) = <<>> THEN 1 ELSE 0) |-> "line"]
      ELSE FlattenSeq([k \in DOMAIN parts |-> IF kept(k) = <<>> THEN <<>> ELSE Append(shown(k), "\n")])

(* At the end of its input, the second command of a pipeline has shown of the
   first one's output what it is for, each line once and none more, wherever the
   reads and the writes met and whether the last line has an end or not
   (commands.c:399-410, :418-429, :438-453). *)
OutputIsRight ==
  program = "pipeline" /\ MarkWasRead => printed = OutputFor(command.second, sent)

\* The pipe was full when the last end for writing was closed: the writer that
\* exits never leaves its mark, and the shell, which closes the descriptor of the
\* reader, blocks the reader.
MarkDidNotFit ==
  \/ \E pid \in live : ~IsActive(sch, pid) /\ closing = NONE
  \/ \E pid \in Pids : waiting[pid].op = "close"

\* The second command has read the keyboard before the shell redirected it, or the
\* first was done before the second was created, which has got its pid.
WasTooEarly ==
  /\ program = "pipeline"
  /\ (pids[2] # NULL /\ pids[1] = pids[2]) \/ \E pid \in Pids : pc[pid] = "keyboard"

\* The second command does not read, because it was given the wrong arguments.
NobodyReads == command.is_piped /\ command.argc # 0

(* Whatever the two processes and the shell do when, the shell's prompt comes
   back (or the test ends), but for two races: the writer exits while the pipe is
   full, or the reader starts before it is redirected; and if there is no reader,
   the writer may wait for it (commands.c:86-202). *)
PromptReturns == <>(pc[0] = "prompt" \/ MarkDidNotFit \/ WasTooEarly \/ NobodyReads)
=============================================================================
