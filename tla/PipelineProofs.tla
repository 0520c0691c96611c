--------------------------- MODULE PipelineProofs ---------------------------
(***************************************************************************)
(* The shell's pipelines and test_pipes give their reader what the writer  *)
(* wrote, in order, and the end of it last, for every number of processes, *)
(* pipes and descriptors, every size of the buffer and every text.         *)
(*                                                                         *)
(* The inductive invariant says where the bytes are: what was received,    *)
(* then what is in the circular buffer, then what a writer asleep in the   *)
(* kernel has still in its hand, is what was sent, and after it as many    *)
(* end marks as were written (Flow).  A mark is only written when the      *)
(* writer is done, which takes the rest of the invariant: how far each     *)
(* process and the shell have come (Static), which process holds which end *)
(* of the pipe at each step of the shell's open, dup, close and close      *)
(* (Redirected, WriterHasEnd), and whose the closes in progress are        *)
(* (OwnCloses).                                                            *)
(*                                                                         *)
(* The invariant of Pipe holds until a pipe is freed that somebody has     *)
(* open (stray).  Here this only happens when nobody can reach a pipe any  *)
(* more (Frozen), and what was read stays as it is.                        *)
(***************************************************************************)
EXTENDS Pipeline, PipeProofs

----------------------------------------------------------------------------
\* Steps of process 0.
HalfConnected == {"dup_1", "close_rd_1", "close_wr_1", "open_2"}
Closing2 == {"dup_2", "close_rd_2", "close_wr_2", "wait_first"}
Ending == IF program = "pipeline" THEN Closing2 \cup {"wait_second", "prompt"}
                                  ELSE {"wait_second", "prompt"}
Steps ==
  IF program = "pipeline"
  THEN {"execute", "create_first", "create_second", "open_1"} \cup HalfConnected
         \cup Closing2 \cup {"wait_second", "prompt"}
  ELSE {"create_first", "wait_first", "create_second", "wait_second", "prompt"}
WriterSteps == IF program = "pipeline" THEN {"write"} ELSE {"open_to_write", "write"}
ReaderSteps == IF program = "pipeline" THEN {"read", "keyboard", "exit"}
               ELSE {"open_to_read", "read", "keyboard", "unlink", "exit"}
Unstarted == IF program = "pipeline" THEN {"execute", "create_first", "create_second"}
             ELSE {"create_first", "wait_first", "create_second"}

\* What things are.
Shapes ==
  /\ program \in {"pipeline", "testpipe"}
  /\ DOMAIN pc = Pids /\ DOMAIN ends = Pids /\ DOMAIN waiting = Contexts
  /\ pids[1] \in Pids \cup {NULL} /\ pids[2] \in Pids \cup {NULL}
  /\ lines \in Seq(Messages) /\ received \in Seq(Bytes)
  /\ sent \in Seq(Bytes) /\ EOF \notin Range(sent)

\* Which process is at which program, and whom process 0 has created so far.
Roles ==
  /\ pc[0] \in Steps
  /\ \A pid \in Pids \ {0} :
       /\ pc[pid] \in {"none"} \cup WriterSteps \cup ReaderSteps
       /\ pc[pid] \in WriterSteps => pids[1] = pid
       /\ pc[pid] \in ReaderSteps => pids[2] = pid
  /\ pc[0] \in {"execute", "create_first"} => pids[1] = NULL
  /\ pc[0] \in Unstarted \ {"execute", "create_first"} => pids[1] # NULL
  /\ pids[1] = NULL \/ pc[0] \in Unstarted => pids[2] = NULL

\* The writer was created and has come to its end.
WriterDone == pids[1] # NULL /\ \A pid \in Pids \ {0} : pc[pid] \notin WriterSteps

\* Nobody opens the pipe again.
NoMoreOpens ==
  /\ pc[0] \in Ending
  /\ \A pid \in Pids \ {0} : pc[pid] \notin {"open_to_write", "open_to_read"}

\* How far the writer and the reader have come.
Progress ==
  /\ WriterDone => lines = <<>>
  /\ received # <<>> => NoMoreOpens

\* Nobody reads or writes any more: the writer is done, and nobody has been left to read.
NoIO ==
  /\ program = "pipeline" /\ pc[0] \in HalfConnected \cup Closing2 \cup {"wait_second", "prompt"}
  /\ \A pid \in Pids \ {0} : pc[pid] \notin {"read", "write"}
  /\ \A k \in Contexts : waiting[k].op \notin {"read", "write"}

\* What was sent and received stays what it is.
Frozen == (NoMoreOpens /\ DOMAIN pipes = {}) \/ NoIO

\* A process that is at a program has a context.
Running == \A pid \in Pids \ {0} : pc[pid] # "none" => IsActive(sch, pid)

\* Those asleep in the middle of a read or write are the reader and the writer.
InCalls ==
  \A k \in Contexts :
    /\ waiting[k].op = "write" => k = pids[1] /\ k # 0 /\ pc[k] = "write"
    /\ waiting[k].op = "read" =>
         /\ k = pids[2] /\ k # 0 /\ pc[k] = (IF program = "pipeline" THEN "read" ELSE "unlink")
         /\ ~MarkWasRead
         /\ program = "pipeline" => waiting[k].count = 1 /\ NoMoreOpens
         /\ program = "testpipe" => received = <<>>

\* The shell and the processes of test_pipes hold descriptors where they keep them.
Redirected ==
  /\ pc[0] \in {"dup_1", "close_rd_1", "close_wr_1"} /\ pids[1] \in live =>
       ends[0][1] \in FDs \ 0 .. 2 /\ ends[0][2] \in FDs \ 0 .. 2
  /\ pc[0] \in {"dup_2", "close_rd_2", "close_wr_2"} /\ pids[2] \in live =>
       ends[0][1] \in FDs \ 0 .. 2 /\ ends[0][2] \in FDs \ 0 .. 2
  /\ program = "testpipe" =>
       \A pid \in Pids \ {0} : pc[pid] \in {"write", "read"} =>
         ends[pid][1] \in FDs /\ ends[pid][2] \in FDs
  /\ program = "pipeline" =>
       \A pid \in Pids : fds[pid][STDIN] = "pipe" => pc[0] \in Ending

\* There is one pipe.
ThePipe ==
  /\ DOMAIN pipes \subseteq {0}
  /\ 0 \in DOMAIN pipes =>
       /\ pipes[0].name = PIPE_NAME
       /\ pids[1] # NULL
       /\ program = "pipeline" => pc[0] \notin Unstarted \cup {"open_1"}

\* The descriptor a writer has its end of the pipe at.
Out(pid) == IF program = "testpipe" THEN ends[pid][2] ELSE IF pc[0] = "dup_1" THEN ends[0][2] ELSE STDOUT

\* The writer can write as long as there is something to write to.
WriterHasEnd ==
  \A pid \in Pids \ {0} :
    pc[pid] = "write" /\ (0 \in DOMAIN pipes \/ pc[0] \in HalfConnected)
    => PipeFd(pid, Out(pid), 0, FALSE) \in pipe_fd_table

\* A close that the shell does for a command it connects.
ShellCloses(c) ==
  /\ ~c.dying /\ c.fd \notin 0 .. 2 /\ program = "pipeline"
  /\ pc[0] \in {"close_wr_1", "open_2", "close_wr_2", "wait_first"}

\* A close in progress is the shell's or that of a process that dies; it writes the mark
\* when the writer is done.
OwnCloses ==
  /\ closing.op = "close" =>
       /\ IF closing.dying THEN sch.current = KILLED_PROC_PID ELSE sch.current = 0 /\ ShellCloses(closing)
       /\ closing.step = "eof" => WriterDone
       /\ program = "testpipe" /\ 0 \in DOMAIN pipes => WriterDone
  /\ \A k \in Contexts : waiting[k].op = "close" => k = 0 /\ ShellCloses(waiting[k]) /\ WriterDone

\* The processes of test_pipes open the pipe once, and unlink it when they have read.
TestPipe ==
  program = "testpipe" =>
    /\ \A pid \in Pids \ {0} :
         /\ pc[pid] \in {"open_to_write", "open_to_read"} =>
              \A entry \in pipe_fd_table : entry.pid # pid
         /\ pc[pid] = "open_to_write" /\ 0 \in DOMAIN pipes => pipes[0].bytes_to_read = 0
         /\ pc[pid] = "unlink" => waiting[pid].op = "read" \/ received # <<>>
         /\ pc[pid] = "exit" => received # <<>> /\ DOMAIN pipes = {}
         /\ pc[pid] = "read" => received = <<>>
    /\ \A e, f \in pipe_fd_table : e.pid = f.pid /\ ~e.allow_rd /\ ~f.allow_rd => e = f

\* What the writer, asleep in write, has still to put into the pipe.
Pending ==
  IF pids[1] \in Pids /\ waiting[pids[1]].op = "write" THEN waiting[pids[1]].data ELSE <<>>

\* What k closes of a last end for writing put into the pipe.
Marks(k) == [i \in 1 .. k |-> EOF]

\* The process that closes its descriptors has none for writing.
OnlyReading == closing.op = "close" => \A e \in pipe_fd_table : e.pid = closing.pid => e.allow_rd

\* The writer is at its loop.
Writing == \E pid \in Pids \ {0} : pc[pid] = "write"

\* What was received, what is in the pipe and what the writer has in its hand are what was
\* sent, and k marks.
FlowWith(k) ==
  /\ received \o Contents(pipes[0]) \o Pending = sent \o Marks(k)
  /\ k > 0 => WriterDone
  /\ program = "testpipe" =>
       /\ k <= 1 /\ (k = 1 => OnlyReading)
       /\ closing.op = "close" /\ closing.step = "eof" => k = 0 /\ OnlyReading

\* Where the bytes are.
Flow ==
  /\ 0 \in DOMAIN pipes => \E k \in Nat : FlowWith(k)
  /\ 0 \in DOMAIN pipes /\ received = <<>> => pipes[0].read_idx = 0
  /\ 0 \notin DOMAIN pipes => received # <<>> \/ (sent = <<>> /\ (program = "testpipe" => ~Writing))

\* The part of the invariant that holds whatever becomes of the pipe.
Static == Shapes /\ Roles /\ Progress /\ PipedInOrder /\ EndIsAfterAll

\* The part that holds until somebody's pipe is freed.
Connected ==
  /\ Running /\ InCalls /\ Redirected /\ ThePipe /\ WriterHasEnd /\ OwnCloses /\ TestPipe /\ Flow

----------------------------------------------------------------------------
(* Sequences *)

\* Marks are marks.
LEMMA MarksFacts ==
  ASSUME NEW k \in Nat
  PROVE  /\ Marks(k) \in Seq(Bytes) /\ Len(Marks(k)) = k
         /\ \A i \in 1 .. k : Marks(k)[i] = EOF
BY DEF Marks, Bytes

\* What was read is, but for the last mark, what was written.
LEMMA FlowPrefix ==
  ASSUME NEW s \in Seq(Bytes), NEW r \in Seq(Bytes), NEW rest \in Seq(Bytes), NEW k \in Nat,
         r \o rest = s \o Marks(k), Len(r) <= Len(s) + 1
  PROVE  IsPrefix(r, s \o <<EOF>>)
<1> DEFINE m == Marks(k)
           end == <<EOF>>
           both == s \o end
           n == Len(r)
<1>1. m \in Seq(Bytes) /\ Len(m) = k /\ \A i \in 1 .. k : m[i] = EOF
  BY MarksFacts
<1>2. end \in Seq(Bytes) /\ Len(end) = 1 /\ end[1] = EOF
  BY BytesFacts
<1>3. Len(s) \in Nat /\ Len(r) \in Nat /\ Len(rest) \in Nat
  BY LenProperties
<1> HIDE DEF m, end
<1>4. /\ both \in Seq(Bytes) /\ Len(both) = Len(s) + 1
      /\ \A i \in 1 .. Len(s) + 1 : both[i] = IF i <= Len(s) THEN s[i] ELSE end[i - Len(s)]
  <2>1. Len(s) + Len(end) = Len(s) + 1
    BY <1>2
  <2> QED BY <1>2, <2>1, ConcatProperties
<1>5. /\ Len(s \o m) = Len(s) + k
      /\ \A i \in 1 .. Len(s) + k : (s \o m)[i] = IF i <= Len(s) THEN s[i] ELSE m[i - Len(s)]
  BY <1>1, ConcatProperties
<1>6. /\ Len(r \o rest) = Len(r) + Len(rest)
      /\ \A i \in 1 .. Len(r) + Len(rest) : (r \o rest)[i] = IF i <= Len(r) THEN r[i] ELSE rest[i - Len(r)]
  BY ConcatProperties
<1>7. r \o rest = s \o m /\ Len(r) + Len(rest) = Len(s) + k
  BY <1>5, <1>6 DEF m
<1> HIDE DEF both
<1>8. \A i \in 1 .. n : r[i] = both[i]
  <2> SUFFICES ASSUME NEW i \in 1 .. n PROVE r[i] = both[i]
    OBVIOUS
  <2>1. i \in 1 .. Len(r) + Len(rest) /\ i \in 1 .. Len(s) + k /\ i \in 1 .. Len(s) + 1 /\ i <= Len(r)
    BY <1>3, <1>7
  <2>2. r[i] = (s \o m)[i]
    BY <1>6, <1>7, <2>1
  <2>3. CASE i <= Len(s)
    BY <1>4, <1>5, <2>1, <2>2, <2>3
  <2>4. CASE ~(i <= Len(s))
    <3>1. i = Len(s) + 1 /\ i - Len(s) = 1 /\ 1 \in 1 .. k
      BY <1>3, <1>7, <2>1, <2>4
    <3> QED BY <1>1, <1>2, <1>4, <1>5, <2>1, <2>2, <2>4, <3>1
  <2> QED BY <2>3, <2>4
<1> DEFINE one == 1
<1>9. /\ one \in 1 .. Len(r) + 1 /\ n \in one - 1 .. Len(r) /\ n - one + 1 = n
      /\ one \in 1 .. Len(both) + 1 /\ n \in one - 1 .. Len(both)
      /\ \A i \in 1 .. n : one + i - 1 = i
  BY <1>3, <1>4
<1> HIDE DEF one
<1>10. /\ SubSeq(r, one, n) \in Seq(Bytes) /\ Len(SubSeq(r, one, n)) = n - one + 1
       /\ \A i \in 1 .. n - one + 1 : SubSeq(r, one, n)[i] = r[one + i - 1]
  BY <1>9, SegmentFacts
<1>11. /\ SubSeq(both, one, n) \in Seq(Bytes) /\ Len(SubSeq(both, one, n)) = n - one + 1
       /\ \A i \in 1 .. n - one + 1 : SubSeq(both, one, n)[i] = both[one + i - 1]
  BY <1>4, <1>9, SegmentFacts
<1>12. SubSeq(r, one, n) = SubSeq(both, one, n)
  <2> DEFINE a == SubSeq(r, one, n)
             b == SubSeq(both, one, n)
  <2>1. \A i \in 1 .. n : a[i] = b[i]
    BY <1>8, <1>9, <1>10, <1>11
  <2>2. a \in Seq(Bytes) /\ b \in Seq(Bytes) /\ Len(a) = n /\ Len(b) = n
    BY <1>9, <1>10, <1>11
  <2> HIDE DEF a, b
  <2>3. a = b
    BY <2>1, <2>2, SeqEqual
  <2> QED BY <2>3 DEF a, b
<1> QED BY <1>4, <1>12 DEF IsPrefix, one, both, end

\* The elements of a prefix.
LEMMA PrefixFacts ==
  ASSUME NEW r \in Seq(Bytes), NEW t \in Seq(Bytes), IsPrefix(r, t)
  PROVE  Len(r) <= Len(t) /\ \A i \in 1 .. Len(r) : r[i] = t[i]
<1> DEFINE one == 1
           n == Len(r)
<1>1. Len(r) \in Nat /\ Len(t) \in Nat
  BY LenProperties
<1>2. n <= Len(t) /\ SubSeq(r, one, n) = SubSeq(t, one, n)
  BY DEF IsPrefix
<1>3. /\ one \in 1 .. Len(r) + 1 /\ n \in one - 1 .. Len(r) /\ n - one + 1 = n
      /\ one \in 1 .. Len(t) + 1 /\ n \in one - 1 .. Len(t)
      /\ \A i \in 1 .. n : one + i - 1 = i
  BY <1>1, <1>2
<1> HIDE DEF one, n
<1>4. \A i \in 1 .. n - one + 1 : SubSeq(r, one, n)[i] = r[one + i - 1]
  BY <1>3, SegmentFacts
<1>5. \A i \in 1 .. n - one + 1 : SubSeq(t, one, n)[i] = t[one + i - 1]
  BY <1>3, SegmentFacts
<1>6. \A i \in 1 .. n : r[i] = t[i]
  BY <1>2, <1>3, <1>4, <1>5
<1> QED BY <1>2, <1>6 DEF n

\* A mark is only where one was put.
LEMMA WhereTheMarkIs ==
  ASSUME NEW s \in Seq(Bytes), EOF \notin Range(s), NEW k \in Nat,
         NEW i \in 1 .. Len(s) + k, (s \o Marks(k))[i] = EOF
  PROVE  i > Len(s)
<1>1. Marks(k) \in Seq(Bytes) /\ Len(Marks(k)) = k
  BY MarksFacts
<1>2. (s \o Marks(k))[i] = IF i <= Len(s) THEN s[i] ELSE Marks(k)[i - Len(s)]
  BY <1>1, ConcatProperties
<1>3. Len(s) \in Nat
  BY LenProperties
<1>4. CASE i <= Len(s)
  <2>1. i \in DOMAIN s
    BY <1>3, <1>4, LenProperties
  <2> QED BY <1>2, <1>4, <2>1 DEF Range
<1> QED BY <1>3, <1>4

\* The mark of IsPrefix is one of them.
LEMMA OneMark == <<EOF>> = Marks(1)
<1>1. <<EOF>> \in Seq(Bytes) /\ Len(<<EOF>>) = 1 /\ <<EOF>>[1] = EOF
  BY BytesFacts
<1>2. Marks(1) \in Seq(Bytes) /\ Len(Marks(1)) = 1 /\ \A i \in 1 .. 1 : Marks(1)[i] = EOF
  BY MarksFacts
<1>3. \A i \in 1 .. 1 : <<EOF>>[i] = Marks(1)[i]
  BY <1>2
<1> DEFINE a == <<EOF>>
           b == Marks(1)
<1> HIDE DEF a, b
<1>4. a = b
  BY <1>1, <1>2, <1>3, SeqEqual DEF a, b
<1> QED BY <1>4 DEF a, b

\* Who has read the mark has read all.
LEMMA MarkIsLast ==
  ASSUME NEW s \in Seq(Bytes), EOF \notin Range(s), NEW r \in Seq(Bytes),
         IsPrefix(r, s \o <<EOF>>), EOF \in Range(r)
  PROVE  r = s \o <<EOF>>
<1> DEFINE both == s \o <<EOF>>
<1>1. both \in Seq(Bytes) /\ Len(both) = Len(s) + 1
  <2> DEFINE end == <<EOF>>
  <2>1. end \in Seq(Bytes) /\ Len(s) + Len(end) = Len(s) + 1
    BY BytesFacts
  <2> HIDE DEF end
  <2>2. s \o end \in Seq(Bytes) /\ Len(s \o end) = Len(s) + Len(end)
    BY <2>1, ConcatProperties
  <2> QED BY <2>1, <2>2 DEF end
<1>2. Len(s) \in Nat /\ Len(r) \in Nat /\ DOMAIN r = 1 .. Len(r)
  BY LenProperties
<1>3. both = s \o Marks(1)
  BY OneMark
<1> HIDE DEF both
<1>4. Len(r) <= Len(both) /\ \A i \in 1 .. Len(r) : r[i] = both[i]
  BY <1>1, PrefixFacts DEF both
<1>5. PICK i \in 1 .. Len(r) : r[i] = EOF
  BY <1>2 DEF Range
<1>6. i > Len(s)
  <2>1. i \in 1 .. Len(s) + 1 /\ both[i] = EOF
    BY <1>1, <1>2, <1>4, <1>5
  <2> QED BY <1>3, <2>1, WhereTheMarkIs
<1>7. Len(r) = Len(both)
  <2>1. Len(both) = Len(s) + 1 /\ Len(r) <= Len(both) /\ i <= Len(r) /\ i \in Nat /\ Len(s) \in Nat /\ Len(r) \in Nat
    BY <1>1, <1>2, <1>4
  <2> HIDE DEF both
  <2> QED BY <1>6, <2>1
<1>8. r = both
  BY <1>1, <1>4, <1>7, SeqEqual
<1> QED BY <1>8 DEF both

\* As long as the mark was not read, more may be written.
LEMMA PrefixGrows ==
  ASSUME NEW s \in Seq(Bytes), NEW r \in Seq(Bytes), NEW data \in Seq(Bytes),
         IsPrefix(r, s \o <<EOF>>), EOF \notin Range(r)
  PROVE  Len(r) <= Len(s) /\ IsPrefix(r, (s \o data) \o <<EOF>>)
<1> DEFINE both == s \o <<EOF>>
           end == data \o <<EOF>>
           more == s \o end
           n == Len(r)
<1>1. /\ both \in Seq(Bytes) /\ Len(both) = Len(s) + 1
      /\ \A i \in 1 .. Len(s) + 1 : both[i] = IF i <= Len(s) THEN s[i] ELSE <<EOF>>[i - Len(s)]
  <2> DEFINE mark == <<EOF>>
  <2>1. mark \in Seq(Bytes) /\ Len(s) + Len(mark) = Len(s) + 1
    BY BytesFacts
  <2> HIDE DEF mark
  <2>2. /\ s \o mark \in Seq(Bytes) /\ Len(s \o mark) = Len(s) + Len(mark)
        /\ \A i \in 1 .. Len(s) + Len(mark) :
             (s \o mark)[i] = IF i <= Len(s) THEN s[i] ELSE mark[i - Len(s)]
    BY <2>1, ConcatProperties
  <2> QED BY <2>1, <2>2 DEF mark
<1>2. Len(s) \in Nat /\ Len(r) \in Nat /\ DOMAIN r = 1 .. Len(r)
  BY LenProperties
<1>3. end \in Seq(Bytes) /\ Len(end) \in Nat
  BY BytesFacts, ConcatProperties, LenProperties
<1>4. (s \o data) \o <<EOF>> = more
  BY BytesFacts, ConcatAssociative
<1> HIDE DEF end
<1>5. /\ more \in Seq(Bytes) /\ Len(more) = Len(s) + Len(end)
      /\ \A i \in 1 .. Len(s) + Len(end) : more[i] = IF i <= Len(s) THEN s[i] ELSE end[i - Len(s)]
  BY <1>3, ConcatProperties
<1> HIDE DEF both, more
<1>6. Len(r) <= Len(both) /\ \A i \in 1 .. Len(r) : r[i] = both[i]
  BY <1>1, PrefixFacts DEF both
<1>7. n <= Len(s)
  <2> SUFFICES ASSUME ~(n <= Len(s)) PROVE FALSE
    OBVIOUS
  <2>1. n = Len(s) + 1 /\ n \in 1 .. Len(r) /\ n - Len(s) = 1 /\ n \in 1 .. Len(s) + 1
    <3>1. Len(both) = Len(s) + 1 /\ n <= Len(both) /\ Len(s) \in Nat /\ n \in Nat /\ n = Len(r)
      BY <1>1, <1>2, <1>6
    <3> HIDE DEF n
    <3> QED BY <3>1
  <2>2. r[n] = EOF
    BY <1>1, <1>6, <2>1
  <2> QED BY <1>2, <2>1, <2>2 DEF Range
<1>8. \A i \in 1 .. n : r[i] = more[i]
  <2>1. \A i \in 1 .. n : i \in 1 .. Len(s) + 1 /\ i \in 1 .. Len(s) + Len(end) /\ i <= Len(s)
    BY <1>2, <1>3, <1>7
  <2> QED BY <1>1, <1>5, <1>6, <2>1
<1> DEFINE one == 1
<1>9. /\ one \in 1 .. Len(r) + 1 /\ n \in one - 1 .. Len(r) /\ n - one + 1 = n
      /\ one \in 1 .. Len(more) + 1 /\ n \in one - 1 .. Len(more)
      /\ \A i \in 1 .. n : one + i - 1 = i
  BY <1>2, <1>3, <1>5, <1>7
<1> HIDE DEF one
<1>10. /\ SubSeq(r, one, n) \in Seq(Bytes) /\ Len(SubSeq(r, one, n)) = n - one + 1
       /\ \A i \in 1 .. n - one + 1 : SubSeq(r, one, n)[i] = r[one + i - 1]
  BY <1>9, SegmentFacts
<1>11. /\ SubSeq(more, one, n) \in Seq(Bytes) /\ Len(SubSeq(more, one, n)) = n - one + 1
       /\ \A i \in 1 .. n - one + 1 : SubSeq(more, one, n)[i] = more[one + i - 1]
  BY <1>5, <1>9, SegmentFacts
<1>12. SubSeq(r, one, n) = SubSeq(more, one, n)
  <2> DEFINE a == SubSeq(r, one, n)
             b == SubSeq(more, one, n)
  <2>1. \A i \in 1 .. n : a[i] = b[i]
    BY <1>8, <1>9, <1>10, <1>11
  <2>2. a \in Seq(Bytes) /\ b \in Seq(Bytes) /\ Len(a) = n /\ Len(b) = n
    BY <1>9, <1>10, <1>11
  <2> HIDE DEF a, b
  <2>3. a = b
    BY <2>1, <2>2, SeqEqual
  <2> QED BY <2>3 DEF a, b
<1>13. n <= Len(more)
  BY <1>2, <1>3, <1>5, <1>7
<1> QED BY <1>4, <1>7, <1>12, <1>13 DEF IsPrefix, one

----------------------------------------------------------------------------
(* What Pipe's invariant needs *)

\* What the assumptions say of the names and numbers the programs use.
LEMMA PipelineFacts ==
  /\ PIPE_NAME \in Names /\ PIPE_NAME # NULL /\ STDIN \in FDs /\ STDOUT \in FDs
  /\ STDIN \in DupTargets /\ STDOUT \in DupTargets /\ STDIN # STDOUT
  /\ 1 \in Counts /\ ALL \in Counts /\ 0 \in Pids /\ NULL \notin Contexts
BY PipelineAssumption, PipeAssumption, ConstantFacts
   DEF PIPE_NAME, STDIN, STDOUT, FDs, Contexts, Pids, NULL, KERNEL_PROC_PID

\* Nothing happens to the pipes when the process is gone.
LEMMA FailsKeepsGood ==
  ASSUME Good, NEW pid, Fails(pid)
  PROVE  Good'
BY NothingChanges DEF Fails, vars, pipeVars

\* What the shell does at each step of a redirection.
LEMMA RedirectCases ==
  ASSUME NEW i \in 1 .. 2, Redirect(i)
  PROVE  /\ UNCHANGED <<program, command, pids, lines, sent, received, buff, printed>>
         /\ \/ /\ AtStep(0, IF i = 1 THEN "open_1" ELSE "open_2")
               /\ Goto(0, IF i = 1 THEN "dup_1" ELSE "dup_2")
               /\ PipeOpen(pids[i], PIPE_NAME)
               /\ ends' = IF Alive(pids[i])
                          THEN [ends EXCEPT ![0] =
                                  <<Min(FreeFds(pids[i])),
                                    Min(FreeFds(pids[i]) \ {Min(FreeFds(pids[i]))})>>]
                          ELSE ends
            \/ /\ AtStep(0, IF i = 1 THEN "dup_1" ELSE "dup_2")
               /\ Goto(0, IF i = 1 THEN "close_rd_1" ELSE "close_rd_2")
               /\ \/ Dup(pids[i], IF i = 1 THEN ends[0][2] ELSE ends[0][1], IF i = 1 THEN STDOUT ELSE STDIN)
                  \/ Fails(pids[i])
               /\ UNCHANGED ends
            \/ /\ AtStep(0, IF i = 1 THEN "close_rd_1" ELSE "close_rd_2")
               /\ Goto(0, IF i = 1 THEN "close_wr_1" ELSE "close_wr_2")
               /\ Close(pids[i], ends[0][1]) \/ Fails(pids[i])
               /\ UNCHANGED ends
            \/ /\ AtStep(0, IF i = 1 THEN "close_wr_1" ELSE "close_wr_2")
               /\ Goto(0, IF i = 1 THEN "open_2" ELSE "wait_first")
               /\ Close(pids[i], ends[0][2]) \/ Fails(pids[i])
               /\ UNCHANGED ends
<1>1. \A a, b : <<a, b>>[i] = IF i = 1 THEN a ELSE b
  OBVIOUS
<1> QED BY <1>1 DEF Redirect

\* Waiting for a command, or for one that is gone.
LEMMA WaitCases ==
  ASSUME NEW i \in 1 .. 2, WaitForCommand(i)
  PROVE  /\ AtStep(0, IF i = 1 THEN "wait_first" ELSE "wait_second")
         /\ Goto(0, IF i = 1 /\ program = "testpipe" THEN "create_second"
                    ELSE IF i = 1 /\ command.is_piped THEN "wait_second" ELSE "prompt")
         /\ Waitpid(pids[i]) \/ Fails(pids[i])
         /\ UNCHANGED <<program, command, pids, ends, lines, sent, received, buff, printed>>
<1>1. \A a, b : <<a, b>>[i] = IF i = 1 THEN a ELSE b
  OBVIOUS
<1> QED BY <1>1 DEF WaitForCommand

\* The calls the programs make keep the invariant of Pipe.
LEMMA RedirectKeepsGood ==
  ASSUME Good, Shapes, Roles, Redirected, NEW i \in 1 .. 2, Redirect(i), ~stray'
  PROVE  Good'
<1> DEFINE pid == pids[i]
<1>1. live \subseteq Pids /\ pipe_fd_table \subseteq PipeFds
  BY DEF Good, Typed
<1>2. CASE PipeOpen(pid, PIPE_NAME)
  <2>1. CASE OpenFor(pid, PIPE_NAME)
    <3>1. pid \in Pids
      BY <1>1, <2>1 DEF OpenFor, Alive
    <3> QED BY <2>1, <3>1, OpenForKeepsGood, PipelineFacts
  <2>2. CASE OpenForTheDead(pid, PIPE_NAME)
    BY <2>2, OpenForTheDeadKeepsGood
  <2> QED BY <1>2, <2>1, <2>2 DEF PipeOpen
<1>3. ASSUME NEW from, NEW to \in DupTargets, Dup(pid, from, to)
      PROVE  Good'
  <2>1. pid \in Pids
    BY <1>1, <1>3 DEF Dup, Alive
  <2>2. from \in FDs
    BY <1>1, <1>3 DEF Dup, DupEnd, PipeFds
  <2> QED BY <1>3, <2>1, <2>2, DupKeepsGood
<1>4. CASE Fails(pid)
  BY <1>4, FailsKeepsGood
<1>5. ASSUME NEW fd, fd = ends[0][1] \/ fd = ends[0][2], Close(pid, fd),
             pc[0] \in (IF i = 1 THEN {"close_rd_1", "close_wr_1"} ELSE {"close_rd_2", "close_wr_2"})
      PROVE  Good'
  <2>1. pid \in live /\ pid \in Pids
    BY <1>1, <1>5 DEF Close, Alive
  <2>2. ends[0][1] \in FDs /\ ends[0][2] \in FDs
    <3>1. CASE i = 1
      BY <1>5, <2>1, <3>1 DEF Redirected
    <3>2. CASE i = 2
      BY <1>5, <2>1, <3>2 DEF Redirected
    <3> QED BY <3>1, <3>2
  <2> QED BY <1>5, <2>1, <2>2, CloseKeepsGood
<1>6. STDOUT \in DupTargets /\ STDIN \in DupTargets
  BY PipelineFacts
<1>7. \/ PipeOpen(pid, PIPE_NAME)
      \/ \E from : Dup(pid, from, STDOUT) \/ Dup(pid, from, STDIN)
      \/ Fails(pid)
      \/ /\ pc[0] \in (IF i = 1 THEN {"close_rd_1", "close_wr_1"} ELSE {"close_rd_2", "close_wr_2"})
         /\ Close(pid, ends[0][1]) \/ Close(pid, ends[0][2])
  <2> DEFINE at(first, second) == IF i = 1 THEN first ELSE second
             from == at(ends[0][2], ends[0][1])
             to == at(STDOUT, STDIN)
  <2>1. \/ PipeOpen(pid, PIPE_NAME)
        \/ Dup(pid, from, to)
        \/ Fails(pid)
        \/ /\ AtStep(0, at("close_rd_1", "close_rd_2")) \/ AtStep(0, at("close_wr_1", "close_wr_2"))
           /\ Close(pid, ends[0][1]) \/ Close(pid, ends[0][2])
    BY RedirectCases, Zenon
  <2>2. to \in {STDOUT, STDIN}
    OBVIOUS
  <2> HIDE DEF to, from, pid
  <2>3. Dup(pid, from, to) => \E f : Dup(pid, f, STDOUT) \/ Dup(pid, f, STDIN)
    BY <2>2
  <2>4. AtStep(0, at("close_rd_1", "close_rd_2")) \/ AtStep(0, at("close_wr_1", "close_wr_2"))
        => pc[0] \in (IF i = 1 THEN {"close_rd_1", "close_wr_1"} ELSE {"close_rd_2", "close_wr_2"})
    BY DEF AtStep
  <2> QED BY <2>1, <2>3, <2>4
<1> HIDE DEF pid
<1> QED BY <1>2, <1>3, <1>4, <1>5, <1>6, <1>7

\* So does waiting,
LEMMA WaitForCommandKeepsGood ==
  ASSUME Good, NEW i \in 1 .. 2, WaitForCommand(i)
  PROVE  Good'
<1>1. Waitpid(pids[i]) \/ Fails(pids[i])
  BY WaitCases
<1>2. CASE Waitpid(pids[i])
  <2>1. pids[i] \in Pids
    BY <1>2 DEF Waitpid, Good, Typed
  <2> QED BY <1>2, <2>1, WaitpidKeepsGood
<1> QED BY <1>1, <1>2, FailsKeepsGood

\* A process that is where it may use a descriptor.
LEMMA OwnFds ==
  ASSUME Redirected, NEW pid \in Pids \ {0}, pc[pid] \in {"read", "write"}, Shapes
  PROVE  /\ (IF program = "pipeline" THEN STDIN ELSE ends[pid][1]) \in FDs
         /\ (IF program = "pipeline" THEN STDOUT ELSE ends[pid][2]) \in FDs
BY PipelineFacts DEF Redirected, Shapes

\* so do the calls of the commands,
LEMMA CommandsKeepGood ==
  ASSUME Good, Shapes, Roles, Redirected, NEW pid \in Pids, ~stray',
         OpenItself(pid) \/ WriteLine(pid) \/ ReadInput(pid) \/ Unlink(pid) \/ Return(pid)
  PROVE  Good'
<1>1. pid # 0 \/ pc[0] \in {"none", "open_to_write", "open_to_read", "write", "read", "unlink", "exit"}
  BY DEF OpenItself, WriteLine, ReadInput, Unlink, Return, AtStep
<1>2. pid # 0
  BY DEF OpenItself, WriteLine, ReadInput, Unlink, Return, AtStep, Roles, Steps, HalfConnected, Closing2
<1>3. CASE OpenItself(pid)
  <2>1. PipeOpen(pid, PIPE_NAME)
    BY <1>3 DEF OpenItself
  <2>2. OpenFor(pid, PIPE_NAME) => Good'
    BY OpenForKeepsGood, PipelineFacts
  <2>3. OpenForTheDead(pid, PIPE_NAME) => Good'
    BY OpenForTheDeadKeepsGood
  <2> QED BY <2>1, <2>2, <2>3 DEF PipeOpen
<1>4. CASE WriteLine(pid)
  <2> DEFINE fd == IF program = "pipeline" THEN STDOUT ELSE ends[pid][2]
             data == Head(lines)
  <2>1. fd \in FDs
    BY <1>2, <1>4, OwnFds DEF WriteLine, AtStep
  <2>2. data \in Messages
    BY <1>4 DEF WriteLine, Shapes
  <2>3. Write(fd, data) \/ UNCHANGED vars
    BY <1>4 DEF WriteLine, PutString
  <2> HIDE DEF fd, data
  <2>4. Write(fd, data) => Good'
    BY <2>1, <2>2, WriteKeepsGood
  <2>5. UNCHANGED vars => Good'
    BY NothingChanges DEF vars, pipeVars
  <2> QED BY <2>3, <2>4, <2>5
<1>5. CASE ReadInput(pid)
  <2> DEFINE fd == IF program = "pipeline" THEN STDIN ELSE ends[pid][1]
             count == IF program = "pipeline" THEN 1 ELSE ALL
             what == [op |-> "keyboard"]
  <2>1. fd \in FDs
    BY <1>2, <1>5, OwnFds DEF ReadInput, AtStep
  <2>2. count \in Counts
    BY PipelineFacts
  <2>3. \/ Read(fd, count)
        \/ /\ sch.current = pid /\ SystemCall /\ Sleep(sch, pid, what)
           /\ UNCHANGED <<live, fds, pipes, pipe_fd_table, closing>>
    BY <1>5 DEF ReadInput, AtStep
  <2>4. what \in Calls /\ what.op = "keyboard"
    BY CallFacts
  <2> HIDE DEF fd, count, what
  <2>5. Read(fd, count) => Good'
    BY <2>1, <2>2, ReadKeepsGood
  <2>6. CASE /\ sch.current = pid /\ SystemCall /\ Sleep(sch, pid, what)
             /\ UNCHANGED <<live, fds, pipes, pipe_fd_table, closing>>
    BY <2>4, <2>6, NapKeepsGood
  <2> QED BY <2>3, <2>5, <2>6
<1>6. CASE Unlink(pid)
  BY <1>6, PipeUnlinkKeepsGood, PipelineFacts DEF Unlink
<1>7. CASE Return(pid)
  BY <1>7, ExitKeepsGood, SchedulerAssumption DEF Return
<1> QED BY <1>3, <1>4, <1>5, <1>6, <1>7

\* and so does every step.
LEMMA StepKeepsGood ==
  ASSUME Good, Shapes, Roles, Redirected, PipelineNext, ~stray'
  PROVE  Good'
<1>1. CASE \E pid \in Pids : ProcessStep(pid)
  <2>1. PICK pid \in Pids : ProcessStep(pid)
    BY <1>1
  <2>2. CASE ExecuteLine
    BY <2>2, NothingChanges DEF ExecuteLine, vars, pipeVars
  <2>3. CASE \E child \in Pids : CreateCommand(child)
    BY <2>3, CreateKeepsGood, ConstantFacts DEF CreateCommand
  <2>4. CASE \E i \in 1 .. 2 : Redirect(i) \/ WaitForCommand(i)
    BY <2>4, RedirectKeepsGood, WaitForCommandKeepsGood
  <2>5. CASE OpenItself(pid) \/ WriteLine(pid) \/ ReadInput(pid) \/ Unlink(pid) \/ Return(pid)
    BY <2>5, CommandsKeepGood
  <2> QED BY <2>1, <2>2, <2>3, <2>4, <2>5 DEF ProcessStep
<1>2. CASE ContinueReading
  BY <1>2, ContinueReadKeepsGood DEF ContinueReading
<1>3. CASE Continue
  <2>1. \/ ContinueWrite \/ ContinueClose \/ ReturnFromWaitpid
        \/ CloseEnd \/ WriteEof \/ WaitToWriteEof \/ FinishClose \/ FinishKill
    BY <1>3 DEF Continue
  <2> QED
    BY <2>1, ContinueWriteKeepsGood, ContinueCloseKeepsGood, ReturnFromWaitpidKeepsGood, CloseEndKeepsGood,
       WriteEofKeepsGood, WaitToWriteEofKeepsGood, FinishCloseKeepsGood, FinishKillKeepsGood
<1>4. CASE TimerTick
  BY <1>4, TickKeepsGood DEF TimerTick
<1> QED BY <1>1, <1>2, <1>3, <1>4 DEF PipelineNext

----------------------------------------------------------------------------
(* The programs *)

\* A process goes on to its next step.
LEMMA GotoFacts ==
  ASSUME Shapes, NEW pid \in Pids, NEW step, Goto(pid, step)
  PROVE  /\ DOMAIN pc' = Pids /\ pc'[pid] = step
         /\ \A q \in Pids : q # pid => pc'[q] = pc[q]
BY DEF Shapes, Goto

\* The step process 0 is at.
LEMMA ShellIsAt ==
  ASSUME Roles, NEW pid,
         \/ AtStep(pid, "write") \/ AtStep(pid, "read") \/ AtStep(pid, "exit") \/ AtStep(pid, "unlink")
         \/ AtStep(pid, "open_to_write") \/ AtStep(pid, "open_to_read")
  PROVE  pid # 0
BY DEF AtStep, Roles, Steps, HalfConnected, Closing2

\* Where each action takes the programs.
LEMMA ExecuteLineMoves ==
  ASSUME Shapes, Roles, ExecuteLine
  PROVE  /\ program = "pipeline" /\ pc[0] = "execute" /\ pids' = pids /\ program' = program /\ ends' = ends
         /\ pc'[0] \in {"prompt", "create_first"}
         /\ DOMAIN pc' = Pids /\ \A q \in Pids \ {0} : pc'[q] = pc[q]
<1>1. \E step \in {"prompt", "create_first"} : Goto(0, step)
  BY DEF ExecuteLine
<1>2. pc[0] = "execute"
  BY DEF ExecuteLine, AtStep
<1>3. program = "pipeline"
  BY <1>2 DEF Roles, Steps, Shapes
<1> QED BY <1>1, <1>2, <1>3, GotoFacts, PipelineFacts DEF ExecuteLine

\* The shell, and the process it creates.
LEMMA CreateCommandMoves ==
  ASSUME Shapes, Roles, NEW pid \in Pids, pid # 0, CreateCommand(pid)
  PROVE  /\ program' = program /\ ends' = ends
         /\ DOMAIN pc' = Pids /\ \A q \in Pids \ {0, pid} : pc'[q] = pc[q]
         /\ \/ /\ pc[0] = "create_first" /\ pids'[1] = pid /\ pids'[2] = NULL
               /\ IF program = "testpipe" THEN pc'[0] = "wait_first"
                  ELSE pc'[0] \in {"create_second", "wait_first", "prompt"}
               /\ pc'[pid] = IF program = "pipeline" THEN "write" ELSE "open_to_write"
            \/ /\ pc[0] = "create_second" /\ pids'[1] = pids[1] /\ pids'[2] = pid
               /\ pc'[0] = IF program = "pipeline" THEN "open_1" ELSE "wait_second"
               /\ IF program = "testpipe" THEN pc'[pid] = "open_to_read" ELSE pc'[pid] \in {"read", "exit"}
<1>1. UNCHANGED <<program, ends>>
  BY DEF CreateCommand
<1>2. AfterFirst \in (IF program = "testpipe" THEN {"wait_first"} ELSE {"create_second", "wait_first", "prompt"})
  BY DEF AfterFirst
<1>3. StartOfSecond \in (IF program = "testpipe" THEN {"open_to_read"} ELSE {"read", "exit"})
  BY DEF StartOfSecond
<1>4. DOMAIN pc = Pids /\ 0 \in Pids
  BY PipelineFacts DEF Shapes
<1>5. CASE /\ AtStep(0, "create_first")
           /\ pc' = [pc EXCEPT ![0] = AfterFirst,
                               ![pid] = IF program = "pipeline" THEN "write" ELSE "open_to_write"]
           /\ pids' = <<pid, NULL>>
  <2> DEFINE after == AfterFirst
             step == IF program = "pipeline" THEN "write" ELSE "open_to_write"
  <2>1. pc' = [pc EXCEPT ![0] = after, ![pid] = step] /\ pids'[1] = pid /\ pids'[2] = NULL
    BY <1>5
  <2> HIDE DEF after, step
  <2>2. /\ DOMAIN pc' = Pids /\ pc'[0] = after /\ pc'[pid] = step
        /\ \A q \in Pids \ {0, pid} : pc'[q] = pc[q]
    BY <1>4, <2>1
  <2> QED BY <1>1, <1>2, <1>5, <2>1, <2>2 DEF after, step, AtStep
<1>6. CASE /\ AtStep(0, "create_second")
           /\ pc' = [pc EXCEPT ![0] = IF program = "pipeline" THEN "open_1" ELSE "wait_second",
                               ![pid] = StartOfSecond]
           /\ pids' = <<pids[1], pid>>
  <2> DEFINE start == StartOfSecond
             step == IF program = "pipeline" THEN "open_1" ELSE "wait_second"
  <2>1. pc' = [pc EXCEPT ![0] = step, ![pid] = start] /\ pids'[1] = pids[1] /\ pids'[2] = pid
    BY <1>6
  <2> HIDE DEF start, step
  <2>2. /\ DOMAIN pc' = Pids /\ pc'[0] = step /\ pc'[pid] = start
        /\ \A q \in Pids \ {0, pid} : pc'[q] = pc[q]
    BY <1>4, <2>1
  <2> QED BY <1>1, <1>3, <1>6, <2>1, <2>2 DEF start, step, AtStep
<1> QED BY <1>5, <1>6 DEF CreateCommand

\* The shell alone.
LEMMA RedirectMoves ==
  ASSUME Shapes, Roles, NEW i \in 1 .. 2, Redirect(i)
  PROVE  /\ program = "pipeline" /\ program' = program /\ pids' = pids
         /\ \E step : ends' = ends \/ ends' = [ends EXCEPT ![0] = step]
         /\ DOMAIN ends' = Pids
         /\ DOMAIN pc' = Pids /\ \A q \in Pids \ {0} : pc'[q] = pc[q]
         /\ <<pc[0], pc'[0]>> \in
              {<<"open_1", "dup_1">>, <<"dup_1", "close_rd_1">>, <<"close_rd_1", "close_wr_1">>,
               <<"close_wr_1", "open_2">>, <<"open_2", "dup_2">>, <<"dup_2", "close_rd_2">>,
               <<"close_rd_2", "close_wr_2">>, <<"close_wr_2", "wait_first">>}
         /\ i = 1 <=> pc[0] \in {"open_1", "dup_1", "close_rd_1", "close_wr_1"}
<1>1. /\ UNCHANGED <<program, pids>>
      /\ \E step : ends' = ends \/ ends' = [ends EXCEPT ![0] = step]
  <2>1. UNCHANGED <<program, pids>>
    BY DEF Redirect
  <2>2. \E step : ends' = ends \/ ends' = [ends EXCEPT ![0] = step]
    <3> DEFINE step == <<Min(FreeFds(pids[i])), Min(FreeFds(pids[i]) \ {Min(FreeFds(pids[i]))})>>
    <3>1. ends' = ends \/ ends' = [ends EXCEPT ![0] = step]
      BY RedirectCases
    <3> HIDE DEF step
    <3> QED BY <3>1
  <2> QED BY <2>1, <2>2
<1>2. DOMAIN ends' = Pids
  BY <1>1 DEF Shapes
<1> DEFINE at(first, second) == IF i = 1 THEN first ELSE second
<1>3. \/ AtStep(0, at("open_1", "open_2")) /\ Goto(0, at("dup_1", "dup_2"))
      \/ AtStep(0, at("dup_1", "dup_2")) /\ Goto(0, at("close_rd_1", "close_rd_2"))
      \/ AtStep(0, at("close_rd_1", "close_rd_2")) /\ Goto(0, at("close_wr_1", "close_wr_2"))
      \/ AtStep(0, at("close_wr_1", "close_wr_2")) /\ Goto(0, at("open_2", "wait_first"))
  BY RedirectCases, Zenon
<1>4. \E from, to :
        /\ pc[0] = from /\ Goto(0, to)
        /\ <<from, to>> \in
              {<<"open_1", "dup_1">>, <<"dup_1", "close_rd_1">>, <<"close_rd_1", "close_wr_1">>,
               <<"close_wr_1", "open_2">>, <<"open_2", "dup_2">>, <<"dup_2", "close_rd_2">>,
               <<"close_rd_2", "close_wr_2">>, <<"close_wr_2", "wait_first">>}
        /\ i = 1 <=> from \in {"open_1", "dup_1", "close_rd_1", "close_wr_1"}
  <2>1. CASE i = 1
    <3>1. \/ pc[0] = "open_1" /\ Goto(0, "dup_1")
          \/ pc[0] = "dup_1" /\ Goto(0, "close_rd_1")
          \/ pc[0] = "close_rd_1" /\ Goto(0, "close_wr_1")
          \/ pc[0] = "close_wr_1" /\ Goto(0, "open_2")
      BY <1>3, <2>1 DEF AtStep
    <3> QED BY <2>1, <3>1, Zenon
  <2>2. CASE i # 1
    <3>1. \/ pc[0] = "open_2" /\ Goto(0, "dup_2")
          \/ pc[0] = "dup_2" /\ Goto(0, "close_rd_2")
          \/ pc[0] = "close_rd_2" /\ Goto(0, "close_wr_2")
          \/ pc[0] = "close_wr_2" /\ Goto(0, "wait_first")
      BY <1>3, <2>2 DEF AtStep
    <3> QED BY <2>2, <3>1, Zenon
  <2> QED BY <2>1, <2>2
<1>5. pc[0] \notin {"create_first", "wait_first", "create_second", "wait_second", "prompt"}
  BY <1>4
<1>6. program = "pipeline"
  BY <1>5 DEF Roles, Steps, Shapes
<1>7. PICK from, to :
        /\ pc[0] = from /\ Goto(0, to)
        /\ <<from, to>> \in
              {<<"open_1", "dup_1">>, <<"dup_1", "close_rd_1">>, <<"close_rd_1", "close_wr_1">>,
               <<"close_wr_1", "open_2">>, <<"open_2", "dup_2">>, <<"dup_2", "close_rd_2">>,
               <<"close_rd_2", "close_wr_2">>, <<"close_wr_2", "wait_first">>}
        /\ i = 1 <=> from \in {"open_1", "dup_1", "close_rd_1", "close_wr_1"}
  BY <1>4
<1>8. DOMAIN pc' = Pids /\ pc'[0] = to /\ \A q \in Pids \ {0} : pc'[q] = pc[q]
  BY <1>7, GotoFacts, PipelineFacts
<1>9. <<pc[0], pc'[0]>> = <<from, to>>
  BY <1>7, <1>8
<1> QED BY <1>1, <1>2, <1>6, <1>7, <1>8, <1>9, Zenon

\* The shell or test_pipes alone.
LEMMA WaitMoves ==
  ASSUME Shapes, Roles, NEW i \in 1 .. 2, WaitForCommand(i)
  PROVE  /\ program' = program /\ pids' = pids /\ ends' = ends
         /\ DOMAIN pc' = Pids /\ \A q \in Pids \ {0} : pc'[q] = pc[q]
         /\ \/ pc[0] = "wait_first" /\ program = "testpipe" /\ pc'[0] = "create_second"
            \/ pc[0] = "wait_first" /\ program = "pipeline" /\ pc'[0] \in {"wait_second", "prompt"}
            \/ pc[0] = "wait_second" /\ pc'[0] = "prompt"
<1> DEFINE step == IF i = 1 /\ program = "testpipe" THEN "create_second"
                   ELSE IF i = 1 /\ command.is_piped THEN "wait_second" ELSE "prompt"
<1>1. /\ UNCHANGED <<program, pids, ends>> /\ Goto(0, step)
      /\ pc[0] = IF i = 1 THEN "wait_first" ELSE "wait_second"
  BY WaitCases DEF AtStep
<1>2. \/ pc[0] = "wait_first" /\ program = "testpipe" /\ step = "create_second"
      \/ pc[0] = "wait_first" /\ program = "pipeline" /\ step \in {"wait_second", "prompt"}
      \/ pc[0] = "wait_second" /\ step = "prompt"
  BY <1>1 DEF Shapes
<1> HIDE DEF step
<1> QED BY <1>1, <1>2, GotoFacts, PipelineFacts

\* A command alone.
LEMMA CommandMoves ==
  ASSUME Shapes, Roles, NEW pid \in Pids,
         OpenItself(pid) \/ WriteLine(pid) \/ ReadInput(pid) \/ Unlink(pid) \/ Return(pid)
  PROVE  /\ pid # 0 /\ program' = program /\ pids' = pids
         /\ ends' = ends \/ \E step : ends' = [ends EXCEPT ![pid] = step]
         /\ DOMAIN ends' = Pids
         /\ DOMAIN pc' = Pids /\ \A q \in Pids \ {pid} : pc'[q] = pc[q]
         /\ \/ pc[pid] = "open_to_write" /\ pc'[pid] = "write" /\ OpenItself(pid)
            \/ pc[pid] = "open_to_read" /\ pc'[pid] = "read" /\ OpenItself(pid)
            \/ pc[pid] = "write" /\ pc'[pid] = "write" /\ WriteLine(pid)
            \/ pc[pid] = "read" /\ pc'[pid] = "keyboard" /\ ReadInput(pid)
            \/ /\ pc[pid] = "read" /\ pc'[pid] = (IF program = "pipeline" THEN "read" ELSE "unlink")
               /\ ReadInput(pid)
            \/ pc[pid] = "unlink" /\ pc'[pid] = "exit" /\ Unlink(pid)
            \/ pc[pid] \in {"write", "read", "exit"} /\ pc'[pid] = "none" /\ Return(pid)
<1>1. pid # 0
  BY ShellIsAt DEF OpenItself, WriteLine, ReadInput, Unlink, Return, AtStep
<1>2. program' = program /\ pids' = pids
  BY DEF OpenItself, WriteLine, ReadInput, Unlink, Return
<1>3. ends' = ends \/ \E step : ends' = [ends EXCEPT ![pid] = step]
  <2>1. OpenItself(pid) => \E step : ends' = [ends EXCEPT ![pid] = step]
    <3> DEFINE step == <<Min(FreeFds(pid)), Min(FreeFds(pid) \ {Min(FreeFds(pid))})>>
    <3>1. OpenItself(pid) => ends' = [ends EXCEPT ![pid] = step]
      BY DEF OpenItself
    <3> HIDE DEF step
    <3> QED BY <3>1
  <2>2. ~OpenItself(pid) => ends' = ends
    BY DEF WriteLine, ReadInput, Unlink, Return
  <2> QED BY <2>1, <2>2
<1>4. DOMAIN ends' = Pids
  BY <1>3 DEF Shapes
<1>5. \E step : /\ Goto(pid, step) \/ (pc' = pc /\ step = pc[pid])
                /\ \/ pc[pid] = "open_to_write" /\ step = "write" /\ OpenItself(pid)
                   \/ pc[pid] = "open_to_read" /\ step = "read" /\ OpenItself(pid)
                   \/ pc[pid] = "write" /\ step = "write" /\ WriteLine(pid)
                   \/ pc[pid] = "read" /\ step = "keyboard" /\ ReadInput(pid)
                   \/ /\ pc[pid] = "read" /\ step = (IF program = "pipeline" THEN "read" ELSE "unlink")
                      /\ ReadInput(pid)
                   \/ pc[pid] = "unlink" /\ step = "exit" /\ Unlink(pid)
                   \/ pc[pid] \in {"write", "read", "exit"} /\ step = "none" /\ Return(pid)
  <2>1. CASE OpenItself(pid)
    <3>1. /\ pc[pid] \in {"open_to_write", "open_to_read"}
          /\ Goto(pid, IF pc[pid] = "open_to_write" THEN "write" ELSE "read")
      BY <2>1 DEF OpenItself
    <3>2. \/ pc[pid] = "open_to_write" /\ Goto(pid, "write")
          \/ pc[pid] = "open_to_read" /\ Goto(pid, "read")
      BY <3>1
    <3> QED BY <2>1, <3>2, Zenon
  <2>2. CASE WriteLine(pid)
    BY <2>2 DEF WriteLine, AtStep
  <2>3. CASE ReadInput(pid)
    <3>1. /\ pc[pid] = "read"
          /\ \/ Goto(pid, "keyboard")
             \/ Goto(pid, IF program = "pipeline" THEN "read" ELSE "unlink")
      BY <2>3 DEF ReadInput, AtStep
    <3> QED BY <2>3, <3>1, Zenon
  <2>4. CASE Unlink(pid)
    BY <2>4 DEF Unlink, AtStep
  <2>5. CASE Return(pid)
    BY <2>5 DEF Return, AtStep
  <2> QED BY <2>1, <2>2, <2>3, <2>4, <2>5
<1>6. \A step : Goto(pid, step) \/ (pc' = pc /\ step = pc[pid]) =>
        DOMAIN pc' = Pids /\ pc'[pid] = step /\ \A q \in Pids \ {pid} : pc'[q] = pc[q]
  BY GotoFacts DEF Shapes
<1> QED BY <1>1, <1>2, <1>3, <1>4, <1>5, <1>6

\* The parts of the programs' state that no step of the kernel changes.
ProgramsKept ==
  /\ program' = program /\ DOMAIN pc' = Pids /\ DOMAIN ends' = Pids
  /\ pids'[1] \in Pids \cup {NULL} /\ pids'[2] \in Pids \cup {NULL}
  /\ Roles'
  /\ NoMoreOpens => NoMoreOpens'
  /\ WriterDone => WriterDone'

\* The kernel leaves the programs where they are.
LEMMA KernelStepKeepsPrograms ==
  ASSUME Shapes, Roles, UNCHANGED programVars
  PROVE  ProgramsKept
BY DEF ProgramsKept, Shapes, Roles, Steps, HalfConnected, Closing2, Ending, WriterSteps, ReaderSteps, Unstarted,
       NoMoreOpens, WriterDone, programVars

\* A line read.
LEMMA ExecuteLineKeepsPrograms ==
  ASSUME Shapes, Roles, ExecuteLine
  PROVE  ProgramsKept
<1>1. /\ program = "pipeline" /\ pc[0] = "execute" /\ pids' = pids /\ program' = program
      /\ pc'[0] \in {"prompt", "create_first"}
      /\ DOMAIN pc' = Pids /\ \A q \in Pids \ {0} : pc'[q] = pc[q]
      /\ ends' = ends
  BY ExecuteLineMoves
<1>2. Roles'
  BY <1>1 DEF Roles, Steps, HalfConnected, Closing2, WriterSteps, ReaderSteps, Unstarted
<1>3. ~NoMoreOpens /\ ~WriterDone
  BY <1>1 DEF NoMoreOpens, WriterDone, Roles, Ending, Closing2
<1> QED BY <1>1, <1>2, <1>3 DEF ProgramsKept, Shapes

\* A process created.
LEMMA CreateCommandKeepsPrograms ==
  ASSUME Shapes, Roles, NEW pid \in Pids, pid # 0, CreateCommand(pid)
  PROVE  ProgramsKept
<1>1. /\ program' = program /\ ends' = ends
      /\ DOMAIN pc' = Pids /\ \A q \in Pids \ {0, pid} : pc'[q] = pc[q]
      /\ program \in {"pipeline", "testpipe"} /\ pid # NULL
  BY CreateCommandMoves, PipelineFacts, ConstantFacts DEF Shapes
<1>2. CASE /\ pc[0] = "create_first" /\ pids'[1] = pid /\ pids'[2] = NULL
           /\ IF program = "testpipe" THEN pc'[0] = "wait_first"
              ELSE pc'[0] \in {"create_second", "wait_first", "prompt"}
           /\ pc'[pid] = IF program = "pipeline" THEN "write" ELSE "open_to_write"
  <2>1. pids[1] = NULL /\ pids[2] = NULL
    BY <1>2 DEF Roles
  <2>2. \A q \in Pids \ {0, pid} : pc[q] = "none"
    BY <2>1, PipelineFacts, ConstantFacts DEF Roles
  <2>3. Roles'
    <3>1. WriterSteps' = WriterSteps /\ ReaderSteps' = ReaderSteps
      BY <1>1 DEF WriterSteps, ReaderSteps
    <3>2. pc'[pid] \in WriterSteps /\ pc'[pid] \notin ReaderSteps
      BY <1>1, <1>2 DEF WriterSteps, ReaderSteps
    <3>3. "none" \notin WriterSteps /\ "none" \notin ReaderSteps
      BY <1>1 DEF WriterSteps, ReaderSteps
    <3>4. \A q \in Pids \ {0} :
            /\ pc'[q] \in {"none"} \cup WriterSteps \cup ReaderSteps
            /\ pc'[q] \in WriterSteps => pids'[1] = q
            /\ pc'[q] \in ReaderSteps => pids'[2] = q
      BY <1>1, <1>2, <2>2, <3>2, <3>3
    <3>5. pc'[0] \in Steps' /\ pc'[0] \notin {"execute", "create_first"}
      BY <1>1, <1>2 DEF Steps, Closing2
    <3> QED BY <1>1, <1>2, <3>1, <3>4, <3>5 DEF Roles
  <2>4. ~NoMoreOpens /\ ~WriterDone
    BY <1>2, <2>1 DEF NoMoreOpens, WriterDone, Ending, Closing2
  <2> QED BY <1>1, <1>2, <2>3, <2>4 DEF ProgramsKept, Shapes
<1>3. CASE /\ pc[0] = "create_second" /\ pids'[1] = pids[1] /\ pids'[2] = pid
           /\ pc'[0] = IF program = "pipeline" THEN "open_1" ELSE "wait_second"
           /\ IF program = "testpipe" THEN pc'[pid] = "open_to_read" ELSE pc'[pid] \in {"read", "exit"}
  <2>1. pids[1] # NULL /\ pids[2] = NULL
    BY <1>3 DEF Roles, Unstarted
  <2>2. \A q \in Pids \ {0, pid} : pc[q] \in {"none"} \cup WriterSteps
    BY <2>1, PipelineFacts, ConstantFacts DEF Roles
  <2>3. Roles'
    <3>1. WriterSteps' = WriterSteps /\ ReaderSteps' = ReaderSteps
      BY <1>1 DEF WriterSteps, ReaderSteps
    <3>2. pc'[pid] \in ReaderSteps /\ pc'[pid] \notin WriterSteps
      BY <1>1, <1>3 DEF WriterSteps, ReaderSteps
    <3>3. \A q \in {"none"} \cup WriterSteps : q \notin ReaderSteps
      BY <1>1 DEF WriterSteps, ReaderSteps
    <3>4. \A q \in Pids \ {0, pid} : pc[q] \in WriterSteps => pids[1] = q
      BY DEF Roles
    <3>5. \A q \in Pids \ {0} :
            /\ pc'[q] \in {"none"} \cup WriterSteps \cup ReaderSteps
            /\ pc'[q] \in WriterSteps => pids'[1] = q
            /\ pc'[q] \in ReaderSteps => pids'[2] = q
      BY <1>1, <1>3, <2>2, <3>2, <3>3, <3>4
    <3>6. pc'[0] \in Steps' /\ pc'[0] \notin Unstarted' \cup {"execute", "create_first"}
      BY <1>1, <1>3 DEF Steps, Unstarted
    <3> QED BY <1>1, <1>3, <2>1, <3>1, <3>5, <3>6 DEF Roles
  <2>4. ~NoMoreOpens
    BY <1>3 DEF NoMoreOpens, Ending, Closing2
  <2>5. WriterDone => WriterDone'
    BY <1>1, <1>3 DEF WriterDone, WriterSteps
  <2> QED BY <1>1, <1>3, <2>3, <2>4, <2>5 DEF ProgramsKept, Shapes
<1> QED BY <1>2, <1>3, CreateCommandMoves

\* A step of a redirection.
LEMMA RedirectKeepsPrograms ==
  ASSUME Shapes, Roles, NEW i \in 1 .. 2, Redirect(i)
  PROVE  ProgramsKept
<1>1. /\ program = "pipeline" /\ program' = program /\ pids' = pids
      /\ DOMAIN ends' = Pids
      /\ DOMAIN pc' = Pids /\ \A q \in Pids \ {0} : pc'[q] = pc[q]
  BY RedirectMoves
<1>2. /\ pc'[0] \in {"dup_1", "close_rd_1", "close_wr_1", "open_2", "dup_2", "close_rd_2", "close_wr_2", "wait_first"}
      /\ pc[0] \in {"open_1", "dup_1", "close_rd_1", "close_wr_1"} \/ pc'[0] \in Closing2
      /\ pc[0] \notin {"execute", "create_first", "create_second"}
  BY RedirectMoves DEF Closing2
<1>3. Roles'
  BY <1>1, <1>2 DEF Roles, Steps, HalfConnected, Closing2, WriterSteps, ReaderSteps, Unstarted
<1>4. NoMoreOpens => NoMoreOpens'
  BY <1>1, <1>2 DEF NoMoreOpens, Ending, Closing2
<1>5. WriterDone => WriterDone'
  BY <1>1 DEF WriterDone, WriterSteps
<1> QED BY <1>1, <1>3, <1>4, <1>5 DEF ProgramsKept, Shapes

\* A wait.
LEMMA WaitKeepsPrograms ==
  ASSUME Shapes, Roles, NEW i \in 1 .. 2, WaitForCommand(i)
  PROVE  ProgramsKept
<1>1. /\ program' = program /\ pids' = pids /\ ends' = ends
      /\ DOMAIN pc' = Pids /\ \A q \in Pids \ {0} : pc'[q] = pc[q]
      /\ \/ pc[0] = "wait_first" /\ program = "testpipe" /\ pc'[0] = "create_second"
         \/ pc[0] = "wait_first" /\ program = "pipeline" /\ pc'[0] \in {"wait_second", "prompt"}
         \/ pc[0] = "wait_second" /\ pc'[0] = "prompt"
  BY WaitMoves
<1>2. Roles'
  BY <1>1 DEF Roles, Steps, HalfConnected, Closing2, WriterSteps, ReaderSteps, Unstarted
<1>3. NoMoreOpens => NoMoreOpens'
  BY <1>1 DEF NoMoreOpens, Ending, Closing2
<1>4. WriterDone => WriterDone'
  BY <1>1 DEF WriterDone, WriterSteps
<1> QED BY <1>1, <1>2, <1>3, <1>4 DEF ProgramsKept, Shapes

\* A step of a command.
LEMMA CommandKeepsPrograms ==
  ASSUME Shapes, Roles, NEW pid \in Pids,
         OpenItself(pid) \/ WriteLine(pid) \/ ReadInput(pid) \/ Unlink(pid) \/ Return(pid)
  PROVE  ProgramsKept
<1>1. /\ pid # 0 /\ program' = program /\ pids' = pids
      /\ DOMAIN ends' = Pids
      /\ DOMAIN pc' = Pids /\ \A q \in Pids \ {pid} : pc'[q] = pc[q]
      /\ program \in {"pipeline", "testpipe"}
  BY CommandMoves DEF Shapes
<1>2. \/ pc[pid] = "open_to_write" /\ pc'[pid] = "write"
      \/ pc[pid] = "open_to_read" /\ pc'[pid] = "read"
      \/ pc[pid] = "write" /\ pc'[pid] = "write"
      \/ pc[pid] = "read" /\ pc'[pid] = "keyboard"
      \/ pc[pid] = "read" /\ pc'[pid] = (IF program = "pipeline" THEN "read" ELSE "unlink")
      \/ pc[pid] = "unlink" /\ pc'[pid] = "exit"
      \/ pc[pid] \in {"write", "read", "exit"} /\ pc'[pid] = "none"
  BY CommandMoves
<1>3. /\ pc[pid] \in {"none"} \cup WriterSteps \cup ReaderSteps
      /\ pc[pid] \in WriterSteps => pids[1] = pid
      /\ pc[pid] \in ReaderSteps => pids[2] = pid
  BY <1>1 DEF Roles
<1>4. /\ pc'[pid] \in {"none"} \cup WriterSteps \cup ReaderSteps
      /\ pc'[pid] \in WriterSteps => pids[1] = pid /\ pc[pid] \in WriterSteps
      /\ pc'[pid] \in ReaderSteps => pids[2] = pid
      /\ pc'[pid] \notin {"open_to_write", "open_to_read"}
  <2>1. CASE program = "pipeline"
    BY <1>1, <1>2, <1>3, <2>1 DEF WriterSteps, ReaderSteps
  <2>2. CASE program = "testpipe"
    BY <1>1, <1>2, <1>3, <2>2 DEF WriterSteps, ReaderSteps
  <2> QED BY <1>1, <2>1, <2>2
<1>5. pc'[0] = pc[0] /\ WriterSteps' = WriterSteps /\ ReaderSteps' = ReaderSteps /\ Steps' = Steps
      /\ Unstarted' = Unstarted /\ Ending' = Ending
  BY <1>1, PipelineFacts DEF WriterSteps, ReaderSteps, Steps, Unstarted, Ending, HalfConnected, Closing2
<1>6. Roles'
  BY <1>1, <1>4, <1>5, PipelineFacts DEF Roles
<1>7. NoMoreOpens => NoMoreOpens'
  BY <1>1, <1>4, <1>5 DEF NoMoreOpens
<1>8. WriterDone => WriterDone'
  BY <1>1, <1>4, <1>5 DEF WriterDone
<1> QED BY <1>1, <1>6, <1>7, <1>8 DEF ProgramsKept, Shapes

\* Every step keeps roles, and what is over stays over.
LEMMA StepKeepsPrograms ==
  ASSUME Shapes, Roles, PipelineNext, \A child \in Pids : CreateCommand(child) => child # 0
  PROVE  ProgramsKept
<1>1. CASE \E pid \in Pids : ProcessStep(pid)
  BY <1>1, ExecuteLineKeepsPrograms, CreateCommandKeepsPrograms, RedirectKeepsPrograms, WaitKeepsPrograms,
     CommandKeepsPrograms DEF ProcessStep
<1>2. CASE ContinueReading
  BY <1>2, PipelineFacts
     DEF ContinueReading, ProgramsKept, Shapes, Roles, Steps, HalfConnected, Closing2, Ending, WriterSteps,
         ReaderSteps, Unstarted, NoMoreOpens, WriterDone
<1>3. CASE Continue \/ TimerTick
  BY <1>3, KernelStepKeepsPrograms DEF Continue, TimerTick
<1> QED BY <1>1, <1>2, <1>3 DEF PipelineNext

----------------------------------------------------------------------------
(* When it has come to what stray says, nothing goes through the pipe any more *)

\* A step that opens no pipe, and after which nobody sleeps in read or write who did not before.
Quiet ==
  /\ DOMAIN pipes' \subseteq DOMAIN pipes
  /\ \/ waiting' = waiting
     \/ \E k \in Contexts : \E what : what.op \notin {"read", "write"} /\ waiting' = [waiting EXCEPT ![k] = what]

\* When there is no pipe, each call of the kernel leaves it so.
LEMMA SleepIsQuiet ==
  ASSUME NEW s, NEW pid, NEW what, Sleep(s, pid, what), what.op \notin {"read", "write"},
         DOMAIN pipes' \subseteq DOMAIN pipes
  PROVE  Quiet
BY DEF Sleep, Quiet

\* A pipe that is freed is gone.
LEMMA PipeFreeDomain ==
  ASSUME NEW s, NEW id, PipeFree(s, id)
  PROVE  DOMAIN pipes' = DOMAIN pipes \ {id}
BY DEF PipeFree, Restrict

\* Nothing happens.
LEMMA UnchangedIsQuiet ==
  ASSUME waiting' = waiting, pipes' = pipes
  PROVE  Quiet
BY DEF Quiet

\* A call returns.
LEMMA WakeUpIsQuiet ==
  ASSUME sch.current \in Contexts, waiting' = WakeUp, pipes' = pipes
  PROVE  Quiet
<1>1. NONE.op \notin {"read", "write"}
  BY DEF NONE
<1> QED BY <1>1 DEF Quiet, WakeUp

\* A process ends.
LEMMA ExitIsQuiet ==
  ASSUME NEW status, Exit(status)
  PROVE  Quiet
<1>1. sch.current \in Contexts /\ waiting' = [waiting EXCEPT ![sch.current] = NONE] /\ pipes' = pipes
  BY ConstantFacts DEF Exit, SystemCall, StartKill
<1> QED BY <1>1, WakeUpIsQuiet DEF WakeUp

\* The kernel goes on with a call.
LEMMA KernelIsQuiet ==
  ASSUME Continue \/ TimerTick, ~ContinueWrite
  PROVE  Quiet
<1>1. CASE ContinueClose \/ ReturnFromWaitpid
  BY <1>1, WakeUpIsQuiet DEF ContinueClose, ReturnFromWaitpid, Resuming
<1>2. CASE CloseEnd
  <2>1. waiting' = waiting
    BY <1>2 DEF CloseEnd
  <2>2. DOMAIN pipes' \subseteq DOMAIN pipes
    <3> DEFINE entry == GetPipeFd(closing.pid, closing.fd)
               id == entry.pipe_id
    <3>1. pipes' = pipes \/ \E q : pipes' = [pipes EXCEPT ![id] = q]
      <4> DEFINE q == [EndCounted(pipes[id], entry, -1) EXCEPT
                         !.wr_q = IF entry.allow_rd /\ pipes[id].readers = 1 THEN <<>> ELSE pipes[id].wr_q]
      <4>1. pipes' = pipes \/ pipes' = [pipes EXCEPT ![id] = q]
        BY <1>2 DEF CloseEnd
      <4> HIDE DEF q
      <4> QED BY <4>1
    <3> QED BY <3>1
  <2> QED BY <2>1, <2>2 DEF Quiet
<1>3. CASE WriteEof
  BY <1>3 DEF WriteEof, Quiet
<1>4. CASE WaitToWriteEof
  <2>1. Sleep(sch, closing.pid, closing) /\ closing.op = "close" /\ DOMAIN pipes' = DOMAIN pipes
    BY <1>4 DEF WaitToWriteEof
  <2> QED BY <2>1, SleepIsQuiet
<1>5. CASE FinishClose
  BY <1>5, PipeFreeDomain DEF FinishClose, Quiet
<1>6. CASE FinishKill
  BY <1>6 DEF FinishKill, Quiet
<1>7. CASE TimerTick
  BY <1>7 DEF TimerTick, Tick, pipeVars, Quiet
<1> QED BY <1>1, <1>2, <1>3, <1>4, <1>5, <1>6, <1>7 DEF Continue

\* A call for a process that is gone.
LEMMA FailsIsQuiet ==
  ASSUME NEW pid, Fails(pid)
  PROVE  Quiet
BY DEF Fails, vars, pipeVars, Quiet

\* A close.
LEMMA CloseIsQuiet ==
  ASSUME NEW pid, NEW fd, Close(pid, fd)
  PROVE  Quiet
BY DEF Close, Quiet

\* A dup.
LEMMA DupIsQuiet ==
  ASSUME NEW pid, NEW from, NEW to, Dup(pid, from, to)
  PROVE  Quiet
<1>1. \E id, q : pipes' = [pipes EXCEPT ![id] = q]
  <2>1. PICK entry \in pipe_fd_table :
          pipes' = [pipes EXCEPT ![entry.pipe_id] = EndCounted(pipes[entry.pipe_id], entry, 1)]
    BY DEF Dup, DupEnd
  <2> QED BY <2>1
<1>2. waiting' = waiting
  BY DEF Dup
<1> QED BY <1>1, <1>2 DEF Quiet

\* A wait.
LEMMA WaitpidIsQuiet ==
  ASSUME NEW pid, Waitpid(pid)
  PROVE  Quiet
<1> DEFINE what == [op |-> "waitpid", pid |-> pid]
<1>1. Sleep(sch, sch.current, what) /\ what.op \notin {"read", "write"} /\ pipes' = pipes
  BY DEF Waitpid
<1> HIDE DEF what
<1> QED BY <1>1, SleepIsQuiet

\* A step of a redirection.
LEMMA RedirectIsQuiet ==
  ASSUME NEW i \in 1 .. 2, Redirect(i), Shapes, Roles
  PROVE  Quiet \/ (pc[0] \in {"open_1", "open_2"} /\ waiting' = waiting)
<1>1. \/ AtStep(0, IF i = 1 THEN "open_1" ELSE "open_2") /\ PipeOpen(pids[i], PIPE_NAME)
      \/ Dup(pids[i], IF i = 1 THEN ends[0][2] ELSE ends[0][1], IF i = 1 THEN STDOUT ELSE STDIN)
      \/ Fails(pids[i]) \/ Close(pids[i], ends[0][1]) \/ Close(pids[i], ends[0][2])
  BY RedirectCases, Zenon
<1>2. CASE AtStep(0, IF i = 1 THEN "open_1" ELSE "open_2") /\ PipeOpen(pids[i], PIPE_NAME)
  <2>1. pc[0] \in {"open_1", "open_2"}
    BY <1>2 DEF AtStep
  <2>2. waiting' = waiting
    BY <1>2 DEF PipeOpen, OpenFor, OpenForTheDead
  <2> QED BY <2>1, <2>2
<1> QED BY <1>1, <1>2, DupIsQuiet, FailsIsQuiet, CloseIsQuiet

\* A wait of the shell.
LEMMA WaitForCommandIsQuiet ==
  ASSUME NEW i \in 1 .. 2, WaitForCommand(i)
  PROVE  Quiet
BY WaitCases, WaitpidIsQuiet, FailsIsQuiet

\* What Frozen leaves of the steps.
LEMMA FrozenIsQuiet ==
  ASSUME Shapes, Roles, Frozen, PipelineNext
  PROVE  /\ Quiet \/ (NoIO /\ waiting' = waiting)
         /\ UNCHANGED <<sent, received>>
         /\ lines' = lines \/ (lines # <<>> /\ lines' = Tail(lines))
         /\ ProgramsKept
<1>1. /\ pc[0] \notin {"execute", "create_first", "create_second", "open_1"}
      /\ pc[0] = "open_2" => NoIO
      /\ \A pid \in Pids \ {0} : pc[pid] \notin {"open_to_write", "open_to_read"}
  <2>1. CASE NoMoreOpens
    BY <2>1, PipelineFacts DEF NoMoreOpens, Ending, Closing2, Frozen
  <2>2. CASE NoIO
    BY <2>2, PipelineFacts DEF NoIO, HalfConnected, Closing2, Roles, WriterSteps, ReaderSteps
  <2> QED BY <2>1, <2>2 DEF Frozen
<1>2. \A child \in Pids : ~CreateCommand(child)
  BY <1>1 DEF CreateCommand, AtStep
<1>3. ProgramsKept
  BY <1>2, StepKeepsPrograms
<1>4. \A pid, id, count : ReadRound(pid, id, count) => id \in DOMAIN pipes
  BY DEF ReadRound
<1>5. \A pid, id, data : WriteRound(pid, id, data) => id \in DOMAIN pipes
  BY DEF WriteRound
<1>6. DOMAIN pipes # {} => NoIO
  BY DEF Frozen
<1>7. CASE \E pid \in Pids : ProcessStep(pid)
  <2>1. PICK pid \in Pids : ProcessStep(pid)
    BY <1>7
  <2>2. ~ExecuteLine /\ ~OpenItself(pid)
    <3>1. ~ExecuteLine
      BY <1>1 DEF ExecuteLine, AtStep
    <3>2. OpenItself(pid) => pid # 0 /\ pc[pid] \in {"open_to_write", "open_to_read"}
      BY CommandMoves DEF OpenItself
    <3> QED BY <1>1, <3>1, <3>2
  <2>3. CASE \E i \in 1 .. 2 : Redirect(i)
    <3>1. UNCHANGED <<sent, received, lines>>
      BY <2>3 DEF Redirect
    <3> QED BY <1>1, <1>3, <2>3, <3>1, RedirectIsQuiet
  <2>4. CASE \E i \in 1 .. 2 : WaitForCommand(i)
    <3>1. UNCHANGED <<sent, received, lines>>
      BY <2>4 DEF WaitForCommand
    <3> QED BY <1>3, <2>4, <3>1, WaitForCommandIsQuiet
  <2>5. CASE WriteLine(pid)
    <3>1. pc[pid] = "write" /\ pid # 0 /\ lines # <<>> /\ lines' = Tail(lines) /\ received' = received
      BY <2>5, CommandMoves DEF WriteLine, AtStep
    <3>2. \A fd, data : ~Write(fd, data)
      BY <1>5, <1>6, <3>1 DEF Write, NoIO
    <3>3. UNCHANGED <<vars, sent>>
      BY <2>5, <3>2 DEF WriteLine, PutString
    <3> QED BY <1>3, <3>1, <3>3, UnchangedIsQuiet DEF vars, pipeVars
  <2>6. CASE ReadInput(pid)
    <3>1. pc[pid] = "read" /\ pid # 0
      BY <2>6, CommandMoves DEF ReadInput, AtStep
    <3>2. \A fd, count : ~Read(fd, count)
      BY <1>4, <1>6, <3>1 DEF Read, NoIO
    <3> DEFINE what == [op |-> "keyboard"]
    <3>3. /\ Sleep(sch, pid, what) /\ UNCHANGED <<pipes, received, sent, lines>>
          /\ what.op \notin {"read", "write"}
      BY <2>6, <3>2 DEF ReadInput
    <3> HIDE DEF what
    <3> QED BY <1>3, <3>3, SleepIsQuiet
  <2>7. CASE Unlink(pid)
    <3>1. Quiet
      BY <2>7, PipeFreeDomain DEF Unlink, PipeUnlink, Quiet
    <3> QED BY <1>3, <2>7, <3>1 DEF Unlink
  <2>8. CASE Return(pid)
    BY <1>3, <2>8, ExitIsQuiet DEF Return
  <2> QED BY <1>2, <2>1, <2>2, <2>3, <2>4, <2>5, <2>6, <2>7, <2>8 DEF ProcessStep
<1>8. ~ContinueReading
  BY <1>4, <1>6 DEF ContinueReading, ContinueRead, Resuming, NoIO
<1>9. ~ContinueWrite
  BY <1>5, <1>6 DEF ContinueWrite, Resuming, NoIO
<1>10. CASE Continue \/ TimerTick
  <2>1. UNCHANGED <<sent, received, lines>>
    BY <1>10 DEF Continue, TimerTick, programVars
  <2> QED BY <1>3, <1>9, <1>10, <2>1, KernelIsQuiet
<1> QED BY <1>7, <1>8, <1>10 DEF PipelineNext

\* Who has nothing left to write is done, and who is done writes no more.
LEMMA WriterEnds ==
  ASSUME Shapes, Roles, PipelineNext, \A child \in Pids : CreateCommand(child) => pc[child] = "none"
  PROVE  /\ WriterDone' => WriterDone \/ lines = <<>>
         /\ lines' = lines \/ (~WriterDone /\ lines # <<>> /\ lines' = Tail(lines))
<1>0. /\ pc[0] # "none" /\ 0 \in Pids /\ program \in {"pipeline", "testpipe"}
  BY PipelineFacts DEF Roles, Steps, HalfConnected, Closing2, Shapes
<1> DEFINE Goal == /\ WriterDone' => WriterDone \/ lines = <<>>
                   /\ lines' = lines \/ (~WriterDone /\ lines # <<>> /\ lines' = Tail(lines))
<1>1. CASE ExecuteLine
  <2>1. program' = program /\ pids' = pids /\ \A q \in Pids \ {0} : pc'[q] = pc[q]
    BY <1>1, ExecuteLineMoves
  <2> QED BY <1>1, <2>1 DEF ExecuteLine, WriterDone, WriterSteps
<1>2. ASSUME NEW pid \in Pids, CreateCommand(pid)
      PROVE  Goal
  <2>1. pid # 0 /\ pc[pid] = "none" /\ lines' = lines
    BY <1>0, <1>2 DEF CreateCommand
  <2>2. /\ program' = program /\ \A q \in Pids \ {0, pid} : pc'[q] = pc[q]
        /\ \/ /\ pc[0] = "create_first" /\ pids'[1] = pid /\ pids'[2] = NULL
              /\ IF program = "testpipe" THEN pc'[0] = "wait_first"
                 ELSE pc'[0] \in {"create_second", "wait_first", "prompt"}
              /\ pc'[pid] = IF program = "pipeline" THEN "write" ELSE "open_to_write"
           \/ /\ pc[0] = "create_second" /\ pids'[1] = pids[1] /\ pids'[2] = pid
              /\ pc'[0] = IF program = "pipeline" THEN "open_1" ELSE "wait_second"
              /\ IF program = "testpipe" THEN pc'[pid] = "open_to_read" ELSE pc'[pid] \in {"read", "exit"}
    BY <1>2, <2>1, CreateCommandMoves
  <2>3. WriterDone' => WriterDone
    BY <1>0, <2>1, <2>2 DEF WriterDone, WriterSteps
  <2> QED BY <2>1, <2>3
<1>3. ASSUME NEW i \in 1 .. 2, Redirect(i)
      PROVE  Goal
  <2>1. program' = program /\ pids' = pids /\ \A q \in Pids \ {0} : pc'[q] = pc[q]
    BY <1>3, RedirectMoves
  <2> QED BY <1>3, <2>1 DEF Redirect, WriterDone, WriterSteps
<1>4. ASSUME NEW i \in 1 .. 2, WaitForCommand(i)
      PROVE  Goal
  <2>1. program' = program /\ pids' = pids /\ \A q \in Pids \ {0} : pc'[q] = pc[q]
    BY <1>4, WaitMoves
  <2> QED BY <1>4, <2>1 DEF WaitForCommand, WriterDone, WriterSteps
<1>5. ASSUME NEW pid \in Pids,
             OpenItself(pid) \/ WriteLine(pid) \/ ReadInput(pid) \/ Unlink(pid) \/ Return(pid)
      PROVE  Goal
  <2>1. /\ pid # 0 /\ program' = program /\ pids' = pids /\ \A q \in Pids \ {pid} : pc'[q] = pc[q]
        /\ \/ pc[pid] = "open_to_write" /\ pc'[pid] = "write" /\ OpenItself(pid)
           \/ pc[pid] = "open_to_read" /\ pc'[pid] = "read" /\ OpenItself(pid)
           \/ pc[pid] = "write" /\ pc'[pid] = "write" /\ WriteLine(pid)
           \/ pc[pid] = "read" /\ pc'[pid] = "keyboard" /\ ReadInput(pid)
           \/ /\ pc[pid] = "read" /\ pc'[pid] = (IF program = "pipeline" THEN "read" ELSE "unlink")
              /\ ReadInput(pid)
           \/ pc[pid] = "unlink" /\ pc'[pid] = "exit" /\ Unlink(pid)
           \/ pc[pid] \in {"write", "read", "exit"} /\ pc'[pid] = "none" /\ Return(pid)
    BY <1>5, CommandMoves
  <2>2. CASE Return(pid)
    <3>1. (pc[pid] = "write" => lines = <<>>) /\ lines' = lines /\ pc[pid] \in {"write", "read", "exit"}
      BY <2>2 DEF Return, AtStep
    <3>2. WriterDone' /\ ~WriterDone => pc[pid] \in WriterSteps
      BY <2>1 DEF WriterDone, WriterSteps
    <3> QED BY <3>1, <3>2 DEF WriterSteps
  <2>3. CASE ~Return(pid)
    <3>1. pc[pid] \in WriterSteps => pc'[pid] \in WriterSteps'
      BY <1>0, <2>1, <2>3 DEF WriterSteps
    <3>2. WriterDone' => WriterDone
      BY <2>1, <3>1 DEF WriterDone, WriterSteps
    <3>3. WriteLine(pid) => lines # <<>> /\ lines' = Tail(lines) /\ pc[pid] = "write"
      BY DEF WriteLine, AtStep
    <3>4. WriteLine(pid) => ~WriterDone
      BY <2>1, <3>3 DEF WriterDone, WriterSteps
    <3>5. ~WriteLine(pid) => lines' = lines
      BY <1>5, <2>3 DEF OpenItself, ReadInput, Unlink
    <3> QED BY <3>2, <3>3, <3>4, <3>5
  <2> QED BY <2>2, <2>3
<1>6. CASE ContinueReading
  BY <1>6 DEF ContinueReading, WriterDone, WriterSteps
<1>7. CASE Continue \/ TimerTick
  BY <1>7 DEF Continue, TimerTick, programVars, WriterDone, WriterSteps
<1> QED BY <1>1, <1>2, <1>3, <1>4, <1>5, <1>6, <1>7 DEF PipelineNext, ProcessStep

\* Once nobody is in the middle of reading or writing, and nobody will read or write.
LEMMA NoIOStays ==
  ASSUME Shapes, Roles, NoIO, PipelineNext, \A child \in Pids : ~CreateCommand(child)
  PROVE  /\ program' = "pipeline"
         /\ pc'[0] \in HalfConnected \cup Closing2 \cup {"wait_second", "prompt"}
         /\ \A pid \in Pids \ {0} : pc'[pid] \notin {"read", "write"}
<1>0. /\ program = "pipeline" /\ pc[0] \in HalfConnected \cup Closing2 \cup {"wait_second", "prompt"}
      /\ \A pid \in Pids \ {0} : pc[pid] \notin {"read", "write"}
      /\ 0 \in Pids
  BY PipelineFacts DEF NoIO
<1> DEFINE Goal == /\ program' = "pipeline"
                   /\ pc'[0] \in HalfConnected \cup Closing2 \cup {"wait_second", "prompt"}
                   /\ \A pid \in Pids \ {0} : pc'[pid] \notin {"read", "write"}
<1>1. ~ExecuteLine
  BY <1>0 DEF ExecuteLine, AtStep, HalfConnected, Closing2
<1>2. ASSUME NEW i \in 1 .. 2, Redirect(i)
      PROVE  Goal
  <2>1. /\ program' = program
        /\ \A q \in Pids \ {0} : pc'[q] = pc[q]
        /\ pc'[0] \in {"dup_1", "close_rd_1", "close_wr_1", "open_2", "dup_2", "close_rd_2", "close_wr_2",
                       "wait_first"}
    BY <1>2, RedirectMoves
  <2> QED BY <1>0, <2>1 DEF HalfConnected, Closing2
<1>3. ASSUME NEW i \in 1 .. 2, WaitForCommand(i)
      PROVE  Goal
  <2>1. /\ program' = program
        /\ \A q \in Pids \ {0} : pc'[q] = pc[q]
        /\ pc'[0] \in {"wait_second", "prompt"}
    BY <1>0, <1>3, WaitMoves
  <2> QED BY <1>0, <2>1
<1>4. ASSUME NEW pid \in Pids,
             OpenItself(pid) \/ WriteLine(pid) \/ ReadInput(pid) \/ Unlink(pid) \/ Return(pid)
      PROVE  Goal
  <2>1. /\ pid # 0 /\ program' = program /\ \A q \in Pids \ {pid} : pc'[q] = pc[q]
        /\ \/ pc[pid] \in {"open_to_write", "open_to_read", "write", "read"}
           \/ pc'[pid] \in {"exit", "none"}
    BY <1>4, CommandMoves
  <2>2. pc[pid] \notin {"open_to_write", "open_to_read", "write", "read"}
    BY <1>0, <2>1 DEF Roles, WriterSteps, ReaderSteps
  <2> QED BY <1>0, <2>1, <2>2
<1>5. CASE ContinueReading
  BY <1>0, <1>5 DEF ContinueReading
<1>6. CASE Continue \/ TimerTick
  BY <1>0, <1>6 DEF Continue, TimerTick, programVars
<1> QED BY <1>1, <1>2, <1>3, <1>4, <1>5, <1>6 DEF PipelineNext, ProcessStep

\* What is out of everybody's reach stays so.
LEMMA FrozenStays ==
  ASSUME Static, Frozen, PipelineNext
  PROVE  Static' /\ Frozen'
<1>1. Shapes /\ Roles /\ Progress /\ PipedInOrder /\ EndIsAfterAll
  BY DEF Static
<1>2. /\ Quiet \/ (NoIO /\ waiting' = waiting)
      /\ UNCHANGED <<sent, received>>
      /\ lines' = lines \/ (lines # <<>> /\ lines' = Tail(lines))
      /\ ProgramsKept
  BY <1>1, FrozenIsQuiet
<1>3. \A child \in Pids : ~CreateCommand(child)
  <2>1. pc[0] \notin {"create_first", "create_second"}
    BY DEF Frozen, NoMoreOpens, NoIO, Ending, Closing2, HalfConnected
  <2> QED BY <2>1 DEF CreateCommand, AtStep
<1>4. /\ WriterDone' => WriterDone \/ lines = <<>>
      /\ lines' = lines \/ (~WriterDone /\ lines # <<>> /\ lines' = Tail(lines))
  BY <1>1, <1>3, WriterEnds
<1>5. Shapes'
  <2>1. lines' \in Seq(Messages)
    BY <1>1, <1>2, HeadTailProperties DEF Shapes
  <2>2. DOMAIN waiting' = Contexts
    <3>1. \A k, w : DOMAIN [waiting EXCEPT ![k] = w] = DOMAIN waiting
      OBVIOUS
    <3> QED BY <1>1, <1>2, <3>1 DEF Shapes, Quiet
  <2> QED BY <1>1, <1>2, <2>1, <2>2 DEF Shapes, ProgramsKept
<1>6. Progress'
  BY <1>1, <1>2, <1>4 DEF Progress, ProgramsKept
<1>7. PipedInOrder' /\ EndIsAfterAll'
  BY <1>1, <1>2 DEF PipedInOrder, EndIsAfterAll, MarkWasRead
<1>8. Frozen'
  <2>1. CASE NoIO
    <3>1. /\ program' = "pipeline"
          /\ pc'[0] \in HalfConnected \cup Closing2 \cup {"wait_second", "prompt"}
          /\ \A pid \in Pids \ {0} : pc'[pid] \notin {"read", "write"}
      BY <1>1, <1>3, <2>1, NoIOStays
    <3>2. \A k \in Contexts : waiting'[k].op \notin {"read", "write"}
      <4>1. \A k \in Contexts : waiting[k].op \notin {"read", "write"}
        BY <2>1 DEF NoIO
      <4> QED BY <1>1, <1>2, <4>1 DEF Quiet, Shapes
    <3>3. NoIO'
      BY <3>1, <3>2 DEF NoIO, HalfConnected, Closing2
    <3> QED BY <3>3 DEF Frozen
  <2>2. CASE NoMoreOpens /\ DOMAIN pipes = {} /\ ~NoIO
    BY <1>2, <2>2 DEF Frozen, ProgramsKept, Quiet
  <2> QED BY <2>1, <2>2 DEF Frozen
<1> QED BY <1>1, <1>2, <1>5, <1>6, <1>7, <1>8 DEF Static, ProgramsKept

\* What is stray stays so.
LEMMA StrayStays ==
  ASSUME stray \in BOOLEAN, PipelineNext
  PROVE  stray' \in BOOLEAN /\ (stray => stray')
<1>1. ASSUME NEW pid \in Pids, ProcessStep(pid)
      PROVE  stray' \in BOOLEAN /\ (stray => stray')
  <2>1. \A i, name : PipeOpen(i, name) => stray' \in BOOLEAN /\ (stray => stray')
    BY DEF PipeOpen, OpenFor, OpenForTheDead
  <2>2. Unlink(pid) => stray' \in BOOLEAN /\ (stray => stray')
    BY DEF Unlink, PipeUnlink
  <2>3. Return(pid) => stray' \in BOOLEAN /\ (stray => stray')
    BY DEF Return, Exit, StartKill
  <2>4. \A a, b, c : Dup(a, b, c) \/ Close(a, b) \/ Fails(a) => stray' = stray
    BY DEF Dup, Close, Fails, vars, pipeVars
  <2>5. \A i \in 1 .. 2 : Redirect(i) => stray' \in BOOLEAN /\ (stray => stray')
    <3> SUFFICES ASSUME NEW i \in 1 .. 2, Redirect(i) PROVE stray' \in BOOLEAN /\ (stray => stray')
      OBVIOUS
    <3>1. \/ PipeOpen(pids[i], PIPE_NAME)
          \/ Dup(pids[i], IF i = 1 THEN ends[0][2] ELSE ends[0][1], IF i = 1 THEN STDOUT ELSE STDIN)
          \/ Fails(pids[i]) \/ Close(pids[i], ends[0][1]) \/ Close(pids[i], ends[0][2])
      BY RedirectCases, Zenon
    <3> QED BY <2>1, <2>4, <3>1
  <2>6. \A i \in 1 .. 2 : WaitForCommand(i) => stray' = stray
    BY WaitCases DEF Waitpid, Fails, vars, pipeVars
  <2>7. \A a, b, c : ReadRound(a, b, c) \/ WriteRound(a, b, c) => stray' = stray
    BY DEF ReadRound, WriteRound
  <2>8. ReadInput(pid) \/ WriteLine(pid) => stray' = stray
    BY <2>7 DEF ReadInput, WriteLine, PutString, Read, Write, vars, pipeVars
  <2>9. ExecuteLine => stray' = stray
    BY DEF ExecuteLine, vars, pipeVars
  <2>10. \A child : CreateCommand(child) => stray' = stray
    BY DEF CreateCommand, Create
  <2>11. OpenItself(pid) => stray' \in BOOLEAN /\ (stray => stray')
    BY <2>1 DEF OpenItself
  <2> QED BY <1>1, <2>2, <2>3, <2>5, <2>6, <2>8, <2>9, <2>10, <2>11 DEF ProcessStep
<1>2. ContinueReading => stray' = stray
  BY DEF ContinueReading, ContinueRead, ReadRound
<1>3. ContinueWrite \/ ContinueClose \/ ReturnFromWaitpid \/ Tick => stray' = stray
  BY DEF Tick, pipeVars, ContinueWrite, WriteRound, ContinueClose, ReturnFromWaitpid
<1>4. CloseEnd \/ WriteEof \/ WaitToWriteEof \/ FinishKill => stray' = stray
  BY DEF CloseEnd, WriteEof, WaitToWriteEof, FinishKill
<1>5. FinishClose => stray' \in BOOLEAN /\ (stray => stray')
  BY DEF FinishClose
<1> QED BY <1>1, <1>2, <1>3, <1>4, <1>5 DEF PipelineNext, Continue, TimerTick

----------------------------------------------------------------------------
(* What steps have in common that leave most of Connected alone *)

\* Who sleeps in a read or a write goes on sleeping there, and nobody else.
Calm ==
  /\ DOMAIN waiting' = Contexts
  /\ \A k \in Contexts :
       waiting[k].op \in {"read", "write"} \/ waiting'[k].op \in {"read", "write"} => waiting'[k] = waiting[k]

\* The writer's hand changes only when it wakes up in write.
LEMMA PendingKept ==
  ASSUME Calm, pids'[1] = pids[1]
  PROVE  Pending' = Pending
<1>1. Pids \subseteq Contexts
  BY ConstantFacts
<1>2. CASE pids[1] \in Pids /\ waiting[pids[1]].op = "write"
  <2>1. pids[1] \in Contexts /\ waiting'[pids[1]] = waiting[pids[1]]
    BY <1>1, <1>2 DEF Calm
  <2> QED BY <1>2, <2>1 DEF Pending
<1>3. CASE ~(pids[1] \in Pids /\ waiting[pids[1]].op = "write")
  <2>1. ~(pids[1] \in Pids /\ waiting'[pids[1]].op = "write")
    BY <1>1, <1>3 DEF Calm
  <2> QED BY <1>3, <2>1 DEF Pending
<1> QED BY <1>2, <1>3

\* A step that moves no bytes keeps the flow.
LEMMA FlowKept ==
  ASSUME Flow, UNCHANGED <<program, sent, received>>, WriterDone => WriterDone',
         program = "testpipe" /\ 0 \notin DOMAIN pipes' /\ Writing' => Writing,
         0 \in DOMAIN pipes' =>
           /\ 0 \in DOMAIN pipes /\ Contents(pipes'[0]) = Contents(pipes[0])
           /\ pipes'[0].read_idx = pipes[0].read_idx /\ Pending' = Pending,
         0 \notin DOMAIN pipes' => 0 \notin DOMAIN pipes \/ received # <<>>,
         program = "testpipe" /\ 0 \in DOMAIN pipes' =>
           /\ WriterDone /\ OnlyReading => OnlyReading'
           /\ closing'.op = "close" /\ closing'.step = "eof" =>
                (closing.op = "close" /\ closing.step = "eof" /\ WriterDone) \/ (~OnlyReading /\ OnlyReading')
  PROVE  Flow'
<1>1. ASSUME 0 \in DOMAIN pipes'
      PROVE  \E k \in Nat : FlowWith(k)'
  <2>1. PICK k \in Nat : FlowWith(k)
    BY <1>1 DEF Flow
  <2>2. (received \o Contents(pipes[0]) \o Pending = sent \o Marks(k))'
    <3>1. received \o Contents(pipes[0]) \o Pending = sent \o Marks(k)
      BY <2>1 DEF FlowWith
    <3> QED BY <1>1, <3>1 DEF Marks
  <2>3. (k > 0 => WriterDone)'
    BY <2>1 DEF FlowWith
  <2>4. ASSUME program = "testpipe"
        PROVE  /\ k <= 1 /\ (k = 1 => OnlyReading')
               /\ closing'.op = "close" /\ closing'.step = "eof" => k = 0 /\ OnlyReading'
    <3>1. /\ k <= 1 /\ (k = 1 => OnlyReading) /\ (k > 0 => WriterDone)
          /\ closing.op = "close" /\ closing.step = "eof" => k = 0 /\ OnlyReading
      BY <2>1, <2>4 DEF FlowWith
    <3>2. /\ WriterDone /\ OnlyReading => OnlyReading'
          /\ closing'.op = "close" /\ closing'.step = "eof" =>
                (closing.op = "close" /\ closing.step = "eof" /\ WriterDone) \/ (~OnlyReading /\ OnlyReading')
      BY <1>1, <2>4
    <3>3. k = 0 \/ k = 1
      BY <3>1
    <3> QED BY <3>1, <3>2, <3>3
  <2>5. FlowWith(k)'
    BY <2>2, <2>3, <2>4 DEF FlowWith
  <2> QED BY <2>5
<1>2. (0 \in DOMAIN pipes /\ received = <<>> => pipes[0].read_idx = 0)'
  BY DEF Flow
<1>3. (0 \notin DOMAIN pipes =>
         received # <<>> \/ (sent = <<>> /\ (program = "testpipe" => ~Writing)))'
  BY DEF Flow
<1> QED BY <1>1, <1>2, <1>3 DEF Flow

\* The kernel goes on with something, and no program does.
LEMMA StepOfTheKernel ==
  ASSUME Static, Connected, UNCHANGED programVars, DOMAIN waiting' = Contexts, InCalls',
         \A pid \in Pids : waiting[pid].op = "read" => waiting'[pid] = waiting[pid],
         \A pid \in Pids : IsActive(sch, pid) => IsActive(sch', pid),
         live' \subseteq live,
         \A pid \in Pids : fds'[pid][STDIN] = "pipe" => fds[pid][STDIN] = "pipe",
         DOMAIN pipes' \subseteq DOMAIN pipes,
         0 \in DOMAIN pipes' => pipes'[0].name = pipes[0].name,
         0 \in DOMAIN pipes' =>
           \A pid \in Pids \ {0} :
             pc[pid] = "open_to_write" => pipes'[0].bytes_to_read = pipes[0].bytes_to_read,
         pipe_fd_table' \subseteq pipe_fd_table,
         WriterHasEnd', OwnCloses', Flow'
  PROVE  Static' /\ Connected'
<1>0. UNCHANGED <<program, pc, pids, ends, lines, sent, received>>
  BY DEF programVars
<1>1. Static'
  <2>1. Shapes' /\ Roles' /\ PipedInOrder' /\ EndIsAfterAll'
    BY <1>0 DEF Static, Shapes, Roles, Steps, HalfConnected, Closing2, WriterSteps, ReaderSteps, Unstarted,
       PipedInOrder, EndIsAfterAll, MarkWasRead
  <2>2. Progress'
    BY <1>0 DEF Static, Progress, WriterDone, NoMoreOpens, WriterSteps, Ending, Closing2
  <2> QED BY <2>1, <2>2 DEF Static
<1>2. Running'
  BY <1>0 DEF Connected, Running
<1>3. InCalls'
  OBVIOUS
<1>4. Redirected'
  BY <1>0 DEF Connected, Redirected, Ending, Closing2
<1>5. ThePipe'
  BY <1>0 DEF Connected, ThePipe, Unstarted
<1>6. TestPipe'
  <2> SUFFICES ASSUME program = "testpipe" PROVE TestPipe'
    BY <1>0 DEF TestPipe
  <2>1. ASSUME NEW pid \in Pids \ {0}
        PROVE  /\ pc[pid] \in {"open_to_write", "open_to_read"} =>
                    \A entry \in pipe_fd_table' : entry.pid # pid
               /\ pc[pid] = "open_to_write" /\ 0 \in DOMAIN pipes' => pipes'[0].bytes_to_read = 0
               /\ pc[pid] = "unlink" => waiting'[pid].op = "read" \/ received # <<>>
               /\ pc[pid] = "exit" => received # <<>> /\ DOMAIN pipes' = {}
               /\ pc[pid] = "read" => received = <<>>
    <3>1. /\ pc[pid] \in {"open_to_write", "open_to_read"} =>
               \A entry \in pipe_fd_table : entry.pid # pid
          /\ pc[pid] = "open_to_write" /\ 0 \in DOMAIN pipes => pipes[0].bytes_to_read = 0
          /\ pc[pid] = "unlink" => waiting[pid].op = "read" \/ received # <<>>
          /\ pc[pid] = "exit" => received # <<>> /\ DOMAIN pipes = {}
          /\ pc[pid] = "read" => received = <<>>
      BY DEF Connected, TestPipe
    <3>2. pc[pid] = "open_to_write" /\ 0 \in DOMAIN pipes' => pipes'[0].bytes_to_read = pipes[0].bytes_to_read
      OBVIOUS
    <3>3. waiting[pid].op = "read" => waiting'[pid] = waiting[pid]
      OBVIOUS
    <3> QED BY <3>1, <3>2, <3>3
  <2>2. \A e, f \in pipe_fd_table' : e.pid = f.pid /\ ~e.allow_rd /\ ~f.allow_rd => e = f
    BY DEF Connected, TestPipe
  <2> QED BY <1>0, <2>1, <2>2 DEF TestPipe
<1> QED BY <1>1, <1>2, <1>3, <1>4, <1>5, <1>6 DEF Connected

\* A step of the kernel that moves no bytes.
LEMMA KernelStepConnected ==
  ASSUME Static, Connected, UNCHANGED programVars, Calm,
         \A pid \in Pids : IsActive(sch, pid) => IsActive(sch', pid),
         live' \subseteq live,
         \A pid \in Pids : fds'[pid][STDIN] = "pipe" => fds[pid][STDIN] = "pipe",
         DOMAIN pipes' \subseteq DOMAIN pipes,
         0 \in DOMAIN pipes' => pipes'[0].name = pipes[0].name,
         0 \in DOMAIN pipes' /\ ~WriterDone => pipes'[0].bytes_to_read = pipes[0].bytes_to_read,
         pipe_fd_table' \subseteq pipe_fd_table,
         WriterHasEnd', OwnCloses', Flow'
  PROVE  Static' /\ Connected'
<1>0. UNCHANGED <<program, pc, pids, ends, lines, sent, received>>
  BY DEF programVars
<1>1. InCalls'
  BY <1>0 DEF Connected, InCalls, Calm, MarkWasRead, NoMoreOpens, Ending, Closing2
<1>2. \A pid \in Pids : waiting[pid].op = "read" => waiting'[pid] = waiting[pid]
  BY ConstantFacts DEF Calm
<1>3. program = "testpipe" => \A pid \in Pids \ {0} : pc[pid] = "open_to_write" => ~WriterDone
  BY DEF WriterDone, WriterSteps
<1>4. \A pid \in Pids \ {0} : pc[pid] = "open_to_write" => program = "testpipe"
  BY DEF Static, Roles, Shapes, WriterSteps, ReaderSteps
<1>5. 0 \in DOMAIN pipes' =>
        \A pid \in Pids \ {0} :
          pc[pid] = "open_to_write" => pipes'[0].bytes_to_read = pipes[0].bytes_to_read
  BY <1>3, <1>4
<1>6. DOMAIN waiting' = Contexts
  BY DEF Calm
<1> QED BY <1>1, <1>2, <1>5, <1>6, StepOfTheKernel

\* The first process has still its end to write into when the pipe's descriptors do
\* not change.
LEMMA WriterEndKept ==
  ASSUME Connected, UNCHANGED programVars, DOMAIN pipes' \subseteq DOMAIN pipes,
         0 \in DOMAIN pipes' \/ pc[0] \in HalfConnected =>
           \A pid \in Pids \ {0} : \A entry \in pipe_fd_table :
             pc[pid] = "write" /\ entry.pid = pid /\ entry.fd = Out(pid) => entry \in pipe_fd_table'
  PROVE  WriterHasEnd'
<1>1. UNCHANGED <<program, pc, ends>>
  BY DEF programVars
<1> SUFFICES ASSUME NEW pid \in Pids \ {0}, pc[pid] = "write", 0 \in DOMAIN pipes' \/ pc[0] \in HalfConnected
             PROVE  PipeFd(pid, Out(pid), 0, FALSE) \in pipe_fd_table'
  BY <1>1 DEF WriterHasEnd, Out, HalfConnected
<1>2. PipeFd(pid, Out(pid), 0, FALSE) \in pipe_fd_table
  BY DEF Connected, WriterHasEnd
<1>3. PipeFd(pid, Out(pid), 0, FALSE).pid = pid /\ PipeFd(pid, Out(pid), 0, FALSE).fd = Out(pid)
  BY DEF PipeFd
<1> QED BY <1>2, <1>3

----------------------------------------------------------------------------
(* The steps of the kernel *)

\* The timer.
LEMMA TickConnected ==
  ASSUME Static, Connected, Good, Tick, UNCHANGED programVars
  PROVE  Static' /\ Connected'
<1>1. UNCHANGED pipeVars /\ sch'.rsp = sch.rsp /\ closing = NONE
  BY SwitchFacts DEF Tick, Interruptible, Good
<1>2. UNCHANGED <<live, fds, pipes, pipe_fd_table, waiting, closing>>
  BY <1>1 DEF pipeVars
<1>3. Calm
  BY <1>2 DEF Calm, Static, Shapes
<1>4. OwnCloses'
  <2>1. \A k \in Contexts : waiting[k].op = "close" => k = 0 /\ ShellCloses(waiting[k]) /\ WriterDone
    BY DEF Connected, OwnCloses
  <2>2. closing'.op # "close"
    BY <1>1, <1>2, WhatFacts
  <2> QED BY <1>2, <2>1, <2>2 DEF OwnCloses, ShellCloses, WriterDone, WriterSteps, programVars
<1>5. WriterHasEnd'
  BY <1>2, WriterEndKept
<1>6. Flow'
  <2>1. WriterDone => WriterDone'
    BY DEF WriterDone, WriterSteps, programVars
  <2>2. closing'.op # "close"
    BY <1>1, <1>2, WhatFacts
  <2>3. OnlyReading'
    BY <2>2 DEF OnlyReading
  <2>4. pids'[1] = pids[1]
    BY DEF programVars
  <2> QED BY <1>2, <1>3, <2>1, <2>2, <2>3, <2>4, PendingKept, FlowKept DEF Connected, programVars, Writing
<1> QED BY <1>1, <1>2, <1>3, <1>4, <1>5, <1>6, KernelStepConnected DEF IsActive

\* The end of a wait.
LEMMA ReturnFromWaitpidConnected ==
  ASSUME Static, Connected, Good, ReturnFromWaitpid, UNCHANGED programVars
  PROVE  Static' /\ Connected'
<1>1. /\ UNCHANGED <<sch, live, fds, pipes, pipe_fd_table, closing>> /\ closing = NONE
      /\ sch.current \in Contexts /\ waiting[sch.current].op = "waitpid"
      /\ waiting' = [waiting EXCEPT ![sch.current] = NONE]
  BY DEF ReturnFromWaitpid, Resuming, WakeUp
<1>2. closing'.op # "close" /\ NONE.op = "none"
  BY <1>1, WhatFacts
<1>3. Calm
  BY <1>1, <1>2 DEF Calm, Static, Shapes
<1>4. OwnCloses'
  <2>1. \A k \in Contexts : waiting[k].op = "close" => k = 0 /\ ShellCloses(waiting[k]) /\ WriterDone
    BY DEF Connected, OwnCloses
  <2>2. \A k \in Contexts : waiting'[k].op = "close" => waiting'[k] = waiting[k]
    BY <1>1, <1>2 DEF Static, Shapes
  <2> QED BY <1>2, <2>1, <2>2 DEF OwnCloses, ShellCloses, WriterDone, WriterSteps, programVars
<1>5. WriterHasEnd'
  BY <1>1, WriterEndKept
<1>6. Flow'
  <2>1. WriterDone => WriterDone'
    BY DEF WriterDone, WriterSteps, programVars
  <2>3. OnlyReading'
    BY <1>2 DEF OnlyReading
  <2>4. pids'[1] = pids[1]
    BY DEF programVars
  <2> QED BY <1>1, <1>2, <1>3, <2>1, <2>3, <2>4, PendingKept, FlowKept DEF Connected, programVars, Writing
<1> QED BY <1>1, <1>2, <1>3, <1>4, <1>5, <1>6, KernelStepConnected

\* A close that has slept goes on.
LEMMA ContinueCloseConnected ==
  ASSUME Static, Connected, Good, ContinueClose, UNCHANGED programVars
  PROVE  Static' /\ Connected'
<1>1. /\ UNCHANGED <<sch, live, fds, pipes, pipe_fd_table>> /\ closing = NONE
      /\ sch.current \in Contexts /\ waiting[sch.current].op = "close" /\ closing' = waiting[sch.current]
      /\ waiting' = [waiting EXCEPT ![sch.current] = NONE]
  BY DEF ContinueClose, Resuming, WakeUp
<1>2. NONE.op = "none"
  BY WhatFacts
<1>3. Calm
  BY <1>1, <1>2 DEF Calm, Static, Shapes
<1>4. /\ \A k \in Contexts : waiting[k].op = "close" => k = 0 /\ ShellCloses(waiting[k]) /\ WriterDone
      /\ sch.current = 0 /\ ShellCloses(closing') /\ WriterDone /\ program = "pipeline" /\ ~closing'.dying
  BY <1>1 DEF Connected, OwnCloses, ShellCloses
<1>5. OwnCloses'
  <2>2. \A k \in Contexts : waiting'[k].op = "close" => waiting'[k] = waiting[k]
    BY <1>1, <1>2 DEF Static, Shapes
  <2> QED BY <1>1, <1>4, <2>2 DEF OwnCloses, ShellCloses, WriterDone, WriterSteps, programVars
<1>6. WriterHasEnd'
  BY <1>1, WriterEndKept
<1>7. Flow'
  <2>1. WriterDone => WriterDone'
    BY DEF WriterDone, WriterSteps, programVars
  <2>4. pids'[1] = pids[1]
    BY DEF programVars
  <2> QED BY <1>1, <1>3, <1>4, <2>1, <2>4, PendingKept, FlowKept DEF Connected, programVars, Writing
<1> QED BY <1>1, <1>3, <1>5, <1>6, <1>7, KernelStepConnected

\* The close of a descriptor takes it from the table and counts it.
LEMMA CloseEndDoes ==
  ASSUME Good, CloseEnd, DOMAIN pipes \subseteq {0}
  PROVE  /\ UNCHANGED <<live, fds, waiting>> /\ sch'.rsp = sch.rsp /\ sch'.current = sch.current
         /\ 0 \in DOMAIN pipes /\ DOMAIN pipes' = DOMAIN pipes
         /\ pipes'[0].name = pipes[0].name /\ pipes'[0].read_idx = pipes[0].read_idx
         /\ pipes'[0].bytes_to_read = pipes[0].bytes_to_read /\ Contents(pipes'[0]) = Contents(pipes[0])
         /\ closing'.op = "close" /\ closing'.pid = closing.pid /\ closing'.fd = closing.fd
         /\ closing'.dying = closing.dying
         /\ \E entry \in pipe_fd_table :
              /\ entry.pid = closing.pid /\ entry.fd = closing.fd /\ pipe_fd_table' = pipe_fd_table \ {entry}
              /\ closing'.step = "eof" => ~entry.allow_rd /\ Ends(pipe_fd_table', 0, FALSE) = {}
<1>1. /\ closing.op = "close" /\ closing.step = "close" /\ closing \in Closes /\ CloseInv(closing)
      /\ UNCHANGED <<live, fds, waiting>>
      /\ closing.pid \in Pids /\ closing.fd \in FDs /\ SchInv(sch)
  BY WhatFacts DEF CloseEnd, Good, ClosingInv, Typed
<1>2. PICK entry \in pipe_fd_table : entry.pid = closing.pid /\ entry.fd = closing.fd
  BY <1>1 DEF CloseInv, HasEntry
<1>3. /\ entry \in PipeFds /\ entry.pipe_id \in DOMAIN pipes /\ entry.pipe_id = 0
      /\ entry.allow_wr = ~entry.allow_rd /\ entry.allow_rd \in BOOLEAN
      /\ \A other \in pipe_fd_table : other.pid = closing.pid /\ other.fd = closing.fd => other = entry
  BY <1>2 DEF Good, Table, Typed, PipeFds, Unique
<1>4. GetPipeFd(closing.pid, closing.fd) = entry
  <2> DEFINE found == {e \in pipe_fd_table : e.pid = closing.pid /\ e.fd = closing.fd}
  <2>1. found = {entry}
    BY <1>2, <1>3
  <2> HIDE DEF found
  <2>2. (CHOOSE e \in found : TRUE) = entry
    BY <2>1
  <2>3. GetPipeFd(closing.pid, closing.fd) =
          IF found = {} THEN PipeFd(closing.pid, closing.fd, 0, FALSE) ELSE CHOOSE e \in found : TRUE
    BY DEF GetPipeFd, found
  <2> QED BY <2>1, <2>2, <2>3
<1> DEFINE p == pipes[0]
           last_rd == entry.allow_rd /\ p.readers = 1
           last_wr == entry.allow_wr /\ p.writers = 1
           counted == EndCounted(p, entry, -1)
           queue == IF last_rd THEN <<>> ELSE p.wr_q
           q == [counted EXCEPT !.wr_q = queue]
           step == IF last_wr THEN "eof" ELSE "finish"
           c == [closing EXCEPT !.step = step, !.pipe = 0]
           s == QueueUnblockAll(sch, p.wr_q)
<1>5. /\ pipe_fd_table' = pipe_fd_table \ {entry} /\ pipes' = [pipes EXCEPT ![0] = q]
      /\ sch' = IF last_rd THEN s ELSE sch
      /\ closing' = c
  BY <1>3, <1>4, Zenon DEF CloseEnd
<1>6. /\ p \in PipeInfo /\ p.wr_q \in Seq(Int)
      /\ p.writers = Cardinality(Ends(pipe_fd_table, 0, FALSE))
  <2>1. 0 \in DOMAIN pipes /\ Typed
    BY <1>3 DEF Good
  <2>2. p \in PipeInfo /\ p.wr_q \in Seq(Int)
    BY <2>1, TypedFacts
  <2>3. p.writers = Cardinality(Ends(pipe_fd_table, 0, FALSE))
    BY <2>1 DEF Good, Counted
  <2> HIDE DEF p
  <2> QED BY <2>2, <2>3
<1>7. s.rsp = sch.rsp /\ s.current = sch.current
  BY <1>1, <1>6, UnblockAllFacts
<1> HIDE DEF s
<1>8. /\ counted.buffer = p.buffer /\ counted.read_idx = p.read_idx /\ counted.bytes_to_read = p.bytes_to_read
      /\ counted.name = p.name
  <2>1. PICK readers, writers : counted = [p EXCEPT !.readers = readers, !.writers = writers]
    BY DEF EndCounted
  <2>2. /\ counted.buffer = p.buffer /\ counted.read_idx = p.read_idx
        /\ counted.bytes_to_read = p.bytes_to_read
    BY <1>6, EndCountedBytes
  <2>3. counted.name = p.name
    <3> HIDE DEF counted
    <3> QED BY <1>6, <2>1 DEF PipeInfo
  <2> QED BY <2>2, <2>3
<1> HIDE DEF counted
<1>9. /\ q.buffer = p.buffer /\ q.read_idx = p.read_idx /\ q.bytes_to_read = p.bytes_to_read /\ q.name = p.name
  BY <1>8
<1> HIDE DEF q
<1>10. Contents(q) = Contents(p)
  BY <1>6, <1>9, SameBytes
<1>11. DOMAIN pipes' = DOMAIN pipes /\ 0 \in DOMAIN pipes /\ pipes'[0] = q
  BY <1>3, <1>5
<1>12. /\ closing'.op = "close" /\ closing'.pid = closing.pid /\ closing'.fd = closing.fd
       /\ closing'.dying = closing.dying /\ closing'.step = step
  <2> HIDE DEF step
  <2> QED BY <1>1, <1>5 DEF Closes
<1>13. last_wr => Ends(pipe_fd_table', 0, FALSE) = {}
  <2> SUFFICES ASSUME last_wr PROVE Ends(pipe_fd_table', 0, FALSE) = {}
    OBVIOUS
  <2> DEFINE ends_before == Ends(pipe_fd_table, 0, FALSE)
  <2>1. pipe_fd_table \in SUBSET PipeFds /\ Unique(pipe_fd_table)
    BY DEF Good, Typed, Table
  <2>2. IsFiniteSet(ends_before)
    BY <2>1, EndsBounded
  <2>3. entry \in ends_before /\ Cardinality(ends_before) = 1
    BY <1>3, <1>6 DEF Ends
  <2> HIDE DEF ends_before
  <2>4. IsFiniteSet(ends_before \ {entry}) /\ Cardinality(ends_before \ {entry}) = 0
    BY <2>2, <2>3, FS_RemoveElement
  <2>5. ends_before \ {entry} = {}
    BY <2>4, FS_EmptySet
  <2> QED BY <1>5, <2>5 DEF Ends, ends_before
<1>14. closing'.step = "eof" => ~entry.allow_rd /\ Ends(pipe_fd_table', 0, FALSE) = {}
  BY <1>3, <1>12, <1>13
<1>15. sch'.rsp = sch.rsp /\ sch'.current = sch.current
  BY <1>5, <1>7
<1> QED BY <1>1, <1>2, <1>5, <1>9, <1>10, <1>11, <1>12, <1>14, <1>15

\* It writes a mark when that was the last one for writing: then the writer is done.
LEMMA CloseEndConnected ==
  ASSUME Static, Connected, Good, CloseEnd, UNCHANGED programVars
  PROVE  Static' /\ Connected'
<1>0. DOMAIN pipes \subseteq {0} /\ pids[1] # NULL /\ closing.op = "close"
  <2>1. DOMAIN pipes \subseteq {0}
    BY DEF Connected, ThePipe
  <2> QED BY <2>1, CloseEndDoes DEF Connected, ThePipe, CloseEnd
<1>1. /\ UNCHANGED <<live, fds, waiting>> /\ sch'.rsp = sch.rsp /\ sch'.current = sch.current
      /\ 0 \in DOMAIN pipes /\ DOMAIN pipes' = DOMAIN pipes
      /\ pipes'[0].name = pipes[0].name /\ pipes'[0].read_idx = pipes[0].read_idx
      /\ pipes'[0].bytes_to_read = pipes[0].bytes_to_read /\ Contents(pipes'[0]) = Contents(pipes[0])
      /\ closing'.op = "close" /\ closing'.pid = closing.pid /\ closing'.fd = closing.fd
      /\ closing'.dying = closing.dying
  BY <1>0, CloseEndDoes
<1>2. PICK entry \in pipe_fd_table :
        /\ entry.pid = closing.pid /\ entry.fd = closing.fd /\ pipe_fd_table' = pipe_fd_table \ {entry}
        /\ closing'.step = "eof" => ~entry.allow_rd /\ Ends(pipe_fd_table', 0, FALSE) = {}
  BY <1>0, CloseEndDoes
<1>3. Calm
  BY <1>1 DEF Calm, Static, Shapes
<1>4. \A pid \in Pids \ {0} : pc[pid] = "write" => ~(closing.pid = pid /\ closing.fd = Out(pid))
  <2> SUFFICES ASSUME NEW pid \in Pids \ {0}, pc[pid] = "write", closing.pid = pid, closing.fd = Out(pid)
               PROVE  FALSE
    OBVIOUS
  <2>1. IsActive(sch, pid)
    BY DEF Connected, Running
  <2>2. ~closing.dying
    BY <1>0, <2>1 DEF Good, ClosingInv, CloseInv
  <2>3. ShellCloses(closing)
    BY <1>0, <2>2 DEF Connected, OwnCloses
  <2>4. Out(pid) = 1 /\ 1 \in 0 .. 2
    <3>1. program = "pipeline" /\ pc[0] # "dup_1"
      BY <2>3 DEF ShellCloses
    <3>2. Out(pid) = 1
      BY <3>1 DEF Out, STDOUT
    <3> QED BY <3>2
  <2> QED BY <2>3, <2>4 DEF ShellCloses
<1>5. WriterHasEnd'
  BY <1>1, <1>2, <1>4, WriterEndKept
<1>6. closing'.step = "eof" => WriterDone
  <2> SUFFICES ASSUME closing'.step = "eof", ~WriterDone PROVE FALSE
    OBVIOUS
  <2>1. program = "pipeline"
    BY <1>0, <1>1 DEF Connected, OwnCloses, Static, Shapes
  <2>2. PICK pid \in Pids \ {0} : pc[pid] = "write"
    BY <1>0, <2>1 DEF WriterDone, WriterSteps
  <2>3. PipeFd(pid, Out(pid), 0, FALSE) \in pipe_fd_table'
    BY <1>1, <1>5, <2>2 DEF WriterHasEnd, Out, programVars
  <2>4. Ends(pipe_fd_table', 0, FALSE) = {}
    BY <1>2
  <2> QED BY <2>3, <2>4 DEF Ends, PipeFd
<1>7. OwnCloses'
  <2>1. WriterDone' <=> WriterDone
    BY DEF WriterDone, WriterSteps, programVars
  <2>2. UNCHANGED <<program, pc>>
    BY DEF programVars
  <2> QED BY <1>0, <1>1, <1>6, <2>1, <2>2 DEF Connected, OwnCloses, ShellCloses
<1>8. Flow'
  <2>1. WriterDone => WriterDone'
    BY DEF WriterDone, WriterSteps, programVars
  <2>2. pids'[1] = pids[1]
    BY DEF programVars
  <2>3. OnlyReading => OnlyReading'
    BY <1>0, <1>1, <1>2 DEF OnlyReading
  <2>4. program = "testpipe" /\ closing'.step = "eof" => ~OnlyReading /\ OnlyReading'
    <3> SUFFICES ASSUME program = "testpipe", closing'.step = "eof" PROVE ~OnlyReading /\ OnlyReading'
      OBVIOUS
    <3>1. \A e, f \in pipe_fd_table : e.pid = f.pid /\ ~e.allow_rd /\ ~f.allow_rd => e = f
      BY DEF Connected, TestPipe
    <3> QED BY <1>0, <1>1, <1>2, <3>1 DEF OnlyReading
  <2> QED BY <1>1, <1>3, <2>1, <2>2, <2>3, <2>4, PendingKept, FlowKept DEF Connected, programVars, Writing
<1>9. pipe_fd_table' \subseteq pipe_fd_table
  BY <1>2
<1> QED BY <1>1, <1>3, <1>5, <1>7, <1>8, <1>9, KernelStepConnected DEF IsActive

\* Where the bytes still to be read begin.
LEMMA WriteKeepsReadIdx ==
  ASSUME NEW p \in PipeInfo, NEW data
  PROVE  WritePipeBuffer(p, data).read_idx = p.read_idx \/ WritePipeBuffer(p, data).read_idx = 0
<1> DEFINE q == Grow(p, Len(data))
<1>1. q.read_idx = p.read_idx \/ q.read_idx = 0
  <2>1. q = p \/ \E buffer : q = [p EXCEPT !.buffer = buffer, !.read_idx = 0]
    BY DEF Grow
  <2> HIDE DEF q
  <2> QED BY <2>1 DEF PipeInfo
<1>2. \E buffer, n : WritePipeBuffer(p, data) = [q EXCEPT !.buffer = buffer, !.bytes_to_read = n]
  BY DEF WritePipeBuffer
<1>3. PICK buffer, n : WritePipeBuffer(p, data) = [q EXCEPT !.buffer = buffer, !.bytes_to_read = n]
  BY <1>2
<1> HIDE DEF q
<1> QED BY <1>1, <1>3

\* In a form that can be cited where sequences are joined.
LEMMA BytesAssociative ==
  ASSUME NEW r \in Seq(Bytes), NEW s \in Seq(Bytes), NEW t \in Seq(Bytes)
  PROVE  (r \o s) \o t = r \o (s \o t)
BY ConcatAssociative

\* What a write puts after what was there comes after what was sent.
LEMMA BytesJoined ==
  ASSUME NEW r \in Seq(Bytes), NEW s, NEW c \in Seq(Bytes), NEW d \in Seq(Bytes),
         NEW data \in Seq(Bytes), NEW rest \in Seq(Bytes), r \o c = s, d \o rest = c \o data
  PROVE  (r \o d) \o rest = s \o data
<1>1. (r \o d) \o rest = r \o (d \o rest)
  BY BytesAssociative
<1>2. (r \o c) \o data = r \o (c \o data)
  BY BytesAssociative
<1> QED BY <1>1, <1>2

\* A mark more.
LEMMA MarkAdded ==
  ASSUME NEW k \in Nat
  PROVE  Marks(k) \o <<EOF>> = Marks(k + 1)
<1> DEFINE m == Marks(k)
           end == <<EOF>>
           both == m \o end
           n == Marks(k + 1)
<1>1. m \in Seq(Bytes) /\ Len(m) = k /\ \A i \in 1 .. k : m[i] = EOF
  BY MarksFacts
<1>2. n \in Seq(Bytes) /\ Len(n) = k + 1 /\ \A i \in 1 .. k + 1 : n[i] = EOF
  BY MarksFacts
<1>3. end \in Seq(Bytes) /\ Len(end) = 1 /\ end[1] = EOF
  BY BytesFacts
<1> HIDE DEF m, n, end
<1>4. both \in Seq(Bytes) /\ Len(both) = k + 1
  BY <1>1, <1>3, ConcatProperties
<1>5. \A i \in 1 .. k + 1 : both[i] = EOF
  <2> SUFFICES ASSUME NEW i \in 1 .. k + 1 PROVE both[i] = EOF
    OBVIOUS
  <2>1. both[i] = IF i <= Len(m) THEN m[i] ELSE end[i - Len(m)]
    BY <1>1, <1>3, ConcatProperties
  <2>2. (i <= k => i \in 1 .. k) /\ (~(i <= k) => i - k = 1)
    OBVIOUS
  <2> QED BY <1>1, <1>3, <2>1, <2>2
<1> HIDE DEF both
<1>6. both = n
  BY <1>2, <1>4, <1>5, SeqEqual
<1> QED BY <1>6 DEF both, m, n, end

\* When the first process is done, nothing of its is left to go into the pipe.
LEMMA NothingPending ==
  ASSUME Connected, Static, WriterDone
  PROVE  Pending = <<>>
<1>1. ASSUME pids[1] \in Pids, waiting[pids[1]].op = "write" PROVE FALSE
  <2>1. pids[1] # 0 /\ pc[pids[1]] = "write"
    BY <1>1, ConstantFacts DEF Connected, InCalls
  <2> QED BY <1>1, <2>1 DEF WriterDone, WriterSteps
<1> QED BY <1>1 DEF Pending

\* The mark goes into the pipe.
LEMMA WriteEofDoes ==
  ASSUME Good, WriteEof, DOMAIN pipes \subseteq {0}
  PROVE  /\ UNCHANGED <<live, fds, pipe_fd_table, waiting>> /\ sch'.rsp = sch.rsp /\ sch'.current = sch.current
         /\ 0 \in DOMAIN pipes /\ DOMAIN pipes' = DOMAIN pipes
         /\ pipes'[0].name = pipes[0].name
         /\ pipes'[0].read_idx = pipes[0].read_idx \/ pipes'[0].read_idx = 0
         /\ Contents(pipes'[0]) = Contents(pipes[0]) \o <<EOF>>
         /\ closing'.op = "close" /\ closing'.pid = closing.pid /\ closing'.fd = closing.fd
         /\ closing'.dying = closing.dying /\ closing'.step = "finish"
<1> DEFINE p == pipes[0]
           end == <<EOF>>
           w == WritePipeBuffer(p, end)
           q == [w EXCEPT !.rd_q = <<>>]
           r == [q EXCEPT !.rd_q = <<>>]
           marked == [pipes EXCEPT ![0] = q]
           s == QueueUnblockAll(sch, p.rd_q)
           t == QueueUnblockAll(s, q.rd_q)
           c == [closing EXCEPT !.step = "finish"]
<1>1. /\ closing.op = "close" /\ closing.step = "eof" /\ 0 \in DOMAIN pipes /\ BytesWritten(p, end) = 1
      /\ UNCHANGED <<live, fds, pipe_fd_table, waiting>> /\ closing' = c
  BY DEF WriteEof
<1>2. closing \in Closes /\ closing.pipe \in DOMAIN pipes /\ closing.pipe = 0
  BY <1>1, WhatFacts DEF Good, Typed, ClosingInv, CloseInv
<1>3. pipes' = [marked EXCEPT ![0].rd_q = <<>>] /\ sch' = QueueUnblockAll(s, marked[0].rd_q)
  BY <1>2 DEF WriteEof
<1>4. p \in PipeInfo /\ p.rd_q \in Seq(Int) /\ <<>> \in Seq(Int)
  <2>1. p \in PipeInfo /\ p.rd_q \in Seq(Int)
    BY <1>1, TypedFacts DEF Good
  <2>2. <<>> \in Seq(Int)
    OBVIOUS
  <2> QED BY <2>1, <2>2
<1>5. end \in Seq(Bytes) /\ SubSeq(end, 1, 1) = end
  <2>1. end \in Seq(Bytes) /\ Len(end) = 1
    BY BytesFacts
  <2> HIDE DEF end
  <2>2. SubSeq(end, 1, Len(end)) = end
    BY <2>1, SubSeqFull
  <2> QED BY <2>1, <2>2
<1>6. /\ w \in PipeInfo /\ w.name = p.name
      /\ w.read_idx = p.read_idx \/ w.read_idx = 0
      /\ Contents(w) = Contents(p) \o end
  <2>1. Contents(w) = Contents(p) \o SubSeq(end, 1, BytesWritten(p, end))
    BY <1>4, <1>5, WriteAppends
  <2>2. w \in PipeInfo /\ w.name = p.name
    BY <1>4, <1>5, WritePipeBufferFacts
  <2>3. w.read_idx = p.read_idx \/ w.read_idx = 0
    BY <1>4, WriteKeepsReadIdx
  <2> HIDE DEF w, p, end
  <2> QED BY <1>1, <1>5, <2>1, <2>2, <2>3
<1> HIDE DEF w
<1>7. /\ q.rd_q = <<>> /\ q.buffer = w.buffer /\ q.read_idx = w.read_idx /\ q.bytes_to_read = w.bytes_to_read
      /\ q.name = w.name
  BY <1>6 DEF PipeInfo
<1>8. q = r
  <2> QED BY <1>6 DEF PipeInfo
<1>9. pipes' = [pipes EXCEPT ![0] = q]
  <2> HIDE DEF q
  <2> QED BY <1>1, <1>3, <1>7, <1>8
<1> HIDE DEF q
<1>10. Contents(q) = Contents(w)
  BY <1>6, <1>7, SameBytes
<1>11. SchInv(s) /\ s.rsp = sch.rsp /\ s.current = sch.current
  BY <1>4, UnblockAllFacts DEF Good
<1>12. sch' = t
  BY <1>1, <1>3
<1> HIDE DEF s
<1>13. sch'.rsp = s.rsp /\ sch'.current = s.current
  <2>1. q.rd_q \in Seq(Int)
    BY <1>4, <1>7
  <2> QED BY <1>11, <1>12, <2>1, UnblockAllFacts
<1>14. /\ closing'.op = "close" /\ closing'.pid = closing.pid /\ closing'.fd = closing.fd
       /\ closing'.dying = closing.dying /\ closing'.step = "finish"
  BY <1>1, <1>2 DEF Closes
<1> QED BY <1>1, <1>6, <1>7, <1>9, <1>10, <1>11, <1>13, <1>14 DEF end

\* One mark more is in the flow.
LEMMA WriteEofConnected ==
  ASSUME Static, Connected, Good, WriteEof, UNCHANGED programVars
  PROVE  Static' /\ Connected'
<1>0. DOMAIN pipes \subseteq {0} /\ WriterDone /\ closing.op = "close" /\ closing.step = "eof"
  BY DEF Connected, ThePipe, OwnCloses, WriteEof
<1>1. /\ UNCHANGED <<live, fds, pipe_fd_table, waiting>> /\ sch'.rsp = sch.rsp /\ sch'.current = sch.current
      /\ 0 \in DOMAIN pipes /\ DOMAIN pipes' = DOMAIN pipes
      /\ pipes'[0].name = pipes[0].name
      /\ pipes'[0].read_idx = pipes[0].read_idx \/ pipes'[0].read_idx = 0
      /\ Contents(pipes'[0]) = Contents(pipes[0]) \o <<EOF>>
      /\ closing'.op = "close" /\ closing'.pid = closing.pid /\ closing'.fd = closing.fd
      /\ closing'.dying = closing.dying /\ closing'.step = "finish"
  BY <1>0, WriteEofDoes
<1>3. Calm
  BY <1>1 DEF Calm, Static, Shapes
<1>5. WriterHasEnd'
  BY <1>1, WriterEndKept
<1>6. UNCHANGED <<program, pc, pids, sent, received>> /\ (WriterDone' <=> WriterDone)
  BY DEF programVars, WriterDone, WriterSteps
<1>7. OwnCloses'
  BY <1>0, <1>1, <1>6 DEF Connected, OwnCloses, ShellCloses
<1>8. Flow'
  <2>1. PICK k \in Nat : FlowWith(k)
    BY <1>1 DEF Connected, Flow
  <2>2. (received \o Contents(pipes[0]) \o Pending = sent \o Marks(k + 1))'
    <3>1. received \o Contents(pipes[0]) \o Pending = sent \o Marks(k)
      BY <2>1 DEF FlowWith
    <3>2. Pending = <<>> /\ Pending' = Pending
      BY <1>0, <1>3, <1>6, NothingPending, PendingKept
    <3> DEFINE c == Contents(pipes[0])
               end == <<EOF>>
    <3>3. c \in Seq(Bytes) /\ end \in Seq(Bytes) /\ received \in Seq(Bytes) /\ sent \in Seq(Bytes)
          /\ Marks(k) \in Seq(Bytes)
      <4>1. pipes[0] \in PipeInfo
        BY <1>1, TypedFacts DEF Good
      <4> QED BY <4>1, ContentsFacts, BytesFacts, MarksFacts DEF Static, Shapes
    <3>4. Marks(k) \o end = Marks(k + 1)
      BY MarkAdded
    <3> HIDE DEF c, end
    <3>5. received \o c \in Seq(Bytes) /\ c \o end \in Seq(Bytes) /\ received \o (c \o end) \in Seq(Bytes)
      BY <3>3, ConcatProperties
    <3>6. received \o c = sent \o Marks(k)
      BY <3>1, <3>2, <3>5, ConcatEmptySeq DEF c
    <3>7. (received \o c) \o end = received \o (c \o end)
      BY <3>3, BytesAssociative, Zenon
    <3>8. (sent \o Marks(k)) \o end = sent \o Marks(k + 1)
      <4> PICK m, more : m = Marks(k) /\ more = Marks(k + 1)
        OBVIOUS
      <4>1. (sent \o m) \o end = sent \o (m \o end)
        BY <3>3, BytesAssociative, Zenon
      <4> QED BY <3>4, <4>1
    <3>9. received \o (c \o end) \o <<>> = received \o (c \o end)
      BY <3>5, ConcatEmptySeq
    <3>10. Contents(pipes'[0]) = c \o end
      BY <1>1 DEF c, end
    <3>11. received \o Contents(pipes'[0]) \o Pending' = sent \o Marks(k + 1)
      BY <3>2, <3>6, <3>7, <3>8, <3>9, <3>10
    <3> QED BY <1>6, <3>11 DEF Marks
  <2>3. program = "testpipe" => k = 0 /\ OnlyReading'
    BY <1>0, <1>1, <2>1 DEF FlowWith, OnlyReading
  <2>4. FlowWith(k + 1)'
    <3>1. (k + 1 > 0 => WriterDone)'
      BY <1>0, <1>6
    <3>2. (program = "testpipe" =>
             /\ k + 1 <= 1 /\ (k + 1 = 1 => OnlyReading)
             /\ closing.op = "close" /\ closing.step = "eof" => k + 1 = 0 /\ OnlyReading)'
      BY <1>1, <1>6, <2>3
    <3> QED BY <2>2, <3>1, <3>2 DEF FlowWith
  <2>5. (received = <<>> => pipes[0].read_idx = 0)'
    BY <1>1, <1>6 DEF Connected, Flow
  <2>6. k + 1 \in Nat
    OBVIOUS
  <2> QED BY <1>1, <2>4, <2>5, <2>6 DEF Flow
<1> QED BY <1>0, <1>1, <1>3, <1>5, <1>7, <1>8, KernelStepConnected DEF IsActive

\* The pipe is full: the mark waits.
LEMMA WaitToWriteEofConnected ==
  ASSUME Static, Connected, Good, WaitToWriteEof, UNCHANGED programVars
  PROVE  Static' /\ Connected'
<1> DEFINE p == pipes[0]
           wr_q == Append(p.wr_q, closing.pid)
           q == [p EXCEPT !.wr_q = wr_q]
<1>1. /\ closing.op = "close" /\ closing.step = "eof" /\ 0 \in DOMAIN pipes
      /\ pipes' = [pipes EXCEPT ![0] = q] /\ Sleep(sch, closing.pid, closing) /\ closing' = NONE
      /\ UNCHANGED <<live, fds, pipe_fd_table, stray>>
  BY DEF WaitToWriteEof
<1>2. closing \in Closes /\ closing.pid \in Pids /\ closing # NONE /\ NONE.op = "none"
  BY <1>1, WhatFacts DEF Good, Typed
<1>3. p \in PipeInfo
  BY <1>1, TypedFacts DEF Good
<1>4. q.buffer = p.buffer /\ q.read_idx = p.read_idx /\ q.bytes_to_read = p.bytes_to_read /\ q.name = p.name
  <2> HIDE DEF wr_q
  <2> QED BY <1>3 DEF PipeInfo
<1> HIDE DEF q
<1>5. Contents(q) = Contents(p)
  BY <1>3, <1>4, SameBytes
<1>6. DOMAIN pipes' = DOMAIN pipes /\ pipes'[0] = q
  BY <1>1
<1>7. sch'.rsp = sch.rsp
  BY <1>1, <1>2, SleepFacts DEF Good
<1>8. /\ IF closing.dying THEN sch.current = KILLED_PROC_PID ELSE sch.current = 0 /\ ShellCloses(closing)
      /\ WriterDone
      /\ \A k \in Contexts : waiting[k].op = "close" => k = 0 /\ ShellCloses(waiting[k]) /\ WriterDone
  BY <1>1 DEF Connected, OwnCloses
<1>9. waiting' = waiting \/ (ShellCloses(closing) /\ waiting[0] = NONE /\ waiting' = [waiting EXCEPT ![0] = closing])
  <2>1. CASE closing.dying
    BY <1>1, <1>8, <2>1, ConstantFacts DEF Sleep
  <2>2. CASE ~closing.dying
    <3>1. sch.current = 0 /\ ShellCloses(closing) /\ 0 \in Contexts
      BY <1>8, <2>2, ConstantFacts
    <3>2. waiting[0] = NONE
      BY <1>2, <3>1 DEF Good, Slots
    <3>3. waiting' = [waiting EXCEPT ![0] = closing]
      BY <1>1, <3>1 DEF Sleep
    <3> QED BY <3>1, <3>2, <3>3
  <2> QED BY <2>1, <2>2
<1>10. DOMAIN waiting = Contexts /\ 0 \in Contexts
  BY ConstantFacts DEF Static, Shapes
<1>11. Calm
  BY <1>1, <1>2, <1>9, <1>10 DEF Calm
<1>12. UNCHANGED <<program, pc, pids, sent, received>> /\ (WriterDone' <=> WriterDone)
  BY DEF programVars, WriterDone, WriterSteps
<1>13. OwnCloses'
  <2>1. closing'.op # "close"
    BY <1>1, <1>2
  <2>2. \A k \in Contexts : waiting'[k].op = "close" => k = 0 /\ ShellCloses(waiting'[k])
    BY <1>8, <1>9, <1>10
  <2> QED BY <1>8, <1>12, <2>1, <2>2 DEF OwnCloses, ShellCloses
<1>14. WriterHasEnd'
  BY <1>1, <1>6, WriterEndKept
<1>15. Flow'
  <2>1. OnlyReading'
    BY <1>1, <1>2 DEF OnlyReading
  <2>2. closing'.op # "close"
    BY <1>1, <1>2
  <2> QED BY <1>1, <1>4, <1>5, <1>6, <1>11, <1>12, <2>1, <2>2, PendingKept, FlowKept DEF Connected, Writing
<1> QED BY <1>1, <1>4, <1>6, <1>7, <1>11, <1>13, <1>14, <1>15, KernelStepConnected DEF IsActive

\* The end of a kill.
LEMMA FinishKillConnected ==
  ASSUME Static, Connected, Good, FinishKill, UNCHANGED programVars
  PROVE  Static' /\ Connected'
<1>1. /\ live' \subseteq live /\ UNCHANGED <<pipes, pipe_fd_table, waiting>> /\ closing' = NONE
      /\ closing.op = "die"
      /\ fds' = [fds EXCEPT ![closing.pid] = [fd \in FDs |-> IF fd < 3 THEN "device" ELSE "none"]]
      /\ IF sch.current = KILLED_PROC_PID THEN SchYield(sch, sch') ELSE UNCHANGED sch
  BY DEF FinishKill
<1>2. sch'.rsp = sch.rsp
  BY <1>1, YieldFacts DEF Good
<1>3. NONE.op = "none" /\ closing.pid \in Pids
  BY <1>1, WhatFacts DEF Good, Typed
<1>4. \A pid \in Pids : fds'[pid][STDIN] = "pipe" => fds[pid][STDIN] = "pipe"
  <2> DEFINE none == [fd \in FDs |-> IF fd < 3 THEN "device" ELSE "none"]
  <2>1. none[STDIN] # "pipe"
    BY PipelineFacts
  <2>2. DOMAIN fds = Pids
    BY DEF Good, Typed
  <2> HIDE DEF none
  <2>3. fds' = [fds EXCEPT ![closing.pid] = none]
    BY <1>1 DEF none
  <2> QED BY <2>1, <2>2, <2>3
<1>5. Calm
  BY <1>1 DEF Calm, Static, Shapes
<1>6. UNCHANGED <<program, pc, pids, sent, received>> /\ (WriterDone' <=> WriterDone)
  BY DEF programVars, WriterDone, WriterSteps
<1>7. OwnCloses'
  <2>1. \A k \in Contexts : waiting[k].op = "close" => k = 0 /\ ShellCloses(waiting[k]) /\ WriterDone
    BY DEF Connected, OwnCloses
  <2>2. closing'.op # "close"
    BY <1>1, <1>3
  <2> QED BY <1>1, <1>6, <2>1, <2>2 DEF OwnCloses, ShellCloses
<1>8. WriterHasEnd'
  BY <1>1, WriterEndKept
<1>9. Flow'
  <2>1. OnlyReading'
    BY <1>1, <1>3 DEF OnlyReading
  <2>2. closing'.op # "close"
    BY <1>1, <1>3
  <2> QED BY <1>1, <1>5, <1>6, <2>1, <2>2, PendingKept, FlowKept DEF Connected, Writing
<1> QED BY <1>1, <1>2, <1>4, <1>5, <1>7, <1>8, <1>9, KernelStepConnected DEF IsActive

\* A pipe is freed with its last descriptor only when the reader has got something.
LEMMA FreedAfterRead ==
  ASSUME Connected, Static, Good, 0 \in DOMAIN pipes, FreesPipe(pipes[0])
  PROVE  received # <<>> /\ NoMoreOpens
<1>1. pipes[0].read_idx > 0
  BY DEF FreesPipe, EofWasRead
<1>2. received # <<>>
  BY <1>1 DEF Connected, Flow
<1> QED BY <1>2 DEF Static, Progress

\* The end of a close, which frees a pipe that nobody has open.
LEMMA FinishCloseDoes ==
  ASSUME Good, FinishClose, DOMAIN pipes \subseteq {0}
  PROVE  /\ closing.op = "close" /\ closing.step = "finish"
         /\ UNCHANGED <<live, waiting>> /\ sch'.rsp = sch.rsp /\ sch'.current = sch.current
         /\ \A pid \in Pids, fd \in FDs : fds'[pid][fd] = "pipe" => fds[pid][fd] = "pipe"
         /\ closing'.op = "close" =>
              /\ closing.dying /\ closing'.dying /\ closing'.pid = closing.pid /\ closing'.step = "close"
         /\ \/ UNCHANGED <<sch, pipes, pipe_fd_table, stray>>
            \/ /\ 0 \in DOMAIN pipes /\ FreesPipe(pipes[0]) /\ DOMAIN pipes' = {}
               /\ pipe_fd_table' \subseteq pipe_fd_table
<1>1. /\ closing.op = "close" /\ closing.step = "finish" /\ UNCHANGED <<live, waiting>>
      /\ fds' = [fds EXCEPT ![closing.pid][closing.fd] = "none"]
      /\ closing' = IF ~closing.dying
                THEN NONE
                ELSE IF NextFd(closing.pid, closing.fd) = {}
                     THEN [op |-> "die", pid |-> closing.pid]
                     ELSE CloseOf(closing.pid, Min(NextFd(closing.pid, closing.fd)), TRUE)
  BY DEF FinishClose
<1>2. closing \in Closes /\ closing.pid \in Pids /\ closing.fd \in FDs /\ NONE.op = "none"
  BY <1>1, WhatFacts DEF Good, Typed
<1>3. \A pid \in Pids, fd \in FDs : fds'[pid][fd] = "pipe" => fds[pid][fd] = "pipe"
  BY <1>1, <1>2 DEF Good, Typed
<1>4. closing'.op = "close" =>
        /\ closing.dying /\ closing'.dying /\ closing'.pid = closing.pid /\ closing'.step = "close"
  <2>1. CASE ~closing.dying
    BY <1>1, <1>2, <2>1
  <2>2. CASE closing.dying /\ NextFd(closing.pid, closing.fd) = {}
    BY <1>1, <1>2, <2>2
  <2>3. CASE closing.dying /\ NextFd(closing.pid, closing.fd) # {}
    <3>1. closing' = CloseOf(closing.pid, Min(NextFd(closing.pid, closing.fd)), TRUE)
      BY <1>1, <2>3
    <3> QED BY <2>3, <3>1 DEF CloseOf
  <2> QED BY <2>1, <2>2, <2>3
<1>5. CASE UNCHANGED <<sch, pipes, pipe_fd_table, stray>>
  BY <1>1, <1>3, <1>4, <1>5
<1>6. CASE closing.pipe \in DOMAIN pipes /\ FreesPipe(pipes[closing.pipe]) /\ PipeFree(sch, closing.pipe)
  <2>1. closing.pipe = 0 /\ 0 \in DOMAIN pipes
    BY <1>6
  <2>2. DOMAIN pipes' = {}
    BY <1>6, <2>1, PipeFreeDomain
  <2>3. pipe_fd_table' \subseteq pipe_fd_table
    BY <1>6 DEF PipeFree
  <2> DEFINE s == QueueUnblockAll(sch, pipes[0].wr_q)
  <2>4. pipes[0].wr_q \in Seq(Int) /\ pipes[0].rd_q \in Seq(Int)
    BY <2>1, TypedFacts DEF Good
  <2>5. sch' = QueueUnblockAll(s, pipes[0].rd_q)
    BY <1>6, <2>1 DEF PipeFree
  <2>6. SchInv(s) /\ s.rsp = sch.rsp /\ s.current = sch.current
    BY <2>4, UnblockAllFacts DEF Good
  <2> HIDE DEF s
  <2>7. sch'.rsp = s.rsp /\ sch'.current = s.current
    BY <2>4, <2>5, <2>6, UnblockAllFacts
  <2> QED BY <1>1, <1>3, <1>4, <1>6, <2>1, <2>2, <2>3, <2>6, <2>7
<1> QED BY <1>5, <1>6 DEF FinishClose

\* What was in a pipe that is freed was read, or nothing ever came of it.
LEMMA FinishCloseConnected ==
  ASSUME Static, Connected, Good, FinishClose, UNCHANGED programVars
  PROVE  Static' /\ Connected' /\ (stray' => stray \/ Frozen')
<1>0. DOMAIN pipes \subseteq {0}
  BY DEF Connected, ThePipe
<1>1. /\ closing.op = "close" /\ closing.step = "finish"
      /\ UNCHANGED <<live, waiting>> /\ sch'.rsp = sch.rsp /\ sch'.current = sch.current
      /\ \A pid \in Pids, fd \in FDs : fds'[pid][fd] = "pipe" => fds[pid][fd] = "pipe"
      /\ closing'.op = "close" =>
           /\ closing.dying /\ closing'.dying /\ closing'.pid = closing.pid /\ closing'.step = "close"
      /\ \/ UNCHANGED <<sch, pipes, pipe_fd_table, stray>>
         \/ /\ 0 \in DOMAIN pipes /\ FreesPipe(pipes[0]) /\ DOMAIN pipes' = {}
            /\ pipe_fd_table' \subseteq pipe_fd_table
  BY <1>0, FinishCloseDoes
<1>2. \/ UNCHANGED <<pipes, pipe_fd_table, stray>>
      \/ received # <<>> /\ NoMoreOpens /\ DOMAIN pipes' = {} /\ pipe_fd_table' \subseteq pipe_fd_table
  BY <1>1, FreedAfterRead
<1>3. Calm
  BY <1>1 DEF Calm, Static, Shapes
<1>4. UNCHANGED <<program, pc, pids, sent, received>> /\ (WriterDone' <=> WriterDone) /\ (NoMoreOpens => NoMoreOpens')
  BY DEF programVars, WriterDone, WriterSteps, NoMoreOpens, Ending, Closing2
<1>5. OwnCloses'
  <2>1. \A k \in Contexts : waiting[k].op = "close" => k = 0 /\ ShellCloses(waiting[k]) /\ WriterDone
    BY DEF Connected, OwnCloses
  <2>2. closing.dying => sch.current = KILLED_PROC_PID
    BY <1>1 DEF Connected, OwnCloses
  <2>3. program = "testpipe" /\ 0 \in DOMAIN pipes => WriterDone
    BY <1>1 DEF Connected, OwnCloses
  <2>4. 0 \in DOMAIN pipes' => 0 \in DOMAIN pipes
    BY <1>2
  <2> QED BY <1>1, <1>4, <2>1, <2>2, <2>3, <2>4 DEF OwnCloses, ShellCloses
<1>6. WriterHasEnd'
  <2>1. NoMoreOpens => pc[0] \notin HalfConnected
    BY DEF NoMoreOpens, Ending, Closing2, HalfConnected
  <2>2. \/ pipe_fd_table' = pipe_fd_table /\ DOMAIN pipes' = DOMAIN pipes
        \/ 0 \notin DOMAIN pipes' /\ pc[0] \notin HalfConnected /\ DOMAIN pipes' = {}
    BY <1>2, <2>1
  <2> QED BY <2>2, WriterEndKept
<1>7. Flow'
  <2>1. OnlyReading => OnlyReading'
    BY <1>1, <1>2 DEF OnlyReading
  <2>2. ~(closing'.op = "close" /\ closing'.step = "eof")
    BY <1>1
  <2>3. 0 \in DOMAIN pipes' => pipes' = pipes
    BY <1>2
  <2>4. 0 \notin DOMAIN pipes' => 0 \notin DOMAIN pipes \/ received # <<>>
    BY <1>2
  <2>5. Pending' = Pending
    BY <1>3, <1>4, PendingKept
  <2> QED BY <1>4, <2>1, <2>2, <2>3, <2>4, <2>5, FlowKept DEF Connected, Writing
<1>8. stray' => stray \/ Frozen'
  BY <1>2, <1>4 DEF Frozen
<1>9. /\ DOMAIN pipes' \subseteq DOMAIN pipes /\ pipe_fd_table' \subseteq pipe_fd_table
      /\ 0 \in DOMAIN pipes' => pipes' = pipes
      /\ \A pid \in Pids : fds'[pid][STDIN] = "pipe" => fds[pid][STDIN] = "pipe"
  BY <1>1, <1>2, PipelineFacts
<1> QED BY <1>1, <1>3, <1>5, <1>6, <1>7, <1>8, <1>9, KernelStepConnected DEF IsActive

----------------------------------------------------------------------------
(* Reads and writes *)

\* What the flow of the bytes says of what was read.
LEMMA FlowMeans ==
  ASSUME NEW s \in Seq(Bytes), EOF \notin Range(s), NEW r \in Seq(Bytes), NEW rest \in Seq(Bytes), NEW k \in Nat,
         r \o rest = s \o Marks(k), Len(r) <= Len(s) + 1
  PROVE  IsPrefix(r, s \o <<EOF>>) /\ (EOF \in Range(r) => r = s \o <<EOF>> /\ k > 0)
<1>1. IsPrefix(r, s \o <<EOF>>)
  BY FlowPrefix
<1>2. ASSUME EOF \in Range(r)
      PROVE  r = s \o <<EOF>> /\ k > 0
  <2>1. r = s \o <<EOF>>
    BY <1>1, <1>2, MarkIsLast
  <2> DEFINE m == Marks(k)
             end == <<EOF>>
  <2>2. m \in Seq(Bytes) /\ Len(m) = k /\ end \in Seq(Bytes) /\ Len(end) = 1
    BY MarksFacts, BytesFacts
  <2> HIDE DEF m, end
  <2>3. Len(s \o m) = Len(s) + k /\ Len(s \o end) = Len(s) + 1
    <3>1. Len(s \o m) = Len(s) + Len(m)
      BY <2>2, ConcatProperties
    <3>2. Len(s \o end) = Len(s) + Len(end)
      BY <2>2, ConcatProperties
    <3> QED BY <2>2, <3>1, <3>2
  <2>4. Len(r \o rest) = Len(r) + Len(rest)
    BY ConcatProperties
  <2>5. Len(r) = Len(s) + 1 /\ Len(r) + Len(rest) = Len(s) + k
    BY <2>1, <2>3, <2>4 DEF m, end
  <2>6. Len(r) \in Nat /\ Len(s) \in Nat /\ Len(rest) \in Nat
    BY LenProperties
  <2>7. k > 0
    BY <2>5, <2>6
  <2> QED BY <2>1, <2>7
<1> QED BY <1>1, <1>2

\* A round of read takes the first bytes of the pipe, or sleeps.
LEMMA ReadRoundDoes ==
  ASSUME Good, DOMAIN pipes \subseteq {0}, pipes[0].name # NULL, NEW pid \in Pids, sch.current = pid, NEW id,
         NEW count \in Counts, ReadRound(pid, id, count)
  PROVE  /\ id = 0 /\ 0 \in DOMAIN pipes /\ UNCHANGED <<live, fds, pipe_fd_table, closing, stray>>
         /\ sch'.rsp = sch.rsp
         /\ DOMAIN pipes' = DOMAIN pipes /\ pipes'[0].name = pipes[0].name
         /\ DOMAIN waiting' = Contexts
         /\ \A k \in Contexts \ {pid} : waiting'[k] = waiting[k]
         /\ \/ /\ waiting'[pid] = [op |-> "read", pipe |-> 0, count |-> count] /\ waiting'[pid] # NONE
               /\ pipes'[0].bytes_to_read = pipes[0].bytes_to_read /\ pipes'[0].read_idx = pipes[0].read_idx
               /\ Contents(pipes'[0]) = Contents(pipes[0])
            \/ /\ waiting'[pid] = NONE /\ pipes[0].bytes_to_read > 0
               /\ BytesRead(pipes[0], count) \in Seq(Bytes) /\ BytesRead(pipes[0], count) # <<>>
               /\ count = 1 => Len(BytesRead(pipes[0], count)) = 1
               /\ Contents(pipes[0]) = BytesRead(pipes[0], count) \o Contents(pipes'[0])
               /\ Contents(pipes'[0]) \in Seq(Bytes)
<1> DEFINE p == pipes[0]
           taken == BytesRead(p, count)
           asleep == p.bytes_to_read = 0 /\ (p.name # NULL \/ p.writers > 0)
           what == [op |-> "read", pipe |-> 0, count |-> count]
           left == ReadPipeBuffer(p, count)
           q == [left EXCEPT !.wr_q = <<>>]
           s == QueueUnblockAll(sch, p.wr_q)
           rd_q == Append(p.rd_q, pid)
           longer == [p EXCEPT !.rd_q = rd_q]
<1>1. id = 0 /\ 0 \in DOMAIN pipes /\ UNCHANGED <<live, fds, pipe_fd_table, closing, stray>>
  BY DEF ReadRound
<1>2. /\ asleep => pipes' = [pipes EXCEPT ![0] = longer] /\ Sleep(sch, pid, what)
      /\ ~asleep =>
           /\ pipes' = IF p.bytes_to_read = 0 THEN pipes ELSE [pipes EXCEPT ![0] = q]
           /\ sch' = IF p.bytes_to_read = 0 THEN sch ELSE s
           /\ waiting' = WakeUp
  BY <1>1 DEF ReadRound
<1>3. p \in PipeInfo /\ p.wr_q \in Seq(Int) /\ SchInv(sch)
  BY <1>1, TypedFacts DEF Good
<1>4. DOMAIN waiting = Contexts /\ pid \in Contexts
  BY ConstantFacts DEF Good, Typed
<1>5. count \in Nat \ {0}
  BY PipeAssumption
<1>6. CASE asleep
  <2>1. /\ longer.buffer = p.buffer /\ longer.read_idx = p.read_idx
        /\ longer.bytes_to_read = p.bytes_to_read /\ longer.name = p.name
    <3> HIDE DEF rd_q
    <3> QED BY <1>3 DEF PipeInfo
  <2> HIDE DEF longer
  <2>2. Contents(longer) = Contents(p)
    BY <1>3, <2>1, SameBytes
  <2>3. DOMAIN pipes' = DOMAIN pipes /\ pipes'[0] = longer
    BY <1>1, <1>2, <1>6
  <2>4. sch'.rsp = sch.rsp
    <3> HIDE DEF what
    <3> QED BY <1>2, <1>3, <1>6, SleepFacts
  <2>5. what # NONE
    <3>1. what.op = "read"
      OBVIOUS
    <3> HIDE DEF what
    <3> QED BY <3>1, WhatFacts
  <2>6. waiting' = [waiting EXCEPT ![pid] = what]
    BY <1>2, <1>4, <1>6 DEF Sleep
  <2> HIDE DEF asleep
  <2>7. /\ DOMAIN waiting' = Contexts /\ waiting'[pid] = what
        /\ \A k \in Contexts \ {pid} : waiting'[k] = waiting[k]
    <3> HIDE DEF what
    <3> QED BY <1>4, <2>6
  <2> QED BY <1>1, <2>1, <2>2, <2>3, <2>4, <2>5, <2>7
<1>7. CASE ~asleep
  <2>1. p.bytes_to_read # 0 /\ p.bytes_to_read \in Nat
    BY <1>3, <1>7 DEF PipeInfo
  <2>2. pipes' = [pipes EXCEPT ![0] = q] /\ sch' = s /\ waiting' = [waiting EXCEPT ![pid] = NONE]
    BY <1>2, <1>7, <2>1 DEF WakeUp
  <2>3. /\ taken \in Seq(Bytes) /\ Len(taken) = (IF count <= p.bytes_to_read THEN count ELSE p.bytes_to_read)
        /\ Contents(p) = taken \o Contents(left)
    BY <1>3, <1>5, ReadTakesTheFront
  <2>4. left \in PipeInfo /\ left.name = p.name
    BY <1>3, <1>5, ReadPipeBufferFacts
  <2> HIDE DEF left, taken, s, asleep
  <2>5. /\ q.buffer = left.buffer /\ q.read_idx = left.read_idx /\ q.bytes_to_read = left.bytes_to_read
        /\ q.name = left.name
    BY <2>4 DEF PipeInfo
  <2> HIDE DEF q
  <2>6. Contents(q) = Contents(left) /\ Contents(left) \in Seq(Bytes)
    BY <2>4, <2>5, SameBytes, ContentsFacts
  <2>7. Len(taken) > 0 /\ (count = 1 => Len(taken) = 1)
    BY <1>5, <2>1, <2>3
  <2>8. taken # <<>>
    BY <2>7
  <2>9. s.rsp = sch.rsp
    BY <1>3, UnblockAllFacts DEF s
  <2>10. DOMAIN pipes' = DOMAIN pipes /\ pipes'[0] = q
    BY <1>1, <2>2
  <2>11. /\ DOMAIN waiting' = Contexts /\ waiting'[pid] = NONE
         /\ \A k \in Contexts \ {pid} : waiting'[k] = waiting[k]
    BY <1>4, <2>2
  <2> QED BY <1>1, <2>1, <2>2, <2>3, <2>4, <2>5, <2>6, <2>7, <2>8, <2>9, <2>10, <2>11 DEF taken
<1> QED BY <1>6, <1>7

\* What a round of write has put into the pipe, and with what it sleeps.
RoundPuts(pid, data, rest) ==
  /\ Contents(pipes'[0]) \in Seq(Bytes)
  /\ Contents(pipes'[0]) \o rest = Contents(pipes[0]) \o data
  /\ \/ waiting'[pid] = NONE /\ rest = <<>>
     \/ waiting'[pid] = [op |-> "write", pipe |-> 0, data |-> rest]

\* A round of write puts into the pipe what fits, and sleeps with the rest in its hand.
LEMMA WriteRoundDoes ==
  ASSUME Good, DOMAIN pipes \subseteq {0}, NEW pid \in Pids, sch.current = pid, NEW id,
         NEW data \in Seq(Bytes), WriteRound(pid, id, data)
  PROVE  /\ id = 0 /\ 0 \in DOMAIN pipes /\ UNCHANGED <<live, fds, pipe_fd_table, closing, stray>>
         /\ sch'.rsp = sch.rsp
         /\ DOMAIN pipes' = DOMAIN pipes /\ pipes'[0].name = pipes[0].name
         /\ pipes'[0].read_idx = pipes[0].read_idx \/ pipes'[0].read_idx = 0
         /\ DOMAIN waiting' = Contexts
         /\ \A k \in Contexts \ {pid} : waiting'[k] = waiting[k]
         /\ \E rest \in Seq(Bytes) : RoundPuts(pid, data, rest)
<1> DEFINE p == pipes[0]
           n == BytesWritten(p, data)
           w == WritePipeBuffer(p, data)
           first == SubSeq(data, 1, n)
           rest == SubSeq(data, n + 1, Len(data))
           written == IF n = 0 THEN w ELSE [w EXCEPT !.rd_q = <<>>]
           woken == IF n = 0 THEN sch ELSE QueueUnblockAll(sch, p.rd_q)
           what == [op |-> "write", pipe |-> 0, data |-> rest]
           wr_q == Append(written.wr_q, pid)
           longer == [written EXCEPT !.wr_q = wr_q]
<1>1. id = 0 /\ 0 \in DOMAIN pipes /\ UNCHANGED <<live, fds, pipe_fd_table, closing, stray>>
  BY DEF WriteRound
<1>2. \/ /\ n = Len(data) /\ pipes' = [pipes EXCEPT ![0] = written] /\ sch' = woken /\ waiting' = WakeUp
      \/ /\ n # Len(data) /\ pipes' = [pipes EXCEPT ![0] = longer] /\ Sleep(woken, pid, what)
  BY <1>1 DEF WriteRound
<1>3. p \in PipeInfo /\ p.rd_q \in Seq(Int) /\ SchInv(sch)
  BY <1>1, TypedFacts DEF Good
<1>4. DOMAIN waiting = Contexts /\ pid \in Contexts
  BY ConstantFacts DEF Good, Typed
<1>5. /\ w \in PipeInfo /\ w.name = p.name /\ n \in 0 .. Len(data) /\ Contents(w) = Contents(p) \o first
      /\ w.read_idx = p.read_idx \/ w.read_idx = 0
      /\ Contents(w) \in Seq(Bytes) /\ Contents(p) \in Seq(Bytes)
  <2>1. w \in PipeInfo /\ w.name = p.name /\ n \in 0 .. Len(data)
    BY <1>3, WritePipeBufferFacts
  <2>2. Contents(w) = Contents(p) \o first
    BY <1>3, WriteAppends
  <2>3. w.read_idx = p.read_idx \/ w.read_idx = 0
    BY <1>3, WriteKeepsReadIdx
  <2>4. Contents(w) \in Seq(Bytes) /\ Contents(p) \in Seq(Bytes)
    BY <1>3, <2>1, ContentsFacts
  <2> QED BY <2>1, <2>2, <2>3, <2>4
<1>6. Len(data) \in Nat
  BY LenProperties
<1>7. first \in Seq(Bytes) /\ rest \in Seq(Bytes) /\ first \o rest = data /\ (n = Len(data) => rest = <<>>)
  <2> DEFINE one == 1
             next == n + 1
             len == Len(data)
  <2>1. /\ one \in 1 .. len + 1 /\ n \in one - 1 .. len /\ len \in n .. len /\ next \in 1 .. len + 1
        /\ len \in next - 1 .. len /\ next \in Int /\ len \in Int /\ (n = len => len < next)
    BY <1>5, <1>6
  <2> HIDE DEF one, next, n
  <2>2. SubSeq(data, one, n) \in Seq(Bytes) /\ SubSeq(data, next, len) \in Seq(Bytes)
    BY <2>1, SegmentFacts
  <2>3. SubSeq(data, one, n) \o SubSeq(data, n + 1, len) = SubSeq(data, one, len)
    BY <2>1, ConcatAdjacentSubSeq
  <2>4. SubSeq(data, 1, len) = data
    BY SubSeqFull
  <2>5. n = len => SubSeq(data, next, len) = <<>>
    BY <2>1, SubSeqEmpty
  <2> QED BY <2>2, <2>3, <2>4, <2>5 DEF one, next
<1>8. Contents(w) \o rest = Contents(p) \o data
  <2>1. (Contents(p) \o first) \o rest = Contents(p) \o (first \o rest)
    <3> DEFINE c == Contents(p)
    <3>1. c \in Seq(Bytes)
      BY <1>5
    <3> HIDE DEF c, first, rest
    <3>2. (c \o first) \o rest = c \o (first \o rest)
      BY <1>7, <3>1, BytesAssociative
    <3> QED BY <3>2 DEF c
  <2> QED BY <1>5, <1>7, <2>1
<1> HIDE DEF w, first, rest, n
<1>9. /\ written.buffer = w.buffer /\ written.read_idx = w.read_idx /\ written.bytes_to_read = w.bytes_to_read
      /\ written.name = w.name /\ DOMAIN written = DOMAIN w
  BY <1>5 DEF PipeInfo
<1>10. woken.rsp = sch.rsp /\ SchInv(woken)
  BY <1>3, UnblockAllFacts
<1> HIDE DEF woken, written, wr_q
<1>11. /\ longer.buffer = w.buffer /\ longer.read_idx = w.read_idx /\ longer.bytes_to_read = w.bytes_to_read
       /\ longer.name = w.name
  BY <1>5, <1>9 DEF PipeInfo
<1> HIDE DEF longer
<1>12. Contents(written) = Contents(w) /\ Contents(longer) = Contents(w)
  BY <1>5, <1>9, <1>11, SameBytes
<1> HIDE DEF p
<1>13. CASE n = Len(data) /\ pipes' = [pipes EXCEPT ![0] = written] /\ sch' = woken /\ waiting' = WakeUp
  <2>1. /\ DOMAIN waiting' = Contexts /\ waiting'[pid] = NONE
        /\ \A k \in Contexts \ {pid} : waiting'[k] = waiting[k]
    BY <1>4, <1>13 DEF WakeUp
  <2>2. DOMAIN pipes' = DOMAIN pipes /\ pipes'[0] = written
    BY <1>1, <1>13
  <2>3. RoundPuts(pid, data, rest)
    BY <1>5, <1>7, <1>8, <1>12, <1>13, <2>1, <2>2 DEF p, RoundPuts
  <2> QED BY <1>1, <1>5, <1>7, <1>9, <1>10, <1>13, <2>1, <2>2, <2>3 DEF p
<1>14. CASE n # Len(data) /\ pipes' = [pipes EXCEPT ![0] = longer] /\ Sleep(woken, pid, what)
  <2>1. woken.current = sch.current
    BY <1>3, UnblockAllFacts DEF woken, p
  <2>2. /\ DOMAIN waiting' = Contexts /\ waiting'[pid] = what
        /\ \A k \in Contexts \ {pid} : waiting'[k] = waiting[k]
    <3> HIDE DEF what
    <3>1. waiting' = [waiting EXCEPT ![pid] = what]
      BY <1>4, <1>14, <2>1 DEF Sleep
    <3> QED BY <1>4, <3>1
  <2>3. DOMAIN pipes' = DOMAIN pipes /\ pipes'[0] = longer
    BY <1>1, <1>14
  <2>4. sch'.rsp = sch.rsp
    <3> HIDE DEF what
    <3> QED BY <1>10, <1>14, SleepFacts
  <2>5. RoundPuts(pid, data, rest)
    BY <1>5, <1>7, <1>8, <1>12, <2>2, <2>3 DEF p, RoundPuts
  <2> QED BY <1>1, <1>5, <1>7, <1>11, <2>2, <2>3, <2>4, <2>5 DEF p
<1> QED BY <1>2, <1>13, <1>14

\* The writer goes on with its write.
LEMMA ContinueWriteConnected ==
  ASSUME Static, Connected, Good, ContinueWrite, UNCHANGED programVars
  PROVE  Static' /\ Connected'
<1> DEFINE pid == sch.current
           data == waiting[pid].data
<1>1. /\ closing = NONE /\ waiting[pid].op = "write" /\ pid = pids[1] /\ pid # 0 /\ pc[pid] = "write"
      /\ WriteRound(pid, waiting[pid].pipe, data) /\ pid \in Contexts
  BY DEF ContinueWrite, Resuming, Connected, InCalls
<1>2. pid \in Pids /\ data \in Seq(Bytes) /\ NONE.op = "none"
  <2>1. pid \in Pids
    BY <1>1, PipelineFacts, CallerIsAProcess DEF Static, Shapes
  <2> QED BY <1>1, <2>1, TypedFacts, WhatFacts DEF Good
<1> HIDE DEF data, pid
<1>3. DOMAIN pipes \subseteq {0} /\ sch.current = pid
  BY DEF Connected, ThePipe, pid
<1>4. /\ 0 \in DOMAIN pipes /\ UNCHANGED <<live, fds, pipe_fd_table, closing, stray>>
      /\ sch'.rsp = sch.rsp
      /\ DOMAIN pipes' = DOMAIN pipes /\ pipes'[0].name = pipes[0].name
      /\ pipes'[0].read_idx = pipes[0].read_idx \/ pipes'[0].read_idx = 0
      /\ DOMAIN waiting' = Contexts
      /\ \A k \in Contexts \ {pid} : waiting'[k] = waiting[k]
  BY <1>1, <1>2, <1>3, WriteRoundDoes
<1>5. PICK rest \in Seq(Bytes) : RoundPuts(pid, data, rest)
  BY <1>1, <1>2, <1>3, WriteRoundDoes
<1>6. /\ waiting'[pid].op \in {"none", "write"}
      /\ (IF waiting'[pid].op = "write" THEN waiting'[pid].data ELSE <<>>) = rest
  BY <1>2, <1>5 DEF RoundPuts
<1>7. UNCHANGED <<program, pc, pids, sent, received>> /\ (WriterDone' <=> WriterDone)
  BY DEF programVars, WriterDone, WriterSteps
<1>8. InCalls'
  <2>1. InCalls
    BY DEF Connected
  <2>2. waiting'[pid].op # "read" /\ pid = pids'[1] /\ pc'[pid] = "write"
    BY <1>1, <1>6, <1>7
  <2>3. (MarkWasRead' <=> MarkWasRead) /\ (NoMoreOpens' <=> NoMoreOpens)
    BY <1>7 DEF MarkWasRead, NoMoreOpens, Ending, Closing2
  <2> QED BY <1>1, <1>4, <1>7, <2>1, <2>2, <2>3 DEF InCalls
<1>9. OwnCloses'
  <2>1. \A k \in Contexts : waiting[k].op = "close" => k = 0 /\ ShellCloses(waiting[k]) /\ WriterDone
    BY DEF Connected, OwnCloses
  <2>2. \A k \in Contexts : waiting'[k].op = "close" => waiting'[k] = waiting[k]
    BY <1>4, <1>6
  <2>3. closing'.op # "close"
    BY <1>1, <1>2, <1>4
  <2> QED BY <1>7, <2>1, <2>2, <2>3 DEF OwnCloses, ShellCloses
<1>10. WriterHasEnd'
  BY <1>4, WriterEndKept
<1>11. Flow'
  <2>1. PICK k \in Nat : FlowWith(k)
    BY <1>4 DEF Connected, Flow
  <2>2. Pending = data /\ Pending' = rest
    BY <1>1, <1>2, <1>6, <1>7 DEF Pending, data
  <2>3. received \in Seq(Bytes) /\ Contents(pipes[0]) \in Seq(Bytes)
    <3>1. pipes[0] \in PipeInfo
      BY <1>4, TypedFacts DEF Good
    <3> QED BY <3>1, ContentsFacts DEF Static, Shapes
  <2>4. received \o Contents(pipes'[0]) \o rest = received \o Contents(pipes[0]) \o data
    <3> DEFINE c == Contents(pipes[0])
               d == Contents(pipes'[0])
    <3>1. c \in Seq(Bytes) /\ d \in Seq(Bytes) /\ d \o rest = c \o data
      BY <1>5, <2>3 DEF RoundPuts
    <3> HIDE DEF c, d
    <3>2. (received \o d) \o rest = received \o (d \o rest)
      BY <2>3, <3>1, BytesAssociative
    <3>3. (received \o c) \o data = received \o (c \o data)
      BY <1>2, <2>3, <3>1, BytesAssociative
    <3> QED BY <3>1, <3>2, <3>3 DEF c, d
  <2>5. (received \o Contents(pipes[0]) \o Pending = sent \o Marks(k))'
    <3>1. received \o Contents(pipes[0]) \o data = sent \o Marks(k)
      BY <2>1, <2>2 DEF FlowWith
    <3>2. received \o Contents(pipes'[0]) \o Pending' = sent \o Marks(k)
      BY <2>2, <2>4, <3>1
    <3> QED BY <1>7, <3>2 DEF Marks
  <2>6. FlowWith(k)'
    BY <1>4, <1>7, <2>1, <2>5 DEF FlowWith, OnlyReading
  <2>7. (received = <<>> => pipes[0].read_idx = 0)'
    BY <1>4, <1>7 DEF Connected, Flow
  <2> QED BY <1>4, <2>6, <2>7 DEF Flow
<1>12. /\ \A q \in Pids : waiting[q].op = "read" => waiting'[q] = waiting[q]
       /\ \A q \in Pids \ {0} : pc[q] # "open_to_write"
  <2>1. \A q \in Pids \ {0} : pc[q] = "open_to_write" => q = pids[1] /\ program = "testpipe"
    BY DEF Static, Roles, Shapes, WriterSteps, ReaderSteps
  <2> QED BY <1>1, <1>4, <2>1, ConstantFacts
<1> QED BY <1>4, <1>8, <1>9, <1>10, <1>11, <1>12, StepOfTheKernel DEF IsActive

\* A round of the reader's read, and what it has received by it.
LEMMA ReceivedInOrder ==
  ASSUME Static, Connected, Good, NEW pid \in Pids, sch.current = pid, pids[2] = pid,
         waiting[pid].op \in {"none", "read"}, NEW id, NEW count \in Counts,
         ReadRound(pid, id, count), Receive(id, count),
         ~MarkWasRead, program = "pipeline" => count = 1, program = "testpipe" => received = <<>>,
         UNCHANGED <<program, pids, lines, sent>>, WriterDone' <=> WriterDone
  PROVE  /\ received' \in Seq(Bytes) /\ PipedInOrder' /\ EndIsAfterAll' /\ Flow'
         /\ \/ waiting'[pid].op = "none" /\ pipes[0].bytes_to_read > 0 /\ received' # <<>>
            \/ /\ waiting'[pid].op = "read" /\ waiting'[pid].count = count /\ received' = received
               /\ pipes'[0].bytes_to_read = pipes[0].bytes_to_read
         /\ 0 \in DOMAIN pipes /\ UNCHANGED <<live, fds, pipe_fd_table, closing, stray>>
         /\ sch'.rsp = sch.rsp /\ DOMAIN pipes' = DOMAIN pipes /\ pipes'[0].name = pipes[0].name
         /\ DOMAIN waiting' = Contexts
         /\ \A k \in Contexts \ {pid} : waiting'[k] = waiting[k]
<1>1. DOMAIN pipes \subseteq {0} /\ pipes[0].name # NULL
  <2>1. 0 \in DOMAIN pipes
    BY DEF ReadRound, Connected, ThePipe
  <2> QED BY <2>1, PipelineFacts DEF Connected, ThePipe
<1>2. /\ id = 0 /\ 0 \in DOMAIN pipes /\ UNCHANGED <<live, fds, pipe_fd_table, closing, stray>>
      /\ sch'.rsp = sch.rsp /\ DOMAIN pipes' = DOMAIN pipes /\ pipes'[0].name = pipes[0].name
      /\ DOMAIN waiting' = Contexts
      /\ \A k \in Contexts \ {pid} : waiting'[k] = waiting[k]
  <2>1. Good /\ ReadRound(pid, id, count)
    OBVIOUS
  <2>2. id = 0 /\ 0 \in DOMAIN pipes /\ UNCHANGED <<live, fds, pipe_fd_table, closing, stray>>
    BY <1>1, <2>1 DEF ReadRound
  <2>3. sch'.rsp = sch.rsp /\ DOMAIN pipes' = DOMAIN pipes /\ pipes'[0].name = pipes[0].name
    BY <1>1, <2>1, ReadRoundDoes
  <2>4. DOMAIN waiting' = Contexts /\ \A k \in Contexts \ {pid} : waiting'[k] = waiting[k]
    BY <1>1, <2>1, ReadRoundDoes
  <2> QED BY <2>2, <2>3, <2>4
<1> DEFINE taken == BytesRead(pipes[0], count)
           c == Contents(pipes[0])
           d == Contents(pipes'[0])
           what == [op |-> "read", pipe |-> 0, count |-> count]
<1>3. \/ /\ waiting'[pid] = what /\ waiting'[pid] # NONE
         /\ pipes'[0].bytes_to_read = pipes[0].bytes_to_read /\ pipes'[0].read_idx = pipes[0].read_idx
         /\ d = c
      \/ /\ waiting'[pid] = NONE /\ pipes[0].bytes_to_read > 0
         /\ taken \in Seq(Bytes) /\ taken # <<>> /\ (count = 1 => Len(taken) = 1)
         /\ c = taken \o d /\ d \in Seq(Bytes)
  BY <1>1, ReadRoundDoes
<1>4. /\ sent \in Seq(Bytes) /\ EOF \notin Range(sent) /\ received \in Seq(Bytes) /\ c \in Seq(Bytes)
      /\ PipedInOrder /\ EndIsAfterAll /\ Progress
  <2>1. pipes[0] \in PipeInfo
    BY <1>2, TypedFacts DEF Good
  <2> QED BY <2>1, ContentsFacts DEF Static, Shapes
<1>5. received' = IF waiting'[pid] = NONE THEN received \o taken ELSE received
  BY <1>2 DEF Receive
<1>6. Pending' = Pending /\ Pending \in Seq(Bytes)
  <2>1. waiting'[pid].op \in {"none", "read"}
    BY <1>3, WhatFacts
  <2>2. Pending' = Pending
    BY <1>2, <2>1, ConstantFacts DEF Pending
  <2>3. Pending \in Seq(Bytes)
    <3>1. <<>> \in Seq(Bytes)
      OBVIOUS
    <3>2. pids[1] \in Pids /\ waiting[pids[1]].op = "write" => waiting[pids[1]].data \in Seq(Bytes)
      BY TypedFacts, WhatFacts, ConstantFacts DEF Good
    <3> QED BY <3>1, <3>2 DEF Pending
  <2> QED BY <2>2, <2>3
<1>7. PICK k \in Nat : FlowWith(k)
  BY <1>2 DEF Connected, Flow
<1>8. received \o c \o Pending = sent \o Marks(k) /\ (k > 0 => WriterDone)
  BY <1>7 DEF FlowWith
<1> HIDE DEF taken, c, d
<1>9. ASSUME received' \o d \o Pending = sent \o Marks(k), received' = received \/ received' # <<>>,
             received' = <<>> => pipes'[0].read_idx = 0
      PROVE  Flow'
  <2>1. (received \o Contents(pipes[0]) \o Pending = sent \o Marks(k))'
    BY <1>6, <1>9 DEF Marks, d
  <2>2. FlowWith(k)'
    BY <1>2, <1>7, <1>8, <1>9, <2>1 DEF FlowWith, OnlyReading
  <2> QED BY <1>2, <1>9, <2>2 DEF Flow
<1>10. CASE waiting'[pid] # NONE
  <2>1. received' = received /\ d = c /\ pipes'[0].read_idx = pipes[0].read_idx
        /\ pipes'[0].bytes_to_read = pipes[0].bytes_to_read /\ waiting'[pid] = what
    BY <1>3, <1>5, <1>10
  <2>2. Flow'
    BY <1>2, <1>8, <1>9, <2>1 DEF Connected, Flow
  <2>3. PipedInOrder' /\ EndIsAfterAll'
    BY <1>4, <2>1 DEF PipedInOrder, EndIsAfterAll, MarkWasRead
  <2> QED BY <1>2, <1>4, <2>1, <2>2, <2>3
<1>11. CASE waiting'[pid] = NONE
  <2>0. what # NONE
    <3>1. what.op = "read"
      OBVIOUS
    <3> HIDE DEF what
    <3> QED BY <3>1, WhatFacts
  <2> HIDE DEF what
  <2>1. /\ pipes[0].bytes_to_read > 0 /\ taken \in Seq(Bytes) /\ taken # <<>> /\ (count = 1 => Len(taken) = 1)
        /\ c = taken \o d /\ d \in Seq(Bytes) /\ received' = received \o taken
    BY <1>3, <1>5, <1>11, <2>0
  <2>2. received' \in Seq(Bytes) /\ Len(received') = Len(received) + Len(taken)
    BY <1>4, <2>1, ConcatProperties
  <2>3. received' # <<>>
    <3>1. Len(taken) # 0 /\ Len(taken) \in Nat /\ Len(received) \in Nat
      BY <1>4, <2>1, LenProperties, EmptySeq
    <3>2. Len(received') # 0
      BY <2>2, <3>1
    <3> QED BY <3>2
  <2> DEFINE rest == d \o Pending
  <2>4. received' \o rest = sent \o Marks(k) /\ rest \in Seq(Bytes) /\ received' \o d \o Pending = sent \o Marks(k)
    <3>1. received \o c = received' \o d
      <4>1. (received \o taken) \o d = received \o (taken \o d)
        BY <1>4, <2>1, BytesAssociative
      <4> QED BY <2>1, <4>1
    <3>2. (received' \o d) \o Pending = received' \o (d \o Pending)
      BY <1>6, <2>1, <2>2, BytesAssociative
    <3>3. rest \in Seq(Bytes)
      BY <1>6, <2>1, ConcatProperties
    <3> QED BY <1>8, <3>1, <3>2, <3>3
  <2> HIDE DEF rest
  <2>5. Flow'
    BY <1>9, <2>3, <2>4
  <2>6. Len(received') <= Len(sent) + 1
    <3>0. Len(sent) \in Nat /\ Len(received) \in Nat /\ Len(taken) \in Nat /\ Len(rest) \in Nat
      BY <1>4, <2>1, <2>4, LenProperties
    <3>1. CASE program = "pipeline"
      <4> DEFINE none == <<>>
      <4>1. none \in Seq(Bytes)
        OBVIOUS
      <4>2. IsPrefix(received, sent \o <<EOF>>) /\ EOF \notin Range(received)
        BY <1>4 DEF PipedInOrder, MarkWasRead
      <4> HIDE DEF none
      <4>3. Len(received) <= Len(sent)
        BY <1>4, <4>1, <4>2, PrefixGrows
      <4>4. Len(taken) = 1 /\ Len(received') = Len(received) + Len(taken)
        BY <2>1, <2>2, <3>1
      <4> QED BY <3>0, <4>3, <4>4
    <3>2. CASE program = "testpipe"
      <4>1. k <= 1
        BY <1>7, <3>2 DEF FlowWith
      <4> DEFINE m == Marks(k)
      <4>2. m \in Seq(Bytes) /\ Len(m) = k
        BY MarksFacts
      <4> HIDE DEF m
      <4>3. Len(sent \o m) = Len(sent) + Len(m)
        BY <1>4, <4>2, ConcatProperties
      <4>4. Len(received' \o rest) = Len(received') + Len(rest)
        BY <2>2, <2>4, ConcatProperties
      <4>5. Len(received') + Len(rest) = Len(sent) + k
        BY <2>4, <4>2, <4>3, <4>4 DEF m
      <4>6. Len(received') \in Nat
        BY <2>2, LenProperties
      <4> QED BY <3>0, <4>1, <4>5, <4>6
    <3> QED BY <3>1, <3>2 DEF Static, Shapes
  <2>7. IsPrefix(received', sent \o <<EOF>>) /\ (EOF \in Range(received') => received' = sent \o <<EOF>> /\ k > 0)
    <3> DEFINE r == received'
    <3>1. r \in Seq(Bytes) /\ r \o rest = sent \o Marks(k) /\ Len(r) <= Len(sent) + 1
      BY <2>2, <2>4, <2>6
    <3> HIDE DEF r
    <3>2. IsPrefix(r, sent \o <<EOF>>) /\ (EOF \in Range(r) => r = sent \o <<EOF>> /\ k > 0)
      BY <1>4, <2>4, <3>1, FlowMeans
    <3> QED BY <3>2 DEF r
  <2>8. PipedInOrder' /\ EndIsAfterAll'
    BY <1>4, <1>8, <2>7 DEF PipedInOrder, EndIsAfterAll, MarkWasRead, Progress
  <2> QED BY <1>2, <1>11, <2>1, <2>2, <2>3, <2>5, <2>8, WhatFacts
<1> QED BY <1>10, <1>11

\* The reader reads a round, and what it goes on with.
LEMMA ReceiveConnected ==
  ASSUME Static, Connected, Good, closing = NONE, NEW pid \in Pids \ {0}, sch.current = pid, pids[2] = pid,
         waiting[pid].op \in {"none", "read"}, NEW id, NEW count \in Counts,
         ReadRound(pid, id, count), Receive(id, count), ~MarkWasRead,
         program = "pipeline" => count = 1 /\ pc[0] \in Ending, program = "testpipe" => received = <<>>,
         pc[pid] \in {"read", "unlink"}, UNCHANGED <<program, pids, ends, lines, sent>>,
         DOMAIN pc' = Pids, \A q \in Pids \ {pid} : pc'[q] = pc[q],
         pc'[pid] = IF program = "pipeline" THEN "read" ELSE "unlink"
  PROVE  Static' /\ Connected'
<1>1. /\ Shapes /\ Roles /\ Progress /\ Running /\ InCalls /\ Redirected /\ ThePipe /\ WriterHasEnd /\ OwnCloses
      /\ TestPipe /\ program \in {"pipeline", "testpipe"} /\ pid \in Pids /\ pid # 0 /\ 0 \in Pids /\ NULL \notin Pids
  BY PipelineFacts, ConstantFacts DEF Static, Connected, Shapes
<1>2. pc'[pid] \in ReaderSteps /\ pc'[pid] \notin WriterSteps /\ pc[pid] \notin WriterSteps
  BY DEF ReaderSteps, WriterSteps
<1>3. WriterDone' <=> WriterDone
  BY <1>1, <1>2 DEF WriterDone, WriterSteps
<1>4. /\ received' \in Seq(Bytes) /\ PipedInOrder' /\ EndIsAfterAll' /\ Flow'
      /\ \/ waiting'[pid].op = "none" /\ pipes[0].bytes_to_read > 0 /\ received' # <<>>
         \/ /\ waiting'[pid].op = "read" /\ waiting'[pid].count = count /\ received' = received
            /\ pipes'[0].bytes_to_read = pipes[0].bytes_to_read
  BY <1>1, <1>3, ReceivedInOrder
<1>5. /\ 0 \in DOMAIN pipes /\ UNCHANGED <<live, fds, pipe_fd_table, closing, stray>>
      /\ sch'.rsp = sch.rsp /\ DOMAIN pipes' = DOMAIN pipes /\ pipes'[0].name = pipes[0].name
      /\ DOMAIN waiting' = Contexts
      /\ \A k \in Contexts \ {pid} : waiting'[k] = waiting[k]
  BY <1>1, <1>3, ReceivedInOrder
<1>0. pipes[0].bytes_to_read > 0 => pipes[0].bytes_to_read # 0
  <2>1. pipes[0].bytes_to_read \in Nat
    BY <1>5, TypedFacts DEF Good, PipeInfo
  <2> QED BY <2>1
<1>6. \A q \in Pids \ {0, pid} : pc[q] \in {"none"} \cup WriterSteps
  BY <1>1 DEF Roles
<1>7. pc[0] \in Ending /\ pc'[0] = pc[0]
  <2>1. pc[0] \notin Unstarted
    BY <1>1 DEF Roles
  <2> QED BY <1>1, <2>1 DEF Roles, Steps, Unstarted, Ending
<1>8. Ending' = Ending /\ WriterSteps' = WriterSteps /\ ReaderSteps' = ReaderSteps /\ Steps' = Steps
      /\ Unstarted' = Unstarted
  BY DEF Ending, WriterSteps, ReaderSteps, Steps, Unstarted
<1>9. ASSUME NEW q \in Pids \ {0}, pipes[0].bytes_to_read > 0 \/ program = "pipeline"
      PROVE  pc'[q] \notin {"open_to_write", "open_to_read"}
  <2>1. CASE q = pid
    BY <1>1, <2>1
  <2>2. CASE q # pid
    <3>1. pc'[q] = pc[q] /\ pc[q] \in {"none"} \cup WriterSteps
      BY <1>6, <2>2
    <3>2. program = "testpipe" /\ pc[q] = "open_to_write" => pipes[0].bytes_to_read = 0
      BY <1>1, <1>5 DEF TestPipe
    <3>3. CASE program = "testpipe"
      <4>1. pc[q] # "open_to_write" /\ pc[q] \in {"none", "open_to_write", "write"}
        BY <1>0, <1>9, <3>1, <3>2, <3>3 DEF WriterSteps
      <4> QED BY <3>1, <4>1
    <3>4. CASE program = "pipeline"
      <4>1. pc[q] \in {"none", "write"}
        BY <3>1, <3>4 DEF WriterSteps
      <4> QED BY <3>1, <4>1
    <3> QED BY <1>1, <3>3, <3>4
  <2> QED BY <2>1, <2>2
<1>10. ASSUME pipes[0].bytes_to_read > 0 \/ program = "pipeline"
       PROVE  NoMoreOpens'
  BY <1>7, <1>8, <1>9, <1>10 DEF NoMoreOpens
<1>11. Shapes'
  BY <1>1, <1>4, <1>5 DEF Shapes
<1>12. Roles'
  <2>1. \A q \in Pids \ {0} :
          /\ pc'[q] \in {"none"} \cup WriterSteps \cup ReaderSteps
          /\ pc'[q] \in WriterSteps => pids[1] = q
          /\ pc'[q] \in ReaderSteps => pids[2] = q
    BY <1>1, <1>2 DEF Roles
  <2> QED BY <1>1, <1>7, <1>8, <2>1 DEF Roles
<1>13. Progress'
  <2>1. WriterDone' => lines' = <<>>
    BY <1>1, <1>3 DEF Progress
  <2>2. received' # <<>> => NoMoreOpens'
    <3>1. CASE received # <<>>
      <4>1. NoMoreOpens
        BY <1>1, <3>1 DEF Progress
      <4> QED BY <1>1, <1>7, <1>8, <4>1 DEF NoMoreOpens
    <3>2. CASE received = <<>>
      BY <1>4, <1>10, <3>2
    <3> QED BY <3>1, <3>2
  <2> QED BY <2>1, <2>2 DEF Progress
<1>14. Running'
  <2>1. \A q \in Pids \ {0} : pc'[q] # "none" => pc[q] # "none"
    BY <1>1
  <2> QED BY <1>1, <1>5, <2>1 DEF Running, IsActive
<1>15. InCalls'
  <2>1. ASSUME NEW k \in Contexts
        PROVE  /\ waiting'[k].op = "write" => k = pids[1] /\ k # 0 /\ pc'[k] = "write"
               /\ waiting'[k].op = "read" =>
                    /\ k = pids[2] /\ k # 0 /\ pc'[k] = (IF program = "pipeline" THEN "read" ELSE "unlink")
                    /\ ~MarkWasRead'
                    /\ program = "pipeline" => waiting'[k].count = 1 /\ NoMoreOpens'
                    /\ program = "testpipe" => received' = <<>>
    <3>1. CASE k = pid
      <4>1. waiting'[pid].op # "write"
        BY <1>4
      <4>2. waiting'[pid].op = "read" => ~MarkWasRead' /\ received' = received /\ waiting'[pid].count = count
        BY <1>4 DEF MarkWasRead
      <4> QED BY <1>1, <1>10, <3>1, <4>1, <4>2
    <3>2. CASE k # pid
      <4>1. waiting'[k] = waiting[k] /\ waiting[k].op # "read"
        BY <1>1, <1>5, <3>2 DEF InCalls
      <4>2. waiting[k].op = "write" => k = pids[1] /\ k # 0 /\ pc[k] = "write"
        BY <1>1 DEF InCalls
      <4>3. pids[1] # NULL => pids[1] \in Pids
        BY <1>1 DEF Shapes
      <4>4. k \in Contexts /\ NULL \notin Contexts
        BY PipelineFacts
      <4> QED BY <3>2, <4>1, <4>2, <4>3, <4>4
    <3> QED BY <3>1, <3>2
  <2> QED BY <2>1 DEF InCalls
<1>16. Redirected'
  BY <1>1, <1>5, <1>7, <1>8 DEF Redirected
<1>17. ThePipe'
  BY <1>1, <1>5, <1>7, <1>8 DEF ThePipe
<1>18. WriterHasEnd'
  <2>1. \A q \in Pids \ {0} : pc'[q] = "write" => pc[q] = "write"
    BY <1>1
  <2>2. \A q \in Pids \ {0} : Out(q)' = Out(q)
    BY <1>7 DEF Out
  <2> QED BY <1>1, <1>5, <1>7, <2>1, <2>2 DEF WriterHasEnd, PipeFd
<1>19. OwnCloses'
  <2>1. closing'.op # "close"
    BY <1>5, WhatFacts
  <2>2. \A k \in Contexts : waiting'[k].op = "close" => waiting'[k] = waiting[k]
    BY <1>4, <1>5
  <2>3. \A k \in Contexts : waiting[k].op = "close" => k = 0 /\ ShellCloses(waiting[k])
    BY <1>1 DEF OwnCloses
  <2>4. \A k \in Contexts : waiting[k].op = "close" => WriterDone
    BY <1>1 DEF OwnCloses
  <2>5. \A k \in Contexts : waiting'[k].op = "close" => k = 0 /\ ShellCloses(waiting[k])'
    BY <1>7, <2>2, <2>3 DEF ShellCloses
  <2> QED BY <1>3, <2>1, <2>2, <2>4, <2>5 DEF OwnCloses
<1>20. TestPipe'
  <2> SUFFICES ASSUME program = "testpipe" PROVE TestPipe'
    BY DEF TestPipe
  <2>1. ASSUME NEW q \in Pids \ {0}
        PROVE  /\ pc'[q] \in {"open_to_write", "open_to_read"} =>
                    \A entry \in pipe_fd_table' : entry.pid # q
               /\ pc'[q] = "open_to_write" /\ 0 \in DOMAIN pipes' => pipes'[0].bytes_to_read = 0
               /\ pc'[q] = "unlink" => waiting'[q].op = "read" \/ received' # <<>>
               /\ pc'[q] = "exit" => received' # <<>> /\ DOMAIN pipes' = {}
               /\ pc'[q] = "read" => received' = <<>>
    <3>1. CASE q = pid
      BY <1>4, <3>1
    <3>2. CASE q # pid
      <4>1. pc'[q] = pc[q] /\ pc[q] \in {"none", "open_to_write", "write"}
        BY <1>6, <3>2 DEF WriterSteps
      <4>2. /\ pc[q] = "open_to_write" => \A entry \in pipe_fd_table : entry.pid # q
            /\ pc[q] = "open_to_write" => pipes[0].bytes_to_read = 0
        BY <1>1, <1>5 DEF TestPipe
      <4>3. pc[q] = "open_to_write" => pipes'[0].bytes_to_read = pipes[0].bytes_to_read
        BY <1>0, <1>4, <4>2
      <4> QED BY <1>5, <4>1, <4>2, <4>3
    <3> QED BY <3>1, <3>2
  <2>2. \A e, f \in pipe_fd_table' : e.pid = f.pid /\ ~e.allow_rd /\ ~f.allow_rd => e = f
    BY <1>1, <1>5 DEF TestPipe
  <2> QED BY <2>1, <2>2 DEF TestPipe
<1>21. Static'
  BY <1>4, <1>11, <1>12, <1>13 DEF Static
<1> QED BY <1>4, <1>14, <1>15, <1>16, <1>17, <1>18, <1>19, <1>20, <1>21 DEF Connected

\* The reader goes on with its read.
LEMMA ContinueReadingConnected ==
  ASSUME Static, Connected, Good, ContinueReading
  PROVE  Static' /\ Connected'
<1> DEFINE pid == sch.current
           count == waiting[pid].count
           id == waiting[pid].pipe
<1>1. /\ closing = NONE /\ waiting[pid].op = "read" /\ pid \in Contexts
      /\ ReadRound(pid, id, count) /\ Receive(id, count)
      /\ UNCHANGED <<program, pc, pids, ends, lines, sent>>
  BY DEF ContinueReading, ContinueRead, Resuming
<1>2. /\ pid = pids[2] /\ pid # 0 /\ pc[pid] = (IF program = "pipeline" THEN "read" ELSE "unlink")
      /\ ~MarkWasRead
      /\ program = "pipeline" => count = 1 /\ NoMoreOpens
      /\ program = "testpipe" => received = <<>>
  BY <1>1 DEF Connected, InCalls
<1>3. pid \in Pids /\ count \in Counts
  <2>1. pid \in Pids
    BY <1>1, CallerIsAProcess
  <2> QED BY <1>1, <2>1, TypedFacts, WhatFacts DEF Good
<1>4. NoMoreOpens => pc[0] \in Ending
  BY DEF NoMoreOpens
<1>5. DOMAIN pc' = Pids
  BY <1>1 DEF Static, Shapes
<1>6. sch.current = pid /\ pc[pid] \in {"read", "unlink"}
  BY <1>2
<1> HIDE DEF pid, count, id
<1> QED BY <1>1, <1>2, <1>3, <1>4, <1>5, <1>6, ReceiveConnected

----------------------------------------------------------------------------
(* The steps of the programs *)

\* At a system call nothing is being closed, and the caller is in the middle of nothing.
LEMMA AtACall ==
  ASSUME Good, SystemCall
  PROVE  /\ closing = NONE /\ sch.current \in Pids /\ waiting[sch.current] = NONE /\ NONE.op = "none"
         /\ IsActive(sch, sch.current) /\ sch.current \in live
<1>1. closing = NONE /\ sch.current \in Pids /\ waiting[sch.current] = NONE
  BY ConstantFacts DEF SystemCall, Interruptible, Resuming
<1>2. IsActive(sch, sch.current)
  BY <1>1, CurrentFacts
<1>3. sch.current \in live
  BY <1>1, <1>2 DEF Good, Slots
<1> QED BY <1>1, <1>2, <1>3, WhatFacts

\* Process 0 does not make a system call in the middle of a close.
LEMMA ShellIsFree ==
  ASSUME Good, Connected, SystemCall, sch.current = 0
  PROVE  \A k \in Contexts : waiting[k].op # "close"
<1>1. waiting[0].op = "none"
  BY AtACall
<1> QED BY <1>1 DEF Connected, OwnCloses

\* A program that neither reads nor writes goes on.
LEMMA ProgramStatic ==
  ASSUME Static, ProgramsKept, DOMAIN waiting' = Contexts, UNCHANGED <<sent, received>>,
         WriterDone' => WriterDone \/ lines = <<>>,
         lines' = lines \/ (~WriterDone /\ lines # <<>> /\ lines' = Tail(lines))
  PROVE  Static'
<1>1. Shapes'
  <2>1. lines' \in Seq(Messages)
    <3>1. lines \in Seq(Messages)
      BY DEF Static, Shapes
    <3>2. lines # <<>> => Tail(lines) \in Seq(Messages)
      BY <3>1, HeadTailProperties
    <3> QED BY <3>1, <3>2
  <2> QED BY <2>1 DEF Static, Shapes, ProgramsKept
<1>2. Progress'
  <2>1. WriterDone' => lines' = <<>>
    BY DEF Static, Progress
  <2> QED BY <2>1 DEF Static, Progress, ProgramsKept
<1>3. PipedInOrder'
  BY DEF Static, PipedInOrder
<1>4. EndIsAfterAll'
  BY DEF Static, EndIsAfterAll, MarkWasRead
<1> QED BY <1>1, <1>2, <1>3, <1>4 DEF Static, ProgramsKept

\* Who sleeps in a read or a write sleeps on in it.
LEMMA InCallsKept ==
  ASSUME Static, InCalls, ProgramsKept, Calm, UNCHANGED received,
         \A k \in Contexts : waiting[k].op = "write" => pids'[1] = pids[1] /\ pc'[k] = pc[k],
         \A k \in Contexts : waiting[k].op = "read" => pids'[2] = pids[2] /\ pc'[k] = pc[k]
  PROVE  InCalls'
<1>1. program' = program /\ (MarkWasRead' <=> MarkWasRead) /\ (NoMoreOpens => NoMoreOpens')
  BY DEF ProgramsKept, MarkWasRead
<1>2. \A k \in Contexts : waiting'[k].op \in {"read", "write"} => waiting'[k] = waiting[k]
  BY DEF Calm
<1> QED BY <1>1, <1>2 DEF InCalls

\* Nobody sleeps in a call for a process that is not there yet.
LEMMA NoFirst ==
  ASSUME Static, Connected, pids[1] = NULL
  PROVE  /\ pids[2] = NULL /\ DOMAIN pipes = {} /\ ~WriterDone
         /\ \A k \in Contexts : waiting[k].op \notin {"read", "write", "close"}
         /\ \A pid \in Pids \ {0} : pc[pid] = "none"
<1>1. NULL \notin Contexts /\ NULL \notin Pids
  BY PipelineFacts, ConstantFacts
<1>2. pids[2] = NULL /\ ~WriterDone /\ \A pid \in Pids \ {0} : pc[pid] = "none"
  BY <1>1 DEF Static, Roles, WriterDone
<1>3. DOMAIN pipes = {}
  BY DEF Connected, ThePipe
<1>4. \A k \in Contexts : waiting[k].op \notin {"read", "write", "close"}
  BY <1>1, <1>2 DEF Connected, InCalls, OwnCloses
<1> QED BY <1>2, <1>3, <1>4

\* The shell reads a line.
LEMMA ExecuteLineConnected ==
  ASSUME Static, Connected, Good, ExecuteLine
  PROVE  Static' /\ Connected'
<1>1. /\ program = "pipeline" /\ pc[0] = "execute" /\ pids' = pids /\ program' = program /\ ends' = ends
      /\ pc'[0] \in {"prompt", "create_first"}
      /\ DOMAIN pc' = Pids /\ \A q \in Pids \ {0} : pc'[q] = pc[q]
  BY ExecuteLineMoves DEF Static
<1>2. /\ UNCHANGED <<sch, live, fds, pipes, pipe_fd_table, waiting, closing, stray>>
      /\ UNCHANGED <<lines, sent, received>> /\ SystemCall /\ sch.current = 0
  BY DEF ExecuteLine, AtStep, vars, pipeVars
<1>3. pids[1] = NULL
  BY <1>1 DEF Static, Roles
<1>4. /\ pids[2] = NULL /\ DOMAIN pipes = {} /\ ~WriterDone
      /\ \A k \in Contexts : waiting[k].op \notin {"read", "write", "close"}
      /\ \A pid \in Pids \ {0} : pc[pid] = "none"
  BY <1>3, NoFirst
<1>5. ProgramsKept /\ ~WriterDone'
  BY <1>1, <1>3, ExecuteLineKeepsPrograms DEF Static, WriterDone
<1>6. Static'
  <2>1. DOMAIN waiting' = Contexts
    BY <1>2 DEF Static, Shapes
  <2> QED BY <1>2, <1>5, <2>1, ProgramStatic
<1>7. Running' /\ ThePipe' /\ WriterHasEnd'
  BY <1>1, <1>2, <1>4 DEF Connected, Running, ThePipe, WriterHasEnd, HalfConnected
<1>8. InCalls'
  BY <1>2, <1>4 DEF InCalls
<1>9. Redirected'
  <2>1. \A pid \in Pids : fds[pid][STDIN] # "pipe"
    BY <1>1, <1>4 DEF Connected, Redirected, Ending, Closing2
  <2> QED BY <1>1, <1>2, <2>1 DEF Redirected
<1>10. OwnCloses' /\ TestPipe'
  <2>1. closing'.op = "none"
    BY <1>2, AtACall
  <2> QED BY <1>1, <1>2, <1>4, <2>1 DEF OwnCloses, TestPipe
<1>11. Flow'
  BY <1>1, <1>2, <1>4 DEF Connected, Flow
<1> QED BY <1>6, <1>7, <1>8, <1>9, <1>10, <1>11 DEF Connected

\* The process that is created was in nobody's way.
LEMMA CreateDoes ==
  ASSUME Static, Connected, Good, NEW child \in Pids, CreateCommand(child)
  PROVE  /\ child # 0 /\ pc[child] = "none" /\ waiting[child] = NONE
         /\ \A entry \in pipe_fd_table : entry.pid # child
         /\ SystemCall /\ sch.current = 0
         /\ UNCHANGED <<fds, pipes, pipe_fd_table, waiting, closing, stray, lines, sent, received>>
         /\ IsActive(sch', child) /\ \A q \in Pids : IsActive(sch, q) => IsActive(sch', q)
<1>1. /\ SystemCall /\ sch.current = 0 /\ child \notin live /\ sch' = SchOnProcessCreate(sch, child, DEFAULT_PRIORITY)
      /\ UNCHANGED <<fds, pipes, pipe_fd_table, waiting, closing, stray, lines, sent, received>>
  BY DEF CreateCommand, AtStep, Create
<1>2. child # 0
  BY <1>1, AtACall
<1>3. ~IsActive(sch, child) /\ waiting[child] = NONE
  BY <1>1 DEF Good, Slots
<1>4. pc[child] = "none"
  BY <1>2, <1>3 DEF Connected, Running
<1>5. \A entry \in pipe_fd_table : entry.pid # child
  BY <1>1 DEF Good, Table
<1>6. sch.rsp[child] = NULL /\ sch.current # KILLED_PROC_PID
  BY <1>1, <1>3, AtACall, CurrentFacts DEF IsActive
<1>7. sch'.rsp = [sch.rsp EXCEPT ![child] = child]
  BY <1>1, <1>6, CreateFacts, ConstantFacts DEF Good
<1>8. IsActive(sch', child) /\ \A q \in Pids : IsActive(sch, q) => IsActive(sch', q)
  <2>1. DOMAIN sch.rsp = Pids
    BY DEF Good, SchInv, SchStates
  <2> QED BY <1>7, <2>1, PipelineFacts, ConstantFacts DEF IsActive
<1> QED BY <1>1, <1>2, <1>3, <1>4, <1>5, <1>8

\* A process is created.
LEMMA CreateCommandConnected ==
  ASSUME Static, Connected, Good, PipelineNext, NEW child \in Pids, CreateCommand(child)
  PROVE  Static' /\ Connected'
<1>1. /\ child # 0 /\ pc[child] = "none" /\ waiting[child] = NONE
      /\ \A entry \in pipe_fd_table : entry.pid # child
      /\ SystemCall /\ sch.current = 0
      /\ UNCHANGED <<fds, pipes, pipe_fd_table, waiting, closing, stray, lines, sent, received>>
      /\ IsActive(sch', child) /\ \A q \in Pids : IsActive(sch, q) => IsActive(sch', q)
  BY CreateDoes
<1>2. /\ program' = program /\ ends' = ends
      /\ DOMAIN pc' = Pids /\ \A q \in Pids \ {0, child} : pc'[q] = pc[q]
      /\ \/ /\ pc[0] = "create_first" /\ pids'[1] = child /\ pids'[2] = NULL
            /\ IF program = "testpipe" THEN pc'[0] = "wait_first"
               ELSE pc'[0] \in {"create_second", "wait_first", "prompt"}
            /\ pc'[child] = IF program = "pipeline" THEN "write" ELSE "open_to_write"
         \/ /\ pc[0] = "create_second" /\ pids'[1] = pids[1] /\ pids'[2] = child
            /\ pc'[0] = IF program = "pipeline" THEN "open_1" ELSE "wait_second"
            /\ IF program = "testpipe" THEN pc'[child] = "open_to_read" ELSE pc'[child] \in {"read", "exit"}
  BY <1>1, CreateCommandMoves DEF Static
<1>3. ProgramsKept
  BY <1>1, CreateCommandKeepsPrograms DEF Static
<1>4. closing'.op = "none" /\ closing = NONE /\ \A k \in Contexts : waiting[k].op # "close"
  BY <1>1, AtACall, ShellIsFree
<1>5. Static'
  <2>1. DOMAIN waiting' = Contexts
    BY <1>1 DEF Static, Shapes
  <2>2. WriterDone' => WriterDone \/ lines = <<>>
    <3>1. \A q \in Pids : CreateCommand(q) => pc[q] = "none"
      BY CreateDoes
    <3> QED BY <3>1, WriterEnds DEF Static
  <2> QED BY <1>1, <1>3, <2>1, <2>2, ProgramStatic
<1>6. Running'
  BY <1>1, <1>2 DEF Connected, Running
<1>7. OwnCloses'
  BY <1>1, <1>4 DEF OwnCloses
<1>8. program \in {"pipeline", "testpipe"}
  BY DEF Static, Shapes
<1>9. Redirected'
  <2>1. program = "pipeline" => \A pid \in Pids : fds[pid][STDIN] # "pipe"
    BY <1>2 DEF Connected, Redirected, Ending, Closing2
  <2>2. ASSUME program = "testpipe", NEW pid \in Pids \ {0}, pc'[pid] \in {"write", "read"}
        PROVE  ends[pid][1] \in FDs /\ ends[pid][2] \in FDs
    <3>1. pid # child
      BY <1>2, <2>2
    <3> QED BY <1>2, <2>2, <3>1 DEF Connected, Redirected
  <2>3. pc'[0] \notin {"dup_1", "close_rd_1", "close_wr_1", "dup_2", "close_rd_2", "close_wr_2"}
    BY <1>2
  <2> QED BY <1>1, <1>2, <2>1, <2>2, <2>3 DEF Redirected
<1>10. CASE pc[0] = "create_first"
  <2>1. pids[1] = NULL
    BY <1>10 DEF Static, Roles
  <2>2. /\ DOMAIN pipes = {}
        /\ \A k \in Contexts : waiting[k].op \notin {"read", "write", "close"}
        /\ \A pid \in Pids \ {0} : pc[pid] = "none"
    BY <2>1, NoFirst
  <2>3. ThePipe' /\ WriterHasEnd' /\ InCalls'
    BY <1>1, <1>2, <1>10, <2>2 DEF ThePipe, WriterHasEnd, HalfConnected, InCalls
  <2>4. ASSUME program = "testpipe" PROVE TestPipe'
    <3>1. \A q \in Pids \ {0} : pc'[q] \in {"none", "open_to_write"} /\ (pc'[q] = "open_to_write" => q = child)
      BY <1>2, <1>10, <2>2, <2>4
    <3>2. \A e, f \in pipe_fd_table' : e.pid = f.pid /\ ~e.allow_rd /\ ~f.allow_rd => e = f
      BY <1>1, <2>4 DEF Connected, TestPipe
    <3>3. DOMAIN pipes' = {} /\ \A entry \in pipe_fd_table' : entry.pid # child
      BY <1>1, <2>2
    <3>4. \A q \in Pids \ {0} :
            /\ pc'[q] \in {"open_to_write", "open_to_read"} => \A entry \in pipe_fd_table' : entry.pid # q
            /\ pc'[q] \notin {"unlink", "exit", "read"}
      BY <3>1, <3>3
    <3>5. 0 \notin DOMAIN pipes'
      BY <3>3
    <3> QED BY <3>2, <3>4, <3>5 DEF TestPipe
  <2>5. TestPipe'
    BY <1>2, <2>4 DEF TestPipe
  <2>6. Flow'
    <3>1. program = "testpipe" => ~Writing'
      <4>1. \A q \in Pids \ {0} : program = "testpipe" => pc'[q] # "write"
        BY <1>2, <1>10, <2>2
      <4> QED BY <4>1 DEF Writing
    <3> QED BY <1>1, <1>2, <2>2, <3>1 DEF Connected, Flow
  <2> QED BY <1>5, <1>6, <1>7, <1>9, <2>3, <2>5, <2>6 DEF Connected
<1>11. CASE pc[0] = "create_second"
  <2>1. pids[2] = NULL /\ pids[1] # NULL
    BY <1>11, <1>8 DEF Static, Roles, Unstarted
  <2>2. /\ pids'[1] = pids[1] /\ pids'[2] = child /\ pc'[0] = (IF program = "pipeline" THEN "open_1" ELSE "wait_second")
        /\ IF program = "testpipe" THEN pc'[child] = "open_to_read" ELSE pc'[child] \in {"read", "exit"}
    BY <1>2, <1>11
  <2>3. ThePipe'
    BY <1>1, <1>2, <1>8, <1>11, <2>1, <2>2 DEF Connected, ThePipe, Unstarted
  <2>4. \A q \in Pids \ {0} : pc'[q] = "write" => pc[q] = "write"
    BY <1>2, <2>2
  <2>5. WriterHasEnd'
    <3>1. \A q \in Pids \ {0} : Out(q)' = Out(q)
      BY <1>2, <1>11, <2>2 DEF Out
    <3> QED BY <1>1, <1>11, <2>2, <2>4, <3>1 DEF Connected, WriterHasEnd, HalfConnected, PipeFd
  <2>6. InCalls' /\ Calm
    <3>1. Calm
      BY <1>1 DEF Calm, Static, Shapes
    <3>2. \A k \in Contexts : waiting[k].op = "write" => pc'[k] = pc[k]
      <4>1. \A k \in Contexts : waiting[k].op = "write" => k # 0 /\ k # child /\ k \in Pids
        <5>1. pids[1] \in Pids
          BY <2>1 DEF Static, Shapes
        <5> QED BY <1>1, <5>1, WhatFacts DEF Connected, InCalls
      <4> QED BY <1>2, <4>1
    <3>3. \A k \in Contexts : waiting[k].op # "read"
      BY <2>1, PipelineFacts DEF Connected, InCalls
    <3> QED BY <1>1, <1>3, <2>2, <3>1, <3>2, <3>3, InCallsKept DEF Connected
  <2>7. Flow'
    <3>1. WriterDone => WriterDone'
      BY <1>3 DEF ProgramsKept
    <3>2. Writing' => Writing
      BY <2>4 DEF Writing
    <3>3. Pending' = Pending
      BY <2>2, <2>6, PendingKept
    <3>4. OnlyReading'
      BY <1>4 DEF OnlyReading
    <3> QED BY <1>1, <1>2, <1>4, <3>1, <3>2, <3>3, <3>4, FlowKept DEF Connected
  <2>8. ASSUME program = "testpipe" PROVE TestPipe'
    <3>1. ASSUME NEW pid \in Pids \ {0}
          PROVE  /\ pc'[pid] \in {"open_to_write", "open_to_read"} =>
                      \A entry \in pipe_fd_table' : entry.pid # pid
                 /\ pc'[pid] = "open_to_write" /\ 0 \in DOMAIN pipes' => pipes'[0].bytes_to_read = 0
                 /\ pc'[pid] = "unlink" => waiting'[pid].op = "read" \/ received' # <<>>
                 /\ pc'[pid] = "exit" => received' # <<>> /\ DOMAIN pipes' = {}
                 /\ pc'[pid] = "read" => received' = <<>>
      <4>1. CASE pid = child
        BY <1>1, <2>2, <2>8, <4>1
      <4>2. CASE pid # child
        <5>1. pc'[pid] = pc[pid]
          BY <1>2, <4>2
        <5> QED BY <1>1, <2>8, <5>1 DEF Connected, TestPipe
      <4> QED BY <4>1, <4>2
    <3>2. \A e, f \in pipe_fd_table' : e.pid = f.pid /\ ~e.allow_rd /\ ~f.allow_rd => e = f
      BY <1>1, <2>8 DEF Connected, TestPipe
    <3> QED BY <3>1, <3>2 DEF TestPipe
  <2>9. TestPipe'
    BY <1>2, <2>8 DEF TestPipe
  <2> QED BY <1>5, <1>6, <1>7, <1>9, <2>3, <2>5, <2>6, <2>7, <2>9 DEF Connected
<1> QED BY <1>2, <1>10, <1>11

\* The shell or test_pipes waits.
LEMMA WaitForCommandConnected ==
  ASSUME Static, Connected, Good, PipelineNext, NEW i \in 1 .. 2, WaitForCommand(i)
  PROVE  Static' /\ Connected'
<1>1. /\ program' = program /\ pids' = pids /\ ends' = ends
      /\ DOMAIN pc' = Pids /\ \A q \in Pids \ {0} : pc'[q] = pc[q]
      /\ \/ pc[0] = "wait_first" /\ program = "testpipe" /\ pc'[0] = "create_second"
         \/ pc[0] = "wait_first" /\ program = "pipeline" /\ pc'[0] \in {"wait_second", "prompt"}
         \/ pc[0] = "wait_second" /\ pc'[0] = "prompt"
  BY WaitMoves DEF Static
<1>2. /\ SystemCall /\ sch.current = 0
      /\ UNCHANGED <<live, fds, pipes, pipe_fd_table, closing, stray, lines, sent, received>>
      /\ \/ UNCHANGED <<sch, waiting>>
         \/ Sleep(sch, 0, [op |-> "waitpid", pid |-> pids[i]])
  BY WaitCases DEF AtStep, Waitpid, Fails, vars, pipeVars
<1>3. closing = NONE /\ waiting[0] = NONE /\ NONE.op = "none" /\ 0 \in Contexts
      /\ \A k \in Contexts : waiting[k].op # "close"
  BY <1>2, AtACall, ShellIsFree, PipelineFacts, ConstantFacts
<1>4. /\ DOMAIN waiting' = Contexts /\ sch'.rsp = sch.rsp
      /\ \A k \in Contexts \ {0} : waiting'[k] = waiting[k]
      /\ waiting'[0].op \in {"none", "waitpid"}
  <2> DEFINE what == [op |-> "waitpid", pid |-> pids[i]]
  <2>1. DOMAIN waiting = Contexts /\ what.op = "waitpid"
    BY DEF Static, Shapes
  <2> HIDE DEF what
  <2>2. CASE UNCHANGED <<sch, waiting>>
    BY <1>3, <2>1, <2>2
  <2>3. CASE Sleep(sch, 0, what)
    <3>1. sch'.rsp = sch.rsp
      BY <2>3, SleepFacts, PipelineFacts DEF Good
    <3>2. waiting' = [waiting EXCEPT ![0] = what]
      BY <1>2, <1>3, <2>3 DEF Sleep
    <3> QED BY <1>3, <2>1, <3>1, <3>2
  <2> QED BY <1>2, <2>2, <2>3 DEF what
<1>5. Calm
  BY <1>3, <1>4 DEF Calm
<1>6. ProgramsKept
  BY WaitKeepsPrograms DEF Static
<1>7. WriterDone' <=> WriterDone
  BY <1>1 DEF WriterDone, WriterSteps
<1>8. Static'
  BY <1>2, <1>4, <1>6, <1>7, ProgramStatic
<1>9. program \in {"pipeline", "testpipe"}
  BY DEF Static, Shapes
<1>10. Running' /\ ThePipe'
  BY <1>1, <1>2, <1>4, <1>9 DEF Connected, Running, ThePipe, IsActive, Unstarted
<1>11. InCalls'
  <2>1. \A k \in Contexts : waiting[k].op \in {"read", "write"} => k \in Pids \ {0}
    <3>1. \A k \in Contexts : waiting[k].op \in {"read", "write"} => k # 0 /\ k # NULL /\ (k = pids[1] \/ k = pids[2])
      BY PipelineFacts DEF Connected, InCalls
    <3> QED BY <3>1 DEF Static, Shapes
  <2> QED BY <1>1, <1>2, <1>5, <1>6, <2>1, InCallsKept DEF Connected
<1>12. Redirected'
  BY <1>1, <1>2, <1>9 DEF Connected, Redirected, Ending, Closing2
<1>13. WriterHasEnd'
  <2>1. \A q \in Pids \ {0} : Out(q)' = Out(q)
    BY <1>1 DEF Out
  <2> QED BY <1>1, <1>2, <2>1 DEF Connected, WriterHasEnd, HalfConnected, PipeFd
<1>14. OwnCloses'
  BY <1>2, <1>3, <1>4 DEF OwnCloses
<1>15. TestPipe'
  <2>1. \A q \in Pids : waiting[q].op = "read" => waiting'[q].op = "read"
    BY <1>3, <1>4, ConstantFacts
  <2> QED BY <1>1, <1>2, <2>1 DEF Connected, TestPipe
<1>16. Flow'
  <2>1. Writing' => Writing
    BY <1>1 DEF Writing
  <2>2. Pending' = Pending
    BY <1>1, <1>5, PendingKept
  <2>3. OnlyReading'
    BY <1>2, <1>3 DEF OnlyReading
  <2> QED BY <1>1, <1>2, <1>3, <1>7, <2>1, <2>2, <2>3, FlowKept DEF Connected
<1> QED BY <1>8, <1>10, <1>11, <1>12, <1>13, <1>14, <1>15, <1>16 DEF Connected

\* pipe_open gives a process two descriptors, of the pipe that is there or of a new one.
LEMMA OpenForDoes ==
  ASSUME Good, Connected, NEW pid \in Pids, OpenFor(pid, PIPE_NAME), NEW rd, NEW wr,
         rd = Min(FreeFds(pid)), wr = Min(FreeFds(pid) \ {rd})
  PROVE  /\ rd \in FDs \ 0 .. 2 /\ wr \in FDs \ 0 .. 2
         /\ closing = NONE /\ UNCHANGED <<sch, live, waiting, closing, stray>>
         /\ \A q \in Pids : fds'[q][STDIN] = fds[q][STDIN]
         /\ pipe_fd_table' = pipe_fd_table \cup {PipeFd(pid, rd, 0, TRUE), PipeFd(pid, wr, 0, FALSE)}
         /\ DOMAIN pipes' = {0} /\ pipes'[0].name = PIPE_NAME
         /\ IF 0 \in DOMAIN pipes
            THEN /\ Contents(pipes'[0]) = Contents(pipes[0])
                 /\ pipes'[0].bytes_to_read = pipes[0].bytes_to_read
                 /\ pipes'[0].read_idx = pipes[0].read_idx
            ELSE Contents(pipes'[0]) = <<>> /\ pipes'[0].bytes_to_read = 0 /\ pipes'[0].read_idx = 0
<1>1. /\ closing = NONE /\ UNCHANGED <<sch, live, waiting, closing, stray>>
      /\ Cardinality(FreeFds(pid)) >= 2
      /\ fds' = [fds EXCEPT ![pid][rd] = "pipe", ![pid][wr] = "pipe"]
  BY DEF OpenFor, SystemCall, Interruptible
<1>2. rd \in FreeFds(pid) /\ wr \in FreeFds(pid)
  BY <1>1, TwoFreeFds
<1>3. rd \in FDs \ 0 .. 2 /\ wr \in FDs \ 0 .. 2 /\ rd # STDIN /\ wr # STDIN
  BY <1>2 DEF FreeFds, STDIN
<1>4. \A q \in Pids : fds'[q][STDIN] = fds[q][STDIN]
  <2>1. DOMAIN fds = Pids /\ DOMAIN fds[pid] = FDs
    BY DEF Good, Typed
  <2> DEFINE row == [fds[pid] EXCEPT ![rd] = "pipe", ![wr] = "pipe"]
  <2>0. fds' = [fds EXCEPT ![pid] = row]
    BY <1>1, <2>1
  <2>4. row[STDIN] = fds[pid][STDIN]
    BY <1>3, <2>1, PipelineFacts
  <2> HIDE DEF row
  <2>2. fds'[pid][STDIN] = fds[pid][STDIN]
    BY <2>0, <2>1, <2>4
  <2>3. \A q \in Pids \ {pid} : fds'[q] = fds[q]
    BY <2>0, <2>1
  <2> QED BY <2>2, <2>3
<1>5. DOMAIN pipes \subseteq {0} /\ (0 \in DOMAIN pipes => pipes[0].name = PIPE_NAME)
  BY DEF Connected, ThePipe
<1> DEFINE p(id) == IF id \in DOMAIN pipes THEN pipes[id] ELSE NewPipe(PIPE_NAME)
           opened(id) == [p(id) EXCEPT !.readers = (@ + 1) % UINT, !.writers = (@ + 1) % UINT]
<1>6. PICK id \in Opened(PIPE_NAME) :
        /\ pipes' = WithPipe(id, opened(id))
        /\ pipe_fd_table' = pipe_fd_table \cup {PipeFd(pid, rd, id, TRUE), PipeFd(pid, wr, id, FALSE)}
  BY DEF OpenFor
<1>7. id = 0
  <2>1. CASE 0 \in DOMAIN pipes
    <3>1. FindNamedPipe(PIPE_NAME) = {0}
      BY <1>5, <2>1, PipelineFacts DEF FindNamedPipe
    <3> QED BY <1>6, <3>1 DEF Opened
  <2>2. CASE 0 \notin DOMAIN pipes
    <3>1. DOMAIN pipes = {} /\ FindNamedPipe(PIPE_NAME) = {}
      BY <1>5, <2>2 DEF FindNamedPipe
    <3>2. id \in PipeIds /\ \A other \in PipeIds : id <= other
      BY <1>6, <3>1 DEF Opened, FindFreePipe
    <3>3. 0 \in PipeIds /\ PipeIds \subseteq Nat
      BY PipeAssumption DEF PipeIds
    <3> QED BY <3>2, <3>3
  <2> QED BY <2>1, <2>2
<1> DEFINE old == p(0)
           readers == (old.readers + 1) % UINT
           writers == (old.writers + 1) % UINT
           new == [old EXCEPT !.readers = readers, !.writers = writers]
<1>8. old \in PipeInfo /\ old.name = PIPE_NAME
  <2>1. CASE 0 \in DOMAIN pipes
    BY <1>5, <2>1, TypedFacts DEF Good
  <2>2. CASE 0 \notin DOMAIN pipes
    BY <2>2, NewPipeFacts, PipelineFacts DEF NewPipe
  <2> QED BY <2>1, <2>2
<1>9. DOMAIN pipes' = {0} /\ pipes'[0] = new
  BY <1>5, <1>6, <1>7 DEF WithPipe
<1>10. 0 \notin DOMAIN pipes => old = NewPipe(PIPE_NAME)
  OBVIOUS
<1>11. 0 \in DOMAIN pipes => old = pipes[0]
  OBVIOUS
<1> HIDE DEF old, readers, writers, p, opened
<1>12. /\ new.name = PIPE_NAME /\ new.buffer = old.buffer /\ new.read_idx = old.read_idx
       /\ new.bytes_to_read = old.bytes_to_read
  BY <1>8 DEF PipeInfo
<1> HIDE DEF new
<1>13. Contents(new) = Contents(old)
  BY <1>8, <1>12, SameBytes
<1>14. 0 \notin DOMAIN pipes => Contents(old) = <<>> /\ old.bytes_to_read = 0 /\ old.read_idx = 0
  <2>1. 0 \notin DOMAIN pipes => old.bytes_to_read = 0 /\ old.read_idx = 0
    BY <1>10 DEF NewPipe
  <2>2. Contents(old) \in Seq(Bytes) /\ Len(Contents(old)) = old.bytes_to_read
    BY <1>8, ContentsFacts
  <2>3. Len(Contents(old)) = 0 => Contents(old) = <<>>
    BY <2>2, EmptySeq
  <2> QED BY <2>1, <2>2, <2>3
<1> QED BY <1>1, <1>3, <1>4, <1>6, <1>7, <1>9, <1>11, <1>12, <1>13, <1>14

\* Facts the provers do not find among strings.
LEMMA OneOrTwo == \A i \in 1 .. 2 : (i = 1 /\ i # 2) \/ (i = 2 /\ i # 1)
OBVIOUS

\* Where the shell is in a redirection.
LEMMA RedirectSteps ==
  ASSUME Shapes, NEW i \in 1 .. 2, Redirect(i)
  PROVE  \/ /\ i = 1 /\ i # 2
            /\ \/ pc[0] = "open_1" /\ pc'[0] = "dup_1"
               \/ pc[0] = "dup_1" /\ pc'[0] = "close_rd_1"
               \/ pc[0] = "close_rd_1" /\ pc'[0] = "close_wr_1"
               \/ pc[0] = "close_wr_1" /\ pc'[0] = "open_2"
         \/ /\ i = 2 /\ i # 1
            /\ \/ pc[0] = "open_2" /\ pc'[0] = "dup_2"
               \/ pc[0] = "dup_2" /\ pc'[0] = "close_rd_2"
               \/ pc[0] = "close_rd_2" /\ pc'[0] = "close_wr_2"
               \/ pc[0] = "close_wr_2" /\ pc'[0] = "wait_first"
<1>1. 0 \in DOMAIN pc
  BY ConstantFacts DEF Shapes
<1>2. \A a : Goto(0, a) => pc'[0] = a
  BY <1>1 DEF Goto
<1>3. \/ AtStep(0, IF i = 1 THEN "open_1" ELSE "open_2") /\ Goto(0, IF i = 1 THEN "dup_1" ELSE "dup_2")
      \/ AtStep(0, IF i = 1 THEN "dup_1" ELSE "dup_2") /\ Goto(0, IF i = 1 THEN "close_rd_1" ELSE "close_rd_2")
      \/ /\ AtStep(0, IF i = 1 THEN "close_rd_1" ELSE "close_rd_2")
         /\ Goto(0, IF i = 1 THEN "close_wr_1" ELSE "close_wr_2")
      \/ AtStep(0, IF i = 1 THEN "close_wr_1" ELSE "close_wr_2") /\ Goto(0, IF i = 1 THEN "open_2" ELSE "wait_first")
  BY RedirectCases, Zenon
<1>4. (i = 1 /\ i # 2) \/ (i = 2 /\ i # 1)
  BY OneOrTwo
<1>5. CASE i = 1 /\ i # 2
  BY <1>2, <1>3, <1>5, Zenon DEF AtStep
<1>6. CASE i = 2 /\ i # 1
  BY <1>2, <1>3, <1>6, Zenon DEF AtStep
<1> QED BY <1>4, <1>5, <1>6

\* What the steps of a redirection have in common.
LEMMA RedirectKeeps ==
  ASSUME Static, Connected, Good, PipelineNext, NEW i \in 1 .. 2, Redirect(i)
  PROVE  /\ Static' /\ InCalls' /\ TestPipe' /\ ProgramsKept
         /\ program = "pipeline" /\ SystemCall /\ sch.current = 0 /\ waiting' = waiting
         /\ closing = NONE /\ NONE.op = "none" /\ \A k \in Contexts : waiting[k].op # "close"
         /\ UNCHANGED <<program, pids, sent, received, live>>
         /\ \A q \in Pids \ {0} : pc'[q] = pc[q]
         /\ (WriterDone' <=> WriterDone) /\ Pending' = Pending
<1>1. /\ program = "pipeline" /\ program' = program /\ pids' = pids
      /\ DOMAIN pc' = Pids /\ \A q \in Pids \ {0} : pc'[q] = pc[q]
      /\ <<pc[0], pc'[0]>> \in
           {<<"open_1", "dup_1">>, <<"dup_1", "close_rd_1">>, <<"close_rd_1", "close_wr_1">>,
            <<"close_wr_1", "open_2">>, <<"open_2", "dup_2">>, <<"dup_2", "close_rd_2">>,
            <<"close_rd_2", "close_wr_2">>, <<"close_wr_2", "wait_first">>}
      /\ i = 1 <=> pc[0] \in {"open_1", "dup_1", "close_rd_1", "close_wr_1"}
  BY RedirectMoves DEF Static
<1>2. UNCHANGED <<lines, sent, received>>
  BY DEF Redirect
<1>3. sch.current = 0 /\ SystemCall /\ waiting' = waiting /\ live' = live
  <2>1. \/ PipeOpen(pids[i], PIPE_NAME)
        \/ Dup(pids[i], IF i = 1 THEN ends[0][2] ELSE ends[0][1], IF i = 1 THEN STDOUT ELSE STDIN)
        \/ Fails(pids[i]) \/ Close(pids[i], ends[0][1]) \/ Close(pids[i], ends[0][2])
    BY RedirectCases, Zenon
  <2>2. sch.current = 0
    BY DEF Redirect, AtStep
  <2>3. PipeOpen(pids[i], PIPE_NAME) => SystemCall /\ waiting' = waiting /\ live' = live
    BY DEF PipeOpen, OpenFor, OpenForTheDead
  <2>4. \A a, b, c : Dup(a, b, c) => SystemCall /\ waiting' = waiting /\ live' = live
    BY DEF Dup
  <2>5. \A a, b : Fails(a) \/ Close(a, b) => SystemCall /\ waiting' = waiting /\ live' = live
    BY DEF Fails, Close, vars, pipeVars
  <2> QED BY <2>1, <2>2, <2>3, <2>4, <2>5
<1>4. closing = NONE /\ NONE.op = "none" /\ \A k \in Contexts : waiting[k].op # "close"
  BY <1>3, AtACall, ShellIsFree
<1>5. ProgramsKept
  BY RedirectKeepsPrograms DEF Static
<1>6. WriterDone' <=> WriterDone
  BY <1>1 DEF WriterDone, WriterSteps
<1>7. DOMAIN waiting' = Contexts /\ Calm
  BY <1>3 DEF Static, Shapes, Calm
<1>8. Static'
  BY <1>2, <1>5, <1>6, <1>7, ProgramStatic
<1>9. InCalls'
  <2>1. \A k \in Contexts : waiting[k].op \in {"read", "write"} => k \in Pids \ {0}
    <3>1. \A k \in Contexts : waiting[k].op \in {"read", "write"} => k # 0 /\ k # NULL /\ (k = pids[1] \/ k = pids[2])
      BY PipelineFacts DEF Connected, InCalls
    <3> QED BY <3>1 DEF Static, Shapes
  <2> QED BY <1>1, <1>2, <1>5, <1>7, <2>1, InCallsKept DEF Connected
<1>10. TestPipe'
  BY <1>1 DEF TestPipe
<1>11. Pending' = Pending
  BY <1>1, <1>7, PendingKept
<1> QED BY <1>1, <1>2, <1>3, <1>4, <1>5, <1>6, <1>8, <1>9, <1>10, <1>11

\* The parts of a pair.
LEMMA PairFacts == \A pair, a, b : pair = <<a, b>> => pair[1] = a /\ pair[2] = b
OBVIOUS

\* Zero is not more than zero.
LEMMA NotPositive == ~(0 > 0)
OBVIOUS

\* The empty sequence.
LEMMA NoBytes == <<>> \in Seq(Bytes)
OBVIOUS

\* The shell opens the pipe for a command.
LEMMA OpenConnected ==
  ASSUME Static, Connected, Good, PipelineNext, ~stray,
         NEW i \in 1 .. 2, Redirect(i), pc[0] = "open_1" \/ pc[0] = "open_2"
  PROVE  Static' /\ (~stray' => Connected') /\ (stray' => Frozen')
<1> DEFINE pid == pids[i]
<1>1. /\ Static' /\ InCalls' /\ TestPipe' /\ ProgramsKept
      /\ program = "pipeline" /\ SystemCall /\ sch.current = 0 /\ waiting' = waiting
      /\ closing = NONE /\ NONE.op = "none" /\ \A k \in Contexts : waiting[k].op # "close"
      /\ UNCHANGED <<program, pids, sent, received, live>>
      /\ \A q \in Pids \ {0} : pc'[q] = pc[q]
      /\ (WriterDone' <=> WriterDone) /\ Pending' = Pending
  BY RedirectKeeps
<1>2. /\ \/ i = 1 /\ i # 2 /\ pc[0] = "open_1" /\ pc'[0] = "dup_1"
         \/ i = 2 /\ i # 1 /\ pc[0] = "open_2" /\ pc'[0] = "dup_2"
      /\ OpenForTheDead(pid, PIPE_NAME) \/ OpenFor(pid, PIPE_NAME)
      /\ Alive(pid) => ends' = [ends EXCEPT ![0] = <<Min(FreeFds(pid)), Min(FreeFds(pid) \ {Min(FreeFds(pid))})>>]
      /\ ~Alive(pid) => ends' = ends
  <2>1. \/ i = 1 /\ i # 2 /\ pc[0] = "open_1" /\ pc'[0] = "dup_1"
        \/ i = 2 /\ i # 1 /\ pc[0] = "open_2" /\ pc'[0] = "dup_2"
    BY RedirectSteps, Zenon DEF Static
  <2>3. /\ PipeOpen(pids[i], PIPE_NAME)
        /\ ends' = IF Alive(pids[i])
                   THEN [ends EXCEPT ![0] =
                          <<Min(FreeFds(pids[i])), Min(FreeFds(pids[i]) \ {Min(FreeFds(pids[i]))})>>]
                   ELSE ends
    BY <2>1, RedirectCases, Zenon DEF AtStep
  <2>4. /\ Alive(pid) => ends' = [ends EXCEPT ![0] = <<Min(FreeFds(pid)), Min(FreeFds(pid) \ {Min(FreeFds(pid))})>>]
        /\ ~Alive(pid) => ends' = ends
    BY <2>3, Zenon
  <2> QED BY <2>1, <2>3, <2>4, Zenon DEF PipeOpen
<1>3. OpenForTheDead(pid, PIPE_NAME) \/ OpenFor(pid, PIPE_NAME)
  BY <1>2
<1> DEFINE rd == Min(FreeFds(pid))
           wr == Min(FreeFds(pid) \ {rd})
<1>11. /\ Alive(pid) => ends' = [ends EXCEPT ![0] = <<rd, wr>>]
       /\ ~Alive(pid) => ends' = ends
  BY <1>2
<1>12. \/ i = 1 /\ i # 2 /\ pc[0] = "open_1" /\ pc'[0] = "dup_1"
       \/ i = 2 /\ i # 1 /\ pc[0] = "open_2" /\ pc'[0] = "dup_2"
  BY <1>2
<1> HIDE DEF rd, wr
<1>4. i = 1 => 0 \notin DOMAIN pipes
  BY <1>1, <1>12 DEF Connected, ThePipe
<1>5. received = <<>>
  BY <1>1, <1>12 DEF Static, Progress, NoMoreOpens, Ending, Closing2
<1>6. \A q \in Pids : fds[q][STDIN] # "pipe"
  BY <1>1, <1>12 DEF Connected, Redirected, Ending, Closing2
<1>7. DOMAIN pipes \subseteq {0}
  BY DEF Connected, ThePipe
<1>8. \A q \in Pids \ {0} : pc[q] = "write" => q = pids[1] /\ q \in live
  <2>1. \A q \in Pids \ {0} : pc[q] = "write" => q = pids[1] /\ IsActive(sch, q)
    BY <1>1 DEF Static, Roles, WriterSteps, Connected, Running
  <2> QED BY <2>1 DEF Good, Slots
<1>9. CASE OpenForTheDead(pid, PIPE_NAME)
  <2>1. pid \notin live
    BY <1>9 DEF OpenForTheDead
  <2>2. ends' = ends
    BY <1>11, <2>1 DEF Alive
  <2>3. UNCHANGED <<fds, closing>>
    BY <1>9 DEF OpenForTheDead
  <2>4. \/ UNCHANGED <<sch, pipes, pipe_fd_table, stray>>
        \/ 0 \in DOMAIN pipes /\ DOMAIN pipes' = {} /\ stray' = TRUE
    <3>1. PICK id \in Opened(PIPE_NAME) :
            IF id \in DOMAIN pipes
            THEN PipeFree(sch, id) /\ stray' = TRUE
            ELSE UNCHANGED <<sch, pipes, pipe_fd_table, stray>>
      BY <1>9 DEF OpenForTheDead
    <3>2. CASE id \in DOMAIN pipes
      <4>1. id = 0 /\ DOMAIN pipes' = DOMAIN pipes \ {id}
        BY <1>7, <3>1, <3>2, PipeFreeDomain
      <4> QED BY <1>7, <3>1, <3>2, <4>1
    <3> QED BY <3>1, <3>2
  <2>5. CASE UNCHANGED <<sch, pipes, pipe_fd_table, stray>>
    <3>1. Running' /\ OwnCloses'
      BY <1>1, <2>3, <2>5 DEF Connected, Running, OwnCloses
    <3>2. Redirected'
      <4>1. i = 1 => pids[1] \notin live
        BY <2>1
      <4>2. i = 2 => pids[2] \notin live
        BY <2>1
      <4>3. live' = live /\ pids' = pids /\ program' = program
        BY <1>1
      <4>4. \A q \in Pids : fds'[q][STDIN] # "pipe"
        BY <1>6, <2>3
      <4> QED BY <1>1, <1>12, <4>1, <4>2, <4>3, <4>4 DEF Redirected
    <3>3. ThePipe'
      BY <1>1, <1>12, <1>4, <2>5 DEF Connected, ThePipe, Unstarted
    <3>4. WriterHasEnd'
      <4>1. CASE i = 1
        <5>1. \A q \in Pids \ {0} : pc'[q] # "write"
          BY <1>1, <1>8, <2>1, <4>1
        <5> QED BY <5>1 DEF WriterHasEnd
      <4>2. CASE i = 2
        <5>1. \A q \in Pids \ {0} : Out(q)' = Out(q)
          BY <1>1, <1>12, <4>2 DEF Out
        <5>2. pc'[0] \notin HalfConnected /\ pc[0] \in HalfConnected
          BY <1>12, <4>2 DEF HalfConnected
        <5> QED BY <1>1, <2>5, <5>1, <5>2 DEF Connected, WriterHasEnd, PipeFd
      <4> QED BY <1>12, <4>1, <4>2
    <3>5. Flow'
      <4>1. OnlyReading'
        BY <1>1, <2>3 DEF OnlyReading
      <4>2. closing'.op # "close"
        BY <1>1, <2>3
      <4> QED BY <1>1, <2>5, <4>1, <4>2, FlowKept DEF Connected
    <3> QED BY <1>1, <2>5, <3>1, <3>2, <3>3, <3>4, <3>5 DEF Connected
  <2>6. CASE 0 \in DOMAIN pipes /\ DOMAIN pipes' = {} /\ stray' = TRUE
    <3>1. i = 2
      BY <1>12, <1>4, <2>6
    <3>2. NoMoreOpens'
      <4>1. \A q \in Pids \ {0} : pc[q] \notin {"open_to_write", "open_to_read"}
        BY <1>1 DEF Static, Roles, WriterSteps, ReaderSteps
      <4> QED BY <1>1, <1>12, <3>1, <4>1 DEF NoMoreOpens, Ending, Closing2
    <3>3. Frozen'
      BY <2>6, <3>2 DEF Frozen
    <3> QED BY <1>1, <2>6, <3>3
  <2> QED BY <2>4, <2>5, <2>6
<1>10. CASE OpenFor(pid, PIPE_NAME)
  <2>1. Alive(pid)
    BY <1>10 DEF OpenFor
  <2>2. pid \in Pids
    BY <2>1 DEF Alive, Good, Typed
  <2>3. ends'[0] = <<rd, wr>>
    <3>1. 0 \in DOMAIN ends
      BY ConstantFacts DEF Static, Shapes
    <3>2. ends' = [ends EXCEPT ![0] = <<rd, wr>>]
      BY <1>11, <2>1
    <3> QED BY <3>1, <3>2
  <2>4. /\ rd \in FDs \ 0 .. 2 /\ wr \in FDs \ 0 .. 2
        /\ UNCHANGED <<sch, closing, stray>>
        /\ \A q \in Pids : fds'[q][STDIN] = fds[q][STDIN]
        /\ pipe_fd_table' = pipe_fd_table \cup {PipeFd(pid, rd, 0, TRUE), PipeFd(pid, wr, 0, FALSE)}
        /\ DOMAIN pipes' = {0} /\ pipes'[0].name = PIPE_NAME
        /\ IF 0 \in DOMAIN pipes
           THEN /\ Contents(pipes'[0]) = Contents(pipes[0])
                /\ pipes'[0].bytes_to_read = pipes[0].bytes_to_read
                /\ pipes'[0].read_idx = pipes[0].read_idx
           ELSE Contents(pipes'[0]) = <<>> /\ pipes'[0].bytes_to_read = 0 /\ pipes'[0].read_idx = 0
    BY <1>10, <2>2, OpenForDoes DEF rd, wr
  <2>5. ends'[0][1] = rd /\ ends'[0][2] = wr
    <3> QED BY <2>3, PairFacts
  <2>6. Running' /\ OwnCloses'
    BY <1>1, <2>4 DEF Connected, Running, OwnCloses
  <2>7. Redirected'
    BY <1>1, <1>12, <1>6, <2>4, <2>5 DEF Redirected
  <2>8. ThePipe'
    <3>1. pids[i] # NULL
      BY <2>2, ConstantFacts, PipelineFacts
    <3>2. pids[1] # NULL
      BY <1>12, <3>1 DEF Static, Roles
    <3> QED BY <1>1, <1>12, <2>4, <3>2 DEF ThePipe, Unstarted
  <2>9. WriterHasEnd'
    <3> SUFFICES ASSUME NEW q \in Pids \ {0}, pc[q] = "write"
                 PROVE  PipeFd(q, Out(q)', 0, FALSE) \in pipe_fd_table'
      BY <1>1 DEF WriterHasEnd, PipeFd
    <3>1. CASE i = 1
      <4>1. Out(q)' = wr
        BY <1>1, <1>12, <2>5, <3>1, Zenon DEF Out
      <4>2. q = pid
        BY <1>8, <3>1
      <4> QED BY <2>4, <4>1, <4>2
    <3>2. CASE i = 2
      <4>1. Out(q)' = Out(q)
        BY <1>1, <1>12, <3>2 DEF Out
      <4>2. pc[0] \in HalfConnected
        BY <1>12, <3>2 DEF HalfConnected
      <4>3. PipeFd(q, Out(q), 0, FALSE) \in pipe_fd_table
        BY <4>2 DEF Connected, WriterHasEnd
      <4> QED BY <2>4, <4>1, <4>3
    <3> QED BY <1>12, <3>1, <3>2
  <2>10. Flow'
    <3>1. OnlyReading' /\ closing'.op # "close"
      BY <1>1, <2>4 DEF OnlyReading
    <3>2. CASE 0 \in DOMAIN pipes
      BY <1>1, <2>4, <3>1, <3>2, FlowKept DEF Connected
    <3>3. CASE 0 \notin DOMAIN pipes
      <4>1. sent = <<>>
        BY <1>5, <3>3 DEF Connected, Flow
      <4>2. Pending = <<>>
        <5>1. pids[1] \in Pids => waiting[pids[1]].op # "write"
          <6>1. DOMAIN pipes = {}
            BY <1>7, <3>3
          <6> QED BY <6>1 DEF Good, Sleepers
        <5> QED BY <5>1 DEF Pending
      <4>3. Marks(0)' = <<>>
        <5> DEFINE m == Marks(0)
        <5>1. m \in Seq(Bytes) /\ Len(m) = 0
          BY MarksFacts
        <5> HIDE DEF m
        <5>2. m = <<>>
          BY <5>1, EmptySeq
        <5> QED BY <5>2 DEF Marks, m
      <4>4. <<>> \o <<>> \o <<>> = <<>> \o <<>>
        <5> DEFINE none == <<>>
        <5>1. none \in Seq(Bytes)
          BY NoBytes
        <5> HIDE DEF none
        <5>2. none \o <<>> = none
          BY <5>1, ConcatEmptySeq
        <5> QED BY <5>2 DEF none
      <4>6. (received \o Contents(pipes[0]) \o Pending = sent \o Marks(0))'
        BY <1>1, <1>5, <2>4, <3>3, <4>1, <4>2, <4>3, <4>4
      <4>5. FlowWith(0)'
        <5>1. ~(0 > 0)
          BY NotPositive
        <5>2. program' # "testpipe"
          BY <1>1
        <5> QED BY <4>6, <5>1, <5>2, Zenon DEF FlowWith
      <4> QED BY <2>4, <3>3, <4>5 DEF Flow
    <3> QED BY <3>2, <3>3
  <2> QED BY <1>1, <2>4, <2>6, <2>7, <2>8, <2>9, <2>10 DEF Connected
<1> QED BY <1>3, <1>9, <1>10

\* A descriptor that changes leaves the others.
LEMMA OneDescriptor ==
  ASSUME Typed, NEW p, NEW d, NEW q \in Pids, NEW e \in FDs, e # d
  PROVE  [fds EXCEPT ![p][d] = "pipe"][q][e] = fds[q][e]
<1> DEFINE row == [fds[p] EXCEPT ![d] = "pipe"]
<1>1. fds \in [Pids -> [FDs -> {"none", "device", "pipe"}]]
  BY DEF Typed
<1>2. CASE q = p
  <2>1. row[e] = fds[q][e]
    BY <1>1, <1>2
  <2>2. [fds EXCEPT ![p] = row][q] = row
    BY <1>1, <1>2
  <2> QED BY <2>1, <2>2
<1>3. CASE q # p
  BY <1>1, <1>3
<1> QED BY <1>2, <1>3

\* Records that agree in every field are one.
LEMMA SameRecord == ASSUME NEW P, NEW F, NEW I,
  NEW g \in [pid : P, fd : F, pipe_id : I, allow_rd : BOOLEAN, allow_wr : BOOLEAN],
  NEW h \in [pid : P, fd : F, pipe_id : I, allow_rd : BOOLEAN, allow_wr : BOOLEAN],
  g.pid = h.pid, g.fd = h.fd, g.pipe_id = h.pipe_id, g.allow_rd = h.allow_rd, g.allow_wr = h.allow_wr
  PROVE g = h
OBVIOUS

\* A PipeFd with another descriptor.
WithFd(entry, to) == [entry EXCEPT !.fd = to]

\* A duplicate is at the descriptor it was asked for.
LEMMA OtherFd ==
  ASSUME NEW pid, NEW fd, NEW to
  PROVE  WithFd(PipeFd(pid, fd, 0, FALSE), to) = PipeFd(pid, to, 0, FALSE)
<1> DEFINE T == [pid : {pid}, fd : {fd, to}, pipe_id : {0}, allow_rd : BOOLEAN, allow_wr : BOOLEAN]
           e == PipeFd(pid, fd, 0, FALSE)
           f == PipeFd(pid, to, 0, FALSE)
<1>1. /\ e \in T /\ e.pid = pid /\ e.fd = fd /\ e.pipe_id = 0
      /\ ~e.allow_rd /\ e.allow_wr
  BY DEF PipeFd
<1>2. /\ f \in T /\ f.pid = pid /\ f.fd = to /\ f.pipe_id = 0
      /\ ~f.allow_rd /\ f.allow_wr
  BY DEF PipeFd
<1> HIDE DEF e, f
<1> DEFINE g == WithFd(e, to)
<1>3. g \in T /\ g.pid = pid /\ g.fd = to /\ g.pipe_id = 0 /\ ~g.allow_rd /\ g.allow_wr
  BY <1>1 DEF WithFd
<1> HIDE DEF g
<1>4. g.allow_rd = f.allow_rd /\ g.allow_wr = f.allow_wr
  BY <1>2, <1>3
<1>5. g = f
  BY <1>2, <1>3, <1>4, SameRecord
<1> QED BY <1>5 DEF e, f, g

\* A step of a redirection that leaves the pipe as it is.
LEMMA PipeLeftAlone ==
  ASSUME Static, Connected, Good, PipelineNext, NEW i \in 1 .. 2, Redirect(i),
         UNCHANGED <<sch, fds, pipes, pipe_fd_table, ends>>, OwnCloses',
         ~(pc[0] = "open_1"), ~(pc[0] = "open_2"), pc[0] = "dup_1" => pids[1] \notin live
  PROVE  Static' /\ Connected'
<1>1. /\ Static' /\ InCalls' /\ TestPipe' /\ ProgramsKept
      /\ program = "pipeline" /\ SystemCall /\ sch.current = 0 /\ waiting' = waiting
      /\ UNCHANGED <<program, pids, sent, received, live>>
      /\ \A q \in Pids \ {0} : pc'[q] = pc[q]
      /\ (WriterDone' <=> WriterDone) /\ Pending' = Pending
  BY RedirectKeeps
<1>2. \/ pc[0] = "dup_1" /\ pc'[0] = "close_rd_1"
      \/ pc[0] = "close_rd_1" /\ pc'[0] = "close_wr_1"
      \/ pc[0] = "close_wr_1" /\ pc'[0] = "open_2"
      \/ pc[0] = "dup_2" /\ pc'[0] = "close_rd_2"
      \/ pc[0] = "close_rd_2" /\ pc'[0] = "close_wr_2"
      \/ pc[0] = "close_wr_2" /\ pc'[0] = "wait_first"
  BY RedirectSteps, Zenon DEF Static
<1>3. Running'
  BY <1>1 DEF Connected, Running
<1>4. Redirected'
  <2>1. ASSUME NEW q \in Pids, fds'[q][STDIN] = "pipe" PROVE pc'[0] \in Ending'
    <3>1. pc[0] \in Ending
      BY <1>1, <2>1 DEF Connected, Redirected
    <3> QED BY <1>1, <1>2, <3>1 DEF Ending, Closing2
  <2> QED BY <1>1, <1>2, <2>1 DEF Connected, Redirected
<1>5. ThePipe'
  BY <1>1, <1>2 DEF Connected, ThePipe, Unstarted
<1>6. WriterHasEnd'
  <2>1. CASE pc[0] = "dup_1"
    <3>1. \A q \in Pids \ {0} : pc[q] = "write" => q = pids[1] /\ q \in live
      BY <1>1 DEF Static, Roles, WriterSteps, Connected, Running, Good, Slots
    <3>2. \A q \in Pids \ {0} : pc'[q] # "write"
      BY <1>1, <2>1, <3>1
    <3> QED BY <3>2 DEF WriterHasEnd
  <2>2. CASE pc[0] # "dup_1"
    <3>1. \A q \in Pids \ {0} : Out(q)' = Out(q)
      BY <1>1, <1>2, <2>2 DEF Out
    <3>2. pc'[0] \in HalfConnected => pc[0] \in HalfConnected
      BY <1>2 DEF HalfConnected
    <3> QED BY <1>1, <3>1, <3>2 DEF Connected, WriterHasEnd, PipeFd
  <2> QED BY <2>1, <2>2
<1>7. Flow'
  BY <1>1, FlowKept DEF Connected
<1> QED BY <1>1, <1>3, <1>4, <1>5, <1>6, <1>7 DEF Connected

\* dup moves an end of the pipe to another descriptor.
LEMMA DupDoes ==
  ASSUME Good, Connected, NEW pid, NEW from, NEW to, Dup(pid, from, to)
  PROVE  /\ UNCHANGED <<sch, live, waiting, closing, stray>>
         /\ fds' = [fds EXCEPT ![pid][to] = "pipe"]
         /\ DOMAIN pipes' = DOMAIN pipes /\ 0 \in DOMAIN pipes /\ pipes'[0].name = pipes[0].name
         /\ Contents(pipes'[0]) = Contents(pipes[0]) /\ pipes'[0].read_idx = pipes[0].read_idx
         /\ \E entry \in pipe_fd_table :
              /\ entry.pid = pid /\ entry.fd = from
              /\ pipe_fd_table' = pipe_fd_table \cup {WithFd(entry, to)}
<1>1. /\ UNCHANGED <<sch, live, waiting, closing, stray>>
      /\ fds' = [fds EXCEPT ![pid][to] = "pipe"] /\ DupEnd(pid, from, to)
  BY DEF Dup
<1>2. PICK entry \in pipe_fd_table :
        /\ entry.pid = pid /\ entry.fd = from
        /\ pipe_fd_table' = pipe_fd_table \cup {WithFd(entry, to)}
        /\ pipes' = [pipes EXCEPT ![entry.pipe_id] = EndCounted(pipes[entry.pipe_id], entry, 1)]
  BY <1>1 DEF DupEnd, WithFd
<1>3. entry.pipe_id = 0 /\ 0 \in DOMAIN pipes
  BY <1>2 DEF Good, Table, Connected, ThePipe
<1> DEFINE p == pipes[0]
           q == EndCounted(p, entry, 1)
<1>4. p \in PipeInfo
  BY <1>3, TypedFacts DEF Good
<1>5. q.buffer = p.buffer /\ q.read_idx = p.read_idx /\ q.bytes_to_read = p.bytes_to_read
  BY <1>4, EndCountedBytes
<1>6. q.name = p.name
  <2>1. PICK readers, writers : q = [p EXCEPT !.readers = readers, !.writers = writers]
    BY DEF EndCounted
  <2> HIDE DEF q
  <2> QED BY <1>4, <2>1 DEF PipeInfo
<1>7. pipes' = [pipes EXCEPT ![0] = q]
  BY <1>2, <1>3
<1> HIDE DEF q
<1>8. Contents(q) = Contents(p)
  BY <1>4, <1>5, SameBytes
<1> QED BY <1>1, <1>2, <1>3, <1>5, <1>6, <1>7, <1>8

\* The end of the pipe becomes the standard output of the first command, or the standard
\* input of the second one.
Duplicates == pc[0] = "dup_1" \/ pc[0] = "dup_2"

\* The command's STDIN or STDOUT becomes an end of the pipe.
LEMMA DupConnected ==
  ASSUME Static, Connected, Good, PipelineNext, NEW i \in 1 .. 2, Redirect(i),
         NEW pid, pid = pids[i], NEW from, NEW to, Dup(pid, from, to),
         i = 1 => from = ends[0][2] /\ to = STDOUT,
         i # 1 => from = ends[0][1] /\ to = STDIN,
         UNCHANGED ends, Duplicates
  PROVE  Static' /\ Connected'
<1>1. /\ Static' /\ InCalls' /\ TestPipe' /\ ProgramsKept
      /\ program = "pipeline" /\ SystemCall /\ sch.current = 0 /\ waiting' = waiting
      /\ closing = NONE /\ NONE.op = "none" /\ \A k \in Contexts : waiting[k].op # "close"
      /\ UNCHANGED <<program, pids, sent, received, live>>
      /\ \A q \in Pids \ {0} : pc'[q] = pc[q]
      /\ (WriterDone' <=> WriterDone) /\ Pending' = Pending
  BY RedirectKeeps
<1>2. /\ \/ i = 1 /\ i # 2 /\ pc[0] = "dup_1" /\ pc'[0] = "close_rd_1"
         \/ i = 2 /\ i # 1 /\ pc[0] = "dup_2" /\ pc'[0] = "close_rd_2"
  BY RedirectSteps, Zenon DEF Static, Duplicates
<1>3. i = 1 => from = ends[0][2] /\ to = STDOUT
  OBVIOUS
<1>4. i # 1 => from = ends[0][1] /\ to = STDIN
  OBVIOUS
<1>5. /\ UNCHANGED <<sch, live, waiting, closing, stray>>
      /\ fds' = [fds EXCEPT ![pid][to] = "pipe"]
      /\ DOMAIN pipes' = DOMAIN pipes /\ 0 \in DOMAIN pipes /\ pipes'[0].name = pipes[0].name
      /\ Contents(pipes'[0]) = Contents(pipes[0]) /\ pipes'[0].read_idx = pipes[0].read_idx
  BY DupDoes
<1>6. PICK entry \in pipe_fd_table :
        /\ entry.pid = pid /\ entry.fd = from
        /\ pipe_fd_table' = pipe_fd_table \cup {WithFd(entry, to)}
  BY DupDoes
<1>7. Running' /\ OwnCloses'
  BY <1>1, <1>5 DEF Connected, Running, OwnCloses
<1>8. Redirected'
  <2>1. ASSUME i = 1, NEW q \in Pids PROVE fds'[q][STDIN] # "pipe"
    <3>1. to # STDIN
      BY <1>3, <2>1, PipelineFacts
    <3>2. fds'[q][STDIN] = fds[q][STDIN]
      <4>1. Typed /\ STDIN # to
        BY <3>1 DEF Good
      <4>3. STDIN \in FDs /\ q \in Pids
        BY PipelineFacts, Zenon
      <4>4. [fds EXCEPT ![pid][to] = "pipe"][q][STDIN] = fds[q][STDIN]
        BY <4>1, <4>3, OneDescriptor
      <4> QED BY <1>5, <4>4
    <3>3. pc[0] \notin Ending
      BY <1>1, <1>2, <2>1 DEF Ending, Closing2
    <3> QED BY <1>1, <3>2, <3>3 DEF Connected, Redirected
  <2>2. ASSUME i # 1 PROVE pc'[0] \in Ending'
    BY <1>1, <1>2, <2>2 DEF Ending, Closing2
  <2> QED BY <1>1, <1>2, <2>1, <2>2 DEF Connected, Redirected
<1>9. ThePipe'
  BY <1>1, <1>2, <1>5 DEF Connected, ThePipe, Unstarted
<1>10. WriterHasEnd'
  <2> SUFFICES ASSUME NEW q \in Pids \ {0}, pc[q] = "write"
               PROVE  PipeFd(q, Out(q)', 0, FALSE) \in pipe_fd_table'
    BY <1>1 DEF WriterHasEnd, PipeFd
  <2>1. PipeFd(q, Out(q), 0, FALSE) \in pipe_fd_table
    BY <1>5 DEF Connected, WriterHasEnd
  <2>2. CASE i = 1
    <3>1. Out(q) = from /\ Out(q)' = STDOUT /\ q = pid
      BY <1>1, <1>2, <1>3, <2>2 DEF Out, Static, Roles, WriterSteps
    <3> DEFINE f == PipeFd(q, from, 0, FALSE)
    <3>2. f = entry
      BY <1>6, <2>1, <3>1 DEF PipeFd, Good, Table, Unique
    <3>3. WithFd(f, to) = PipeFd(q, to, 0, FALSE)
      BY OtherFd
    <3> HIDE DEF f
    <3> QED BY <1>3, <1>6, <2>2, <3>1, <3>2, <3>3
  <2>3. CASE i # 1
    <3>1. Out(q)' = Out(q)
      BY <1>1, <1>2, <2>3 DEF Out
    <3> QED BY <1>6, <2>1, <3>1
  <2> QED BY <2>2, <2>3
<1>11. Flow'
  <2>1. OnlyReading' /\ closing'.op # "close"
    BY <1>1, <1>5 DEF OnlyReading
  <2> QED BY <1>1, <1>5, <2>1, FlowKept DEF Connected
<1> QED BY <1>1, <1>7, <1>8, <1>9, <1>10, <1>11 DEF Connected

\* The shell closes a descriptor of a command.
LEMMA CloseConnected ==
  ASSUME Static, Connected, Good, PipelineNext, NEW i \in 1 .. 2, Redirect(i),
         NEW fd, fd = ends[0][1] \/ fd = ends[0][2], Close(pids[i], fd), UNCHANGED ends,
         pc[0] \in {"close_rd_1", "close_wr_1", "close_rd_2", "close_wr_2"}
  PROVE  Static' /\ Connected'
<1>1. /\ program = "pipeline" /\ program' = program /\ sch.current = 0 /\ waiting' = waiting
      /\ \A k \in Contexts : waiting[k].op # "close"
  BY RedirectKeeps
<1>2. /\ pids[i] \in live /\ UNCHANGED <<sch, live, fds, pipes, pipe_fd_table, waiting, stray>>
      /\ closing' = CloseOf(pids[i], fd, FALSE)
  BY DEF Close, Alive
<1>3. fd \in FDs \ 0 .. 2
  <2>1. \/ i = 1 /\ pc[0] \in {"close_rd_1", "close_wr_1"}
        \/ i = 2 /\ pc[0] \in {"close_rd_2", "close_wr_2"}
    BY RedirectSteps, Zenon DEF Static
  <2> QED BY <1>2, <2>1 DEF Connected, Redirected
<1>4. /\ closing'.op = "close" /\ closing'.dying = FALSE /\ closing'.fd = fd /\ closing'.step = "close"
  BY <1>2 DEF CloseOf
<1>5. pc'[0] \in {"close_wr_1", "open_2", "close_wr_2", "wait_first"}
  BY RedirectSteps DEF Static
<1>6. ShellCloses(closing)'
  BY <1>1, <1>3, <1>4, <1>5 DEF ShellCloses
<1>7. OwnCloses'
  BY <1>1, <1>2, <1>4, <1>6 DEF OwnCloses
<1> QED BY <1>2, <1>7, PipeLeftAlone

\* Every step of a redirection.
LEMMA RedirectConnected ==
  ASSUME Static, Connected, Good, PipelineNext, ~stray, NEW i \in 1 .. 2, Redirect(i)
  PROVE  Static' /\ (~stray' => Connected') /\ (stray' => Frozen')
<1>1. CASE pc[0] = "open_1" \/ pc[0] = "open_2"
  BY <1>1, OpenConnected
<1>2. CASE ~(pc[0] = "open_1") /\ ~(pc[0] = "open_2")
  <2>1. \/ /\ pc[0] = "dup_1" \/ pc[0] = "dup_2"
           /\ Dup(pids[i], IF i = 1 THEN ends[0][2] ELSE ends[0][1], IF i = 1 THEN STDOUT ELSE STDIN)
        \/ Fails(pids[i]) /\ (pc[0] = "dup_1" => i = 1)
        \/ /\ pc[0] \in {"close_rd_1", "close_wr_1", "close_rd_2", "close_wr_2"}
           /\ Close(pids[i], ends[0][1]) \/ Close(pids[i], ends[0][2])
    <3>1. (i = 1 /\ i # 2) \/ (i = 2 /\ i # 1)
      BY OneOrTwo
    <3> QED BY <1>2, <3>1, RedirectCases, Zenon DEF AtStep
  <2>2. UNCHANGED ends
    <3>1. (i = 1 /\ i # 2) \/ (i = 2 /\ i # 1)
      BY OneOrTwo
    <3> QED BY <1>2, <3>1, RedirectCases, Zenon DEF AtStep
  <2>3. Static' /\ Connected' /\ stray' = stray
    <3>1. CASE Fails(pids[i]) /\ (pc[0] = "dup_1" => i = 1)
      <4>1. pids[i] \notin live /\ UNCHANGED <<sch, live, fds, pipes, pipe_fd_table, waiting, closing, stray>>
        BY <3>1 DEF Fails, vars, pipeVars
      <4>2. OwnCloses'
        <5>1. closing = NONE /\ NONE.op = "none" /\ \A k \in Contexts : waiting[k].op # "close"
          BY RedirectKeeps
        <5> QED BY <4>1, <5>1 DEF OwnCloses
      <4>3. pc[0] = "dup_1" => pids[1] \notin live
        BY <3>1, <4>1
      <4> QED BY <1>2, <2>2, <4>1, <4>2, <4>3, PipeLeftAlone
    <3>2. CASE /\ pc[0] = "dup_1" \/ pc[0] = "dup_2"
               /\ Dup(pids[i], IF i = 1 THEN ends[0][2] ELSE ends[0][1], IF i = 1 THEN STDOUT ELSE STDIN)
      <4>1. stray' = stray
        BY <3>2 DEF Dup
      <4>2. PICK pid : pid = pids[i]
        OBVIOUS
      <4>3. PICK from : from = IF i = 1 THEN ends[0][2] ELSE ends[0][1]
        OBVIOUS
      <4>4. PICK to : to = IF i = 1 THEN STDOUT ELSE STDIN
        OBVIOUS
      <4>5. Dup(pid, from, to)
        BY <3>2, <4>2, <4>3, <4>4, Zenon
      <4>6. (i = 1 => from = ends[0][2] /\ to = STDOUT) /\ (i # 1 => from = ends[0][1] /\ to = STDIN)
        BY <4>3, <4>4, Zenon
      <4>7. Duplicates
        BY <3>2, Zenon DEF Duplicates
      <4>8. Static' /\ Connected'
        BY <2>2, <4>2, <4>5, <4>6, <4>7, DupConnected
      <4> QED BY <4>1, <4>8
    <3>3. CASE /\ pc[0] \in {"close_rd_1", "close_wr_1", "close_rd_2", "close_wr_2"}
               /\ Close(pids[i], ends[0][1]) \/ Close(pids[i], ends[0][2])
      <4>1. stray' = stray
        BY <3>3 DEF Close
      <4> QED BY <2>2, <3>3, <4>1, CloseConnected
    <3> QED BY <2>1, <3>1, <3>2, <3>3
  <2> QED BY <2>3
<1> QED BY <1>1, <1>2

----------------------------------------------------------------------------
(* The steps of the commands *)

\* What is in neither of two texts is not in both together.
LEMMA NoMarkInBoth ==
  ASSUME NEW s \in Seq(Bytes), NEW t \in Seq(Bytes), EOF \notin Range(s), EOF \notin Range(t)
  PROVE  s \o t \in Seq(Bytes) /\ EOF \notin Range(s \o t)
<1> DEFINE both == s \o t
<1>1. both \in Seq(Bytes) /\ Len(both) = Len(s) + Len(t)
  BY ConcatProperties
<1>2. ASSUME NEW i \in 1 .. Len(both) PROVE both[i] # EOF
  <2>0. Len(s) \in Nat /\ Len(t) \in Nat
    BY LenProperties
  <2>1. both[i] = IF i <= Len(s) THEN s[i] ELSE t[i - Len(s)]
    BY <1>1, <1>2, ConcatProperties
  <2>2. CASE i <= Len(s)
    <3>1. i \in DOMAIN s
      BY <1>2, <2>0, <2>2, LenProperties
    <3> QED BY <2>1, <2>2, <3>1 DEF Range
  <2>3. CASE ~(i <= Len(s))
    <3>1. i - Len(s) \in 1 .. Len(t)
      BY <1>1, <1>2, <2>0, <2>3
    <3>2. i - Len(s) \in DOMAIN t
      BY <3>1, LenProperties
    <3> QED BY <2>1, <2>3, <3>2 DEF Range
  <2> QED BY <2>2, <2>3
<1> HIDE DEF both
<1>3. EOF \notin Range(both)
  <2>1. DOMAIN both = 1 .. Len(both)
    BY <1>1, LenProperties
  <2> QED BY <1>2, <2>1 DEF Range
<1> QED BY <1>1, <1>3 DEF both

\* What the writer writes goes behind what was written, and it is no end.
LEMMA LineStatic ==
  ASSUME Static, ProgramsKept, DOMAIN waiting' = Contexts, ~WriterDone, lines # <<>>, lines' = Tail(lines),
         received' = received, pc' = pc, program' = program, pids' = pids,
         sent' = sent \/ sent' = sent \o Head(lines)
  PROVE  Static'
<1>1. Head(lines) \in Seq(Bytes) /\ EOF \notin Range(Head(lines)) /\ lines' \in Seq(Messages)
  <2>1. lines \in Seq(Messages)
    BY DEF Static, Shapes
  <2>2. Head(lines) \in Messages /\ lines' \in Seq(Messages)
    BY <2>1, HeadTailProperties
  <2> QED BY <2>2, BytesFacts, PipelineAssumption
<1>2. /\ sent \in Seq(Bytes) /\ EOF \notin Range(sent) /\ received \in Seq(Bytes)
      /\ IsPrefix(received, sent \o <<EOF>>) /\ EOF \notin Range(received)
  BY DEF Static, Shapes, PipedInOrder, EndIsAfterAll, MarkWasRead
<1>3. sent' \in Seq(Bytes) /\ EOF \notin Range(sent')
  BY <1>1, <1>2, NoMarkInBoth
<1>4. IsPrefix(received, sent' \o <<EOF>>)
  <2> DEFINE data == Head(lines)
  <2>1. data \in Seq(Bytes)
    BY <1>1
  <2> HIDE DEF data
  <2>2. IsPrefix(received, (sent \o data) \o <<EOF>>)
    BY <1>2, <2>1, PrefixGrows
  <2> QED BY <1>2, <2>2 DEF data
<1>5. PipedInOrder'
  <2>1. PipedInOrder' <=> IsPrefix(received', sent' \o <<EOF>>)
    BY DEF PipedInOrder
  <2> QED BY <1>4, <2>1
<1>6. EndIsAfterAll'
  BY <1>2 DEF EndIsAfterAll, MarkWasRead
<1>7. Shapes'
  BY <1>1, <1>3 DEF Static, Shapes, ProgramsKept
<1>8. Progress'
  <2>1. ~WriterDone'
    BY DEF WriterDone, WriterSteps
  <2> QED BY <2>1 DEF Static, Progress, ProgramsKept
<1> QED BY <1>5, <1>6, <1>7, <1>8 DEF Static, ProgramsKept

\* A line the writer has written and is through with, or sleeps in the middle of.
Sends(data) == sent' = sent \o data
StartKept == pipes'[0].read_idx = pipes[0].read_idx \/ pipes'[0].read_idx = 0

LEMMA LineFlows ==
  ASSUME Static, Connected, Good, NEW pid \in Pids \ {0}, pids[1] = pid, waiting[pid] = NONE, 0 \in DOMAIN pipes,
         ~WriterDone, NEW data \in Seq(Bytes), NEW rest \in Seq(Bytes), closing'.op # "close",
         RoundPuts(pid, data, rest), StartKept, DOMAIN pipes' = DOMAIN pipes, Pending' = rest,
         UNCHANGED <<program, received>>, Sends(data)
  PROVE  Flow'
<1>1. PICK k \in Nat : FlowWith(k)
  BY DEF Connected, Flow
<1>2. k = 0
  BY <1>1 DEF FlowWith
<1>3. Pending = <<>>
  <2>1. waiting[pid].op # "write"
    BY WhatFacts
  <2> QED BY <2>1 DEF Pending
<1>4. Marks(0) = <<>> /\ Marks(0)' = <<>>
  <2> DEFINE m == Marks(0)
  <2>1. m \in Seq(Bytes) /\ Len(m) = 0
    BY MarksFacts
  <2> HIDE DEF m
  <2>2. m = <<>>
    BY <2>1, EmptySeq
  <2> QED BY <2>2 DEF Marks, m
<1>13. PICK c : c = Contents(pipes[0])
  OBVIOUS
<1>14. PICK d : d = Contents(pipes'[0])
  OBVIOUS
<1>5. received \in Seq(Bytes) /\ sent \in Seq(Bytes) /\ c \in Seq(Bytes) /\ d \in Seq(Bytes)
      /\ d \o rest = c \o data
  <2>1. pipes[0] \in PipeInfo
    BY TypedFacts DEF Good
  <2>2. d \in Seq(Bytes) /\ d \o rest = c \o data
    BY <1>13, <1>14 DEF RoundPuts
  <2> QED BY <1>13, <2>1, <2>2, ContentsFacts DEF Static, Shapes
<1>6. received \o c \o Pending = sent \o Marks(0)
  BY <1>1, <1>2, <1>13 DEF FlowWith
<1>7. received \o c = sent
  <2>1. received \o c \in Seq(Bytes)
    BY <1>5, ConcatProperties
  <2>2. (received \o c) \o <<>> = received \o c /\ sent \o <<>> = sent
    BY <1>5, <2>1, ConcatEmptySeq
  <2> QED BY <1>3, <1>4, <1>6, <2>2
<1>8. (received \o d) \o rest = sent \o data
  <2>1. /\ d \in Seq(Bytes) /\ c \in Seq(Bytes) /\ received \in Seq(Bytes)
        /\ rest \in Seq(Bytes) /\ data \in Seq(Bytes)
    BY <1>5
  <2>2. (received \o d) \o rest = received \o (d \o rest)
    BY <2>1, BytesAssociative, Zenon
  <2>3. (received \o c) \o data = received \o (c \o data)
    BY <2>1, BytesAssociative, Zenon
  <2> QED BY <1>5, <1>7, <2>2, <2>3
<1>9. sent' \o <<>> = sent'
  <2>1. sent' \in Seq(Bytes)
    BY <1>5, ConcatProperties DEF Sends
  <2> QED BY <2>1, ConcatEmptySeq
<1>10. (received \o Contents(pipes[0]) \o Pending = sent \o Marks(0))'
  BY <1>4, <1>8, <1>9, <1>14 DEF Sends
<1>11. FlowWith(0)'
  <2>1. OnlyReading'
    BY DEF OnlyReading
  <2>2. ~(0 > 0) /\ 0 <= 1
    OBVIOUS
  <2> QED BY <1>10, <2>1, <2>2 DEF FlowWith
<1>12. (received = <<>> => pipes[0].read_idx = 0)'
  BY DEF Connected, Flow, StartKept
<1> QED BY <1>11, <1>12 DEF Flow

\* A command is at a call of its own.
LEMMA CommandIsAt ==
  ASSUME Static, Connected, Good, NEW pid \in Pids \ {0}, sch.current = pid, SystemCall
  PROVE  /\ closing = NONE /\ waiting[pid] = NONE /\ NONE.op = "none" /\ pid \in live /\ IsActive(sch, pid)
         /\ pid \in Contexts /\ DOMAIN waiting = Contexts /\ NULL \notin Pids /\ 0 \in Pids
         /\ closing.op # "close"
<1>1. closing = NONE /\ waiting[pid] = NONE /\ NONE.op = "none" /\ pid \in live /\ IsActive(sch, pid)
  BY AtACall
<1>2. pid \in Contexts
  BY ConstantFacts DEF Contexts
<1>3. NULL \notin Pids /\ 0 \in Pids
  BY PipelineFacts, ConstantFacts
<1> QED BY <1>1, <1>2, <1>3 DEF Static, Shapes

\* The writer writes a line, into the pipe or on the screen.
LEMMA WriteLineConnected ==
  ASSUME Static, Connected, Good, NEW pid \in Pids \ {0}, WriteLine(pid)
  PROVE  Static' /\ Connected' /\ stray' = stray
<1>1. /\ sch.current = pid /\ pc[pid] = "write" /\ lines # <<>> /\ lines' = Tail(lines)
      /\ UNCHANGED <<program, pc, pids, ends, received>>
      /\ SystemCall
      /\ \/ UNCHANGED <<vars, sent>>
         \/ /\ sent' = sent \o Head(lines)
            /\ \E entry \in pipe_fd_table :
                 entry.pid = pid /\ WriteRound(pid, entry.pipe_id, Head(lines))
  BY DEF WriteLine, AtStep, PutString, Write
<1>2. /\ closing = NONE /\ waiting[pid] = NONE /\ NONE.op = "none"
      /\ pid \in Contexts /\ DOMAIN waiting = Contexts /\ NULL \notin Pids /\ 0 \in Pids
  BY <1>1, CommandIsAt
<1>3. pids[1] = pid /\ pc[pid] \in WriterSteps /\ program \in {"pipeline", "testpipe"}
  BY <1>1 DEF Static, Shapes, Roles, WriterSteps
<1>4. ~WriterDone /\ ~WriterDone'
  BY <1>1, <1>3 DEF WriterDone, WriterSteps
<1>5. ProgramsKept
  BY <1>1, CommandKeepsPrograms DEF Static
<1>6. Head(lines) \in Seq(Bytes)
  <2>1. Head(lines) \in Messages
    BY <1>1, HeadTailProperties DEF Static, Shapes
  <2> QED BY <2>1, BytesFacts
<1>7. CASE UNCHANGED <<vars, sent>>
  <2>0. UNCHANGED <<sch, live, fds, pipes, pipe_fd_table, waiting, closing, stray, sent>>
    BY <1>7 DEF vars, pipeVars
  <2>1. Static'
    BY <1>1, <1>2, <1>4, <1>5, <2>0, LineStatic
  <2>2. Calm
    BY <1>2, <2>0 DEF Calm
  <2>3. InCalls'
    BY <1>1, <1>5, <2>2, InCallsKept DEF Connected
  <2>4. Running' /\ Redirected' /\ ThePipe'
    BY <1>1, <2>0 DEF Connected, Running, Redirected, ThePipe, Ending, Closing2, Unstarted
  <2>5. WriterHasEnd' /\ TestPipe'
    BY <1>1, <2>0 DEF Connected, WriterHasEnd, TestPipe, Out, PipeFd
  <2>6. OwnCloses'
    BY <1>1, <1>4, <2>0 DEF Connected, OwnCloses, ShellCloses, WriterDone, WriterSteps
  <2>7. Flow'
    <3>1. OnlyReading' /\ closing'.op # "close"
      BY <1>2, <2>0 DEF OnlyReading
    <3>2. Pending' = Pending /\ (Writing' => Writing)
      BY <1>1, <2>0 DEF Pending, Writing
    <3> QED BY <1>1, <1>4, <2>0, <3>1, <3>2, FlowKept DEF Connected
  <2> QED BY <2>0, <2>1, <2>3, <2>4, <2>5, <2>6, <2>7 DEF Connected
<1>8. ASSUME sent' = sent \o Head(lines), NEW id, WriteRound(pid, id, Head(lines))
      PROVE  Static' /\ Connected' /\ stray' = stray
  <2> DEFINE data == Head(lines)
  <2>0. data \in Seq(Bytes) /\ WriteRound(pid, id, data)
    BY <1>6, <1>8
  <2> HIDE DEF data
  <2>1. DOMAIN pipes \subseteq {0}
    BY DEF Connected, ThePipe
  <2>2. /\ 0 \in DOMAIN pipes /\ UNCHANGED <<live, fds, pipe_fd_table, closing, stray>>
        /\ sch'.rsp = sch.rsp
        /\ DOMAIN pipes' = DOMAIN pipes /\ pipes'[0].name = pipes[0].name
        /\ pipes'[0].read_idx = pipes[0].read_idx \/ pipes'[0].read_idx = 0
        /\ DOMAIN waiting' = Contexts
        /\ \A k \in Contexts \ {pid} : waiting'[k] = waiting[k]
    BY <1>1, <2>0, <2>1, WriteRoundDoes
  <2>3. PICK rest \in Seq(Bytes) : RoundPuts(pid, data, rest)
    BY <1>1, <2>0, <2>1, WriteRoundDoes
  <2>4. /\ waiting'[pid].op \in {"none", "write"}
        /\ (IF waiting'[pid].op = "write" THEN waiting'[pid].data ELSE <<>>) = rest
    BY <1>2, <2>3 DEF RoundPuts
  <2>5. Static'
    BY <1>1, <1>4, <1>5, <1>8, <2>2, LineStatic
  <2>6. InCalls'
    <3>1. InCalls
      BY DEF Connected
    <3>2. waiting'[pid].op # "read" /\ pid = pids'[1] /\ pc'[pid] = "write"
      BY <1>1, <1>3, <2>4
    <3>3. (MarkWasRead' <=> MarkWasRead) /\ (NoMoreOpens' <=> NoMoreOpens)
      BY <1>1 DEF MarkWasRead, NoMoreOpens, Ending, Closing2
    <3> QED BY <1>1, <2>2, <3>1, <3>2, <3>3 DEF InCalls
  <2>7. OwnCloses'
    <3>1. \A k \in Contexts : waiting[k].op # "close"
      BY <1>4 DEF Connected, OwnCloses
    <3>2. \A k \in Contexts : waiting'[k].op # "close"
      BY <2>2, <2>4, <3>1
    <3>3. closing'.op # "close"
      BY <1>2, <2>2
    <3> QED BY <3>2, <3>3 DEF OwnCloses
  <2>8. Running' /\ Redirected' /\ ThePipe'
    BY <1>1, <2>2 DEF Connected, Running, IsActive, Redirected, ThePipe, Ending, Closing2, Unstarted
  <2>9. WriterHasEnd'
    BY <1>1, <2>2 DEF Connected, WriterHasEnd, Out, PipeFd
  <2>10. TestPipe'
    <3> SUFFICES ASSUME program = "testpipe" PROVE TestPipe'
      BY <1>1 DEF TestPipe
    <3>1. ASSUME NEW q \in Pids \ {0}
          PROVE  /\ pc'[q] \in {"open_to_write", "open_to_read"} =>
                      \A entry \in pipe_fd_table' : entry.pid # q
                 /\ pc'[q] = "open_to_write" /\ 0 \in DOMAIN pipes' => pipes'[0].bytes_to_read = 0
                 /\ pc'[q] = "unlink" => waiting'[q].op = "read" \/ received' # <<>>
                 /\ pc'[q] = "exit" => received' # <<>> /\ DOMAIN pipes' = {}
                 /\ pc'[q] = "read" => received' = <<>>
      <4>1. CASE q = pid
        BY <1>1, <4>1
      <4>2. CASE q # pid
        <5>1. pc'[q] = pc[q] /\ pc[q] # "open_to_write" /\ waiting'[q] = waiting[q]
          BY <1>1, <1>3, <2>2, <4>2, ConstantFacts DEF Static, Roles, WriterSteps
        <5> QED BY <1>1, <2>2, <5>1 DEF Connected, TestPipe
      <4> QED BY <4>1, <4>2
    <3>2. \A e, f \in pipe_fd_table' : e.pid = f.pid /\ ~e.allow_rd /\ ~f.allow_rd => e = f
      BY <2>2 DEF Connected, TestPipe
    <3> QED BY <3>1, <3>2 DEF TestPipe
  <2>11. Flow'
    <3>1. Pending' = rest
      BY <1>1, <1>3, <2>4 DEF Pending
    <3>2. closing'.op # "close"
      BY <1>2, <2>2
    <3>3. Sends(data) /\ StartKept
      BY <1>8, <2>2 DEF Sends, StartKept, data
    <3> QED BY <1>1, <1>2, <1>3, <1>4, <2>0, <2>2, <2>3, <3>1, <3>2, <3>3, LineFlows
  <2> QED BY <2>2, <2>5, <2>6, <2>7, <2>8, <2>9, <2>10, <2>11 DEF Connected
<1> QED BY <1>1, <1>7, <1>8

\* The reader reads from the pipe, or from the keyboard.
LEMMA ReadInputConnected ==
  ASSUME Static, Connected, Good, NEW pid \in Pids \ {0}, ReadInput(pid)
  PROVE  Static' /\ Connected' /\ stray' = stray
<1> DEFINE fd == IF program = "pipeline" THEN STDIN ELSE ends[pid][1]
           count == IF program = "pipeline" THEN 1 ELSE ALL
<1>1. /\ sch.current = pid /\ pc[pid] = "read" /\ ~MarkWasRead
      /\ UNCHANGED <<program, pids, ends, lines, sent>>
      /\ SystemCall
      /\ \/ /\ fds[pid][fd] = "pipe"
            /\ \E entry \in pipe_fd_table : entry.pid = pid /\ ReadRound(pid, entry.pipe_id, count)
            /\ \E entry \in pipe_fd_table : entry.pid = pid /\ Receive(entry.pipe_id, count)
            /\ pc' = [pc EXCEPT ![pid] = IF program = "pipeline" THEN "read" ELSE "unlink"]
         \/ /\ Sleep(sch, pid, [op |-> "keyboard"]) /\ pc' = [pc EXCEPT ![pid] = "keyboard"]
            /\ UNCHANGED <<live, fds, pipes, pipe_fd_table, closing, stray, received>>
  BY DEF ReadInput, AtStep, Read, Goto
<1>2. /\ closing = NONE /\ waiting[pid] = NONE /\ NONE.op = "none" /\ pid \in live /\ IsActive(sch, pid)
      /\ pid \in Contexts /\ DOMAIN waiting = Contexts /\ NULL \notin Pids /\ 0 \in Pids
  BY <1>1, CommandIsAt
<1>3. /\ pids[2] = pid /\ program \in {"pipeline", "testpipe"} /\ DOMAIN pc = Pids
      /\ program = "testpipe" => received = <<>>
  BY <1>1 DEF Static, Shapes, Roles, ReaderSteps, WriterSteps, Connected, TestPipe
<1>4. count \in Counts /\ (program = "pipeline" => count = 1 /\ fd = STDIN)
  BY PipelineFacts
<1> HIDE DEF fd, count
<1>5. CASE /\ fds[pid][fd] = "pipe"
           /\ \E entry \in pipe_fd_table : entry.pid = pid /\ ReadRound(pid, entry.pipe_id, count)
           /\ \E entry \in pipe_fd_table : entry.pid = pid /\ Receive(entry.pipe_id, count)
           /\ pc' = [pc EXCEPT ![pid] = IF program = "pipeline" THEN "read" ELSE "unlink"]
  <2>1. \A entry \in pipe_fd_table : entry.pipe_id = 0
    BY DEF Good, Table, Connected, ThePipe
  <2>2. ReadRound(pid, 0, count) /\ Receive(0, count)
    BY <1>5, <2>1
  <2>3. stray' = stray
    BY <2>2 DEF ReadRound
  <2>4. /\ DOMAIN pc' = Pids /\ \A q \in Pids \ {pid} : pc'[q] = pc[q]
        /\ pc'[pid] = IF program = "pipeline" THEN "read" ELSE "unlink"
    BY <1>3, <1>5
  <2>5. program = "pipeline" => pc[0] \in Ending
    BY <1>4, <1>5 DEF Connected, Redirected
  <2> DEFINE id == 0
  <2>6. ReadRound(pid, id, count) /\ Receive(id, count)
    BY <2>2
  <2> HIDE DEF id
  <2>7. waiting[pid].op \in {"none", "read"} /\ pc[pid] \in {"read", "unlink"}
    BY <1>1, <1>2
  <2>8. Static' /\ Connected'
    BY <1>1, <1>2, <1>3, <1>4, <2>4, <2>5, <2>6, <2>7, ReceiveConnected
  <2> QED BY <2>3, <2>8
<1>6. CASE /\ Sleep(sch, pid, [op |-> "keyboard"]) /\ pc' = [pc EXCEPT ![pid] = "keyboard"]
           /\ UNCHANGED <<live, fds, pipes, pipe_fd_table, closing, stray, received>>
  <2>1. DOMAIN pc' = Pids /\ pc'[pid] = "keyboard" /\ \A q \in Pids \ {pid} : pc'[q] = pc[q]
    BY <1>3, <1>6
  <2>2. /\ DOMAIN waiting' = Contexts /\ sch'.rsp = sch.rsp
        /\ \A k \in Contexts \ {pid} : waiting'[k] = waiting[k]
        /\ waiting'[pid].op = "keyboard"
    <3> DEFINE what == [op |-> "keyboard"]
    <3>1. what.op = "keyboard" /\ Sleep(sch, pid, what)
      BY <1>6
    <3> HIDE DEF what
    <3>2. sch'.rsp = sch.rsp
      BY <3>1, SleepFacts DEF Good
    <3>3. waiting' = [waiting EXCEPT ![pid] = what]
      BY <1>1, <1>2, <3>1 DEF Sleep
    <3> QED BY <1>2, <3>1, <3>2, <3>3
  <2>3. Calm
    BY <1>2, <2>2 DEF Calm
  <2>4. ProgramsKept
    BY CommandKeepsPrograms DEF Static
  <2>5. WriterDone' <=> WriterDone
    BY <1>1, <2>1 DEF WriterDone, WriterSteps
  <2>6. Static'
    BY <1>1, <1>6, <2>2, <2>4, <2>5, ProgramStatic
  <2>7. InCalls'
    BY <1>1, <1>2, <1>6, <2>1, <2>3, <2>4, InCallsKept DEF Connected
  <2>8. pc'[0] = pc[0] /\ Ending' = Ending /\ Unstarted' = Unstarted
    BY <1>1, <1>2, <2>1 DEF Ending, Unstarted
  <2>9. Running' /\ ThePipe'
    <3>1. \A q \in Pids \ {0} : pc'[q] # "none" => pc[q] # "none"
      BY <1>1, <2>1
    <3>2. Running'
      BY <2>2, <3>1 DEF Connected, Running, IsActive
    <3>3. ThePipe'
      BY <1>1, <1>6, <2>8 DEF Connected, ThePipe
    <3> QED BY <3>2, <3>3
  <2>10. Redirected'
    <3>1. \A q \in Pids \ {0} : pc'[q] \in {"write", "read"} => pc[q] = pc'[q]
      BY <2>1
    <3>2. UNCHANGED <<program, pids, ends, live, fds>>
      BY <1>1, <1>6
    <3>3. Redirected
      BY DEF Connected
    <3> QED BY <2>8, <3>1, <3>2, <3>3 DEF Redirected
  <2>11. WriterHasEnd'
    <3>1. \A q \in Pids \ {0} : Out(q)' = Out(q)
      BY <1>1, <2>8 DEF Out
    <3> QED BY <1>6, <2>1, <2>8, <3>1 DEF Connected, WriterHasEnd, HalfConnected, PipeFd
  <2>12. OwnCloses'
    <3>1. \A k \in Contexts : waiting'[k].op = "close" => waiting'[k] = waiting[k] /\ waiting[k].op = "close"
      BY <2>2
    <3>2. closing'.op # "close"
      BY <1>2, <1>6
    <3> QED BY <1>1, <2>5, <2>8, <3>1, <3>2 DEF Connected, OwnCloses, ShellCloses
  <2>13. TestPipe'
    <3>1. ASSUME program = "testpipe", NEW q \in Pids \ {0}
          PROVE  /\ pc'[q] \in {"open_to_write", "open_to_read"} =>
                      \A entry \in pipe_fd_table' : entry.pid # q
                 /\ pc'[q] = "open_to_write" /\ 0 \in DOMAIN pipes' => pipes'[0].bytes_to_read = 0
                 /\ pc'[q] = "unlink" => waiting'[q].op = "read" \/ received' # <<>>
                 /\ pc'[q] = "exit" => received' # <<>> /\ DOMAIN pipes' = {}
                 /\ pc'[q] = "read" => received' = <<>>
      <4>1. CASE q = pid
        BY <2>1, <4>1
      <4>2. CASE q # pid
        <5>1. pc'[q] = pc[q] /\ waiting'[q] = waiting[q]
          BY <2>1, <2>2, <4>2, ConstantFacts
        <5> QED BY <1>6, <3>1, <5>1 DEF Connected, TestPipe
      <4> QED BY <4>1, <4>2
    <3>2. program = "testpipe" =>
            \A e, f \in pipe_fd_table' : e.pid = f.pid /\ ~e.allow_rd /\ ~f.allow_rd => e = f
      BY <1>6 DEF Connected, TestPipe
    <3> QED BY <1>1, <3>1, <3>2 DEF TestPipe
  <2>14. Flow'
    <3>1. Writing' => Writing
      BY <2>1 DEF Writing
    <3>2. Pending' = Pending
      BY <1>1, <2>3, PendingKept
    <3>3. OnlyReading' /\ closing'.op # "close"
      BY <1>2, <1>6 DEF OnlyReading
    <3> QED BY <1>1, <1>6, <2>5, <3>1, <3>2, <3>3, FlowKept DEF Connected
  <2> QED BY <1>6, <2>6, <2>7, <2>9, <2>10, <2>11, <2>12, <2>13, <2>14 DEF Connected
<1> QED BY <1>1, <1>5, <1>6

\* A process of test_pipes opens the pipe.
LEMMA OpenItselfConnected ==
  ASSUME Static, Connected, Good, NEW pid \in Pids \ {0}, OpenItself(pid)
  PROVE  Static' /\ Connected' /\ stray' = stray
<1> DEFINE rd == Min(FreeFds(pid))
           wr == Min(FreeFds(pid) \ {rd})
<1>1. /\ sch.current = pid /\ PipeOpen(pid, PIPE_NAME)
      /\ ends' = [ends EXCEPT ![pid] = <<rd, wr>>]
      /\ \/ pc[pid] = "open_to_write" /\ pc' = [pc EXCEPT ![pid] = "write"]
         \/ pc[pid] = "open_to_read" /\ pc' = [pc EXCEPT ![pid] = "read"]
      /\ UNCHANGED <<program, pids, lines, sent, received>>
  BY DEF OpenItself, Goto
<1>2. SystemCall
  BY <1>1 DEF PipeOpen, OpenFor, OpenForTheDead
<1>3. /\ closing = NONE /\ waiting[pid] = NONE /\ NONE.op = "none" /\ pid \in live
      /\ pid \in Contexts /\ DOMAIN waiting = Contexts /\ NULL \notin Pids /\ 0 \in Pids
  BY <1>1, <1>2, CommandIsAt
<1>4. OpenFor(pid, PIPE_NAME)
  BY <1>1, <1>3 DEF PipeOpen, OpenForTheDead
<1> HIDE DEF rd, wr
<1>5. /\ rd \in FDs \ 0 .. 2 /\ wr \in FDs \ 0 .. 2
      /\ UNCHANGED <<sch, live, waiting, closing, stray>>
      /\ pipe_fd_table' = pipe_fd_table \cup {PipeFd(pid, rd, 0, TRUE), PipeFd(pid, wr, 0, FALSE)}
      /\ DOMAIN pipes' = {0} /\ pipes'[0].name = PIPE_NAME
      /\ IF 0 \in DOMAIN pipes
         THEN /\ Contents(pipes'[0]) = Contents(pipes[0])
              /\ pipes'[0].bytes_to_read = pipes[0].bytes_to_read
              /\ pipes'[0].read_idx = pipes[0].read_idx
         ELSE Contents(pipes'[0]) = <<>> /\ pipes'[0].bytes_to_read = 0 /\ pipes'[0].read_idx = 0
  BY <1>4, OpenForDoes DEF rd, wr
<1>6. /\ DOMAIN pc' = Pids /\ \A q \in Pids \ {pid} : pc'[q] = pc[q]
      /\ DOMAIN ends' = Pids /\ \A q \in Pids \ {pid} : ends'[q] = ends[q]
      /\ ends'[pid] = <<rd, wr>>
      /\ \/ pc[pid] = "open_to_write" /\ pc'[pid] = "write"
         \/ pc[pid] = "open_to_read" /\ pc'[pid] = "read"
  BY <1>1 DEF Static, Shapes
<1>7. ends'[pid][1] = rd /\ ends'[pid][2] = wr
  <2>1. ends'[pid] = <<rd, wr>>
    BY <1>6
  <2> QED BY <2>1, PairFacts
<1>8. /\ program = "testpipe" /\ pids[1] # NULL /\ (pc[pid] = "open_to_write" => pids[1] = pid)
      /\ pc[0] \in Steps
  <2>1. pc[pid] \in {"none"} \cup WriterSteps \cup ReaderSteps /\ program \in {"pipeline", "testpipe"}
    BY DEF Static, Shapes, Roles
  <2>2. program = "testpipe"
    BY <1>6, <2>1 DEF WriterSteps, ReaderSteps
  <2>3. pc[pid] = "open_to_write" => pids[1] = pid
    BY <2>2 DEF Static, Roles, WriterSteps
  <2>4. pc[pid] = "open_to_read" => pids[2] = pid
    BY <2>2 DEF Static, Roles, ReaderSteps
  <2>5. pids[1] # NULL
    <3>1. pids[1] = NULL => pids[2] = NULL
      BY DEF Static, Roles
    <3>2. pid # NULL
      BY <1>3
    <3> QED BY <1>6, <2>3, <2>4, <3>1, <3>2
  <2> QED BY <2>2, <2>3, <2>5 DEF Static, Roles
<1>9. received = <<>>
  BY <1>6 DEF Static, Progress, NoMoreOpens
<1>10. WriterDone' <=> WriterDone
  <2>1. \A q \in Pids \ {0} : pc'[q] \in WriterSteps <=> pc[q] \in WriterSteps
    BY <1>6, <1>8 DEF WriterSteps
  <2> QED BY <1>1, <2>1 DEF WriterDone, WriterSteps
<1>11. ProgramsKept
  BY CommandKeepsPrograms DEF Static
<1>12. Static'
  BY <1>1, <1>3, <1>5, <1>10, <1>11, ProgramStatic
<1>13. InCalls'
  <2>1. Calm
    BY <1>3, <1>5 DEF Calm
  <2>2. \A k \in Contexts : waiting[k].op \in {"read", "write"} => k \in Pids \ {pid}
    BY <1>3, PipelineFacts DEF Connected, InCalls, Static, Shapes
  <2> QED BY <1>1, <1>6, <1>11, <2>1, <2>2, InCallsKept DEF Connected
<1>14. Running'
  <2>1. \A q \in Pids \ {0} : pc'[q] # "none" => pc[q] # "none"
    BY <1>6
  <2> QED BY <1>5, <2>1 DEF Connected, Running
<1>15. Redirected'
  <2>1. pc'[0] \notin {"dup_1", "close_rd_1", "close_wr_1", "dup_2", "close_rd_2", "close_wr_2"}
    BY <1>3, <1>6, <1>8 DEF Steps
  <2>2. ASSUME NEW q \in Pids \ {0}, pc'[q] \in {"write", "read"}
        PROVE  ends'[q][1] \in FDs /\ ends'[q][2] \in FDs
    <3>1. CASE q = pid
      BY <1>5, <1>7, <3>1
    <3>2. CASE q # pid
      BY <1>6, <1>8, <2>2, <3>2 DEF Connected, Redirected
    <3> QED BY <3>1, <3>2
  <2> QED BY <1>1, <1>8, <2>1, <2>2 DEF Redirected
<1>16. ThePipe'
  BY <1>1, <1>5, <1>8 DEF ThePipe
<1>17. 0 \notin DOMAIN pipes => ~Writing /\ sent = <<>>
  BY <1>8, <1>9 DEF Connected, Flow
<1>18. WriterHasEnd'
  <2> SUFFICES ASSUME NEW q \in Pids \ {0}, pc'[q] = "write"
               PROVE  PipeFd(q, Out(q)', 0, FALSE) \in pipe_fd_table'
    BY <1>1 DEF WriterHasEnd, PipeFd
  <2>1. CASE q = pid
    <3>1. Out(q)' = wr
      BY <1>1, <1>7, <1>8, <2>1 DEF Out
    <3> QED BY <1>5, <2>1, <3>1
  <2>2. CASE q # pid
    <3>1. pc[q] = "write" /\ Out(q)' = Out(q)
      BY <1>1, <1>6, <1>8, <2>2 DEF Out
    <3>2. 0 \in DOMAIN pipes
      BY <1>17, <3>1 DEF Writing
    <3>3. PipeFd(q, Out(q), 0, FALSE) \in pipe_fd_table
      BY <3>1, <3>2 DEF Connected, WriterHasEnd
    <3> QED BY <1>5, <3>1, <3>3
  <2> QED BY <2>1, <2>2
<1>19. OwnCloses'
  <2>1. \A k \in Contexts : waiting[k].op # "close"
    BY <1>8 DEF Connected, OwnCloses, ShellCloses
  <2> QED BY <1>3, <1>5, <2>1 DEF OwnCloses
<1>20. TestPipe'
  <2>1. ASSUME NEW q \in Pids \ {0}
        PROVE  /\ pc'[q] \in {"open_to_write", "open_to_read"} =>
                    \A entry \in pipe_fd_table' : entry.pid # q
               /\ pc'[q] = "open_to_write" /\ 0 \in DOMAIN pipes' => pipes'[0].bytes_to_read = 0
               /\ pc'[q] = "unlink" => waiting'[q].op = "read" \/ received' # <<>>
               /\ pc'[q] = "exit" => received' # <<>> /\ DOMAIN pipes' = {}
               /\ pc'[q] = "read" => received' = <<>>
    <3>1. CASE q = pid
      BY <1>1, <1>6, <1>9, <3>1
    <3>2. CASE q # pid
      <4>1. pc'[q] = pc[q]
        BY <1>6, <3>2
      <4>2. pc[q] \in {"open_to_write", "open_to_read"} => \A entry \in pipe_fd_table : entry.pid # q
        BY <1>8 DEF Connected, TestPipe
      <4>3. PipeFd(pid, rd, 0, TRUE).pid = pid /\ PipeFd(pid, wr, 0, FALSE).pid = pid
        BY DEF PipeFd
      <4>4. pc[q] \in {"open_to_write", "open_to_read"} => \A entry \in pipe_fd_table' : entry.pid # q
        BY <1>5, <3>2, <4>2, <4>3
      <4>5. pc[q] = "open_to_write" => pipes'[0].bytes_to_read = 0
        BY <1>5, <1>8 DEF Connected, TestPipe
      <4>6. /\ pc[q] = "unlink" => waiting[q].op = "read"
            /\ pc[q] # "exit"
        BY <1>8, <1>9 DEF Connected, TestPipe
      <4> QED BY <1>1, <1>5, <1>9, <4>1, <4>4, <4>5, <4>6
    <3> QED BY <3>1, <3>2
  <2>2. \A e, f \in pipe_fd_table' : e.pid = f.pid /\ ~e.allow_rd /\ ~f.allow_rd => e = f
    <3>1. \A e, f \in pipe_fd_table : e.pid = f.pid /\ ~e.allow_rd /\ ~f.allow_rd => e = f
      BY <1>8 DEF Connected, TestPipe
    <3>2. \A e \in pipe_fd_table : e.pid # pid
      BY <1>6, <1>8 DEF Connected, TestPipe
    <3>3. PipeFd(pid, rd, 0, TRUE).allow_rd /\ PipeFd(pid, wr, 0, FALSE).pid = pid
      BY DEF PipeFd
    <3> QED BY <1>5, <3>1, <3>2, <3>3
  <2> QED BY <2>1, <2>2 DEF TestPipe
<1>21. Flow'
  <2>1. OnlyReading' /\ closing'.op # "close" /\ Pending' = Pending
    BY <1>1, <1>3, <1>5 DEF OnlyReading, Pending
  <2>2. CASE 0 \in DOMAIN pipes
    BY <1>1, <1>5, <1>10, <2>1, <2>2, FlowKept DEF Connected
  <2>3. CASE 0 \notin DOMAIN pipes
    <3>2. Pending = <<>>
      <4>1. DOMAIN pipes = {}
        BY <2>3 DEF Connected, ThePipe
      <4>2. pids[1] \in Pids => waiting[pids[1]].op # "write"
        BY <4>1 DEF Good, Sleepers
      <4> QED BY <4>2 DEF Pending
    <3>3. Marks(0)' = <<>>
      <4> DEFINE m == Marks(0)
      <4>1. m \in Seq(Bytes) /\ Len(m) = 0
        BY MarksFacts
      <4> HIDE DEF m
      <4>2. m = <<>>
        BY <4>1, EmptySeq
      <4> QED BY <4>2 DEF Marks, m
    <3>4. <<>> \o <<>> \o <<>> = <<>> \o <<>>
      <4> DEFINE none == <<>>
      <4>1. none \in Seq(Bytes)
        BY NoBytes
      <4> HIDE DEF none
      <4>2. none \o <<>> = none
        BY <4>1, ConcatEmptySeq
      <4> QED BY <4>2 DEF none
    <3>6. (received \o Contents(pipes[0]) \o Pending = sent \o Marks(0))'
      BY <1>1, <1>5, <1>9, <1>17, <2>1, <2>3, <3>2, <3>3, <3>4
    <3>5. FlowWith(0)'
      <4>1. ~(0 > 0) /\ 0 <= 1
        OBVIOUS
      <4> QED BY <2>1, <3>6, <4>1 DEF FlowWith
    <3> QED BY <1>5, <2>3, <3>5 DEF Flow
  <2> QED BY <2>2, <2>3
<1> QED BY <1>5, <1>12, <1>13, <1>14, <1>15, <1>16, <1>18, <1>19, <1>20, <1>21 DEF Connected

\* The reader of test_pipes unlinks the pipe: whoever had it open, there is none any more,
\* and nobody opens one again.
LEMMA UnlinkConnected ==
  ASSUME Static, Connected, Good, NEW pid \in Pids \ {0}, Unlink(pid)
  PROVE  Static' /\ Connected' /\ Frozen'
<1>1. /\ sch.current = pid /\ pc[pid] = "unlink" /\ pc' = [pc EXCEPT ![pid] = "exit"] /\ SystemCall
      /\ UNCHANGED <<program, pids, ends, lines, sent, received>>
      /\ UNCHANGED <<live, fds, waiting, closing>>
      /\ \E id \in FindNamedPipe(PIPE_NAME) : PipeFree(sch, id)
  BY DEF Unlink, AtStep, Goto, PipeUnlink
<1>2. /\ closing = NONE /\ waiting[pid] = NONE /\ NONE.op = "none"
      /\ pid \in Contexts /\ DOMAIN waiting = Contexts /\ NULL \notin Pids /\ 0 \in Pids
  BY <1>1, CommandIsAt
<1>3. /\ DOMAIN pc' = Pids /\ \A q \in Pids \ {pid} : pc'[q] = pc[q]
      /\ pc'[pid] = "exit"
  BY <1>1 DEF Static, Shapes
<1>4. program = "testpipe" /\ pc[0] \in Steps /\ pc'[0] = pc[0]
  <2>1. pc[pid] \in {"none"} \cup WriterSteps \cup ReaderSteps /\ program \in {"pipeline", "testpipe"}
    BY DEF Static, Shapes, Roles
  <2>2. program = "testpipe"
    BY <1>1, <2>1 DEF WriterSteps, ReaderSteps
  <2> QED BY <1>2, <1>3, <2>2 DEF Static, Roles
<1>5. sch'.rsp = sch.rsp /\ DOMAIN pipes' = {} /\ pipe_fd_table' \subseteq pipe_fd_table
  <2>1. PICK id \in FindNamedPipe(PIPE_NAME) : PipeFree(sch, id)
    BY <1>1
  <2>2. id \in DOMAIN pipes /\ id = 0 /\ DOMAIN pipes \subseteq {0}
    BY DEF FindNamedPipe, Connected, ThePipe
  <2>3. DOMAIN pipes' = {}
    BY <2>1, <2>2, PipeFreeDomain
  <2>4. pipe_fd_table' \subseteq pipe_fd_table
    BY <2>1 DEF PipeFree
  <2> DEFINE s == QueueUnblockAll(sch, pipes[id].wr_q)
  <2>5. sch' = QueueUnblockAll(s, pipes[id].rd_q)
    BY <2>1 DEF PipeFree
  <2>6. pipes[id].wr_q \in Seq(Int) /\ pipes[id].rd_q \in Seq(Int) /\ SchInv(sch)
    BY <2>2, TypedFacts DEF Good
  <2>7. SchInv(s) /\ s.rsp = sch.rsp
    BY <2>6, UnblockAllFacts
  <2> HIDE DEF s
  <2>8. sch'.rsp = s.rsp
    BY <2>5, <2>6, <2>7, UnblockAllFacts
  <2> QED BY <2>3, <2>4, <2>7, <2>8
<1>6. received # <<>> /\ NoMoreOpens
  <2>1. received # <<>>
    BY <1>1, <1>2, <1>4 DEF Connected, TestPipe
  <2> QED BY <2>1 DEF Static, Progress
<1>7. ProgramsKept
  BY CommandKeepsPrograms DEF Static
<1>8. Frozen'
  BY <1>5, <1>6, <1>7 DEF Frozen, ProgramsKept
<1>9. WriterDone' <=> WriterDone
  BY <1>1, <1>3 DEF WriterDone, WriterSteps
<1>10. Static'
  BY <1>1, <1>2, <1>7, <1>9, ProgramStatic
<1>11. InCalls'
  <2>1. Calm
    BY <1>1, <1>2 DEF Calm
  <2>2. \A k \in Contexts : waiting[k].op \in {"read", "write"} => k \in Pids \ {pid}
    BY <1>2, PipelineFacts DEF Connected, InCalls, Static, Shapes
  <2> QED BY <1>1, <1>3, <1>7, <2>1, <2>2, InCallsKept DEF Connected
<1>12. Running'
  <2>1. \A q \in Pids \ {0} : pc'[q] # "none" => pc[q] # "none"
    BY <1>1, <1>3
  <2> QED BY <1>5, <2>1 DEF Connected, Running, IsActive
<1>13. Redirected'
  <2>1. \A q \in Pids \ {0} : pc'[q] \in {"write", "read"} => pc[q] = pc'[q]
    BY <1>3
  <2>2. pc'[0] \notin {"dup_1", "close_rd_1", "close_wr_1", "dup_2", "close_rd_2", "close_wr_2"}
    BY <1>4 DEF Steps
  <2> QED BY <1>1, <1>4, <2>1, <2>2 DEF Connected, Redirected
<1>14. ThePipe'
  BY <1>5 DEF ThePipe
<1>15. WriterHasEnd'
  <2>1. pc'[0] \notin HalfConnected /\ 0 \notin DOMAIN pipes'
    BY <1>4, <1>5 DEF Steps, HalfConnected
  <2> QED BY <2>1 DEF WriterHasEnd
<1>16. OwnCloses'
  <2>1. \A k \in Contexts : waiting[k].op # "close"
    BY <1>4 DEF Connected, OwnCloses, ShellCloses
  <2> QED BY <1>1, <1>2, <2>1 DEF OwnCloses
<1>17. TestPipe'
  <2>1. ASSUME NEW q \in Pids \ {0}
        PROVE  /\ pc'[q] \in {"open_to_write", "open_to_read"} =>
                    \A entry \in pipe_fd_table' : entry.pid # q
               /\ pc'[q] = "open_to_write" /\ 0 \in DOMAIN pipes' => pipes'[0].bytes_to_read = 0
               /\ pc'[q] = "unlink" => waiting'[q].op = "read" \/ received' # <<>>
               /\ pc'[q] = "exit" => received' # <<>> /\ DOMAIN pipes' = {}
               /\ pc'[q] = "read" => received' = <<>>
    <3>1. CASE q = pid
      BY <1>1, <1>3, <1>5, <1>6, <3>1
    <3>2. CASE q # pid
      <4>1. pc'[q] = pc[q]
        BY <1>3, <3>2
      <4>2. /\ pc[q] \in {"open_to_write", "open_to_read"} => \A entry \in pipe_fd_table : entry.pid # q
            /\ pc[q] = "read" => received = <<>>
        BY <1>4 DEF Connected, TestPipe
      <4> QED BY <1>1, <1>5, <1>6, <4>1, <4>2
    <3> QED BY <3>1, <3>2
  <2>2. \A e, f \in pipe_fd_table' : e.pid = f.pid /\ ~e.allow_rd /\ ~f.allow_rd => e = f
    BY <1>4, <1>5 DEF Connected, TestPipe
  <2> QED BY <2>1, <2>2 DEF TestPipe
<1>18. Flow'
  BY <1>1, <1>5, <1>6 DEF Flow
<1> QED BY <1>8, <1>10, <1>11, <1>12, <1>13, <1>14, <1>15, <1>16, <1>17, <1>18 DEF Connected

\* A process whose program is over.
LEMMA ReturnDoes ==
  ASSUME Static, Connected, Good, NEW pid \in Pids \ {0}, Return(pid)
  PROVE  /\ sch.current = pid /\ SystemCall
         /\ DOMAIN pc' = Pids /\ \A q \in Pids \ {pid} : pc'[q] = pc[q]
         /\ pc'[pid] = "none"
         /\ \/ pc[pid] = "write" /\ lines = <<>>
            \/ pc[pid] = "read" /\ MarkWasRead
            \/ pc[pid] = "exit"
         /\ UNCHANGED <<program, pids, ends, lines, sent, received>>
         /\ UNCHANGED <<live, fds, pipes, pipe_fd_table>>
         /\ DOMAIN waiting' = Contexts /\ \A k \in Contexts : waiting'[k] = waiting[k]
         /\ \A q \in Pids \ {pid} : IsActive(sch, q) => IsActive(sch', q)
         /\ sch'.current = KILLED_PROC_PID
         /\ closing'.op = "close" => closing'.dying /\ closing'.step = "close" /\ closing'.pid = pid
         /\ stray' = (stray \/ \E c \in Contexts :
                                waiting[c].op = "close" /\ (c = pid \/ waiting[c].pid = pid))
<1>1. /\ sch.current = pid /\ SystemCall /\ StartKill(pid, 0) /\ pc' = [pc EXCEPT ![pid] = "none"]
      /\ \/ pc[pid] = "write" /\ lines = <<>>
         \/ pc[pid] = "read" /\ MarkWasRead
         \/ pc[pid] = "exit"
      /\ UNCHANGED <<program, pids, ends, lines, sent, received>>
  BY DEF Return, AtStep, Goto, Exit
<1>2. /\ waiting[pid] = NONE /\ IsActive(sch, pid) /\ pid \in Contexts /\ DOMAIN waiting = Contexts
  BY <1>1, CommandIsAt
<1>3. DOMAIN pc' = Pids /\ pc'[pid] = "none" /\ \A q \in Pids \ {pid} : pc'[q] = pc[q]
  BY <1>1 DEF Static, Shapes
<1> DEFINE waiters == {w \in Pids : waiting[w].op = "waitpid" /\ waiting[w].pid = pid}
           t == SchOnProcessKilled(sch, pid, 0)
           queue == SetToSeq(waiters)
<1>4. /\ sch' = QueueUnblockAll(t, queue) /\ waiting' = [waiting EXCEPT ![pid] = NONE]
      /\ closing' = (IF NextFd(pid, -1) = {} THEN [op |-> "die", pid |-> pid]
                     ELSE CloseOf(pid, Min(NextFd(pid, -1)), TRUE))
      /\ UNCHANGED <<live, fds, pipes, pipe_fd_table>>
      /\ stray' = (stray \/ \E c \in Contexts :
                              waiting[c].op = "close" /\ (c = pid \/ waiting[c].pid = pid))
  BY <1>1 DEF StartKill
<1>5. SchInv(t) /\ t.rsp = [sch.rsp EXCEPT ![pid] = NULL] /\ t.current = KILLED_PROC_PID
  BY <1>1, <1>2, KilledFacts, SchedulerAssumption DEF Good
<1>6. queue \in Seq(Int)
  <2>1. Pids \subseteq Int /\ IsFiniteSet(Pids)
    BY ConstantFacts
  <2>2. IsFiniteSet(waiters) /\ waiters \subseteq Int
    BY <2>1, FS_Subset
  <2> HIDE DEF waiters
  <2>3. queue \in Seq(waiters)
    BY <2>2, SetToSeqFacts
  <2> HIDE DEF queue
  <2> QED BY <2>2, <2>3, SeqMonotonic
<1> HIDE DEF t, queue
<1>7. sch'.rsp = t.rsp /\ sch'.current = t.current
  BY <1>4, <1>5, <1>6, UnblockAllFacts
<1>8. \A q \in Pids \ {pid} : IsActive(sch, q) => IsActive(sch', q)
  <2>1. DOMAIN sch.rsp = Pids
    BY DEF Good, SchInv, SchStates
  <2> QED BY <1>5, <1>7, <2>1 DEF IsActive
<1>9. DOMAIN waiting' = Contexts /\ \A k \in Contexts : waiting'[k] = waiting[k]
  BY <1>2, <1>4
<1>10. closing'.op = "close" => closing'.dying /\ closing'.step = "close" /\ closing'.pid = pid
  <2>1. CASE NextFd(pid, -1) = {}
    BY <1>4, <2>1
  <2>2. CASE NextFd(pid, -1) # {}
    BY <1>4, <2>2 DEF CloseOf
  <2> QED BY <2>1, <2>2
<1> QED BY <1>1, <1>3, <1>4, <1>5, <1>7, <1>8, <1>9, <1>10

\* A process of test_pipes that ends while there is a pipe is the writer.
LEMMA WhoReturns ==
  ASSUME Static, Connected, NEW pid \in Pids \ {0},
         \/ pc[pid] = "write" /\ lines = <<>>
         \/ pc[pid] = "read" /\ MarkWasRead
         \/ pc[pid] = "exit"
  PROVE  /\ program = "testpipe" /\ 0 \in DOMAIN pipes => pc[pid] = "write"
         /\ pc[pid] = "write" => pids[1] = pid /\ pc[pid] \in WriterSteps
         /\ pc[pid] # "write" => pids[2] = pid /\ pc[pid] \notin WriterSteps
<1>1. program = "testpipe" /\ 0 \in DOMAIN pipes => pc[pid] = "write"
  <2>1. received = <<>> => ~MarkWasRead
    BY EmptySeq DEF MarkWasRead, Range
  <2> QED BY <2>1 DEF Connected, TestPipe
<1>2. pc[pid] = "write" => pids[1] = pid /\ pc[pid] \in WriterSteps
  BY DEF Static, Roles, WriterSteps
<1>3. pc[pid] # "write" => pids[2] = pid /\ pc[pid] \notin WriterSteps
  <2>1. pc[pid] # "write" => pc[pid] \notin WriterSteps
    BY DEF WriterSteps
  <2>2. pc[pid] # "write" => pc[pid] \in ReaderSteps
    BY DEF ReaderSteps
  <2> QED BY <2>1, <2>2 DEF Static, Roles
<1> QED BY <1>1, <1>2, <1>3

\* When a process has ended, what still holds is what held before, for it is nobody's
\* turn to read or to write any more if the shell sleeps in a call for it.
LEMMA ReturnConnected ==
  ASSUME Static, Connected, Good, ~stray, NEW pid \in Pids \ {0}, Return(pid)
  PROVE  Static' /\ Connected' /\ (stray' => Frozen')
<1>1. /\ sch.current = pid /\ SystemCall
      /\ DOMAIN pc' = Pids /\ \A q \in Pids \ {pid} : pc'[q] = pc[q]
      /\ pc'[pid] = "none"
      /\ \/ pc[pid] = "write" /\ lines = <<>>
         \/ pc[pid] = "read" /\ MarkWasRead
         \/ pc[pid] = "exit"
      /\ UNCHANGED <<program, pids, ends, lines, sent, received>>
      /\ UNCHANGED <<live, fds, pipes, pipe_fd_table>>
      /\ DOMAIN waiting' = Contexts /\ \A k \in Contexts : waiting'[k] = waiting[k]
  BY ReturnDoes
<1>2. /\ \A q \in Pids \ {pid} : IsActive(sch, q) => IsActive(sch', q)
      /\ sch'.current = KILLED_PROC_PID
      /\ closing'.op = "close" => closing'.dying /\ closing'.step = "close" /\ closing'.pid = pid
      /\ stray' = (stray \/ \E c \in Contexts :
                             waiting[c].op = "close" /\ (c = pid \/ waiting[c].pid = pid))
  BY ReturnDoes
<1>3. /\ closing = NONE /\ waiting[pid] = NONE /\ NONE.op = "none"
      /\ pid \in Contexts /\ NULL \notin Pids /\ 0 \in Pids
  BY <1>1, CommandIsAt
<1>4. /\ program = "testpipe" /\ 0 \in DOMAIN pipes => pc[pid] = "write"
      /\ pc[pid] = "write" => pids[1] = pid /\ pc[pid] \in WriterSteps
      /\ pc[pid] # "write" => pids[2] = pid /\ pc[pid] \notin WriterSteps
  BY <1>1, WhoReturns
<1>5. pc'[0] = pc[0] /\ "none" \notin WriterSteps /\ WriterSteps' = WriterSteps
  BY <1>1, <1>3 DEF WriterSteps
<1>6. ProgramsKept
  BY CommandKeepsPrograms DEF Static
<1>7. WriterDone' => WriterDone \/ lines = <<>>
  <2>1. pc[pid] # "write" => (WriterDone' => WriterDone)
    BY <1>1, <1>4, <1>5 DEF WriterDone
  <2> QED BY <1>1, <2>1
<1>8. Static'
  BY <1>1, <1>6, <1>7, ProgramStatic
<1>9. Calm
  BY <1>1 DEF Calm
<1>10. InCalls'
  <2>1. \A k \in Contexts : waiting[k].op \in {"read", "write"} => k \in Pids \ {pid}
    BY <1>3, PipelineFacts DEF Connected, InCalls, Static, Shapes
  <2> QED BY <1>1, <1>6, <1>9, <2>1, InCallsKept DEF Connected
<1>11. Running'
  <2>1. \A q \in Pids \ {0} : pc'[q] # "none" => q # pid /\ pc[q] # "none"
    BY <1>1
  <2> QED BY <1>2, <2>1 DEF Connected, Running
<1>12. Redirected'
  <2>1. \A q \in Pids \ {0} : pc'[q] \in {"write", "read"} => pc[q] = pc'[q]
    BY <1>1
  <2> QED BY <1>1, <1>5, <2>1 DEF Connected, Redirected, Ending, Closing2
<1>13. ThePipe'
  BY <1>1, <1>5 DEF Connected, ThePipe, Unstarted
<1>14. WriterHasEnd'
  <2>1. \A q \in Pids \ {0} : pc'[q] = "write" => pc[q] = "write" /\ Out(q)' = Out(q)
    BY <1>1, <1>5 DEF Out
  <2> QED BY <1>1, <1>5, <2>1 DEF Connected, WriterHasEnd, HalfConnected
<1>15. program = "testpipe" /\ 0 \in DOMAIN pipes => WriterDone' /\ ~WriterDone
  <2> SUFFICES ASSUME program = "testpipe", 0 \in DOMAIN pipes PROVE WriterDone' /\ ~WriterDone
    OBVIOUS
  <2>1. pids[1] = pid /\ pc[pid] \in WriterSteps
    BY <1>4
  <2>2. \A q \in Pids \ {0} : pc[q] \in WriterSteps => q = pid
    BY <2>1 DEF Static, Roles
  <2>3. \A q \in Pids \ {0} : pc'[q] \notin WriterSteps
    BY <1>1, <1>5, <2>2
  <2> QED BY <1>1, <1>3, <1>5, <2>1, <2>3 DEF WriterDone
<1>16. OwnCloses'
  <2>1. \A k \in Contexts :
          waiting[k].op = "close" => k = 0 /\ ShellCloses(waiting[k]) /\ WriterDone
    BY DEF Connected, OwnCloses
  <2>2. \A c : ShellCloses(c) =>
          /\ ~c.dying /\ c.fd \notin 0 .. 2 /\ program' = "pipeline"
          /\ pc'[0] \in {"close_wr_1", "open_2", "close_wr_2", "wait_first"}
    BY <1>1, <1>5 DEF ShellCloses
  <2>3. WriterDone => WriterDone'
    BY <1>6 DEF ProgramsKept
  <2>4. closing'.op = "close" => closing'.dying /\ closing'.step # "eof"
    BY <1>2
  <2>5. closing'.op = "close" => sch'.current = KILLED_PROC_PID
    BY <1>2
  <2>6. \A k \in Contexts : waiting'[k].op = "close" =>
          /\ k = 0 /\ ~waiting'[k].dying /\ waiting'[k].fd \notin 0 .. 2 /\ program' = "pipeline"
          /\ pc'[0] \in {"close_wr_1", "open_2", "close_wr_2", "wait_first"} /\ WriterDone'
    BY <1>1, <2>1, <2>2, <2>3
  <2>7. program' = "testpipe" /\ 0 \in DOMAIN pipes' => WriterDone'
    BY <1>1, <1>15
  <2> QED BY <2>4, <2>5, <2>6, <2>7 DEF OwnCloses, ShellCloses
<1>17. TestPipe'
  <2>1. ASSUME NEW q \in Pids \ {0}, program = "testpipe"
        PROVE  /\ pc'[q] \in {"open_to_write", "open_to_read"} =>
                    \A entry \in pipe_fd_table' : entry.pid # q
               /\ pc'[q] = "open_to_write" /\ 0 \in DOMAIN pipes' => pipes'[0].bytes_to_read = 0
               /\ pc'[q] = "unlink" => waiting'[q].op = "read" \/ received' # <<>>
               /\ pc'[q] = "exit" => received' # <<>> /\ DOMAIN pipes' = {}
               /\ pc'[q] = "read" => received' = <<>>
    <3>1. CASE q = pid
      BY <1>1, <3>1
    <3>2. CASE q # pid
      <4>1. pc'[q] = pc[q] /\ waiting'[q] = waiting[q]
        <5>1. q \in Contexts
          BY ConstantFacts DEF Contexts
        <5> QED BY <1>1, <3>2, <5>1
      <4>2. /\ pc[q] \in {"open_to_write", "open_to_read"} => \A entry \in pipe_fd_table : entry.pid # q
            /\ pc[q] = "open_to_write" /\ 0 \in DOMAIN pipes => pipes[0].bytes_to_read = 0
            /\ pc[q] = "unlink" => waiting[q].op = "read" \/ received # <<>>
            /\ pc[q] = "exit" => received # <<>> /\ DOMAIN pipes = {}
            /\ pc[q] = "read" => received = <<>>
        BY <2>1 DEF Connected, TestPipe
      <4> QED BY <1>1, <4>1, <4>2
    <3> QED BY <3>1, <3>2
  <2>2. program = "testpipe" =>
          \A e, f \in pipe_fd_table' : e.pid = f.pid /\ ~e.allow_rd /\ ~f.allow_rd => e = f
    BY <1>1 DEF Connected, TestPipe
  <2> QED BY <1>1, <2>1, <2>2 DEF TestPipe
<1>18. Flow'
  <2>1. Pending' = Pending
    BY <1>1, <1>9, PendingKept
  <2>2. Writing' => Writing
    BY <1>1 DEF Writing
  <2>3. Flow
    BY DEF Connected
  <2>4. WriterDone => WriterDone'
    BY <1>6 DEF ProgramsKept
  <2>5. closing'.op = "close" => closing'.step # "eof"
    BY <1>2
  <2>6. pipes' = pipes /\ UNCHANGED <<program, sent, received>>
    BY <1>1
  <2> QED BY <1>15, <2>1, <2>2, <2>3, <2>4, <2>5, <2>6, FlowKept
<1>19. stray' => Frozen'
  <2> SUFFICES ASSUME stray' PROVE NoIO'
    BY DEF Frozen
  <2>1. PICK c \in Contexts : waiting[c].op = "close"
    BY <1>2
  <2>2. /\ WriterDone /\ program = "pipeline"
        /\ pc[0] \in {"close_wr_1", "open_2", "close_wr_2", "wait_first"}
    BY <2>1 DEF Connected, OwnCloses, ShellCloses
  <2>3. \A q \in Pids \ {0} : pc[q] \notin WriterSteps
    BY <2>2 DEF WriterDone
  <2>4. pids[2] = pid
    BY <1>4, <2>3
  <2>5. \A q \in Pids \ {0} : pc[q] # "write" /\ (pc[q] = "read" => q = pid)
    <3>1. \A q \in Pids \ {0} : pc[q] # "write"
      BY <2>2, <2>3 DEF WriterSteps
    <3>2. \A q \in Pids \ {0} : pc[q] = "read" => pids[2] = q
      BY DEF Static, Roles, ReaderSteps
    <3> QED BY <2>4, <3>1, <3>2
  <2>6. \A k \in Contexts : waiting[k].op \notin {"read", "write"}
    <3> SUFFICES ASSUME NEW k \in Contexts PROVE waiting[k].op # "read" /\ waiting[k].op # "write"
      OBVIOUS
    <3>1. waiting[k].op # "read"
      BY <1>3, <2>4 DEF Connected, InCalls
    <3>2. waiting[k].op = "write" => k = pids[1] /\ k # 0 /\ pc[k] = "write"
      BY DEF Connected, InCalls
    <3>3. pids[1] \in Pids
      BY <2>2 DEF WriterDone, Static, Shapes
    <3> QED BY <2>5, <3>1, <3>2, <3>3
  <2>7. \A q \in Pids \ {0} : pc'[q] \notin {"read", "write"}
    BY <1>1, <2>5
  <2>8. program' = "pipeline" /\ pc'[0] \in HalfConnected' \cup Closing2' \cup {"wait_second", "prompt"}
    BY <1>1, <1>5, <2>2 DEF HalfConnected, Closing2
  <2>9. \A k \in Contexts : waiting'[k].op \notin {"read", "write"}
    BY <1>1, <2>6
  <2> QED BY <2>7, <2>8, <2>9 DEF NoIO
<1> QED BY <1>8, <1>10, <1>11, <1>12, <1>13, <1>14, <1>16, <1>17, <1>18, <1>19 DEF Connected

----------------------------------------------------------------------------
(* The whole invariant, and what it says *)

\* Until a pipe is freed that somebody has open the pipe connects the two commands; then
\* it is out of their reach.
PipelineIInv ==
  /\ stray \in BOOLEAN
  /\ Static
  /\ IF stray THEN Frozen ELSE Connected /\ Good

\* In the beginning there is no pipe and nothing was sent.
LEMMA InitEstablishesStatic == PipelineInit => Static /\ Connected
<1> SUFFICES ASSUME PipelineInit PROVE Static /\ Connected
  OBVIOUS
<1>1. /\ program \in {"pipeline", "testpipe"} /\ 0 \in Pids /\ NULL \notin Pids /\ Pids \subseteq Contexts
      /\ Lines \in Seq(Messages) /\ Lines # <<>>
  BY PipelineFacts, ConstantFacts, PipelineAssumption DEF PipelineInit, Contexts
<1>2. /\ pc = [pid \in Pids |-> IF pid # 0 THEN "none"
                                ELSE IF program = "pipeline" THEN "execute" ELSE "create_first"]
      /\ pids = <<NULL, NULL>> /\ DOMAIN ends = Pids
      /\ lines = IF program = "pipeline" THEN Lines ELSE SubSeq(Lines, 1, 1)
      /\ sent = <<>> /\ received = <<>>
  BY DEF PipelineInit
<1>3. /\ DOMAIN pc = Pids /\ pc[0] = IF program = "pipeline" THEN "execute" ELSE "create_first"
      /\ \A pid \in Pids \ {0} : pc[pid] = "none"
  BY <1>1, <1>2
<1>4. pids[1] = NULL /\ pids[2] = NULL
  BY <1>2
<1>5. /\ waiting = [context \in Contexts |-> NONE] /\ pipe_fd_table = {} /\ closing = NONE /\ pipes = <<>>
      /\ fds = [pid \in Pids |-> [fd \in FDs |-> IF fd < 3 THEN "device" ELSE "none"]]
  BY DEF PipelineInit, Init
<1>6. /\ DOMAIN waiting = Contexts /\ \A k \in Contexts : waiting[k].op = "none"
      /\ pipe_fd_table = {} /\ closing = NONE /\ closing.op = "none" /\ DOMAIN pipes = {}
      /\ \A pid \in Pids : fds[pid][STDIN] # "pipe"
  <2>1. NONE.op = "none"
    BY WhatFacts
  <2>2. DOMAIN pipes = {}
    BY <1>5
  <2>3. \A pid \in Pids : fds[pid][STDIN] # "pipe"
    <3>1. STDIN \in FDs /\ STDIN < 3
      BY PipeAssumption DEF STDIN, FDs
    <3> QED BY <1>5, <3>1
  <2> QED BY <1>5, <2>1, <2>2, <2>3
<1>7. Shapes /\ ~MarkWasRead
  <2>1. lines \in Seq(Messages)
    <3>1. CASE program = "pipeline"
      BY <1>1, <1>2, <3>1
    <3>2. CASE program # "pipeline"
      <4> DEFINE one == 1
      <4>1. one \in 1 .. Len(Lines) + 1 /\ one \in one - 1 .. Len(Lines)
        BY <1>1, LenProperties, EmptySeq
      <4>2. lines = SubSeq(Lines, one, one)
        BY <1>2, <3>2
      <4> HIDE DEF one
      <4> QED BY <1>1, <4>1, <4>2, SegmentFacts
    <3> QED BY <3>1, <3>2
  <2>2. sent \in Seq(Bytes) /\ received \in Seq(Bytes) /\ EOF \notin Range(sent) /\ ~MarkWasRead
    <3>1. sent \in Seq(Bytes) /\ received \in Seq(Bytes) /\ Len(sent) = 0 /\ Len(received) = 0
      BY <1>2, EmptySeq
    <3>2. DOMAIN sent = 1 .. Len(sent) /\ DOMAIN received = 1 .. Len(received)
      BY <3>1, LenProperties
    <3>3. DOMAIN sent = {} /\ DOMAIN received = {}
      BY <3>1, <3>2
    <3> QED BY <3>1, <3>3 DEF Range, MarkWasRead
  <2> QED BY <1>1, <1>2, <1>3, <1>4, <1>6, <2>1, <2>2 DEF Shapes
<1>8. Roles
  BY <1>1, <1>3, <1>4 DEF Roles, Steps, WriterSteps, ReaderSteps, Unstarted
<1>10. Progress /\ EndIsAfterAll
  BY <1>2, <1>4, <1>7 DEF Progress, WriterDone, EndIsAfterAll
<1>11. PipedInOrder
  <2> DEFINE none == <<>>
             zero == 0
  <2>1. none \in Seq(Bytes) /\ Len(none) = 0
    BY EmptySeq
  <2>2. Marks(zero) = none
    BY MarksFacts, EmptySeq
  <2>3. none \o none = none
    BY <2>1, ConcatEmptySeq
  <2> HIDE DEF none
  <2>4. none \o none = none \o Marks(zero) /\ zero \in Nat /\ Len(none) <= Len(none) + 1
    BY <2>1, <2>2, <2>3
  <2>5. IsPrefix(none, none \o <<EOF>>)
    BY <2>1, <2>4, FlowPrefix
  <2> QED BY <1>2, <2>5 DEF PipedInOrder, none
<1>12. Running /\ InCalls /\ ThePipe /\ TestPipe /\ WriterHasEnd /\ OwnCloses
  BY <1>3, <1>6 DEF Running, InCalls, ThePipe, TestPipe, WriterHasEnd, OwnCloses, HalfConnected
<1>13. Redirected
  BY <1>1, <1>3, <1>6 DEF Redirected
<1>14. Flow
  BY <1>2, <1>3, <1>6 DEF Flow, Writing
<1> QED BY <1>7, <1>8, <1>10, <1>11, <1>12, <1>13, <1>14 DEF Static, Connected

\* What the kernel does of itself.
LEMMA KernelKeepsConnected ==
  ASSUME Static, Connected, Good, ~stray, ContinueReading \/ Continue \/ TimerTick
  PROVE  Static' /\ Connected' /\ (stray' => Frozen')
<1>1. CASE ContinueReading
  BY <1>1, ContinueReadingConnected DEF ContinueReading, ContinueRead, ReadRound
<1>2. CASE TimerTick
  BY <1>2, TickConnected DEF TimerTick, Tick, pipeVars
<1>3. CASE Continue
  <2>1. CASE ContinueWrite
    BY <1>3, <2>1, ContinueWriteConnected DEF Continue, ContinueWrite, WriteRound
  <2>2. CASE ContinueClose
    BY <1>3, <2>2, ContinueCloseConnected DEF Continue, ContinueClose
  <2>3. CASE ReturnFromWaitpid
    BY <1>3, <2>3, ReturnFromWaitpidConnected DEF Continue, ReturnFromWaitpid
  <2>4. CASE CloseEnd
    BY <1>3, <2>4, CloseEndConnected DEF Continue, CloseEnd
  <2>5. CASE WriteEof
    BY <1>3, <2>5, WriteEofConnected DEF Continue, WriteEof
  <2>6. CASE WaitToWriteEof
    BY <1>3, <2>6, WaitToWriteEofConnected DEF Continue, WaitToWriteEof
  <2>7. CASE FinishClose
    BY <1>3, <2>7, FinishCloseConnected DEF Continue
  <2>8. CASE FinishKill
    BY <1>3, <2>8, FinishKillConnected DEF Continue, FinishKill
  <2> QED BY <1>3, <2>1, <2>2, <2>3, <2>4, <2>5, <2>6, <2>7, <2>8 DEF Continue
<1> QED BY <1>1, <1>2, <1>3

\* What the shell, test_pipes and their commands do.
LEMMA ProcessesKeepConnected ==
  ASSUME Static, Connected, Good, ~stray, PipelineNext, NEW pid \in Pids, ProcessStep(pid)
  PROVE  Static' /\ (~stray' => Connected') /\ (stray' => Frozen')
<1>1. CASE ExecuteLine
  BY <1>1, ExecuteLineConnected DEF ExecuteLine, vars, pipeVars
<1>2. CASE \E child \in Pids : CreateCommand(child)
  <2>1. PICK child \in Pids : CreateCommand(child)
    BY <1>2
  <2>2. stray' = stray
    BY <2>1 DEF CreateCommand, Create
  <2> QED BY <2>1, <2>2, CreateCommandConnected
<1>3. CASE \E i \in 1 .. 2 : Redirect(i)
  BY <1>3, RedirectConnected
<1>4. CASE \E i \in 1 .. 2 : WaitForCommand(i)
  <2>1. PICK i \in 1 .. 2 : WaitForCommand(i)
    BY <1>4
  <2>2. Waitpid(pids[i]) \/ Fails(pids[i])
    BY <2>1 DEF WaitForCommand
  <2>3. stray' = stray
    BY <2>2 DEF Waitpid, Fails, vars, pipeVars
  <2> QED BY <2>1, <2>3, WaitForCommandConnected
<1>5. CASE OpenItself(pid) \/ WriteLine(pid) \/ ReadInput(pid) \/ Unlink(pid) \/ Return(pid)
  <2>1. pid \in Pids \ {0}
    BY <1>5, CommandMoves DEF Static
  <2> QED BY <1>5, <2>1, OpenItselfConnected, WriteLineConnected, ReadInputConnected, UnlinkConnected,
             ReturnConnected
<1> QED BY <1>1, <1>2, <1>3, <1>4, <1>5 DEF ProcessStep

\* A stuttering step.
LEMMA NothingMoves ==
  ASSUME PipelineIInv, UNCHANGED pipelineVars
  PROVE  PipelineIInv'
<1>1. UNCHANGED <<sch, live, fds, pipes, pipe_fd_table, waiting, closing, stray>>
  BY DEF pipelineVars, vars, pipeVars
<1>2. UNCHANGED <<program, pc, pids, ends, lines, sent, received>>
  BY DEF pipelineVars, programVars
<1>3. Static => Static'
  BY <1>1, <1>2 DEF Static, Shapes, Roles, Progress, PipedInOrder, EndIsAfterAll, MarkWasRead, WriterDone,
                    NoMoreOpens, Steps, WriterSteps, ReaderSteps, Unstarted, Ending, HalfConnected, Closing2
<1>4. Frozen => Frozen'
  BY <1>1, <1>2 DEF Frozen, NoMoreOpens, NoIO, Ending, HalfConnected, Closing2
<1>5. Connected => Connected'
  <2>1. WriterDone' <=> WriterDone
    BY <1>1, <1>2 DEF WriterDone, WriterSteps
  <2>2. Running /\ InCalls /\ Redirected => Running' /\ InCalls' /\ Redirected'
    BY <1>1, <1>2 DEF Running, InCalls, Redirected, MarkWasRead, NoMoreOpens, Ending, Closing2
  <2>3. ThePipe /\ WriterHasEnd /\ TestPipe => ThePipe' /\ WriterHasEnd' /\ TestPipe'
    BY <1>1, <1>2 DEF ThePipe, WriterHasEnd, TestPipe, Out, HalfConnected, Unstarted
  <2>4. OwnCloses => OwnCloses'
    BY <1>1, <1>2, <2>1 DEF OwnCloses, ShellCloses
  <2>5. Flow => Flow'
    BY <1>1, <1>2, <2>1 DEF Flow, FlowWith, Pending, OnlyReading, Writing
  <2> QED BY <2>2, <2>3, <2>4, <2>5 DEF Connected
<1>6. Good => Good'
  BY <1>1, NothingChanges
<1> QED BY <1>1, <1>3, <1>4, <1>5, <1>6 DEF PipelineIInv

\* Every step keeps the invariant.
LEMMA NextKeepsPipelineIInv ==
  ASSUME PipelineIInv, [PipelineNext]_pipelineVars
  PROVE  PipelineIInv'
<1>1. CASE PipelineNext
  <2>1. stray' \in BOOLEAN /\ (stray => stray')
    BY <1>1, StrayStays DEF PipelineIInv
  <2>2. CASE stray
    BY <1>1, <2>1, <2>2, FrozenStays DEF PipelineIInv
  <2>3. CASE ~stray
    <3>1. Static /\ Connected /\ Good
      BY <2>3 DEF PipelineIInv
    <3>2. Static' /\ (~stray' => Connected') /\ (stray' => Frozen')
      BY <1>1, <2>3, <3>1, KernelKeepsConnected, ProcessesKeepConnected DEF PipelineNext
    <3>3. ~stray' => Good'
      BY <1>1, <3>1, StepKeepsGood DEF Static, Connected
    <3> QED BY <2>1, <3>2, <3>3 DEF PipelineIInv
  <2> QED BY <2>2, <2>3
<1>2. CASE UNCHANGED pipelineVars
  BY <1>2, NothingMoves
<1> QED BY <1>1, <1>2

\* The invariant holds in every reachable state.
LEMMA PipelineInvariant == PipelineSpec => []PipelineIInv
<1>1. PipelineInit => PipelineIInv
  BY InitEstablishesStatic, InitEstablishesIInv DEF PipelineIInv, PipelineInit, IInv, Init
<1>2. PipelineIInv /\ [PipelineNext]_pipelineVars => PipelineIInv'
  BY NextKeepsPipelineIInv
<1> QED BY <1>1, <1>2, PTL DEF PipelineSpec

(* What comes out of the pipe is what went into it, in its order, none lost, none twice, and
   the end mark last, whatever lines are written, however many processes, descriptors and
   pipes there may be, and wherever the processes, the shell's redirections and the timer
   meet, across the wrap of the circular buffer and its growth (pipe.c:334-347, :361-403). *)
THEOREM PipelinePipedInOrder == PipelineSpec => []PipedInOrder
<1>1. PipelineIInv => PipedInOrder
  BY DEF PipelineIInv, Static
<1> QED BY <1>1, PipelineInvariant, PTL

(* The reader sees the end of its input only after the writer has written all its lines, and
   has by then read all that went into the pipe: none of the closes of the shell after dup,
   and no death of a process that has the pipe open, puts the mark before the last byte
   (pipe.c:466-476, test_pipes.c:40). *)
THEOREM PipelineEndIsAfterAll == PipelineSpec => []EndIsAfterAll
<1>1. PipelineIInv => EndIsAfterAll
  BY DEF PipelineIInv, Static
<1> QED BY <1>1, PipelineInvariant, PTL
=============================================================================
