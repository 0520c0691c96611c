----------------------------- MODULE PipeProofs -----------------------------
(***************************************************************************)
(* The invariants of Pipe, for every number of processes, pipes and        *)
(* descriptors and every size of the buffer: as long as it has not come to *)
(* what stray says, the types are kept, readers and writers count the      *)
(* descriptors of each end, no wakeup of a reader or writer is lost, and   *)
(* the bytes of a pipe come out in the order they went in.                 *)
(*                                                                         *)
(* EndsCounted is not inductive: it also needs to know how far each close  *)
(* is, the one in progress and those that sleep, and that no two of them   *)
(* are of one descriptor (Mapped, ClosingInv, WaitingCloses); and a reader *)
(* or writer that sleeps is in the queue of its pipe, or a close of one of *)
(* its descriptors has put it into pipe 0's (Sleepers).                    *)
(***************************************************************************)
EXTENDS Pipe, KernelLemmas

----------------------------------------------------------------------------
(* The buffer *)

LEMMA ConstantFacts ==
  /\ Pids \subseteq Nat /\ 0 \in Pids /\ IsFiniteSet(Pids) /\ Cardinality(Pids) = MAX_PROCESSES
  /\ KERNEL_PROC_PID \notin Pids /\ KILLED_PROC_PID \notin Contexts /\ KILLED_PROC_PID # KERNEL_PROC_PID
  /\ Pids \subseteq Contexts /\ KERNEL_PROC_PID \in Contexts
  /\ FDs \subseteq Nat /\ IsFiniteSet(FDs) /\ Cardinality(FDs) = MAX_FDS /\ DupTargets \subseteq FDs
  /\ PipeIds \subseteq Nat /\ NULL \notin PipeIds /\ Counts \subseteq Nat
  /\ DEFAULT_PRIORITY \in Int /\ MAX_PRIORITY \in Int
  /\ MAX_PROCESSES \in Nat \ {0} /\ MAX_FDS \in Nat /\ UINT \in Nat /\ 2 * MAX_PROCESSES * MAX_FDS < UINT
<1>1. /\ IsFiniteSet(0 .. MAX_PROCESSES - 1) /\ Cardinality(0 .. MAX_PROCESSES - 1) = MAX_PROCESSES
      /\ IsFiniteSet(0 .. MAX_FDS - 1) /\ Cardinality(0 .. MAX_FDS - 1) = MAX_FDS
  <2>1. MAX_PROCESSES - 1 \in Int /\ MAX_FDS - 1 \in Int /\ 0 \in Int
        /\ MAX_PROCESSES - 1 - 0 + 1 = MAX_PROCESSES /\ MAX_FDS - 1 - 0 + 1 = MAX_FDS
        /\ ~(0 > MAX_PROCESSES - 1) /\ ~(0 > MAX_FDS - 1)
    BY SchedulerAssumption, PipeAssumption
  <2> DEFINE a == MAX_PROCESSES - 1
             b == MAX_FDS - 1
             z == 0
  <2> HIDE DEF a, b, z
  <2>2. /\ IsFiniteSet(z .. a) /\ Cardinality(z .. a) = IF z > a THEN 0 ELSE a - z + 1
        /\ IsFiniteSet(z .. b) /\ Cardinality(z .. b) = IF z > b THEN 0 ELSE b - z + 1
    BY <2>1, FS_Interval DEF a, b, z
  <2> QED BY <2>1, <2>2 DEF a, b, z
<1> QED
  BY <1>1, SchedulerAssumption, PipeAssumption
  DEF Pids, Contexts, FDs, PipeIds, KERNEL_PROC_PID, KILLED_PROC_PID, NULL

LEMMA BytesFacts ==
  /\ NOTHING \in Bytes /\ <<EOF>> \in Seq(Bytes) /\ Len(<<EOF>>) = 1
  /\ \A data \in Messages : data \in Seq(Bytes)
<1>1. \A data \in Messages : data \in Seq(Range(data)) /\ Range(data) \subseteq Bytes
  BY PipeAssumption DEF Bytes
<1>2. \A data \in Messages : data \in Seq(Bytes)
  BY <1>1, SeqMonotonic
<1>3. EOF \in Bytes /\ NOTHING \in Bytes
  BY DEF Bytes
<1> QED BY <1>2, <1>3

LEMMA SizeFacts ==
  ASSUME NEW p \in PipeInfo
  PROVE  /\ Size(p) \in 0 .. BUFFER_MAX_SIZE /\ BUFFER_MAX_SIZE \in Nat \ {0}
         /\ p.bytes_to_read \in 0 .. Size(p) /\ p.read_idx \in 0 .. Size(p)
         /\ p.buffer \in Seq(Bytes)
<1>1. p.buffer \in Seq(Bytes) /\ p.bytes_to_read \in Nat /\ p.read_idx \in Nat
      /\ Size(p) <= BUFFER_MAX_SIZE /\ p.bytes_to_read <= Size(p) /\ p.read_idx <= Size(p)
  BY DEF PipeInfo
<1>2. Size(p) \in Nat
  BY <1>1, LenProperties DEF Size
<1>3. BUFFER_MAX_SIZE \in Nat \ {0}
  BY BufferAssumption DEF PowersOfTwo
<1> QED BY <1>1, <1>2, <1>3

\* What there is to read is a sequence of as many bytes as bytes_to_read says.
LEMMA ContentsFacts ==
  ASSUME NEW p \in PipeInfo
  PROVE  Contents(p) \in Seq(Bytes) /\ Len(Contents(p)) = p.bytes_to_read
<1> DEFINE n == p.bytes_to_read
           size == Size(p)
           place(i) == ((p.read_idx + i - 1) % size) + 1
<1>1. n \in Nat /\ size \in Nat /\ n <= size /\ p.read_idx \in Nat /\ p.buffer \in Seq(Bytes)
  BY SizeFacts
<1>2. Contents(p) = [i \in 1 .. n |-> p.buffer[place(i)]]
  BY DEF Contents
<1>3. ASSUME NEW i \in 1 .. n PROVE p.buffer[place(i)] \in Bytes
  <2>1. place(i) \in 1 .. size
    <3> HIDE DEF size
    <3> QED BY <1>1
  <2> HIDE DEF place
  <2>2. place(i) \in 1 .. Len(p.buffer)
    BY <2>1 DEF Size
  <2> QED BY <1>1, <2>2, ElementOfSeq
<1> HIDE DEF n, place
<1> QED BY <1>1, <1>2, <1>3 DEF n

\* What reading leaves is a pipe with the same ends and queues.
LEMMA ReadPipeBufferFacts ==
  ASSUME NEW p \in PipeInfo, NEW count \in Nat
  PROVE  LET q == ReadPipeBuffer(p, count)
         IN  /\ q \in PipeInfo /\ q.name = p.name /\ q.readers = p.readers /\ q.writers = p.writers
             /\ q.rd_q = p.rd_q /\ q.wr_q = p.wr_q
<1> DEFINE m == Min({count, p.bytes_to_read})
           n == Len(BytesRead(p, count))
           q == ReadPipeBuffer(p, count)
           c == Contents(p)
<1>1. /\ p.bytes_to_read \in Nat /\ p.bytes_to_read <= Size(p) /\ Size(p) \in Nat
      /\ p.read_idx \in Nat /\ c \in Seq(Bytes) /\ Len(c) = p.bytes_to_read
  BY SizeFacts, ContentsFacts
<1>2. m \in 0 .. Len(c)
  <2> HIDE DEF c
  <2> QED BY <1>1, MinOfTwo
<1>3. n = m
  <2> DEFINE one == 1
  <2>1. one \in 1 .. Len(c) + 1 /\ m \in one - 1 .. Len(c) /\ m - one + 1 = m
    BY <1>1, <1>2
  <2>2. BytesRead(p, count) = SubSeq(c, one, m)
    BY DEF BytesRead
  <2> HIDE DEF one, c, m
  <2>3. Len(SubSeq(c, one, m)) = m - one + 1
    BY <1>1, <2>1, SegmentFacts
  <2> QED BY <2>1, <2>2, <2>3
<1>4. CASE n = 0
  BY <1>4 DEF ReadPipeBuffer
<1>5. CASE n # 0
  <2>1. q = [p EXCEPT !.read_idx = (p.read_idx + n) % Size(p), !.bytes_to_read = p.bytes_to_read - n]
    BY <1>5 DEF ReadPipeBuffer
  <2>2. /\ (p.read_idx + n) % Size(p) \in 0 .. Size(p) - 1
        /\ p.bytes_to_read - n \in Nat /\ p.bytes_to_read - n <= Size(p)
    <3> HIDE DEF n, m, c
    <3> QED BY <1>1, <1>2, <1>3, <1>5
  <2> DEFINE r == (p.read_idx + n) % Size(p)
             b == p.bytes_to_read - n
  <2>3. r \in Nat /\ r <= Size(p) /\ b \in Nat /\ b <= Size(p)
    <3> HIDE DEF n
    <3> QED BY <1>1, <2>2
  <2>4. q = [p EXCEPT !.read_idx = r, !.bytes_to_read = b]
    BY <2>1
  <2> HIDE DEF q, r, b
  <2>5. q \in PipeInfo
    BY <2>3, <2>4 DEF PipeInfo, Size
  <2>6. /\ q.name = p.name /\ q.readers = p.readers /\ q.writers = p.writers
        /\ q.rd_q = p.rd_q /\ q.wr_q = p.wr_q
    BY <2>4 DEF PipeInfo
  <2> QED BY <2>5, <2>6 DEF q
<1> QED BY <1>4, <1>5

\* The new size fits the bytes, as far as the buffer may grow.
LEMMA RoundUpFacts ==
  ASSUME NEW size \in Nat, size <= BUFFER_MAX_SIZE
  PROVE  RoundUpBufferSize(size) \in size .. BUFFER_MAX_SIZE
<1> DEFINE S == {power \in PowersOfTwo : size <= power}
<1>1. S \in SUBSET Nat /\ BUFFER_MAX_SIZE \in S
  BY BufferAssumption DEF PowersOfTwo
<1>2. RoundUpBufferSize(size) = Min(S)
  BY DEF RoundUpBufferSize
<1>3. \A x \in S : size <= x
  OBVIOUS
<1> HIDE DEF S
<1>4. Min(S) \in S /\ \A y \in S : Min(S) <= y
  BY <1>1, MinFacts
<1> DEFINE r == RoundUpBufferSize(size)
<1>5. r \in S /\ \A y \in S : r <= y
  BY <1>2, <1>4
<1> HIDE DEF r
<1>6. r \in Nat /\ size <= r /\ r <= BUFFER_MAX_SIZE /\ BUFFER_MAX_SIZE \in Nat
  BY <1>1, <1>3, <1>5
<1>7. r \in size .. BUFFER_MAX_SIZE
  BY <1>6
<1> QED BY <1>7 DEF r

\* A larger buffer has the same bytes to read, and room for the rest unless it is as
\* large as may be.
LEMMA GrowFacts ==
  ASSUME NEW p \in PipeInfo, NEW count \in Nat
  PROVE  LET q == Grow(p, count)
         IN  /\ q \in PipeInfo /\ q.bytes_to_read = p.bytes_to_read
             /\ q.name = p.name /\ q.readers = p.readers /\ q.writers = p.writers
             /\ q.rd_q = p.rd_q /\ q.wr_q = p.wr_q
             /\ Size(q) >= p.bytes_to_read + count \/ Size(q) = BUFFER_MAX_SIZE
<1> DEFINE btr == p.bytes_to_read
           required == btr + count
           least == Min({required, BUFFER_MAX_SIZE})
           new_size == RoundUpBufferSize(least)
           blank == [i \in 1 .. new_size - btr |-> NOTHING]
           q == Grow(p, count)
<1>1. /\ btr \in Nat /\ btr <= Size(p) /\ Size(p) \in Nat /\ Size(p) <= BUFFER_MAX_SIZE
      /\ BUFFER_MAX_SIZE \in Nat /\ required \in Nat
  BY SizeFacts
<1>2. CASE ~(Size(p) < required /\ Size(p) < BUFFER_MAX_SIZE)
  <2>1. q = p
    BY <1>2 DEF Grow
  <2>2. Size(p) >= required \/ Size(p) = BUFFER_MAX_SIZE
    BY <1>1, <1>2
  <2> QED BY <2>1, <2>2
<1>3. CASE Size(p) < required /\ Size(p) < BUFFER_MAX_SIZE
  <2>1. q = [p EXCEPT !.buffer = Contents(p) \o blank, !.read_idx = 0]
    BY <1>3 DEF Grow
  <2> HIDE DEF required
  <2>2. least = IF required <= BUFFER_MAX_SIZE THEN required ELSE BUFFER_MAX_SIZE
    BY <1>1, MinOfTwo
  <2>3. least \in Nat /\ least <= BUFFER_MAX_SIZE /\ btr <= least
        /\ (required <= least \/ least = BUFFER_MAX_SIZE)
    BY <1>1, <1>3, <2>2
  <2> HIDE DEF least
  <2>4. new_size \in least .. BUFFER_MAX_SIZE
    BY <2>3, RoundUpFacts
  <2> HIDE DEF new_size
  <2>5. new_size \in Nat /\ new_size - btr \in Nat
    BY <1>1, <2>3, <2>4
  <2>6. blank \in Seq(Bytes) /\ Len(blank) = new_size - btr
    BY <2>5, BytesFacts
  <2> HIDE DEF blank
  <2> DEFINE b == Contents(p) \o blank
  <2>7. b \in Seq(Bytes) /\ Len(b) = new_size
    <3>1. Contents(p) \in Seq(Bytes) /\ Len(Contents(p)) = btr
      BY ContentsFacts
    <3>2. b \in Seq(Bytes) /\ Len(b) = Len(Contents(p)) + Len(blank)
      BY <2>6, <3>1, ConcatProperties
    <3> QED BY <1>1, <2>5, <2>6, <3>1, <3>2
  <2> HIDE DEF b
  <2>8. q = [p EXCEPT !.buffer = b, !.read_idx = 0]
    BY <2>1 DEF b
  <2> HIDE DEF q
  <2>9. q \in PipeInfo
    <3>1. new_size <= BUFFER_MAX_SIZE /\ btr <= new_size
      BY <1>1, <2>3, <2>4, <2>5
    <3>2. /\ q \in [name : Names \cup {NULL}, buffer : Seq(Bytes), read_idx : Nat,
                    bytes_to_read : Nat, readers : 0 .. UINT - 1, writers : 0 .. UINT - 1,
                    rd_q : Seq(Pids), wr_q : Seq(Pids)]
          /\ q.buffer = b /\ q.read_idx = 0 /\ q.bytes_to_read = btr
      BY <2>7, <2>8 DEF PipeInfo
    <3> QED BY <2>5, <2>7, <3>1, <3>2 DEF PipeInfo, Size
  <2>10. q.bytes_to_read = p.bytes_to_read
         /\ q.name = p.name /\ q.readers = p.readers /\ q.writers = p.writers
         /\ q.rd_q = p.rd_q /\ q.wr_q = p.wr_q /\ Size(q) = new_size
    BY <2>7, <2>8 DEF PipeInfo, Size
  <2>11. new_size >= required \/ new_size = BUFFER_MAX_SIZE
    BY <1>1, <2>3, <2>4, <2>5
  <2> QED BY <2>9, <2>10, <2>11 DEF required, q
<1> QED BY <1>2, <1>3

\* What is written is there to be read; what is not written does not fit.
LEMMA WritePipeBufferFacts ==
  ASSUME NEW p \in PipeInfo, NEW data \in Seq(Bytes)
  PROVE  LET w == WritePipeBuffer(p, data)
             n == BytesWritten(p, data)
         IN  /\ n \in 0 .. Len(data)
             /\ n < Len(data) => p.bytes_to_read + n = BUFFER_MAX_SIZE
             /\ w \in PipeInfo /\ w.bytes_to_read = p.bytes_to_read + n
             /\ w.name = p.name /\ w.readers = p.readers /\ w.writers = p.writers
             /\ w.rd_q = p.rd_q /\ w.wr_q = p.wr_q
<1> DEFINE len == Len(data)
           q == Grow(p, len)
           n == BytesWritten(p, data)
           size == Size(q)
           btr == p.bytes_to_read
           Place(i) == ((q.read_idx + q.bytes_to_read + i - 1) % size) + 1
           buffer == [place \in 1 .. size |->
                        IF \E i \in 1 .. n : Place(i) = place
                        THEN data[CHOOSE i \in 1 .. n : Place(i) = place]
                        ELSE q.buffer[place]]
           w == WritePipeBuffer(p, data)
<1>1. len \in Nat
  BY LenProperties
<1>2. /\ q \in PipeInfo /\ q.bytes_to_read = btr
      /\ q.name = p.name /\ q.readers = p.readers /\ q.writers = p.writers
      /\ q.rd_q = p.rd_q /\ q.wr_q = p.wr_q
      /\ size >= btr + len \/ size = BUFFER_MAX_SIZE
  <2> HIDE DEF len
  <2> QED BY <1>1, GrowFacts
<1>3. n = Min({len, size - q.bytes_to_read})
  BY DEF BytesWritten
<1>4. w = [q EXCEPT !.buffer = buffer, !.bytes_to_read = q.bytes_to_read + n]
  BY DEF WritePipeBuffer
<1> HIDE DEF q, w
<1>5. /\ size \in Nat /\ btr \in Nat /\ btr <= size /\ size <= BUFFER_MAX_SIZE
      /\ BUFFER_MAX_SIZE \in Nat /\ q.buffer \in Seq(Bytes)
  BY <1>2, SizeFacts
<1>6. n = IF len <= size - btr THEN len ELSE size - btr
  <2> DEFINE room == size - btr
  <2>1. room \in Nat
    BY <1>5
  <2>2. n = Min({len, room})
    BY <1>2, <1>3
  <2> HIDE DEF room, len, n
  <2> QED BY <1>1, <2>1, <2>2, MinOfTwo DEF room
<1>7. n \in 0 .. len /\ (n < len => btr + n = BUFFER_MAX_SIZE) /\ btr + n \in Nat /\ btr + n <= size
  <2> HIDE DEF n, size, btr, len
  <2> QED BY <1>1, <1>2, <1>5, <1>6
<1>8. buffer \in Seq(Bytes) /\ Len(buffer) = size
  <2>1. ASSUME NEW place \in 1 .. size PROVE buffer[place] \in Bytes
    <3>1. CASE \E i \in 1 .. n : Place(i) = place
      <4> DEFINE i == CHOOSE i \in 1 .. n : Place(i) = place
      <4>1. i \in 1 .. n
        BY <3>1
      <4>2. buffer[place] = data[i]
        BY <3>1
      <4> HIDE DEF i, buffer, n
      <4>3. i \in 1 .. Len(data)
        BY <1>1, <1>7, <4>1
      <4> QED BY <4>2, <4>3, ElementOfSeq
    <3>2. CASE ~ \E i \in 1 .. n : Place(i) = place
      <4>1. buffer[place] = q.buffer[place]
        BY <3>2
      <4>2. place \in 1 .. Len(q.buffer)
        BY DEF Size
      <4> HIDE DEF buffer
      <4> QED BY <1>5, <4>1, <4>2, ElementOfSeq
    <3> QED BY <3>1, <3>2
  <2>2. buffer = [place \in 1 .. size |-> buffer[place]]
    OBVIOUS
  <2> HIDE DEF buffer, size
  <2> QED BY <1>5, <2>1, <2>2
<1> HIDE DEF buffer, n
<1>9. w \in PipeInfo /\ w.bytes_to_read = btr + n
  BY <1>2, <1>4, <1>5, <1>7, <1>8 DEF PipeInfo, Size
<1>10. w.name = q.name /\ w.readers = q.readers /\ w.writers = q.writers
       /\ w.rd_q = q.rd_q /\ w.wr_q = q.wr_q
  BY <1>2, <1>4 DEF PipeInfo
<1> HIDE DEF size
<1> QED BY <1>2, <1>7, <1>9, <1>10 DEF n, w

----------------------------------------------------------------------------
(* The descriptors of pipe_fd_table, and how many there can be *)

Unique(table) ==
  \A entry, other \in table : entry.pid = other.pid /\ entry.fd = other.fd => entry = other

Ends(table, id, reading) == {entry \in table : entry.pipe_id = id /\ entry.allow_rd = reading}

\* The counters of a pipe do not wrap around.
LEMMA EndsBounded ==
  ASSUME NEW table \in SUBSET PipeFds, Unique(table), NEW id, NEW reading
  PROVE  /\ IsFiniteSet(Ends(table, id, reading))
         /\ Cardinality(Ends(table, id, reading)) \in 0 .. UINT - 1
<1> DEFINE ends == Ends(table, id, reading)
           places == Pids \X FDs
           f == [entry \in ends |-> <<entry.pid, entry.fd>>]
           slots == MAX_PROCESSES * MAX_FDS
<1>1. f \in Injection(ends, places)
  <2>1. f \in [ends -> places]
    BY DEF Ends, PipeFds
  <2>2. ASSUME NEW a \in ends, NEW b \in ends, f[a] = f[b] PROVE a = b
    <3>1. a \in table /\ b \in table /\ a.pid = b.pid /\ a.fd = b.fd
      BY <2>2 DEF Ends
    <3> QED BY <3>1 DEF Unique
  <2>3. IsInjective(f)
    <3> HIDE DEF ends
    <3>1. DOMAIN f = ends
      OBVIOUS
    <3> HIDE DEF f
    <3> QED BY <3>1, <2>2 DEF IsInjective
  <2> HIDE DEF f, ends, places
  <2> QED BY <2>1, <2>3 DEF Injection
<1>2. IsFiniteSet(places) /\ Cardinality(places) = slots
  BY ConstantFacts, FS_Product
<1> HIDE DEF f, places, ends
<1>3. IsFiniteSet(ends) /\ Cardinality(ends) <= slots
  BY <1>1, <1>2, FS_Injection
<1>4. Cardinality(ends) \in Nat
  BY <1>3, FS_CardinalityType
<1>5. slots \in Nat /\ slots < UINT /\ UINT \in Nat
  <2>1. slots \in Nat
    BY ConstantFacts
  <2>2. 2 * slots < UINT
    BY ConstantFacts
  <2> HIDE DEF slots
  <2> QED BY <2>1, <2>2, ConstantFacts
<1> HIDE DEF slots
<1>6. Cardinality(ends) \in 0 .. UINT - 1
  BY <1>3, <1>4, <1>5
<1> QED BY <1>3, <1>6 DEF ends

LEMMA EndAddedTo ==
  ASSUME NEW table \in SUBSET PipeFds, NEW entry \in PipeFds, entry \notin table,
         Unique(table \cup {entry}), NEW id, NEW reading
  PROVE  /\ entry.pipe_id = id /\ entry.allow_rd = reading =>
              Cardinality(Ends(table \cup {entry}, id, reading)) =
                (Cardinality(Ends(table, id, reading)) + 1) % UINT
         /\ ~(entry.pipe_id = id /\ entry.allow_rd = reading) =>
              Cardinality(Ends(table \cup {entry}, id, reading)) =
                Cardinality(Ends(table, id, reading))
<1> PICK n : n = Cardinality(Ends(table, id, reading))
  OBVIOUS
<1> DEFINE old == Ends(table, id, reading)
           new == Ends(table \cup {entry}, id, reading)
<1>1. Unique(table)
  BY DEF Unique
<1>2. IsFiniteSet(old) /\ n \in 0 .. UINT - 1
  BY <1>1, EndsBounded
<1>3. Cardinality(new) \in 0 .. UINT - 1
  <2> DEFINE t == table \cup {entry}
  <2>1. t \in SUBSET PipeFds /\ Unique(t)
    OBVIOUS
  <2> HIDE DEF t
  <2>2. Cardinality(Ends(t, id, reading)) \in 0 .. UINT - 1
    BY <2>1, EndsBounded
  <2> QED BY <2>2 DEF t
<1>4. CASE entry.pipe_id = id /\ entry.allow_rd = reading
  <2>1. new = old \cup {entry} /\ entry \notin old
    BY <1>4 DEF Ends
  <2> HIDE DEF old, new
  <2>2. Cardinality(new) = Cardinality(old) + 1
    BY <1>2, <2>1, FS_AddElement
  <2>3. Cardinality(new) = n + 1
    BY <2>2 DEF old
  <2>4. n + 1 \in 0 .. UINT - 1
    BY <1>3, <2>3
  <2>5. (n + 1) % UINT = n + 1
    BY <1>2, <2>4, ConstantFacts
  <2> QED BY <1>4, <2>3, <2>5 DEF new
<1>5. CASE ~(entry.pipe_id = id /\ entry.allow_rd = reading)
  <2>1. new = old
    BY <1>5 DEF Ends
  <2> QED BY <1>5, <2>1
<1> QED BY <1>4, <1>5

LEMMA EndAdded ==
  ASSUME NEW table \in SUBSET PipeFds, NEW entry \in PipeFds, entry \notin table,
         Unique(table \cup {entry}), NEW id, entry.pipe_id = id
  PROVE  /\ entry.allow_rd =>
              /\ Cardinality(Ends(table \cup {entry}, id, TRUE)) =
                   (Cardinality(Ends(table, id, TRUE)) + 1) % UINT
              /\ Cardinality(Ends(table \cup {entry}, id, FALSE)) = Cardinality(Ends(table, id, FALSE))
         /\ ~entry.allow_rd =>
              /\ Cardinality(Ends(table \cup {entry}, id, TRUE)) = Cardinality(Ends(table, id, TRUE))
              /\ Cardinality(Ends(table \cup {entry}, id, FALSE)) =
                   (Cardinality(Ends(table, id, FALSE)) + 1) % UINT
<1>0. TRUE \in BOOLEAN /\ FALSE \in BOOLEAN
  OBVIOUS
<1>1. ASSUME NEW reading \in BOOLEAN
      PROVE  /\ entry.allow_rd = reading =>
                  Cardinality(Ends(table \cup {entry}, id, reading)) =
                    (Cardinality(Ends(table, id, reading)) + 1) % UINT
             /\ entry.allow_rd # reading =>
                  Cardinality(Ends(table \cup {entry}, id, reading)) = Cardinality(Ends(table, id, reading))
  BY EndAddedTo
<1>2. /\ entry.allow_rd = TRUE =>
           Cardinality(Ends(table \cup {entry}, id, TRUE)) =
             (Cardinality(Ends(table, id, TRUE)) + 1) % UINT
      /\ entry.allow_rd # TRUE =>
           Cardinality(Ends(table \cup {entry}, id, TRUE)) = Cardinality(Ends(table, id, TRUE))
      /\ entry.allow_rd = FALSE =>
           Cardinality(Ends(table \cup {entry}, id, FALSE)) =
             (Cardinality(Ends(table, id, FALSE)) + 1) % UINT
      /\ entry.allow_rd # FALSE =>
           Cardinality(Ends(table \cup {entry}, id, FALSE)) = Cardinality(Ends(table, id, FALSE))
  BY <1>0, <1>1
<1>3. entry.allow_rd \in BOOLEAN
  BY DEF PipeFds
<1>4. CASE entry.allow_rd
  BY <1>2, <1>4
<1>5. CASE ~entry.allow_rd
  BY <1>2, <1>3, <1>5
<1> QED BY <1>4, <1>5, Zenon

LEMMA EndRemovedFrom ==
  ASSUME NEW table \in SUBSET PipeFds, Unique(table), NEW entry \in table,
         NEW id, NEW reading
  PROVE  /\ entry.pipe_id = id /\ entry.allow_rd = reading =>
              Cardinality(Ends(table \ {entry}, id, reading)) =
                (Cardinality(Ends(table, id, reading)) - 1) % UINT
         /\ ~(entry.pipe_id = id /\ entry.allow_rd = reading) =>
              Cardinality(Ends(table \ {entry}, id, reading)) =
                Cardinality(Ends(table, id, reading))
<1> PICK n : n = Cardinality(Ends(table, id, reading))
  OBVIOUS
<1> DEFINE old == Ends(table, id, reading)
           new == Ends(table \ {entry}, id, reading)
<1>1. IsFiniteSet(old) /\ n \in 0 .. UINT - 1
  BY EndsBounded
<1>2. CASE entry.pipe_id = id /\ entry.allow_rd = reading
  <2>1. new = old \ {entry} /\ entry \in old
    BY <1>2 DEF Ends
  <2> HIDE DEF old, new
  <2>2. Cardinality(new) = Cardinality(old) - 1 /\ IsFiniteSet(new)
    BY <1>1, <2>1, FS_RemoveElement
  <2>3. Cardinality(new) \in Nat
    BY <2>2, FS_CardinalityType
  <2>4. Cardinality(new) = n - 1
    BY <2>2 DEF old
  <2>5. (n - 1) % UINT = n - 1
    BY <1>1, <2>3, <2>4, ConstantFacts
  <2> QED BY <1>2, <2>4, <2>5 DEF new
<1>3. CASE ~(entry.pipe_id = id /\ entry.allow_rd = reading)
  <2>1. new = old
    BY <1>3 DEF Ends
  <2> QED BY <1>3, <2>1
<1> QED BY <1>2, <1>3

LEMMA EndRemoved ==
  ASSUME NEW table \in SUBSET PipeFds, Unique(table), NEW entry \in table, NEW id, entry.pipe_id = id
  PROVE  /\ entry.allow_rd =>
              /\ Cardinality(Ends(table \ {entry}, id, TRUE)) =
                   (Cardinality(Ends(table, id, TRUE)) - 1) % UINT
              /\ Cardinality(Ends(table \ {entry}, id, FALSE)) = Cardinality(Ends(table, id, FALSE))
         /\ ~entry.allow_rd =>
              /\ Cardinality(Ends(table \ {entry}, id, TRUE)) = Cardinality(Ends(table, id, TRUE))
              /\ Cardinality(Ends(table \ {entry}, id, FALSE)) =
                   (Cardinality(Ends(table, id, FALSE)) - 1) % UINT
<1>0. TRUE \in BOOLEAN /\ FALSE \in BOOLEAN
  OBVIOUS
<1>1. ASSUME NEW reading \in BOOLEAN
      PROVE  /\ entry.allow_rd = reading =>
                  Cardinality(Ends(table \ {entry}, id, reading)) =
                    (Cardinality(Ends(table, id, reading)) - 1) % UINT
             /\ entry.allow_rd # reading =>
                  Cardinality(Ends(table \ {entry}, id, reading)) = Cardinality(Ends(table, id, reading))
  BY EndRemovedFrom
<1>2. /\ entry.allow_rd = TRUE =>
           Cardinality(Ends(table \ {entry}, id, TRUE)) =
             (Cardinality(Ends(table, id, TRUE)) - 1) % UINT
      /\ entry.allow_rd # TRUE =>
           Cardinality(Ends(table \ {entry}, id, TRUE)) = Cardinality(Ends(table, id, TRUE))
      /\ entry.allow_rd = FALSE =>
           Cardinality(Ends(table \ {entry}, id, FALSE)) =
             (Cardinality(Ends(table, id, FALSE)) - 1) % UINT
      /\ entry.allow_rd # FALSE =>
           Cardinality(Ends(table \ {entry}, id, FALSE)) = Cardinality(Ends(table, id, FALSE))
  BY <1>0, <1>1
<1>3. entry.allow_rd \in BOOLEAN
  BY DEF PipeFds
<1>4. CASE entry.allow_rd
  BY <1>2, <1>4
<1>5. CASE ~entry.allow_rd
  BY <1>2, <1>3, <1>5
<1> QED BY <1>4, <1>5, Zenon

\* A pipe with neither readers nor writers has no descriptors.
LEMMA NoEndsLeft ==
  ASSUME NEW table \in SUBSET PipeFds, Unique(table), NEW id,
         Cardinality(Ends(table, id, TRUE)) = 0, Cardinality(Ends(table, id, FALSE)) = 0
  PROVE  \A entry \in table : entry.pipe_id # id
<1>1. TRUE \in BOOLEAN /\ FALSE \in BOOLEAN
  OBVIOUS
<1>2. ASSUME NEW reading \in BOOLEAN, Cardinality(Ends(table, id, reading)) = 0
      PROVE  Ends(table, id, reading) = {}
  <2>1. IsFiniteSet(Ends(table, id, reading))
    BY EndsBounded
  <2> DEFINE ends == Ends(table, id, reading)
  <2> HIDE DEF ends
  <2>2. ends = {}
    BY <1>2, <2>1, FS_EmptySet DEF ends
  <2> QED BY <2>2 DEF ends
<1>3. Ends(table, id, TRUE) = {} /\ Ends(table, id, FALSE) = {}
  BY <1>1, <1>2
<1>4. ASSUME NEW entry \in table, entry.pipe_id = id PROVE FALSE
  <2>1. entry.allow_rd = TRUE \/ entry.allow_rd = FALSE
    BY DEF PipeFds
  <2> QED BY <1>3, <1>4, <2>1 DEF Ends
<1> QED BY <1>4

----------------------------------------------------------------------------
(* The inductive invariant *)

Typed ==
  /\ live \subseteq Pids
  /\ fds \in [Pids -> [FDs -> {"none", "device", "pipe"}]]
  /\ DOMAIN pipes \subseteq PipeIds /\ pipes \in [DOMAIN pipes -> PipeInfo]
  /\ pipe_fd_table \subseteq PipeFds
  /\ waiting \in [Contexts -> {NONE} \cup Calls \cup Closes]
  /\ waiting[KERNEL_PROC_PID] \notin Calls
  /\ closing \in {NONE} \cup Closes \cup [op : {"die"}, pid : Pids]

HasEntry(pid, fd) == \E entry \in pipe_fd_table : entry.pid = pid /\ entry.fd = fd

Table ==
  /\ \A entry \in pipe_fd_table :
       /\ entry.allow_wr = ~entry.allow_rd
       /\ entry.pipe_id \in DOMAIN pipes
       /\ entry.pid \in live /\ fds[entry.pid][entry.fd] = "pipe"
  /\ Unique(pipe_fd_table)

Counted ==
  \A id \in DOMAIN pipes :
    /\ pipes[id].readers = Cardinality(Ends(pipe_fd_table, id, TRUE))
    /\ pipes[id].writers = Cardinality(Ends(pipe_fd_table, id, FALSE))

\* Whoever is in the middle of a call has a context; a process that was killed while
\* it ran is still being torn down; and a process closes one descriptor at a time.
Slots ==
  /\ \A pid \in Pids : IsActive(sch, pid) => pid \in live
  /\ \A pid \in Pids \ live, fd \in FDs : fds[pid][fd] # "pipe"
  /\ \A pid \in Pids : waiting[pid] # NONE => IsActive(sch, pid)
  /\ sch.current = KILLED_PROC_PID => closing.op = "die" \/ (closing.op = "close" /\ closing.dying)
  /\ closing # NONE /\ sch.current \in Contexts => waiting[sch.current] = NONE

\* c is a close of the descriptor that has counted it off.
Closing(c, pid, fd) == c.op = "close" /\ c.step # "close" /\ c.pid = pid /\ c.fd = fd

SomeClose(pid, fd) ==
  Closing(closing, pid, fd) \/ \E k \in Contexts : Closing(waiting[k], pid, fd)

Mapped ==
  \A pid \in live, fd \in FDs :
    fds[pid][fd] = "pipe" /\ IsActive(sch, pid) => SomeClose(pid, fd) \/ HasEntry(pid, fd)

\* How far a close is says whether the descriptor still has its PipeFd; those of a dying
\* process are closed in order.
CloseInv(c) ==
  /\ c.pid \in live /\ fds[c.pid][c.fd] = "pipe"
  /\ c.step = "close" <=> HasEntry(c.pid, c.fd)
  /\ c.step = "eof" => c.pipe \in DOMAIN pipes
  /\ c.dying =>
       /\ ~IsActive(sch, c.pid)
       /\ \A fd \in FDs : fds[c.pid][fd] = "pipe" => fd = c.fd \/ (fd > c.fd /\ HasEntry(c.pid, fd))

Apart(c, d) == c.pid = d.pid => ~c.dying /\ ~d.dying /\ c.fd # d.fd

ClosingInv ==
  /\ closing.op = "close" => CloseInv(closing)
  /\ closing.op = "die" =>
       /\ closing.pid \in live /\ ~IsActive(sch, closing.pid)
       /\ \A fd \in FDs : fds[closing.pid][fd] # "pipe"

WaitingCloses ==
  \A k \in Contexts : waiting[k].op = "close" =>
    /\ CloseInv(waiting[k]) /\ waiting[k].step = "eof"
    /\ closing.op = "close" => Apart(waiting[k], closing)
    /\ closing.op = "die" => waiting[k].pid # closing.pid
    /\ \A l \in Contexts \ {k} : waiting[l].op = "close" => Apart(waiting[k], waiting[l])

WellAsleep(pid) ==
  LET p == pipes[waiting[pid].pipe]
  IN  IF waiting[pid].op = "read"
      THEN p.bytes_to_read = 0 /\ pid \in Range(p.rd_q)
      ELSE p.bytes_to_read = BUFFER_MAX_SIZE /\ pid \in Range(p.wr_q)

Mark(c, pid) == c.op = "close" /\ c.pid = pid /\ c.step = "eof"

SomeMark(pid) == Mark(closing, pid) \/ \E k \in Contexts : Mark(waiting[k], pid)

\* write_callback has blocked it because the mark of a descriptor of its does not fit.
BlockedForMark(pid) ==
  /\ 0 \in DOMAIN pipes /\ pipes[0].bytes_to_read = BUFFER_MAX_SIZE /\ pid \in Range(pipes[0].wr_q)
  /\ SomeMark(pid)

Sleepers ==
  \A pid \in Pids : waiting[pid].op \in {"read", "write"} =>
    /\ waiting[pid].pipe \in DOMAIN pipes
    /\ Asleep(sch, pid) => WellAsleep(pid) \/ BlockedForMark(pid)

Good ==
  /\ SchInv(sch) /\ Typed /\ Table /\ Counted /\ Slots /\ Mapped
  /\ ClosingInv /\ WaitingCloses /\ Sleepers

IInv == stray \in BOOLEAN /\ (~stray => Good)

----------------------------------------------------------------------------

LEMMA WhatFacts ==
  /\ NONE.op = "none"
  /\ \A w \in {NONE} \cup Calls \cup Closes :
       /\ w = NONE <=> w.op = "none"
       /\ w.op = "close" => w \in Closes
       /\ w.op \in {"read", "write"} => w \in Calls /\ w.pipe \in PipeIds
       /\ w.op = "read" => w.count \in Counts
       /\ w.op = "write" => w.data \in Seq(Bytes)
       /\ w.op = "waitpid" => w \in Calls /\ w.pid \in Pids
       /\ w.op \in {"none", "read", "write", "waitpid", "keyboard", "close"}
  /\ \A w \in {NONE} \cup Closes \cup [op : {"die"}, pid : Pids] :
       /\ w = NONE <=> w.op = "none"
       /\ w.op = "close" => w \in Closes
       /\ w.op = "die" => w.pid \in Pids
       /\ w.op \in {"none", "die", "close"}
  /\ \A w \in Closes :
       /\ w.op = "close" /\ w \notin Calls /\ w # NONE
       /\ w.pid \in Pids /\ w.fd \in FDs /\ w.dying \in BOOLEAN
       /\ w.step \in {"close", "eof", "finish"} /\ w.pipe \in PipeIds \cup {NULL}
<1>1. /\ NONE.op = "none"
      /\ \A w \in Calls : w.op \in {"read", "write", "waitpid", "keyboard"}
      /\ \A w \in Closes : w.op = "close"
  BY DEF NONE, Calls, Closes
<1>2. \A w \in Calls :
        /\ w.op \in {"read", "write"} => w.pipe \in PipeIds
        /\ w.op = "read" => w.count \in Counts
        /\ w.op = "write" => w.data \in Seq(Bytes)
        /\ w.op = "waitpid" => w.pid \in Pids
  BY DEF Calls
<1>3. \A w \in Closes :
        /\ w.pid \in Pids /\ w.fd \in FDs /\ w.dying \in BOOLEAN
        /\ w.step \in {"close", "eof", "finish"} /\ w.pipe \in PipeIds \cup {NULL}
  BY DEF Closes
<1>4. \A w \in [op : {"die"}, pid : Pids] : w.op = "die" /\ w.pid \in Pids
  OBVIOUS
<1> QED BY <1>1, <1>2, <1>3, <1>4

LEMMA CallFacts ==
  /\ \A id \in PipeIds, count \in Counts :
       LET w == [op |-> "read", pipe |-> id, count |-> count]
       IN  w \in Calls /\ w.op = "read" /\ w.pipe = id
  /\ \A id \in PipeIds, data \in Seq(Bytes) :
       LET w == [op |-> "write", pipe |-> id, data |-> data]
       IN  w \in Calls /\ w.op = "write" /\ w.pipe = id
  /\ \A pid \in Pids :
       LET w == [op |-> "waitpid", pid |-> pid] IN w \in Calls /\ w.op = "waitpid"
  /\ LET w == [op |-> "keyboard"] IN w \in Calls /\ w.op = "keyboard"
BY DEF Calls

LEMMA CloseOfFacts ==
  ASSUME NEW pid \in Pids, NEW fd \in FDs, NEW dying \in BOOLEAN, NEW c, c = CloseOf(pid, fd, dying)
  PROVE  /\ c \in Closes /\ c.op = "close" /\ c.pid = pid /\ c.fd = fd /\ c.dying = dying
         /\ c.step = "close"
BY DEF CloseOf, Closes

LEMMA TypedFacts ==
  ASSUME Typed
  PROVE  /\ \A id \in DOMAIN pipes : pipes[id] \in PipeInfo /\ id \in PipeIds
         /\ \A id \in DOMAIN pipes :
              /\ pipes[id].rd_q \in Seq(Pids) /\ pipes[id].wr_q \in Seq(Pids)
              /\ pipes[id].rd_q \in Seq(Int) /\ pipes[id].wr_q \in Seq(Int)
         /\ \A k \in Contexts : waiting[k] \in {NONE} \cup Calls \cup Closes
<1>1. \A id \in DOMAIN pipes : pipes[id] \in PipeInfo /\ id \in PipeIds
  BY DEF Typed
<1>2. \A id \in DOMAIN pipes : pipes[id].rd_q \in Seq(Pids) /\ pipes[id].wr_q \in Seq(Pids)
  BY <1>1 DEF PipeInfo
<1>3. Pids \subseteq Int
  BY ConstantFacts
<1>4. \A id \in DOMAIN pipes : pipes[id].rd_q \in Seq(Int) /\ pipes[id].wr_q \in Seq(Int)
  BY <1>2, <1>3, SeqMonotonic
<1> QED BY <1>1, <1>2, <1>4 DEF Typed

LEMMA SleepFacts ==
  ASSUME NEW s, SchInv(s), NEW pid \in Pids, NEW what, Sleep(s, pid, what)
  PROVE  /\ SchInv(sch') /\ sch'.rsp = s.rsp /\ sch'.current \in Contexts
         /\ \A q \in Pids : Asleep(sch', q) <=> Asleep(s, q) \/ (q = pid /\ IsActive(s, q))
<1> DEFINE t == SchBlock(s, pid)
<1>1. SchYield(t, sch')
  BY DEF Sleep
<1>2. /\ SchInv(t) /\ t.rsp = s.rsp
      /\ \A q \in Pids : Asleep(t, q) <=> Asleep(s, q) \/ (q = pid /\ IsActive(s, q))
  <2>1. pid \in Int
    BY ConstantFacts
  <2> QED BY <2>1, BlockFacts
<1> HIDE DEF t
<1>3. /\ SchInv(sch') /\ sch'.rsp = t.rsp /\ sch'.current \in Contexts
      /\ \A q \in Pids : Asleep(sch', q) <=> Asleep(t, q)
  BY <1>1, <1>2, YieldFacts
<1> QED BY <1>2, <1>3

\* Whoever slept in a read or write before sleeps as well after the step.
LEMMA SleepersKept ==
  ASSUME Good, NEW me,
         \A q \in Pids : q # me /\ waiting'[q].op \in {"read", "write"} =>
           /\ waiting'[q] = waiting[q] /\ waiting[q].pipe \in DOMAIN pipes'
           /\ Asleep(sch', q) => Asleep(sch, q),
         \A q \in Pids : q # me /\ Asleep(sch', q) /\ BlockedForMark(q) => 0 \in DOMAIN pipes' /\ SomeMark(q)',
         \A id \in DOMAIN pipes, q \in Pids : id \in DOMAIN pipes' /\ q # me /\ Asleep(sch', q) =>
           /\ pipes[id].bytes_to_read = 0 /\ q \in Range(pipes[id].rd_q)
                => pipes'[id].bytes_to_read = 0 /\ q \in Range(pipes'[id].rd_q)
           /\ pipes[id].bytes_to_read = BUFFER_MAX_SIZE /\ q \in Range(pipes[id].wr_q)
                => pipes'[id].bytes_to_read = BUFFER_MAX_SIZE /\ q \in Range(pipes'[id].wr_q),
         me \in Pids /\ waiting'[me].op \in {"read", "write"} =>
           /\ waiting'[me].pipe \in DOMAIN pipes'
           /\ Asleep(sch', me) => WellAsleep(me)' \/ BlockedForMark(me)'
  PROVE  Sleepers'
<1> SUFFICES ASSUME NEW q \in Pids, waiting'[q].op \in {"read", "write"}
             PROVE  /\ waiting'[q].pipe \in DOMAIN pipes'
                    /\ Asleep(sch', q) => WellAsleep(q)' \/ BlockedForMark(q)'
  BY DEF Sleepers
<1>1. CASE q = me
  BY <1>1
<1>2. CASE q # me
  <2>1. waiting'[q] = waiting[q] /\ waiting[q].pipe \in DOMAIN pipes'
    BY <1>2
  <2>2. ASSUME Asleep(sch', q) PROVE WellAsleep(q)' \/ BlockedForMark(q)'
    <3>1. Asleep(sch, q) /\ waiting[q].op \in {"read", "write"}
      BY <1>2, <2>1, <2>2
    <3>2. waiting[q].pipe \in DOMAIN pipes /\ (WellAsleep(q) \/ BlockedForMark(q))
      BY <3>1 DEF Good, Sleepers
    <3>3. CASE WellAsleep(q)
      BY <1>2, <2>1, <2>2, <3>2, <3>3 DEF WellAsleep
    <3>4. CASE BlockedForMark(q)
      <4>1. 0 \in DOMAIN pipes /\ pipes[0].bytes_to_read = BUFFER_MAX_SIZE /\ q \in Range(pipes[0].wr_q)
        BY <3>4 DEF BlockedForMark
      <4>2. 0 \in DOMAIN pipes' /\ SomeMark(q)'
        BY <1>2, <2>2, <3>4
      <4>3. pipes'[0].bytes_to_read = BUFFER_MAX_SIZE /\ q \in Range(pipes'[0].wr_q)
        BY <1>2, <2>2, <4>1, <4>2
      <4> QED BY <4>2, <4>3 DEF BlockedForMark
    <3> QED BY <3>2, <3>3, <3>4
  <2> QED BY <2>1, <2>2
<1> QED BY <1>1, <1>2

\* Descriptors and closes are left alone.
LEMMA QuietStepKeepsGood ==
  ASSUME Good, closing = NONE, closing' = closing, fds' = fds, pipe_fd_table' = pipe_fd_table,
         live \subseteq live', SchInv(sch'), Typed', Sleepers',
         \A pid \in Pids :
           /\ IsActive(sch, pid) => IsActive(sch', pid)
           /\ IsActive(sch', pid) => IsActive(sch, pid) \/ pid \in live' \ live,
         sch'.current # KILLED_PROC_PID,
         \A q \in Pids : waiting'[q] = NONE \/ waiting'[q] = waiting[q] \/ IsActive(sch, q),
         \A id \in DOMAIN pipes' :
           /\ id \in DOMAIN pipes
           /\ pipes'[id].readers = pipes[id].readers /\ pipes'[id].writers = pipes[id].writers,
         \A entry \in pipe_fd_table : entry.pipe_id \in DOMAIN pipes',
         \A k \in Contexts : waiting[k].op = "close" \/ waiting'[k].op = "close" =>
           waiting'[k] = waiting[k] /\ waiting[k].pipe \in DOMAIN pipes'
  PROVE  Good'
<1> USE DEF Good
<1>1. Table'
  BY DEF Table
<1>2. Counted'
  BY DEF Counted
<1>3. live' \subseteq Pids
  BY DEF Typed
<1>4. Slots'
  <2>1. \A pid \in Pids : IsActive(sch', pid) => pid \in live'
    BY DEF Slots
  <2>2. \A pid \in Pids \ live', fd \in FDs : fds'[pid][fd] # "pipe"
    BY DEF Slots
  <2>3. \A pid \in Pids : waiting'[pid] # NONE => IsActive(sch', pid)
    BY DEF Slots
  <2>4. closing' = NONE
    OBVIOUS
  <2> QED BY <2>1, <2>2, <2>3, <2>4 DEF Slots
<1>5. Mapped'
  <2> SUFFICES ASSUME NEW pid \in live', NEW fd \in FDs, fds'[pid][fd] = "pipe", IsActive(sch', pid)
               PROVE  SomeClose(pid, fd)' \/ HasEntry(pid, fd)'
    BY DEF Mapped
  <2>1. pid \in live /\ IsActive(sch, pid)
    BY <1>3 DEF Slots
  <2>2. SomeClose(pid, fd) \/ HasEntry(pid, fd)
    BY <2>1 DEF Mapped
  <2>3. HasEntry(pid, fd) => HasEntry(pid, fd)'
    BY DEF HasEntry
  <2>4. ~Closing(closing, pid, fd)
    BY WhatFacts DEF Closing
  <2>5. SomeClose(pid, fd) => SomeClose(pid, fd)'
    BY <2>4 DEF SomeClose, Closing
  <2> QED BY <2>2, <2>3, <2>5
<1>6. ClosingInv'
  BY WhatFacts DEF ClosingInv
<1>7. WaitingCloses'
  <2> SUFFICES ASSUME NEW k \in Contexts, waiting'[k].op = "close"
               PROVE  /\ CloseInv(waiting[k])' /\ waiting'[k].step = "eof"
                      /\ closing'.op = "none"
                      /\ \A l \in Contexts \ {k} :
                           waiting'[l].op = "close" => Apart(waiting'[k], waiting'[l])
    BY DEF WaitingCloses, Apart
  <2>1. /\ waiting'[k] = waiting[k] /\ waiting[k].pipe \in DOMAIN pipes' /\ waiting[k].op = "close"
        /\ CloseInv(waiting[k]) /\ waiting[k].step = "eof"
    BY DEF WaitingCloses
  <2>2. waiting[k].pid \in live /\ waiting[k].pid \in Pids
    BY <2>1 DEF CloseInv, Typed
  <2>3. CloseInv(waiting[k])'
    <3> DEFINE c == waiting[k]
    <3>1. c.pid \in live' /\ fds'[c.pid][c.fd] = "pipe"
      BY <2>1 DEF CloseInv
    <3>2. \A fd \in FDs : HasEntry(c.pid, fd) <=> \E entry \in pipe_fd_table' : entry.pid = c.pid /\ entry.fd = fd
      BY DEF HasEntry
    <3>3. IsActive(sch', c.pid) => IsActive(sch, c.pid)
      BY <2>2
    <3> QED BY <2>1, <3>1, <3>3 DEF CloseInv, HasEntry
  <2>4. closing'.op = "none"
    BY WhatFacts
  <2>5. \A l \in Contexts \ {k} : waiting'[l].op = "close" => Apart(waiting'[k], waiting'[l])
    BY <2>1 DEF WaitingCloses
  <2> QED BY <2>1, <2>3, <2>4, <2>5
<1> QED BY <1>1, <1>2, <1>4, <1>5, <1>6, <1>7

----------------------------------------------------------------------------
(* read and write *)

LEMMA CurrentFacts ==
  ASSUME Good
  PROVE  /\ SchInv(sch) /\ sch.current \in Contexts \cup {KILLED_PROC_PID}
         /\ \A pid \in Pids : pid = sch.current => IsActive(sch, pid)
         /\ closing = NONE => sch.current # KILLED_PROC_PID
<1>1. SchInv(sch) /\ sch.current \in Contexts \cup {KILLED_PROC_PID}
  BY DEF Good, SchInv, SchStates
<1>2. \A pid \in Pids : pid = sch.current => IsActive(sch, pid)
  BY <1>1 DEF SchInv, ContextsKept
<1>3. closing = NONE => sch.current # KILLED_PROC_PID
  BY WhatFacts DEF Good, Slots
<1> QED BY <1>1, <1>2, <1>3

LEMMA PipeUpdated ==
  ASSUME Typed, NEW id \in DOMAIN pipes, NEW q \in PipeInfo, pipes' = [pipes EXCEPT ![id] = q]
  PROVE  /\ DOMAIN pipes' = DOMAIN pipes /\ DOMAIN pipes' \subseteq PipeIds
         /\ pipes' \in [DOMAIN pipes' -> PipeInfo] /\ pipes'[id] = q
         /\ \A other \in DOMAIN pipes : other # id => pipes'[other] = pipes[other]
BY DEF Typed

LEMMA QueueReplaced ==
  ASSUME NEW p \in PipeInfo, NEW queue \in Seq(Pids)
  PROVE  /\ LET r == [p EXCEPT !.rd_q = queue]
            IN  /\ r \in PipeInfo /\ r.rd_q = queue /\ r.wr_q = p.wr_q
                /\ r.bytes_to_read = p.bytes_to_read /\ r.name = p.name
                /\ r.readers = p.readers /\ r.writers = p.writers
         /\ LET w == [p EXCEPT !.wr_q = queue]
            IN  /\ w \in PipeInfo /\ w.wr_q = queue /\ w.rd_q = p.rd_q
                /\ w.bytes_to_read = p.bytes_to_read /\ w.name = p.name
                /\ w.readers = p.readers /\ w.writers = p.writers
<1>1. ASSUME NEW r, r = [p EXCEPT !.rd_q = queue]
      PROVE  /\ r \in PipeInfo /\ r.rd_q = queue /\ r.wr_q = p.wr_q
             /\ r.bytes_to_read = p.bytes_to_read /\ r.name = p.name
             /\ r.readers = p.readers /\ r.writers = p.writers
  BY <1>1 DEF PipeInfo, Size
<1>2. ASSUME NEW w, w = [p EXCEPT !.wr_q = queue]
      PROVE  /\ w \in PipeInfo /\ w.wr_q = queue /\ w.rd_q = p.rd_q
             /\ w.bytes_to_read = p.bytes_to_read /\ w.name = p.name
             /\ w.readers = p.readers /\ w.writers = p.writers
  BY <1>2 DEF PipeInfo, Size
<1> QED BY <1>1, <1>2

\* The caller reads or writes pipe id, which becomes q, and goes on or sleeps (what).
LEMMA RoundKeepsGood ==
  ASSUME Good, closing = NONE, UNCHANGED <<live, fds, pipe_fd_table, closing>>,
         NEW me \in Pids, IsActive(sch, me), waiting[me].op # "close",
         NEW what \in {NONE} \cup Calls, waiting' = [waiting EXCEPT ![me] = what],
         SchInv(sch'), sch'.rsp = sch.rsp, sch'.current # KILLED_PROC_PID,
         NEW id \in DOMAIN pipes, NEW q \in PipeInfo, pipes' = [pipes EXCEPT ![id] = q],
         q.readers = pipes[id].readers, q.writers = pipes[id].writers,
         \A x \in Pids : x # me /\ Asleep(sch', x) =>
           /\ Asleep(sch, x)
           /\ pipes[id].bytes_to_read = 0 /\ x \in Range(pipes[id].rd_q)
                => q.bytes_to_read = 0 /\ x \in Range(q.rd_q)
           /\ pipes[id].bytes_to_read = BUFFER_MAX_SIZE /\ x \in Range(pipes[id].wr_q)
                => q.bytes_to_read = BUFFER_MAX_SIZE /\ x \in Range(q.wr_q),
         what.op \in {"read", "write"} =>
           /\ what.pipe = id
           /\ IF what.op = "read" THEN q.bytes_to_read = 0 /\ me \in Range(q.rd_q)
              ELSE q.bytes_to_read = BUFFER_MAX_SIZE /\ me \in Range(q.wr_q)
  PROVE  Good'
<1>1. Typed /\ me \in Contexts /\ waiting \in [Contexts -> {NONE} \cup Calls \cup Closes]
  BY ConstantFacts DEF Good, Typed
<1>2. /\ DOMAIN pipes' = DOMAIN pipes /\ DOMAIN pipes' \subseteq PipeIds
      /\ pipes' \in [DOMAIN pipes' -> PipeInfo] /\ pipes'[id] = q
      /\ \A other \in DOMAIN pipes : other # id => pipes'[other] = pipes[other]
  BY <1>1, PipeUpdated
<1>3. \A k \in Contexts : waiting'[k] = IF k = me THEN what ELSE waiting[k]
  BY <1>1
<1>4. what.op # "close"
  BY WhatFacts DEF Calls
<1>5. \A k \in Contexts : waiting[k].op = "close" \/ waiting'[k].op = "close" =>
        waiting'[k] = waiting[k] /\ waiting[k].pipe \in DOMAIN pipes'
  <2> SUFFICES ASSUME NEW k \in Contexts, waiting[k].op = "close" \/ waiting'[k].op = "close"
               PROVE  waiting'[k] = waiting[k] /\ waiting[k].pipe \in DOMAIN pipes'
    OBVIOUS
  <2>1. k # me /\ waiting'[k] = waiting[k] /\ waiting[k].op = "close"
    BY <1>3, <1>4
  <2>2. waiting[k].pipe \in DOMAIN pipes
    BY <2>1 DEF Good, WaitingCloses, CloseInv
  <2> QED BY <1>2, <2>1, <2>2
<1>6. Typed'
  <2>1. waiting' \in [Contexts -> {NONE} \cup Calls \cup Closes]
    BY <1>1
  <2>2. waiting'[KERNEL_PROC_PID] \notin Calls
    BY <1>1, <1>3, ConstantFacts DEF Typed
  <2> QED BY <1>1, <1>2, <2>1, <2>2 DEF Typed
<1>7. Sleepers'
  <2>1. \A x \in Pids : x # me /\ waiting'[x].op \in {"read", "write"} =>
          /\ waiting'[x] = waiting[x] /\ waiting[x].pipe \in DOMAIN pipes'
          /\ Asleep(sch', x) => Asleep(sch, x)
    BY <1>2, <1>3, ConstantFacts DEF Good, Sleepers
  <2>2. \A x \in Pids : SomeMark(x) => SomeMark(x)'
    <3> SUFFICES ASSUME NEW x \in Pids, SomeMark(x) PROVE SomeMark(x)'
      OBVIOUS
    <3>1. ~Mark(closing, x)
      BY WhatFacts DEF Mark
    <3>2. PICK k \in Contexts : Mark(waiting[k], x)
      BY <3>1 DEF SomeMark
    <3>3. waiting'[k] = waiting[k]
      BY <1>5, <3>2 DEF Mark
    <3> QED BY <3>2, <3>3 DEF SomeMark, Mark
  <2>3. \A x \in Pids : x # me /\ Asleep(sch', x) /\ BlockedForMark(x) =>
          0 \in DOMAIN pipes' /\ SomeMark(x)'
    BY <1>2, <2>2 DEF BlockedForMark
  <2>4. \A other \in DOMAIN pipes, x \in Pids : other \in DOMAIN pipes' /\ x # me /\ Asleep(sch', x) =>
          /\ pipes[other].bytes_to_read = 0 /\ x \in Range(pipes[other].rd_q)
               => pipes'[other].bytes_to_read = 0 /\ x \in Range(pipes'[other].rd_q)
          /\ pipes[other].bytes_to_read = BUFFER_MAX_SIZE /\ x \in Range(pipes[other].wr_q)
               => pipes'[other].bytes_to_read = BUFFER_MAX_SIZE /\ x \in Range(pipes'[other].wr_q)
    BY <1>2
  <2>5. me \in Pids /\ waiting'[me].op \in {"read", "write"} =>
          waiting'[me].pipe \in DOMAIN pipes' /\ (Asleep(sch', me) => WellAsleep(me)')
    BY <1>1, <1>2, <1>3 DEF WellAsleep
  <2> QED BY <2>1, <2>3, <2>4, <2>5, SleepersKept
<1>8. \A pid \in Pids :
        /\ IsActive(sch, pid) => IsActive(sch', pid)
        /\ IsActive(sch', pid) => IsActive(sch, pid) \/ pid \in live' \ live
  BY DEF IsActive
<1>9. \A x \in Pids : waiting'[x] = NONE \/ waiting'[x] = waiting[x] \/ IsActive(sch, x)
  BY <1>3, ConstantFacts
<1>10. \A other \in DOMAIN pipes' :
         /\ other \in DOMAIN pipes
         /\ pipes'[other].readers = pipes[other].readers /\ pipes'[other].writers = pipes[other].writers
  BY <1>2
<1>11. \A entry \in pipe_fd_table : entry.pipe_id \in DOMAIN pipes'
  BY <1>2 DEF Good, Table
<1> QED BY <1>5, <1>6, <1>7, <1>8, <1>9, <1>10, <1>11, QuietStepKeepsGood

LEMMA ReadRoundKeepsGood ==
  ASSUME Good, closing = NONE, NEW me \in Pids, me = sch.current, waiting[me].op # "close",
         NEW id, NEW count \in Counts, ReadRound(me, id, count)
  PROVE  Good'
<1> DEFINE p == pipes[id]
           asleep == p.bytes_to_read = 0 /\ (p.name # NULL \/ p.writers > 0)
<1>1. /\ id \in DOMAIN pipes /\ id \in PipeIds /\ p \in PipeInfo
      /\ p.rd_q \in Seq(Pids) /\ p.wr_q \in Seq(Pids) /\ p.wr_q \in Seq(Int)
      /\ <<>> \in Seq(Pids)
      /\ UNCHANGED <<live, fds, pipe_fd_table, closing>>
  BY TypedFacts DEF ReadRound, Good
<1>2. SchInv(sch) /\ IsActive(sch, me) /\ sch.current # KILLED_PROC_PID /\ me \in Contexts
  BY CurrentFacts, ConstantFacts
<1>3. CASE asleep
  <2> DEFINE what == [op |-> "read", pipe |-> id, count |-> count]
             queue == Append(p.rd_q, me)
             q == [p EXCEPT !.rd_q = queue]
  <2>1. pipes' = [pipes EXCEPT ![id] = q] /\ Sleep(sch, me, what)
    BY <1>3 DEF ReadRound
  <2>2. queue \in Seq(Pids) /\ Range(queue) = Range(p.rd_q) \cup {me}
    BY <1>1, AppendFacts
  <2>3. what \in Calls /\ what.op = "read" /\ what.pipe = id
    BY <1>1, CallFacts
  <2>4. waiting' = [waiting EXCEPT ![me] = what]
    BY <1>2, <2>1 DEF Sleep
  <2> HIDE DEF what, queue
  <2>5. /\ q \in PipeInfo /\ q.rd_q = queue /\ q.wr_q = p.wr_q /\ q.bytes_to_read = p.bytes_to_read
        /\ q.readers = p.readers /\ q.writers = p.writers
    BY <1>1, <2>2, QueueReplaced
  <2> HIDE DEF q
  <2>6. /\ SchInv(sch') /\ sch'.rsp = sch.rsp /\ sch'.current \in Contexts
        /\ \A x \in Pids : Asleep(sch', x) <=> Asleep(sch, x) \/ (x = me /\ IsActive(sch, x))
    BY <1>2, <2>1, SleepFacts
  <2>7. sch'.current # KILLED_PROC_PID
    BY <2>6, ConstantFacts
  <2>8. p.bytes_to_read = 0
    BY <1>3
  <2>9. \A x \in Pids : x # me /\ Asleep(sch', x) =>
          /\ Asleep(sch, x)
          /\ pipes[id].bytes_to_read = 0 /\ x \in Range(pipes[id].rd_q)
               => q.bytes_to_read = 0 /\ x \in Range(q.rd_q)
          /\ pipes[id].bytes_to_read = BUFFER_MAX_SIZE /\ x \in Range(pipes[id].wr_q)
               => q.bytes_to_read = BUFFER_MAX_SIZE /\ x \in Range(q.wr_q)
    BY <2>2, <2>5, <2>6
  <2>10. what.op \in {"read", "write"} =>
           /\ what.pipe = id
           /\ IF what.op = "read" THEN q.bytes_to_read = 0 /\ me \in Range(q.rd_q)
              ELSE q.bytes_to_read = BUFFER_MAX_SIZE /\ me \in Range(q.wr_q)
    BY <2>2, <2>3, <2>5, <2>8
  <2> QED
    BY <1>1, <1>2, <2>1, <2>3, <2>4, <2>5, <2>6, <2>7, <2>9, <2>10, RoundKeepsGood
<1>4. CASE ~asleep
  <2> DEFINE r == ReadPipeBuffer(p, count)
             q == IF p.bytes_to_read = 0 THEN p ELSE [r EXCEPT !.wr_q = <<>>]
             s == QueueUnblockAll(sch, p.wr_q)
             none == NONE
  <2>1. /\ pipes' = IF p.bytes_to_read = 0 THEN pipes ELSE [pipes EXCEPT ![id] = [r EXCEPT !.wr_q = <<>>]]
        /\ sch' = IF p.bytes_to_read = 0 THEN sch ELSE s
        /\ waiting' = [waiting EXCEPT ![me] = none]
    BY <1>4 DEF ReadRound, WakeUp
  <2>2. none \in {NONE} \cup Calls /\ none.op = "none"
    BY WhatFacts
  <2>3. /\ r \in PipeInfo /\ r.readers = p.readers /\ r.writers = p.writers /\ r.rd_q = p.rd_q
    BY <1>1, ConstantFacts, ReadPipeBufferFacts
  <2>4. /\ SchInv(s) /\ s.rsp = sch.rsp /\ s.current = sch.current
        /\ \A x \in Pids : Asleep(s, x) <=> Asleep(sch, x) /\ x \notin Range(p.wr_q)
    BY <1>1, <1>2, UnblockAllFacts
  <2> HIDE DEF r, s, none
  <2>5. /\ q \in PipeInfo /\ q.readers = p.readers /\ q.writers = p.writers
    BY <1>1, <2>3, QueueReplaced
  <2>6. pipes' = [pipes EXCEPT ![id] = q]
    BY <1>1, <2>1 DEF Good, Typed
  <2>7. /\ SchInv(sch') /\ sch'.rsp = sch.rsp /\ sch'.current # KILLED_PROC_PID
    BY <1>2, <2>1, <2>4
  <2>8. \A x \in Pids : x # me /\ Asleep(sch', x) =>
          /\ Asleep(sch, x)
          /\ pipes[id].bytes_to_read = 0 /\ x \in Range(pipes[id].rd_q)
               => q.bytes_to_read = 0 /\ x \in Range(q.rd_q)
          /\ pipes[id].bytes_to_read = BUFFER_MAX_SIZE /\ x \in Range(pipes[id].wr_q)
               => q.bytes_to_read = BUFFER_MAX_SIZE /\ x \in Range(q.wr_q)
    <3>1. CASE p.bytes_to_read = 0
      BY <2>1, <3>1
    <3>2. CASE p.bytes_to_read # 0
      BY <2>1, <2>4, <3>2
    <3> QED BY <3>1, <3>2
  <2> HIDE DEF q
  <2> QED BY <1>1, <1>2, <2>1, <2>2, <2>5, <2>6, <2>7, <2>8, RoundKeepsGood
<1> QED BY <1>3, <1>4

LEMMA WriteRoundKeepsGood ==
  ASSUME Good, closing = NONE, NEW me \in Pids, me = sch.current, waiting[me].op # "close",
         NEW id, NEW data \in Seq(Bytes), WriteRound(me, id, data)
  PROVE  Good'
<1> DEFINE p == pipes[id]
           n == BytesWritten(p, data)
           w == WritePipeBuffer(p, data)
           written == IF n = 0 THEN w ELSE [w EXCEPT !.rd_q = <<>>]
           woken == IF n = 0 THEN sch ELSE QueueUnblockAll(sch, p.rd_q)
           none == NONE
<1>1. /\ id \in DOMAIN pipes /\ id \in PipeIds /\ p \in PipeInfo
      /\ p.rd_q \in Seq(Pids) /\ p.wr_q \in Seq(Pids) /\ p.rd_q \in Seq(Int)
      /\ <<>> \in Seq(Pids)
      /\ UNCHANGED <<live, fds, pipe_fd_table, closing>>
  BY TypedFacts DEF WriteRound, Good
<1>2. SchInv(sch) /\ IsActive(sch, me) /\ sch.current # KILLED_PROC_PID /\ me \in Contexts
  BY CurrentFacts, ConstantFacts
<1>3. /\ n \in 0 .. Len(data)
      /\ n < Len(data) => p.bytes_to_read + n = BUFFER_MAX_SIZE
      /\ w \in PipeInfo /\ w.bytes_to_read = p.bytes_to_read + n
      /\ w.readers = p.readers /\ w.writers = p.writers
      /\ w.rd_q = p.rd_q /\ w.wr_q = p.wr_q
  BY <1>1, WritePipeBufferFacts
<1>4. p.bytes_to_read \in Nat /\ p.bytes_to_read <= BUFFER_MAX_SIZE /\ BUFFER_MAX_SIZE \in Nat
      /\ w.bytes_to_read <= BUFFER_MAX_SIZE
  BY <1>1, <1>3, SizeFacts
<1>5. n \in Nat /\ Len(data) \in Nat
  BY <1>3, LenProperties
<1>6. /\ SchInv(woken) /\ woken.rsp = sch.rsp /\ woken.current = sch.current
      /\ \A x \in Pids : Asleep(woken, x) => Asleep(sch, x) /\ (n = 0 \/ x \notin Range(p.rd_q))
  <2> DEFINE s == QueueUnblockAll(sch, p.rd_q)
  <2>1. /\ SchInv(s) /\ s.rsp = sch.rsp /\ s.current = sch.current
        /\ \A x \in Pids : Asleep(s, x) <=> Asleep(sch, x) /\ x \notin Range(p.rd_q)
    BY <1>1, <1>2, UnblockAllFacts
  <2> HIDE DEF s, n
  <2> QED BY <1>2, <2>1 DEF s
<1>7. /\ written \in PipeInfo /\ written.bytes_to_read = p.bytes_to_read + n
      /\ written.readers = p.readers /\ written.writers = p.writers /\ written.wr_q = p.wr_q
      /\ n = 0 => written.rd_q = p.rd_q
  <2> HIDE DEF n, w, p
  <2> QED BY <1>1, <1>3, QueueReplaced
<1>8. WriteRound(me, id, data) =>
        IF n = Len(data)
        THEN /\ pipes' = [pipes EXCEPT ![id] = written]
             /\ sch' = woken
             /\ waiting' = [waiting EXCEPT ![me] = none]
        ELSE /\ pipes' = [pipes EXCEPT ![id] = [written EXCEPT !.wr_q = Append(@, me)]]
             /\ Sleep(woken, me, [op |-> "write", pipe |-> id, data |-> SubSeq(data, n + 1, Len(data))])
  BY DEF WriteRound, WakeUp
<1> HIDE DEF w, written, woken, n, none
<1>9. CASE n = Len(data)
  <2>1. /\ pipes' = [pipes EXCEPT ![id] = written] /\ sch' = woken
        /\ waiting' = [waiting EXCEPT ![me] = none]
    BY <1>8, <1>9
  <2>2. none \in {NONE} \cup Calls /\ none.op = "none"
    BY WhatFacts DEF none
  <2>3. \A x \in Pids : x # me /\ Asleep(sch', x) =>
          /\ Asleep(sch, x)
          /\ pipes[id].bytes_to_read = 0 /\ x \in Range(pipes[id].rd_q)
               => written.bytes_to_read = 0 /\ x \in Range(written.rd_q)
          /\ pipes[id].bytes_to_read = BUFFER_MAX_SIZE /\ x \in Range(pipes[id].wr_q)
               => written.bytes_to_read = BUFFER_MAX_SIZE /\ x \in Range(written.wr_q)
    <3>1. written.bytes_to_read <= BUFFER_MAX_SIZE
      BY <1>3, <1>4, <1>7
    <3> QED BY <1>4, <1>5, <1>6, <1>7, <2>1, <3>1
  <2>4. SchInv(sch') /\ sch'.rsp = sch.rsp /\ sch'.current # KILLED_PROC_PID
    BY <1>2, <1>6, <2>1
  <2> QED BY <1>1, <1>2, <1>7, <2>1, <2>2, <2>3, <2>4, RoundKeepsGood
<1>10. CASE n # Len(data)
  <2> DEFINE rest == SubSeq(data, n + 1, Len(data))
             what == [op |-> "write", pipe |-> id, data |-> rest]
             queue == Append(written.wr_q, me)
             q == [written EXCEPT !.wr_q = queue]
  <2>1. pipes' = [pipes EXCEPT ![id] = q] /\ Sleep(woken, me, what)
    BY <1>8, <1>10
  <2>2. queue \in Seq(Pids) /\ Range(queue) = Range(p.wr_q) \cup {me}
    BY <1>1, <1>7, AppendFacts
  <2>3. what \in Calls /\ what.op = "write" /\ what.pipe = id
    <3>1. rest \in Seq(Bytes)
      <4> DEFINE m == n + 1
                 len == Len(data)
      <4>1. m \in 1 .. Len(data) + 1 /\ len \in m - 1 .. Len(data)
        BY <1>3, <1>5
      <4>2. rest = SubSeq(data, m, len)
        OBVIOUS
      <4> HIDE DEF m, len, rest
      <4> QED BY <4>1, <4>2, SegmentFacts
    <3> HIDE DEF rest
    <3> QED BY <1>1, <3>1, CallFacts
  <2>4. waiting' = [waiting EXCEPT ![me] = what]
    BY <1>2, <1>6, <2>1 DEF Sleep
  <2> HIDE DEF what, queue
  <2>5. /\ q \in PipeInfo /\ q.wr_q = queue /\ q.rd_q = written.rd_q
        /\ q.bytes_to_read = written.bytes_to_read
        /\ q.readers = p.readers /\ q.writers = p.writers
    BY <1>7, <2>2, QueueReplaced
  <2> HIDE DEF q
  <2>6. /\ SchInv(sch') /\ sch'.rsp = woken.rsp /\ sch'.current \in Contexts
        /\ \A x \in Pids : Asleep(sch', x) <=> Asleep(woken, x) \/ (x = me /\ IsActive(woken, x))
    BY <1>6, <2>1, SleepFacts
  <2>7. sch'.current # KILLED_PROC_PID /\ sch'.rsp = sch.rsp
    BY <1>6, <2>6, ConstantFacts
  <2>8. q.bytes_to_read = BUFFER_MAX_SIZE
    BY <1>3, <1>5, <1>7, <1>10, <2>5
  <2>9. \A x \in Pids : x # me /\ Asleep(sch', x) =>
          /\ Asleep(sch, x)
          /\ pipes[id].bytes_to_read = 0 /\ x \in Range(pipes[id].rd_q)
               => q.bytes_to_read = 0 /\ x \in Range(q.rd_q)
          /\ pipes[id].bytes_to_read = BUFFER_MAX_SIZE /\ x \in Range(pipes[id].wr_q)
               => q.bytes_to_read = BUFFER_MAX_SIZE /\ x \in Range(q.wr_q)
    <3>1. \A x \in Pids : x # me /\ Asleep(sch', x) =>
            Asleep(sch, x) /\ (n = 0 \/ x \notin Range(p.rd_q))
      BY <1>6, <2>6
    <3>2. n = 0 => q.bytes_to_read = p.bytes_to_read /\ q.rd_q = p.rd_q
      BY <1>4, <1>7, <2>5
    <3> QED BY <2>2, <2>5, <2>8, <3>1, <3>2
  <2>10. what.op \in {"read", "write"} =>
           /\ what.pipe = id
           /\ IF what.op = "read" THEN q.bytes_to_read = 0 /\ me \in Range(q.rd_q)
              ELSE q.bytes_to_read = BUFFER_MAX_SIZE /\ me \in Range(q.wr_q)
    BY <2>2, <2>3, <2>5, <2>8
  <2> QED BY <1>1, <1>2, <2>1, <2>3, <2>4, <2>5, <2>6, <2>7, <2>9, <2>10, RoundKeepsGood
<1> QED BY <1>9, <1>10

LEMMA ReadKeepsGood ==
  ASSUME Good, NEW fd \in FDs, NEW count \in Counts, Read(fd, count)
  PROVE  Good'
<1> PICK me \in Pids : me = sch.current
  BY DEF Read, SystemCall
<1>1. closing = NONE /\ waiting[me] = NONE
  BY ConstantFacts DEF Read, SystemCall, Interruptible, Resuming
<1>2. PICK entry \in pipe_fd_table : ReadRound(me, entry.pipe_id, count)
  BY DEF Read
<1>3. waiting[me].op # "close"
  BY <1>1, WhatFacts
<1> QED BY <1>1, <1>2, <1>3, ReadRoundKeepsGood

\* Only a process is in the middle of a call.
LEMMA CallerIsAProcess ==
  ASSUME Good, sch.current \in Contexts, waiting[sch.current].op \in {"read", "write", "waitpid"}
  PROVE  sch.current \in Pids
<1>1. waiting[sch.current] \in Calls
  BY WhatFacts DEF Good, Typed
<1> QED BY <1>1 DEF Good, Typed, Contexts

LEMMA ContinueReadKeepsGood ==
  ASSUME Good, ContinueRead
  PROVE  Good'
<1>1. closing = NONE /\ sch.current \in Contexts /\ waiting[sch.current].op = "read"
  BY DEF ContinueRead, Resuming
<1>2. sch.current \in Pids
  BY <1>1, CallerIsAProcess
<1> PICK me \in Pids : me = sch.current
  BY <1>2
<1> PICK id : id = waiting[me].pipe
  OBVIOUS
<1>3. waiting[me].count \in Counts /\ waiting[me].op # "close"
  BY <1>1, WhatFacts DEF Good, Typed
<1> PICK count \in Counts : count = waiting[me].count
  BY <1>3
<1>4. ReadRound(me, id, count)
  BY DEF ContinueRead
<1> QED BY <1>1, <1>3, <1>4, ReadRoundKeepsGood

LEMMA WriteKeepsGood ==
  ASSUME Good, NEW fd \in FDs, NEW data \in Messages, Write(fd, data)
  PROVE  Good'
<1> PICK me \in Pids : me = sch.current
  BY DEF Write, SystemCall
<1>1. closing = NONE /\ waiting[me] = NONE
  BY ConstantFacts DEF Write, SystemCall, Interruptible, Resuming
<1>2. PICK entry \in pipe_fd_table : WriteRound(me, entry.pipe_id, data)
  BY DEF Write
<1>3. waiting[me].op # "close" /\ data \in Seq(Bytes)
  BY <1>1, WhatFacts, BytesFacts
<1> QED BY <1>1, <1>2, <1>3, WriteRoundKeepsGood

LEMMA ContinueWriteKeepsGood ==
  ASSUME Good, ContinueWrite
  PROVE  Good'
<1>1. closing = NONE /\ sch.current \in Contexts /\ waiting[sch.current].op = "write"
  BY DEF ContinueWrite, Resuming
<1>2. sch.current \in Pids
  BY <1>1, CallerIsAProcess
<1> PICK me \in Pids : me = sch.current
  BY <1>2
<1> PICK id : id = waiting[me].pipe
  OBVIOUS
<1>3. waiting[me].data \in Seq(Bytes) /\ waiting[me].op # "close"
  BY <1>1, WhatFacts DEF Good, Typed
<1> PICK data \in Seq(Bytes) : data = waiting[me].data
  BY <1>3
<1>4. WriteRound(me, id, data)
  BY DEF ContinueWrite
<1> QED BY <1>1, <1>3, <1>4, WriteRoundKeepsGood

----------------------------------------------------------------------------
(* The steps that leave the pipes alone *)

\* The pipes are left alone; whoever is in the middle of something stays there or is done.
LEMMA PipesUntouched ==
  ASSUME Good, closing = NONE, UNCHANGED <<fds, pipes, pipe_fd_table, closing>>,
         live \subseteq live', live' \subseteq Pids, SchInv(sch'),
         \A pid \in Pids :
           /\ IsActive(sch, pid) => IsActive(sch', pid)
           /\ IsActive(sch', pid) => IsActive(sch, pid) \/ pid \in live' \ live,
         sch'.current # KILLED_PROC_PID,
         NEW me, \A q \in Pids : q # me /\ Asleep(sch', q) => Asleep(sch, q),
         waiting' \in [Contexts -> {NONE} \cup Calls \cup Closes],
         \A k \in Contexts : k # me => waiting'[k] = waiting[k],
         me \in Contexts =>
           /\ waiting[me].op # "close" /\ waiting'[me].op \in {"none", "waitpid", "keyboard"}
           /\ waiting'[me] = NONE \/ (me \in Pids /\ IsActive(sch, me))
  PROVE  Good'
<1>1. waiting'[KERNEL_PROC_PID] \notin Calls
  <2>1. me = KERNEL_PROC_PID => waiting'[me] = NONE
    BY ConstantFacts
  <2>2. NONE \notin Calls
    BY WhatFacts DEF Calls
  <2> QED BY <2>1, <2>2, ConstantFacts DEF Good, Typed
<1>2. Typed'
  BY <1>1 DEF Good, Typed
<1>3. \A k \in Contexts : waiting[k].op = "close" \/ waiting'[k].op = "close" => waiting'[k] = waiting[k]
  OBVIOUS
<1>4. \A k \in Contexts : waiting[k].op = "close" \/ waiting'[k].op = "close" =>
        waiting'[k] = waiting[k] /\ waiting[k].pipe \in DOMAIN pipes'
  <2> SUFFICES ASSUME NEW k \in Contexts, waiting[k].op = "close" \/ waiting'[k].op = "close"
               PROVE  waiting'[k] = waiting[k] /\ waiting[k].pipe \in DOMAIN pipes'
    OBVIOUS
  <2>1. waiting'[k] = waiting[k] /\ waiting[k].op = "close"
    BY <1>3
  <2> QED BY <2>1 DEF Good, WaitingCloses, CloseInv
<1>5. Sleepers'
  <2>1. \A q \in Pids : q # me /\ waiting'[q].op \in {"read", "write"} =>
          /\ waiting'[q] = waiting[q] /\ waiting[q].pipe \in DOMAIN pipes'
          /\ Asleep(sch', q) => Asleep(sch, q)
    BY ConstantFacts DEF Good, Sleepers
  <2>2. \A q \in Pids : SomeMark(q) => SomeMark(q)'
    BY <1>3 DEF SomeMark, Mark
  <2>3. \A q \in Pids : q # me /\ Asleep(sch', q) /\ BlockedForMark(q) =>
          0 \in DOMAIN pipes' /\ SomeMark(q)'
    BY <2>2 DEF BlockedForMark
  <2>4. \A id \in DOMAIN pipes, q \in Pids : id \in DOMAIN pipes' /\ q # me /\ Asleep(sch', q) =>
          /\ pipes[id].bytes_to_read = 0 /\ q \in Range(pipes[id].rd_q)
               => pipes'[id].bytes_to_read = 0 /\ q \in Range(pipes'[id].rd_q)
          /\ pipes[id].bytes_to_read = BUFFER_MAX_SIZE /\ q \in Range(pipes[id].wr_q)
               => pipes'[id].bytes_to_read = BUFFER_MAX_SIZE /\ q \in Range(pipes'[id].wr_q)
    OBVIOUS
  <2>5. me \in Pids => waiting'[me].op \notin {"read", "write"}
    BY ConstantFacts
  <2> QED BY <2>1, <2>3, <2>4, <2>5, SleepersKept
<1>6. \A q \in Pids : waiting'[q] = NONE \/ waiting'[q] = waiting[q] \/ IsActive(sch, q)
  BY ConstantFacts
<1>7. \A entry \in pipe_fd_table : entry.pipe_id \in DOMAIN pipes'
  BY DEF Good, Table
<1> QED BY <1>2, <1>4, <1>5, <1>6, <1>7, QuietStepKeepsGood

LEMMA CreateKeepsGood ==
  ASSUME Good, NEW pid \in Pids, NEW asked \in Int, Create(pid, asked)
  PROVE  Good'
<1>1. /\ closing = NONE /\ sch.current # KILLED_PROC_PID /\ SchInv(sch)
      /\ pid \notin live /\ sch' = SchOnProcessCreate(sch, pid, asked)
      /\ UNCHANGED <<fds, pipes, pipe_fd_table, closing, waiting>> /\ live' = live \cup {pid}
  BY CurrentFacts DEF Create, SystemCall, Interruptible
<1>2. sch.rsp[pid] = NULL
  BY <1>1 DEF Good, Slots, IsActive
<1>3. /\ SchInv(sch') /\ sch'.rsp = [sch.rsp EXCEPT ![pid] = pid] /\ sch'.current = sch.current
      /\ \A q \in Pids : Asleep(sch', q) <=> Asleep(sch, q)
  BY <1>1, <1>2, CreateFacts
<1>4. \A q \in Pids :
        /\ IsActive(sch, q) => IsActive(sch', q)
        /\ IsActive(sch', q) => IsActive(sch, q) \/ q \in live' \ live
  BY <1>1, <1>2, <1>3 DEF SchInv, SchStates, IsActive
<1>5. live' \subseteq Pids
  BY <1>1 DEF Good, Typed
<1>6. waiting' \in [Contexts -> {NONE} \cup Calls \cup Closes]
  BY <1>1 DEF Good, Typed
<1> PICK nobody : nobody \notin Contexts
  BY ConstantFacts
<1> QED BY <1>1, <1>3, <1>4, <1>5, <1>6, PipesUntouched

\* The caller sleeps in something that is not about pipes.
LEMMA NapKeepsGood ==
  ASSUME Good, NEW what \in Calls, what.op \in {"waitpid", "keyboard"},
         SystemCall, Sleep(sch, sch.current, what),
         UNCHANGED <<live, fds, pipes, pipe_fd_table, closing>>
  PROVE  Good'
<1> PICK me \in Pids : me = sch.current
  BY DEF SystemCall
<1>1. /\ closing = NONE /\ waiting[me] = NONE /\ SchInv(sch) /\ IsActive(sch, me) /\ me \in Contexts
      /\ Sleep(sch, me, what)
  BY CurrentFacts, ConstantFacts DEF SystemCall, Interruptible, Resuming
<1>2. waiting' = [waiting EXCEPT ![me] = what]
  BY <1>1 DEF Sleep
<1>3. /\ SchInv(sch') /\ sch'.rsp = sch.rsp /\ sch'.current # KILLED_PROC_PID
      /\ \A q \in Pids : Asleep(sch', q) <=> Asleep(sch, q) \/ (q = me /\ IsActive(sch, q))
  BY <1>1, SleepFacts, ConstantFacts
<1>4. /\ waiting' \in [Contexts -> {NONE} \cup Calls \cup Closes] /\ waiting'[me] = what
      /\ \A k \in Contexts : k # me => waiting'[k] = waiting[k]
      /\ live' \subseteq Pids
  BY <1>1, <1>2 DEF Good, Typed
<1>5. \A q \in Pids :
        /\ IsActive(sch, q) => IsActive(sch', q)
        /\ IsActive(sch', q) => IsActive(sch, q) \/ q \in live' \ live
  BY <1>3 DEF IsActive
<1>6. waiting[me].op # "close"
  BY <1>1, WhatFacts
<1> QED BY <1>1, <1>3, <1>4, <1>5, <1>6, PipesUntouched

LEMMA WaitpidKeepsGood ==
  ASSUME Good, NEW pid \in Pids, Waitpid(pid)
  PROVE  Good'
<1> PICK what : what = [op |-> "waitpid", pid |-> pid]
  OBVIOUS
<1>1. what \in Calls /\ what.op = "waitpid"
  BY CallFacts
<1>2. SystemCall /\ Sleep(sch, sch.current, what) /\ UNCHANGED <<live, fds, pipes, pipe_fd_table, closing>>
  BY DEF Waitpid
<1> QED BY <1>1, <1>2, NapKeepsGood

LEMMA ReturnFromWaitpidKeepsGood ==
  ASSUME Good, ReturnFromWaitpid
  PROVE  Good'
<1>1. closing = NONE /\ sch.current \in Contexts /\ waiting[sch.current].op = "waitpid"
  BY DEF ReturnFromWaitpid, Resuming
<1>2. sch.current \in Pids
  BY <1>1, CallerIsAProcess
<1> PICK me \in Pids : me = sch.current
  BY <1>2
<1>3. /\ UNCHANGED <<sch, live, fds, pipes, pipe_fd_table, closing>>
      /\ waiting' = [waiting EXCEPT ![me] = NONE] /\ me \in Contexts
  BY ConstantFacts DEF ReturnFromWaitpid, WakeUp
<1>4. /\ waiting' \in [Contexts -> {NONE} \cup Calls \cup Closes] /\ waiting'[me] = NONE
      /\ \A k \in Contexts : k # me => waiting'[k] = waiting[k]
      /\ live' \subseteq Pids
  BY <1>3 DEF Good, Typed
<1>5. SchInv(sch') /\ sch'.current # KILLED_PROC_PID
  BY <1>1, <1>3, CurrentFacts
<1>6. waiting'[me].op = "none"
  BY <1>4, WhatFacts
<1>7. waiting[me].op # "close"
  BY <1>1
<1>8. /\ \A q \in Pids :
           /\ IsActive(sch, q) => IsActive(sch', q)
           /\ IsActive(sch', q) => IsActive(sch, q) \/ q \in live' \ live
      /\ \A q \in Pids : q # me /\ Asleep(sch', q) => Asleep(sch, q)
      /\ live \subseteq live'
  BY <1>3
<1> QED BY <1>1, <1>3, <1>4, <1>5, <1>6, <1>7, <1>8, PipesUntouched

LEMMA TickKeepsGood ==
  ASSUME Good, Tick
  PROVE  Good'
<1>1. /\ closing = NONE /\ SchInv(sch) /\ SchSwitch(sch, sch')
      /\ UNCHANGED <<live, fds, pipes, pipe_fd_table, closing, waiting>>
  BY CurrentFacts DEF Tick, Interruptible, pipeVars
<1>2. /\ SchInv(sch') /\ sch'.rsp = sch.rsp /\ sch'.current # KILLED_PROC_PID
      /\ \A q \in Pids : Asleep(sch', q) <=> Asleep(sch, q)
  BY <1>1, SwitchFacts, ConstantFacts
<1>3. \A q \in Pids :
        /\ IsActive(sch, q) => IsActive(sch', q)
        /\ IsActive(sch', q) => IsActive(sch, q) \/ q \in live' \ live
  BY <1>2 DEF IsActive
<1>4. live' \subseteq Pids /\ waiting' \in [Contexts -> {NONE} \cup Calls \cup Closes]
  BY <1>1 DEF Good, Typed
<1> PICK nobody : nobody \notin Contexts
  BY ConstantFacts
<1> QED BY <1>1, <1>2, <1>3, <1>4, PipesUntouched

----------------------------------------------------------------------------
(* pipe_free *)

\* A pipe without descriptors is freed, in which nobody sleeps.
LEMMA PipeFreeFacts ==
  ASSUME Good, NEW id \in DOMAIN pipes, PipeFree(sch, id), ~SleptIn(id),
         \A entry \in pipe_fd_table : entry.pipe_id # id,
         waiting' = waiting, \A pid \in Pids : ~Mark(closing, pid)
  PROVE  /\ SchInv(sch') /\ sch'.rsp = sch.rsp /\ sch'.current = sch.current
         /\ pipe_fd_table' = pipe_fd_table
         /\ DOMAIN pipes' = DOMAIN pipes \ {id} /\ pipes' \in [DOMAIN pipes' -> PipeInfo]
         /\ \A other \in DOMAIN pipes' : pipes'[other] = pipes[other]
         /\ \A k \in Contexts : waiting[k].op = "close" => waiting[k].pipe # id
         /\ Sleepers'
<1> DEFINE wr_q == pipes[id].wr_q
           rd_q == pipes[id].rd_q
           s == QueueUnblockAll(sch, wr_q)
           t == QueueUnblockAll(s, rd_q)
<1>1. Typed /\ SchInv(sch)
  BY DEF Good
<1>2. wr_q \in Seq(Int) /\ rd_q \in Seq(Int)
  BY <1>1, TypedFacts
<1>3. /\ SchInv(s) /\ s.rsp = sch.rsp /\ s.current = sch.current
      /\ \A q \in Pids : Asleep(s, q) <=> Asleep(sch, q) /\ q \notin Range(wr_q)
  BY <1>1, <1>2, UnblockAllFacts
<1> HIDE DEF s
<1>4. /\ SchInv(t) /\ t.rsp = s.rsp /\ t.current = s.current
      /\ \A q \in Pids : Asleep(t, q) <=> Asleep(s, q) /\ q \notin Range(rd_q)
  BY <1>2, <1>3, UnblockAllFacts
<1>5. sch' = t
  BY DEF PipeFree, s
<1>6. pipe_fd_table' = pipe_fd_table
  BY DEF PipeFree, EntriesOf
<1>7. /\ DOMAIN pipes' = DOMAIN pipes \ {id} /\ pipes' \in [DOMAIN pipes' -> PipeInfo]
      /\ \A other \in DOMAIN pipes' : pipes'[other] = pipes[other]
  BY <1>1 DEF PipeFree, Restrict, Typed
<1> HIDE DEF t, rd_q, wr_q
<1>8. \A k \in Contexts :
        /\ waiting[k].op \in {"read", "write", "close"} => waiting[k].pipe # id
        /\ waiting[k].op = "close" => id # 0
  BY DEF SleptIn
<1>9. \A q \in Pids : Asleep(sch', q) => Asleep(sch, q)
  BY <1>3, <1>4, <1>5
<1> PICK nobody : nobody \notin Contexts
  BY ConstantFacts
<1>10. \A q \in Pids : q # nobody /\ waiting'[q].op \in {"read", "write"} =>
         /\ waiting'[q] = waiting[q] /\ waiting[q].pipe \in DOMAIN pipes'
         /\ Asleep(sch', q) => Asleep(sch, q)
  BY <1>7, <1>8, <1>9, ConstantFacts DEF Good, Sleepers
<1>11. \A q \in Pids : q # nobody /\ Asleep(sch', q) /\ BlockedForMark(q) =>
         0 \in DOMAIN pipes' /\ SomeMark(q)'
  <2> SUFFICES ASSUME NEW q \in Pids, BlockedForMark(q)
               PROVE  0 \in DOMAIN pipes' /\ SomeMark(q)'
    OBVIOUS
  <2>1. PICK k \in Contexts : Mark(waiting[k], q)
    BY DEF BlockedForMark, SomeMark
  <2>2. id # 0 /\ 0 \in DOMAIN pipes
    BY <1>8, <2>1 DEF Mark, BlockedForMark
  <2> QED BY <1>7, <2>1, <2>2 DEF SomeMark, Mark
<1>12. \A other \in DOMAIN pipes, q \in Pids : other \in DOMAIN pipes' /\ q # nobody /\ Asleep(sch', q) =>
         /\ pipes[other].bytes_to_read = 0 /\ q \in Range(pipes[other].rd_q)
              => pipes'[other].bytes_to_read = 0 /\ q \in Range(pipes'[other].rd_q)
         /\ pipes[other].bytes_to_read = BUFFER_MAX_SIZE /\ q \in Range(pipes[other].wr_q)
              => pipes'[other].bytes_to_read = BUFFER_MAX_SIZE /\ q \in Range(pipes'[other].wr_q)
  BY <1>7
<1>13. nobody \notin Pids
  BY ConstantFacts
<1>14. Sleepers'
  BY <1>10, <1>11, <1>12, <1>13, SleepersKept
<1> QED BY <1>3, <1>4, <1>5, <1>6, <1>7, <1>8, <1>14

LEMMA PipeUnlinkKeepsGood ==
  ASSUME Good, NEW name \in Names, PipeUnlink(name), ~stray'
  PROVE  Good'
<1>1. closing = NONE /\ UNCHANGED <<live, fds, waiting, closing>>
  BY DEF PipeUnlink, SystemCall, Interruptible
<1>2. PICK id \in DOMAIN pipes : /\ PipeFree(sch, id)
                                 /\ stray' = (stray \/ EntriesOf(id) # {} \/ SleptIn(id))
  BY DEF PipeUnlink, FindNamedPipe
<1>3. EntriesOf(id) = {} /\ ~SleptIn(id)
  BY <1>2
<1>4. \A entry \in pipe_fd_table : entry.pipe_id # id
  BY <1>3 DEF EntriesOf
<1>5. \A pid \in Pids : ~Mark(closing, pid)
  BY <1>1, WhatFacts DEF Mark
<1>6. /\ SchInv(sch') /\ sch'.rsp = sch.rsp /\ sch'.current = sch.current
      /\ pipe_fd_table' = pipe_fd_table
      /\ DOMAIN pipes' = DOMAIN pipes \ {id} /\ pipes' \in [DOMAIN pipes' -> PipeInfo]
      /\ \A other \in DOMAIN pipes' : pipes'[other] = pipes[other]
      /\ \A k \in Contexts : waiting[k].op = "close" => waiting[k].pipe # id
      /\ Sleepers'
  BY <1>1, <1>2, <1>3, <1>4, <1>5, PipeFreeFacts
<1>7. Typed'
  BY <1>1, <1>6 DEF Good, Typed
<1>8. \A pid \in Pids :
        /\ IsActive(sch, pid) => IsActive(sch', pid)
        /\ IsActive(sch', pid) => IsActive(sch, pid) \/ pid \in live' \ live
  BY <1>6 DEF IsActive
<1>9. sch'.current # KILLED_PROC_PID
  BY <1>1, <1>6, CurrentFacts
<1>10. \A other \in DOMAIN pipes' :
         /\ other \in DOMAIN pipes
         /\ pipes'[other].readers = pipes[other].readers /\ pipes'[other].writers = pipes[other].writers
  BY <1>6
<1>11. \A entry \in pipe_fd_table : entry.pipe_id \in DOMAIN pipes'
  BY <1>4, <1>6 DEF Good, Table
<1>12. \A k \in Contexts : waiting[k].op = "close" \/ waiting'[k].op = "close" =>
         waiting'[k] = waiting[k] /\ waiting[k].pipe \in DOMAIN pipes'
  BY <1>1, <1>6 DEF Good, WaitingCloses, CloseInv
<1>13. live \subseteq live' /\ \A q \in Pids : waiting'[q] = NONE \/ waiting'[q] = waiting[q] \/ IsActive(sch, q)
  BY <1>1
<1> QED BY <1>1, <1>6, <1>7, <1>8, <1>9, <1>10, <1>11, <1>12, <1>13, QuietStepKeepsGood

\* A step that changes nothing but the history.
LEMMA NothingChanges ==
  ASSUME Good, UNCHANGED <<sch, live, fds, pipes, pipe_fd_table, waiting, closing>>
  PROVE  Good'
<1>1. Typed' /\ Table' /\ Counted' /\ Slots'
  BY DEF Good, Typed, Table, Counted, Slots
<1>2. Mapped'
  BY DEF Good, Mapped, SomeClose, HasEntry
<1>3. ClosingInv' /\ WaitingCloses'
  BY DEF Good, ClosingInv, WaitingCloses, CloseInv, HasEntry
<1>4. Sleepers'
  BY DEF Good, Sleepers, WellAsleep, BlockedForMark, SomeMark
<1> QED BY <1>1, <1>2, <1>3, <1>4 DEF Good

LEMMA OpenForTheDeadKeepsGood ==
  ASSUME Good, NEW pid, NEW name, OpenForTheDead(pid, name), ~stray'
  PROVE  Good'
<1>1. PICK id \in Opened(name) :
        IF id \in DOMAIN pipes
        THEN PipeFree(sch, id) /\ stray' = TRUE
        ELSE UNCHANGED <<sch, pipes, pipe_fd_table, stray>>
  BY DEF OpenForTheDead
<1>2. UNCHANGED <<sch, pipes, pipe_fd_table>>
  BY <1>1
<1>3. UNCHANGED <<live, fds, waiting, closing>>
  BY DEF OpenForTheDead
<1> QED BY <1>2, <1>3, NothingChanges

----------------------------------------------------------------------------
(* pipe_open and dup: descriptors are added *)

LEMMA DescriptorsAddedKeepGood ==
  ASSUME Good, closing = NONE, UNCHANGED <<sch, live, waiting, closing>>,
         NEW pid \in Pids, Alive(pid), Typed', Table', Counted',
         pipe_fd_table \subseteq pipe_fd_table',
         \A entry \in pipe_fd_table' \ pipe_fd_table : entry.pid = pid /\ fds[pid][entry.fd] # "pipe",
         \A q \in Pids, fd \in FDs :
           /\ fds[q][fd] = "pipe" => fds'[q][fd] = "pipe"
           /\ fds'[q][fd] = "pipe" =>
                \/ fds[q][fd] = "pipe"
                \/ q = pid /\ \E entry \in pipe_fd_table' : entry.pid = q /\ entry.fd = fd,
         DOMAIN pipes \subseteq DOMAIN pipes',
         \A id \in DOMAIN pipes :
           /\ pipes'[id].bytes_to_read = pipes[id].bytes_to_read
           /\ pipes'[id].rd_q = pipes[id].rd_q /\ pipes'[id].wr_q = pipes[id].wr_q
  PROVE  Good'
<1>1. pid \in live /\ IsActive(sch, pid)
  BY DEF Alive
<1>2. Slots'
  BY <1>1 DEF Good, Slots
<1>3. \A q \in Pids, fd \in FDs : HasEntry(q, fd) => HasEntry(q, fd)'
  BY DEF HasEntry
<1>4. Mapped'
  <2> SUFFICES ASSUME NEW q \in live', NEW fd \in FDs, fds'[q][fd] = "pipe", IsActive(sch', q)
               PROVE  SomeClose(q, fd)' \/ HasEntry(q, fd)'
    BY DEF Mapped
  <2>1. q \in live /\ q \in Pids /\ IsActive(sch, q)
    BY DEF Good, Typed
  <2>2. CASE fds[q][fd] = "pipe"
    <3>1. SomeClose(q, fd) \/ HasEntry(q, fd)
      BY <2>1, <2>2 DEF Good, Mapped
    <3>2. SomeClose(q, fd) => SomeClose(q, fd)'
      BY DEF SomeClose
    <3> QED BY <1>3, <2>1, <3>1, <3>2
  <2>3. CASE fds[q][fd] # "pipe"
    BY <2>1, <2>3 DEF HasEntry
  <2> QED BY <2>2, <2>3
<1>5. ClosingInv'
  BY WhatFacts DEF ClosingInv
<1>6. WaitingCloses'
  <2> SUFFICES ASSUME NEW k \in Contexts, waiting[k].op = "close"
               PROVE  CloseInv(waiting[k])'
    BY WhatFacts DEF Good, WaitingCloses, Apart
  <2> PICK c : c = waiting[k]
    OBVIOUS
  <2>1. CloseInv(c) /\ c.step = "eof" /\ c \in Closes
    BY WhatFacts DEF Good, WaitingCloses, Typed
  <2>2. c.pid \in Pids /\ c.fd \in FDs /\ c.pid \in live /\ fds[c.pid][c.fd] = "pipe" /\ c.pipe \in DOMAIN pipes
    BY <2>1, WhatFacts DEF CloseInv
  <2>3. c.step # "close" /\ ~HasEntry(c.pid, c.fd)
    BY <2>1 DEF CloseInv
  <2>4. ~HasEntry(c.pid, c.fd)'
    <3> SUFFICES ASSUME NEW entry \in pipe_fd_table', entry.pid = c.pid, entry.fd = c.fd
                 PROVE  FALSE
      BY DEF HasEntry
    <3>1. entry \in pipe_fd_table
      BY <2>2
    <3> QED BY <2>3, <3>1 DEF HasEntry
  <2>5. c.dying =>
          /\ ~IsActive(sch', c.pid)
          /\ \A fd \in FDs : fds'[c.pid][fd] = "pipe" => fd = c.fd \/ (fd > c.fd /\ HasEntry(c.pid, fd)')
    <3> SUFFICES ASSUME c.dying
                 PROVE  /\ ~IsActive(sch', c.pid)
                        /\ \A fd \in FDs :
                             fds'[c.pid][fd] = "pipe" => fd = c.fd \/ (fd > c.fd /\ HasEntry(c.pid, fd)')
      OBVIOUS
    <3>1. ~IsActive(sch, c.pid) /\ c.pid # pid
      BY <1>1, <2>1 DEF CloseInv
    <3>2. \A fd \in FDs : fds'[c.pid][fd] = "pipe" => fds[c.pid][fd] = "pipe"
      BY <2>2, <3>1
    <3>3. \A fd \in FDs : fds[c.pid][fd] = "pipe" => fd = c.fd \/ (fd > c.fd /\ HasEntry(c.pid, fd))
      BY <2>1 DEF CloseInv
    <3> QED BY <1>3, <2>2, <3>1, <3>2, <3>3
  <2>6. c.pid \in live' /\ fds'[c.pid][c.fd] = "pipe" /\ c.pipe \in DOMAIN pipes'
    BY <2>2
  <2>7. CloseInv(c)'
    BY <2>3, <2>4, <2>5, <2>6 DEF CloseInv
  <2> QED BY <2>7 DEF CloseInv, HasEntry
<1>7. Sleepers'
  <2> PICK nobody : nobody \notin Contexts
    BY ConstantFacts
  <2>1. \A q \in Pids : q # nobody /\ waiting'[q].op \in {"read", "write"} =>
          /\ waiting'[q] = waiting[q] /\ waiting[q].pipe \in DOMAIN pipes'
          /\ Asleep(sch', q) => Asleep(sch, q)
    BY DEF Good, Sleepers
  <2>2. \A q \in Pids : q # nobody /\ Asleep(sch', q) /\ BlockedForMark(q) =>
          0 \in DOMAIN pipes' /\ SomeMark(q)'
    BY DEF BlockedForMark, SomeMark
  <2>3. nobody \notin Pids
    BY ConstantFacts
  <2> QED BY <2>1, <2>2, <2>3, SleepersKept
<1> QED BY <1>2, <1>4, <1>5, <1>6, <1>7 DEF Good

\* The two descriptors a process gets are two of its free ones.
LEMMA TwoFreeFds ==
  ASSUME NEW pid, Cardinality(FreeFds(pid)) >= 2
  PROVE  LET rd == Min(FreeFds(pid))
             wr == Min(FreeFds(pid) \ {rd})
         IN  rd \in FreeFds(pid) /\ wr \in FreeFds(pid) /\ rd # wr
<1> DEFINE free == FreeFds(pid)
           rest == free \ {Min(free)}
<1>1. Cardinality(free) >= 2
  OBVIOUS
<1>2. free \in SUBSET Nat
  BY ConstantFacts DEF FreeFds
<1>3. free # {} /\ rest # {}
  <2>1. Cardinality(free) # 0 /\ Cardinality(free) # 1
    BY <1>1
  <2> HIDE DEF free
  <2>2. free # {}
    BY <2>1, FS_EmptySet
  <2>3. ASSUME rest = {} PROVE FALSE
    <3> PICK rd : rd = Min(free)
      OBVIOUS
    <3>1. free = {rd}
      BY <2>2, <2>3
    <3>2. Cardinality({rd}) = 1
      BY FS_Singleton
    <3> QED BY <2>1, <3>1, <3>2
  <2> QED BY <2>2, <2>3
<1> PICK rd, wr : rd = Min(free) /\ wr = Min(free \ {rd})
  OBVIOUS
<1>4. rd \in free /\ wr \in free /\ rd # wr
  <2> DEFINE others == free \ {rd}
  <2>1. others \in SUBSET Nat /\ others # {}
    BY <1>2, <1>3
  <2>2. wr = Min(others)
    OBVIOUS
  <2> HIDE DEF free, others
  <2>3. Min(free) \in free /\ Min(others) \in others
    BY <1>2, <1>3, <2>1, MinFacts
  <2> QED BY <2>2, <2>3 DEF others
<1> QED BY <1>4

\* A pipe that was just made is one.
LEMMA NewPipeFacts ==
  ASSUME NEW name \in Names \cup {NULL}
  PROVE  NewPipe(name) \in PipeInfo
<1>1. BUFFER_MAX_SIZE \in Nat /\ 0 \in 0 .. UINT - 1
  BY BufferAssumption, ConstantFacts DEF PowersOfTwo
<1>2. <<>> \in Seq(Bytes) /\ <<>> \in Seq(Pids) /\ Len(<<>>) = 0
  BY EmptySeq
<1> DEFINE x == NewPipe(name)
<1>3. /\ x \in [name : Names \cup {NULL}, buffer : Seq(Bytes), read_idx : Nat,
                bytes_to_read : Nat, readers : 0 .. UINT - 1, writers : 0 .. UINT - 1,
                rd_q : Seq(Pids), wr_q : Seq(Pids)]
      /\ x.buffer = <<>> /\ x.read_idx = 0 /\ x.bytes_to_read = 0
  BY <1>1, <1>2 DEF NewPipe
<1> HIDE DEF x
<1>4. Size(x) = 0
  BY <1>2, <1>3 DEF Size
<1>5. Size(x) <= BUFFER_MAX_SIZE /\ x.bytes_to_read <= Size(x) /\ x.read_idx <= Size(x)
  BY <1>1, <1>3, <1>4
<1> QED BY <1>3, <1>5 DEF PipeInfo, x

LEMMA OpenForKeepsGood ==
  ASSUME Good, NEW pid \in Pids, NEW name \in Names \cup {NULL}, OpenFor(pid, name)
  PROVE  Good'
<1> DEFINE free == FreeFds(pid)
<1>1. /\ closing = NONE /\ Alive(pid) /\ Cardinality(free) >= 2
      /\ UNCHANGED <<sch, live, waiting, closing>>
  BY DEF OpenFor, SystemCall, Interruptible
<1>2. free \in SUBSET Nat /\ free \in SUBSET FDs /\ \A fd \in free : fds[pid][fd] # "pipe"
  BY ConstantFacts DEF FreeFds
<1> PICK rd, wr : rd = Min(free) /\ wr = Min(free \ {rd})
  OBVIOUS
<1>4. rd \in free /\ wr \in free /\ rd # wr
  BY <1>1, TwoFreeFds
<1> DEFINE q0(id) == IF id \in DOMAIN pipes THEN pipes[id] ELSE NewPipe(name)
<1>5. PICK id \in Opened(name) :
        /\ pipes' = WithPipe(id, [q0(id) EXCEPT !.readers = (@ + 1) % UINT, !.writers = (@ + 1) % UINT])
        /\ pipe_fd_table' = pipe_fd_table \cup {PipeFd(pid, rd, id, TRUE), PipeFd(pid, wr, id, FALSE)}
  BY DEF OpenFor
<1>6. fds' = [fds EXCEPT ![pid] = [@ EXCEPT ![rd] = "pipe", ![wr] = "pipe"]]
  BY DEF OpenFor, Good, Typed
<1> DEFINE p == q0(id)
           e1 == PipeFd(pid, rd, id, TRUE)
           e2 == PipeFd(pid, wr, id, FALSE)
           q == [p EXCEPT !.readers = (p.readers + 1) % UINT, !.writers = (p.writers + 1) % UINT]
<1> USE DEF Good
<1> HIDE DEF free
<1>7. id \in PipeIds
  BY DEF Opened, FindFreePipe, FindNamedPipe, Typed
<1>8. p \in PipeInfo
  <2>1. CASE id \in DOMAIN pipes
    BY <2>1, TypedFacts
  <2>2. CASE id \notin DOMAIN pipes
    BY <2>2, NewPipeFacts
  <2> QED BY <2>1, <2>2
<1>9. /\ p.readers = Cardinality(Ends(pipe_fd_table, id, TRUE))
      /\ p.writers = Cardinality(Ends(pipe_fd_table, id, FALSE))
  <2>1. CASE id \in DOMAIN pipes
    BY <2>1 DEF Counted
  <2>2. CASE id \notin DOMAIN pipes
    <3>1. p.readers = 0 /\ p.writers = 0
      BY <2>2 DEF NewPipe
    <3>2. Ends(pipe_fd_table, id, TRUE) = {} /\ Ends(pipe_fd_table, id, FALSE) = {}
      BY <2>2 DEF Ends, Table
    <3>3. Cardinality({}) = 0
      BY FS_EmptySet
    <3> QED BY <3>1, <3>2, <3>3
  <2> QED BY <2>1, <2>2
<1>10. id \in DOMAIN pipes => p = pipes[id]
  OBVIOUS
<1> HIDE DEF p
<1>11. /\ q \in PipeInfo /\ q.readers = (p.readers + 1) % UINT /\ q.writers = (p.writers + 1) % UINT
       /\ q.bytes_to_read = p.bytes_to_read /\ q.rd_q = p.rd_q /\ q.wr_q = p.wr_q
  <2>1. (p.readers + 1) % UINT \in 0 .. UINT - 1 /\ (p.writers + 1) % UINT \in 0 .. UINT - 1
    <3>1. p.readers \in Nat /\ p.writers \in Nat
      BY <1>8 DEF PipeInfo
    <3>2. UINT \in Nat \ {0}
      <4>1. Pids # {} /\ UINT > 2 * MAX_PROCESSES * MAX_FDS /\ UINT \in Nat
        BY ConstantFacts
      <4>2. 2 * MAX_PROCESSES * MAX_FDS >= 0
        BY ConstantFacts
      <4> QED BY <4>1, <4>2, ConstantFacts
    <3> QED BY <3>1, <3>2
  <2> DEFINE r == (p.readers + 1) % UINT
             w == (p.writers + 1) % UINT
  <2> HIDE DEF r, w
  <2>2. q = [p EXCEPT !.readers = r, !.writers = w]
    BY DEF r, w
  <2>3. r \in 0 .. UINT - 1 /\ w \in 0 .. UINT - 1
    BY <2>1 DEF r, w
  <2> HIDE DEF q
  <2>4. /\ q \in PipeInfo /\ q.readers = r /\ q.writers = w
        /\ q.bytes_to_read = p.bytes_to_read /\ q.rd_q = p.rd_q /\ q.wr_q = p.wr_q
    BY <1>8, <2>2, <2>3 DEF PipeInfo, Size
  <2> QED BY <2>4 DEF r, w
<1>12. /\ pipes' = WithPipe(id, q) /\ pipe_fd_table' = pipe_fd_table \cup {e1, e2}
  BY <1>5 DEF p
<1> HIDE DEF q
<1>13. /\ DOMAIN pipes' = DOMAIN pipes \cup {id} /\ pipes'[id] = q
       /\ \A other \in DOMAIN pipes : other # id => pipes'[other] = pipes[other]
       /\ pipes' \in [DOMAIN pipes' -> PipeInfo]
  BY <1>11, <1>12, TypedFacts DEF WithPipe
<1>14. /\ e1 \in PipeFds /\ e1.pid = pid /\ e1.fd = rd /\ e1.pipe_id = id /\ e1.allow_rd = TRUE
       /\ e1.allow_wr = FALSE
       /\ e2 \in PipeFds /\ e2.pid = pid /\ e2.fd = wr /\ e2.pipe_id = id /\ e2.allow_rd = FALSE
       /\ e2.allow_wr = TRUE
  BY <1>2, <1>4, <1>7 DEF PipeFd, PipeFds
<1> HIDE DEF e1, e2
<1>15. /\ \A entry \in pipe_fd_table : ~(entry.pid = pid /\ entry.fd \in {rd, wr})
       /\ e1 \notin pipe_fd_table /\ e2 \notin pipe_fd_table \cup {e1}
  BY <1>2, <1>4, <1>14 DEF Table
<1>16. Unique(pipe_fd_table \cup {e1}) /\ Unique((pipe_fd_table \cup {e1}) \cup {e2})
  BY <1>4, <1>14, <1>15 DEF Unique, Table
<1>17. \A x \in Pids, fd \in FDs :
         fds'[x][fd] = IF x = pid /\ fd \in {rd, wr} THEN "pipe" ELSE fds[x][fd]
  BY <1>2, <1>4, <1>6 DEF Typed
<1>18. Typed'
  <2>1. fds' \in [Pids -> [FDs -> {"none", "device", "pipe"}]]
    BY <1>2, <1>4, <1>6 DEF Typed
  <2> QED BY <1>1, <1>7, <1>12, <1>13, <1>14, <2>1 DEF Typed
<1>19. Table'
  <2>1. \A entry \in pipe_fd_table' :
          /\ entry.allow_wr = ~entry.allow_rd
          /\ entry.pipe_id \in DOMAIN pipes'
          /\ entry.pid \in live' /\ fds'[entry.pid][entry.fd] = "pipe"
    <3>1. \A entry \in pipe_fd_table :
            /\ entry.allow_wr = ~entry.allow_rd
            /\ entry.pipe_id \in DOMAIN pipes'
            /\ entry.pid \in live' /\ fds'[entry.pid][entry.fd] = "pipe"
      BY <1>1, <1>13, <1>17 DEF Table, Typed, PipeFds
    <3>2. pid \in live' /\ fds'[pid][rd] = "pipe" /\ fds'[pid][wr] = "pipe" /\ id \in DOMAIN pipes'
      BY <1>1, <1>2, <1>4, <1>13, <1>17 DEF Alive
    <3> QED BY <1>12, <1>14, <3>1, <3>2
  <2>2. (pipe_fd_table \cup {e1}) \cup {e2} = pipe_fd_table'
    BY <1>12
  <2>3. Unique(pipe_fd_table')
    BY <1>16, <2>2
  <2> QED BY <2>1, <2>3 DEF Table, Unique
<1>20. Counted'
  <2>1. ASSUME NEW other, other # id, NEW reading
        PROVE  Ends(pipe_fd_table', other, reading) = Ends(pipe_fd_table, other, reading)
    BY <1>12, <1>14, <2>1 DEF Ends
  <2>2. /\ Cardinality(Ends(pipe_fd_table', id, TRUE)) = (p.readers + 1) % UINT
        /\ Cardinality(Ends(pipe_fd_table', id, FALSE)) = (p.writers + 1) % UINT
    <3> DEFINE t1 == pipe_fd_table \cup {e1}
    <3>1. pipe_fd_table \in SUBSET PipeFds /\ t1 \in SUBSET PipeFds /\ Unique(t1) /\ Unique(t1 \cup {e2})
          /\ e2 \notin t1
      BY <1>14, <1>15, <1>16 DEF Typed
    <3> PICK n, m : n = p.readers /\ m = p.writers
      OBVIOUS
    <3>2. /\ Cardinality(Ends(t1, id, TRUE)) = (Cardinality(Ends(pipe_fd_table, id, TRUE)) + 1) % UINT
          /\ Cardinality(Ends(t1, id, FALSE)) = Cardinality(Ends(pipe_fd_table, id, FALSE))
      BY <1>14, <1>15, <3>1, EndAdded
    <3>3. /\ Cardinality(Ends(t1, id, TRUE)) = (n + 1) % UINT
          /\ Cardinality(Ends(t1, id, FALSE)) = m
      BY <1>9, <3>2
    <3> HIDE DEF t1
    <3> PICK n1 : n1 = (n + 1) % UINT
      OBVIOUS
    <3>4. /\ Cardinality(Ends(t1 \cup {e2}, id, TRUE)) = n1
          /\ Cardinality(Ends(t1 \cup {e2}, id, FALSE)) = (m + 1) % UINT
      <4>1. ~e2.allow_rd
        BY <1>14
      <4>2. /\ Cardinality(Ends(t1 \cup {e2}, id, TRUE)) = Cardinality(Ends(t1, id, TRUE))
            /\ Cardinality(Ends(t1 \cup {e2}, id, FALSE)) =
                 (Cardinality(Ends(t1, id, FALSE)) + 1) % UINT
        BY <1>14, <3>1, <4>1, EndAdded
      <4> QED BY <3>3, <4>2
    <3>5. pipe_fd_table' = t1 \cup {e2}
      BY <1>12 DEF t1
    <3> QED BY <3>4, <3>5
  <2>3. \A other \in DOMAIN pipes' : other # id =>
          /\ other \in DOMAIN pipes /\ pipes'[other] = pipes[other]
    BY <1>13
  <2>4. ASSUME NEW other \in DOMAIN pipes'
        PROVE  /\ pipes'[other].readers = Cardinality(Ends(pipe_fd_table', other, TRUE))
               /\ pipes'[other].writers = Cardinality(Ends(pipe_fd_table', other, FALSE))
    <3>1. CASE other = id
      BY <1>11, <1>13, <2>2, <3>1
    <3>2. CASE other # id
      BY <2>1, <2>3, <3>2 DEF Counted
    <3> QED BY <3>1, <3>2
  <2> QED BY <2>4 DEF Counted, Ends
<1>21. \A other \in DOMAIN pipes :
         /\ pipes'[other].bytes_to_read = pipes[other].bytes_to_read
         /\ pipes'[other].rd_q = pipes[other].rd_q /\ pipes'[other].wr_q = pipes[other].wr_q
  BY <1>10, <1>11, <1>13
<1>22. \A entry \in pipe_fd_table' \ pipe_fd_table : entry.pid = pid /\ fds[pid][entry.fd] # "pipe"
  BY <1>2, <1>4, <1>12, <1>14
<1>23. \A x \in Pids, fd \in FDs :
         /\ fds[x][fd] = "pipe" => fds'[x][fd] = "pipe"
         /\ fds'[x][fd] = "pipe" =>
              \/ fds[x][fd] = "pipe"
              \/ x = pid /\ \E entry \in pipe_fd_table' : entry.pid = x /\ entry.fd = fd
  <2>1. \A x \in Pids, fd \in FDs :
          /\ fds[x][fd] = "pipe" => fds'[x][fd] = "pipe"
          /\ fds'[x][fd] = "pipe" => fds[x][fd] = "pipe" \/ (x = pid /\ fd \in {rd, wr})
    BY <1>17
  <2>2. \A fd \in {rd, wr} : \E entry \in pipe_fd_table' : entry.pid = pid /\ entry.fd = fd
    <3>1. e1 \in pipe_fd_table' /\ e2 \in pipe_fd_table'
      BY <1>12
    <3> QED BY <1>14, <3>1
  <2> QED BY <2>1, <2>2
<1>24. pipe_fd_table \subseteq pipe_fd_table' /\ DOMAIN pipes \subseteq DOMAIN pipes'
  BY <1>12, <1>13
<1> QED
  BY <1>1, <1>18, <1>19, <1>20, <1>21, <1>22, <1>23, <1>24, DescriptorsAddedKeepGood

LEMMA DupKeepsGood ==
  ASSUME Good, NEW pid \in Pids, NEW from \in FDs, NEW to \in DupTargets, Dup(pid, from, to)
  PROVE  Good'
<1> USE DEF Good
<1>1. /\ closing = NONE /\ Alive(pid) /\ fds[pid][to] = "device" /\ to \in FDs
      /\ UNCHANGED <<sch, live, waiting, closing>>
      /\ fds' = [fds EXCEPT ![pid] = [@ EXCEPT ![to] = "pipe"]]
  BY ConstantFacts DEF Dup, SystemCall, Interruptible, Typed
<1>2. PICK entry \in pipe_fd_table :
        /\ entry.pid = pid /\ entry.fd = from
        /\ pipe_fd_table' = pipe_fd_table \cup {[entry EXCEPT !.fd = to]}
        /\ pipes' = [pipes EXCEPT ![entry.pipe_id] = EndCounted(pipes[entry.pipe_id], entry, 1)]
  BY DEF Dup, DupEnd
<1>3. entry \in PipeFds /\ entry.pipe_id \in DOMAIN pipes /\ entry.pipe_id \in PipeIds
      /\ entry.allow_wr = ~entry.allow_rd /\ entry.allow_rd \in BOOLEAN
  BY DEF Table, Typed, PipeFds
<1> DEFINE id == entry.pipe_id
           e == [entry EXCEPT !.fd = to]
           p == pipes[id]
           r == IF entry.allow_rd THEN (p.readers + 1) % UINT ELSE p.readers
           w == IF entry.allow_wr THEN (p.writers + 1) % UINT ELSE p.writers
           q == [p EXCEPT !.readers = r, !.writers = w]
<1>4. e \in PipeFds /\ e.pid = pid /\ e.fd = to /\ e.pipe_id = id /\ e.allow_rd = entry.allow_rd
      /\ e.allow_wr = entry.allow_wr
  BY <1>1, <1>2, <1>3 DEF PipeFds
<1>5. pipe_fd_table' = pipe_fd_table \cup {e} /\ pipes' = [pipes EXCEPT ![id] = q]
  BY <1>2 DEF EndCounted
<1> HIDE DEF e, id
<1>6. p \in PipeInfo /\ id \in DOMAIN pipes
  BY <1>3, TypedFacts DEF id
<1>7. p.readers = Cardinality(Ends(pipe_fd_table, id, TRUE))
      /\ p.writers = Cardinality(Ends(pipe_fd_table, id, FALSE))
  BY <1>6 DEF Counted
<1>8. e \notin pipe_fd_table /\ Unique(pipe_fd_table \cup {e})
  BY <1>1, <1>4 DEF Table, Unique
<1>9. /\ Cardinality(Ends(pipe_fd_table \cup {e}, id, TRUE)) = r
      /\ Cardinality(Ends(pipe_fd_table \cup {e}, id, FALSE)) = w
  <2>1. pipe_fd_table \in SUBSET PipeFds
    BY DEF Typed
  <2>2. /\ entry.allow_rd =>
             /\ Cardinality(Ends(pipe_fd_table \cup {e}, id, TRUE)) =
                  (Cardinality(Ends(pipe_fd_table, id, TRUE)) + 1) % UINT
             /\ Cardinality(Ends(pipe_fd_table \cup {e}, id, FALSE)) =
                  Cardinality(Ends(pipe_fd_table, id, FALSE))
        /\ ~entry.allow_rd =>
             /\ Cardinality(Ends(pipe_fd_table \cup {e}, id, TRUE)) =
                  Cardinality(Ends(pipe_fd_table, id, TRUE))
             /\ Cardinality(Ends(pipe_fd_table \cup {e}, id, FALSE)) =
                  (Cardinality(Ends(pipe_fd_table, id, FALSE)) + 1) % UINT
    BY <1>4, <1>8, <2>1, EndAdded
  <2>3. CASE entry.allow_rd
    BY <1>3, <1>7, <2>2, <2>3
  <2>4. CASE ~entry.allow_rd
    BY <1>3, <1>7, <2>2, <2>4
  <2> QED BY <2>3, <2>4
<1> HIDE DEF r, w
<1>10. r \in 0 .. UINT - 1 /\ w \in 0 .. UINT - 1
  <2> DEFINE t == pipe_fd_table \cup {e}
  <2>1. t \in SUBSET PipeFds /\ Unique(t)
    BY <1>4, <1>8 DEF Typed
  <2> HIDE DEF t
  <2>2. Cardinality(Ends(t, id, TRUE)) \in 0 .. UINT - 1 /\ Cardinality(Ends(t, id, FALSE)) \in 0 .. UINT - 1
    BY <2>1, EndsBounded
  <2> QED BY <1>9, <2>2 DEF t
<1>11. /\ q \in PipeInfo /\ q.readers = r /\ q.writers = w
       /\ q.bytes_to_read = p.bytes_to_read /\ q.rd_q = p.rd_q /\ q.wr_q = p.wr_q
  BY <1>6, <1>10 DEF PipeInfo, Size
<1> HIDE DEF q
<1>12. /\ DOMAIN pipes' = DOMAIN pipes /\ DOMAIN pipes' \subseteq PipeIds
       /\ pipes' \in [DOMAIN pipes' -> PipeInfo] /\ pipes'[id] = q
       /\ \A other \in DOMAIN pipes : other # id => pipes'[other] = pipes[other]
  BY <1>5, <1>6, <1>11, PipeUpdated
<1>13. \A x \in Pids, fd \in FDs : fds'[x][fd] = IF x = pid /\ fd = to THEN "pipe" ELSE fds[x][fd]
  BY <1>1 DEF Typed
<1>14. Typed'
  <2>1. fds' \in [Pids -> [FDs -> {"none", "device", "pipe"}]]
    BY <1>1 DEF Typed
  <2> QED BY <1>1, <1>4, <1>5, <1>12, <2>1 DEF Typed
<1>15. Table'
  <2>1. \A x \in pipe_fd_table :
          /\ x.allow_wr = ~x.allow_rd
          /\ x.pipe_id \in DOMAIN pipes'
          /\ x.pid \in live' /\ fds'[x.pid][x.fd] = "pipe"
    BY <1>1, <1>12, <1>13 DEF Table, Typed, PipeFds
  <2>2. e.pid \in live' /\ fds'[e.pid][e.fd] = "pipe" /\ e.pipe_id \in DOMAIN pipes'
        /\ e.allow_wr = ~e.allow_rd
    BY <1>1, <1>3, <1>4, <1>6, <1>12, <1>13 DEF Alive
  <2>3. \A x \in pipe_fd_table' : x \in pipe_fd_table \/ x = e
    BY <1>5
  <2>4. Unique(pipe_fd_table)'
    BY <1>5, <1>8 DEF Unique
  <2>5. \A x \in pipe_fd_table' :
          /\ x.allow_wr = ~x.allow_rd
          /\ x.pipe_id \in DOMAIN pipes'
          /\ x.pid \in live' /\ fds'[x.pid][x.fd] = "pipe"
    BY <2>1, <2>2, <2>3
  <2> QED BY <2>4, <2>5 DEF Table
<1>16. Counted'
  <2>1. ASSUME NEW other, other # id, NEW reading
        PROVE  Ends(pipe_fd_table', other, reading) = Ends(pipe_fd_table, other, reading)
    BY <1>4, <1>5, <2>1 DEF Ends
  <2>2. ASSUME NEW other \in DOMAIN pipes'
        PROVE  /\ pipes'[other].readers = Cardinality(Ends(pipe_fd_table', other, TRUE))
               /\ pipes'[other].writers = Cardinality(Ends(pipe_fd_table', other, FALSE))
    <3>1. CASE other = id
      BY <1>5, <1>9, <1>11, <1>12, <3>1
    <3>2. CASE other # id
      BY <1>12, <2>1, <3>2 DEF Counted
    <3> QED BY <3>1, <3>2
  <2> QED BY <2>2 DEF Counted, Ends
<1>17. \A other \in DOMAIN pipes :
         /\ pipes'[other].bytes_to_read = pipes[other].bytes_to_read
         /\ pipes'[other].rd_q = pipes[other].rd_q /\ pipes'[other].wr_q = pipes[other].wr_q
  BY <1>11, <1>12
<1>18. \A x \in pipe_fd_table' \ pipe_fd_table : x.pid = pid /\ fds[pid][x.fd] # "pipe"
  BY <1>1, <1>4, <1>5
<1>19. \A x \in Pids, fd \in FDs :
         /\ fds[x][fd] = "pipe" => fds'[x][fd] = "pipe"
         /\ fds'[x][fd] = "pipe" =>
              \/ fds[x][fd] = "pipe"
              \/ x = pid /\ \E y \in pipe_fd_table' : y.pid = x /\ y.fd = fd
  BY <1>4, <1>5, <1>13
<1>20. pipe_fd_table \subseteq pipe_fd_table' /\ DOMAIN pipes \subseteq DOMAIN pipes'
  BY <1>5, <1>12
<1> QED
  BY <1>1, <1>14, <1>15, <1>16, <1>17, <1>18, <1>19, <1>20, DescriptorsAddedKeepGood

----------------------------------------------------------------------------
(* close *)

LEMMA BeingClosedFacts ==
  ASSUME NEW pid, NEW fd
  PROVE  BeingClosed(pid, fd) <=> SomeClose(pid, fd)
BY DEF BeingClosed, SomeClose, Closing

LEMMA CloseKeepsGood ==
  ASSUME Good, NEW pid \in Pids, NEW fd \in FDs, Close(pid, fd)
  PROVE  Good'
<1>1. /\ closing = NONE /\ sch.current # KILLED_PROC_PID /\ waiting[sch.current] = NONE
      /\ pid \in live /\ IsActive(sch, pid) /\ fds[pid][fd] = "pipe" /\ ~SomeClose(pid, fd)
      /\ UNCHANGED <<sch, live, fds, pipes, pipe_fd_table, waiting>>
  BY BeingClosedFacts, ConstantFacts DEF Close, SystemCall, Interruptible, Resuming, Alive
<1> PICK c : c = CloseOf(pid, fd, FALSE)
  OBVIOUS
<1>2. closing' = c
  BY DEF Close
<1>3. c \in Closes /\ c.op = "close" /\ c.pid = pid /\ c.fd = fd /\ c.dying = FALSE /\ c.step = "close"
  BY DEF CloseOf, Closes
<1>4. Typed' /\ Table' /\ Counted'
  BY <1>1, <1>2, <1>3 DEF Good, Typed, Table, Counted
<1>5. Slots'
  BY <1>1 DEF Good, Slots
<1>6. ~Closing(closing, pid, fd) /\ \A q \in Pids, f \in FDs : ~Closing(closing, q, f)
  BY <1>1, WhatFacts DEF Closing
<1>7. Mapped'
  <2> SUFFICES ASSUME NEW q \in live', NEW f \in FDs, fds'[q][f] = "pipe", IsActive(sch', q)
               PROVE  SomeClose(q, f)' \/ HasEntry(q, f)'
    BY DEF Mapped
  <2>1. q \in live /\ q \in Pids /\ (SomeClose(q, f) \/ HasEntry(q, f))
    BY <1>1 DEF Good, Mapped, Typed
  <2> QED BY <1>1, <1>6, <2>1 DEF SomeClose, HasEntry, Closing
<1>8. HasEntry(pid, fd)
  BY <1>1 DEF Good, Mapped
<1>9. ClosingInv'
  <2>1. CloseInv(closing)'
    BY <1>1, <1>2, <1>3, <1>8 DEF CloseInv, HasEntry
  <2> QED BY <1>2, <1>3, <2>1 DEF ClosingInv
<1>10. WaitingCloses'
  <2> SUFFICES ASSUME NEW k \in Contexts, waiting[k].op = "close"
               PROVE  /\ CloseInv(waiting[k])' /\ waiting'[k].step = "eof"
                      /\ Apart(waiting[k], c)
                      /\ \A l \in Contexts \ {k} : waiting[l].op = "close" => Apart(waiting[k], waiting[l])
    BY <1>1, <1>2, <1>3 DEF WaitingCloses
  <2>1. /\ CloseInv(waiting[k]) /\ waiting[k].step = "eof"
        /\ \A l \in Contexts \ {k} : waiting[l].op = "close" => Apart(waiting[k], waiting[l])
    BY DEF Good, WaitingCloses
  <2>2. CloseInv(waiting[k])'
    BY <1>1, <2>1 DEF CloseInv, HasEntry
  <2>3. Apart(waiting[k], c)
    <3>1. ~Closing(waiting[k], pid, fd)
      BY <1>1 DEF SomeClose
    <3>2. waiting[k].pid = pid => ~waiting[k].dying /\ waiting[k].fd # fd
      BY <1>1, <2>1, <3>1 DEF Closing, CloseInv
    <3> QED BY <1>3, <3>2 DEF Apart
  <2> QED BY <1>1, <2>1, <2>2, <2>3
<1>11. Sleepers'
  <2>1. \A q \in Pids : BlockedForMark(q) => BlockedForMark(q)'
    <3> SUFFICES ASSUME NEW q \in Pids, BlockedForMark(q) PROVE BlockedForMark(q)'
      OBVIOUS
    <3>1. ~Mark(closing, q)
      BY <1>1, WhatFacts DEF Mark
    <3> QED BY <1>1, <3>1 DEF BlockedForMark, SomeMark, Mark
  <2> QED BY <1>1, <2>1 DEF Good, Sleepers, WellAsleep
<1> QED BY <1>1, <1>4, <1>5, <1>7, <1>9, <1>10, <1>11 DEF Good

LEMMA ContinueCloseKeepsGood ==
  ASSUME Good, ContinueClose
  PROVE  Good'
<1>1. /\ closing = NONE /\ sch.current \in Contexts /\ waiting[sch.current].op = "close"
      /\ closing' = waiting[sch.current] /\ waiting' = [waiting EXCEPT ![sch.current] = NONE]
      /\ UNCHANGED <<sch, live, fds, pipes, pipe_fd_table>>
  BY DEF ContinueClose, Resuming, WakeUp
<1> PICK me \in Contexts : me = sch.current
  BY <1>1
<1> PICK c : c = waiting[me]
  OBVIOUS
<1>2. /\ c.op = "close" /\ c \in Closes /\ closing' = c
      /\ waiting \in [Contexts -> {NONE} \cup Calls \cup Closes]
  BY <1>1, WhatFacts DEF Good, Typed
<1>3. /\ \A k \in Contexts : waiting'[k] = IF k = me THEN NONE ELSE waiting[k]
      /\ waiting' \in [Contexts -> {NONE} \cup Calls \cup Closes]
  BY <1>1, <1>2
<1>4. NONE.op = "none" /\ NONE \notin Calls
  BY WhatFacts DEF Calls
<1>5. Typed' /\ Table' /\ Counted'
  <2>1. waiting'[KERNEL_PROC_PID] \notin Calls
    BY <1>3, <1>4, ConstantFacts DEF Good, Typed
  <2> QED BY <1>1, <1>2, <1>3, <2>1 DEF Good, Typed, Table, Counted
<1>6. Slots'
  <2>1. sch'.current # KILLED_PROC_PID
    BY <1>1, CurrentFacts
  <2> QED BY <1>1, <1>3, <2>1, ConstantFacts DEF Good, Slots
<1>7. Mapped'
  <2> SUFFICES ASSUME NEW q \in live', NEW f \in FDs, fds'[q][f] = "pipe", IsActive(sch', q)
               PROVE  SomeClose(q, f)' \/ HasEntry(q, f)'
    BY DEF Mapped
  <2>1. q \in live /\ (SomeClose(q, f) \/ HasEntry(q, f))
    BY <1>1 DEF Good, Mapped
  <2>2. ~Closing(closing, q, f)
    BY <1>1, <1>4 DEF Closing
  <2>3. SomeClose(q, f) => SomeClose(q, f)'
    BY <1>2, <1>3, <2>2 DEF SomeClose, Closing
  <2> QED BY <1>1, <2>1, <2>3 DEF HasEntry
<1>8. \A k \in Contexts : CloseInv(waiting[k]) => CloseInv(waiting[k])' \/ k = me
  BY <1>1, <1>3 DEF CloseInv, HasEntry
<1>9. ClosingInv'
  <2>1. CloseInv(c)
    BY <1>2 DEF Good, WaitingCloses
  <2>2. CloseInv(closing)'
    BY <1>1, <1>2, <2>1 DEF CloseInv, HasEntry
  <2> QED BY <1>2, <2>2 DEF ClosingInv
<1>10. WaitingCloses'
  <2> SUFFICES ASSUME NEW k \in Contexts, waiting'[k].op = "close"
               PROVE  /\ CloseInv(waiting[k])' /\ waiting'[k].step = "eof"
                      /\ Apart(waiting'[k], c)
                      /\ \A l \in Contexts \ {k} : waiting'[l].op = "close" => Apart(waiting'[k], waiting'[l])
    BY <1>2 DEF WaitingCloses
  <2>1. k # me /\ waiting'[k] = waiting[k] /\ waiting[k].op = "close"
    BY <1>3, <1>4
  <2>2. /\ CloseInv(waiting[k]) /\ waiting[k].step = "eof" /\ Apart(waiting[k], c)
        /\ \A l \in Contexts \ {k} : waiting[l].op = "close" => Apart(waiting[k], waiting[l])
    BY <1>2, <2>1 DEF Good, WaitingCloses
  <2>3. \A l \in Contexts \ {k} : waiting'[l].op = "close" => Apart(waiting'[k], waiting'[l])
    BY <1>3, <1>4, <2>1, <2>2
  <2> QED BY <1>8, <2>1, <2>2, <2>3
<1>11. Sleepers'
  <2> SUFFICES ASSUME NEW q \in Pids, waiting'[q].op \in {"read", "write"}
               PROVE  /\ waiting'[q].pipe \in DOMAIN pipes'
                      /\ Asleep(sch', q) => WellAsleep(q)' \/ BlockedForMark(q)'
    BY DEF Sleepers
  <2>1. waiting'[q] = waiting[q]
    BY <1>3, <1>4, ConstantFacts
  <2>2. BlockedForMark(q) => BlockedForMark(q)'
    <3>1. ~Mark(closing, q)
      BY <1>1, <1>4 DEF Mark
    <3>2. SomeMark(q) => SomeMark(q)'
      BY <1>2, <1>3, <3>1 DEF SomeMark, Mark
    <3> QED BY <1>1, <3>2 DEF BlockedForMark
  <2> QED BY <1>1, <2>1, <2>2 DEF Good, Sleepers, WellAsleep
<1>12. SchInv(sch')
  BY <1>1 DEF Good
<1> QED BY <1>5, <1>6, <1>7, <1>9, <1>10, <1>11, <1>12 DEF Good

\* The kernel is in the middle of a close of a descriptor that has its PipeFd no longer.
LEMMA ClosingKeepsGood ==
  ASSUME Good, closing.op = "close", UNCHANGED <<live, fds, waiting>>,
         SchInv(sch'), sch'.rsp = sch.rsp, sch'.current = sch.current,
         NEW c \in Closes, closing' = c,
         c.pid = closing.pid, c.fd = closing.fd, c.dying = closing.dying, c.step # "close",
         c.step = "eof" => c.pipe \in DOMAIN pipes',
         DOMAIN pipes' = DOMAIN pipes, pipes' \in [DOMAIN pipes' -> PipeInfo],
         pipe_fd_table' = {entry \in pipe_fd_table : ~(entry.pid = c.pid /\ entry.fd = c.fd)},
         Counted', Sleepers'
  PROVE  Good'
<1>1. \A pid \in Pids : IsActive(sch', pid) <=> IsActive(sch, pid)
  BY DEF IsActive
<1>2. /\ \A pid \in Pids, fd \in FDs : HasEntry(pid, fd)' <=> HasEntry(pid, fd) /\ ~(pid = c.pid /\ fd = c.fd)
      /\ c.pid \in Pids /\ c.fd \in FDs /\ c.op = "close"
  BY WhatFacts DEF HasEntry
<1>3. CloseInv(closing)
  BY DEF Good, ClosingInv
<1>4. Typed' /\ Table'
  BY DEF Good, Typed, Table, Unique
<1>5. Slots'
  <2>1. closing # NONE
    BY WhatFacts
  <2> QED BY <1>1, <1>2, <2>1 DEF Good, Slots
<1>6. Mapped'
  <2> SUFFICES ASSUME NEW q \in live', NEW f \in FDs, fds'[q][f] = "pipe", IsActive(sch', q)
               PROVE  SomeClose(q, f)' \/ HasEntry(q, f)'
    BY DEF Mapped
  <2>1. q \in live /\ q \in Pids /\ (SomeClose(q, f) \/ HasEntry(q, f))
    BY <1>1 DEF Good, Mapped, Typed
  <2>2. CASE q = c.pid /\ f = c.fd
    BY <1>2, <2>2 DEF SomeClose, Closing
  <2>3. CASE ~(q = c.pid /\ f = c.fd)
    <3>1. SomeClose(q, f) => SomeClose(q, f)'
      BY <2>3 DEF SomeClose, Closing
    <3> QED BY <1>2, <2>1, <2>3, <3>1
  <2> QED BY <2>2, <2>3
<1>7. ClosingInv'
  <2>1. c.dying =>
          /\ ~IsActive(sch', c.pid)
          /\ \A fd \in FDs : fds[c.pid][fd] = "pipe" => fd = c.fd \/ (fd > c.fd /\ HasEntry(c.pid, fd)')
    <3>1. c.dying =>
            /\ ~IsActive(sch, c.pid)
            /\ \A fd \in FDs : fds[c.pid][fd] = "pipe" => fd = c.fd \/ (fd > c.fd /\ HasEntry(c.pid, fd))
      BY <1>3 DEF CloseInv
    <3> QED BY <1>1, <1>2, <3>1
  <2>2. ~HasEntry(c.pid, c.fd)'
    BY <1>2
  <2>3. c.pid \in live' /\ fds'[c.pid][c.fd] = "pipe"
    BY <1>3 DEF CloseInv
  <2>4. CloseInv(closing)'
    BY <2>1, <2>2, <2>3 DEF CloseInv, HasEntry
  <2> QED BY <1>2, <2>4 DEF ClosingInv
<1>8. WaitingCloses'
  <2> SUFFICES ASSUME NEW k \in Contexts, waiting[k].op = "close"
               PROVE  /\ CloseInv(waiting[k])' /\ waiting[k].step = "eof"
                      /\ Apart(waiting[k], c)
                      /\ \A l \in Contexts \ {k} : waiting[l].op = "close" => Apart(waiting[k], waiting[l])
    BY <1>2 DEF WaitingCloses
  <2> PICK d : d = waiting[k]
    OBVIOUS
  <2>1. /\ CloseInv(d) /\ d.step = "eof" /\ Apart(d, closing)
        /\ \A l \in Contexts \ {k} : waiting[l].op = "close" => Apart(d, waiting[l])
        /\ d \in Closes /\ d.pid \in Pids /\ d.fd \in FDs
    BY WhatFacts DEF Good, WaitingCloses, Typed
  <2>2. CloseInv(d)'
    <3>1. d.pid \in live' /\ fds'[d.pid][d.fd] = "pipe" /\ d.pipe \in DOMAIN pipes' /\ ~HasEntry(d.pid, d.fd)'
      BY <1>2, <2>1 DEF CloseInv
    <3>2. d.dying =>
            /\ ~IsActive(sch', d.pid)
            /\ \A fd \in FDs : fds'[d.pid][fd] = "pipe" => fd = d.fd \/ (fd > d.fd /\ HasEntry(d.pid, fd)')
      <4>1. d.dying => d.pid # c.pid
        BY <2>1 DEF Apart
      <4> QED BY <1>1, <1>2, <2>1, <4>1 DEF CloseInv
    <3> QED BY <2>1, <3>1, <3>2 DEF CloseInv, HasEntry
  <2>3. Apart(d, c)
    BY <2>1 DEF Apart
  <2>4. CloseInv(waiting[k])'
    BY <2>2 DEF CloseInv, HasEntry
  <2> QED BY <2>1, <2>3, <2>4
<1> QED BY <1>4, <1>5, <1>6, <1>7, <1>8 DEF Good

LEMMA CloseEndKeepsGood ==
  ASSUME Good, CloseEnd
  PROVE  Good'
<1>1. /\ closing.op = "close" /\ closing.step = "close" /\ closing \in Closes /\ CloseInv(closing)
      /\ UNCHANGED <<live, fds, waiting>>
      /\ closing.pid \in Pids /\ closing.fd \in FDs /\ SchInv(sch)
  BY WhatFacts DEF CloseEnd, Good, ClosingInv, Typed
<1>2. PICK entry \in pipe_fd_table : entry.pid = closing.pid /\ entry.fd = closing.fd
  BY <1>1 DEF CloseInv, HasEntry
<1>3. /\ entry \in PipeFds /\ entry.pipe_id \in DOMAIN pipes /\ entry.pipe_id \in PipeIds
      /\ entry.allow_wr = ~entry.allow_rd /\ entry.allow_rd \in BOOLEAN
      /\ \A other \in pipe_fd_table : other.pid = closing.pid /\ other.fd = closing.fd => other = entry
  BY <1>2 DEF Good, Table, Typed, PipeFds, Unique
<1>4. GetPipeFd(closing.pid, closing.fd) = entry
  <2> DEFINE found == {e \in pipe_fd_table : e.pid = closing.pid /\ e.fd = closing.fd}
  <2>1. found = {entry}
    BY <1>2, <1>3
  <2> HIDE DEF found
  <2>2. (CHOOSE e \in found : TRUE) = entry
    BY <2>1
  <2>3. GetPipeFd(closing.pid, closing.fd) =
          IF found = {} THEN PipeFd(closing.pid, closing.fd, 0, FALSE) ELSE CHOOSE e \in found : TRUE
    BY DEF GetPipeFd, found
  <2> QED BY <2>1, <2>2, <2>3
<1> DEFINE id == entry.pipe_id
           p == pipes[id]
           last_rd == entry.allow_rd /\ p.readers = 1
           last_wr == entry.allow_wr /\ p.writers = 1
           counted == EndCounted(p, entry, -1)
           queue == IF last_rd THEN <<>> ELSE p.wr_q
           q == [counted EXCEPT !.wr_q = queue]
           r == Cardinality(Ends(pipe_fd_table \ {entry}, id, TRUE))
           w == Cardinality(Ends(pipe_fd_table \ {entry}, id, FALSE))
           step == IF last_wr THEN "eof" ELSE "finish"
           c == [closing EXCEPT !.step = step, !.pipe = id]
           s == QueueUnblockAll(sch, p.wr_q)
<1>5. /\ pipe_fd_table' = pipe_fd_table \ {entry} /\ pipes' = [pipes EXCEPT ![id] = q]
      /\ sch' = IF last_rd THEN s ELSE sch
      /\ closing' = c
  BY <1>3, <1>4, Zenon DEF CloseEnd
<1>6. /\ p \in PipeInfo /\ p.wr_q \in Seq(Pids) /\ p.wr_q \in Seq(Int) /\ <<>> \in Seq(Pids)
      /\ p.readers = Cardinality(Ends(pipe_fd_table, id, TRUE))
      /\ p.writers = Cardinality(Ends(pipe_fd_table, id, FALSE))
      /\ p.readers \in Nat /\ p.writers \in Nat
  <2>1. id \in DOMAIN pipes /\ Typed
    BY <1>3 DEF Good
  <2>2. p \in PipeInfo /\ p.wr_q \in Seq(Pids) /\ p.wr_q \in Seq(Int)
    BY <2>1, TypedFacts
  <2>3. /\ p.readers = Cardinality(Ends(pipe_fd_table, id, TRUE))
        /\ p.writers = Cardinality(Ends(pipe_fd_table, id, FALSE))
    BY <2>1 DEF Good, Counted
  <2>4. p.readers \in Nat /\ p.writers \in Nat
    BY <2>2 DEF PipeInfo
  <2>5. <<>> \in Seq(Pids)
    OBVIOUS
  <2> HIDE DEF p
  <2> QED BY <2>2, <2>3, <2>4, <2>5
<1>7. /\ SchInv(s) /\ s.rsp = sch.rsp /\ s.current = sch.current
      /\ \A x \in Pids : Asleep(s, x) <=> Asleep(sch, x) /\ x \notin Range(p.wr_q)
  BY <1>1, <1>6, UnblockAllFacts
<1> HIDE DEF id, s
<1>8. /\ counted.readers = IF entry.allow_rd THEN (p.readers - 1) % UINT ELSE p.readers
      /\ counted.writers = IF entry.allow_wr THEN (p.writers - 1) % UINT ELSE p.writers
      /\ counted = [p EXCEPT !.readers = counted.readers, !.writers = counted.writers]
  <2>1. p.readers + -1 = p.readers - 1 /\ p.writers + -1 = p.writers - 1
    BY <1>6
  <2> QED BY <1>6, <2>1 DEF EndCounted, PipeInfo
<1> HIDE DEF counted
<1>9. counted.readers = r /\ counted.writers = w
  <2>1. pipe_fd_table \in SUBSET PipeFds /\ Unique(pipe_fd_table) /\ entry.pipe_id = id
    BY DEF Good, Typed, Table, id
  <2>2. /\ entry.allow_rd => r = (p.readers - 1) % UINT /\ w = p.writers
        /\ ~entry.allow_rd => r = p.readers /\ w = (p.writers - 1) % UINT
    <3>1. /\ entry.allow_rd =>
               /\ Cardinality(Ends(pipe_fd_table \ {entry}, id, TRUE)) =
                    (Cardinality(Ends(pipe_fd_table, id, TRUE)) - 1) % UINT
               /\ Cardinality(Ends(pipe_fd_table \ {entry}, id, FALSE)) =
                    Cardinality(Ends(pipe_fd_table, id, FALSE))
          /\ ~entry.allow_rd =>
               /\ Cardinality(Ends(pipe_fd_table \ {entry}, id, TRUE)) =
                    Cardinality(Ends(pipe_fd_table, id, TRUE))
               /\ Cardinality(Ends(pipe_fd_table \ {entry}, id, FALSE)) =
                    (Cardinality(Ends(pipe_fd_table, id, FALSE)) - 1) % UINT
      BY <2>1, EndRemoved
    <3> QED BY <1>6, <3>1
  <2>3. CASE entry.allow_rd
    BY <1>3, <1>8, <2>2, <2>3
  <2>4. CASE ~entry.allow_rd
    BY <1>3, <1>8, <2>2, <2>4
  <2> QED BY <2>3, <2>4
<1>10. r \in 0 .. UINT - 1 /\ w \in 0 .. UINT - 1
  <2> DEFINE t == pipe_fd_table \ {entry}
  <2>1. t \in SUBSET PipeFds /\ Unique(t)
    BY DEF Good, Typed, Table, Unique
  <2> HIDE DEF t
  <2>2. Cardinality(Ends(t, id, TRUE)) \in 0 .. UINT - 1 /\ Cardinality(Ends(t, id, FALSE)) \in 0 .. UINT - 1
    BY <2>1, EndsBounded
  <2> QED BY <2>2 DEF t
<1> HIDE DEF r, w
<1>11. counted \in PipeInfo /\ counted.rd_q = p.rd_q /\ counted.bytes_to_read = p.bytes_to_read
  BY <1>6, <1>8, <1>9, <1>10 DEF PipeInfo, Size
<1>12. queue \in Seq(Pids)
  BY <1>6
<1> HIDE DEF queue
<1>13. /\ q \in PipeInfo /\ q.readers = r /\ q.writers = w /\ q.wr_q = queue /\ q.rd_q = p.rd_q
       /\ q.bytes_to_read = p.bytes_to_read
  BY <1>9, <1>11, <1>12, QueueReplaced
<1> HIDE DEF q
<1>14. /\ c \in Closes /\ c.op = "close" /\ c.pid = closing.pid /\ c.fd = closing.fd
       /\ c.dying = closing.dying /\ c.step \in {"eof", "finish"} /\ c.pipe = id
  BY <1>1, <1>3 DEF Closes, id
<1> HIDE DEF c
<1>15. /\ DOMAIN pipes' = DOMAIN pipes /\ pipes' \in [DOMAIN pipes' -> PipeInfo] /\ pipes'[id] = q
       /\ \A other \in DOMAIN pipes : other # id => pipes'[other] = pipes[other]
       /\ id \in DOMAIN pipes
  BY <1>3, <1>5, <1>13, PipeUpdated DEF Good, id
<1>16. /\ SchInv(sch') /\ sch'.rsp = sch.rsp /\ sch'.current = sch.current
       /\ \A x \in Pids : Asleep(sch', x) => Asleep(sch, x) /\ (last_rd => x \notin Range(p.wr_q))
  BY <1>1, <1>5, <1>7
<1>17. Counted'
  <2>1. ASSUME NEW other, other # id, NEW reading
        PROVE  Ends(pipe_fd_table', other, reading) = Ends(pipe_fd_table, other, reading)
    BY <1>5, <2>1 DEF Ends, id
  <2>2. ASSUME NEW other \in DOMAIN pipes'
        PROVE  /\ pipes'[other].readers = Cardinality(Ends(pipe_fd_table', other, TRUE))
               /\ pipes'[other].writers = Cardinality(Ends(pipe_fd_table', other, FALSE))
    <3>1. CASE other = id
      BY <1>5, <1>13, <1>15, <3>1 DEF r, w
    <3>2. CASE other # id
      BY <1>15, <2>1, <3>2 DEF Good, Counted
    <3> QED BY <3>1, <3>2
  <2> QED BY <2>2 DEF Counted, Ends
<1>18. Sleepers'
  <2> PICK nobody : nobody \notin Contexts
    BY ConstantFacts
  <2>1. \A x \in Pids : x # nobody /\ waiting'[x].op \in {"read", "write"} =>
          /\ waiting'[x] = waiting[x] /\ waiting[x].pipe \in DOMAIN pipes'
          /\ Asleep(sch', x) => Asleep(sch, x)
    BY <1>1, <1>15, <1>16 DEF Good, Sleepers
  <2>2. \A x \in Pids : x # nobody /\ Asleep(sch', x) /\ BlockedForMark(x) =>
          0 \in DOMAIN pipes' /\ SomeMark(x)'
    BY <1>1, <1>15 DEF BlockedForMark, SomeMark, Mark
  <2>3. ASSUME NEW other \in DOMAIN pipes, NEW x \in Pids, other \in DOMAIN pipes', Asleep(sch', x)
        PROVE  /\ pipes[other].bytes_to_read = 0 /\ x \in Range(pipes[other].rd_q)
                    => pipes'[other].bytes_to_read = 0 /\ x \in Range(pipes'[other].rd_q)
               /\ pipes[other].bytes_to_read = BUFFER_MAX_SIZE /\ x \in Range(pipes[other].wr_q)
                    => pipes'[other].bytes_to_read = BUFFER_MAX_SIZE /\ x \in Range(pipes'[other].wr_q)
    <3>1. CASE other = id
      BY <1>13, <1>15, <1>16, <2>3, <3>1 DEF queue
    <3>2. CASE other # id
      BY <1>15, <3>2
    <3> QED BY <3>1, <3>2
  <2>4. nobody \notin Pids
    BY ConstantFacts
  <2> QED BY <2>1, <2>2, <2>3, <2>4, SleepersKept
<1>19. pipe_fd_table' = {e \in pipe_fd_table : ~(e.pid = c.pid /\ e.fd = c.fd)}
  BY <1>2, <1>3, <1>5, <1>14
<1>20. c.step # "close" /\ (c.step = "eof" => c.pipe \in DOMAIN pipes')
  BY <1>14, <1>15
<1> QED BY <1>1, <1>5, <1>14, <1>15, <1>16, <1>17, <1>18, <1>19, <1>20, ClosingKeepsGood

\* The mark fits.
LEMMA WriteEofKeepsGood ==
  ASSUME Good, WriteEof
  PROVE  Good'
<1> DEFINE w == WritePipeBuffer(pipes[0], <<EOF>>)
           at0 == [w EXCEPT !.rd_q = <<>>]
           marked == [pipes EXCEPT ![0] = at0]
           id == closing.pipe
           last == [marked[id] EXCEPT !.rd_q = <<>>]
           woken == QueueUnblockAll(sch, pipes[0].rd_q)
           c == [closing EXCEPT !.step = "finish"]
           data == <<EOF>>
<1>1. /\ closing.op = "close" /\ closing.step = "eof" /\ closing \in Closes /\ CloseInv(closing)
      /\ UNCHANGED <<live, fds, waiting, pipe_fd_table>> /\ closing' = c
      /\ closing.pid \in Pids /\ closing.fd \in FDs /\ SchInv(sch) /\ Typed
      /\ 0 \in DOMAIN pipes /\ id \in DOMAIN pipes
  BY WhatFacts DEF WriteEof, Good, ClosingInv, Typed, CloseInv
<1>2. BytesWritten(pipes[0], data) = 1 /\ Len(data) = 1 /\ data \in Seq(Bytes)
  BY BytesFacts DEF WriteEof, Bytes
<1>3. pipes' = [marked EXCEPT ![id] = last] /\ sch' = QueueUnblockAll(woken, marked[id].rd_q)
  BY DEF WriteEof
<1>4. /\ pipes[0] \in PipeInfo /\ pipes[0].rd_q \in Seq(Pids) /\ pipes[0].rd_q \in Seq(Int)
      /\ <<>> \in Seq(Pids)
  BY <1>1, TypedFacts
<1> PICK n : n = BytesWritten(pipes[0], data)
  OBVIOUS
<1>5. /\ w \in PipeInfo /\ w.bytes_to_read = pipes[0].bytes_to_read + 1
      /\ w.readers = pipes[0].readers /\ w.writers = pipes[0].writers /\ w.wr_q = pipes[0].wr_q
  <2>1. w = WritePipeBuffer(pipes[0], data)
    OBVIOUS
  <2> HIDE DEF data, w
  <2> QED BY <1>2, <1>4, <2>1, WritePipeBufferFacts
<1>6. pipes[0].bytes_to_read \in Nat /\ pipes[0].bytes_to_read < BUFFER_MAX_SIZE
  <2>1. w.bytes_to_read <= BUFFER_MAX_SIZE /\ pipes[0].bytes_to_read \in Nat /\ BUFFER_MAX_SIZE \in Nat
    <3> HIDE DEF w
    <3> QED BY <1>4, <1>5, SizeFacts
  <2> HIDE DEF w
  <2> QED BY <1>5, <2>1
<1> HIDE DEF w, data
<1>7. /\ at0 \in PipeInfo /\ at0.rd_q = <<>> /\ at0.wr_q = pipes[0].wr_q
      /\ at0.readers = pipes[0].readers /\ at0.writers = pipes[0].writers
  BY <1>4, <1>5, QueueReplaced
<1> HIDE DEF at0
<1>8. /\ DOMAIN marked = DOMAIN pipes /\ marked[0] = at0
      /\ \A other \in DOMAIN pipes : other # 0 => marked[other] = pipes[other]
      /\ \A other \in DOMAIN pipes : marked[other] \in PipeInfo
  BY <1>1, <1>7, TypedFacts
<1> HIDE DEF marked
<1>9. marked[id] \in PipeInfo /\ marked[id].rd_q \in Seq(Pids) /\ marked[id].rd_q \in Seq(Int)
  <2>1. Pids \subseteq Int
    BY ConstantFacts
  <2>2. marked[id] \in PipeInfo
    BY <1>1, <1>8
  <2>3. marked[id].rd_q \in Seq(Pids)
    BY <2>2 DEF PipeInfo
  <2> QED BY <2>1, <2>2, <2>3, SeqMonotonic
<1>10. /\ last \in PipeInfo /\ last.rd_q = <<>> /\ last.wr_q = marked[id].wr_q
       /\ last.bytes_to_read = marked[id].bytes_to_read
       /\ last.readers = marked[id].readers /\ last.writers = marked[id].writers
  <2> PICK p : p = marked[id]
    OBVIOUS
  <2>1. p \in PipeInfo /\ <<>> \in Seq(Pids) /\ last = [p EXCEPT !.rd_q = <<>>]
    BY <1>4, <1>9
  <2> HIDE DEF last
  <2>2. /\ last \in PipeInfo /\ last.rd_q = <<>> /\ last.wr_q = p.wr_q
        /\ last.bytes_to_read = p.bytes_to_read
        /\ last.readers = p.readers /\ last.writers = p.writers
    BY <2>1, QueueReplaced
  <2> QED BY <2>2
<1> HIDE DEF last
<1>11. /\ DOMAIN pipes' = DOMAIN pipes /\ pipes' \in [DOMAIN pipes' -> PipeInfo]
       /\ \A other \in DOMAIN pipes :
            /\ pipes'[other].readers = pipes[other].readers
            /\ pipes'[other].writers = pipes[other].writers
            /\ pipes'[other].wr_q = pipes[other].wr_q
       /\ \A other \in DOMAIN pipes : other # 0 =>
            pipes'[other].bytes_to_read = pipes[other].bytes_to_read
       /\ \A other \in DOMAIN pipes : other # 0 /\ other # id => pipes'[other] = pipes[other]
  <2>1. /\ DOMAIN pipes' = DOMAIN pipes /\ pipes'[id] = last
        /\ \A other \in DOMAIN pipes : other # id => pipes'[other] = marked[other]
    BY <1>1, <1>3, <1>8
  <2>2. pipes' \in [DOMAIN pipes' -> PipeInfo]
    <3>1. \A other \in DOMAIN pipes' : pipes'[other] \in PipeInfo
      BY <1>8, <1>10, <2>1
    <3>2. pipes' = [other \in DOMAIN pipes' |-> pipes'[other]]
      BY <1>3
    <3> QED BY <3>1, <3>2
  <2> QED BY <1>7, <1>8, <1>10, <2>1, <2>2
<1>12. /\ SchInv(woken) /\ woken.rsp = sch.rsp /\ woken.current = sch.current
       /\ \A x \in Pids : Asleep(woken, x) <=> Asleep(sch, x) /\ x \notin Range(pipes[0].rd_q)
  BY <1>1, <1>4, UnblockAllFacts
<1> HIDE DEF woken
<1>13. /\ SchInv(sch') /\ sch'.rsp = woken.rsp /\ sch'.current = woken.current
       /\ \A x \in Pids : Asleep(sch', x) <=> Asleep(woken, x) /\ x \notin Range(marked[id].rd_q)
  BY <1>3, <1>9, <1>12, UnblockAllFacts
<1>14. /\ SchInv(sch') /\ sch'.rsp = sch.rsp /\ sch'.current = sch.current
       /\ \A x \in Pids : Asleep(sch', x) =>
            /\ Asleep(sch, x) /\ x \notin Range(pipes[0].rd_q)
            /\ id # 0 => x \notin Range(pipes[id].rd_q)
  BY <1>1, <1>8, <1>12, <1>13
<1>15. Counted'
  BY <1>1, <1>11 DEF Good, Counted, Ends
<1>16. Sleepers'
  <2> PICK nobody : nobody \notin Contexts
    BY ConstantFacts
  <2>1. \A x \in Pids : x # nobody /\ waiting'[x].op \in {"read", "write"} =>
          /\ waiting'[x] = waiting[x] /\ waiting[x].pipe \in DOMAIN pipes'
          /\ Asleep(sch', x) => Asleep(sch, x)
    BY <1>1, <1>11, <1>14 DEF Good, Sleepers
  <2>2. \A x \in Pids : x # nobody /\ Asleep(sch', x) /\ BlockedForMark(x) =>
          0 \in DOMAIN pipes' /\ SomeMark(x)'
    BY <1>6 DEF BlockedForMark
  <2>3. ASSUME NEW other \in DOMAIN pipes, NEW x \in Pids, other \in DOMAIN pipes', Asleep(sch', x)
        PROVE  /\ pipes[other].bytes_to_read = 0 /\ x \in Range(pipes[other].rd_q)
                    => pipes'[other].bytes_to_read = 0 /\ x \in Range(pipes'[other].rd_q)
               /\ pipes[other].bytes_to_read = BUFFER_MAX_SIZE /\ x \in Range(pipes[other].wr_q)
                    => pipes'[other].bytes_to_read = BUFFER_MAX_SIZE /\ x \in Range(pipes'[other].wr_q)
    <3>1. CASE other = 0
      BY <1>6, <1>14, <2>3, <3>1
    <3>2. CASE other # 0 /\ other = id
      BY <1>11, <1>14, <2>3, <3>2
    <3>3. CASE other # 0 /\ other # id
      BY <1>11, <3>3
    <3> QED BY <3>1, <3>2, <3>3
  <2>4. nobody \notin Pids
    BY ConstantFacts
  <2> QED BY <2>1, <2>2, <2>3, <2>4, SleepersKept
<1>17. /\ c \in Closes /\ c.op = "close" /\ c.pid = closing.pid /\ c.fd = closing.fd
       /\ c.dying = closing.dying /\ c.step = "finish"
  BY <1>1 DEF Closes
<1> HIDE DEF c
<1>18. pipe_fd_table' = {e \in pipe_fd_table : ~(e.pid = c.pid /\ e.fd = c.fd)}
  BY <1>1, <1>17 DEF CloseInv, HasEntry
<1>19. c.step # "close" /\ (c.step = "eof" => c.pipe \in DOMAIN pipes')
  BY <1>17
<1> QED BY <1>1, <1>11, <1>14, <1>15, <1>16, <1>17, <1>18, <1>19, ClosingKeepsGood

\* It does not, and the process that loses the descriptor sleeps, or dies.
LEMMA WaitToWriteEofKeepsGood ==
  ASSUME Good, WaitToWriteEof
  PROVE  Good'
<1> PICK c : c = closing
  OBVIOUS
<1> DEFINE data == <<EOF>>
           queue == Append(pipes[0].wr_q, c.pid)
           q == [pipes[0] EXCEPT !.wr_q = queue]
<1>1. /\ c.op = "close" /\ c.step = "eof" /\ c \in Closes /\ CloseInv(c)
      /\ UNCHANGED <<live, fds, pipe_fd_table>> /\ closing' = NONE
      /\ c.pid \in Pids /\ c.fd \in FDs /\ c # NONE /\ c \notin Calls /\ SchInv(sch) /\ Typed
      /\ 0 \in DOMAIN pipes /\ Sleep(sch, c.pid, c)
  BY WhatFacts DEF WaitToWriteEof, Good, ClosingInv, Typed, CloseInv
<1>2. BytesWritten(pipes[0], data) = 0 /\ Len(data) = 1 /\ data \in Seq(Bytes)
  BY BytesFacts DEF WaitToWriteEof, Bytes
<1>3. pipes' = [pipes EXCEPT ![0] = q]
  BY <1>1 DEF WaitToWriteEof
<1>4. pipes[0] \in PipeInfo /\ pipes[0].wr_q \in Seq(Pids)
  BY <1>1, TypedFacts
<1>5. pipes[0].bytes_to_read = BUFFER_MAX_SIZE
  <2>1. pipes[0].bytes_to_read \in Nat
    BY <1>4, SizeFacts
  <2> HIDE DEF data
  <2>2. BytesWritten(pipes[0], data) < Len(data) =>
          pipes[0].bytes_to_read + BytesWritten(pipes[0], data) = BUFFER_MAX_SIZE
    BY <1>2, <1>4, WritePipeBufferFacts
  <2> PICK n, len : n = BytesWritten(pipes[0], data) /\ len = Len(data)
    OBVIOUS
  <2>3. n = 0 /\ len = 1 /\ (n < len => pipes[0].bytes_to_read + n = BUFFER_MAX_SIZE)
    BY <1>2, <2>2
  <2> QED BY <2>1, <2>3
<1> HIDE DEF data
<1>6. queue \in Seq(Pids) /\ Range(queue) = Range(pipes[0].wr_q) \cup {c.pid}
  BY <1>1, <1>4, AppendFacts
<1> HIDE DEF queue
<1>7. /\ q \in PipeInfo /\ q.wr_q = queue /\ q.rd_q = pipes[0].rd_q
      /\ q.bytes_to_read = pipes[0].bytes_to_read
      /\ q.readers = pipes[0].readers /\ q.writers = pipes[0].writers
  BY <1>4, <1>6, QueueReplaced
<1> HIDE DEF q
<1>8. /\ DOMAIN pipes' = DOMAIN pipes /\ DOMAIN pipes' \subseteq PipeIds
      /\ pipes' \in [DOMAIN pipes' -> PipeInfo] /\ pipes'[0] = q
      /\ \A other \in DOMAIN pipes : other # 0 => pipes'[other] = pipes[other]
  BY <1>1, <1>3, <1>7, PipeUpdated
<1>9. /\ SchInv(sch') /\ sch'.rsp = sch.rsp /\ sch'.current \in Contexts
      /\ \A x \in Pids : Asleep(sch', x) <=> Asleep(sch, x) \/ (x = c.pid /\ IsActive(sch, x))
      /\ \A x \in Pids : IsActive(sch', x) <=> IsActive(sch, x)
  BY <1>1, SleepFacts DEF IsActive
<1> PICK me : me = sch.current
  OBVIOUS
<1>10. /\ me \in Contexts \cup {KILLED_PROC_PID}
       /\ \A pid \in Pids : pid = me => IsActive(sch, pid)
       /\ me \in Contexts => waiting[me] = NONE
       /\ me \notin Contexts => c.dying
  BY <1>1, CurrentFacts, ConstantFacts DEF Good, Slots
<1>11. /\ waiting' = IF me \in Contexts THEN [waiting EXCEPT ![me] = c] ELSE waiting
       /\ waiting \in [Contexts -> {NONE} \cup Calls \cup Closes]
  BY <1>1 DEF Sleep, Typed
<1>12. /\ \A k \in Contexts : waiting'[k] = IF k = me THEN c ELSE waiting[k]
       /\ waiting' \in [Contexts -> {NONE} \cup Calls \cup Closes]
  BY <1>1, <1>10, <1>11
<1>13. Typed'
  <2>1. waiting'[KERNEL_PROC_PID] \notin Calls
    BY <1>1, <1>12, ConstantFacts DEF Typed
  <2> QED BY <1>1, <1>8, <1>12, <2>1 DEF Typed
<1>14. Table' /\ Counted'
  <2>1. Table'
    BY <1>1, <1>8 DEF Good, Table, Unique
  <2>2. ASSUME NEW other \in DOMAIN pipes'
        PROVE  pipes'[other].readers = pipes[other].readers /\ pipes'[other].writers = pipes[other].writers
    BY <1>7, <1>8
  <2> QED BY <1>1, <1>8, <2>1, <2>2 DEF Good, Counted, Ends
<1>15. Slots'
  <2>1. sch'.current # KILLED_PROC_PID
    BY <1>9, ConstantFacts
  <2> QED BY <1>1, <1>9, <1>10, <1>12, <2>1, ConstantFacts DEF Good, Slots
<1>16. \A x \in Pids, f \in FDs : SomeClose(x, f) /\ IsActive(sch, x) => SomeClose(x, f)'
  <2> SUFFICES ASSUME NEW x \in Pids, NEW f \in FDs, SomeClose(x, f), IsActive(sch, x)
               PROVE  SomeClose(x, f)'
    OBVIOUS
  <2>1. CASE Closing(closing, x, f)
    <3>1. ~c.dying
      BY <1>1, <2>1 DEF Closing, CloseInv
    <3> QED BY <1>10, <1>12, <2>1, <3>1 DEF SomeClose, Closing
  <2>2. CASE ~Closing(closing, x, f)
    <3>1. PICK k \in Contexts : Closing(waiting[k], x, f)
      BY <2>2 DEF SomeClose
    <3>2. k # me
      BY <1>10, <3>1, WhatFacts DEF Closing
    <3> QED BY <1>12, <3>1, <3>2 DEF SomeClose, Closing
  <2> QED BY <2>1, <2>2
<1>17. Mapped'
  <2> SUFFICES ASSUME NEW x \in live', NEW f \in FDs, fds'[x][f] = "pipe", IsActive(sch', x)
               PROVE  SomeClose(x, f)' \/ HasEntry(x, f)'
    BY DEF Mapped
  <2>1. x \in live /\ x \in Pids /\ IsActive(sch, x) /\ (SomeClose(x, f) \/ HasEntry(x, f))
    BY <1>1, <1>9 DEF Good, Mapped, Typed
  <2> QED BY <1>1, <1>16, <2>1 DEF HasEntry
<1>18. ClosingInv'
  BY <1>1, WhatFacts DEF ClosingInv
<1>19. ASSUME NEW k \in Contexts, waiting'[k].op = "close"
       PROVE  /\ CloseInv(waiting[k])' /\ waiting'[k].step = "eof"
              /\ \A l \in Contexts \ {k} : waiting'[l].op = "close" => Apart(waiting'[k], waiting'[l])
  <2> PICK d : d = waiting'[k]
    OBVIOUS
  <2>1. d = c \/ (d = waiting[k] /\ k # me)
    BY <1>12
  <2>2. CloseInv(d) /\ d.step = "eof" /\ d.pid \in Pids
    <3>1. CASE d = c
      BY <1>1, <3>1
    <3>2. CASE d = waiting[k]
      <4>1. d \in Closes
        BY <1>11, <1>19, <3>2, WhatFacts
      <4> QED BY <1>19, <3>2, <4>1, WhatFacts DEF Good, WaitingCloses
    <3> QED BY <2>1, <3>1, <3>2
  <2>3. CloseInv(d)'
    BY <1>1, <1>8, <1>9, <2>2 DEF CloseInv, HasEntry
  <2>4. CloseInv(waiting[k])'
    BY <2>3 DEF CloseInv, HasEntry
  <2>5. ASSUME NEW l \in Contexts \ {k}, waiting'[l].op = "close" PROVE Apart(d, waiting'[l])
    <3>1. CASE k = me
      <4>1. waiting'[l] = waiting[l] /\ d = c
        BY <1>12, <3>1
      <4>2. Apart(waiting[l], c)
        BY <1>1, <2>5, <4>1 DEF Good, WaitingCloses
      <4> QED BY <4>1, <4>2 DEF Apart
    <3>2. CASE k # me
      <4>1. d = waiting[k] /\ Apart(d, c)
        BY <1>1, <1>12, <1>19, <3>2 DEF Good, WaitingCloses
      <4>2. waiting'[l] # c => waiting'[l] = waiting[l]
        BY <1>12
      <4>3. waiting'[l] = waiting[l] => Apart(d, waiting[l])
        BY <1>19, <2>5, <4>1 DEF Good, WaitingCloses
      <4> QED BY <4>1, <4>2, <4>3
    <3> QED BY <3>1, <3>2
  <2> QED BY <2>2, <2>4, <2>5
<1>20. WaitingCloses'
  <2>1. closing'.op = "none"
    BY <1>1, WhatFacts
  <2> QED BY <1>19, <2>1 DEF WaitingCloses
<1>21. Sleepers'
  <2>1. \A x \in Pids : x # c.pid /\ waiting'[x].op \in {"read", "write"} =>
          /\ waiting'[x] = waiting[x] /\ waiting[x].pipe \in DOMAIN pipes'
          /\ Asleep(sch', x) => Asleep(sch, x)
    BY <1>1, <1>8, <1>9, <1>12, ConstantFacts DEF Good, Sleepers
  <2>2. \A x \in Pids : SomeMark(x) /\ IsActive(sch, x) => SomeMark(x)'
    <3> SUFFICES ASSUME NEW x \in Pids, SomeMark(x), IsActive(sch, x)
                 PROVE  SomeMark(x)'
      OBVIOUS
    <3>1. CASE Mark(closing, x)
      <4>1. ~c.dying
        BY <1>1, <3>1 DEF Mark, CloseInv
      <4> QED BY <1>10, <1>12, <3>1, <4>1 DEF SomeMark, Mark
    <3>2. CASE ~Mark(closing, x)
      <4>1. PICK k \in Contexts : Mark(waiting[k], x)
        BY <3>2 DEF SomeMark
      <4>2. k # me
        BY <1>10, <4>1, WhatFacts DEF Mark
      <4> QED BY <1>12, <4>1, <4>2 DEF SomeMark, Mark
    <3> QED BY <3>1, <3>2
  <2>3. \A x \in Pids : Asleep(sch', x) => IsActive(sch, x)
    BY <1>9 DEF Asleep
  <2>4. \A x \in Pids : x # c.pid /\ Asleep(sch', x) /\ BlockedForMark(x) =>
          0 \in DOMAIN pipes' /\ SomeMark(x)'
    BY <1>8, <2>2, <2>3 DEF BlockedForMark
  <2>5. ASSUME NEW other \in DOMAIN pipes, NEW x \in Pids
        PROVE  /\ pipes[other].bytes_to_read = 0 /\ x \in Range(pipes[other].rd_q)
                    => pipes'[other].bytes_to_read = 0 /\ x \in Range(pipes'[other].rd_q)
               /\ pipes[other].bytes_to_read = BUFFER_MAX_SIZE /\ x \in Range(pipes[other].wr_q)
                    => pipes'[other].bytes_to_read = BUFFER_MAX_SIZE /\ x \in Range(pipes'[other].wr_q)
    <3>1. CASE other = 0
      BY <1>6, <1>7, <1>8, <3>1
    <3>2. CASE other # 0
      BY <1>8, <3>2
    <3> QED BY <3>1, <3>2
  <2>6. c.pid \in Pids /\ waiting'[c.pid].op \in {"read", "write"} =>
          /\ waiting'[c.pid].pipe \in DOMAIN pipes'
          /\ Asleep(sch', c.pid) => WellAsleep(c.pid)' \/ BlockedForMark(c.pid)'
    <3> SUFFICES ASSUME waiting'[c.pid].op \in {"read", "write"}
                 PROVE  /\ waiting'[c.pid].pipe \in DOMAIN pipes'
                        /\ Asleep(sch', c.pid) => BlockedForMark(c.pid)'
      OBVIOUS
    <3>1. waiting'[c.pid] = waiting[c.pid]
      BY <1>1, <1>12, ConstantFacts
    <3>2. ASSUME Asleep(sch', c.pid) PROVE BlockedForMark(c.pid)'
      <4>1. SomeMark(c.pid)'
        BY <1>1, <2>2, <2>3, <3>2 DEF SomeMark, Mark
      <4> QED BY <1>1, <1>5, <1>6, <1>7, <1>8, <4>1 DEF BlockedForMark
    <3> QED BY <1>1, <1>8, <3>1, <3>2 DEF Good, Sleepers
  <2> QED BY <2>1, <2>4, <2>5, <2>6, SleepersKept
<1> QED BY <1>9, <1>13, <1>14, <1>15, <1>17, <1>18, <1>20, <1>21 DEF Good

----------------------------------------------------------------------------
(* The end of a close, and proc_kill *)

\* The descriptors of a dying process are closed from the first to the last.
LEMMA NextFdFacts ==
  ASSUME NEW pid \in Pids, NEW fd \in FDs \cup {-1}
  PROVE  /\ \A next \in FDs : next \in NextFd(pid, fd) <=> next > fd /\ fds[pid][next] = "pipe"
         /\ NextFd(pid, fd) \subseteq FDs
         /\ NextFd(pid, fd) # {} =>
              /\ Min(NextFd(pid, fd)) \in NextFd(pid, fd) /\ Min(NextFd(pid, fd)) \in FDs
              /\ \A next \in NextFd(pid, fd) : Min(NextFd(pid, fd)) <= next
<1> DEFINE nexts == NextFd(pid, fd)
<1>1. /\ \A next \in FDs : next \in nexts <=> next > fd /\ fds[pid][next] = "pipe"
      /\ nexts \subseteq FDs
  BY PipeAssumption DEF NextFd, FDs
<1>2. FDs \subseteq Nat
  BY DEF FDs
<1> HIDE DEF nexts
<1>3. nexts # {} => Min(nexts) \in nexts /\ \A next \in nexts : Min(nexts) <= next
  BY <1>1, <1>2, MinFacts
<1> QED BY <1>1, <1>3 DEF nexts

LEMMA FinishCloseKeepsGood ==
  ASSUME Good, FinishClose, ~stray'
  PROVE  Good'
<1> PICK c : c = closing
  OBVIOUS
<1> DEFINE id == c.pipe
           nexts == NextFd(c.pid, c.fd)
           freed == id \in DOMAIN pipes /\ FreesPipe(pipes[id])
<1>1. /\ c.op = "close" /\ c.step = "finish" /\ c \in Closes /\ CloseInv(c) /\ c # NONE
      /\ c.pid \in Pids /\ c.fd \in FDs /\ c.dying \in BOOLEAN /\ SchInv(sch) /\ Typed
      /\ UNCHANGED <<live, waiting>>
      /\ fds' = [fds EXCEPT ![c.pid][c.fd] = "none"]
      /\ closing' = IF ~c.dying THEN NONE
                    ELSE IF nexts = {} THEN [op |-> "die", pid |-> c.pid]
                    ELSE CloseOf(c.pid, Min(nexts), TRUE)
      /\ IF freed
         THEN PipeFree(sch, id) /\ stray' = (stray \/ SleptIn(id))
         ELSE UNCHANGED <<sch, pipes, pipe_fd_table, stray>>
  BY WhatFacts DEF FinishClose, Good, ClosingInv, Typed
<1>2. \A pid \in Pids : ~Mark(closing, pid)
  BY <1>1 DEF Mark
<1>3. /\ SchInv(sch') /\ sch'.rsp = sch.rsp /\ sch'.current = sch.current
      /\ pipe_fd_table' = pipe_fd_table
      /\ DOMAIN pipes' \subseteq DOMAIN pipes /\ pipes' \in [DOMAIN pipes' -> PipeInfo]
      /\ \A other \in DOMAIN pipes' : pipes'[other] = pipes[other]
      /\ \A k \in Contexts : waiting[k].op = "close" => waiting[k].pipe \in DOMAIN pipes'
      /\ \A entry \in pipe_fd_table : entry.pipe_id \in DOMAIN pipes'
      /\ Sleepers'
  <2>1. \A k \in Contexts : waiting[k].op = "close" => waiting[k].pipe \in DOMAIN pipes
    BY DEF Good, WaitingCloses, CloseInv
  <2>2. \A entry \in pipe_fd_table : entry.pipe_id \in DOMAIN pipes
    BY DEF Good, Table
  <2>3. CASE freed
    <3>1. id \in DOMAIN pipes /\ PipeFree(sch, id) /\ ~SleptIn(id)
      BY <1>1, <2>3
    <3>2. pipes[id].readers = 0 /\ pipes[id].writers = 0
      BY <2>3 DEF FreesPipe
    <3>3. Cardinality(Ends(pipe_fd_table, id, TRUE)) = 0 /\ Cardinality(Ends(pipe_fd_table, id, FALSE)) = 0
      BY <3>1, <3>2 DEF Good, Counted
    <3>4. \A entry \in pipe_fd_table : entry.pipe_id # id
      <4>1. pipe_fd_table \in SUBSET PipeFds /\ Unique(pipe_fd_table)
        BY <1>1 DEF Good, Typed, Table
      <4> HIDE DEF id
      <4> QED BY <3>3, <4>1, NoEndsLeft
    <3> HIDE DEF id
    <3>5. /\ SchInv(sch') /\ sch'.rsp = sch.rsp /\ sch'.current = sch.current
          /\ pipe_fd_table' = pipe_fd_table
          /\ DOMAIN pipes' = DOMAIN pipes \ {id} /\ pipes' \in [DOMAIN pipes' -> PipeInfo]
          /\ \A other \in DOMAIN pipes' : pipes'[other] = pipes[other]
          /\ \A k \in Contexts : waiting[k].op = "close" => waiting[k].pipe # id
          /\ Sleepers'
      BY <1>1, <1>2, <3>1, <3>4, PipeFreeFacts
    <3> QED BY <2>1, <2>2, <3>4, <3>5
  <2>4. CASE ~freed
    <3>1. UNCHANGED <<sch, pipes, pipe_fd_table, waiting>>
      BY <1>1, <2>4
    <3>2. \A x \in Pids : BlockedForMark(x) => BlockedForMark(x)'
      BY <1>2, <3>1 DEF BlockedForMark, SomeMark, Mark
    <3>3. Sleepers'
      BY <3>1, <3>2 DEF Good, Sleepers, WellAsleep
    <3> QED BY <1>1, <2>1, <2>2, <3>1, <3>3 DEF Typed
  <2> QED BY <2>3, <2>4
<1> HIDE DEF freed, id
<1>4. \A x \in Pids, f \in FDs : fds'[x][f] = IF x = c.pid /\ f = c.fd THEN "none" ELSE fds[x][f]
  BY <1>1 DEF Typed
<1>5. /\ \A next \in FDs : next \in nexts <=> next > c.fd /\ fds[c.pid][next] = "pipe"
      /\ nexts # {} => Min(nexts) \in nexts /\ Min(nexts) \in FDs /\ \A next \in nexts : Min(nexts) <= next
  BY <1>1, NextFdFacts
<1> PICK n : n = Min(nexts)
  OBVIOUS
<1> HIDE DEF nexts
<1> PICK d : d = closing'
  OBVIOUS
<1>6. \/ ~c.dying /\ d = NONE
      \/ c.dying /\ nexts = {} /\ d.op = "die" /\ d.pid = c.pid /\ d \in [op : {"die"}, pid : Pids]
      \/ /\ c.dying /\ nexts # {} /\ d \in Closes /\ d.op = "close" /\ d.pid = c.pid /\ d.fd = n
         /\ d.dying = TRUE /\ d.step = "close"
  <2>1. CASE ~c.dying
    BY <1>1, <2>1
  <2>2. CASE c.dying /\ nexts = {}
    BY <1>1, <2>2
  <2>3. CASE c.dying /\ nexts # {}
    <3>1. d = CloseOf(c.pid, n, TRUE)
      BY <1>1, <2>3
    <3> QED BY <1>1, <1>5, <2>3, <3>1 DEF CloseOf, Closes
  <2> QED BY <2>1, <2>2, <2>3
<1>7. /\ NONE.op = "none" /\ c.pid \in live /\ ~HasEntry(c.pid, c.fd)
      /\ c.dying =>
           /\ ~IsActive(sch, c.pid)
           /\ \A f \in FDs : fds[c.pid][f] = "pipe" => f = c.fd \/ (f > c.fd /\ HasEntry(c.pid, f))
  BY <1>1, WhatFacts DEF CloseInv
<1>8. \A x, f : HasEntry(x, f)' <=> HasEntry(x, f)
  BY <1>3 DEF HasEntry
<1>9. \A x \in Pids : IsActive(sch', x) <=> IsActive(sch, x)
  BY <1>3 DEF IsActive
<1>10. Typed'
  <2>1. fds' \in [Pids -> [FDs -> {"none", "device", "pipe"}]]
    BY <1>1 DEF Typed
  <2>2. closing' \in {NONE} \cup Closes \cup [op : {"die"}, pid : Pids]
    BY <1>6
  <2> QED BY <1>1, <1>3, <2>1, <2>2 DEF Typed
<1>11. Table' /\ Counted'
  <2>1. \A entry \in pipe_fd_table :
          /\ entry.pid \in Pids /\ entry.fd \in FDs /\ ~(entry.pid = c.pid /\ entry.fd = c.fd)
          /\ fds[entry.pid][entry.fd] = "pipe"
    BY <1>1, <1>7 DEF HasEntry, Typed, PipeFds, Good, Table
  <2>2. Table'
    BY <1>1, <1>3, <1>4, <2>1 DEF Good, Table, Unique
  <2>3. Counted'
    BY <1>3 DEF Good, Counted, Ends
  <2> QED BY <2>2, <2>3
<1>12. Slots'
  <2>1. \A x \in Pids \ live', f \in FDs : fds'[x][f] # "pipe"
    BY <1>1, <1>4 DEF Good, Slots
  <2>2. sch'.current = KILLED_PROC_PID => d.op = "die" \/ (d.op = "close" /\ d.dying)
    BY <1>1, <1>3, <1>6 DEF Good, Slots
  <2>3. sch'.current \in Contexts => waiting'[sch'.current] = NONE
    BY <1>1, <1>3 DEF Good, Slots
  <2> QED BY <1>1, <1>9, <2>1, <2>2, <2>3 DEF Good, Slots
<1>13. Mapped'
  <2> SUFFICES ASSUME NEW x \in live', NEW f \in FDs, fds'[x][f] = "pipe", IsActive(sch', x)
               PROVE  SomeClose(x, f)' \/ HasEntry(x, f)'
    BY DEF Mapped
  <2>1. x \in live /\ x \in Pids /\ IsActive(sch, x)
    BY <1>1, <1>9 DEF Typed
  <2>2. ~(x = c.pid /\ f = c.fd) /\ fds[x][f] = "pipe"
    BY <1>4, <2>1
  <2>3. SomeClose(x, f) \/ HasEntry(x, f)
    BY <2>1, <2>2 DEF Good, Mapped
  <2>4. SomeClose(x, f) => SomeClose(x, f)'
    BY <1>1, <2>2 DEF SomeClose, Closing
  <2> QED BY <1>8, <2>3, <2>4
<1>14. ClosingInv'
  <2>1. d.op = "die" =>
          /\ d.pid \in live' /\ ~IsActive(sch', d.pid)
          /\ \A f \in FDs : fds'[d.pid][f] # "pipe"
    <3> SUFFICES ASSUME d.op = "die"
                 PROVE  /\ d.pid \in live' /\ ~IsActive(sch', d.pid)
                        /\ \A f \in FDs : fds'[d.pid][f] # "pipe"
      OBVIOUS
    <3>1. c.dying /\ nexts = {} /\ d.pid = c.pid
      BY <1>6, <1>7
    <3>2. \A f \in FDs : fds'[c.pid][f] # "pipe"
      BY <1>1, <1>4, <1>5, <1>7, <3>1
    <3> QED BY <1>1, <1>7, <1>9, <3>1, <3>2
  <2>2. d.op = "close" => CloseInv(d)'
    <3> SUFFICES ASSUME d.op = "close" PROVE CloseInv(d)'
      OBVIOUS
    <3>1. c.dying /\ nexts # {} /\ d.pid = c.pid /\ d.fd = n /\ d.step = "close" /\ d.dying = TRUE
      BY <1>6, <1>7
    <3>2. n \in FDs /\ n > c.fd /\ fds[c.pid][n] = "pipe" /\ HasEntry(c.pid, n) /\ n # c.fd
      <4>1. n \in FDs /\ n > c.fd /\ fds[c.pid][n] = "pipe"
        BY <1>5, <3>1
      <4>2. n # c.fd
        BY <1>1, <4>1 DEF FDs
      <4> QED BY <1>7, <3>1, <4>1, <4>2
    <3>3. fds'[c.pid][n] = "pipe" /\ HasEntry(c.pid, n)'
      BY <1>1, <1>4, <1>8, <3>2
    <3>4. \A f \in FDs : fds'[c.pid][f] = "pipe" => f = n \/ (f > n /\ HasEntry(c.pid, f)')
      <4> SUFFICES ASSUME NEW f \in FDs, fds'[c.pid][f] = "pipe"
                   PROVE  f = n \/ (f > n /\ HasEntry(c.pid, f)')
        OBVIOUS
      <4>1. fds[c.pid][f] = "pipe" /\ f # c.fd
        BY <1>1, <1>4
      <4>2. f > c.fd /\ HasEntry(c.pid, f)'
        BY <1>7, <1>8, <3>1, <4>1
      <4>3. n <= f
        BY <1>5, <3>1, <4>1, <4>2
      <4> QED BY <3>2, <4>2, <4>3 DEF FDs
    <3>5. d.pid \in live' /\ fds'[d.pid][d.fd] = "pipe" /\ HasEntry(d.pid, d.fd)' /\ ~IsActive(sch', d.pid)
      BY <1>1, <1>7, <1>9, <3>1, <3>3
    <3>6. \A f \in FDs : fds'[d.pid][f] = "pipe" => f = d.fd \/ (f > d.fd /\ HasEntry(d.pid, f)')
      BY <3>1, <3>4
    <3> QED BY <3>1, <3>5, <3>6 DEF CloseInv, HasEntry
  <2>3. closing'.op = "close" => CloseInv(closing)'
    BY <2>2 DEF CloseInv, HasEntry
  <2> QED BY <2>1, <2>3 DEF ClosingInv
<1>15. WaitingCloses'
  <2> SUFFICES ASSUME NEW k \in Contexts, waiting[k].op = "close"
               PROVE  /\ CloseInv(waiting[k])' /\ waiting[k].step = "eof"
                      /\ d.op = "close" => Apart(waiting[k], d)
                      /\ d.op = "die" => waiting[k].pid # d.pid
                      /\ \A l \in Contexts \ {k} : waiting[l].op = "close" => Apart(waiting[k], waiting[l])
    BY <1>1 DEF WaitingCloses
  <2> PICK e : e = waiting[k]
    OBVIOUS
  <2>1. /\ CloseInv(e) /\ e.step = "eof" /\ Apart(e, c)
        /\ \A l \in Contexts \ {k} : waiting[l].op = "close" => Apart(e, waiting[l])
    BY <1>1 DEF Good, WaitingCloses
  <2>2. e \in Closes /\ e.pid \in Pids /\ e.fd \in FDs
    BY <1>1, WhatFacts DEF Typed
  <2>3. d.op \in {"close", "die"} => c.dying /\ d.pid = c.pid /\ e.pid # c.pid
    BY <1>6, <1>7, <2>1 DEF Apart
  <2>4. CloseInv(e)'
    <3>1. e.pid \in live' /\ fds'[e.pid][e.fd] = "pipe" /\ e.pipe \in DOMAIN pipes' /\ ~HasEntry(e.pid, e.fd)'
      BY <1>1, <1>3, <1>4, <1>8, <2>1, <2>2 DEF CloseInv, Apart
    <3>2. e.dying =>
            /\ ~IsActive(sch', e.pid)
            /\ \A f \in FDs : fds'[e.pid][f] = "pipe" => f = e.fd \/ (f > e.fd /\ HasEntry(e.pid, f)')
      <4>1. e.dying => e.pid # c.pid
        BY <2>1 DEF Apart
      <4> QED BY <1>4, <1>8, <1>9, <2>1, <2>2, <4>1 DEF CloseInv
    <3> QED BY <2>1, <3>1, <3>2 DEF CloseInv, HasEntry
  <2>5. CloseInv(waiting[k])'
    BY <1>1, <2>4 DEF CloseInv, HasEntry
  <2> QED BY <2>1, <2>3, <2>5 DEF Apart
<1> QED BY <1>3, <1>10, <1>11, <1>12, <1>13, <1>14, <1>15 DEF Good

LEMMA StartKillKeepsGood ==
  ASSUME Good, closing = NONE, ~Resuming, sch.current # KILLED_PROC_PID,
         NEW pid \in Pids, IsActive(sch, pid), NEW status \in ExitStatuses,
         StartKill(pid, status), ~stray'
  PROVE  Good'
<1> DEFINE waiters == {w \in Pids : waiting[w].op = "waitpid" /\ waiting[w].pid = pid}
           queue == SetToSeq(waiters)
           s == SchOnProcessKilled(sch, pid, status)
           nexts == NextFd(pid, -1)
<1>1. /\ sch' = QueueUnblockAll(s, queue) /\ waiting' = [waiting EXCEPT ![pid] = NONE]
      /\ closing' = IF nexts = {} THEN [op |-> "die", pid |-> pid] ELSE CloseOf(pid, Min(nexts), TRUE)
      /\ UNCHANGED <<live, fds, pipes, pipe_fd_table>>
      /\ \A k \in Contexts : waiting[k].op = "close" => k # pid /\ waiting[k].pid # pid
  BY DEF StartKill
<1>2. Typed /\ SchInv(sch) /\ pid \in live
  BY DEF Good, Slots
<1>3. queue \in Seq(Int)
  <2>1. Pids \subseteq Int /\ IsFiniteSet(Pids)
    BY ConstantFacts
  <2>2. IsFiniteSet(waiters) /\ waiters \subseteq Int
    BY <2>1, FS_Subset
  <2> HIDE DEF waiters
  <2>3. queue \in Seq(waiters)
    BY <2>2, SetToSeqFacts
  <2> HIDE DEF queue
  <2> QED BY <2>2, <2>3, SeqMonotonic
<1> HIDE DEF queue, waiters
<1>4. /\ SchInv(s) /\ s.rsp = [sch.rsp EXCEPT ![pid] = NULL]
      /\ s.current = IF sch.current = pid THEN KILLED_PROC_PID ELSE sch.current
      /\ \A q \in Pids : Asleep(s, q) <=> Asleep(sch, q) /\ q # pid
  BY <1>2, KilledFacts
<1> HIDE DEF s
<1>5. /\ SchInv(sch') /\ sch'.rsp = [sch.rsp EXCEPT ![pid] = NULL]
      /\ sch'.current = IF sch.current = pid THEN KILLED_PROC_PID ELSE sch.current
      /\ \A q \in Pids : Asleep(sch', q) => Asleep(sch, q) /\ q # pid
  <2>1. /\ SchInv(sch') /\ sch'.rsp = s.rsp /\ sch'.current = s.current
        /\ \A q \in Pids : Asleep(sch', q) <=> Asleep(s, q) /\ q \notin Range(queue)
    BY <1>1, <1>3, <1>4, UnblockAllFacts
  <2> QED BY <1>4, <2>1
<1>6. \A q \in Pids : IsActive(sch', q) <=> IsActive(sch, q) /\ q # pid
  <2>1. sch.rsp \in [Pids -> Pids \cup {NULL}]
    BY <1>2 DEF SchInv, SchStates
  <2> QED BY <1>5, <2>1 DEF IsActive
<1>7. /\ \A k \in Contexts : waiting'[k] = IF k = pid THEN NONE ELSE waiting[k]
      /\ waiting' \in [Contexts -> {NONE} \cup Calls \cup Closes]
      /\ NONE.op = "none" /\ NONE \notin Calls /\ pid \in Contexts
  <2>1. NONE.op = "none" /\ NONE \notin Calls
    BY WhatFacts DEF Calls
  <2> QED BY <1>1, <1>2, <2>1, ConstantFacts DEF Typed
<1>8. /\ \A next \in FDs : next \in nexts <=> next > -1 /\ fds[pid][next] = "pipe"
      /\ nexts # {} => Min(nexts) \in nexts /\ Min(nexts) \in FDs /\ \A next \in nexts : Min(nexts) <= next
  <2> PICK before \in FDs \cup {-1} : before = -1
    OBVIOUS
  <2> QED BY NextFdFacts
<1>9. \A next \in FDs : next \in nexts <=> fds[pid][next] = "pipe"
  BY <1>8 DEF FDs
<1> PICK n : n = Min(nexts)
  OBVIOUS
<1> HIDE DEF nexts
<1> PICK d : d = closing'
  OBVIOUS
<1>10. \/ nexts = {} /\ d.op = "die" /\ d.pid = pid /\ d \in [op : {"die"}, pid : Pids]
       \/ /\ nexts # {} /\ d \in Closes /\ d.op = "close" /\ d.pid = pid /\ d.fd = n
          /\ d.dying = TRUE /\ d.step = "close"
  <2>1. CASE nexts = {}
    BY <1>1, <2>1
  <2>2. CASE nexts # {}
    <3>1. d = CloseOf(pid, n, TRUE)
      BY <1>1, <2>2
    <3> QED BY <1>8, <2>2, <3>1 DEF CloseOf, Closes
  <2> QED BY <2>1, <2>2
<1>11. Typed' /\ Table' /\ Counted'
  <2>1. waiting'[KERNEL_PROC_PID] \notin Calls
    BY <1>2, <1>7, ConstantFacts DEF Typed
  <2>2. closing' \in {NONE} \cup Closes \cup [op : {"die"}, pid : Pids]
    BY <1>10
  <2> QED BY <1>1, <1>2, <1>7, <2>1, <2>2 DEF Good, Typed, Table, Counted
<1>12. Slots'
  <2>1. sch'.current \in Contexts => waiting'[sch'.current] = NONE
    <3>1. KILLED_PROC_PID \notin Contexts
      BY ConstantFacts
    <3>2. sch.current \in Contexts => waiting[sch.current] = NONE
      BY DEF Resuming
    <3> QED BY <1>5, <1>7, <3>1, <3>2
  <2>2. \A q \in Pids : waiting'[q] # NONE => IsActive(sch', q)
    BY <1>6, <1>7, ConstantFacts DEF Good, Slots
  <2>3. d.op = "die" \/ (d.op = "close" /\ d.dying)
    BY <1>10
  <2> QED BY <1>1, <1>6, <2>1, <2>2, <2>3 DEF Good, Slots
<1>13. \A x \in Pids, f \in FDs : ~Closing(closing, x, f)
  BY <1>7 DEF Closing
<1>14. Mapped'
  <2> SUFFICES ASSUME NEW x \in live', NEW f \in FDs, fds'[x][f] = "pipe", IsActive(sch', x)
               PROVE  SomeClose(x, f)' \/ HasEntry(x, f)'
    BY DEF Mapped
  <2>1. x \in live /\ x \in Pids /\ IsActive(sch, x)
    BY <1>1, <1>2, <1>6 DEF Typed
  <2>2. SomeClose(x, f) \/ HasEntry(x, f)
    BY <1>1, <2>1 DEF Good, Mapped
  <2>3. ASSUME SomeClose(x, f) PROVE SomeClose(x, f)'
    <3>1. PICK k \in Contexts : Closing(waiting[k], x, f)
      BY <1>13, <2>1, <2>3 DEF SomeClose
    <3>2. waiting'[k] = waiting[k]
      BY <1>1, <1>7, <3>1 DEF Closing
    <3> QED BY <3>1, <3>2 DEF SomeClose, Closing
  <2> QED BY <1>1, <2>2, <2>3 DEF HasEntry
<1>15. \A f \in FDs : fds[pid][f] = "pipe" => HasEntry(pid, f)
  <2> SUFFICES ASSUME NEW f \in FDs, fds[pid][f] = "pipe" PROVE HasEntry(pid, f)
    OBVIOUS
  <2>1. ~SomeClose(pid, f)
    BY <1>1, <1>13 DEF SomeClose, Closing
  <2> QED BY <1>2, <2>1 DEF Good, Mapped
<1>16. ClosingInv'
  <2>1. d.op = "die" =>
          /\ d.pid \in live' /\ ~IsActive(sch', d.pid)
          /\ \A f \in FDs : fds'[d.pid][f] # "pipe"
    BY <1>1, <1>2, <1>6, <1>9, <1>10
  <2>2. d.op = "close" => CloseInv(d)'
    <3> SUFFICES ASSUME d.op = "close" PROVE CloseInv(d)'
      OBVIOUS
    <3>1. nexts # {} /\ d.pid = pid /\ d.fd = n /\ d.step = "close" /\ d.dying = TRUE
      BY <1>10
    <3>2. n \in FDs /\ fds[pid][n] = "pipe" /\ HasEntry(pid, n)
      BY <1>8, <1>9, <1>15, <3>1
    <3>3. \A f \in FDs : fds[pid][f] = "pipe" => f = n \/ (f > n /\ HasEntry(pid, f))
      BY <1>8, <1>9, <1>15, <3>1, <3>2 DEF FDs
    <3>4. \A f : HasEntry(pid, f)' <=> HasEntry(pid, f)
      BY <1>1 DEF HasEntry
    <3>5. d.pid \in live' /\ fds'[d.pid][d.fd] = "pipe" /\ HasEntry(d.pid, d.fd)' /\ ~IsActive(sch', d.pid)
      BY <1>1, <1>2, <1>6, <3>1, <3>2, <3>4
    <3>6. \A f \in FDs : fds'[d.pid][f] = "pipe" => f = d.fd \/ (f > d.fd /\ HasEntry(d.pid, f)')
      BY <1>1, <3>1, <3>3, <3>4
    <3> QED BY <3>1, <3>5, <3>6 DEF CloseInv, HasEntry
  <2>3. closing'.op = "close" => CloseInv(closing)'
    BY <2>2 DEF CloseInv, HasEntry
  <2> QED BY <2>1, <2>3 DEF ClosingInv
<1>17. WaitingCloses'
  <2> SUFFICES ASSUME NEW k \in Contexts, waiting'[k].op = "close"
               PROVE  /\ CloseInv(waiting[k])' /\ waiting'[k].step = "eof"
                      /\ d.op = "close" => Apart(waiting'[k], d)
                      /\ d.op = "die" => waiting'[k].pid # d.pid
                      /\ \A l \in Contexts \ {k} : waiting'[l].op = "close" => Apart(waiting'[k], waiting'[l])
    BY DEF WaitingCloses
  <2> PICK e : e = waiting'[k]
    OBVIOUS
  <2>1. k # pid /\ e = waiting[k] /\ e.op = "close" /\ e.pid # pid
    BY <1>1, <1>7
  <2>2. /\ CloseInv(e) /\ e.step = "eof"
        /\ \A l \in Contexts \ {k} : waiting[l].op = "close" => Apart(e, waiting[l])
        /\ e \in Closes /\ e.pid \in Pids
    BY <1>2, <2>1, WhatFacts DEF Good, WaitingCloses, Typed
  <2>3. CloseInv(e)'
    BY <1>1, <1>6, <2>1, <2>2 DEF CloseInv, HasEntry
  <2>4. CloseInv(waiting[k])'
    BY <2>3 DEF CloseInv, HasEntry
  <2>5. \A l \in Contexts \ {k} : waiting'[l].op = "close" => Apart(e, waiting'[l])
    BY <1>7, <2>2
  <2> QED BY <1>10, <2>1, <2>2, <2>4, <2>5 DEF Apart
<1>18. Sleepers'
  <2> PICK nobody : nobody \notin Contexts
    BY ConstantFacts
  <2>1. \A x \in Pids : x # nobody /\ waiting'[x].op \in {"read", "write"} =>
          /\ waiting'[x] = waiting[x] /\ waiting[x].pipe \in DOMAIN pipes'
          /\ Asleep(sch', x) => Asleep(sch, x)
    BY <1>1, <1>5, <1>7, ConstantFacts DEF Good, Sleepers
  <2>2. \A x \in Pids : x # nobody /\ Asleep(sch', x) /\ BlockedForMark(x) =>
          0 \in DOMAIN pipes' /\ SomeMark(x)'
    <3> SUFFICES ASSUME NEW x \in Pids, BlockedForMark(x)
                 PROVE  0 \in DOMAIN pipes' /\ SomeMark(x)'
      OBVIOUS
    <3>1. PICK k \in Contexts : Mark(waiting[k], x)
      BY <1>7 DEF BlockedForMark, SomeMark, Mark
    <3>2. waiting'[k] = waiting[k]
      BY <1>1, <1>7, <3>1 DEF Mark
    <3> QED BY <1>1, <3>1, <3>2 DEF BlockedForMark, SomeMark, Mark
  <2>3. \A other \in DOMAIN pipes, x \in Pids : other \in DOMAIN pipes' /\ x # nobody /\ Asleep(sch', x) =>
          /\ pipes[other].bytes_to_read = 0 /\ x \in Range(pipes[other].rd_q)
               => pipes'[other].bytes_to_read = 0 /\ x \in Range(pipes'[other].rd_q)
          /\ pipes[other].bytes_to_read = BUFFER_MAX_SIZE /\ x \in Range(pipes[other].wr_q)
               => pipes'[other].bytes_to_read = BUFFER_MAX_SIZE /\ x \in Range(pipes'[other].wr_q)
    BY <1>1
  <2>4. nobody \notin Pids
    BY ConstantFacts
  <2> QED BY <2>1, <2>2, <2>3, <2>4, SleepersKept
<1> QED BY <1>5, <1>11, <1>12, <1>14, <1>16, <1>17, <1>18 DEF Good

LEMMA KillKeepsGood ==
  ASSUME Good, NEW pid \in Pids, NEW status \in ExitStatuses, Kill(pid, status), ~stray'
  PROVE  Good'
<1>1. closing = NONE /\ ~Resuming /\ IsActive(sch, pid) /\ StartKill(pid, status)
  BY DEF Kill, Interruptible
<1>2. sch.current # KILLED_PROC_PID
  BY <1>1, CurrentFacts
<1> QED BY <1>1, <1>2, StartKillKeepsGood

LEMMA ExitKeepsGood ==
  ASSUME Good, NEW status \in ExitStatuses, Exit(status), ~stray'
  PROVE  Good'
<1> PICK me \in Pids : me = sch.current
  BY DEF Exit, SystemCall
<1>1. closing = NONE /\ ~Resuming /\ StartKill(me, status)
  BY DEF Exit, SystemCall, Interruptible
<1>2. sch.current # KILLED_PROC_PID /\ IsActive(sch, me)
  BY <1>1, CurrentFacts
<1> QED BY <1>1, <1>2, StartKillKeepsGood

LEMMA FinishKillKeepsGood ==
  ASSUME Good, FinishKill
  PROVE  Good'
<1> PICK pid : pid = closing.pid
  OBVIOUS
<1>1. /\ closing.op = "die" /\ pid \in Pids /\ pid \in live /\ ~IsActive(sch, pid)
      /\ \A f \in FDs : fds[pid][f] # "pipe"
      /\ live' = live \ {pid}
      /\ fds' = [fds EXCEPT ![pid] = [f \in FDs |-> IF f < 3 THEN "device" ELSE "none"]]
      /\ closing' = NONE /\ UNCHANGED <<pipes, pipe_fd_table, waiting>>
      /\ IF sch.current = KILLED_PROC_PID THEN SchYield(sch, sch') ELSE UNCHANGED sch
      /\ SchInv(sch) /\ Typed /\ sch.current \in Contexts \cup {KILLED_PROC_PID}
  BY WhatFacts, CurrentFacts DEF FinishKill, Good, ClosingInv, Typed
<1>2. /\ SchInv(sch') /\ sch'.rsp = sch.rsp /\ sch'.current # KILLED_PROC_PID
      /\ \A x \in Pids : Asleep(sch', x) <=> Asleep(sch, x)
      /\ \A x \in Pids : IsActive(sch', x) <=> IsActive(sch, x)
  <2>1. CASE sch.current = KILLED_PROC_PID
    BY <1>1, <2>1, YieldFacts, ConstantFacts DEF IsActive
  <2>2. CASE sch.current # KILLED_PROC_PID
    BY <1>1, <2>2
  <2> QED BY <2>1, <2>2
<1>3. /\ \A x \in Pids : x # pid => fds'[x] = fds[x]
      /\ fds' \in [Pids -> [FDs -> {"none", "device", "pipe"}]]
      /\ \A f \in FDs : fds'[pid][f] # "pipe"
  BY <1>1 DEF Typed
<1>4. \A x \in Pids, f \in FDs : fds'[x][f] = "pipe" <=> x # pid /\ fds[x][f] = "pipe"
  BY <1>1, <1>3
<1>5. Typed'
  BY <1>1, <1>3 DEF Typed
<1>6. Table' /\ Counted'
  <2>1. \A entry \in pipe_fd_table : entry.pid \in Pids /\ entry.fd \in FDs /\ entry.pid # pid
    BY <1>1 DEF Typed, PipeFds, Good, Table
  <2>2. Table'
    BY <1>1, <1>4, <2>1 DEF Good, Table, Unique
  <2> QED BY <1>1, <2>2 DEF Good, Counted, Ends
<1>7. \A x, f : HasEntry(x, f)' <=> HasEntry(x, f)
  BY <1>1 DEF HasEntry
<1>8. Slots'
  <2>1. \A x \in Pids : IsActive(sch', x) => x \in live'
    BY <1>1, <1>2 DEF Good, Slots
  <2>2. \A x \in Pids \ live', f \in FDs : fds'[x][f] # "pipe"
    BY <1>1, <1>4 DEF Good, Slots
  <2>3. \A x \in Pids : waiting'[x] # NONE => IsActive(sch', x)
    BY <1>1, <1>2 DEF Good, Slots
  <2> QED BY <1>1, <1>2, <2>1, <2>2, <2>3 DEF Slots
<1>9. Mapped'
  <2> SUFFICES ASSUME NEW x \in live', NEW f \in FDs, fds'[x][f] = "pipe", IsActive(sch', x)
               PROVE  SomeClose(x, f)' \/ HasEntry(x, f)'
    BY DEF Mapped
  <2>1. x \in live /\ x \in Pids /\ IsActive(sch, x) /\ fds[x][f] = "pipe"
    BY <1>1, <1>2, <1>4 DEF Typed
  <2>2. SomeClose(x, f) \/ HasEntry(x, f)
    BY <2>1 DEF Good, Mapped
  <2> QED BY <1>1, <1>7, <2>2 DEF SomeClose, Closing
<1>10. ClosingInv'
  BY <1>1, WhatFacts DEF ClosingInv
<1>11. WaitingCloses'
  <2> SUFFICES ASSUME NEW k \in Contexts, waiting[k].op = "close"
               PROVE  /\ CloseInv(waiting[k])' /\ waiting[k].step = "eof"
                      /\ \A l \in Contexts \ {k} : waiting[l].op = "close" => Apart(waiting[k], waiting[l])
    BY <1>1, WhatFacts DEF WaitingCloses
  <2> PICK e : e = waiting[k]
    OBVIOUS
  <2>1. /\ CloseInv(e) /\ e.step = "eof" /\ e.pid # pid
        /\ \A l \in Contexts \ {k} : waiting[l].op = "close" => Apart(e, waiting[l])
    BY <1>1 DEF Good, WaitingCloses
  <2>2. e.pid \in Pids /\ e.fd \in FDs
    BY <1>1, WhatFacts DEF Typed
  <2>3. CloseInv(e)'
    <3>1. e.pid \in live' /\ fds'[e.pid][e.fd] = "pipe" /\ e.pipe \in DOMAIN pipes' /\ ~HasEntry(e.pid, e.fd)'
      BY <1>1, <1>4, <1>7, <2>1, <2>2 DEF CloseInv
    <3>2. e.dying =>
            /\ ~IsActive(sch', e.pid)
            /\ \A f \in FDs : fds'[e.pid][f] = "pipe" => f = e.fd \/ (f > e.fd /\ HasEntry(e.pid, f)')
      BY <1>2, <1>4, <1>7, <2>1, <2>2 DEF CloseInv
    <3> QED BY <2>1, <3>1, <3>2 DEF CloseInv, HasEntry
  <2>4. CloseInv(waiting[k])'
    BY <1>1, <2>3 DEF CloseInv, HasEntry
  <2> QED BY <2>1, <2>4
<1>12. Sleepers'
  <2>1. \A x \in Pids : BlockedForMark(x) => BlockedForMark(x)'
    BY <1>1 DEF BlockedForMark, SomeMark, Mark
  <2> QED BY <1>1, <1>2, <2>1 DEF Good, Sleepers, WellAsleep
<1> QED BY <1>2, <1>5, <1>6, <1>8, <1>9, <1>10, <1>11, <1>12 DEF Good

----------------------------------------------------------------------------
(* The invariant of the specification *)

LEMMA InitEstablishesIInv == Init => IInv
<1> SUFFICES ASSUME Init PROVE IInv
  OBVIOUS
<1>1. SchInv(SchInit) /\ 0 \in Pids /\ SchInit.rsp[0] = NULL /\ SchInit.current # KILLED_PROC_PID
      /\ MAX_PRIORITY \in Int
  BY InitHasSchInv, ConstantFacts, SchedulerAssumption DEF SchInit, KERNEL_PROC_PID, KILLED_PROC_PID
<1>2. /\ SchInv(sch) /\ sch.rsp = [SchInit.rsp EXCEPT ![0] = 0] /\ sch.current = SchInit.current
  BY <1>1, CreateFacts DEF Init
<1>3. /\ sch.current # KILLED_PROC_PID
      /\ \A pid \in Pids : IsActive(sch, pid) => pid = 0
  BY <1>1, <1>2 DEF SchInit, IsActive
<1>4. /\ live = {0} /\ pipe_fd_table = {} /\ closing = NONE /\ stray = FALSE
      /\ DOMAIN pipes = {} /\ pipes \in [DOMAIN pipes -> PipeInfo]
      /\ fds \in [Pids -> [FDs -> {"none", "device", "pipe"}]]
      /\ \A pid \in Pids, fd \in FDs : fds[pid][fd] # "pipe"
      /\ waiting \in [Contexts -> {NONE} \cup Calls \cup Closes]
      /\ \A k \in Contexts : waiting[k] = NONE
      /\ NONE.op = "none" /\ NONE \notin Calls
  <2>1. NONE.op = "none" /\ NONE \notin Calls
    BY WhatFacts DEF Calls
  <2>2. DOMAIN pipes = {} /\ pipes \in [DOMAIN pipes -> PipeInfo]
    <3>1. pipes = <<>>
      BY DEF Init
    <3>2. pipes \in Seq(PipeInfo) /\ Len(pipes) = 0
      BY <3>1
    <3>3. DOMAIN pipes = 1 .. Len(pipes)
      BY <3>2, LenProperties
    <3>4. DOMAIN pipes = {}
      BY <3>2, <3>3
    <3>5. pipes \in [1 .. Len(pipes) -> PipeInfo]
      BY <3>2, LenProperties
    <3> QED BY <3>3, <3>4, <3>5
  <2> QED BY <2>1, <2>2 DEF Init
<1>5. Typed /\ Table /\ Counted
  <2>1. KERNEL_PROC_PID \in Contexts
    BY ConstantFacts
  <2> QED BY <1>1, <1>4, <2>1 DEF Typed, Table, Counted, Unique
<1>6. Slots
  BY <1>3, <1>4, ConstantFacts DEF Slots
<1>7. Mapped
  BY <1>4, <1>5 DEF Mapped, Typed
<1>8. ClosingInv /\ WaitingCloses /\ Sleepers
  BY <1>4, ConstantFacts DEF ClosingInv, WaitingCloses, Sleepers
<1> QED BY <1>2, <1>4, <1>5, <1>6, <1>7, <1>8 DEF Good, IInv

\* Once something has come to be stray it stays so.
LEMMA StrayFacts ==
  ASSUME stray \in BOOLEAN, Next
  PROVE  stray' \in BOOLEAN /\ (stray => stray')
<1>1. CASE \E pid \in Pids, name \in Names \cup {NULL} : PipeOpen(pid, name)
  BY <1>1 DEF PipeOpen, OpenFor, OpenForTheDead
<1>2. CASE \E name \in Names : PipeUnlink(name)
  BY <1>2 DEF PipeUnlink
<1>3. CASE \E pid \in Pids, from \in FDs, to \in DupTargets : Dup(pid, from, to)
  BY <1>3 DEF Dup
<1>4. CASE (\E fd \in FDs, count \in Counts : Read(fd, count)) \/ ContinueRead
  BY <1>4 DEF Read, ContinueRead, ReadRound
<1>5. CASE (\E fd \in FDs, data \in Messages : Write(fd, data)) \/ ContinueWrite
  BY <1>5 DEF Write, ContinueWrite, WriteRound
<1>6. CASE (\E pid \in Pids, fd \in FDs : Close(pid, fd)) \/ CloseEnd \/ WriteEof \/ WaitToWriteEof \/ ContinueClose
  BY <1>6 DEF Close, CloseEnd, WriteEof, WaitToWriteEof, ContinueClose
<1>7. CASE FinishClose
  BY <1>7 DEF FinishClose
<1>8. CASE (\E pid \in Pids, status \in ExitStatuses : Kill(pid, status)) \/ (\E status \in ExitStatuses : Exit(status))
  BY <1>8 DEF Kill, Exit, StartKill
<1>9. CASE \/ FinishKill \/ (\E pid \in Pids : Create(pid, DEFAULT_PRIORITY))
           \/ (\E pid \in Pids : Waitpid(pid)) \/ ReturnFromWaitpid \/ Tick
  BY <1>9 DEF FinishKill, Create, Waitpid, ReturnFromWaitpid, Tick, pipeVars
<1> QED BY <1>1, <1>2, <1>3, <1>4, <1>5, <1>6, <1>7, <1>8, <1>9 DEF Next

LEMMA NextKeepsGood ==
  ASSUME Good, Next, ~stray'
  PROVE  Good'
<1>1. ASSUME NEW pid \in Pids, NEW name \in Names \cup {NULL}, PipeOpen(pid, name) PROVE Good'
  BY <1>1, OpenForKeepsGood, OpenForTheDeadKeepsGood DEF PipeOpen
<1>2. ASSUME NEW name \in Names, PipeUnlink(name) PROVE Good'
  BY <1>2, PipeUnlinkKeepsGood
<1>3. ASSUME NEW pid \in Pids, NEW from \in FDs, NEW to \in DupTargets, Dup(pid, from, to) PROVE Good'
  BY <1>3, DupKeepsGood
<1>4. ASSUME NEW fd \in FDs, NEW count \in Counts, Read(fd, count) PROVE Good'
  BY <1>4, ReadKeepsGood
<1>5. ASSUME ContinueRead PROVE Good'
  BY <1>5, ContinueReadKeepsGood
<1>6. ASSUME NEW fd \in FDs, NEW data \in Messages, Write(fd, data) PROVE Good'
  BY <1>6, WriteKeepsGood
<1>7. ASSUME ContinueWrite PROVE Good'
  BY <1>7, ContinueWriteKeepsGood
<1>8. ASSUME NEW pid \in Pids, NEW fd \in FDs, Close(pid, fd) PROVE Good'
  BY <1>8, CloseKeepsGood
<1>9. ASSUME CloseEnd PROVE Good'
  BY <1>9, CloseEndKeepsGood
<1>10. ASSUME WriteEof PROVE Good'
  BY <1>10, WriteEofKeepsGood
<1>11. ASSUME WaitToWriteEof PROVE Good'
  BY <1>11, WaitToWriteEofKeepsGood
<1>12. ASSUME ContinueClose PROVE Good'
  BY <1>12, ContinueCloseKeepsGood
<1>13. ASSUME FinishClose PROVE Good'
  BY <1>13, FinishCloseKeepsGood
<1>14. ASSUME NEW pid \in Pids, NEW status \in ExitStatuses, Kill(pid, status) PROVE Good'
  BY <1>14, KillKeepsGood
<1>15. ASSUME NEW status \in ExitStatuses, Exit(status) PROVE Good'
  BY <1>15, ExitKeepsGood
<1>16. ASSUME FinishKill PROVE Good'
  BY <1>16, FinishKillKeepsGood
<1>17. ASSUME NEW pid \in Pids, Create(pid, DEFAULT_PRIORITY) PROVE Good'
  <2>1. DEFAULT_PRIORITY \in Int
    BY SchedulerAssumption
  <2> QED BY <1>17, <2>1, CreateKeepsGood
<1>18. ASSUME NEW pid \in Pids, Waitpid(pid) PROVE Good'
  BY <1>18, WaitpidKeepsGood
<1>19. ASSUME ReturnFromWaitpid PROVE Good'
  BY <1>19, ReturnFromWaitpidKeepsGood
<1>20. ASSUME Tick PROVE Good'
  BY <1>20, TickKeepsGood
<1> QED
  BY <1>1, <1>2, <1>3, <1>4, <1>5, <1>6, <1>7, <1>8, <1>9, <1>10, <1>11, <1>12, <1>13, <1>14,
     <1>15, <1>16, <1>17, <1>18, <1>19, <1>20 DEF Next

LEMMA NextKeepsIInv ==
  ASSUME IInv, [Next]_vars
  PROVE  IInv'
<1>1. CASE Next
  <2>1. stray' \in BOOLEAN /\ (stray => stray')
    BY <1>1, StrayFacts DEF IInv
  <2>2. ~stray' => Good'
    BY <1>1, <2>1, NextKeepsGood DEF IInv
  <2> QED BY <2>1, <2>2 DEF IInv
<1>2. CASE UNCHANGED vars
  <2>1. Good => Good'
    BY <1>2, NothingChanges DEF vars, pipeVars
  <2>2. stray' = stray
    BY <1>2 DEF vars, pipeVars
  <2> QED BY <2>1, <2>2 DEF IInv
<1> QED BY <1>1, <1>2

LEMMA Invariant == Spec => []IInv
<1>1. IInv /\ [Next]_vars => IInv'
  BY NextKeepsIInv
<1> QED BY <1>1, InitEstablishesIInv, PTL DEF Spec

(* The data of pipe.c has the types of its declarations, its buffers never hold more than
   they have room for, and the kernel itself is never in the middle of a read, write or
   waitpid, whatever processes do (pipe.c:24-48), until a pipe is freed that somebody has open. *)
THEOREM PipeTypeOK == Spec => [](~stray => TypeOK)
<1>1. IInv => (~stray => TypeOK)
  BY DEF IInv, Good, Typed, SchInv, TypeOK
<1> QED BY <1>1, Invariant, PTL

(* The counters of readers and writers agree with the descriptors, for any number of
   processes, pipes and descriptors (pipe.c:213-216, :456-466, :509-512). *)
THEOREM PipeEndsCounted == Spec => []EndsCounted
<1>1. IInv => EndsCounted
  <2> SUFFICES ASSUME IInv, ~stray
               PROVE  /\ \A id \in DOMAIN pipes :
                           /\ pipes[id].readers = Cardinality(EndsOf(id, TRUE))
                           /\ pipes[id].writers = Cardinality(EndsOf(id, FALSE))
                      /\ \A entry \in pipe_fd_table :
                           entry.pipe_id \in DOMAIN pipes /\ fds[entry.pid][entry.fd] = "pipe"
                      /\ \A pid \in live, fd \in FDs :
                           fds[pid][fd] = "pipe" /\ IsActive(sch, pid)
                           => \/ BeingClosed(pid, fd)
                              \/ \E entry \in pipe_fd_table : entry.pid = pid /\ entry.fd = fd
    BY DEF EndsCounted
  <2>1. Table /\ Counted /\ Mapped
    BY DEF IInv, Good
  <2>2. \A id, reading : EndsOf(id, reading) = Ends(pipe_fd_table, id, reading)
    BY DEF EndsOf, EntriesOf, Ends
  <2>3. /\ \A id \in DOMAIN pipes :
             /\ pipes[id].readers = Cardinality(EndsOf(id, TRUE))
             /\ pipes[id].writers = Cardinality(EndsOf(id, FALSE))
    BY <2>1, <2>2 DEF Counted
  <2>4. \A entry \in pipe_fd_table :
          entry.pipe_id \in DOMAIN pipes /\ fds[entry.pid][entry.fd] = "pipe"
    BY <2>1 DEF Table
  <2>5. \A pid \in live, fd \in FDs :
          fds[pid][fd] = "pipe" /\ IsActive(sch, pid)
          => \/ BeingClosed(pid, fd)
             \/ \E entry \in pipe_fd_table : entry.pid = pid /\ entry.fd = fd
    BY <2>1, BeingClosedFacts DEF Mapped, HasEntry
  <2> QED BY <2>3, <2>4, <2>5
<1> QED BY <1>1, Invariant, PTL

(* Nobody sleeps in read or write on a pipe that has bytes, or room, for him, or whose
   queue he is not in: no wakeup is lost between the test and the sleep, and no pipe is
   freed under a sleeper (pipe.c:415-419, :436-441). *)
THEOREM PipeNoLostWakeup == Spec => []NoLostWakeup
<1>1. IInv => NoLostWakeup
  <2> SUFFICES ASSUME IInv, ~stray, NEW pid \in Pids, waiting[pid].op \in {"read", "write"}
               PROVE  /\ waiting[pid].pipe \in DOMAIN pipes
                      /\ sch.status[pid] = "BLOCKED" /\ ~BlockedByAClose(pid) => WellAsleep(pid)
    BY DEF NoLostWakeup, WellAsleep
  <2>1. Sleepers /\ Slots /\ NONE.op = "none"
    BY WhatFacts DEF IInv, Good
  <2>2. waiting[pid].pipe \in DOMAIN pipes /\ IsActive(sch, pid)
    BY <2>1 DEF Sleepers, Slots
  <2>3. SomeMark(pid) => BlockedByAClose(pid)
    BY DEF SomeMark, Mark, BlockedByAClose
  <2>4. sch.status[pid] = "BLOCKED" /\ ~BlockedByAClose(pid) => WellAsleep(pid)
    BY <2>1, <2>2, <2>3 DEF Sleepers, Asleep, BlockedForMark
  <2> QED BY <2>2, <2>4
<1> QED BY <1>1, Invariant, PTL

----------------------------------------------------------------------------
(* The bytes of the circular buffer, in order *)

\* The place of the k-th byte of a circular buffer.
Cell(first, size, k) == ((first + k - 1) % size) + 1

LEMMA Wrap ==
  ASSUME NEW n \in Nat \ {0}, NEW x \in 0 .. 3 * n - 1
  PROVE  x % n = IF x < n THEN x ELSE IF x < 2 * n THEN x - n ELSE x - 2 * n
OBVIOUS

LEMMA CellFacts ==
  ASSUME NEW size \in Nat \ {0}, NEW first \in 0 .. size
  PROVE  /\ \A k \in 1 .. size : Cell(first, size, k) \in 1 .. size
         /\ \A k \in 1 .. size : Cell(first, size, k) = IF first + k <= size THEN first + k ELSE first + k - size
         /\ \A j, k \in 1 .. size : Cell(first, size, j) = Cell(first, size, k) => j = k
<1>1. ASSUME NEW k \in 1 .. size
      PROVE  Cell(first, size, k) = IF first + k <= size THEN first + k ELSE first + k - size
  <2> DEFINE x == first + k - 1
  <2>1. x \in 0 .. 3 * size - 1 /\ x < 2 * size
    OBVIOUS
  <2>2. x % size = IF x < size THEN x ELSE x - size
    <3> HIDE DEF x
    <3> QED BY <2>1, Wrap
  <2> QED BY <2>2 DEF Cell
<1> QED BY <1>1

\* After n bytes the next ones are where they were.
LEMMA CellShift ==
  ASSUME NEW size \in Nat \ {0}, NEW first \in 0 .. size, NEW n \in 0 .. size
  PROVE  \A i \in 1 .. size - n : Cell((first + n) % size, size, i) = Cell(first, size, n + i)
<1> PICK x : x = first + n
  OBVIOUS
<1> PICK s : s = x % size
  OBVIOUS
<1>1. x \in 0 .. 3 * size - 1
  OBVIOUS
<1>2. s = IF x < size THEN x ELSE IF x < 2 * size THEN x - size ELSE x - 2 * size
  BY <1>1, Wrap
<1>3. s \in 0 .. size
  BY <1>2
<1>4. /\ \A i \in 1 .. size : Cell(s, size, i) = IF s + i <= size THEN s + i ELSE s + i - size
      /\ \A i \in 1 .. size : Cell(first, size, i) = IF first + i <= size THEN first + i ELSE first + i - size
  <2>1. \A i \in 1 .. size : Cell(s, size, i) = IF s + i <= size THEN s + i ELSE s + i - size
    BY <1>3, CellFacts
  <2>2. \A i \in 1 .. size : Cell(first, size, i) = IF first + i <= size THEN first + i ELSE first + i - size
    BY CellFacts
  <2> QED BY <2>1, <2>2
<1>5. \A i \in 1 .. size - n : n + i \in 1 .. size /\ i \in 1 .. size
  OBVIOUS
<1>6. \A i \in 1 .. size - n : Cell(s, size, i) = Cell(first, size, n + i)
  BY <1>2, <1>4, <1>5
<1> QED BY <1>6

\* Reading takes bytes from the front.
LEMMA ReadTakesTheFront ==
  ASSUME NEW p \in PipeInfo, NEW count \in Nat
  PROVE  LET taken == BytesRead(p, count)
             q == ReadPipeBuffer(p, count)
         IN  /\ taken \in Seq(Bytes) /\ Len(taken) = (IF count <= p.bytes_to_read THEN count ELSE p.bytes_to_read)
             /\ Contents(p) = taken \o Contents(q)
<1> DEFINE taken == BytesRead(p, count)
           q == ReadPipeBuffer(p, count)
           old == Contents(p)
           new == Contents(q)
           b == p.bytes_to_read
           size == Size(p)
           r == p.read_idx
           m == Min({count, b})
           n == Len(taken)
<1>1. /\ b \in Nat /\ b <= size /\ size \in Nat /\ r \in Nat /\ r <= size
      /\ old \in Seq(Bytes) /\ Len(old) = b
  BY SizeFacts, ContentsFacts
<1>2. m = (IF count <= b THEN count ELSE b) /\ m \in 0 .. b
  <2>1. m = IF count <= b THEN count ELSE b
    <3> HIDE DEF b
    <3> QED BY <1>1, MinOfTwo
  <2> QED BY <1>1, <2>1
<1>3. taken \in Seq(Bytes) /\ n = m /\ \A i \in 1 .. n : taken[i] = old[i]
  <2> DEFINE one == 1
  <2>1. one \in 1 .. Len(old) + 1 /\ m \in one - 1 .. Len(old) /\ m - one + 1 = m
        /\ \A i \in 1 .. m : one + i - 1 = i
    BY <1>1, <1>2
  <2>2. taken = SubSeq(old, one, m)
    BY DEF BytesRead
  <2> HIDE DEF one, old, m, taken
  <2>3. /\ SubSeq(old, one, m) \in Seq(Bytes) /\ Len(SubSeq(old, one, m)) = m - one + 1
        /\ \A i \in 1 .. m - one + 1 : SubSeq(old, one, m)[i] = old[one + i - 1]
    BY <1>1, <2>1, SegmentFacts
  <2> QED BY <2>1, <2>2, <2>3
<1>4. q \in PipeInfo /\ new \in Seq(Bytes) /\ Len(new) = q.bytes_to_read
  <2> HIDE DEF q
  <2>1. q \in PipeInfo
    BY ReadPipeBufferFacts DEF q
  <2> QED BY <2>1, ContentsFacts
<1> HIDE DEF m
<1>5. CASE n = 0
  <2>1. q = p /\ new = old /\ taken = <<>>
    BY <1>3, <1>5, EmptySeq DEF ReadPipeBuffer
  <2> HIDE DEF old, new, taken
  <2> QED BY <1>1, <1>2, <1>3, <2>1, ConcatEmptySeq DEF old, new, taken
<1>6. CASE n # 0
  <2>1. q = [p EXCEPT !.read_idx = (r + n) % size, !.bytes_to_read = b - n]
    BY <1>6 DEF ReadPipeBuffer
  <2>2. q.read_idx = (r + n) % size /\ q.bytes_to_read = b - n /\ q.buffer = p.buffer
    BY <2>1 DEF PipeInfo
  <2>3. size \in Nat \ {0} /\ n \in 1 .. b /\ b - n \in Nat
    <3> HIDE DEF n, b, size
    <3> QED BY <1>1, <1>2, <1>3, <1>6
  <2>4. \A i \in 1 .. b - n : Cell(q.read_idx, size, i) = Cell(r, size, n + i)
    <3> HIDE DEF n, b, size, r
    <3>1. n \in 0 .. size /\ r \in 0 .. size /\ \A i \in 1 .. b - n : i \in 1 .. size - n
      BY <1>1, <2>3
    <3>2. \A i \in 1 .. size - n : Cell((r + n) % size, size, i) = Cell(r, size, n + i)
      BY <2>3, <3>1, CellShift
    <3> QED BY <2>2, <3>1, <3>2 DEF size, r, n, b
  <2>5. /\ \A i \in 1 .. b - n : new[i] = p.buffer[Cell(q.read_idx, size, i)]
        /\ \A i \in 1 .. b : old[i] = p.buffer[Cell(r, size, i)]
    BY <2>2 DEF Contents, Cell, Size
  <2>6. \A i \in 1 .. b - n : new[i] = old[n + i]
    <3> HIDE DEF old, new, n, b, size, r
    <3>1. \A i \in 1 .. b - n : n + i \in 1 .. b
      BY <1>1, <2>3
    <3> QED BY <2>4, <2>5, <3>1
  <2> DEFINE both == taken \o new
  <2> HIDE DEF old, new, n, b, taken
  <2>7. /\ both \in Seq(Bytes) /\ Len(both) = Len(taken) + Len(new)
        /\ \A i \in 1 .. Len(taken) + Len(new) :
             both[i] = IF i <= Len(taken) THEN taken[i] ELSE new[i - Len(taken)]
    BY <1>3, <1>4, ConcatProperties
  <2>8. Len(taken) = n /\ Len(new) = b - n /\ n + (b - n) = b
    BY <1>1, <1>4, <2>2, <2>3 DEF n, b
  <2>9. \A i \in 1 .. b : old[i] = both[i]
    <3>1. ASSUME NEW i \in 1 .. b PROVE old[i] = both[i]
      <4>1. CASE i <= n
        <5>1. i \in 1 .. n
          BY <2>3, <4>1
        <5> QED BY <1>3, <2>3, <2>7, <2>8, <5>1
      <4>2. CASE i > n
        <5>1. i - n \in 1 .. b - n /\ n + (i - n) = i
          BY <1>1, <2>3, <4>2
        <5> QED BY <2>3, <2>6, <2>7, <2>8, <4>2, <5>1
      <4>3. i <= n \/ i > n
        BY <1>1, <2>3
      <4> QED BY <4>1, <4>2, <4>3
    <3> QED BY <3>1
  <2> HIDE DEF both
  <2>10. old = both
    BY <1>1, <2>7, <2>8, <2>9, SeqEqual
  <2> QED BY <1>2, <1>3, <2>10 DEF both, old, new, n, b, taken
<1> QED BY <1>5, <1>6

\* The bytes move when the buffer grows, and stay in order.
LEMMA GrowKeepsContents ==
  ASSUME NEW p \in PipeInfo, NEW count \in Nat
  PROVE  Contents(Grow(p, count)) = Contents(p)
<1> DEFINE btr == p.bytes_to_read
           required == btr + count
           least == Min({required, BUFFER_MAX_SIZE})
           new_size == RoundUpBufferSize(least)
           blank == [i \in 1 .. new_size - btr |-> NOTHING]
           q == Grow(p, count)
           old == Contents(p)
           new == Contents(q)
           b == old \o blank
<1>1. q \in PipeInfo /\ q.bytes_to_read = btr
  <2> HIDE DEF q, btr
  <2> QED BY GrowFacts DEF q, btr
<1>2. /\ btr \in Nat /\ btr <= Size(p) /\ Size(p) <= BUFFER_MAX_SIZE
      /\ BUFFER_MAX_SIZE \in Nat /\ required \in Nat /\ Size(p) \in Nat
  BY SizeFacts
<1>3. old \in Seq(Bytes) /\ Len(old) = btr
  BY ContentsFacts
<1>4. new \in Seq(Bytes) /\ Len(new) = btr
  <2> HIDE DEF q, btr
  <2> QED BY <1>1, ContentsFacts
<1>5. CASE ~(Size(p) < required /\ Size(p) < BUFFER_MAX_SIZE)
  BY <1>5 DEF Grow
<1>6. CASE Size(p) < required /\ Size(p) < BUFFER_MAX_SIZE
  <2>1. q = [p EXCEPT !.buffer = b, !.read_idx = 0]
    BY <1>6 DEF Grow
  <2>2. q.buffer = b /\ q.read_idx = 0
    <3> HIDE DEF b, q
    <3> QED BY <2>1 DEF PipeInfo
  <2> HIDE DEF required
  <2>3. least = IF required <= BUFFER_MAX_SIZE THEN required ELSE BUFFER_MAX_SIZE
    BY <1>2, MinOfTwo
  <2>4. least \in Nat /\ least <= BUFFER_MAX_SIZE /\ btr <= least
    BY <1>2, <1>6, <2>3
  <2> HIDE DEF least
  <2>5. new_size \in least .. BUFFER_MAX_SIZE
    BY <2>4, RoundUpFacts
  <2> HIDE DEF new_size
  <2>6. new_size \in Nat /\ new_size - btr \in Nat
    BY <1>2, <2>4, <2>5
  <2>7. blank \in Seq(Bytes)
    BY <2>6, BytesFacts
  <2> HIDE DEF blank, old
  <2>8. \A i \in 1 .. btr : b[i] = old[i]
    <3>1. /\ Len(b) = Len(old) + Len(blank)
          /\ \A i \in 1 .. Len(old) + Len(blank) :
               b[i] = IF i <= Len(old) THEN old[i] ELSE blank[i - Len(old)]
      BY <1>3, <2>7, ConcatProperties
    <3> HIDE DEF b, btr
    <3>2. Len(blank) \in Nat
      BY <2>7, LenProperties
    <3>3. \A i \in 1 .. btr : i \in 1 .. Len(old) + Len(blank) /\ i <= Len(old)
      BY <1>2, <1>3, <3>2
    <3> QED BY <3>1, <3>3
  <2> HIDE DEF b, q, btr
  <2> DEFINE size == Size(q)
  <2>9. size \in Nat /\ btr <= size
    BY <1>1, SizeFacts
  <2>10. new = [i \in 1 .. btr |-> b[((0 + i - 1) % size) + 1]]
    BY <1>1, <2>2 DEF Contents
  <2> HIDE DEF size, new
  <2>11. ASSUME NEW i \in 1 .. btr PROVE new[i] = old[i]
    <3>1. new[i] = b[Cell(0, size, i)]
      BY <2>10 DEF Cell
    <3>2. Cell(0, size, i) = i
      <4>1. size \in Nat \ {0} /\ 0 \in 0 .. size /\ i \in 1 .. size /\ 0 + i = i /\ i <= size
        BY <1>2, <2>9
      <4> QED BY <4>1, CellFacts
    <3> QED BY <2>8, <3>1, <3>2
  <2>12. new = old
    BY <1>3, <1>4, <2>11, SeqEqual
  <2> QED BY <2>12 DEF new, old, q
<1> QED BY <1>5, <1>6

\* Writing puts bytes behind the others.
LEMMA WriteAppends ==
  ASSUME NEW p \in PipeInfo, NEW data \in Seq(Bytes)
  PROVE  Contents(WritePipeBuffer(p, data)) = Contents(p) \o SubSeq(data, 1, BytesWritten(p, data))
<1> DEFINE len == Len(data)
           q == Grow(p, len)
           n == BytesWritten(p, data)
           size == Size(q)
           btr == p.bytes_to_read
           Place(i) == Cell(q.read_idx, size, btr + i)
           w == WritePipeBuffer(p, data)
           new == Contents(w)
           old == Contents(p)
           front == SubSeq(data, 1, n)
<1>1. len \in Nat
  BY LenProperties
<1>2. q \in PipeInfo /\ q.bytes_to_read = btr /\ Contents(q) = old
  <2> HIDE DEF len
  <2> QED BY <1>1, GrowFacts, GrowKeepsContents
<1>3. /\ n \in 0 .. len /\ w \in PipeInfo /\ w.bytes_to_read = btr + n
  BY WritePipeBufferFacts
<1>4. /\ w.read_idx = q.read_idx /\ Size(w) = size
      /\ \A place \in 1 .. size :
           w.buffer[place] = IF \E i \in 1 .. n : Place(i) = place
                             THEN data[CHOOSE i \in 1 .. n : Place(i) = place]
                             ELSE q.buffer[place]
  <2> DEFINE buffer == [place \in 1 .. size |->
                          IF \E i \in 1 .. n : Place(i) = place
                          THEN data[CHOOSE i \in 1 .. n : Place(i) = place]
                          ELSE q.buffer[place]]
             placeOf(i) == ((q.read_idx + q.bytes_to_read + i - 1) % size) + 1
             written == [place \in 1 .. size |->
                           IF \E i \in 1 .. n : placeOf(i) = place
                           THEN data[CHOOSE i \in 1 .. n : placeOf(i) = place]
                           ELSE q.buffer[place]]
  <2>1. w = [q EXCEPT !.buffer = written, !.bytes_to_read = q.bytes_to_read + n]
    BY DEF WritePipeBuffer
  <2>2. \A i \in 1 .. n : placeOf(i) = Place(i)
    <3>1. q.read_idx \in Nat /\ btr \in Nat /\ n \in Nat
      <4> HIDE DEF q
      <4> QED BY <1>1, <1>2, <1>3, SizeFacts
    <3>2. \A i \in 1 .. n : q.read_idx + q.bytes_to_read + i - 1 = q.read_idx + (btr + i) - 1
      <4> HIDE DEF q, n, btr
      <4> QED BY <1>2, <3>1
    <3> HIDE DEF q, n, btr, size
    <3> QED BY <3>2 DEF Cell
  <2>3. \A place \in 1 .. size : written[place] = buffer[place]
    <3> HIDE DEF placeOf, size, n, q
    <3> SUFFICES ASSUME NEW place \in 1 .. size PROVE written[place] = buffer[place]
      OBVIOUS
    <3>1. {i \in 1 .. n : placeOf(i) = place} = {i \in 1 .. n : Place(i) = place}
      BY <2>2
    <3>2. (CHOOSE i \in 1 .. n : placeOf(i) = place) = (CHOOSE i \in 1 .. n : Place(i) = place)
      BY <2>2
    <3> QED BY <3>1, <3>2
  <2>4. written = buffer
    <3> HIDE DEF size, n, q
    <3> QED BY <2>3
  <2>5. w = [q EXCEPT !.buffer = buffer, !.bytes_to_read = btr + n]
    BY <1>2, <2>1, <2>4
  <2> HIDE DEF q, n
  <2>6. w.buffer = buffer /\ w.read_idx = q.read_idx
    BY <1>2, <2>5 DEF PipeInfo
  <2>7. Len(buffer) = size
    <3> size \in Nat
      BY <1>2, SizeFacts
    <3> HIDE DEF size
    <3> QED OBVIOUS
  <2> QED BY <2>6, <2>7 DEF Size
<1> HIDE DEF q, w, n, len
<1>5. /\ btr \in Nat /\ size \in Nat /\ btr + n <= size /\ q.read_idx \in 0 .. size /\ n \in Nat
      /\ old \in Seq(Bytes) /\ Len(old) = btr
  <2>1. btr \in Nat /\ size \in Nat /\ q.read_idx \in 0 .. size
    BY <1>2, SizeFacts
  <2>2. w.bytes_to_read \in 0 .. Size(w)
    BY <1>3, SizeFacts
  <2>3. n \in Nat
    BY <1>1, <1>3
  <2> QED BY <1>3, <1>4, <2>1, <2>2, <2>3, ContentsFacts
<1>6. new \in Seq(Bytes) /\ Len(new) = btr + n
  BY <1>3, ContentsFacts
<1>7. front \in Seq(Bytes) /\ Len(front) = n /\ \A i \in 1 .. n : front[i] = data[i]
  <2> DEFINE one == 1
  <2>1. one \in 1 .. Len(data) + 1 /\ n \in one - 1 .. Len(data) /\ n - one + 1 = n
        /\ \A i \in 1 .. n : one + i - 1 = i
    BY <1>1, <1>3, <1>5 DEF len
  <2>2. front = SubSeq(data, one, n)
    OBVIOUS
  <2> HIDE DEF one, front
  <2> QED BY <2>1, <2>2, SegmentFacts
<1>8. /\ \A i \in 1 .. btr + n : new[i] = w.buffer[Cell(q.read_idx, size, i)]
      /\ \A i \in 1 .. btr : old[i] = q.buffer[Cell(q.read_idx, size, i)]
  <2>1. new = [i \in 1 .. btr + n |-> w.buffer[((q.read_idx + i - 1) % size) + 1]]
    BY <1>3, <1>4 DEF Contents
  <2>2. old = [i \in 1 .. btr |-> q.buffer[((q.read_idx + i - 1) % size) + 1]]
    <3>1. Contents(q) = [i \in 1 .. q.bytes_to_read |-> q.buffer[((q.read_idx + i - 1) % Size(q)) + 1]]
      BY DEF Contents
    <3> QED BY <1>2, <3>1
  <2> HIDE DEF old, new, size, btr
  <2> QED BY <2>1, <2>2 DEF Cell
<1> HIDE DEF size, btr, new, old, front
<1>9. /\ \A i \in 1 .. btr + n : Cell(q.read_idx, size, i) \in 1 .. size
      /\ \A i, j \in 1 .. btr + n : Cell(q.read_idx, size, i) = Cell(q.read_idx, size, j) => i = j
  <2>1. CASE btr + n = 0
    BY <2>1
  <2>2. CASE btr + n # 0
    <3>1. size \in Nat \ {0} /\ \A i \in 1 .. btr + n : i \in 1 .. size
      BY <1>5, <2>2
    <3>2. /\ \A i \in 1 .. size : Cell(q.read_idx, size, i) \in 1 .. size
          /\ \A i, j \in 1 .. size :
               Cell(q.read_idx, size, i) = Cell(q.read_idx, size, j) => i = j
      BY <1>5, <3>1, CellFacts
    <3> QED BY <3>1, <3>2
  <2> QED BY <2>1, <2>2
<1>10. ASSUME NEW i \in 1 .. btr PROVE new[i] = old[i]
  <2>1. i \in 1 .. btr + n /\ \A j \in 1 .. n : btr + j \in 1 .. btr + n /\ btr + j # i
    BY <1>5
  <2>2. ~ \E j \in 1 .. n : Place(j) = Cell(q.read_idx, size, i)
    BY <1>9, <2>1
  <2> QED BY <1>4, <1>8, <1>9, <2>1, <2>2
<1>11. ASSUME NEW i \in 1 .. n PROVE new[btr + i] = front[i]
  <2> DEFINE j == CHOOSE j \in 1 .. n : Place(j) = Place(i)
  <2>1. j \in 1 .. n /\ Place(j) = Place(i)
    OBVIOUS
  <2>2. \A k \in 1 .. n : btr + k \in 1 .. btr + n
    BY <1>5
  <2>3. j = i
    <3> HIDE DEF j
    <3>1. btr + j = btr + i
      BY <1>9, <2>1, <2>2
    <3> QED BY <1>5, <2>1, <3>1
  <2>4. w.buffer[Place(i)] = data[j]
    BY <1>4, <1>9, <2>2
  <2>5. new[btr + i] = w.buffer[Place(i)]
    BY <1>8, <2>2
  <2> HIDE DEF j, Place
  <2> QED BY <1>7, <2>3, <2>4, <2>5
<1> DEFINE both == old \o front
<1>12. /\ both \in Seq(Bytes) /\ Len(both) = btr + n
       /\ \A i \in 1 .. btr + n : both[i] = IF i <= btr THEN old[i] ELSE front[i - btr]
  BY <1>5, <1>7, ConcatProperties
<1>13. ASSUME NEW i \in 1 .. btr + n PROVE new[i] = both[i]
  <2>1. CASE i <= btr
    <3>1. i \in 1 .. btr
      BY <1>5, <2>1
    <3> QED BY <1>10, <1>12, <2>1, <3>1
  <2>2. CASE i > btr
    <3>1. i - btr \in 1 .. n /\ btr + (i - btr) = i /\ ~(i <= btr)
      BY <1>5, <2>2
    <3>2. new[btr + (i - btr)] = front[i - btr]
      BY <1>11, <3>1
    <3> QED BY <1>12, <3>1, <3>2
  <2>3. i <= btr \/ i > btr
    BY <1>5
  <2> QED BY <2>1, <2>2, <2>3
<1> HIDE DEF both
<1>14. new = both
  BY <1>6, <1>12, <1>13, SeqEqual
<1> QED BY <1>14 DEF both, new, old, front, w, n

\* q is p with bytes more at the end, or with bytes less in front.
InOrder(p, q) ==
  \E bytes \in Seq(Bytes) : \/ Contents(q) = Contents(p) \o bytes
                            \/ Contents(p) = bytes \o Contents(q)

LEMMA SameBytes ==
  ASSUME NEW p \in PipeInfo, NEW q,
         q.buffer = p.buffer, q.read_idx = p.read_idx, q.bytes_to_read = p.bytes_to_read
  PROVE  Contents(q) = Contents(p) /\ InOrder(p, q)
<1>1. Contents(q) = Contents(p)
  BY DEF Contents, Size
<1>2. Contents(p) \in Seq(Bytes)
  BY ContentsFacts
<1>3. Contents(p) = Contents(p) \o <<>> /\ <<>> \in Seq(Bytes)
  BY <1>2, ConcatEmptySeq
<1> QED BY <1>1, <1>3 DEF InOrder

LEMMA ReadInOrder ==
  ASSUME NEW p \in PipeInfo, NEW count \in Nat, NEW queue,
         NEW q, q = [ReadPipeBuffer(p, count) EXCEPT !.wr_q = queue]
  PROVE  InOrder(p, q)
<1>1. PICK r : r = ReadPipeBuffer(p, count)
  OBVIOUS
<1>2. r \in PipeInfo
  BY <1>1, ReadPipeBufferFacts
<1>3. q.buffer = r.buffer /\ q.read_idx = r.read_idx /\ q.bytes_to_read = r.bytes_to_read
  BY <1>1, <1>2 DEF PipeInfo
<1>4. Contents(q) = Contents(r)
  BY <1>2, <1>3, SameBytes
<1>5. BytesRead(p, count) \in Seq(Bytes) /\ Contents(p) = BytesRead(p, count) \o Contents(r)
  BY <1>1, ReadTakesTheFront
<1> QED BY <1>4, <1>5 DEF InOrder

LEMMA WriteInOrder ==
  ASSUME NEW p \in PipeInfo, NEW data \in Seq(Bytes),
         NEW q, NEW w, w = WritePipeBuffer(p, data),
         q.buffer = w.buffer, q.read_idx = w.read_idx, q.bytes_to_read = w.bytes_to_read
  PROVE  InOrder(p, q)
<1>1. w \in PipeInfo /\ BytesWritten(p, data) \in 0 .. Len(data)
  BY WritePipeBufferFacts
<1>2. Contents(q) = Contents(w)
  BY <1>1, SameBytes
<1>3. Contents(w) = Contents(p) \o SubSeq(data, 1, BytesWritten(p, data))
  BY WriteAppends
<1>4. SubSeq(data, 1, BytesWritten(p, data)) \in Seq(Bytes)
  <2> PICK one : one = 1
    OBVIOUS
  <2> PICK n : n = BytesWritten(p, data)
    OBVIOUS
  <2>1. one \in 1 .. Len(data) + 1 /\ n \in one - 1 .. Len(data)
    BY <1>1, LenProperties
  <2> QED BY <2>1, SegmentFacts
<1> QED BY <1>2, <1>3, <1>4 DEF InOrder

----------------------------------------------------------------------------
(* First in, first out *)

\* What a step may do to the pipes: leave the bytes of all alone, or read or write one.
LEMMA NoByteMoves ==
  ASSUME Typed,
         \A id \in DOMAIN pipes \cap DOMAIN pipes' :
           /\ pipes'[id].buffer = pipes[id].buffer /\ pipes'[id].read_idx = pipes[id].read_idx
           /\ pipes'[id].bytes_to_read = pipes[id].bytes_to_read
  PROVE  \A id \in DOMAIN pipes \cap DOMAIN pipes' : InOrder(pipes[id], pipes'[id])
BY SameBytes DEF Typed

LEMMA OnePipeInOrder ==
  ASSUME Typed, NEW id \in DOMAIN pipes, NEW q, pipes' = [pipes EXCEPT ![id] = q],
         InOrder(pipes[id], q)
  PROVE  \A other \in DOMAIN pipes \cap DOMAIN pipes' : InOrder(pipes[other], pipes'[other])
<1> SUFFICES ASSUME NEW other \in DOMAIN pipes PROVE InOrder(pipes[other], pipes'[other])
  OBVIOUS
<1>1. CASE other = id
  BY <1>1
<1>2. CASE other # id
  BY <1>2, SameBytes DEF Typed
<1> QED BY <1>1, <1>2

LEMMA ReadRoundInOrder ==
  ASSUME Typed, NEW pid, NEW id, NEW count \in Nat, ReadRound(pid, id, count)
  PROVE  \A other \in DOMAIN pipes \cap DOMAIN pipes' : InOrder(pipes[other], pipes'[other])
<1>1. id \in DOMAIN pipes /\ pipes[id] \in PipeInfo
  BY DEF ReadRound, Typed
<1>2. \/ pipes' = pipes
      \/ pipes' = [pipes EXCEPT ![id].rd_q = Append(@, pid)]
      \/ pipes' = [pipes EXCEPT ![id] = [ReadPipeBuffer(pipes[id], count) EXCEPT !.wr_q = <<>>]]
  BY DEF ReadRound
<1>3. CASE pipes' = pipes
  BY <1>3, NoByteMoves
<1>4. CASE pipes' = [pipes EXCEPT ![id].rd_q = Append(@, pid)]
  <2>1. PICK queue : pipes' = [pipes EXCEPT ![id] = [pipes[id] EXCEPT !.rd_q = queue]]
    BY <1>4
  <2>2. PICK q : q = [pipes[id] EXCEPT !.rd_q = queue]
    OBVIOUS
  <2>3. InOrder(pipes[id], q)
    <3>1. q.buffer = pipes[id].buffer /\ q.read_idx = pipes[id].read_idx
          /\ q.bytes_to_read = pipes[id].bytes_to_read
      BY <1>1, <2>2 DEF PipeInfo
    <3> QED BY <1>1, <3>1, SameBytes
  <2> QED BY <1>1, <2>1, <2>2, <2>3, OnePipeInOrder
<1>5. CASE pipes' = [pipes EXCEPT ![id] = [ReadPipeBuffer(pipes[id], count) EXCEPT !.wr_q = <<>>]]
  <2>1. PICK q : q = [ReadPipeBuffer(pipes[id], count) EXCEPT !.wr_q = <<>>]
    OBVIOUS
  <2>2. InOrder(pipes[id], q)
    BY <1>1, <2>1, ReadInOrder
  <2> QED BY <1>1, <1>5, <2>1, <2>2, OnePipeInOrder
<1> QED BY <1>2, <1>3, <1>4, <1>5

LEMMA WriteRoundInOrder ==
  ASSUME Typed, NEW pid, NEW id, NEW data \in Seq(Bytes), WriteRound(pid, id, data)
  PROVE  \A other \in DOMAIN pipes \cap DOMAIN pipes' : InOrder(pipes[other], pipes'[other])
<1>1. id \in DOMAIN pipes /\ pipes[id] \in PipeInfo
  BY DEF WriteRound, Typed
<1>2. PICK w : w = WritePipeBuffer(pipes[id], data)
  OBVIOUS
<1>3. w \in PipeInfo
  BY <1>1, <1>2, WritePipeBufferFacts
<1>4. PICK v : v = IF BytesWritten(pipes[id], data) = 0 THEN w ELSE [w EXCEPT !.rd_q = <<>>]
  OBVIOUS
<1>5. v.buffer = w.buffer /\ v.read_idx = w.read_idx /\ v.bytes_to_read = w.bytes_to_read
  BY <1>3, <1>4 DEF PipeInfo
<1>6. \/ pipes' = [pipes EXCEPT ![id] = v]
      \/ pipes' = [pipes EXCEPT ![id] = [v EXCEPT !.wr_q = Append(@, pid)]]
  BY <1>2, <1>4 DEF WriteRound
<1>7. PICK q : /\ pipes' = [pipes EXCEPT ![id] = q]
               /\ q = v \/ q = [v EXCEPT !.wr_q = Append(@, pid)]
  BY <1>6
<1>8. q.buffer = w.buffer /\ q.read_idx = w.read_idx /\ q.bytes_to_read = w.bytes_to_read
  BY <1>3, <1>4, <1>5, <1>7 DEF PipeInfo
<1>9. InOrder(pipes[id], q)
  BY <1>1, <1>2, <1>8, WriteInOrder
<1> QED BY <1>1, <1>7, <1>9, OnePipeInOrder

LEMMA OpenedInOrder ==
  ASSUME Typed, NEW pid, NEW name, OpenFor(pid, name)
  PROVE  \A id \in DOMAIN pipes \cap DOMAIN pipes' : InOrder(pipes[id], pipes'[id])
<1>1. PICK id, p : /\ id \in DOMAIN pipes => p = pipes[id]
                   /\ pipes' = WithPipe(id, [p EXCEPT !.readers = (@ + 1) % UINT,
                                                      !.writers = (@ + 1) % UINT])
  BY DEF OpenFor
<1>2. PICK readers, writers :
        pipes' = WithPipe(id, [p EXCEPT !.readers = readers, !.writers = writers])
  BY <1>1
<1>3. PICK q : q = [p EXCEPT !.readers = readers, !.writers = writers]
  OBVIOUS
<1>4. \A other \in DOMAIN pipes \cap DOMAIN pipes' :
        pipes'[other] = IF other = id THEN q ELSE pipes[other]
  BY <1>2, <1>3 DEF WithPipe
<1>5. ASSUME id \in DOMAIN pipes
      PROVE  q.buffer = p.buffer /\ q.read_idx = p.read_idx /\ q.bytes_to_read = p.bytes_to_read
  BY <1>1, <1>3, <1>5 DEF Typed, PipeInfo
<1> QED BY <1>1, <1>4, <1>5, NoByteMoves

LEMMA FreedInOrder ==
  ASSUME Typed, NEW s, NEW id, PipeFree(s, id)
  PROVE  \A other \in DOMAIN pipes \cap DOMAIN pipes' : InOrder(pipes[other], pipes'[other])
<1>1. \A other \in DOMAIN pipes \cap DOMAIN pipes' : pipes'[other] = pipes[other]
  BY DEF PipeFree, Restrict
<1> QED BY <1>1, NoByteMoves

LEMMA EndCountedBytes ==
  ASSUME NEW p \in PipeInfo, NEW entry, NEW by, NEW q, q = EndCounted(p, entry, by)
  PROVE  q.buffer = p.buffer /\ q.read_idx = p.read_idx /\ q.bytes_to_read = p.bytes_to_read
<1>1. PICK readers, writers : q = [p EXCEPT !.readers = readers, !.writers = writers]
  BY DEF EndCounted
<1> QED BY <1>1 DEF PipeInfo

LEMMA DupInOrder ==
  ASSUME Good, NEW pid, NEW from, NEW to, DupEnd(pid, from, to)
  PROVE  \A id \in DOMAIN pipes \cap DOMAIN pipes' : InOrder(pipes[id], pipes'[id])
<1>1. PICK entry \in pipe_fd_table :
        pipes' = [pipes EXCEPT ![entry.pipe_id] = EndCounted(pipes[entry.pipe_id], entry, 1)]
  BY DEF DupEnd
<1> PICK id : id = entry.pipe_id
  OBVIOUS
<1>2. id \in DOMAIN pipes /\ pipes[id] \in PipeInfo /\ Typed
  BY DEF Good, Table, Typed
<1> PICK q : q = EndCounted(pipes[id], entry, 1)
  OBVIOUS
<1>3. InOrder(pipes[id], q)
  BY <1>2, EndCountedBytes, SameBytes
<1> QED BY <1>1, <1>2, <1>3, OnePipeInOrder

LEMMA CloseEndInOrder ==
  ASSUME Typed, CloseEnd
  PROVE  \A id \in DOMAIN pipes \cap DOMAIN pipes' : InOrder(pipes[id], pipes'[id])
<1> PICK entry : entry = GetPipeFd(closing.pid, closing.fd)
  OBVIOUS
<1> PICK id : id = entry.pipe_id
  OBVIOUS
<1>1. CASE id \notin DOMAIN pipes
  <2>1. pipes' = pipes
    BY <1>1 DEF CloseEnd
  <2> QED BY <2>1, NoByteMoves
<1>2. CASE id \in DOMAIN pipes
  <2>1. PICK queue : pipes' = [pipes EXCEPT ![id] = [EndCounted(pipes[id], entry, -1) EXCEPT !.wr_q = queue]]
    BY <1>2 DEF CloseEnd
  <2>2. PICK readers, writers :
          EndCounted(pipes[id], entry, -1) = [pipes[id] EXCEPT !.readers = readers, !.writers = writers]
    BY DEF EndCounted
  <2> PICK p : p = EndCounted(pipes[id], entry, -1)
    OBVIOUS
  <2> PICK q : q = [p EXCEPT !.wr_q = queue]
    OBVIOUS
  <2>3. pipes[id] \in PipeInfo
    BY <1>2 DEF Typed
  <2>4. p.buffer = pipes[id].buffer /\ p.read_idx = pipes[id].read_idx
        /\ p.bytes_to_read = pipes[id].bytes_to_read
    BY <2>3, EndCountedBytes
  <2>5. q.buffer = p.buffer /\ q.read_idx = p.read_idx /\ q.bytes_to_read = p.bytes_to_read
    BY <2>2, <2>3 DEF PipeInfo
  <2>6. InOrder(pipes[id], q)
    BY <2>3, <2>4, <2>5, SameBytes
  <2> QED BY <1>2, <2>1, <2>6, OnePipeInOrder
<1> QED BY <1>1, <1>2

LEMMA WriteEofInOrder ==
  ASSUME Good, WriteEof
  PROVE  \A id \in DOMAIN pipes \cap DOMAIN pipes' : InOrder(pipes[id], pipes'[id])
<1>1. Typed /\ 0 \in DOMAIN pipes /\ pipes[0] \in PipeInfo /\ closing.pipe \in DOMAIN pipes
  BY WhatFacts DEF WriteEof, Good, ClosingInv, Typed, CloseInv
<1> PICK data : data = <<EOF>>
  OBVIOUS
<1>2. data \in Seq(Bytes)
  BY BytesFacts DEF Bytes
<1> PICK w : w = WritePipeBuffer(pipes[0], data)
  OBVIOUS
<1> PICK id : id = closing.pipe
  OBVIOUS
<1> PICK at0 : at0 = [w EXCEPT !.rd_q = <<>>]
  OBVIOUS
<1> PICK marked : marked = [pipes EXCEPT ![0] = at0]
  OBVIOUS
<1> PICK last : last = [marked[id] EXCEPT !.rd_q = <<>>]
  OBVIOUS
<1>3. pipes' = [marked EXCEPT ![id] = last]
  BY DEF WriteEof
<1>4. w \in PipeInfo
  BY <1>1, <1>2, WritePipeBufferFacts
<1>5. at0 \in PipeInfo /\ at0.buffer = w.buffer /\ at0.read_idx = w.read_idx
      /\ at0.bytes_to_read = w.bytes_to_read
  <2>1. at0.buffer = w.buffer /\ at0.read_idx = w.read_idx /\ at0.bytes_to_read = w.bytes_to_read
    BY <1>4 DEF PipeInfo
  <2>2. at0 \in PipeInfo
    <3>1. <<>> \in Seq(Pids)
      OBVIOUS
    <3> QED BY <1>4, <3>1, QueueReplaced
  <2> QED BY <2>1, <2>2
<1>6. InOrder(pipes[0], at0)
  BY <1>1, <1>2, <1>5, WriteInOrder
<1>7. /\ marked[id] \in PipeInfo /\ DOMAIN marked = DOMAIN pipes /\ marked[0] = at0
      /\ \A other \in DOMAIN pipes : other # 0 => marked[other] = pipes[other]
  BY <1>1, <1>5 DEF Typed
<1>8. last.buffer = marked[id].buffer /\ last.read_idx = marked[id].read_idx
      /\ last.bytes_to_read = marked[id].bytes_to_read
  BY <1>7 DEF PipeInfo
<1> SUFFICES ASSUME NEW other \in DOMAIN pipes PROVE InOrder(pipes[other], pipes'[other])
  OBVIOUS
<1>9. pipes[other] \in PipeInfo
  BY <1>1 DEF Typed
<1>10. PICK q : q = pipes'[other]
  OBVIOUS
<1>11. q.buffer = marked[other].buffer /\ q.read_idx = marked[other].read_idx
       /\ q.bytes_to_read = marked[other].bytes_to_read
  BY <1>1, <1>3, <1>7, <1>8, <1>10
<1>12. CASE other = 0
  <2>1. q.buffer = w.buffer /\ q.read_idx = w.read_idx /\ q.bytes_to_read = w.bytes_to_read
    BY <1>5, <1>7, <1>11, <1>12
  <2> QED BY <1>1, <1>2, <1>10, <1>12, <2>1, WriteInOrder
<1>13. CASE other # 0
  BY <1>7, <1>9, <1>10, <1>11, <1>13, SameBytes
<1> QED BY <1>12, <1>13

LEMMA WaitToWriteEofInOrder ==
  ASSUME Typed, WaitToWriteEof
  PROVE  \A id \in DOMAIN pipes \cap DOMAIN pipes' : InOrder(pipes[id], pipes'[id])
<1>1. 0 \in DOMAIN pipes /\ pipes[0] \in PipeInfo
  BY DEF WaitToWriteEof, Typed
<1>2. PICK queue : pipes' = [pipes EXCEPT ![0] = [pipes[0] EXCEPT !.wr_q = queue]]
  BY DEF WaitToWriteEof
<1>3. PICK q : q = [pipes[0] EXCEPT !.wr_q = queue]
  OBVIOUS
<1>4. q.buffer = pipes[0].buffer /\ q.read_idx = pipes[0].read_idx
      /\ q.bytes_to_read = pipes[0].bytes_to_read
  BY <1>1, <1>3 DEF PipeInfo
<1>5. InOrder(pipes[0], q)
  BY <1>1, <1>4, SameBytes
<1> QED BY <1>1, <1>2, <1>3, <1>5, OnePipeInOrder

LEMMA StepInOrder ==
  ASSUME Good, Next
  PROVE  \A id \in DOMAIN pipes \cap DOMAIN pipes' : InOrder(pipes[id], pipes'[id])
<1> DEFINE Goal == \A id \in DOMAIN pipes \cap DOMAIN pipes' : InOrder(pipes[id], pipes'[id])
<1>1. Typed
  BY DEF Good
<1>2. pipes' = pipes => Goal
  BY <1>1, NoByteMoves
<1>3. CASE \E pid \in Pids, name \in Names \cup {NULL} : PipeOpen(pid, name)
  BY <1>1, <1>2, <1>3, OpenedInOrder, FreedInOrder DEF PipeOpen, OpenForTheDead
<1>4. CASE \E name \in Names : PipeUnlink(name)
  BY <1>1, <1>4, FreedInOrder DEF PipeUnlink
<1>5. CASE \E pid \in Pids, from \in FDs, to \in DupTargets : Dup(pid, from, to)
  BY <1>5, DupInOrder DEF Dup
<1>6. CASE \E fd \in FDs, count \in Counts : Read(fd, count)
  BY <1>1, <1>6, ReadRoundInOrder, PipeAssumption DEF Read
<1>7. CASE ContinueRead
  <2>1. sch.current \in Contexts /\ waiting[sch.current].op = "read"
    BY <1>7 DEF ContinueRead, Resuming
  <2>2. waiting[sch.current].count \in Nat
    BY <1>1, <2>1, WhatFacts, PipeAssumption DEF Typed
  <2> QED BY <1>1, <1>7, <2>2, ReadRoundInOrder DEF ContinueRead
<1>8. CASE \E fd \in FDs, data \in Messages : Write(fd, data)
  BY <1>1, <1>8, WriteRoundInOrder, BytesFacts DEF Write
<1>9. CASE ContinueWrite
  <2>1. sch.current \in Contexts /\ waiting[sch.current].op = "write"
    BY <1>9 DEF ContinueWrite, Resuming
  <2>2. waiting[sch.current].data \in Seq(Bytes)
    BY <1>1, <2>1, WhatFacts DEF Typed
  <2> QED BY <1>1, <1>9, <2>2, WriteRoundInOrder DEF ContinueWrite
<1>10. CASE CloseEnd
  BY <1>1, <1>10, CloseEndInOrder
<1>11. CASE WriteEof
  BY <1>11, WriteEofInOrder
<1>12. CASE WaitToWriteEof
  BY <1>1, <1>12, WaitToWriteEofInOrder
<1>13. CASE FinishClose
  BY <1>1, <1>2, <1>13, FreedInOrder DEF FinishClose
<1>14. CASE (\E pid \in Pids, fd \in FDs : Close(pid, fd)) \/ ContinueClose
  BY <1>2, <1>14 DEF Close, ContinueClose
<1>15. CASE \/ \E pid \in Pids, status \in ExitStatuses : Kill(pid, status)
            \/ \E status \in ExitStatuses : Exit(status)
            \/ FinishKill
  BY <1>2, <1>15 DEF Kill, Exit, StartKill, FinishKill
<1>16. CASE \/ \E pid \in Pids : Create(pid, DEFAULT_PRIORITY)
            \/ \E pid \in Pids : Waitpid(pid)
            \/ ReturnFromWaitpid \/ Tick
  BY <1>2, <1>16 DEF Create, Waitpid, ReturnFromWaitpid, Tick, pipeVars
<1> HIDE DEF Goal
<1>17. Goal
  BY <1>3, <1>4, <1>5, <1>6, <1>7, <1>8, <1>9, <1>10, <1>11, <1>12, <1>13, <1>14, <1>15, <1>16
     DEF Next, Goal
<1> QED BY <1>17 DEF Goal

(* A pipe is first in, first out: whatever processes do in between, a step either leaves
   the bytes of a pipe as they are, or puts some behind them, or takes some from the
   front; wrapping around the end of the circular buffer, or moving to a bigger one, loses,
   repeats or swaps none of them (pipe.c:325-404). *)
THEOREM PipeBytesStayInOrder ==
  Spec => [][~stray => \A id \in DOMAIN pipes \cap DOMAIN pipes' :
                         InOrder(pipes[id], pipes'[id])]_vars
<1>1. IInv /\ [Next]_vars =>
        [~stray => \A id \in DOMAIN pipes \cap DOMAIN pipes' : InOrder(pipes[id], pipes'[id])]_vars
  BY StepInOrder DEF IInv
<1> QED BY <1>1, Invariant, PTL DEF Spec
=============================================================================
