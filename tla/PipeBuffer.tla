----------------------------- MODULE PipeBuffer -----------------------------
(***************************************************************************)
(* The circular buffer of a pipe (pipe.c) as operators on the record of    *)
(* the pipe: buffer is the memory, as a sequence of the bytes it holds,    *)
(* those already read included, and <<>> before there is any.              *)
(***************************************************************************)
EXTENDS SequencesExt

CONSTANT BUFFER_MAX_SIZE

\* What sizes are rounded up to, up to the 4096 bytes of the code.
PowersOfTwo == {1, 2, 4, 8, 16, 32, 64, 128, 256, 512, 1024, 2048, 4096}

ASSUME BufferAssumption == BUFFER_MAX_SIZE \in PowersOfTwo

NOTHING == "nothing"  \* a byte never written

Size(p) == Len(p.buffer)

\* The bytes there are to read, oldest first.
Contents(p) ==
  [i \in 1 .. p.bytes_to_read |-> p.buffer[((p.read_idx + i - 1) % Size(p)) + 1]]

RoundUpBufferSize(size) == Min({power \in PowersOfTwo : size <= power})

\* What read(count) copies out.
BytesRead(p, count) == SubSeq(Contents(p), 1, Min({count, p.bytes_to_read}))

ReadPipeBuffer(p, count) ==
  LET n == Len(BytesRead(p, count))
  IN  IF n = 0
      THEN p
      ELSE [p EXCEPT !.read_idx = (@ + n) % Size(p), !.bytes_to_read = @ - n]

\* Mutant: the bytes keep their places in a larger buffer.
GrowInPlace(p, count) ==
  LET required == p.bytes_to_read + count
      new_size == RoundUpBufferSize(Min({required, BUFFER_MAX_SIZE}))
  IN  IF Size(p) < required /\ Size(p) < BUFFER_MAX_SIZE
      THEN [p EXCEPT !.buffer = @ \o [i \in 1 .. new_size - Size(p) |-> NOTHING]]
      ELSE p

\* A larger buffer for count more bytes, as far as it may grow; the bytes move to
\* its beginning.
Grow(p, count) ==
  LET required == p.bytes_to_read + count
      new_size == RoundUpBufferSize(Min({required, BUFFER_MAX_SIZE}))
  IN  IF Size(p) < required /\ Size(p) < BUFFER_MAX_SIZE
      THEN [p EXCEPT !.buffer = Contents(p) \o [i \in 1 .. new_size - p.bytes_to_read |-> NOTHING],
                     !.read_idx = 0]
      ELSE p

\* How many of the bytes fit.
BytesWritten(p, data) ==
  LET q == Grow(p, Len(data)) IN Min({Len(data), Size(q) - q.bytes_to_read})

WritePipeBuffer(p, data) ==
  LET q == Grow(p, Len(data))
      n == BytesWritten(p, data)
      Place(i) == ((q.read_idx + q.bytes_to_read + i - 1) % Size(q)) + 1
  IN  [q EXCEPT
         !.buffer = [place \in 1 .. Size(q) |->
                       IF \E i \in 1 .. n : Place(i) = place
                       THEN data[CHOOSE i \in 1 .. n : Place(i) = place]
                       ELSE @[place]],
         !.bytes_to_read = @ + n]
=============================================================================
