--------------------------- MODULE KeyboardProofs ---------------------------
(***************************************************************************)
(* The invariants of Keyboard, for every number of processes and keys,     *)
(* every size of the buffer and every number of keys pressed.              *)
(*                                                                         *)
(* TypeOK, KeysInOrder and NoLostWakeup are inductive with two facts more: *)
(* the histories are sequences of characters, and only processes that have *)
(* a context are in the middle of a call.  The latter is what proc_kill    *)
(* must see to, or a new process would go on with a dead one's read.       *)
(***************************************************************************)
EXTENDS Keyboard, KernelLemmas

Typed ==
  /\ foreground \subseteq Pids
  /\ shift \in BOOLEAN /\ caps_lock \in BOOLEAN /\ control \in BOOLEAN
  /\ buffer_chars \in Seq(CharactersInUse) /\ Len(buffer_chars) <= BUFFER_MAX
  /\ waiting_pids \in Seq(Pids)
  /\ waiting \in [Pids -> Waits]
  /\ pressed \in 0 .. MAX_PRESSED
  /\ accepted \in Seq(CharactersInUse) /\ taken \in Seq(CharactersInUse)

OnlyLiveWait == \A pid \in Pids : waiting[pid] # NONE => IsActive(sch, pid)

ReadersQueued ==
  \A pid \in Pids :
    waiting[pid].op = "read" /\ Asleep(sch, pid) =>
      buffer_chars = <<>> /\ pid \in Range(waiting_pids)

IInv == SchInv(sch) /\ Typed /\ OnlyLiveWait /\ ReadersQueued /\ KeysInOrder

----------------------------------------------------------------------------

LEMMA ConstantFacts ==
  /\ Pids \subseteq Int /\ 0 \in Pids /\ IsFiniteSet(Pids)
  /\ KERNEL_PROC_PID \notin Pids /\ KILLED_PROC_PID \notin Pids
  /\ BUFFER_MAX \in Nat \ {0} /\ MAX_PRESSED \in Nat /\ Counts \subseteq Nat
  /\ DEFAULT_PRIORITY \in Int /\ MAX_PRIORITY \in Int /\ 255 \in ExitStatuses
<1>1. IsFiniteSet(0 .. MAX_PROCESSES - 1)
  BY SchedulerAssumption, FS_Interval
<1> QED
  BY <1>1, SchedulerAssumption, KeyboardAssumption DEF Pids, KERNEL_PROC_PID, KILLED_PROC_PID

LEMMA WaitsFacts ==
  /\ NONE \in Waits /\ NONE.op = "none"
  /\ \A count \in 1 .. BUFFER_MAX :
       LET what == [op |-> "read", count |-> count] IN what \in Waits /\ what # NONE
  /\ \A pid \in Pids :
       LET what == [op |-> "waitpid", pid |-> pid]
       IN  what \in Waits /\ what # NONE /\ what.op # "read"
  /\ \A what \in Waits : what.op = "read" => what # NONE /\ what.count \in 1 .. BUFFER_MAX
BY DEF Waits, NONE

LEMMA CodeFacts ==
  ASSUME NEW key \in Keys
  PROVE  GetScancode(key) \in CharactersInUse /\ EOF \in CharactersInUse
<1>1. DOMAIN Characters[key] = 1 .. 2
  BY KeyboardAssumption
<1>2. Characters[key][1] \in Range(Characters[key]) /\ Characters[key][2] \in Range(Characters[key])
  BY <1>1 DEF Range
<1> QED BY <1>2 DEF GetScancode, CharactersInUse

\* A process at a system call, or in the middle of one, has a context.
LEMMA CallerFacts ==
  ASSUME IInv, sch.current \in Pids
  PROVE  IsActive(sch, sch.current) /\ sch.current # KILLED_PROC_PID
BY ConstantFacts DEF IInv, SchInv, ContextsKept

LEMMA InitEstablishesIInv == Init => IInv
<1> SUFFICES ASSUME Init PROVE IInv
  OBVIOUS
<1>1. /\ SchInit.rsp[0] = NULL /\ SchInit.current # KILLED_PROC_PID
      /\ 0 \in Pids /\ MAX_PRIORITY \in Int
  BY SchedulerAssumption DEF SchInit, Pids, KERNEL_PROC_PID, KILLED_PROC_PID
<1>2. SchInv(sch)
  BY <1>1, InitHasSchInv, CreateKeepsSchInv DEF Init
<1>3. Typed
  BY ConstantFacts, WaitsFacts DEF Init, Typed
<1>4. OnlyLiveWait /\ ReadersQueued
  BY WaitsFacts DEF Init, OnlyLiveWait, ReadersQueued
<1>5. KeysInOrder
  BY DEF Init, KeysInOrder
<1> QED BY <1>2, <1>3, <1>4, <1>5 DEF IInv

----------------------------------------------------------------------------
(* Steps after which at most one more process is in the middle of a call *)

\* Nobody falls asleep, whoever goes on with a call keeps its context, and an empty
\* buffer stays empty.
LEMMA QuietStepKeepsIInv ==
  ASSUME IInv, SchInv(sch'), Typed', KeysInOrder',
         waiting_pids' = waiting_pids,
         buffer_chars = <<>> => buffer_chars' = <<>>,
         \A pid \in Pids : Asleep(sch', pid) => Asleep(sch, pid),
         \A pid \in Pids : waiting'[pid] # NONE =>
           waiting'[pid] = waiting[pid] /\ (IsActive(sch, pid) => IsActive(sch', pid))
  PROVE  IInv'
<1>1. OnlyLiveWait'
  BY DEF IInv, OnlyLiveWait
<1>2. ReadersQueued'
  <2> SUFFICES ASSUME NEW pid \in Pids, waiting'[pid].op = "read", Asleep(sch', pid)
               PROVE  buffer_chars' = <<>> /\ pid \in Range(waiting_pids')
    BY DEF ReadersQueued
  <2>1. waiting'[pid] # NONE
    BY WaitsFacts
  <2> QED BY <2>1 DEF IInv, ReadersQueued
<1> QED BY <1>1, <1>2 DEF IInv

\* sch_block and sch_yield of the caller, which will go on with what it was doing.
LEMMA SleepFacts ==
  ASSUME IInv, sch.current \in Pids, NEW what \in Waits, Sleep(sch.current, what)
  PROVE  /\ SchInv(sch') /\ sch'.rsp = sch.rsp
         /\ waiting' \in [Pids -> Waits]
         /\ \A pid \in Pids : waiting'[pid] = IF pid = sch.current THEN what ELSE waiting[pid]
         /\ \A pid \in Pids : Asleep(sch', pid) => Asleep(sch, pid) \/ pid = sch.current
<1> DEFINE me == sch.current
           s == SchBlock(sch, me)
<1>1. me \in Pids /\ me \in Int /\ SchInv(sch) /\ waiting \in [Pids -> Waits]
  BY ConstantFacts DEF IInv, Typed
<1>2. SchYield(s, sch') /\ waiting' = [waiting EXCEPT ![me] = what]
  BY DEF Sleep
<1> HIDE DEF me
<1>3. /\ SchInv(s) /\ s.rsp = sch.rsp
      /\ \A pid \in Pids : Asleep(s, pid) <=> Asleep(sch, pid) \/ (pid = me /\ IsActive(sch, pid))
  BY <1>1, BlockFacts
<1> HIDE DEF s
<1>4. /\ SchInv(sch') /\ sch'.rsp = s.rsp
      /\ \A pid \in Pids : Asleep(sch', pid) <=> Asleep(s, pid)
  BY <1>2, <1>3, YieldFacts
<1> QED BY <1>1, <1>2, <1>3, <1>4 DEF me

----------------------------------------------------------------------------
(* read *)

\* What a read takes is the beginning of what there is.
LEMMA KbReadCharsFacts ==
  ASSUME Typed, KeysInOrder, NEW count \in Nat, KbReadChars(count), accepted' = accepted
  PROVE  /\ buffer_chars' \in Seq(CharactersInUse) /\ Len(buffer_chars') <= BUFFER_MAX
         /\ taken' \in Seq(CharactersInUse) /\ KeysInOrder'
<1> DEFINE b == buffer_chars
           len == Len(b)
           n == Min({count, len})
           low == SubSeq(b, 1, n)
           high == SubSeq(b, n + 1, len)
<1>1. b \in Seq(CharactersInUse) /\ taken \in Seq(CharactersInUse) /\ len \in Nat
      /\ len <= BUFFER_MAX /\ taken \o b = accepted
  BY LenProperties DEF Typed, KeysInOrder
<1>2. taken' = taken \o low /\ b' = high
  BY DEF KbReadChars
<1> HIDE DEF len
<1>3. n \in 0 .. len
  <2>1. len \in Nat
    BY <1>1
  <2>2. n = IF count <= len THEN count ELSE len
    BY <2>1, MinOfTwo
  <2> QED BY <2>1, <2>2
<1> USE DEF len
<1> HIDE DEF n
<1>4. low \in Seq(CharactersInUse)
  <2> DEFINE one == 1
  <2>1. one \in 1 .. Len(b) + 1 /\ n \in one - 1 .. Len(b)
    BY <1>1, <1>3
  <2> HIDE DEF one
  <2>2. SubSeq(b, one, n) \in Seq(CharactersInUse)
    BY <1>1, <2>1, SegmentFacts
  <2> QED BY <2>2 DEF one
<1>5. high \in Seq(CharactersInUse) /\ Len(high) = len - n
  <2> DEFINE m == n + 1
  <2>1. m \in 1 .. Len(b) + 1 /\ len \in m - 1 .. Len(b) /\ len - m + 1 = len - n
    BY <1>1, <1>3
  <2> HIDE DEF m
  <2>2. SubSeq(b, m, len) \in Seq(CharactersInUse) /\ Len(SubSeq(b, m, len)) = len - m + 1
    BY <1>1, <2>1, SegmentFacts
  <2> QED BY <2>1, <2>2 DEF m
<1>6. low \o high = b
  <2> DEFINE one == 1
             k == n
  <2>1. one \in 1 .. Len(b) + 1 /\ k \in one - 1 .. Len(b) /\ len \in k .. Len(b)
    BY <1>1, <1>3
  <2> HIDE DEF one, k
  <2>2. SubSeq(b, one, k) \o SubSeq(b, k + 1, len) = SubSeq(b, one, len)
    BY <1>1, <2>1, ConcatAdjacentSubSeq
  <2>3. SubSeq(b, 1, len) = b
    BY <1>1, SubSeqFull
  <2> QED BY <2>2, <2>3 DEF one, k
<1> HIDE DEF low, high
<1>7. (taken \o low) \o high = taken \o (low \o high)
  <2>1. taken \in Seq(CharactersInUse)
    BY <1>1
  <2> QED BY <1>4, <1>5, <2>1, ConcatAssociative
<1>8. taken \o low \in Seq(CharactersInUse)
  BY <1>1, <1>4, ConcatProperties
<1>9. KeysInOrder'
  BY <1>1, <1>2, <1>6, <1>7 DEF KeysInOrder
<1> QED BY <1>1, <1>2, <1>3, <1>5, <1>8, <1>9, ConstantFacts

LEMMA ReadRoundKeepsIInv ==
  ASSUME IInv, sch.current \in Pids, NEW count \in 1 .. BUFFER_MAX, ReadRound(count)
  PROVE  IInv'
<1> DEFINE me == sch.current
<1>1. /\ foreground' = foreground /\ shift' = shift /\ caps_lock' = caps_lock
      /\ control' = control /\ pressed' = pressed /\ accepted' = accepted
  BY DEF ReadRound
<1>2. CASE /\ buffer_chars # <<>> /\ KbReadChars(count)
           /\ waiting' = [waiting EXCEPT ![me] = NONE]
           /\ UNCHANGED <<sch, waiting_pids>>
  <2>1. count \in Nat
    BY ConstantFacts
  <2>2. /\ buffer_chars' \in Seq(CharactersInUse) /\ Len(buffer_chars') <= BUFFER_MAX
        /\ taken' \in Seq(CharactersInUse) /\ KeysInOrder'
    BY <1>1, <1>2, <2>1, KbReadCharsFacts DEF IInv
  <2>3. waiting' \in [Pids -> Waits]
        /\ \A pid \in Pids : waiting'[pid] # NONE => waiting'[pid] = waiting[pid]
    BY <1>2, WaitsFacts DEF IInv, Typed
  <2>4. Typed'
    BY <1>1, <1>2, <2>2, <2>3 DEF IInv, Typed
  <2> QED BY <1>2, <2>2, <2>3, <2>4, QuietStepKeepsIInv DEF IInv
<1>3. CASE /\ buffer_chars = <<>>
           /\ waiting_pids' = Append(waiting_pids, me)
           /\ Sleep(me, [op |-> "read", count |-> count])
           /\ UNCHANGED <<buffer_chars, taken>>
  <2> DEFINE what == [op |-> "read", count |-> count]
  <2>1. what \in Waits /\ what # NONE
    BY WaitsFacts
  <2>2. Sleep(me, what)
    BY <1>3
  <2> HIDE DEF what
  <2>3. /\ SchInv(sch') /\ sch'.rsp = sch.rsp /\ waiting' \in [Pids -> Waits]
        /\ \A pid \in Pids : waiting'[pid] = IF pid = me THEN what ELSE waiting[pid]
        /\ \A pid \in Pids : Asleep(sch', pid) => Asleep(sch, pid) \/ pid = me
    BY <2>1, <2>2, SleepFacts
  <2>4. waiting_pids' \in Seq(Pids) /\ Range(waiting_pids') = Range(waiting_pids) \cup {me}
    BY <1>3, AppendFacts DEF IInv, Typed
  <2>5. Typed'
    BY <1>1, <1>3, <2>3, <2>4 DEF IInv, Typed
  <2>6. OnlyLiveWait'
    BY <2>3, CallerFacts DEF IInv, OnlyLiveWait, IsActive
  <2>7. ReadersQueued'
    BY <1>3, <2>3, <2>4 DEF IInv, ReadersQueued
  <2>8. KeysInOrder'
    BY <1>1, <1>3 DEF IInv, KeysInOrder
  <2> QED BY <2>3, <2>5, <2>6, <2>7, <2>8 DEF IInv
<1> QED BY <1>2, <1>3 DEF ReadRound

LEMMA ReadKeepsIInv ==
  ASSUME IInv, NEW count \in Counts, Read(count)
  PROVE  IInv'
<1> DEFINE n == Min({count, BUFFER_MAX})
<1>1. sch.current \in Pids /\ count \in Nat /\ count > 0
  BY ConstantFacts DEF Read, SystemCall
<1>2. n \in 1 .. BUFFER_MAX
  BY <1>1, MinOfTwo, ConstantFacts
<1>3. ReadRound(n)
  BY DEF Read
<1> HIDE DEF n
<1> QED BY <1>1, <1>2, <1>3, ReadRoundKeepsIInv

LEMMA ContinueReadKeepsIInv ==
  ASSUME IInv, ContinueRead
  PROVE  IInv'
<1> DEFINE n == waiting[sch.current].count
<1>1. sch.current \in Pids /\ waiting[sch.current] \in Waits /\ waiting[sch.current].op = "read"
  BY DEF ContinueRead, Resuming, IInv, Typed
<1>2. n \in 1 .. BUFFER_MAX
  BY <1>1, WaitsFacts
<1>3. ReadRound(n)
  BY DEF ContinueRead
<1> HIDE DEF n
<1> QED BY <1>1, <1>2, <1>3, ReadRoundKeepsIInv

----------------------------------------------------------------------------
(* keyboard_handler *)

LEMMA PutBufferKeepsIInv ==
  ASSUME IInv, NEW code \in CharactersInUse, PutBuffer(code), pressed' \in 0 .. MAX_PRESSED,
         UNCHANGED <<foreground, shift, caps_lock, control, waiting, taken>>
  PROVE  IInv'
<1>1. CASE Len(buffer_chars) < BUFFER_MAX
  <2> DEFINE s == QueueUnblockAll(sch, waiting_pids)
  <2>1. /\ buffer_chars' = Append(buffer_chars, code) /\ accepted' = Append(accepted, code)
        /\ sch' = s /\ waiting_pids' = <<>>
    BY <1>1 DEF PutBuffer
  <2>2. waiting_pids \in Seq(Int)
    BY ConstantFacts, SeqMonotonic DEF IInv, Typed
  <2>3. /\ SchInv(s) /\ s.rsp = sch.rsp
        /\ \A pid \in Pids : Asleep(s, pid) <=> Asleep(sch, pid) /\ pid \notin Range(waiting_pids)
    BY <2>2, UnblockAllFacts DEF IInv
  <2> HIDE DEF s
  <2>4. /\ buffer_chars' \in Seq(CharactersInUse) /\ Len(buffer_chars') = Len(buffer_chars) + 1
        /\ accepted' \in Seq(CharactersInUse) /\ Len(buffer_chars) \in Nat
    BY <2>1, AppendProperties, LenProperties DEF IInv, Typed
  <2>5. Typed'
    BY <1>1, <2>1, <2>4, ConstantFacts DEF IInv, Typed
  <2>6. OnlyLiveWait'
    BY <2>1, <2>3 DEF IInv, OnlyLiveWait, IsActive
  <2>7. ReadersQueued'
    BY <2>1, <2>3 DEF IInv, ReadersQueued
  <2>8. KeysInOrder'
    <3>1. /\ taken \in Seq(CharactersInUse) /\ buffer_chars \in Seq(CharactersInUse)
          /\ <<code>> \in Seq(CharactersInUse) /\ accepted \in Seq(CharactersInUse)
      BY DEF IInv, Typed
    <3>2. /\ buffer_chars' = buffer_chars \o <<code>> /\ accepted' = accepted \o <<code>>
          /\ accepted = taken \o buffer_chars
      BY <2>1, <3>1, AppendIsConcat DEF IInv, KeysInOrder
    <3>3. (taken \o buffer_chars) \o <<code>> = taken \o (buffer_chars \o <<code>>)
      BY <3>1, ConcatAssociative
    <3> QED BY <3>2, <3>3 DEF KeysInOrder
  <2> QED BY <2>1, <2>3, <2>5, <2>6, <2>7, <2>8 DEF IInv
<1>2. CASE ~(Len(buffer_chars) < BUFFER_MAX)
  <2>1. UNCHANGED <<sch, buffer_chars, waiting_pids, accepted>>
    BY <1>2 DEF PutBuffer
  <2>2. Typed' /\ KeysInOrder'
    BY <2>1 DEF IInv, Typed, KeysInOrder
  <2> QED BY <2>1, <2>2, QuietStepKeepsIInv DEF IInv
<1> QED BY <1>1, <1>2

\* What proc_kill does to a process leaves no call of its own.
LEMMA KilledStateFacts ==
  ASSUME IInv, NEW pid \in Pids, NEW status \in ExitStatuses, NEW s,
         s = Woken(SchOnProcessKilled(sch, pid, status), pid), OnKill(pid, status)
  PROVE  /\ SchInv(s) /\ s.rsp = [sch.rsp EXCEPT ![pid] = NULL]
         /\ \A q \in Pids : Asleep(s, q) => Asleep(sch, q)
         /\ waiting' \in [Pids -> Waits]
         /\ \A q \in Pids : waiting'[q] # NONE => q # pid /\ waiting'[q] = waiting[q]
         /\ foreground' \subseteq Pids
<1> DEFINE t == SchOnProcessKilled(sch, pid, status)
           waiters == {w \in Pids : waiting[w].op = "waitpid" /\ waiting[w].pid = pid}
           queue == SetToSeq(waiters)
<1>1. s = QueueUnblockAll(t, queue)
  BY DEF Woken
<1>2. /\ SchInv(t) /\ t.rsp = [sch.rsp EXCEPT ![pid] = NULL]
      /\ \A q \in Pids : Asleep(t, q) <=> Asleep(sch, q) /\ q # pid
  BY KilledFacts DEF IInv
<1> HIDE DEF t
<1>3. queue \in Seq(Int)
  <2>1. waiters \in SUBSET Pids
    OBVIOUS
  <2>2. IsFiniteSet(waiters)
    BY <2>1, ConstantFacts, FS_Subset
  <2>3. queue \in Seq(waiters)
    <3> HIDE DEF waiters
    <3> QED BY <2>2, SetToSeqFacts
  <2>4. waiters \subseteq Int
    BY <2>1, ConstantFacts
  <2> HIDE DEF waiters, queue
  <2> QED BY <2>3, <2>4, SeqMonotonic
<1> HIDE DEF queue
<1>4. /\ SchInv(s) /\ s.rsp = t.rsp
      /\ \A q \in Pids : Asleep(s, q) => Asleep(t, q)
  BY <1>1, <1>2, <1>3, UnblockAllFacts
<1>5. /\ waiting' \in [Pids -> Waits]
      /\ \A q \in Pids : waiting'[q] # NONE => q # pid /\ waiting'[q] = waiting[q]
      /\ foreground' \subseteq Pids
  BY WaitsFacts DEF OnKill, IInv, Typed
<1> QED BY <1>2, <1>4, <1>5

LEMMA PressKeyKeepsIInv ==
  ASSUME IInv, NEW key \in Keys, PressKey(key)
  PROVE  IInv'
<1> DEFINE code == GetScancode(key)
<1>1. pressed' \in 0 .. MAX_PRESSED /\ code \in CharactersInUse /\ EOF \in CharactersInUse
  BY CodeFacts, ConstantFacts DEF PressKey, IInv, Typed
<1>2. CASE \E pid \in SchGetRunningPid(sch, foreground) :
             IF pid \in Pids
             THEN OnKill(pid, 255) /\ sch' = Woken(SchOnProcessKilled(sch, pid, 255), pid)
             ELSE UNCHANGED <<sch, foreground, shift, caps_lock, control, buffer_chars,
                              waiting_pids, waiting, accepted, taken>>
  <2> PICK pid :
        IF pid \in Pids
        THEN OnKill(pid, 255) /\ sch' = Woken(SchOnProcessKilled(sch, pid, 255), pid)
        ELSE UNCHANGED <<sch, foreground, shift, caps_lock, control, buffer_chars,
                         waiting_pids, waiting, accepted, taken>>
    BY <1>2
  <2>1. CASE pid \in Pids
    <3> DEFINE status == 255
    <3>1. /\ status \in ExitStatuses /\ OnKill(pid, status)
          /\ sch' = Woken(SchOnProcessKilled(sch, pid, status), pid)
      BY <2>1, ConstantFacts
    <3> HIDE DEF status
    <3>2. /\ SchInv(sch') /\ sch'.rsp = [sch.rsp EXCEPT ![pid] = NULL]
          /\ \A q \in Pids : Asleep(sch', q) => Asleep(sch, q)
          /\ waiting' \in [Pids -> Waits]
          /\ \A q \in Pids : waiting'[q] # NONE => q # pid /\ waiting'[q] = waiting[q]
          /\ foreground' \subseteq Pids
      BY <2>1, <3>1, KilledStateFacts
    <3>3. \A q \in Pids : q # pid => (IsActive(sch, q) => IsActive(sch', q))
      BY <3>2 DEF IInv, SchInv, SchStates, IsActive
    <3>4. Typed' /\ KeysInOrder' /\ waiting_pids' = waiting_pids /\ buffer_chars' = buffer_chars
      BY <1>1, <3>1, <3>2 DEF OnKill, IInv, Typed, KeysInOrder
    <3> QED BY <3>2, <3>3, <3>4, QuietStepKeepsIInv
  <2>2. CASE pid \notin Pids
    <3>1. UNCHANGED <<sch, foreground, shift, caps_lock, control, buffer_chars,
                      waiting_pids, waiting, accepted, taken>>
      BY <2>2
    <3>2. Typed' /\ KeysInOrder'
      BY <1>1, <3>1 DEF IInv, Typed, KeysInOrder
    <3> QED BY <3>1, <3>2, QuietStepKeepsIInv DEF IInv
  <2> QED BY <2>1, <2>2
<1>3. CASE /\ PutBuffer(IF control /\ code = "d" THEN EOF ELSE code)
           /\ UNCHANGED <<foreground, shift, caps_lock, control, waiting, taken>>
  <2> DEFINE c == IF control /\ code = "d" THEN EOF ELSE code
  <2>1. c \in CharactersInUse
    BY <1>1
  <2>2. PutBuffer(c)
    BY <1>3
  <2> HIDE DEF c
  <2> QED BY <1>1, <1>3, <2>1, <2>2, PutBufferKeepsIInv
<1> QED BY <1>2, <1>3 DEF PressKey

----------------------------------------------------------------------------
(* Processes, and the specification *)

LEMMA CreateKeepsIInv ==
  ASSUME IInv, NEW pid \in Pids, NEW is_fg \in BOOLEAN, Create(pid, is_fg)
  PROVE  IInv'
<1>1. sch.current # KILLED_PROC_PID /\ sch.rsp[pid] = NULL
      /\ sch' = SchOnProcessCreate(sch, pid, DEFAULT_PRIORITY)
  BY CallerFacts DEF Create, SystemCall, IsActive
<1>2. DEFAULT_PRIORITY \in Int
  BY ConstantFacts
<1>3. /\ SchInv(sch') /\ sch'.rsp = [sch.rsp EXCEPT ![pid] = pid]
      /\ \A q \in Pids : Asleep(sch', q) <=> Asleep(sch, q)
  BY <1>1, <1>2, CreateFacts DEF IInv
<1>4. \A q \in Pids : IsActive(sch, q) => IsActive(sch', q)
  BY <1>1, <1>3 DEF IInv, SchInv, SchStates, IsActive
<1>5. Typed' /\ KeysInOrder'
  BY DEF Create, IInv, Typed, KeysInOrder
<1> QED BY <1>3, <1>4, <1>5, QuietStepKeepsIInv DEF Create

LEMMA ExitKeepsIInv ==
  ASSUME IInv, NEW status \in ExitStatuses, Exit(status)
  PROVE  IInv'
<1> DEFINE me == sch.current
           s == Woken(SchOnProcessKilled(sch, me, status), me)
<1>1. me \in Pids /\ SchYield(s, sch') /\ OnKill(me, status) /\ pressed' = pressed
  BY DEF Exit, SystemCall
<1> HIDE DEF me
<1>2. /\ SchInv(s) /\ s.rsp = [sch.rsp EXCEPT ![me] = NULL]
      /\ \A q \in Pids : Asleep(s, q) => Asleep(sch, q)
      /\ waiting' \in [Pids -> Waits]
      /\ \A q \in Pids : waiting'[q] # NONE => q # me /\ waiting'[q] = waiting[q]
      /\ foreground' \subseteq Pids
  BY <1>1, KilledStateFacts
<1> HIDE DEF s
<1>3. SchInv(sch') /\ sch'.rsp = s.rsp /\ \A q \in Pids : Asleep(sch', q) <=> Asleep(s, q)
  BY <1>1, <1>2, YieldFacts
<1>4. \A q \in Pids : q # me => (IsActive(sch, q) => IsActive(sch', q))
  BY <1>1, <1>2, <1>3 DEF IInv, SchInv, SchStates, IsActive
<1>5. Typed' /\ KeysInOrder' /\ waiting_pids' = waiting_pids /\ buffer_chars' = buffer_chars
  BY <1>1, <1>2 DEF OnKill, IInv, Typed, KeysInOrder
<1> QED BY <1>2, <1>3, <1>4, <1>5, QuietStepKeepsIInv

LEMMA WaitpidKeepsIInv ==
  ASSUME IInv, NEW pid \in Pids, Waitpid(pid)
  PROVE  IInv'
<1> DEFINE what == [op |-> "waitpid", pid |-> pid]
           me == sch.current
<1>1. /\ me \in Pids /\ Sleep(me, what)
      /\ UNCHANGED <<foreground, shift, caps_lock, control, buffer_chars, waiting_pids, pressed,
                     accepted, taken>>
  BY DEF Waitpid, SystemCall
<1>2. what \in Waits /\ what.op # "read" /\ IsActive(sch, me)
  BY <1>1, WaitsFacts, CallerFacts
<1> HIDE DEF what
<1>3. /\ SchInv(sch') /\ sch'.rsp = sch.rsp /\ waiting' \in [Pids -> Waits]
      /\ \A q \in Pids : waiting'[q] = IF q = me THEN what ELSE waiting[q]
      /\ \A q \in Pids : Asleep(sch', q) => Asleep(sch, q) \/ q = me
  BY <1>1, <1>2, SleepFacts
<1> HIDE DEF me
<1>4. Typed' /\ KeysInOrder'
  BY <1>1, <1>3 DEF IInv, Typed, KeysInOrder
<1>5. OnlyLiveWait' /\ ReadersQueued'
  BY <1>1, <1>2, <1>3 DEF IInv, OnlyLiveWait, ReadersQueued, IsActive
<1> QED BY <1>3, <1>4, <1>5 DEF IInv

LEMMA NextKeepsIInv == IInv /\ [Next]_vars => IInv'
<1> SUFFICES ASSUME IInv, [Next]_vars PROVE IInv'
  OBVIOUS
<1>1. CASE PressModifier
  <2>1. shift' \in BOOLEAN /\ caps_lock' \in BOOLEAN /\ control' \in BOOLEAN
    <3>1. shift \in BOOLEAN /\ caps_lock \in BOOLEAN /\ control \in BOOLEAN
      BY DEF IInv, Typed
    <3>2. \/ shift' = ~shift /\ caps_lock' = caps_lock /\ control' = control
          \/ control' = ~control /\ caps_lock' = caps_lock /\ shift' = shift
          \/ caps_lock' = ~caps_lock /\ shift' = shift /\ control' = control
      BY <1>1, Zenon DEF PressModifier
    <3> QED BY <3>1, <3>2, Zenon
  <2>2. pressed' \in 0 .. MAX_PRESSED
    <3>1. pressed \in 0 .. MAX_PRESSED /\ pressed < MAX_PRESSED /\ pressed' = pressed + 1
      BY <1>1 DEF PressModifier, IInv, Typed
    <3> QED BY <3>1, ConstantFacts
  <2>3. UNCHANGED <<sch, foreground, buffer_chars, waiting_pids, waiting, accepted, taken>>
    BY <1>1 DEF PressModifier
  <2>4. Typed' /\ KeysInOrder'
    BY <2>1, <2>2, <2>3 DEF IInv, Typed, KeysInOrder
  <2> QED BY <2>3, <2>4, QuietStepKeepsIInv DEF IInv
<1>2. CASE ReturnFromWaitpid
  <2>1. waiting' \in [Pids -> Waits]
        /\ \A pid \in Pids : waiting'[pid] # NONE => waiting'[pid] = waiting[pid]
    BY <1>2, WaitsFacts DEF ReturnFromWaitpid, IInv, Typed
  <2>2. Typed' /\ KeysInOrder'
    BY <1>2, <2>1 DEF ReturnFromWaitpid, IInv, Typed, KeysInOrder
  <2> QED BY <1>2, <2>1, <2>2, QuietStepKeepsIInv DEF ReturnFromWaitpid, IInv
<1>3. CASE Tick
  <2>1. /\ SchInv(sch') /\ sch'.rsp = sch.rsp
        /\ \A pid \in Pids : Asleep(sch', pid) <=> Asleep(sch, pid)
    BY <1>3, SwitchFacts DEF Tick, IInv
  <2>2. Typed' /\ KeysInOrder'
    BY <1>3 DEF Tick, kbVars, IInv, Typed, KeysInOrder
  <2>3. \A pid \in Pids : IsActive(sch', pid) <=> IsActive(sch, pid)
    BY <2>1 DEF IsActive
  <2> QED BY <1>3, <2>1, <2>2, <2>3, QuietStepKeepsIInv DEF Tick, kbVars
<1>4. CASE UNCHANGED vars
  <2>1. Typed' /\ KeysInOrder'
    BY <1>4 DEF vars, kbVars, IInv, Typed, KeysInOrder
  <2> QED BY <1>4, <2>1, QuietStepKeepsIInv DEF vars, kbVars, IInv
<1> QED
  BY <1>1, <1>2, <1>3, <1>4, PressKeyKeepsIInv, ReadKeepsIInv, ContinueReadKeepsIInv,
     CreateKeepsIInv, ExitKeepsIInv, WaitpidKeepsIInv DEF Next

(* The buffer never overflows, and what a process sleeps in the middle of is a
   read or a waitpid. *)
THEOREM KeyboardTypeOK == Spec => []TypeOK
<1>1. IInv => TypeOK
  BY DEF IInv, SchInv, Typed, TypeOK
<1> QED BY InitEstablishesIInv, NextKeepsIInv, <1>1, PTL DEF Spec

(* Every character that found room is read once, in the order typed. *)
THEOREM KeyboardKeysInOrder == Spec => []KeysInOrder
<1>1. IInv => KeysInOrder
  BY DEF IInv
<1> QED BY InitEstablishesIInv, NextKeepsIInv, <1>1, PTL DEF Spec

(* A process sleeps in read only while there is nothing to read, and the next key
   wakes it, whoever was killed meanwhile. *)
THEOREM KeyboardNoLostWakeup == Spec => []NoLostWakeup
<1>1. IInv => NoLostWakeup
  <2> SUFFICES ASSUME IInv, NEW pid \in Pids,
                      waiting[pid].op = "read", sch.status[pid] = "BLOCKED"
               PROVE  buffer_chars = <<>> /\ pid \in Range(waiting_pids)
    BY DEF NoLostWakeup
  <2>1. waiting[pid] # NONE
    BY WaitsFacts
  <2>2. Asleep(sch, pid)
    BY <2>1 DEF IInv, OnlyLiveWait, Asleep
  <2> QED BY <2>2 DEF IInv, ReadersQueued
<1> QED BY InitEstablishesIInv, NextKeepsIInv, <1>1, PTL DEF Spec
=============================================================================
