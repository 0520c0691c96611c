------------------------------- MODULE Keyboard -------------------------------
(***************************************************************************)
(* keyboard.c with the processes that read from it, on top of the          *)
(* scheduler: the interrupt handler puts characters into a buffer, marks   *)
(* the end of the input at Ctrl-D and kills at Ctrl-C; read sleeps while   *)
(* there is nothing.  waitpid is there because it sleeps too, and, unlike  *)
(* read, does not look again when it wakes up.                             *)
(*                                                                         *)
(* Who may read is decided by is_fg.  A process is killed without its      *)
(* children, which Process.tla has, and memory does not run out.           *)
(***************************************************************************)
EXTENDS KernelQueue

CONSTANTS
  BUFFER_MAX,  \* characters in the buffer
  Keys,        \* the keys with characters, of those in scancodes[]
  Characters,  \* scancodes[key], without and with shift, as a function on Keys
  Letters,     \* the keys caps lock works on
  Counts,      \* how many characters processes ask for
  MAX_PRESSED  \* bound: keys pressed or released

EOF == "eof"  \* '\e'

ASSUME KeyboardAssumption ==
  /\ BUFFER_MAX \in Nat \ {0} /\ MAX_PRESSED \in Nat
  /\ DOMAIN Characters = Keys /\ Letters \subseteq Keys
  /\ \A key \in Keys : DOMAIN Characters[key] = 1 .. 2
  /\ Counts \subseteq Nat
  /\ 255 \in ExitStatuses  \* of who is killed by Ctrl-C: -1

VARIABLES
  sch,           \* the statics of scheduler.c
  foreground,    \* processes with is_fg set
  shift, caps_lock, control,
  buffer_chars,  \* the first buffer_size characters of the buffer
  waiting_pids,
  waiting,       \* what a process sleeps in the middle of
  pressed,       \* keys pressed or released so far
  accepted,      \* history: the characters that found room in the buffer
  taken          \* history: those that processes have read

kbVars == <<foreground, shift, caps_lock, control, buffer_chars, waiting_pids, waiting,
            pressed, accepted, taken>>
vars == <<sch, kbVars>>

NONE == [op |-> "none"]

CharactersInUse == (UNION {Range(Characters[key]) : key \in Keys}) \cup {EOF}

Waits == {NONE} \cup [op : {"read"}, count : 1 .. BUFFER_MAX] \cup [op : {"waitpid"}, pid : Pids]

TypeOK ==
  /\ sch \in SchStates
  /\ foreground \subseteq Pids
  /\ {shift, caps_lock, control} \subseteq BOOLEAN
  /\ buffer_chars \in Seq(CharactersInUse) /\ Len(buffer_chars) <= BUFFER_MAX
  /\ waiting_pids \in Seq(Pids)
  /\ waiting \in [Pids -> Waits]
  /\ pressed \in 0 .. MAX_PRESSED

\* The shell, with the keyboard for its STDIN.
Init ==
  /\ sch = SchOnProcessCreate(SchInit, 0, MAX_PRIORITY)
  /\ foreground = {0}
  /\ shift = FALSE /\ caps_lock = FALSE /\ control = FALSE
  /\ buffer_chars = <<>> /\ waiting_pids = <<>>
  /\ waiting = [pid \in Pids |-> NONE]
  /\ pressed = 0 /\ accepted = <<>> /\ taken = <<>>

Resuming == sch.current \in Pids /\ waiting[sch.current] # NONE

Interruptible == ~Resuming

SystemCall == Interruptible /\ sch.current \in Pids

Sleep(pid, what) ==
  /\ SchYield(SchBlock(sch, pid), sch')
  /\ waiting' = [waiting EXCEPT ![pid] = what]

----------------------------------------------------------------------------
(* keyboard_handler *)

GetScancode(key) ==
  IF caps_lock /\ ~shift
  THEN Characters[key][IF key \in Letters THEN 2 ELSE 1]
  ELSE Characters[key][IF shift THEN 2 ELSE 1]

\* Mutant: the readers are not woken.
PutBufferWakesNobody(code) ==
  IF Len(buffer_chars) < BUFFER_MAX
  THEN /\ buffer_chars' = Append(buffer_chars, code)
       /\ accepted' = Append(accepted, code)
       /\ UNCHANGED <<sch, waiting_pids>>
  ELSE UNCHANGED <<sch, buffer_chars, waiting_pids, accepted>>

\* A character for which there is no room is dropped.
PutBuffer(code) ==
  IF Len(buffer_chars) < BUFFER_MAX
  THEN /\ buffer_chars' = Append(buffer_chars, code)
       /\ accepted' = Append(accepted, code)
       /\ sch' = QueueUnblockAll(sch, waiting_pids)
       /\ waiting_pids' = <<>>
  ELSE UNCHANGED <<sch, buffer_chars, waiting_pids, accepted>>

\* proc_kill: those who wait for the process are woken.  In waiting_pids, and in
\* other queues it is in, its pid stays.
OnKill(pid, status) ==
  /\ waiting' = [waiting EXCEPT ![pid] = NONE]
  /\ foreground' = foreground \ {pid}
  /\ UNCHANGED <<shift, caps_lock, control, waiting_pids, accepted, buffer_chars, taken>>

Woken(s, pid) ==
  QueueUnblockAll(s, SetToSeq({w \in Pids : waiting[w].op = "waitpid" /\ waiting[w].pid = pid}))

\* A key that stands for a character goes down.
PressKey(key) ==
  LET code == GetScancode(key)
  IN  /\ Interruptible /\ pressed < MAX_PRESSED
      /\ pressed' = pressed + 1
      /\ \/ /\ control /\ code = "c"
            /\ \E pid \in SchGetRunningPid(sch, foreground) :
                 IF pid \in Pids
                 THEN OnKill(pid, 255) /\ sch' = Woken(SchOnProcessKilled(sch, pid, 255), pid)
                 ELSE UNCHANGED <<sch, foreground, shift, caps_lock, control, buffer_chars,
                                  waiting_pids, waiting, accepted, taken>>
         \/ /\ ~(control /\ code = "c")
            /\ PutBuffer(IF control /\ code = "d" THEN EOF ELSE code)
            /\ UNCHANGED <<foreground, shift, caps_lock, control, waiting, taken>>

\* Shift and control go down or up; caps lock goes down.
PressModifier ==
  /\ Interruptible /\ pressed < MAX_PRESSED
  /\ pressed' = pressed + 1
  /\ \/ shift' = ~shift /\ UNCHANGED <<caps_lock, control>>
     \/ control' = ~control /\ UNCHANGED <<caps_lock, shift>>
     \/ caps_lock' = ~caps_lock /\ UNCHANGED <<shift, control>>
  /\ UNCHANGED <<sch, foreground, buffer_chars, waiting_pids, waiting, accepted, taken>>

----------------------------------------------------------------------------
(* read *)

\* Mutant: what does not fit into the caller's buffer is lost.
KbReadCharsEmptiesBuffer(count) ==
  /\ taken' = taken \o SubSeq(buffer_chars, 1, Min({count, Len(buffer_chars)}))
  /\ buffer_chars' = <<>>

KbReadChars(count) ==
  LET n == Min({count, Len(buffer_chars)})
  IN  /\ taken' = taken \o SubSeq(buffer_chars, 1, n)
      /\ buffer_chars' = SubSeq(buffer_chars, n + 1, Len(buffer_chars))

\* One round of read_callback's loop.
ReadRound(count) ==
  /\ \/ /\ buffer_chars # <<>>
        /\ KbReadChars(count)
        /\ waiting' = [waiting EXCEPT ![sch.current] = NONE]
        /\ UNCHANGED <<sch, waiting_pids>>
     \/ /\ buffer_chars = <<>>
        /\ waiting_pids' = Append(waiting_pids, sch.current)
        /\ Sleep(sch.current, [op |-> "read", count |-> count])
        /\ UNCHANGED <<buffer_chars, taken>>
  /\ UNCHANGED <<foreground, shift, caps_lock, control, pressed, accepted>>

\* In the background, or for no characters, read returns at once.
Read(count) ==
  /\ SystemCall /\ sch.current \in foreground /\ count > 0
  /\ ReadRound(Min({count, BUFFER_MAX}))

ContinueRead ==
  /\ Resuming /\ waiting[sch.current].op = "read"
  /\ ReadRound(waiting[sch.current].count)

----------------------------------------------------------------------------
(* Processes *)

Create(pid, is_fg) ==
  /\ SystemCall
  /\ ~IsActive(sch, pid) /\ \A other \in Pids : IsActive(sch, other) \/ pid <= other
  /\ sch' = SchOnProcessCreate(sch, pid, DEFAULT_PRIORITY)
  /\ foreground' = IF is_fg THEN foreground \cup {pid} ELSE foreground
  /\ UNCHANGED <<shift, caps_lock, control, buffer_chars, waiting_pids, waiting, pressed,
                 accepted, taken>>

Exit(status) ==
  /\ SystemCall
  /\ SchYield(Woken(SchOnProcessKilled(sch, sch.current, status), sch.current), sch')
  /\ OnKill(sch.current, status)
  /\ UNCHANGED pressed

Waitpid(pid) ==
  /\ SystemCall /\ pid # sch.current /\ IsActive(sch, pid)
  /\ Sleep(sch.current, [op |-> "waitpid", pid |-> pid])
  /\ UNCHANGED <<foreground, shift, caps_lock, control, buffer_chars, waiting_pids, pressed,
                 accepted, taken>>

ReturnFromWaitpid ==
  /\ Resuming /\ waiting[sch.current].op = "waitpid"
  /\ waiting' = [waiting EXCEPT ![sch.current] = NONE]
  /\ UNCHANGED <<sch, foreground, shift, caps_lock, control, buffer_chars, waiting_pids,
                 pressed, accepted, taken>>

Tick ==
  /\ Interruptible
  /\ SchSwitch(sch, sch')
  /\ UNCHANGED kbVars

Next ==
  \/ \E key \in Keys : PressKey(key)
  \/ PressModifier
  \/ \E count \in Counts : Read(count)
  \/ ContinueRead
  \/ \E pid \in Pids, is_fg \in BOOLEAN : Create(pid, is_fg)
  \/ \E status \in ExitStatuses : Exit(status)
  \/ \E pid \in Pids : Waitpid(pid)
  \/ ReturnFromWaitpid
  \/ Tick

Spec == Init /\ [][Next]_vars

\* The timer keeps interrupting, and a read goes on where it stopped.  Nobody has to
\* press a key.
FairSpec == Spec /\ WF_vars(Tick) /\ WF_vars(ContinueRead) /\ WF_vars(ReturnFromWaitpid)

----------------------------------------------------------------------------

(* Every character that found room is read once, in the order in which it was
   typed, by whoever reads, or is still in the buffer (keyboard.c:95-108). *)
KeysInOrder == taken \o buffer_chars = accepted

(* A process sleeps in read only while the buffer is empty, and is in the queue
   the next key wakes, whoever else is killed in it or gets its pid
   (keyboard.c:148-154). *)
NoLostWakeup ==
  \A pid \in Pids :
    waiting[pid].op = "read" /\ sch.status[pid] = "BLOCKED" =>
      buffer_chars = <<>> /\ pid \in Range(waiting_pids)

(* Whoever sleeps in read when a key is pressed gets it, unless another process
   does or Ctrl-C strikes, even if more processes want it than there are keys. *)
KeyIsRead ==
  \A pid \in Pids :
    waiting[pid].op = "read" /\ buffer_chars # <<>> ~> waiting[pid].op # "read" \/ buffer_chars = <<>>
=============================================================================
