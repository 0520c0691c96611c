---------------------------- MODULE MCPhilosophers ----------------------------
(* Three philosophers at the table, one more place in forks[], shell and command. *)
EXTENDS Philosophers

MaxPriority == -1
RealtimePriority == -1
MC_Names == 0 .. 3
=============================================================================
