---------------------------- MODULE MCScheduler ----------------------------
(* The scheduler on a small table and a short scale of priorities: one      *)
(* realtime priority, the default, the lowest (no quantums), one invalid.   *)
EXTENDS Scheduler

MaxPriority == -1
RealtimePriority == -1
Asked == {MAX_PRIORITY, DEFAULT_PRIORITY, MIN_PRIORITY, MIN_PRIORITY + 1}
=============================================================================
