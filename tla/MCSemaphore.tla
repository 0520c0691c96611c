---------------------------- MODULE MCSemaphore ----------------------------
(* Four processes and one semaphore, with bytes of four values. *)
EXTENDS Semaphore

MaxPriority == -1
RealtimePriority == -1

\* Nothing depends on the exit statuses.
WithoutExitStatus == [field \in DOMAIN sch \ {"exit_status"} |-> sch[field]]
\* Names are alike: sem_open looks for them at ids in order, whichever they are.
Symmetry == Permutations(Names)

View == <<WithoutExitStatus, semVars>>
=============================================================================
