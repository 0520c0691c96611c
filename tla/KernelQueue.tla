---------------------------- MODULE KernelQueue ----------------------------
(* queue.c as the kernel uses it: a sequence of pids that wait for something. *)
EXTENDS SchedulerOps, SequencesExt

\* Mutant: only the first process in the queue is woken.
QueueUnblockFirst(s, queue) == IF queue = <<>> THEN s ELSE SchUnblock(s, Head(queue))

\* Where a queue has a pid for the last time.
LastPlaces(queue) ==
  {i \in DOMAIN queue : \A j \in DOMAIN queue : queue[j] = queue[i] => j <= i}

\* queue_unblock_all and queue_free call sch_unblock for every pid in the queue, the
\* last one first, so it is the first realtime process that takes the next switch.
QueueUnblockAll(s, queue) ==
  LET Wakes(pid) == IsActive(s, pid) /\ s.status[pid] \notin {"READY", "RUNNING"}
      status == [pid \in Pids |-> IF pid \in Range(queue) /\ Wakes(pid)
                                  THEN "READY" ELSE s.status[pid]]
      realtime == {i \in LastPlaces(queue) :
                     Wakes(queue[i]) /\ s.priority[queue[i]] <= REALTIME_PRIORITY}
      force == IF realtime = {} THEN s.force ELSE queue[Min(realtime)]
  IN  IF queue = <<>> \/ status = s.status
      THEN s
      ELSE [s EXCEPT !.status = status, !.force = force]
=============================================================================
