----------------------------- MODULE MCProcess -----------------------------
(* The process table on a few slots, with one realtime and one other priority. *)
EXTENDS Process

MaxPriority == -1
RealtimePriority == -1
Asked == {MAX_PRIORITY, DEFAULT_PRIORITY}
AskedDefault == {DEFAULT_PRIORITY}

\* No guard and no property depends on the exit statuses, and only a property
\* of waitpid on gone: states that differ in nothing else are checked once.
WithoutExitStatus == [field \in DOMAIN sch \ {"exit_status"} |-> sch[field]]
TreeView == <<WithoutExitStatus, processes, kills, after, waiting>>
WaitpidView == <<TreeView, gone>>
=============================================================================
