------------------------------- MODULE MCPipe -------------------------------
(* One pipe of at most two bytes, one name, and messages that fit and do not fit, with
   descriptors that any process opens, duplicates and closes for any. *)
EXTENDS Pipe

MaxPriority == -1
RealtimePriority == -1
MC_Messages == {<<"x">>, <<"x", "x", "x">>}

\* Where what the code does is not modelled, the search stops; so it does when the
\* shell dies, when there are more than two open pairs of ends, or when a queue is
\* longer than there are processes (a process that tries in vain to leave its mark
\* enters it again and again).
Modelled ==
  /\ ~stray /\ Alive(0) /\ Cardinality(pipe_fd_table) <= 4
  /\ \A id \in DOMAIN pipes : {Len(pipes[id].rd_q), Len(pipes[id].wr_q)} \subseteq 0 .. MAX_PROCESSES

\* Nothing depends on the exit statuses, and of the bytes that were read only on
\* whether the last one is the mark.
View ==
  <<[field \in DOMAIN sch \ {"exit_status"} |-> sch[field]],
    [id \in DOMAIN pipes |->
       <<[field \in DOMAIN pipes[id] \ {"buffer"} |-> pipes[id][field]],
         Size(pipes[id]), Contents(pipes[id]), Size(pipes[id]) > 0 /\ EofWasRead(pipes[id])>>],
    live, fds, pipe_fd_table, waiting, closing, stray>>
=============================================================================
