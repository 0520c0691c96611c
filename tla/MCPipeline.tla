----------------------------- MODULE MCPipeline -----------------------------
(* The second line written may wrap around the end of the buffer, the third makes it
   grow, with bytes in it, as far as it may, and does not always fit. *)
EXTENDS Pipeline

MaxPriority == -1
RealtimePriority == -1
MC_Lines == << <<"h", "a">>, <<"\n">>, <<"e", "x", "\n">> >>
MC_Messages == {MC_Lines[i] : i \in DOMAIN MC_Lines}

\* Every way a line is refused, run in the background, run alone or piped, with and
\* without arguments, and with nothing after the bar.
MC_TypedLines ==
  {<<>>, <<"&">>, <<"what">>, <<"help">>, <<"help", "&">>, <<"help", "x">>, <<"|", "cat">>,
   <<"help", "|", "what">>, <<"help", "|", "cat", "&">>, <<"help", "|", "cat", "x">>,
   <<"help", "|">>, <<"help", "|", "cat">>, <<"help", "x", "|", "wc">>, <<"help", "|", "filter">>}

\* A full pipe's last end for writing is closed in vain over and over, and each time a
\* pid enters the queue.  And when nobody reads, because the second command has returned
\* at once, pipe_open frees the pipe under a writer that sleeps in it.
Modelled ==
  /\ ~(stray /\ NobodyReads)
  /\ \A id \in DOMAIN pipes : Len(pipes[id].wr_q) <= MAX_PROCESSES
=============================================================================
