--------------------------- MODULE MCTestProcesses ---------------------------
(* testproc with a shell, itself and the processes it makes. *)
EXTENDS TestProcesses

MaxPriority == -1
RealtimePriority == -1
AskedDefault == {DEFAULT_PRIORITY}
=============================================================================
