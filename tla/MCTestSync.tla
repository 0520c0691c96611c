----------------------------- MODULE MCTestSync -----------------------------
(* testsync with three workers and process 0. *)
EXTENDS TestSync

MaxPriority == -1
RealtimePriority == -1
=============================================================================
