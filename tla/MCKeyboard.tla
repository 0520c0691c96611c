------------------------------ MODULE MCKeyboard ------------------------------
(* The letters of Ctrl-C and Ctrl-D, and a buffer of two characters. *)
EXTENDS Keyboard

MaxPriority == -1
RealtimePriority == -1
MC_Keys == {"key c", "key d"}
MC_Characters == [key \in MC_Keys |-> IF key = "key c" THEN <<"c", "C">> ELSE <<"d", "D">>]

\* Nobody reads exit statuses here.
View == <<[sch EXCEPT !.exit_status = 0], kbVars>>
=============================================================================
