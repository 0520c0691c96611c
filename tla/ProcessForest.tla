--------------------------- MODULE ProcessForest ---------------------------
(***************************************************************************)
(* What the process table promises: a tree of live processes that hangs    *)
(* from the shell.  A process appears below a live parent; killing it      *)
(* removes it and everything below it at once, and nothing else.           *)
(***************************************************************************)
EXTENDS Integers, Functions

CONSTANTS
  Pids,   \* pids a process can have
  Shell   \* the root of the tree, one of Pids

VARIABLE parent   \* of every live process but the shell, its parent

vars == <<parent>>

Live == DOMAIN parent

\* The pids a chain of parents leads from to pid: pid, its children, theirs...
Tree(pid) ==
  {p \in Live : \A S \in SUBSET Live :
     pid \in S /\ (\A q \in Live : parent[q] \in S => q \in S) => p \in S}

Init == parent = [p \in {Shell} |-> Shell]

Spawn(pid, by) ==
  /\ by \in Live /\ pid \in Pids \ Live
  /\ parent' = [p \in Live \cup {pid} |-> IF p = pid THEN by ELSE parent[p]]

KillTree(pid) ==
  /\ pid \in Live
  /\ parent' = Restrict(parent, Live \ Tree(pid))

Next ==
  \/ \E pid, by \in Pids : Spawn(pid, by)
  \/ \E pid \in Pids : KillTree(pid)

Spec == Init /\ [][Next]_vars
=============================================================================
