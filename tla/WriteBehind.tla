----------------------------- MODULE WriteBehind -----------------------------
(***************************************************************************)
(* What one simulation session promises about its state file, with no      *)
(* threads, locks, timers or temporary files: the abstract specification   *)
(* that SessionPersistence implements.                                     *)
(*                                                                         *)
(* States of the simulation are numbered by the mutations that led to      *)
(* them.  The file trails the memory, never goes back, and is never behind *)
(* a mutation whose caller was told that it is done.                       *)
(***************************************************************************)
EXTENDS Naturals

VARIABLES
  current,  \* the version in memory
  saved,    \* the version in the state file
  acked     \* the newest version a caller was told is on file

wbVars == <<current, saved, acked>>

Init == current = 0 /\ saved = 0 /\ acked = 0

\* A mutation of the simulation makes the next version.
Mutate ==
  /\ current' = current + 1
  /\ UNCHANGED <<saved, acked>>

\* The file moves forward, to a version that existed.
Save ==
  /\ saved' \in saved..current
  /\ UNCHANGED <<current, acked>>

\* A caller is answered: what it asked for is on file.
Acknowledge ==
  /\ acked' \in acked..saved
  /\ UNCHANGED <<current, saved>>

\* The process dies and another one starts from the file.
Restart ==
  /\ current' = saved
  /\ UNCHANGED <<saved, acked>>

Next == Mutate \/ Save \/ Acknowledge \/ Restart

Spec == Init /\ [][Next]_wbVars

=============================================================================
