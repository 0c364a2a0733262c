-------------------------- MODULE MCCompareWall --------------------------
(***************************************************************************)
(* Three tilings of which a wall may hold all; one setup and another that  *)
(* the fields may change to, and one that validation refuses.              *)
(***************************************************************************)
EXTENDS CompareWall, TLC

MCSetups == {1, 2}
MCBadSetups == {0}
MCClamped == [s \in MCBadSetups |-> 2]

BoardSymmetry == Permutations(Boards)
==========================================================================
