------------------------- MODULE MCSessionPersistence -------------------------
(***************************************************************************)
(* Instances of SessionPersistence for TLC.                                *)
(***************************************************************************)
EXTENDS SessionPersistence, TLC

\* Request threads are interchangeable (safety runs only).
ClientSymmetry == Permutations(Clients)

=============================================================================
