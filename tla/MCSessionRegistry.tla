------------------------ MODULE MCSessionRegistry ------------------------
(***************************************************************************)
(* Symmetry for the safety run of SessionRegistry: handlers and            *)
(* coordinator objects are interchangeable.                                *)
(***************************************************************************)
EXTENDS SessionRegistry

ObjectSymmetry == Permutations(Handlers) \cup Permutations(Coordinators)
==========================================================================
