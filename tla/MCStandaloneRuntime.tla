----------------------- MODULE MCStandaloneRuntime -----------------------
(* Two calls, which are interchangeable. *)
EXTENDS StandaloneRuntime, TLC

CallSymmetry == Permutations(Calls)
==========================================================================
