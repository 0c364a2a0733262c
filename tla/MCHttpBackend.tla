-------------------------- MODULE MCHttpBackend --------------------------
(***************************************************************************)
(* A small world for HttpBackend: one rule and two sizes of one family, so *)
(* that a config patch changes the topology under an update in flight.     *)
(***************************************************************************)
EXTENDS HttpBackend, TLC

MCTopologies == {"small", "large"}
MCFamilies == {"square"}
MCFamilyOf == [t \in MCTopologies |-> "square"]
MCCellsOf == ("small" :> {"a"}) @@ ("large" :> {"b"})
MCRules == {"life"}
MCStatesOf == "life" :> {0, 1}
MCPaintOf == "life" :> 1
MCSupported == "life" :> {"square"}
MCInitial == [topology |-> "small", rule |-> "life", speed |-> 5]

\* Calls are interchangeable.
RequestSymmetry == Permutations(Requests)
==========================================================================
