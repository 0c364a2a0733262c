----------------------- MODULE MCSimulationService -----------------------
(***************************************************************************)
(* A small world for the service, seen by a client with one call in        *)
(* flight: two sizes of one viewport-synced family and a patch family, a   *)
(* two-state rule, a three-state rule and a rule made for the patch family *)
(* only, and a clock that may go back between two processes.               *)
(***************************************************************************)
EXTENDS HttpBackend, TLC

MCTopologies == {"small", "large", "patch"}
MCFamilies == {"square", "penrose"}
MCFamilyOf == [t \in MCTopologies |-> IF t = "patch" THEN "penrose" ELSE "square"]
MCViewportSynced == {"square"}
MCCellsOf == ("small" :> {"a"}) @@ ("large" :> {"a", "b"}) @@ ("patch" :> {"p"})
MCRules == {"life", "wire", "hastings"}
MCStatesOf == ("life" :> {0, 1}) @@ ("wire" :> {0, 2}) @@ ("hastings" :> {0, 1, 2})
MCPaintOf == ("life" :> 1) @@ ("wire" :> 2) @@ ("hastings" :> 1)
MCSupported ==
    ("life" :> {"square", "penrose"}) @@ ("wire" :> {"square"}) @@ ("hastings" :> {"penrose"})
MCInitial == [topology |-> "small", rule |-> "life", speed |-> 5]
==========================================================================
