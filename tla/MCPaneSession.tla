---------------------------- MODULE MCPaneSession ----------------------------
(* The session an earlier fork of the same board left paused. *)
EXTENDS PaneSession

MCLeftovers == {[running |-> FALSE, cells |-> [c \in Cells |-> 1]]}
=============================================================================
