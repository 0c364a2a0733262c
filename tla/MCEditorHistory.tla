------------------------- MODULE MCEditorHistory -------------------------
(***************************************************************************)
(* Two cells, which nothing tells apart, of two states.                    *)
(***************************************************************************)
EXTENDS EditorHistory, TLC

CellSymmetry == Permutations(Cells)
==========================================================================
