CONSTANTS
    Cells = {c1}
    States = {0, 1}
    Slots = {s1, s2}
    Nothing = Nothing
    Leftovers <- MCLeftovers
    MaxActs = 3
    MaxEvents = 1
SPECIFICATION FairSpec
CHECK_DEADLOCK FALSE
INVARIANTS PaneConsistent WritesKeepRunState
PROPERTY PaneCatchesUp
