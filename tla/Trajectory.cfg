SPECIFICATION TrajectorySpec
CONSTANTS
    Cases <- MCCases
    Topology <- MCTopology
    Rule <- MCRule
    Seeds <- MCSeeds
    MaxSteps = 8
INVARIANTS
    BoardWellFormed
    BatchAgrees
    CyclesAreReal
    LabelForetells
PROPERTY SourcesEmit
CHECK_DEADLOCK FALSE
