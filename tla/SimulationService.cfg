CONSTANTS
    Topologies <- MCTopologies
    Families <- MCFamilies
    FamilyOf <- MCFamilyOf
    ViewportSynced <- MCViewportSynced
    CellsOf <- MCCellsOf
    Rules <- MCRules
    StatesOf <- MCStatesOf
    PaintOf <- MCPaintOf
    Supported <- MCSupported
    Initial <- MCInitial
    Speeds = {5, 9}
    MaxRevision = 2
    MaxEpoch = 2
    ClockMayGoBack = TRUE
    Requests = {r1}
    NoSnapshot = NoSnapshot
    NoAnswer = NoAnswer
    MaxFaults = 1
SPECIFICATION FairSpec
INVARIANT ServiceConsistent
PROPERTIES
    RevisionCountsMutations
    Converges
