CONSTANTS
    Topologies <- MCTopologies
    Families <- MCFamilies
    FamilyOf <- MCFamilyOf
    ViewportSynced <- MCFamilies
    CellsOf <- MCCellsOf
    Rules <- MCRules
    StatesOf <- MCStatesOf
    PaintOf <- MCPaintOf
    Supported <- MCSupported
    Initial <- MCInitial
    Speeds = {5}
    MaxRevision = 2
    MaxEpoch = 2
    ClockMayGoBack = FALSE
    Requests = {r1, r2}
    NoSnapshot = NoSnapshot
    NoAnswer = NoAnswer
    MaxFaults = 1
SPECIFICATION FairSpec
INVARIANT ClientConsistent
PROPERTIES
    CacheNeverRegresses
    SeesOwnCall
    Converges
