CONSTANTS
    Nothing = Nothing
    Boards = {p, q, r}
    p = p
    q = q
    r = r
    Setups <- MCSetups
    BadSetups <- MCBadSetups
    Clamped <- MCClamped
    Capacity = 3
    MaxForks = 1
    HistoryLimit = 2
    MaxActs = 4
    MaxFailures = 1
SPECIFICATION FairSpec
CHECK_DEADLOCK FALSE
INVARIANTS
    WallConsistent
    LatestWallWins
    HistoryDescribesWall
    TimelyForksAreShown
PROPERTY ComesToRest
