CONSTANTS
    Calls = {c1, c2}
    Nothing = Nothing
    MaxVersion = 3
    MaxTicks = 1
    MaxCommands = 2
    MaxFailures = 1
    MaxReloads = 1
SPECIFICATION FairSpec
CHECK_DEADLOCK FALSE
INVARIANTS
    RunnerConsistent
    ToldIsStored
    PausedIsStored
PROPERTIES
    StorageStaysCurrent
    CallsSettle
    RunGoesOn
