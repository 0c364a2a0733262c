CONSTANTS
    Speeds = {slow, fast}
    Rules = {life, wire}
    slow = slow
    fast = fast
    life = life
    wire = wire
    Nothing = Nothing
    Sent = Sent
    MaxChoices = 3
    MaxPolls = 1
    MaxFailures = 2
    MaxOthers = 1
SPECIFICATION FairSpec
INVARIANTS
    LastRuleWins
    ControlsConsistent
PROPERTY ControlsSettle
