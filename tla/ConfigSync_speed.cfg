CONSTANTS
    Speeds = {slow, fast}
    Rules = {life}
    slow = slow
    fast = fast
    life = life
    Nothing = Nothing
    Sent = Sent
    MaxChoices = 2
    MaxPolls = 1
    MaxFailures = 0
    MaxOthers = 0
SPECIFICATION Spec
INVARIANT LastSpeedWins
