CONSTANTS
  Clients = {c1, c2}
  Free = Free
  Torn = Torn
  Debounced = TRUE
  MaxTokens = 2
  MaxVersion = 3
  MaxFaults = 1
  MaxCrashes = 1
SPECIFICATION FairSpec
INVARIANTS TimersConsistent DurableAck NoLostPersist
PROPERTIES DiskNeverRegresses ImplementsWriteBehind EventuallySaved
