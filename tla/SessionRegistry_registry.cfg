CONSTANTS
    Sessions = {s1, s2}
    Handlers = {h1, h2}
    Coordinators = {c1, c2, c3}
    Nobody = Nobody
    MaxSessions = 1
    MaxEdits = 1
    MaxExits = 1
SPECIFICATION FairSpec
INVARIANTS
    RegistryConsistent
    SerialSessionsKeepEdits
PROPERTY EvictedStop
