CONSTANTS
    Sessions = {s1, s2, s3}
    Handlers = {h1, h2}
    Coordinators = {c1, c2, c3, c4, c5}
    Nobody = Nobody
    MaxSessions = 2
    MaxEdits = 1
    MaxExits = 0
SPECIFICATION Spec
SYMMETRY ObjectSymmetry
INVARIANT SessionsKeepEdits
