CONSTANTS
    Cells = {a, b}
    a = a
    b = b
    States = {0, 1}
    MaxEditorHistory = 2
    Nothing = Nothing
    Sent = Sent
    MaxCommands = 3
    MaxForeign = 1
    MaxFailures = 1
    MaxPolls = 1
SPECIFICATION FairSpec
CHECK_DEADLOCK FALSE
INVARIANTS
    EditorConsistent
PROPERTY CommandsEnd
