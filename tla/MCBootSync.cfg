\* Two processes of three builds on a new and on an old database.
CONSTANTS
    p = p  q = q  Null = Null
    Procs = {p, q}
    Builds <- MCBuilds
    InitialStates <- MCInitial
    Edits <- MCEdits
    MaxStarts = 2
    MaxEdits = 1
    MaxStops = 1
SYMMETRY Symmetry
SPECIFICATION Spec
INVARIANTS
    MigrationsOnce
    StartSettles
    EditsSurvive
    OneFirstUser
PROPERTIES
    DeletionsStay
CHECK_DEADLOCK FALSE
