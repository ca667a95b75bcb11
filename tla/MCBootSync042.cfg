\* One process that dies between two steps of its first start.
CONSTANTS
    p = p  q = q  Null = Null
    Procs = {p}
    Builds <- MCBuilds
    InitialStates <- MCInitial
    Edits <- MCEdits
    MaxStarts = 2
    MaxEdits = 1
    MaxStops = 1
SPECIFICATION Spec
INVARIANT UserTableFirst
CHECK_DEADLOCK FALSE
