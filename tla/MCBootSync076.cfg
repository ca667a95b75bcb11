\* One process, and the app whose tables share a namespace with those of base.
CONSTANTS
    p = p  q = q  Null = Null
    Procs = {p}
    Builds <- MCBuilds
    InitialStates <- MCInitial
    Edits <- MCEdits
    MaxStarts = 1
    MaxEdits = 0
    MaxStops = 0
SPECIFICATION Spec
INVARIANT ContributionStays
CHECK_DEADLOCK FALSE
