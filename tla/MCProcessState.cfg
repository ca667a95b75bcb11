\* A channel of two jobs and batches of two; a pool of two connections.
CONSTANTS
    q1 = q1  q2 = q2  q3 = q3  q4 = q4
    Requests = {q1, q2, q3, q4}
    Load <- MCLoad
    QueueSize = 2
    MaxBatch = 2
    BatchTimeout = 3
    ScriptTimeout = 2
    s1 = s1  s2 = s2  b1 = b1  g1 = g1
    Handlers = {s1, s2, b1, g1}
    Kind <- MCKind
    MaxConns = 2
SPECIFICATION MCSpec
INVARIANTS
    BlockedByHolders
PROPERTIES
    ImplementsFifo
    EventuallyDelivered
    EndsUnlessBlocked
CHECK_DEADLOCK FALSE
