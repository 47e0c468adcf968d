SPECIFICATION FairSpec
CONSTANTS
    p1 = p1  v1 = v1
    Tasks = {p1, v1}
    Persistent = {p1}
    External = {p1}
    Envelopes <- MCEnvelopes
    NCsp = 1
    NReflected = 1
    Poison <- FirstIsPoison
    DuplicateAcks = FALSE
    MaxFailures = 1
INVARIANT
    AcksOfRunningTask
PROPERTIES
    PersistentCompletes
    VolatileSettles
    InboundAcknowledged
CHECK_DEADLOCK FALSE
