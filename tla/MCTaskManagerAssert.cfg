SPECIFICATION Spec
CONSTANTS
    p1 = p1  v1 = v1
    Tasks = {p1}
    Persistent = {p1}
    External = {}
    Envelopes <- MCEnvelopes
    NCsp = 1
    NReflected = 1
    Poison <- NoPoison
    DuplicateAcks = FALSE
    MaxFailures = 1
INVARIANT NoTaskQueuedForInbound
CHECK_DEADLOCK FALSE
