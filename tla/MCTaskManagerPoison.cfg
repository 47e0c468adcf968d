SPECIFICATION Spec
CONSTANTS
    p1 = p1  v1 = v1
    Tasks = {p1}
    Persistent = {p1}
    External = {}
    Envelopes <- MCEnvelopes
    NCsp = 1
    NReflected = 1
    Poison <- FirstIsPoison
    DuplicateAcks = FALSE
    MaxFailures = 0
INVARIANT ProtocolErrorHandled
CHECK_DEADLOCK FALSE
