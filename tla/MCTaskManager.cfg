SPECIFICATION Spec
CONSTANTS
    p1 = p1  v1 = v1
    Tasks = {p1, v1}
    Persistent = {p1}
    External = {p1}
    Envelopes <- MCEnvelopes
    NCsp = 2
    NReflected = 1
    Poison <- NoPoison
    DuplicateAcks = TRUE
    MaxFailures = 1
INVARIANTS
    TypeOK
    PendingIffQueued
    RunsFirstInLine
    ResolvedAfterStored
    ForgottenAfterStored
    NoInboundLost
    CspInOrder
CHECK_DEADLOCK FALSE
PROPERTY KeepsLedger
