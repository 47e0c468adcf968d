SPECIFICATION FairSpec
CONSTANTS
    d1 = d1  d2 = d2  u1 = u1  u2 = u2  u3 = u3
    None = None
    Devices = {d1, d2}
    Updates = {u1, u2, u3}
    Owner <- MCOwner
    Remote = {u3}
    Slow = {u1}
    MaxLosses = 1
INVARIANTS
    TypeOK
    NothingMissedSinceLock
    NoPendingBacklog
    ConvergesUnlessMissed
PROPERTIES
    LockReleased
    TransactionEnds
CHECK_DEADLOCK FALSE
