SPECIFICATION FairSpec
CONSTANTS
    r1 = r1
    r2 = r2
    Reflected <- MCReflected
    MaxFailures = 3
    MaxRequests = 2
    MaxInFlight = 2
INVARIANTS
    TypeOK
    ManagersAgree
    UnblockedAfterQueue
    OffClosesConnection
    NoBarredReconnect
PROPERTY
    Reconnects
CHECK_DEADLOCK FALSE
