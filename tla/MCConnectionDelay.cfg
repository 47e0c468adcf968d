SPECIFICATION Spec
CONSTANTS
    r1 = r1
    r2 = r2
    Reflected <- MCReflected
    MaxFailures = 2
    MaxRequests = 1
    MaxInFlight = 1
PROPERTY
    DelayAfterFailure
CHECK_DEADLOCK FALSE
