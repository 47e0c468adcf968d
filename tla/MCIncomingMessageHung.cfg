SPECIFICATION Spec
CONSTANTS
    m1 = m1  m1again = m1again  m2 = m2  m3 = m3
    None = None
    Deliveries = {m1, m1again, m2, m3}
    Ids = {m1, m2, m3}
    Id <- MCId
    Control = {m2}
    Rejected = {m1again, m3}
    Unknown = {m3}
    Waits = {m1, m2}
    Downloads = {}
    LeaderMoves = FALSE
    MaxLosses = 1
INVARIANT
    AckedIsDone
CHECK_DEADLOCK FALSE
