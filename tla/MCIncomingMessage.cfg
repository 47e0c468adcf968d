SPECIFICATION FairSpec
CONSTANTS
    m1 = m1  m1again = m1again  m2 = m2  m3 = m3
    None = None
    Deliveries = {m1, m1again, m2, m3}
    Ids = {m1, m2, m3}
    Id <- MCId
    Control = {m2}
    Rejected = {m1again, m3}
    Unknown = {m3}
    Waits = {m1, m2}
    Downloads = {m2}
    LeaderMoves = TRUE
    MaxLosses = 1
INVARIANTS
    TypeOK
    SavedOnce
    AckedOrWaits
    DoneIsShared
    ReceiptOnce
PROPERTY
    InboxEmpties
CHECK_DEADLOCK FALSE
