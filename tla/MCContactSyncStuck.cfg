SPECIFICATION FairSpec
CONSTANTS
    d1 = d1  d2 = d2  u1 = u1  u2 = u2  u3 = u3
    None = None
    Devices = {d1, d2}
    Updates = {u1, u3}
    Owner <- MCOwner
    Remote = {u3}
    Slow = {}
    MaxLosses = 0
PROPERTY
    LocalUpdateSettles
CHECK_DEADLOCK FALSE
