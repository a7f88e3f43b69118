SPECIFICATION LossySpec
CONSTANTS
    App = App
    o1 = o1
    k1 = k1
    k2 = k2
    k3 = k3
    Owners = {o1}
    Keys = {k1, k2, k3}
    OwnerOf <- OneOwner
    Family <- NoFamily
    Requests = {p1, p2, p3}
    Limit = 1
    AppLimit = 1
    Ttl = 1
    DayLength = 4
    MaxTime = 1
    MaxFaults = 1
SYMMETRY Symmetry
INVARIANTS WithinLimit
CHECK_DEADLOCK FALSE
