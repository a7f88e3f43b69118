SPECIFICATION Spec
CONSTANTS
    App = App
    o1 = o1
    k1 = k1
    k2 = k2
    k3 = k3
    Owners = {o1}
    Keys = {k1,k2}
    OwnerOf <- OneOwner
    Family <- Attempts
    Requests = {p1, p2, p3}
    Limit = 2
    AppLimit = 1
    Ttl = 1
    DayLength = 2
    MaxTime = 2
    MaxFaults = 1
SYMMETRY Symmetry
INVARIANTS NeverRefunded UnitsAccounted OneSender
PROPERTIES ImplementsPaidOperations
CHECK_DEADLOCK FALSE
