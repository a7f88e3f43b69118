SPECIFICATION Spec
CONSTANTS
    NoLease = NoLease
    Contents = {c1}
    Confirmers = {r1, r2}
    Schedulers = {s1}
    Workers = {w1}
    PreviewLife = 1
    LeaseLife = 1
    LateWindow = 0
    MinLead = 1
    Horizon = 1
    MaxTime = 2
    MaxGen = 2
    MaxStamp = 1
    MaxRev = 2
    MaxFaults = 0
SYMMETRY Symmetry
INVARIANTS PublishedIsPosted
PROPERTIES NeverEarly ImplementsPublishOnce
