SPECIFICATION FairSpec
CONSTANTS
    NoLease = NoLease
    Contents = {c1}
    Confirmers = {r1}
    Schedulers = {s1}
    Workers = {w1}
    PreviewLife = 2
    LeaseLife = 1
    LateWindow = 1
    MinLead = 1
    Horizon = 1
    MaxTime = 12
    MaxGen = 1
    MaxStamp = 1
    MaxRev = 2
    MaxFaults = 1
PROPERTIES DispatchSettles DueJobsResolve
