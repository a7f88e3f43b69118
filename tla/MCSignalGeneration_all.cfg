SPECIFICATION Spec
CONSTANTS
    None = None
    Workflow = Workflow
    a = a
    b = b
    p1 = p1
    p2 = p2
    Requests = {p1, p2}
    Editors = {e1}
    Servers = {a, b}
    On <- TwoServers
    LeaseLife = 1
    Ttl = 2
    MaxTime = 2
    MaxRev = 2
    MaxFaults = 1
INVARIANTS ProtectedInsert GenerationIsCurrent
PROPERTIES ProtectionEndsInRecord
CHECK_DEADLOCK FALSE
