SPECIFICATION FairSpec
CONSTANTS
    None = None
    Services = {"linkedin", "github"}
    Further = {"sync", "conversion"}
    Owners = {o1, o2}
    Accounts = {a1, a2}
    States = {s1, s2}
    Callbacks = {c1, c2, c3}
    MaxGen = 2
    Repos = {r1}
    Times = {1, 2, 3}
    PageSize = 1
    MaxPages = 2
    Passes = {p1, p2}
    Writers = {w1}
    Converters = {u1, u2}
    MaxFaults = 2
INVARIANTS StatesBindCallbacks PassIsComplete OneSignal
PROPERTIES OneMemberPerOwner ConversionRecovers
CHECK_DEADLOCK FALSE
