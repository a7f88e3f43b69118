SPECIFICATION FairSpec
CONSTANTS
    Kinds <- AllKinds
    Callers = {p1, p2}
    Converters = {c1, c2}
    Appliers = {a1}
    Readers = {r1}
    MaxVer = 2
    MaxFaults = 1
INVARIANTS OneRunPerRequest ConvertedOnce
PROPERTIES ReplacesWhatWasReviewed PlansSettle
CHECK_DEADLOCK FALSE
