SPECIFICATION SourcesSpec
CONSTANTS
    Attempts = {a1, a2}
    Nobody = Nobody
    Batches = 2
    MaxVer = 2
    MaxModel = 2
    MaxDay = 2
    MaxTurns = 1
    MaxFaults = 1
    Origins = {"github", "profile"}
    Bodies = {b1, b2}
    NoBody = NoBody
    Ragged = {b1}
    Notes = {n1}
    NoNote = NoNote
    Requests = {r1, r2}
    MaxEdits = 4
    MaxRev = 2
INVARIANTS IndexIsWhole InFlightOnce
PROPERTIES IndexingEnds EditsAreKept ShownIsSaved
CHECK_DEADLOCK FALSE
