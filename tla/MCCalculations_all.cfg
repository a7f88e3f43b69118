SPECIFICATION CalculationsSpec
CONSTANTS
    ChunkMax = 6
    Overlap = 1
    Lookback = 2
    BatchSize = 2
    BatchRoom = 9
    TextLimit = 6
    MaxLength = 10
    MaxOffset = 28
    Zones <- ManyZones
    OffsetAt <- ZoneOffset
    Values <- ManyValues
    Instants <- ManyInstants
INVARIANTS ShowsWhatWasAsked RecordsAreTheText NeverRefused
CHECK_DEADLOCK FALSE
