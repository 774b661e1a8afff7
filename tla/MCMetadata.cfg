CONSTANTS
    Limit = 8
    MaxSize = 3
    Sizes <- MCSizes
    Buffers = {1, 2, 5, 9}
    Width = 10
    Second = 10
    Minute = 2
    Hour = 2
    Day = 2
    Month = 2
    Year = 3
    Millisecond = 10
    Precise = 64
    PreciseWhole = 256
    MaxFloat = 1500
    Held <- MCHeld
    Stored <- MCStored
    Fetched <- MCFetched
    MaxRounds = 2
    Empty = Empty
    None = None
    Error = Error
SPECIFICATION FetchSpec
INVARIANTS WholeOrRefused Survives
PROPERTIES ReadsEnd ReadAsDenoted
CHECK_DEADLOCK FALSE
