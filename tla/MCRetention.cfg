\* Two purges, concurrent or one after the other, one letter a chunk.
SPECIFICATION Spec
CONSTANTS
    NULL = NULL
    Junk = Junk
    Endless = Endless
    a = a
    b = b
    Letters <- TwoLetters
    NameOf <- TwoNames
    Requests <- SomeRequests
    Runs = {r1, r2}
    ChunkSize = 1
    MaxTime = 2
INVARIANTS
    OnlyWhatWasAsked
    ForecastHolds
    ReportExplained
CHECK_DEADLOCK FALSE
