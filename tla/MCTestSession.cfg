\* Two tests and two rows, one a pass; two redactors, one of which works in place;
\* a cache of one entry, so that entries are evicted.
SPECIFICATION Spec
CONSTANTS
    NULL = NULL
    RAW = RAW
    Fixtures <- SomeFixtures
    Redactors = {r1, r2}
    Mutating = {r1}
    Path = Path
    Addresses = {a1}
    CacheSize = 1
    BatchSize = 1
    MaxRetries = 2
    MaxTests = 2
    MaxRows = 2
    MaxChanges = 2
    MaxSends = 1
INVARIANTS
    Isolated
    RecordedAsGiven
PROPERTIES
    RedactedAsSet
    GivesUpForCause
    DrainEnds
CHECK_DEADLOCK FALSE
