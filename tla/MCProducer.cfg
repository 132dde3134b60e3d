\* Two calls in up to two nested blocks, published at any of three times.
SPECIFICATION Spec
CONSTANTS
    NULL = NULL
    OWN = OWN
    Calls = {c1, c2}
    Requests <- VariedRequests
    MaxDepth = 2
    MaxTime = 2
INVARIANTS
    OnlyCommittedSent
    CountedAreCommitted
    SentAsMeant
CHECK_DEADLOCK FALSE
