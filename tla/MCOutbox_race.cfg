\* Two relays and one task whose row is retried, reclaimed, dead-lettered,
\* replayed, purged and reset, with a delay that its jitter, a part of a
\* tick rounded up, takes beyond the cap.
SPECIFICATION Spec
CONSTANTS
    r1 = r1
    r2 = r2
    t1 = t1
    t2 = t2
    t3 = t3
    NULL = NULL
    Relays <- TwoRelays
    Tasks <- OneTask
    Supported <- OneTask
    BatchSize = 1
    MaxRetries = 2
    StaleTimeout = 2
    BackoffTime = 2
    MaxBackoff = 2
    Jitters <- SomeJitter
    Cooldown = 1
    MaxRows = 2
    MaxFaults = 2
SYMMETRY RelaySymmetry
INVARIANTS
    TypeOK
    NoTaskLost
    FirstClaimExclusive
    DeadOnlyAfterBudget
    DuplicatesExplained
    DeadIsAnnounced
PROPERTY KeepsContract
