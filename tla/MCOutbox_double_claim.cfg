\* A row that waited for its retry is claimed by two relays at once.
SPECIFICATION Spec
CONSTANTS
    r1 = r1
    r2 = r2
    t1 = t1
    t2 = t2
    t3 = t3
    NULL = NULL
    Relays <- TwoRelays
    Tasks <- OneTask
    Supported <- OneTask
    BatchSize = 1
    MaxRetries = 2
    StaleTimeout = 2
    BackoffTime = 1
    MaxBackoff = 2
    Jitters <- NoJitter
    Cooldown = 1
    MaxRows = 2
    MaxFaults = 2
INVARIANT ClaimExclusive
