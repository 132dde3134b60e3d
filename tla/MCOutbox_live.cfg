\* One relay that takes one row at a time and may crash once: an old row that
\* fails again and again, and one whose version is not supported, do not keep a
\* younger one from its turn, and a row in flight at the crash comes back.
SPECIFICATION FairSpec
CONSTANTS
    r1 = r1
    r2 = r2
    t1 = t1
    t2 = t2
    t3 = t3
    NULL = NULL
    Relays <- OneRelay
    Tasks <- ThreeTasks
    Supported <- TwoTasks
    BatchSize = 1
    MaxRetries = 2
    StaleTimeout = 1
    BackoffTime = 1
    MaxBackoff = 1
    Jitters <- NoJitter
    Cooldown = 1
    MaxRows = 3
    MaxFaults = 1
PROPERTIES
    EveryRowLeaves
    KeepsContractFairly
