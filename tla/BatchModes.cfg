SPECIFICATION ModeSpec
CONSTANTS
    Size = 3
    MaxRetries = 2
    Retries = {0, 1, 2, 3}
    MaxSignals = 1
    Concurrency = 2
INVARIANTS
    Accounting
    OutcomesKept
    NothingLeftOut
PROPERTIES
    NoPublishAfterStop
    KeepsContract
CHECK_DEADLOCK FALSE
