SPECIFICATION Spec
CONSTANTS
    Size = 3
    MaxRetries = 1
    Retries = {0, 1}
    MaxSignals = 0
    Concurrency = 2
INVARIANT EveryMessageGrouped
CHECK_DEADLOCK FALSE
