SPECIFICATION FairSpec
CONSTANTS
    NULL = NULL
    BatchSize = 2
    IdleTime = 1
    SendTimeout = 2
    ShutdownTimeout = 2
    Cooldown = 6
    Refresh = 3
    MaxBacklog = 2
    MaxSignals = 2
    MaxErrors = 2
INVARIANTS
    GaugesRecent
    BoundedOvertime
    TouchedInTime
PROPERTIES
    NoSelectWhileOpen
    EndsWhenTold
    BacklogTaken
CHECK_DEADLOCK FALSE
