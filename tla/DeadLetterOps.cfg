\* A replay command, an admin action and a purge over the same letters, one of
\* which arrives meanwhile; the purge takes two chunks for three letters.
SPECIFICATION FairSpec
CONSTANTS
    NULL = NULL
    Commands = {c1}
    Admins = {a1}
    Purgers = {p1}
    ChunkSize = 2
    Limits = {1}
    Old = {1, 3}
    Initial = 2
    MaxLetters = 3
    MaxFailures = 1
INVARIANTS
    LeavesOnce
    RemainingRequeued
    ReplaysNeverDeadlock
    MovedIsLogged
    PurgeComplete
PROPERTY AllEnd
CHECK_DEADLOCK FALSE
