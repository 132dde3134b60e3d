\* An admin action and a purge over two letters.
SPECIFICATION Spec
CONSTANTS
    NULL = NULL
    Commands = {}
    Admins = {a1}
    Purgers = {p1}
    ChunkSize = 2
    Limits = {1}
    Old = {}
    Initial = 2
    MaxLetters = 2
    MaxFailures = 0
INVARIANT LogsOnlyReplayed
CHECK_DEADLOCK FALSE
