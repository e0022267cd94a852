SPECIFICATION Spec
CONSTANTS
    MaxRetries = 2
    Timeout = 2
    Expiry = 4
    Intervals = {1, 2}
    MaxTid = 7
    MaxAge = 3
CHECK_DEADLOCK FALSE
INVARIANT
    IdIsFresh
