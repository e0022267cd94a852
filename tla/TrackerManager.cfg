SPECIFICATION TrackersSpec
CONSTANTS
    MaxRetries = 2
    Timeout = 2
    Expiry = 4
    Intervals = {1, 2}
    MaxTid = 7
    MaxAge = 3
    MaxRequests = 3
    HTTPIntervals = {1}
    Lists <- MCLists
CHECK_DEADLOCK FALSE
INVARIANTS
    TypeOK
    TrackersTypeOK
    PollCollects
PROPERTIES
    AnswersInOrder
    IntervalIsKept
    CallsReturn
    HTTPIntervalIsKept
    PollsReturn
