\* A write queue of two entries: it fills, wraps and empties while it drains.
CONSTANTS
    Size = 2
    MCSends = 5
    MaxSends = 5
    Data <- MCData
    Garbage = 0
    Senders = {s1, s2}
SPECIFICATION AsyncSpec
PROPERTY DrainReachesWaiting
CHECK_DEADLOCK FALSE
