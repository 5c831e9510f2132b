\* A queue of one entry, as close_async has.
CONSTANTS
    Size = 1
    MCSends = 5
    MaxSends = 5
    Data <- MCData
    Garbage = 0
    Senders = {s1, s2}
SPECIFICATION AsyncSpec
INVARIANT WaitingMeansFull
PROPERTY DrainReachesWaiting
CHECK_DEADLOCK FALSE
