\* A write queue of three entries: it fills, wraps and empties while it drains.
CONSTANTS
    Size = 3
    MCSends = 7
    MaxSends = 7
    Data <- MCData
    Garbage = 0
    Senders = {s1, s2}
SPECIFICATION AsyncSpec
INVARIANTS
    NoGarbageRead
    AsyncTypeOK
    InOrder
    NoLostWakeup
PROPERTIES
    ImplementsFifo
    ImplementsMailbox
    EventuallyDelivered
CHECK_DEADLOCK FALSE
