\* Two users, two writes, a write queue of one entry.
CONSTANTS
    Users = {u1, u2}
    Writes = {w1, w2}
    QueueSize = 1
SPECIFICATION Spec
INVARIANTS
    SocketTypeOK
    ClosingInProgress
    ReportAfterAll
PROPERTIES
    ImplementsUserView
    UsesMailboxes
    CloseCompletes
    OpenSettles
    AcceptedWriteSettles
CHECK_DEADLOCK FALSE
