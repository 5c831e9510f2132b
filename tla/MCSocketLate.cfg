\* Can a socket connect after its close was reported?
CONSTANTS
    Users = {u1}
    Writes = {w1}
    QueueSize = 1
SPECIFICATION Safety
PROPERTY NoConnectAfterReport
CHECK_DEADLOCK FALSE
