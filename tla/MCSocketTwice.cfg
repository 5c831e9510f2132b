\* Are the handles of a socket closed only once?
CONSTANTS
    Users = {u1, u2}
    Writes = {w1}
    QueueSize = 1
SPECIFICATION Safety
INVARIANT HandlesClosedOnce
CHECK_DEADLOCK FALSE
