CONSTANTS
    PingTimeout = 6
    CheckTimeout = 5
    MaxDelay = 2
    QueueSize = 2
    MaxData = 2
SPECIFICATION Spec
INVARIANTS
    PingTypeOK
    DeadPeerNoticed
    NoEcho
PROPERTY GivesUpForCause
