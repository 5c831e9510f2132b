CONSTANTS
    Users = {u1, u2}
    MaxFlight = 2
SPECIFICATION Spec
INVARIANTS
    DiscoveryTypeOK
    OneContext
    ReportTellsCause
PROPERTIES
    UsesMailbox
    CloseCompletes
CHECK_DEADLOCK FALSE
