CONSTANTS
    Users = {u1, u2}
    Conns = {c1, c2, c3}
SPECIFICATION Spec
INVARIANTS
    ServerTypeOK
    OneContext
    ReportTellsCause
PROPERTIES
    UsesMailbox
    ImplementsServerView
    CloseCompletes
    OpenSettles
CHECK_DEADLOCK FALSE
