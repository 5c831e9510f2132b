CONSTANTS
    Users = {u1}
    MaxFlight = 1
SPECIFICATION Safety
INVARIANT HandlesInitialised
CHECK_DEADLOCK FALSE
