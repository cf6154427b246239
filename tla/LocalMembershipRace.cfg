SPECIFICATION Spec
CONSTANTS
    r1 = r1
    r2 = r2
    c1 = c1
    c2 = c2
    Run = Run
    None = None
    Rooms <- OneRoom
    Callers <- TwoCallers
    Hidden <- NoRooms
    MaxLog = 3
    MaxCommands = 2
    MaxFailures = 0
CHECK_DEADLOCK FALSE
INVARIANTS
    ObservationFollowsHttp
