SPECIFICATION FairSpec
CONSTANTS
    r1 = r1
    r2 = r2
    c1 = c1
    c2 = c2
    Run = Run
    None = None
    Rooms <- TwoRooms
    Callers <- OneCaller
    Hidden <- OneRoom
    MaxLog = 2
    MaxCommands = 1
    MaxFailures = 1
CHECK_DEADLOCK FALSE
INVARIANT NewlyJoinedProof
 
