SPECIFICATION FairSpec
CONSTANTS
    r1 = r1
    r2 = r2
    RoomOrder <- TwoRooms
    Device = Device
    None = None
    MaxLog = 4
    TailLimit = 1
    PageSize = 2
    MaxPages = 2
    Big = {3}
    Filtered = TRUE
    Adopted = {None}
    MaxCrashes = 1
INVARIANTS NoSilentGap Chronological LossHandled WithinInput
 
