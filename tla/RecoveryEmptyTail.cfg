SPECIFICATION Spec
CONSTANTS
    r1 = r1
    r2 = r2
    RoomOrder <- OneRoom
    Device = Device
    None = None
    MaxLog = 5
    TailLimit = 0
    PageSize = 2
    MaxPages = 2
    Big = {}
    Filtered = FALSE
    Adopted = {None}
    MaxCrashes = 0
INVARIANTS WithinInput
