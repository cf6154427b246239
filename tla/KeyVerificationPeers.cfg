SPECIFICATION LiveSpec
CHECK_DEADLOCK FALSE
CONSTANTS
    alice = alice
    bob = bob
    None = None
    Devices <- BothDevices
    MaxStarts <- AliceOnly
    Offers <- OldAndCurrent
    MacKeys <- DeviceAndOthers
    Records = {"unknown", "right", "stale"}
    MaxSas <- Each
    MaxRepeats = 0
INVARIANT MarkedKeyIsRight
PROPERTY ExchangesEnd
