SPECIFICATION Spec
CHECK_DEADLOCK FALSE
CONSTANTS
    alice = alice
    bob = bob
    None = None
    Devices <- BothDevices
    MaxStarts <- Each
    Offers <- Current
    MacKeys <- DeviceKey
    Records = {"right"}
    MaxSas <- OneAndTwo
    MaxRepeats = 1
INVARIANTS StringsMatch MarkedAgrees VerifiedIsMarked
