\* Every operation, refused.
SPECIFICATION ClientSpec
CHECK_DEADLOCK FALSE
CONSTANTS
    None = None
    own1 = own1
    own2 = own2
    megolm1 = megolm1
    key1 = key1
    key2 = key2
    x = x
    y = y
    m1 = m1
    m2 = m2
    n1 = n1
    loop = loop
    app = app
    Parts = {"requests"}
    Devices = {own1}
    Own = {own1}
    Megolm = {megolm1}
    Indexes = {0, 1, 2}
    Events = {1, 2}
    Identities = {key1, key2}
    Signer = key1
    ReplaySize = 2
    Offered <- AllOps
    Max429 = 1
    MaxTimeouts = 1
    FileSize = 3
    MaxUploads = 2
    Aliases = {x, y}
    OldRoom = OldRoom
    NewRoom = NewRoom
    Members = {m1, m2}
    DisplayNames = {n1}
    MaxHistory = 2
    Pollers = {loop, app}
    Secret = 2
    MaxStream = 3
    MaxBreaks = 2
    EventKinds = {"msg", "cipher", "profile"}
    WindowSizes = {1, 2}
    MaxTimeline = 3
    MaxResets = 1
    MaxErrors = 1
    Broken = Broken
    Signers = {own1, own2}
    MaxSeeds = 2
    MaxMishaps = 2
INVARIANT RefusalReported
