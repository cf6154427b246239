\* Crypto requests, room encryption, publication and life cycle of a durable session.
SPECIFICATION SessionSpec
CHECK_DEADLOCK FALSE
CONSTANTS
    None = None
    Parts = {"crypto", "group", "publication", "lifecycle"}
    u1 = u1
    ann = ann
    sender1 = sender1
    sender2 = sender2
    closer1 = closer1
    Users = {u1}
    Resident = {}
    Peer = u1
    MessageId = MessageId
    SealedId = SealedId
    MaxVersion = 2
    MaxMade = 1
    MaxCalls = 1
    MaxFaults = 1
    MaxCrashes = 1
    People = {ann}
    Senders = {sender1, sender2}
    MaxRoster = 2
    MaxStops = 1
    RecordSizes = {1, 3}
    MaxBatchRecords = 3
    MaxBatchBytes = 3
    MaxPendingBytes = 9
    MaxItems = 4
    Closers = {closer1}
    MaxPolls = 1
    MaxTroubles = 1
    MaxOwners = 2
INVARIANTS
    NoLostChangeTracked
    RequestsConsistent
    
    PublicationRight
    StopsClean
PROPERTIES
    MaintenanceEnds
    SendsEnd
    SessionEnds
