SPECIFICATION Spec
CONSTANTS
    p1 = p1
    p2 = p2
    k1 = k1
    None = None
    PageIds = {p1}
    Keys = {k1}
    Key <- SameKey
    EventualReads = FALSE
    Faults = {"load", "expire", "list", "sender", "send", "prune", "record", "append", "ackApi", "receiptApi"}
    Crashes = {"idle", "next", "load", "list", "send", "record"}
    MsgIds = {1, 2, 3, 4}
    MaxReceive = 2
    MaxDups = 0
    Workers = {w1}
    BatchSize = 1
    Devices = {d1}
    MaxEarly = 1
    Ackers = {a1}
    Receivers = {}
    Delays <- CoveringDelays
    Elapsed <- CoveringElapsed
    Expiry = 2
    MaxFinalDelay = 2
INVARIANTS
    ChainAlive
    TimelineAgrees
PROPERTIES
    ImplementsContract
    LiveDeviceNeverPruned
