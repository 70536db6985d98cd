SPECIFICATION FairSpec
CONSTANTS
    p1 = p1
    p2 = p2
    k1 = k1
    None = None
    PageIds = {p1}
    Keys = {k1}
    Key <- SameKey
    EventualReads = FALSE
    Faults = {"enqueue"}
    Crashes = {}
    MsgIds = {1, 2, 3, 4}
    MaxReceive = 2
    MaxDups = 0
    Workers = {w1}
    BatchSize = 1
    Devices = {}
    MaxEarly = 1
    Ackers = {}
    Receivers = {}
    Delays <- CoveringDelays
    Elapsed <- CoveringElapsed
    Expiry = 2
    MaxFinalDelay = 2
PROPERTIES
    Settles
