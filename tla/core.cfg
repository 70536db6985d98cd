SPECIFICATION Spec
CONSTANTS
    p1 = p1
    p2 = p2
    k1 = k1
    None = None
    PageIds = {p1}
    Keys = {k1}
    Key <- SameKey
    EventualReads = FALSE
    Faults = {}
    Crashes = {}
    MsgIds = {1, 2, 3, 4}
    MaxReceive = 2
    MaxDups = 1
    Workers = {w1, w2}
    BatchSize = 1
    Devices = {}
    MaxEarly = 1
    Ackers = {a1}
    Receivers = {r1}
    Delays <- BriskDelays
    Elapsed <- BriskElapsed
    Expiry = 1
    MaxFinalDelay = 2
SYMMETRY WorkerSymmetry
INVARIANTS
    TypeOK
    ChainAlive
    NeverEarly
    ReceiptSticks
PROPERTIES
    ImplementsContract
    RecordLosesOnlyToTerminal
