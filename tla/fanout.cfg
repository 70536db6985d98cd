SPECIFICATION FanoutSpec
CONSTANTS
    p1 = p1
    k1 = k1
    None = None
    PageIds = {p1}
    Keys = {k1}
    Key <- KeyOfAll
    EventualReads = FALSE
    Faults = {"send", "prune", "sender"}
    Crashes = {"send"}
    MsgIds = {1, 2, 3}
    MaxReceive = 2
    MaxDups = 1
    Workers = {w1}
    BatchSize = 1
    Devices = {d1, d2}
    MaxEarly = 0
    Ackers = {}
    Receivers = {}
    Delays <- BriskDelays
    Elapsed <- BriskElapsed
    Expiry = 1
    MaxFinalDelay = 1
SYMMETRY Symmetry
INVARIANTS
    CallsTypeOK
    RecordedMeansTried
PROPERTIES
    ImplementsSender
    ImplementsCore
