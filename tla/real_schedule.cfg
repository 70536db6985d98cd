SPECIFICATION FairCanarySpec
CONSTANTS
    p1 = p1
    p2 = p2
    k1 = k1
    None = None
    PageIds = {p1}
    Keys = {k1}
    Key <- SameKey
    EventualReads = FALSE
    Faults = {"expire", "record"}
    Crashes = {"expiredEvent"}
    MsgIds = {1, 2, 3, 4}
    MaxReceive = 2
    MaxDups = 0
    Workers = {w1}
    BatchSize = 1
    Devices = {}
    MaxEarly = 1
    Ackers = {a1}
    Receivers = {}
    Delays <- NagDelays
    Elapsed <- NagElapsed
    Expiry = 60
    MaxFinalDelay = 30
INVARIANTS
    ChainAlive
    NeverEarly
    HeartbeatTruthful
PROPERTIES
    Settles
