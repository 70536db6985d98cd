SPECIFICATION Spec
CONSTANTS
    p1 = p1
    p2 = p2
    k1 = k1
    None = None
    PageIds = {p1, p2}
    Keys = {k1}
    Key <- SameKey
    EventualReads = FALSE
    Faults = {"createEnqueue", "append"}
    Crashes = {}
    MsgIds = {1, 2, 3, 4}
    MaxReceive = 2
    MaxDups = 0
    Workers = {w1}
    BatchSize = 1
    Devices = {}
    MaxEarly = 1
    Ackers = {a1, a2}
    Receivers = {}
    Delays <- ShortDelays
    Elapsed <- ShortElapsed
    Expiry = 1
    MaxFinalDelay = 1
INVARIANTS
    
    
    TimelineAgrees
