SPECIFICATION Spec
CONSTANTS
    p1 = p1
    p2 = p2
    k1 = k1
    None = None
    PageIds = {p1}
    Keys = {k1}
    Key <- SameKey
    EventualReads = FALSE
    Faults = {}
    Crashes = {"record"}
    MsgIds = {1, 2, 3, 4}
    MaxReceive = 2
    MaxDups = 1
    Workers = {w1}
    BatchSize = 2
    Devices = {}
    MaxEarly = 1
    Ackers = {a1}
    Receivers = {}
    Delays <- ShortDelays
    Elapsed <- ShortElapsed
    Expiry = 3
    MaxFinalDelay = 1
INVARIANTS
    NagsUntilDeadline
    NeverEarly
    EachAttemptOnce
    SettledIsSilent

    
