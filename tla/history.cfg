SPECIFICATION Spec
CONSTANTS
    u1 = u1
    u2 = u2
    None = None
    Users = {u1, u2}
    PageIds = {1,2,3,4}
    Sender <- SenderOf
    Recipient <- RecipientOf
    Limit = 2
    TicksPerSecond = 2
    MaxTime = 2
    MaxEvents = 2
    Readers = {r1}
INVARIANTS
    TypeOK
    ListingSound
    ListingComplete
    
CHECK_DEADLOCK FALSE
