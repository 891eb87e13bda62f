SPECIFICATION FairSpec
CONSTANTS
    Wrap = 32
    InitialSeq = 3
    Plans <- MCPlans
    MaxPayload = 1
    RecvCap = 2
    MaxGaps = 2
    GuestPayload = 2
    MaxRetries = 1
    DupThreshold = 1
CHECK_DEADLOCK FALSE
INVARIANTS
    ReceivedInOrder
    AckedIsHandedOn
    
PROPERTIES
    Delivered
