CONSTANTS
    MaxConnects = 2
    MaxBytes = 3
    MaxUp = 1
    Chunks = {3}
    Alloc = 1
    Wrap = 2
    ChannelCapacity = 1
    Ring = 1
SPECIFICATION FairSpec
INVARIANTS CreditRespected StreamInOrder
PROPERTIES Delivered CloseEnds
CHECK_DEADLOCK FALSE
