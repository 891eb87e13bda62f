SPECIFICATION FairSpec
CONSTANTS
    MaxInputs = 3
    StdinLimit = 1
    ControlLimit = 1
    Capacity = 2
    ChannelCapacity = 1
CHECK_DEADLOCK FALSE
INVARIANTS
    InputsInOrder
    NeverFull
PROPERTIES
    InputsAnswered
