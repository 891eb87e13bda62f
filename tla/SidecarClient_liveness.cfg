SPECIFICATION FairSpec
CONSTANTS
    Calls = {c1}
    FrameBuffer = 1
    MaxEvents = 2
CHECK_DEADLOCK FALSE
PROPERTIES
    
    StreamDrains
