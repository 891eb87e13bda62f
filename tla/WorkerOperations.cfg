SPECIFICATION FairSpec
CONSTANTS
    Frames = {f1, f2, f3}
    VMs = {v, w}
    None = None
CHECK_DEADLOCK FALSE
INVARIANTS
    SerializedUnlessCancelled
PROPERTIES
    ConnectionEndsRequests
