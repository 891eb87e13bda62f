SPECIFICATION Spec
CONSTANTS
    root = root
    etc = etc
    conf = conf
    a = a
    b = b
    NoLower = NoLower
    Workers = {w1, w2}
    Names = {a, b}
    LowerDirs <- MCDirs
    LowerFiles <- MCFiles
    LowerRoot = root
    LowerEntries <- MCEntries
    MaxNodes = 5
    MaxRequests = 4
CHECK_DEADLOCK FALSE
INVARIANTS
    HeldNodesLive
    ListingComplete
PROPERTIES
    SnapshotComplete
    ImplementsTree
