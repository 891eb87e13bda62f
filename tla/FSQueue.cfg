SPECIFICATION Spec
CONSTANTS
    Workers = {w1, w2}
    Pollers = {p1, p2}
    Depth = 1
    MaxPosts = 2
    MaxResets = 1
    MaxTimeouts = 1
CHECK_DEADLOCK FALSE
INVARIANTS
    
    BackendQuiet
PROPERTIES
    AnswersSeen
    CloseEnds
