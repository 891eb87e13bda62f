SPECIFICATION FairSpec
CONSTANTS
    Ops = {o1, o2}
    None = None
    Stopper = Stopper
CHECK_DEADLOCK FALSE
INVARIANTS
    NoWorkDuringClose
    CutCommandsSayStopped
PROPERTIES
    StopEnds
