SPECIFICATION Spec
CONSTANTS
    Captures = {c1, c2}
CHECK_DEADLOCK FALSE
INVARIANT
    VisibleIsDurable
PROPERTY
    AppearsAtOnce
