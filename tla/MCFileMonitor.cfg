SPECIFICATION Spec
CONSTANTS
    MaxClock = 3
    MaxChanges = 4
    Sizes = {1, 2}
INVARIANTS
    CacheIsCurrent
PROPERTIES
    Settles
    CatchesUp
CHECK_DEADLOCK FALSE
