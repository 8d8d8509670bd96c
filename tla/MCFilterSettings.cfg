CONSTANTS
    MaxChanged = 2
SPECIFICATION Spec
INVARIANTS
    
    Fresh
    Current
    MasksHold
    RestoredShowsSame
