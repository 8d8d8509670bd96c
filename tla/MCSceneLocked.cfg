CONSTANTS
    Handlers = {"edit", "abort", "drag", "plot", "monitor"}
    FirstUpdates = {FALSE}
    MaxDrop = 2
SPECIFICATION Spec
INVARIANTS TimerIsSuspended NoAssertFails TreeIsExclusive SceneIsCurrent
PROPERTIES UpdateEnds ChangedFileIsReread
CHECK_DEADLOCK FALSE
