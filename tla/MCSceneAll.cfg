CONSTANTS
    Handlers = {"edit", "abort", "drag", "plot", "monitor", "drop", "open", "range", "export", "video", "close"}
    FirstUpdates = {TRUE, FALSE}
    MaxDrop = 2
SPECIFICATION Spec
INVARIANTS TypeOK CycleConsistent
CHECK_DEADLOCK FALSE
