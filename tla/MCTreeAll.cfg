CONSTANTS
    Kinds = {"range", "other"}
    StateFiles <- MCStateFiles
    Handlers = {"add", "property", "move", "copy", "delete", "stash", "state", "merge", "range", "binding", "error"}
    MaxFilters = 2
    MaxHistory = 0
    MaxPersistent = 2
SPECIFICATION Spec
INVARIANTS TypeOK ControlMatchesTree
