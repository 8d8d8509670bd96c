CONSTANTS
    Kinds = {"range", "other"}
    StateFiles <- MCNoFiles
    Handlers = {"add", "property", "move", "copy", "delete", "range", "binding", "cache"}
    MaxFilters = 3
    MaxHistory = 0
    MaxPersistent = 2
SPECIFICATION Spec
INVARIANTS CachesAreFresh RegionsAreLive
