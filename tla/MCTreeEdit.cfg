CONSTANTS
    Kinds = {"other"}
    StateFiles <- MCStateFiles
    Handlers = {"add", "move", "copy", "delete", "history", "state"}
    MaxFilters = 3
    MaxHistory = 1
    MaxPersistent = 0
SPECIFICATION Spec
INVARIANTS ForestIsWellFormed BaseHoldsDataSources
PROPERTIES ImplementsForest MoveKeepsFilters
