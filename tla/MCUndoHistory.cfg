CONSTANTS
    Trees = {t1, t2, t3}
    MaxUndo = 3
SPECIFICATION Spec
INVARIANTS TypeOK RedoHasRoom HistoryBounded
PROPERTY ImplementsHistory
