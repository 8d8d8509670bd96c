CONSTANTS
    Parts = {"cameras", "session", "stashes", "animation", "hazardous", "plots",
             "ranges", "rangefiles", "cropping", "selection", "config"}
    Trees = {0, 1}
    MaxDead = 2
    Props <- SmallProps
    FrameProps <- SmallFrameProps
    MaxKeys = 3
    MaxExports = 1
    Masses = {0, 1, 2, 3}
    IonNames = {"A", "B", "C"}
    FirstFiles <- SmallFirstFiles
    MaxPending = 1
    Whole = 2
    Inset = 1
    MaxEdits = 2
SPECIFICATION Spec
CHECK_DEADLOCK FALSE
INVARIANTS
    IndicesAreLive
    ViewsAreCurrent
    WorkIsAccountedFor
    FilesAreReadBack
    ExportIsTrue
    DragsStayValid
    ErasuresAreBounded
