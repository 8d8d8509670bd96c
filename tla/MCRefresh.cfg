CONSTANTS
    Shapes <- MCShapes
    MaxFile <- MCMaxFile
    Kinds <- MCKinds
    BaseKinds <- MCBaseKinds
SPECIFICATION Spec
INVARIANTS
    OutputIsComplete
    NothingUsedIsFreed
    OneOwner
    StartsCoverLeaves
    LeakIsBounded
