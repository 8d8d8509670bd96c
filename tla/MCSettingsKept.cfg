CONSTANTS
    MaxChanged = 2
SPECIFICATION Spec
INVARIANTS
    SurfaceIsOfInput
