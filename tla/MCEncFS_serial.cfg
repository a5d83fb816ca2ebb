CONSTANTS
    Files = {f, g}
    Bytes = {a, b}
    Hole = Hole
    MaxLen = 1
    TruncateTo = {0, 1}
    Gone = Gone
    Unknown = Unknown
    TempFile = TempFile
    Threads = {t}
    MaxLayers = 1
SPECIFICATION Spec
INVARIANTS AtRest
PROPERTIES ImplementsPlainFiles
SYMMETRY FileSymmetry
