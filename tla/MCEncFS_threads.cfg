CONSTANTS
    Files = {f, g}
    Bytes = {a, b}
    Hole = Hole
    MaxLen = 2
    TruncateTo = {0}
    Gone = Gone
    Unknown = Unknown
    TempFile = TempFile
    Threads = {t, u}
    MaxLayers = 2
SPECIFICATION Spec
INVARIANTS GoesBackToOriginal
