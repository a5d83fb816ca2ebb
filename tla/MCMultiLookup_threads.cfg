CONSTANTS
    NULL = NULL
    Free = Free
    Garbage = Garbage
    Main = main
    Readers = {r1, r2}
    Writers = {w1, w2}
    PerFile = 1
    Size = 1
    QUEUEMAXSIZE = 2
SPECIFICATION Spec
SYMMETRY Symmetry
INVARIANTS TypeOK OneOwnerUnlessDropped
