CONSTANTS
    NULL = NULL
    Free = Free
    Garbage = Garbage
    Main = main
    Readers = {r1}
    Writers = {w1}
    PerFile = 1
    Size = 1
    QUEUEMAXSIZE = 2
SPECIFICATION FairSpec
PROPERTIES MainEnds
