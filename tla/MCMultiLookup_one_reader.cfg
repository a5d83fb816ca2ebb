CONSTANTS
    NULL = NULL
    Free = Free
    Garbage = Garbage
    Main = main
    Readers = {r1}
    Writers = {w1, w2}
    PerFile = 3
    Size = 2
    QUEUEMAXSIZE = 2
SPECIFICATION FairSpec
INVARIANTS RingShape FileOrderKept OneReaderDropsNothing WritersOutliveReader AddressesStayWithWriter
PROPERTIES ImplementsFifo ReaderFinishes HostnamesSettle
