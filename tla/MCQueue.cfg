CONSTANTS
    NULL = NULL
    Size = 0
    QUEUEMAXSIZE = 3
    p1 = p1
    p2 = p2
    p3 = p3
    Payload = {p1, p2, p3}
    payload_in <- MCpayload_in
SPECIFICATION TestSpec
INVARIANTS TypeOK RingShape TestReportsNothing
PROPERTIES ImplementsFifo ResultsTellTheTruth
