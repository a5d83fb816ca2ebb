CONSTANTS
    Readers = {r1, r2}
    Writers = {w1, w2}
    LEN_FILE = 3
    NUL = NUL
    MARK = MARK
    Bar = Bar
    Text <- MCText
SPECIFICATION FairSpec
INVARIANTS TypeOK Exclusion ReadsHold OneMark
PROPERTIES ImplementsMonitor TurnComes
