CONSTANTS
    Readers = {r1}
    Writers = {w1, w2}
    LEN_FILE = 2
    NUL = NUL
    MARK = MARK
    None = None
    MaxOverrun = 1
    Bar = Bar
    w1 = w1
    w2 = w2
    Text <- MCText
SPECIFICATION FairSpec
INVARIANTS ReadIsOfOneMoment NothingBehindFile
PROPERTIES LockComesFree
