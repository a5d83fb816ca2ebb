CONSTANTS
    procs = 2
    MAXPROCPAGES = 4
    PAGESIZE = 2
    PAGEWAIT = 3
    PROGRAMS = 2
    QUEUESIZE = 4
    programs <- MCprograms
    Beyond = {0, 9}
    MAXITERATIONS = 5
    Frames <- MCFrames
SPECIFICATION Spec
INVARIANTS OnlyFirstActiveHoldsPages
PROPERTIES CountsChanges UsedPageStays BlockedForWantOfFrames AllEnds
