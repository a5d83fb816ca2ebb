CONSTANTS
    procs = 2
    MAXPROCPAGES = 2
    PAGESIZE = 2
    PAGEWAIT = 2
    PHYSICALPAGES = 3
    PROGRAMS = 2
    QUEUESIZE = 3
    programs <- MCprograms
SPECIFICATION Spec
INVARIANTS TypeOK FramesConserved QueueServedOnce
PROPERTIES ImplementsFrames NoTurningBack
