CONSTANTS
    procs = 2
    MAXPROCPAGES = 4
    PAGESIZE = 2
    PAGEWAIT = 2
    PHYSICALPAGES = 2
    PROGRAMS = 2
    QUEUESIZE = 3
    programs <- MCprograms
SPECIFICATION LRUSpec
INVARIANTS VictimIsPagedIn
