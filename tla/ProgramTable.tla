---------------------------- MODULE ProgramTable -----------------------------
(***************************************************************************)
(* The programs of PA4's programs.c, as the simulator loads them.  They    *)
(* are too long to be run by TLC; what the theorems about the simulator    *)
(* assume of a program is checked of these.                                *)
(***************************************************************************)
EXTENDS Integers, Sequences

\* The constants of simulator.h.
Defined == [MAXPROCPAGES |-> 20, MAXPROCESSES |-> 20, PAGESIZE |-> 128, PAGEWAIT |-> 100,
            PHYSICALPAGES |-> 100]

Branch(from, to, type, min, max) ==
    [wherefrom |-> from, whereto |-> to, btype |-> type, min |-> min, max |-> max]

\* The branches of a program are an array, in the order of their addresses.
Table ==
    [k \in 0 .. 4 |->
        CASE k = 0 -> [size |-> 1535, exit |-> 1534,
                       branches |-> << Branch(500, 1402, "IF", 0, 0),
                                       Branch(1401, 1533, "GOTO", 0, 0),
                                       Branch(1533, 0, "FOR", 10, 30) >>]
          [] k = 1 -> [size |-> 1131, exit |-> 1130,
                       branches |-> << Branch(1129, 0, "FOR", 20, 50) >>]
          [] k = 2 -> [size |-> 1685, exit |-> 1684,
                       branches |-> << Branch(1682, 1166, "FOR", 10, 20),
                                       Branch(1683, 0, "FOR", 10, 20) >>]
          [] k = 3 -> [size |-> 1912, exit |-> 1911, branches |-> << >>]
          [] k = 4 -> [size |-> 505, exit |-> 504,
                       branches |-> << Branch(500, 503, "IF", 0, 0),
                                       Branch(501, 0, "GOTO", 0, 0),
                                       Branch(502, 503, "GOTO", 0, 0),
                                       Branch(503, 0, "FOR", 10, 20) >>]]

\* The search of process_step for a branch at pc, by bisection: the branches it
\* comes to compare with and finds there, none or one.
Search(b, pc) ==
    LET at(n) == b[n + 1].wherefrom
        s[min, max \in 0 .. Len(b)] ==
            LET mid == (min + max) \div 2 IN
            IF min + 1 < max
            THEN IF pc = at(mid) THEN {mid} ELSE IF pc < at(mid) THEN s[min, mid] ELSE s[mid, max]
            ELSE IF pc = at(min) THEN {min} ELSE IF pc = at(max) THEN {max} ELSE {}
    IN  {b[n + 1] : n \in s[0, Len(b) - 1]}

\* A program with its branches as a set, in which Simulator looks them up.
Loaded(k) ==
    [Table[k] EXCEPT !.branches = {Table[k].branches[n] : n \in DOMAIN Table[k].branches}]
=============================================================================
