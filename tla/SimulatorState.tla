--------------------------- MODULE SimulatorState ----------------------------
(***************************************************************************)
(* The state of PA4's simulator.c: slots that hold processes, and the      *)
(* pages of each slot.                                                     *)
(*                                                                         *)
(* A Process record lives in a slot from dequeue to unload and is never    *)
(* used again, so its fields are kept per slot.  The compute and block     *)
(* counters, the blocked flags and sysclock only feed the logs.            *)
(***************************************************************************)
EXTENDS Integers

CONSTANTS
    procs,           \* the number of slots (-procs)
    MAXPROCPAGES,    \* pages of a process
    PAGESIZE,        \* program counters per page
    PAGEWAIT         \* ticks a page takes to come in or go out

VARIABLES
    queuetype,       \* the program of each process in the queue
    queueend,        \* the next process to dequeue
    processes,       \* the process in each slot, or NULL
    pc,              \* its program counter
    bcount,          \* how often in a row the branch at an address was taken
    pages,           \* its pages, see below
    pagesavail,      \* the number of free frames
    phase, cursor    \* where in the main loop the simulator is

vars == <<queuetype, queueend, processes, pc, bcount, pages, pagesavail, phase, cursor>>

NULL == -1

Slots == 0 .. procs - 1
Pages == 0 .. MAXPROCPAGES - 1

\* pages[i][j] is 0 for a page that is in, positive while it comes in, negative
\* while it goes out, and OUT when it is out.
OUT == -PAGEWAIT - 1

\* The pages of slot i that hold a frame: in, coming or going.
HeldBySlot(i) == {j \in Pages : pages[i][j] >= -PAGEWAIT}

loaded(i) == processes[i] # NULL

NeededPage(i) == pc[i] \div PAGESIZE

\* i is the first active process.
FirstActive(i) == loaded(i) /\ \A k \in Slots : k < i => ~loaded(k)

alldone == \A i \in Slots : ~loaded(i)

\* What -dead reports as a deadlock: processes run, and the needed page of each is
\* neither in nor on its way in or out.
allblocked ==
    /\ ~alldone
    /\ \A i \in Slots : loaded(i) => pages[i][NeededPage(i)] < -PAGEWAIT
=============================================================================
