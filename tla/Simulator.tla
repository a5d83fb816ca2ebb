------------------------------ MODULE Simulator ------------------------------
(***************************************************************************)
(* PA4's simulator.c: processors (slots) that run the programs of a queue  *)
(* under demand paging.  In every tick each slot takes a step (allstep),   *)
(* the pages that come and go get one tick older (allage), and the pager   *)
(* sees the state and calls pagein and pageout (callyou).  Here the pager  *)
(* may make any calls at all; PagerBasic, PagerLRU, PagerPredict and       *)
(* PagerApiTest are pagers of the repository.                              *)
(***************************************************************************)
EXTENDS SimulatorState, FiniteSets

CONSTANTS
    PHYSICALPAGES,   \* frames
    PROGRAMS,        \* the number of programs
    programs,        \* programs[k] = [size, branches, exit]
    QUEUESIZE        \* programs in the queue, of each kind equally many

GOTO == "GOTO"
IF_  == "IF"
FOR  == "FOR"

Kinds == 0 .. PROGRAMS - 1
Queue == 0 .. QUEUESIZE - 1

\* A branch is taken at wherefrom and leads to whereto.  A FOR branch is taken
\* some number of times in a row, at least min and below max, before the loop
\* is left once; an IF branch may go either way each time.
BranchRecord ==
    [wherefrom : Nat, whereto : Nat, btype : {GOTO, IF_, FOR}, min : Nat, max : Nat]

\* What process_step relies on in a program: its last statement is its exit, and no
\* branch leaves it.
Fits(p) ==
    /\ p.size \in Nat \ {0}
    /\ p.size <= MAXPROCPAGES * PAGESIZE
    /\ p.exit = p.size - 1
    /\ \A b \in p.branches :
          /\ b \in BranchRecord /\ b.whereto < p.size
          /\ b.btype = FOR => b.min > 0

ASSUME SimulatorAssumption ==
    /\ procs \in Nat \ {0} /\ MAXPROCPAGES \in Nat \ {0} /\ PAGESIZE \in Nat \ {0}
    /\ PAGEWAIT \in Nat \ {0} /\ PHYSICALPAGES \in Nat
    /\ PROGRAMS \in Nat \ {0} /\ QUEUESIZE \in Nat
    /\ \A k \in Kinds : Fits(programs[k])

Addresses == 0 .. MAXPROCPAGES * PAGESIZE - 1

\* A process as process_clear leaves it: none of its branches has been tried, and
\* all its pages are out.
Untried == [a \in Addresses |-> 0]
AllOut  == [j \in Pages |-> OUT]

\* The program of slot i.
Prog(i) == programs[queuetype[processes[i]]]

\* queuetype is a shuffle of a queue with equally many programs of each kind.
initqueue ==
    /\ queuetype \in [Queue -> Kinds]
    /\ \A k \in Kinds : Cardinality({q \in Queue : queuetype[q] = k})
                        = Cardinality({q \in Queue : q % PROGRAMS = k})

Init ==
    /\ initqueue
    /\ processes = [i \in Slots |-> IF i < QUEUESIZE THEN i ELSE NULL]
    /\ queueend = IF procs < QUEUESIZE THEN procs ELSE QUEUESIZE
    /\ pc = [i \in Slots |-> 0]
    /\ bcount = [i \in Slots |-> Untried]
    /\ pages = [i \in Slots |-> AllOut]
    /\ pagesavail = PHYSICALPAGES
    /\ phase = "step" /\ cursor = 0

-----------------------------------------------------------------------------
(* allstep: one step of the process in slot cursor *)

NextSlot ==
    IF cursor < procs - 1 THEN cursor' = cursor + 1 /\ UNCHANGED phase
                          ELSE cursor' = 0 /\ phase' = "age"

\* Mutant: forgets to advance queueend.
Mutantdequeue(i) ==
    /\ processes' = [processes EXCEPT ![i] = IF queueend < QUEUESIZE THEN queueend ELSE NULL]
    /\ UNCHANGED queueend

\* The next process of the queue, if any, comes into slot i.
dequeue(i) ==
    /\ processes' = [processes EXCEPT ![i] = IF queueend < QUEUESIZE THEN queueend ELSE NULL]
    /\ queueend' = IF queueend < QUEUESIZE THEN queueend + 1 ELSE queueend

\* It is at the beginning of its program.  (Its pages are out, as those of the slot
\* are already.)
process_load(i) ==
    /\ pc' = [pc EXCEPT ![i] = 0]
    /\ bcount' = [bcount EXCEPT ![i] = Untried]

Reload(i) == dequeue(i) /\ process_load(i)

\* A slot without a process asks the queue for one.
StepEmpty(i) ==
    /\ ~loaded(i)
    /\ Reload(i)
    /\ UNCHANGED <<pages, pagesavail>>

StepBlocked(i) ==
    /\ loaded(i)
    /\ pages[i][NeededPage(i)] # 0
    /\ UNCHANGED <<processes, queueend, pc, bcount, pages, pagesavail>>

\* Mutant: forgets the frames of pages that come or go.
MutantUnload(i) ==
    /\ pagesavail' = pagesavail + Cardinality({j \in Pages : pages[i][j] = 0})
    /\ pages' = [pages EXCEPT ![i] = AllOut]

\* process_unload gives the frames of slot i back.
process_unload(i) ==
    /\ pagesavail' = pagesavail + Cardinality(HeldBySlot(i))
    /\ pages' = [pages EXCEPT ![i] = AllOut]

StepExit(i) ==
    /\ loaded(i)
    /\ pages[i][NeededPage(i)] = 0
    /\ pc[i] = Prog(i).exit
    /\ process_unload(i)
    /\ Reload(i)

\* The branch table is searched for the program counter.  A program without
\* branches still has entry 0 compared: all zero, and with a cleared context
\* that is taken every other time.
PhantomBranch == [wherefrom |-> 0, whereto |-> 0, btype |-> FOR, min |-> 1, max |-> 1]
BranchesAt(i) ==
    {b \in IF Prog(i).branches = {} THEN {PhantomBranch} ELSE Prog(i).branches :
        b.wherefrom = pc[i]}

\* bcontext_decide, for a branch taken n times since it was last not taken.
\* (A GOTO is not taken after 2^31 - 1 times: no program runs that long.)
MayTake(b, n) ==
    \/ b.btype \in {GOTO, IF_}
    \/ b.btype = FOR /\ (n < b.min \/ n < b.max - 1)
MaySkip(b, n) ==
    \/ b.btype = IF_
    \/ b.btype = FOR /\ n >= b.min

process_dobranch(i, b) ==
    \/ /\ MayTake(b, bcount[i][pc[i]])
       /\ pc' = [pc EXCEPT ![i] = b.whereto]
       /\ bcount' = IF b.btype = FOR THEN [bcount EXCEPT ![i][pc[i]] = @ + 1] ELSE bcount
    \/ /\ MaySkip(b, bcount[i][pc[i]])
       /\ pc' = [pc EXCEPT ![i] = IF pc[i] + 1 >= Prog(i).size THEN 0 ELSE pc[i] + 1]
       /\ bcount' = [bcount EXCEPT ![i][pc[i]] = 0]

StepCompute(i) ==
    /\ loaded(i)
    /\ pages[i][NeededPage(i)] = 0
    /\ pc[i] # Prog(i).exit
    /\ \/ \E b \in BranchesAt(i) : process_dobranch(i, b)
       \/ /\ BranchesAt(i) = {}
          /\ pc' = [pc EXCEPT ![i] = IF pc[i] + 1 > Prog(i).size THEN 0 ELSE pc[i] + 1]
          /\ UNCHANGED bcount
    /\ UNCHANGED <<processes, queueend, pages, pagesavail>>

allstep ==
    /\ phase = "step"
    /\ LET i == cursor IN StepEmpty(i) \/ StepBlocked(i) \/ StepExit(i) \/ StepCompute(i)
    /\ NextSlot
    /\ UNCHANGED queuetype

-----------------------------------------------------------------------------
(* allage: the pages that come or go get one tick older *)

MutantAgesOn(n) == IF n = 0 THEN n ELSE n - 1     \* goes on past OUT
Aged(n) == IF n = 0 \/ n = OUT THEN n ELSE n - 1

\* The pages that are out after this tick.
Leaving == {p \in Slots \X Pages : loaded(p[1]) /\ pages[p[1]][p[2]] = -PAGEWAIT}

allage ==
    /\ phase = "age"
    /\ pages' = [i \in Slots |-> [j \in Pages |->
                    IF loaded(i) THEN Aged(pages[i][j]) ELSE pages[i][j]]]
    /\ pagesavail' = pagesavail + Cardinality(Leaving)
    /\ phase' = "page" /\ cursor' = 0
    /\ UNCHANGED <<queuetype, queueend, processes, pc, bcount>>

-----------------------------------------------------------------------------
(* callyou: the calls of a pager *)

\* The arguments that pagein and pageout accept.
Valid(i, j) == i \in Slots /\ loaded(i) /\ j \in Pages

\* Mutant: does not wait for the page to be out.
MutantPageinStarts(i, j) == Valid(i, j) /\ pages[i][j] < 0 /\ pagesavail # 0

\* Mutant: keeps a frame back.
MutantPageinSpares(i, j) ==
    /\ Valid(i, j)
    /\ pages[i][j] < -PAGEWAIT
    /\ pagesavail > 1

PageinStarts(i, j) ==
    /\ Valid(i, j)
    /\ pages[i][j] < -PAGEWAIT
    /\ pagesavail # 0

\* What pagein returns.
PageinResult(i, j) == PageinStarts(i, j) \/ (Valid(i, j) /\ pages[i][j] >= 0)

pagein(i, j) ==
    IF PageinStarts(i, j)
    THEN /\ pages' = [pages EXCEPT ![i][j] = PAGEWAIT]
         /\ pagesavail' = pagesavail - 1
    ELSE UNCHANGED <<pages, pagesavail>>

\* What pageout returns.
PageoutResult(i, j) == Valid(i, j) /\ pages[i][j] <= 0

\* Mutant: pages out a page that is still coming in.
MutantPageout(i, j) ==
    /\ pages' = IF Valid(i, j) /\ pages[i][j] >= 0
                THEN [pages EXCEPT ![i][j] = -1] ELSE pages
    /\ UNCHANGED pagesavail

pageout(i, j) ==
    /\ pages' = IF Valid(i, j) /\ pages[i][j] = 0
                THEN [pages EXCEPT ![i][j] = -1] ELSE pages
    /\ UNCHANGED pagesavail

processesUnchanged == UNCHANGED <<queuetype, queueend, processes, pc, bcount>>

\* Some call of some pager, with any arguments.
PagerCall(i, j) ==
    /\ phase = "page"
    /\ pagein(i, j) \/ pageout(i, j)
    /\ processesUnchanged
    /\ UNCHANGED <<phase, cursor>>

\* pageit returns; the main loop goes on to the next tick, or ends.
PageitReturns ==
    /\ phase = "page"
    /\ phase' = IF alldone THEN "end" ELSE "step"
    /\ cursor' = 0
    /\ processesUnchanged
    /\ UNCHANGED <<pages, pagesavail>>

Ended == phase = "end" /\ UNCHANGED vars

Next ==
    \/ allstep \/ allage \/ PageitReturns \/ Ended
    \/ \E i \in -1 .. procs, j \in -1 .. MAXPROCPAGES : PagerCall(i, j)

Spec == Init /\ [][Next]_vars
-----------------------------------------------------------------------------

TypeOK ==
    /\ queuetype \in [Queue -> Kinds]
    /\ queueend \in 0 .. QUEUESIZE
    /\ processes \in [Slots -> Queue \cup {NULL}]
    /\ pc \in [Slots -> Addresses]
    /\ bcount \in [Slots -> [Addresses -> Nat]]
    /\ pages \in [Slots -> [Pages -> OUT .. PAGEWAIT]]
    /\ pagesavail \in 0 .. PHYSICALPAGES
    /\ phase \in {"step", "age", "page", "end"}
    /\ cursor \in Slots

\* The pages of all slots that hold a frame.
HeldPages == {p \in Slots \X Pages : pages[p[1]][p[2]] >= -PAGEWAIT}

\* The counter of free frames is right whatever the pager calls and however
\* processes exit while their pages come and go: every frame is free or is
\* held by one page, and a slot without a process holds none.
FramesConserved ==
    /\ pagesavail + Cardinality(HeldPages) = PHYSICALPAGES
    /\ \A i \in Slots : ~loaded(i) => HeldBySlot(i) = {}

\* No process runs in two slots or is run again, and no slot is idle while the
\* queue still has processes (FAQ.txt: "the value of q[X].active will remain 1
\* until there are no programs left to run").
QueueServedOnce ==
    /\ \A i, k \in Slots : loaded(i) /\ processes[i] = processes[k] => i = k
    /\ \A i \in Slots : IF loaded(i) THEN processes[i] < queueend ELSE queueend = QUEUESIZE

\* The simulator gives every pager the frames that simulator.h promises.
PageFrames ==
    INSTANCE Frames WITH
        Page     <- Slots \X Pages,
        NFrames  <- PHYSICALPAGES,
        coming   <- {p \in Slots \X Pages : pages[p[1]][p[2]] > 0},
        resident <- {p \in Slots \X Pages : pages[p[1]][p[2]] = 0},
        going    <- {p \in Slots \X Pages : pages[p[1]][p[2]] \in -PAGEWAIT .. -1}
ImplementsFrames == PageFrames!Spec

\* simulator.h:42 "0 if it can't start (e.g., swapping out)": a page that comes
\* in or goes out cannot be turned round by any call of the pager.
NoTurningBack ==
    [][phase = "page" =>
          \A i \in Slots, j \in Pages :
              pages'[i][j] # pages[i][j] => pages[i][j] \in {OUT, 0}]_vars
=============================================================================
