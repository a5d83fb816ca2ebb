---------------------------- MODULE PagerApiTest -----------------------------
(***************************************************************************)
(* api-test.c under the simulator: a pager that sends page 0 of slot 0 in  *)
(* and out, to see what pagein and pageout answer, and ends the program    *)
(* after some changes of state.                                            *)
(***************************************************************************)
EXTENDS Simulator

CONSTANT MAXITERATIONS

VARIABLES
    testRun,       \* what it has started last, "in" or "out", if anything
    iterations,    \* the changes of state it has counted
    called         \* pageit has made its calls for this tick

\* The flags outTestRun and inTestRun: after one change the other is waited for.
Started(change) == testRun' = change /\ iterations' = iterations + 1
NotStarted      == UNCHANGED <<testRun, iterations>>

\* The page is in: pagein, which has nothing to do, and pageout.
TestOut ==
    /\ pages[0][0] = 0
    /\ IF testRun # "out"
       THEN pageout(0, 0) /\ IF PageoutResult(0, 0) THEN Started("out") ELSE NotStarted
       ELSE NotStarted /\ UNCHANGED <<pages, pagesavail>>

\* Mutant: calls pagein every time, and counts every call that is accepted.
MutantTestIn ==
    /\ pages[0][0] # 0
    /\ pagein(0, 0)
    /\ IF PageinResult(0, 0) THEN Started("in") ELSE NotStarted

\* The page is not in: pageout, which has nothing to do, and pagein, which is
\* refused as long as the page is on its way out.
TestIn ==
    /\ pages[0][0] # 0
    /\ IF testRun # "in"
       THEN pagein(0, 0) /\ IF PageinResult(0, 0) THEN Started("in") ELSE NotStarted
       ELSE NotStarted /\ UNCHANGED <<pages, pagesavail>>

pageit ==
    /\ phase = "page" /\ ~called /\ iterations <= MAXITERATIONS
    /\ TestOut \/ TestIn
    /\ called' = TRUE
    /\ processesUnchanged
    /\ UNCHANGED <<phase, cursor>>

\* pageit returns, or ends the program.
TestReturns ==
    /\ called /\ iterations <= MAXITERATIONS
    /\ PageitReturns
    /\ called' = FALSE /\ NotStarted

TestExits ==
    /\ phase = "page" /\ called /\ iterations > MAXITERATIONS
    /\ phase' = "end"
    /\ processesUnchanged
    /\ UNCHANGED <<cursor, pages, pagesavail, testRun, iterations, called>>

TestNext ==
    \/ (allstep \/ allage \/ Ended) /\ UNCHANGED <<testRun, iterations, called>>
    \/ pageit \/ TestReturns \/ TestExits
=============================================================================
