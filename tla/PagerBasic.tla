----------------------------- MODULE PagerBasic ------------------------------
(***************************************************************************)
(* pager-basic.c under the simulator: all work is for the first slot that  *)
(* has a process.                                                          *)
(***************************************************************************)
EXTENDS Simulator

VARIABLE called   \* pageit has made its calls for this tick

\* Mutant: does not leave out page j.
MutantVictim(i, j) ==
    LET accepted == {k \in Pages : PageoutResult(i, k)} IN
    IF accepted = {} THEN -1 ELSE CHOOSE k \in accepted : \A m \in accepted : k <= m

\* The first page of slot i other than j that pageout accepts; a page that is
\* out, or on its way, counts.  -1, which pageout ignores, when there is none.
Victim(i, j) ==
    LET accepted == {k \in Pages \ {j} : PageoutResult(i, k)} IN
    IF accepted = {} THEN -1 ELSE CHOOSE k \in accepted : \A m \in accepted : k <= m

\* Mutant: serves a process that is not the first.
MutantPageitAny ==
    /\ phase = "page" /\ ~called
    /\ \/ \E i \in Slots : loaded(i) /\ pagein(i, NeededPage(i))
       \/ UNCHANGED <<pages, pagesavail>>
    /\ called' = TRUE
    /\ processesUnchanged
    /\ UNCHANGED <<phase, cursor>>

pageit ==
    /\ phase = "page" /\ ~called
    /\ \/ \E i \in Slots : /\ FirstActive(i)
                           /\ pages[i][NeededPage(i)] # 0
                           /\ IF PageinResult(i, NeededPage(i))
                              THEN pagein(i, NeededPage(i))
                              ELSE pageout(i, Victim(i, NeededPage(i)))
       \/ /\ \A i \in Slots : FirstActive(i) => pages[i][NeededPage(i)] = 0
          /\ UNCHANGED <<pages, pagesavail>>
    /\ called' = TRUE
    /\ processesUnchanged
    /\ UNCHANGED <<phase, cursor>>

BasicReturns == called /\ PageitReturns /\ called' = FALSE

BasicNext ==
    \/ (allstep \/ allage \/ Ended) /\ UNCHANGED called
    \/ pageit \/ BasicReturns
=============================================================================
