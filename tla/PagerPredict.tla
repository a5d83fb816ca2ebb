---------------------------- MODULE PagerPredict -----------------------------
(***************************************************************************)
(* pager-predict.c under the simulator.  pageit counts for every slot how  *)
(* often one page followed another, keeps the needed page and the two that *)
(* most often followed it, and pages out the rest.                         *)
(*                                                                         *)
(* Subscripts are not always in range, so freqArray is kept the way it     *)
(* lies in memory.                                                         *)
(***************************************************************************)
EXTENDS Simulator, Sequences

CONSTANT Beyond      \* what memory outside freqArray may hold

VARIABLES
    freqArray,       \* how often a page followed another
    pastAccessed,    \* the page each slot used last, -1 before the first
    next,            \* the slot pageit comes to next, procs when it is through
    calls            \* the calls it still has to make for the slot before that

\* Where freqArray[i][from][to] lies.
Cell(i, from, to) == (i * MAXPROCPAGES + from) * MAXPROCPAGES + to
Cells == 0 .. procs * MAXPROCPAGES * MAXPROCPAGES - 1

\* The counters after a change to page j: the first access of slot 0 is counted
\* in front of the array, that of another slot in the last row of its
\* predecessor.
Counted(i, j) ==
    LET c == Cell(i, pastAccessed[i], j) IN
    IF pastAccessed[i] # j /\ c \in Cells THEN [freqArray EXCEPT ![c] = @ + 1] ELSE freqArray

\* What the loops over p find: a page of ps that follows page j most often, the
\* first of them, or start when none does so more often than start.
Favourite(freq, i, j, ps, start, beyond) ==
    LET f(p) == IF Cell(i, j, p) \in Cells THEN freq[Cell(i, j, p)] ELSE beyond
        better == {p \in ps : f(p) > f(start)}
    IN  IF better = {} THEN start
        ELSE CHOOSE p \in better : \A r \in ps : f(p) > f(r) \/ (f(p) = f(r) /\ p <= r)

\* Both predictions start from the page whose number is the count of cell 0.
nextPage1(i, j, beyond) ==
    Favourite(Counted(i, j), i, j, Pages, freqArray[Cell(i, j, 0)], beyond)
nextPage2(i, j, beyond) ==
    Favourite(Counted(i, j), i, j, Pages \ {nextPage1(i, j, beyond)},
              freqArray[Cell(i, j, 0)], beyond)

NoCalls == [out |-> {}, in |-> << >>]

\* The calls for slot i: page out what is in and not wanted, then page in what is
\* wanted.  (pageit asks only for the pages that are not in; pagein leaves alone
\* those that are.  Beyond the array of pages another field is read; pagein refuses
\* such a page either way.)
MutantUnwantedNeeded(i, keep) ==        \* Mutant: does not keep the needed page.
    {j \in Pages \ (keep \ {NeededPage(i)}) : pages[i][j] = 0}
MutantUnwantedNone(i, keep) == {}       \* Mutant: pages nothing out.
Unwanted(i, keep) == {j \in Pages \ keep : pages[i][j] = 0}
Plan(i, page, first, second) ==
    [out |-> Unwanted(i, {page, first, second}), in |-> <<page, first, second>>]

\* One turn of pageit's loop over the slots, up to its calls.
pageit(i) ==
    /\ phase = "page" /\ next = i /\ calls = NoCalls
    /\ \/ /\ loaded(i)
          /\ LET j == NeededPage(i) IN
             /\ freqArray' = Counted(i, j)
             /\ pastAccessed' = [pastAccessed EXCEPT ![i] = j]
             /\ \E beyond \in Beyond :
                   calls' = Plan(i, j, nextPage1(i, j, beyond), nextPage2(i, j, beyond))
       \/ ~loaded(i) /\ UNCHANGED <<freqArray, pastAccessed, calls>>
    /\ next' = i + 1
    /\ processesUnchanged
    /\ UNCHANGED <<pages, pagesavail, phase, cursor>>

\* The calls for the slot that pageit is at: the pages that go out, in their order,
\* then those that come in.
PageoutCall ==
    \E j \in calls.out :
        /\ \A k \in calls.out : j <= k
        /\ pageout(next - 1, j)
        /\ calls' = [calls EXCEPT !.out = @ \ {j}]
PageinCall ==
    /\ calls.out = {} /\ calls.in # << >>
    /\ pagein(next - 1, Head(calls.in))
    /\ calls' = [calls EXCEPT !.in = Tail(@)]

MakeCall ==
    /\ phase = "page"
    /\ PageoutCall \/ PageinCall
    /\ processesUnchanged
    /\ UNCHANGED <<phase, cursor, freqArray, pastAccessed, next>>

PredictReturns ==
    /\ next = procs /\ calls = NoCalls
    /\ PageitReturns
    /\ next' = 0
    /\ UNCHANGED <<freqArray, pastAccessed, calls>>

PredictNext ==
    \/ (allstep \/ allage \/ Ended) /\ UNCHANGED <<freqArray, pastAccessed, next, calls>>
    \/ \E i \in Slots : pageit(i)
    \/ MakeCall \/ PredictReturns

-----------------------------------------------------------------------------

\* pager-predict.c:76 "Find the second most probable page that will be next
\* using the frequency array": where two pages have followed the needed one,
\* the second prediction is not the first over again.
SecondPageIsAnother ==
    \A i \in Slots, beyond \in Beyond :
        LET j == NeededPage(i) IN
        /\ phase = "page" /\ next = i /\ loaded(i)
        /\ \E p, r \in Pages : p # r /\ freqArray[Cell(i, j, p)] > 0 /\ freqArray[Cell(i, j, r)] > 0
        => nextPage2(i, j, beyond) # nextPage1(i, j, beyond)
=============================================================================
