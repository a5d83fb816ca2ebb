------------------------------ MODULE PagerLRU -------------------------------
(***************************************************************************)
(* pager-lru.c under the simulator.  pageit goes through the slots; a      *)
(* process whose page can not come in has its least recently used page     *)
(* paged out.                                                              *)
(*                                                                         *)
(* Only the order of the timestamps of one slot matters: recent[i] lists   *)
(* the pages of slot i that have a timestamp, the oldest first; the others *)
(* have timestamp 0.                                                       *)
(***************************************************************************)
EXTENDS Simulator, SequencesExt

VARIABLES recent,   \* timestamps, by their order; kept from process to process
          next      \* the slot pageit comes to next, procs when it is through

lruVars == <<queuetype, queueend, processes, pc, bcount, pages, pagesavail,
             phase, cursor, recent, next>>

LRUInit == Init /\ recent = [i \in Slots |-> << >>] /\ next = 0

Stamped(i)  == ToSet(recent[i])
Resident(i) == {j \in Pages : pages[i][j] = 0}

\* Position of page j of slot i in the order of the timestamps.
Age(i, j) == IF j \in Stamped(i) THEN CHOOSE n \in DOMAIN recent[i] : recent[i][n] = j ELSE 0

\* The resident page with the least timestamp, the first of them when several
\* have none.
IsLRU(i, j) ==
    /\ j \in Resident(i)
    /\ \A k \in Resident(i) : Age(i, j) < Age(i, k) \/ (Age(i, j) = Age(i, k) /\ j <= k)

Forget(s, j)  == SelectSeq(s, LAMBDA k : k # j)
Refresh(s, j) == Append(Forget(s, j), j)

\* The page is in, or pagein accepts it.
Granted(i) ==
    LET j == NeededPage(i) IN
    /\ PageinResult(i, j)
    /\ pagein(i, j)
    /\ recent' = [recent EXCEPT ![i] = Refresh(@, j)]

\* Mutant: a page goes whether or not pagein failed.
MutantEvictsAnyway(i) ==
    \E j \in Pages :
        /\ IsLRU(i, j)
        /\ pageout(i, j)
        /\ recent' = [recent EXCEPT ![i] = Refresh(Forget(@, j), NeededPage(i))]

\* Mutant: the page loses its timestamp but stays.
MutantKeeps(i) ==
    /\ ~PageinResult(i, NeededPage(i))
    /\ \E j \in Pages :
          /\ IsLRU(i, j)
          /\ recent' = [recent EXCEPT ![i] = Refresh(Forget(@, j), NeededPage(i))]
    /\ UNCHANGED <<pages, pagesavail>>

\* pagein fails: the least recently used page goes, and loses its timestamp.
\* (The page that was asked for is not resident, so it is not the one to go.)
Evicts(i) ==
    /\ ~PageinResult(i, NeededPage(i))
    /\ \E j \in Pages :
          /\ IsLRU(i, j)
          /\ pageout(i, j)
          /\ recent' = [recent EXCEPT ![i] = Refresh(Forget(@, j), NeededPage(i))]

\* pagein fails and no page is resident: lrupage is not initialised.  Whatever
\* it holds, no page of slot i can go; but the timestamp it points at, of a
\* page of some slot or outside the array, is reset.
EvictsNothing(i) ==
    /\ ~PageinResult(i, NeededPage(i))
    /\ Resident(i) = {}
    /\ \E k \in Slots, j \in Pages :
          \/ recent' = [[recent EXCEPT ![k] = Forget(@, j)] EXCEPT ![i] = Refresh(@, NeededPage(i))]
          \/ recent' = [recent EXCEPT ![i] = Refresh(@, NeededPage(i))]
    /\ UNCHANGED <<pages, pagesavail>>

\* One turn of pageit's loop over the slots.
pageit(i) ==
    /\ phase = "page" /\ next = i
    /\ \/ loaded(i) /\ (Granted(i) \/ Evicts(i) \/ EvictsNothing(i))
       \/ ~loaded(i) /\ UNCHANGED <<pages, pagesavail, recent>>
    /\ next' = i + 1
    /\ processesUnchanged
    /\ UNCHANGED <<phase, cursor>>

LRUReturns == next = procs /\ PageitReturns /\ next' = 0 /\ UNCHANGED recent

LRUNext ==
    \/ (allstep \/ allage \/ Ended) /\ UNCHANGED <<recent, next>>
    \/ \E i \in Slots : pageit(i)
    \/ LRUReturns

LRUSpec == LRUInit /\ [][LRUNext]_lruVars

-----------------------------------------------------------------------------

\* pager-lru.c:56 "find a page that is paged in already and set that equal to
\* the lrupage": when a page is to go there is one that is in.
VictimIsPagedIn ==
    \A i \in Slots :
        phase = "page" /\ next = i /\ loaded(i) /\ ~PageinResult(i, NeededPage(i)) =>
            Resident(i) # {}
=============================================================================
