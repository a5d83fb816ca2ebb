------------------------------- MODULE Pagers --------------------------------
(***************************************************************************)
(* simulator.c is linked with one of the pagers: pager-basic.c,            *)
(* pager-lru.c, pager-predict.c or api-test.c.  Here they run on the same  *)
(* queue of the same programs, each with as many frames as it is to manage *)
(* with.                                                                   *)
(***************************************************************************)
EXTENDS PagerPromises

CONSTANTS PROGRAMS, programs, QUEUESIZE, Beyond, MAXITERATIONS

ASSUME BeyondAssumption == Beyond \subseteq Nat /\ Beyond # {}

VARIABLES
    called, testRun, iterations,          \* of PagerBasic and PagerApiTest
    recent, next,                         \* of PagerLRU and PagerPredict
    freqArray, pastAccessed, calls        \* of PagerPredict

allVars == <<pager, queuetype, queueend, processes, pc, bcount, pages, pagesavail, phase, cursor,
             called, testRun, iterations, recent, next, freqArray, pastAccessed, calls>>

Basic   == INSTANCE PagerBasic   WITH PHYSICALPAGES <- Frames["basic"]
LRU     == INSTANCE PagerLRU     WITH PHYSICALPAGES <- Frames["lru"]
Predict == INSTANCE PagerPredict WITH PHYSICALPAGES <- Frames["predict"]
Test    == INSTANCE PagerApiTest WITH PHYSICALPAGES <- Frames["test"]

Init ==
    /\ pager \in DOMAIN Frames
    /\ CASE pager = "basic"   -> Basic!Init
         [] pager = "lru"     -> LRU!Init
         [] pager = "predict" -> Predict!Init
         [] pager = "test"    -> Test!Init
    /\ called = FALSE /\ testRun = "none" /\ iterations = 0
    /\ recent = [i \in Slots |-> << >>] /\ next = 0
    /\ freqArray = [c \in Predict!Cells |-> 0]
    /\ pastAccessed = [i \in Slots |-> -1] /\ calls = Predict!NoCalls

Next ==
    /\ pager' = pager
    /\ \/ /\ pager = "basic" /\ Basic!BasicNext
          /\ UNCHANGED <<testRun, iterations, recent, next, freqArray, pastAccessed, calls>>
       \/ /\ pager = "lru" /\ LRU!LRUNext
          /\ UNCHANGED <<called, testRun, iterations, freqArray, pastAccessed, calls>>
       \/ /\ pager = "predict" /\ Predict!PredictNext
          /\ UNCHANGED <<called, testRun, iterations, recent>>
       \/ /\ pager = "test" /\ Test!TestNext
          /\ UNCHANGED <<recent, next, freqArray, pastAccessed, calls>>

\* The simulator is one thread: it runs until main returns or the pager exits.
Spec == Init /\ [][Next]_allVars /\ WF_allVars(Next)

-----------------------------------------------------------------------------

\* Each change of state that api-test.c counts is one: the page starts on its way at
\* that moment.  The test sees the same of a page that comes, goes and is out, and
\* pagein is successful for a page that comes already.
CountsChanges == [][iterations' # iterations => pages'[0][0] # pages[0][0]]_allVars

\* Processes that give up their pages for one another, or lose frames to predictions,
\* do not do so for ever: every process of the queue gets to its end, and so does
\* the simulation; and the test comes to its exit.
AllEnds == <>(phase = "end")
=============================================================================
