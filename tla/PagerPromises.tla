---------------------------- MODULE PagerPromises ----------------------------
(***************************************************************************)
(* What the repository says of its pagers, in terms of the simulator's     *)
(* state.                                                                  *)
(***************************************************************************)
EXTENDS SimulatorState

CONSTANT Frames   \* Frames[p], the number of frames for pager p

ASSUME PagersAssumption == DOMAIN Frames \subseteq {"basic", "lru", "predict", "test"}

VARIABLE pager    \* the pager simulator.c is linked with; it stays what it is

\* FAQ.txt: slot 0 "is the only processor being allocated pages until there is
\* nothing left for it to run"; then the next slot takes its place.
OnlyFirstActiveHoldsPages ==
    pager = "basic" => \A i \in Slots : HeldBySlot(i) # {} => FirstActive(i)

\* The page a process runs on stays in until the process has left it.
UsedPageStays ==
    [][phase = "page" /\ pager # "test" =>
          \A i \in Slots : loaded(i) /\ pages[i][NeededPage(i)] = 0 =>
              pages'[i][NeededPage(i)] = 0]_vars

\* simulator.c:678 "All needed pages swapped out!": when allblocked, which looks at the
\* pages once the pager is through, finds them so, it is for want of frames and not
\* because a pager has left one unused.
BlockedForWantOfFrames ==
    [][phase = "page" /\ phase' = "step" /\ pager # "test" =>
          (allblocked' => pagesavail' = 0)]_vars
=============================================================================
