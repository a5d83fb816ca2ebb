------------------------------- MODULE Frames -------------------------------
(***************************************************************************)
(* What simulator.h promises the author of a pager: a page takes one of a  *)
(* fixed number of physical frames from the moment it starts to come in    *)
(* until it has gone out, it can be used only in between, and pages come   *)
(* and go with time or disappear with their process.                       *)
(***************************************************************************)
EXTENDS Naturals, FiniteSets

CONSTANTS Page,      \* the pages of all processes
          NFrames    \* the number of physical pages

VARIABLES coming,    \* pages on their way in
          resident,  \* pages that are in
          going      \* pages on their way out

framesVars == <<coming, resident, going>>

\* The pages that hold a frame.
Held == coming \cup resident \cup going

Init == coming = {} /\ resident = {} /\ going = {}

StartIn(p) ==
    /\ p \notin Held
    /\ Cardinality(Held) < NFrames
    /\ coming' = coming \cup {p}
    /\ UNCHANGED <<resident, going>>

StartOut(p) ==
    /\ p \in resident
    /\ resident' = resident \ {p}
    /\ going' = going \cup {p}
    /\ UNCHANGED coming

\* Time passes: the pages in arriving are now in, those in leaving are out.
Advance(arriving, leaving) ==
    /\ arriving \subseteq coming /\ leaving \subseteq going
    /\ coming' = coming \ arriving
    /\ resident' = resident \cup arriving
    /\ going' = going \ leaving

\* A process ends and gives up its pages.
Release(ps) ==
    /\ coming' = coming \ ps
    /\ resident' = resident \ ps
    /\ going' = going \ ps

Next ==
    \/ \E p \in Page : StartIn(p) \/ StartOut(p)
    \/ \E arriving \in SUBSET coming, leaving \in SUBSET going : Advance(arriving, leaving)
    \/ \E ps \in SUBSET Page : Release(ps)

Spec == Init /\ [][Next]_framesVars
=============================================================================
