-------------------------- MODULE MCPagerLRU --------------------------
(* Instances of PagerLRU for TLC. *)
EXTENDS PagerLRU, TLC

\* Programs with the shapes of pgm1.pseudo (a branch round a page, in a loop) and
\* of pgm4.pseudo (linear), on four pages of two statements.
MCprograms ==
    0 :> [size |-> 8, exit |-> 7, branches |->
            {[wherefrom |-> 0, whereto |-> 4, btype |-> IF_, min |-> 0, max |-> 0],
             [wherefrom |-> 3, whereto |-> 5, btype |-> GOTO, min |-> 0, max |-> 0],
             [wherefrom |-> 5, whereto |-> 0, btype |-> FOR, min |-> 1, max |-> 3]}]
    @@ 1 :> [size |-> 8, exit |-> 7, branches |-> {}]
=============================================================================
