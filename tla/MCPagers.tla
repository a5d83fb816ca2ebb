------------------------------ MODULE MCPagers -------------------------------
(* Instances of Pagers for TLC. *)
EXTENDS Pagers, TLC

\* Programs with the shapes of pgm1.pseudo (a branch round a page, in a loop) and
\* of pgm4.pseudo (linear), on four pages of two statements.  The loop needs all four
\* of them, one more than pager-basic has frames.
MCprograms ==
    0 :> [size |-> 8, exit |-> 7, branches |->
            {[wherefrom |-> 0, whereto |-> 4, btype |-> "IF", min |-> 0, max |-> 0],
             [wherefrom |-> 3, whereto |-> 5, btype |-> "GOTO", min |-> 0, max |-> 0],
             [wherefrom |-> 6, whereto |-> 0, btype |-> "FOR", min |-> 1, max |-> 3]}]
    @@ 1 :> [size |-> 8, exit |-> 7, branches |-> {}]

MCFrames == "basic" :> 3 @@ "lru" :> 3 @@ "predict" :> 6 @@ "test" :> 1
=============================================================================
