---------------------------- MODULE MCMultiLookup ----------------------------
(* Instances of MultiLookup for TLC. *)
EXTENDS MultiLookup, TLC

\* Reader threads and their files are alike, and so are the writer threads.
Symmetry == Permutations(Readers) \cup Permutations(Writers)
=============================================================================
