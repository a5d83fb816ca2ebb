------------------------------- MODULE MCEncFS -------------------------------
(* Instances of EncFS for TLC. *)
EXTENDS EncFS, TLC

\* The names of the files are interchangeable; only safety is checked.
FileSymmetry == Permutations(Files)
=============================================================================
