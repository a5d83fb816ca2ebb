--------------------------- MODULE MCReadersWriters ---------------------------
(* Instances of ReadersWriters for TLC. *)
EXTENDS ReadersWriters

\* As in the program, the texts begin alike and end with the writer's number.
CONSTANT Bar
MCText == [w \in Writers |-> <<Bar, w>>]
=============================================================================
