------------------------ MODULE MCReadersWritersSimple ------------------------
(* Instances of ReadersWritersSimple for TLC. *)
EXTENDS ReadersWritersSimple

\* A text of two characters and one of a single one, with no character of their own
\* at the beginning.
CONSTANTS Bar, w1, w2
MCText == [w \in Writers |-> IF w = w1 THEN <<Bar, w1>> ELSE <<Bar>>]
=============================================================================
