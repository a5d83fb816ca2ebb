------------------------------ MODULE MCQueue ------------------------------
(* Instances of QueueTest for TLC. *)
EXTENDS QueueTest, TLC

CONSTANTS p1, p2, p3

\* A payload for each of three slots.
MCpayload_in == 0 :> p1 @@ 1 :> p2 @@ 2 :> p3
=============================================================================
