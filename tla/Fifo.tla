-------------------------------- MODULE Fifo --------------------------------
(***************************************************************************)
(* What queue.h promises its callers: a bounded first-in first-out queue.  *)
(* A push on a full queue and a pop on an empty one change nothing, so     *)
(* they are stuttering steps here.  The ring buffer of queue.c (Queue) and *)
(* its use by the threads of multi-lookup.c (MultiLookup) are both shown   *)
(* to implement this module.                                               *)
(***************************************************************************)
EXTENDS Naturals, Sequences

CONSTANTS Payload,   \* the pointers a caller may enqueue
          Capacity   \* the number of elements the queue can hold

VARIABLES items,     \* the queued payloads, the oldest first
          live       \* FALSE once queue_cleanup has freed the queue

fifoVars == <<items, live>>

Init == items = << >> /\ live = TRUE

\* Enqueue p, which succeeds only while there is room.
Push(p) ==
    /\ live
    /\ Len(items) < Capacity
    /\ items' = Append(items, p)
    /\ UNCHANGED live

\* Dequeue the oldest element.
Pop ==
    /\ live
    /\ items # << >>
    /\ items' = Tail(items)
    /\ UNCHANGED live

\* Empty the queue and give up its memory.
Cleanup ==
    /\ live
    /\ items' = << >>
    /\ live' = FALSE

Next == (\E p \in Payload : Push(p)) \/ Pop \/ Cleanup

Spec == Init /\ [][Next]_fifoVars
=============================================================================
