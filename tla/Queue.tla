-------------------------------- MODULE Queue --------------------------------
(***************************************************************************)
(* queue.c used by one thread, the way queueTest.c uses it: every call runs *)
(* to its end before the next.  Payloads are never NULL: the callers push  *)
(* pointers they have just written through.                                *)
(***************************************************************************)
EXTENDS QueueRing

CONSTANTS Payload

ASSUME PayloadAssumption == NULL \notin Payload

QUEUE_FAILURE == -1
QUEUE_SUCCESS == 0

VARIABLES live,   \* FALSE after queue_cleanup: the array is freed
          ret     \* the last call, what it returned, and a mark that every call flips,
                  \* so that two calls that return the same are told apart

vars == <<array, front, rear, live, ret>>

Init ==
    /\ queue_init
    /\ live = TRUE
    /\ ret = <<"init", maxSize, 0>>

Returns(call, value) == ret' = <<call, value, 1 - ret[3]>>

\* Mutant: pushes without asking whether the queue is full.
MutantPush(p) ==
    /\ live
    /\ StorePayload(p) /\ AdvanceRear
    /\ Returns("push", QUEUE_SUCCESS)
    /\ UNCHANGED <<front, live>>

\* Mutant: skips the store on a full queue, and still says that it has succeeded.
MutantPushDrops(p) ==
    /\ live
    /\ IF queue_is_full THEN UNCHANGED ringVars
                        ELSE StorePayload(p) /\ AdvanceRear /\ UNCHANGED front
    /\ Returns("push", QUEUE_SUCCESS)
    /\ UNCHANGED live

queue_push(p) ==
    /\ live
    /\ \/ /\ queue_is_full
          /\ Returns("push", QUEUE_FAILURE)
          /\ UNCHANGED ringVars
       \/ /\ ~queue_is_full
          /\ StorePayload(p)
          /\ AdvanceRear
          /\ Returns("push", QUEUE_SUCCESS)
          /\ UNCHANGED front
    /\ UNCHANGED live

queue_pop ==
    /\ live
    /\ \/ /\ queue_is_empty
          /\ Returns("pop", NULL)
          /\ UNCHANGED ringVars
       \/ /\ ~queue_is_empty
          /\ ClearFront
          /\ AdvanceFront
          /\ Returns("pop", array[front])
          /\ UNCHANGED rear
    /\ UNCHANGED live

queue_cleanup ==
    /\ live
    /\ DrainRing
    /\ live' = FALSE
    /\ UNCHANGED ret

Freed == ~live /\ UNCHANGED vars   \* nothing may be called any more

Next == (\E p \in Payload : queue_push(p)) \/ queue_pop \/ queue_cleanup \/ Freed

Spec == Init /\ [][Next]_vars

-----------------------------------------------------------------------------

TypeOK ==
    /\ array \in [Slots -> Payload \cup {NULL}]
    /\ front \in Slots
    /\ rear \in Slots
    /\ live \in BOOLEAN
    /\ ret \in {"init"} \X {maxSize} \X {0}
         \cup {"push"} \X {QUEUE_SUCCESS, QUEUE_FAILURE} \X {0, 1}
         \cup {"pop"} \X (Payload \cup {NULL}) \X {0, 1}

\* The ring never has a hole and never a stray element: whatever the sequence
\* of calls, the non-null slots are the ones from front up to rear, so that
\* "front = rear" with a null slot can only mean empty (queue_is_empty,
\* queue_is_full).
RingShape == WellFormed(array, front, rear)

\* The ring implements the first-in first-out queue that queue.h describes.
PayloadFifo ==
    INSTANCE Fifo WITH items <- Contents(array, front, rear), Capacity <- maxSize
ImplementsFifo == PayloadFifo!Spec

\* What every single call returns is what it has done: push fails exactly on a
\* full queue, and then leaves it alone, and when it returns QUEUE_SUCCESS a payload
\* has been appended; pop returns the oldest element, and has removed that one, or
\* NULL exactly on an empty queue.
ResultsTellTheTruth ==
    [][LET c == Contents(array, front, rear) IN
       ret' # ret =>
         /\ ret'[1] = "push" =>
                IF ret'[2] = QUEUE_FAILURE
                THEN Len(c) = maxSize /\ UNCHANGED ringVars
                ELSE Len(c) < maxSize /\ \E p \in Payload : Contents(array, front, rear)' = Append(c, p)
         /\ ret'[1] = "pop" =>
                IF ret'[2] = NULL
                THEN c = << >> /\ UNCHANGED ringVars
                ELSE c # << >> /\ ret'[2] = c[1] /\ Contents(array, front, rear)' = Tail(c)]_vars
=============================================================================
