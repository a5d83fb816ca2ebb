------------------------------ MODULE QueueRing ------------------------------
(***************************************************************************)
(* The circular buffer of PA3's queue.c and the steps its operations are   *)
(* made of.  A push writes a slot and then advances rear; a pop clears a   *)
(* slot and then advances front.  The two halves are separate operators    *)
(* because threads that do not hold the queue's lock can look in between.  *)
(***************************************************************************)
EXTENDS Integers, Sequences

CONSTANTS NULL,          \* the null payload
          Size,          \* the size passed to queue_init
          QUEUEMAXSIZE   \* queue.h's default size

ASSUME QueueAssumption == Size \in Int /\ QUEUEMAXSIZE \in Nat \ {0}

VARIABLES array,         \* q->array[i].payload
          front,         \* index of the oldest element
          rear           \* index of the next free slot

ringVars == <<array, front, rear>>

\* The requested size, or the default when it is not positive.
maxSize == IF Size > 0 THEN Size ELSE QUEUEMAXSIZE

Slots == 0 .. maxSize - 1

Succ(i) == (i + 1) % maxSize

queue_init ==
    /\ array = [i \in Slots |-> NULL]
    /\ front = 0
    /\ rear = 0

\* front = rear both when the ring is empty and when it is full: the slot
\* tells the two apart.
queue_is_empty == front = rear /\ array[front] = NULL
MutantIsFull   == front = rear                     \* forgets the slot
queue_is_full  == front = rear /\ array[front] # NULL

MutantAdvanceRear == rear' = rear + 1               \* forgets to wrap around
MutantClearFront  == UNCHANGED array                \* forgets to clear the slot

\* The two halves of queue_push on a ring that is not full.
StorePayload(p) == array' = [array EXCEPT ![rear] = p]
AdvanceRear     == rear' = Succ(rear)

\* The two halves of queue_pop on a ring that is not empty.
ClearFront      == array' = [array EXCEPT ![front] = NULL]
AdvanceFront    == front' = Succ(front)

\* queue_cleanup pops until the ring is empty, so front ends up at rear.
DrainRing ==
    /\ array' = [i \in Slots |-> NULL]
    /\ front' = rear
    /\ UNCHANGED rear

-----------------------------------------------------------------------------
(* The meaning of a ring, as used by the properties: of the array a between *)
(* front f and rear r, which take a half-finished operation into account.   *)

Wrap(i) == IF i < maxSize THEN i ELSE i - maxSize

\* How many elements the ring holds.
Count(a, f, r) ==
    IF f < r THEN r - f
    ELSE IF r < f THEN r + maxSize - f
    ELSE IF a[f] = NULL THEN 0 ELSE maxSize

\* The elements, the oldest first.
Contents(a, f, r) == [k \in 1 .. Count(a, f, r) |-> a[Wrap(f + k - 1)]]

\* Slot i lies between front f and rear r.
InSpan(f, r, i) ==
    IF f < r THEN f <= i /\ i < r ELSE i < r \/ f <= i

\* The occupied slots are exactly those from front up to rear.
WellFormed(a, f, r) ==
    IF f = r
    THEN (\A i \in Slots : a[i] = NULL) \/ (\A i \in Slots : a[i] # NULL)
    ELSE \A i \in Slots : a[i] # NULL <=> InSpan(f, r, i)
=============================================================================
