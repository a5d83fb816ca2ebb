----------------------------- MODULE QueueProofs -----------------------------
(***************************************************************************)
(* Proofs about queue.c used by one thread (Queue), for every queue size   *)
(* and every set of payloads: the types, the shape of the ring, the        *)
(* refinement of the bounded first-in first-out queue (Fifo), and that the *)
(* repository's own test of it (QueueTest) has nothing to report.          *)
(***************************************************************************)
EXTENDS QueueTest, RingProofs

\* The inductive invariant: without RingShape a push could fill a slot away
\* from the others and TypeOK alone would not tell.
Inv == TypeOK /\ RingShape

LEMMA Start == Init => Inv
<1>. SUFFICES ASSUME Init PROVE Inv
  OBVIOUS
<1>1. 0 \in Slots
  BY SizePositive DEF Slots
<1>. QED
  BY <1>1 DEF Init, queue_init, Inv, TypeOK, RingShape, WellFormed

\* The contents of an empty ring are the empty sequence.
LEMMA NoContents ==
  ASSUME NEW a, NEW f \in Slots, a[f] = NULL
  PROVE  Contents(a, f, f) = << >>
<1>1. Count(a, f, f) = 0
  BY CountIs
<1>. QED
  BY <1>1 DEF Contents

LEMMA PushKeeps ==
  ASSUME Inv, NEW p \in Payload, queue_push(p)
  PROVE  /\ Inv'
         /\ IF queue_is_full
            THEN UNCHANGED <<ringVars, live>> /\ UNCHANGED PayloadFifo!fifoVars
            ELSE PayloadFifo!Push(p)
<1>. USE DEF Inv, TypeOK
<1>1. CASE queue_is_full
  <2>1. UNCHANGED <<array, front, rear, live>>
    BY <1>1 DEF queue_push, ringVars
  <2>2. UNCHANGED PayloadFifo!fifoVars
    BY <2>1 DEF PayloadFifo!fifoVars, Contents, Count
  <2>. QED
    BY <1>1, <2>1, <2>2 DEF queue_push, Returns, ringVars, RingShape, WellFormed
<1>2. CASE ~queue_is_full
  <2>1. /\ array' = [array EXCEPT ![rear] = p]
        /\ front' = front /\ rear' = Succ(rear)
        /\ ret' = <<"push", QUEUE_SUCCESS, 1 - ret[3]>> /\ live /\ live' = live
    BY <1>2 DEF queue_push, Returns, StorePayload, AdvanceRear
  <2>2. p \in Payload \cup {NULL} /\ p # NULL
    BY PayloadAssumption
  <2>3. /\ WellFormed(array', front, rear')
        /\ Contents(array', front, rear') = Append(Contents(array, front, rear), p)
        /\ Count(array', front, rear') = Count(array, front, rear) + 1
    <3>. DEFINE V == Payload \cup {NULL}
    <3>1. /\ array \in [Slots -> V] /\ p \in V /\ p # NULL
          /\ front \in Slots /\ rear \in Slots
          /\ WellFormed(array, front, rear) /\ ~(front = rear /\ array[front] # NULL)
      BY <1>2, <2>2 DEF queue_is_full, RingShape
    <3>. HIDE DEF V, Inv, TypeOK
    <3>2. /\ WellFormed([array EXCEPT ![rear] = p], front, Succ(rear))
          /\ Contents([array EXCEPT ![rear] = p], front, Succ(rear))
             = Append(Contents(array, front, rear), p)
          /\ Count([array EXCEPT ![rear] = p], front, Succ(rear)) = Count(array, front, rear) + 1
      BY <3>1, PushRing
    <3>. QED
      BY <2>1, <3>2
  <2>4. rear' \in Slots
    BY <2>1, SuccIs
  <2>5. array' \in [Slots -> Payload \cup {NULL}]
    BY <2>1, <2>2
  <2>6. Inv'
    BY <2>1, <2>3, <2>4, <2>5 DEF RingShape
  <2>7. Len(Contents(array, front, rear)) < maxSize
    <3>1. /\ Count(array, front, rear) \in 0 .. maxSize
          /\ Count(array, front, rear) # maxSize
      BY <1>2, CountIs DEF queue_is_full
    <3>2. Len(Contents(array, front, rear)) = Count(array, front, rear)
      BY <3>1, SizePositive DEF Contents
    <3>. QED
      BY <3>1, <3>2, SizePositive
  <2>8. PayloadFifo!Push(p)
    BY <2>1, <2>3, <2>7 DEF PayloadFifo!Push, Contents
  <2>. QED
    BY <1>2, <2>6, <2>8
<1>. QED
  BY <1>1, <1>2

LEMMA PopKeeps ==
  ASSUME Inv, queue_pop
  PROVE  /\ Inv'
         /\ IF queue_is_empty
            THEN UNCHANGED <<ringVars, live>> /\ UNCHANGED PayloadFifo!fifoVars
            ELSE PayloadFifo!Pop /\ array[front] # NULL /\ Contents(array, front, rear)[1] = array[front]
<1>. USE DEF Inv, TypeOK
<1>1. CASE queue_is_empty
  <2>1. UNCHANGED <<array, front, rear, live>>
    BY <1>1 DEF queue_pop, ringVars
  <2>2. UNCHANGED PayloadFifo!fifoVars
    BY <2>1 DEF PayloadFifo!fifoVars, Contents, Count
  <2>. QED
    BY <1>1, <2>1, <2>2 DEF queue_pop, Returns, ringVars, RingShape, WellFormed
<1>2. CASE ~queue_is_empty
  <2>1. /\ array' = [array EXCEPT ![front] = NULL]
        /\ front' = Succ(front) /\ rear' = rear
        /\ ret' = <<"pop", array[front], 1 - ret[3]>> /\ live /\ live' = live
    BY <1>2 DEF queue_pop, Returns, ClearFront, AdvanceFront
  <2>2. /\ WellFormed(array', front', rear)
        /\ Contents(array', front', rear) = Tail(Contents(array, front, rear))
        /\ Contents(array, front, rear) # << >>
        /\ array[front] # NULL /\ Contents(array, front, rear)[1] = array[front]
    <3>1. /\ NULL \in Payload \cup {NULL}
          /\ array \in [Slots -> Payload \cup {NULL}]
          /\ front \in Slots /\ rear \in Slots
          /\ WellFormed(array, front, rear)
          /\ ~(front = rear /\ array[front] = NULL)
      BY <1>2 DEF queue_is_empty, RingShape
    <3>. HIDE DEF Inv, TypeOK
    <3>. DEFINE V == Payload \cup {NULL}
    <3>2. NULL \in V /\ array \in [Slots -> V]
      BY <3>1
    <3>. HIDE DEF V
    <3>3. /\ Len(Contents(array, front, rear)) > 0
          /\ array[front] # NULL /\ Contents(array, front, rear)[1] = array[front]
      BY <3>1, <3>2, PopRing
    <3>4. Contents(array, front, rear) # << >>
      BY <3>3
    <3>. DEFINE b == [array EXCEPT ![front] = NULL]
    <3>5. WellFormed(b, Succ(front), rear)
      BY <3>1, <3>2, PopRing
    <3>6. Contents(b, Succ(front), rear) = Tail(Contents(array, front, rear))
      BY <3>1, <3>2, PopRing, Zenon
    <3>. QED
      BY <2>1, <3>3, <3>4, <3>5, <3>6
  <2>3. front' \in Slots
    BY <2>1, SuccIs
  <2>4. array' \in [Slots -> Payload \cup {NULL}]
    BY <2>1
  <2>5. Inv'
    BY <2>1, <2>2, <2>3, <2>4 DEF RingShape
  <2>. QED
    BY <1>2, <2>1, <2>2, <2>5 DEF PayloadFifo!Pop, Contents
<1>. QED
  BY <1>1, <1>2

LEMMA CleanupKeeps ==
  ASSUME Inv, queue_cleanup
  PROVE  Inv' /\ PayloadFifo!Cleanup
<1>1. /\ array' = [i \in Slots |-> NULL]
      /\ front' = rear /\ rear' = rear /\ rear \in Slots
      /\ ret' = ret /\ live /\ live' = FALSE
  BY DEF queue_cleanup, DrainRing, Inv, TypeOK
<1>2. Inv'
  BY <1>1 DEF Inv, TypeOK, RingShape, WellFormed
<1>3. Contents(array', front', rear') = << >>
  BY <1>1, NoContents
<1>. QED
  BY <1>1, <1>2, <1>3 DEF PayloadFifo!Cleanup

LEMMA StepKeeps ==
  ASSUME Inv, [Next]_vars
  PROVE  Inv' /\ [PayloadFifo!Next]_(PayloadFifo!fifoVars)
<1>1. CASE \E p \in Payload : queue_push(p)
  BY <1>1, PushKeeps DEF PayloadFifo!Next
<1>2. CASE queue_pop
  BY <1>2, PopKeeps DEF PayloadFifo!Next
<1>3. CASE queue_cleanup
  BY <1>3, CleanupKeeps DEF PayloadFifo!Next
<1>4. CASE UNCHANGED vars
  BY <1>4 DEF vars, Inv, TypeOK, RingShape, WellFormed, PayloadFifo!fifoVars, Contents, Count
<1>. QED
  BY <1>1, <1>2, <1>3, <1>4 DEF Next, Freed

THEOREM Invariance == Spec => []Inv
<1>1. Inv /\ [Next]_vars => Inv'
  BY StepKeeps
<1>. QED
  BY <1>1, Start, PTL DEF Spec

\* Every call leaves the indices of queue.c inside the array and returns a value
\* of its type, whatever calls came before.
THEOREM TypeCorrect == Spec => []TypeOK
<1>1. Inv => TypeOK
  BY DEF Inv
<1>. QED
  BY <1>1, Invariance, PTL

\* The occupied slots are those from front up to rear after every sequence of
\* calls, so that the tests of queue_is_empty and queue_is_full are right.
THEOREM ShapeKept == Spec => []RingShape
<1>1. Inv => RingShape
  BY DEF Inv
<1>. QED
  BY <1>1, Invariance, PTL

\* queue.c implements the bounded first-in first-out queue of queue.h: push
\* appends when there is room, pop removes the oldest element when there is one,
\* cleanup empties, and nothing else changes the elements.
THEOREM Refinement == Spec => ImplementsFifo
<1>1. Init => PayloadFifo!Init
  <2>. SUFFICES ASSUME Init PROVE PayloadFifo!Init
    OBVIOUS
  <2>1. array[front] = NULL /\ front = rear /\ live = TRUE
    BY SizePositive DEF Init, queue_init, Slots
  <2>2. front \in Slots
    BY SizePositive DEF Init, queue_init, Slots
  <2>. QED
    BY <2>1, <2>2, NoContents DEF PayloadFifo!Init
<1>2. Inv /\ [Next]_vars => [PayloadFifo!Next]_(PayloadFifo!fifoVars)
  BY StepKeeps
<1>. QED
  BY <1>1, <1>2, Invariance, PTL DEF Spec, ImplementsFifo, PayloadFifo!Spec

\* Every call tells the truth about itself, also when it returns the same as the call
\* before: a push fails exactly on a full queue and otherwise has appended, a pop
\* returns the oldest element and has removed it, or returns NULL exactly on an empty
\* queue.
THEOREM ResultsRight == Spec => ResultsTellTheTruth
<1>. DEFINE c == Contents(array, front, rear)
            Told ==
              ret' # ret =>
                /\ ret'[1] = "push" =>
                      IF ret'[2] = QUEUE_FAILURE
                      THEN Len(c) = maxSize /\ UNCHANGED ringVars
                      ELSE Len(c) < maxSize /\ \E p \in Payload : c' = Append(c, p)
                /\ ret'[1] = "pop" =>
                      IF ret'[2] = NULL
                      THEN c = << >> /\ UNCHANGED ringVars
                      ELSE c # << >> /\ ret'[2] = c[1] /\ c' = Tail(c)
<1>1. ASSUME Inv, [Next]_vars PROVE [Told]_vars
  <2>1. ASSUME NEW p \in Payload, queue_push(p) PROVE Told
    <3>1. CASE queue_is_full
      <4>1. Count(array, front, rear) = maxSize
        BY <1>1, <3>1, CountIs DEF Inv, TypeOK, queue_is_full
      <4>2. Len(c) = maxSize
        BY <4>1, SizePositive DEF Contents
      <4>3. UNCHANGED ringVars
        BY <1>1, <2>1, <3>1, PushKeeps
      <4>4. ret'[1] = "push" /\ ret'[2] = QUEUE_FAILURE
        BY <2>1, <3>1 DEF queue_push, Returns
      <4>. QED
        BY <4>2, <4>3, <4>4
    <3>2. CASE ~queue_is_full
      <4>1. PayloadFifo!Push(p)
        BY <1>1, <2>1, <3>2, PushKeeps
      <4>2. Len(c) < maxSize /\ c' = Append(c, p)
        BY <4>1 DEF PayloadFifo!Push
      <4>3. ret'[1] = "push" /\ ret'[2] # QUEUE_FAILURE
        BY <2>1, <3>2 DEF queue_push, Returns, QUEUE_SUCCESS, QUEUE_FAILURE
      <4>. QED
        BY <4>2, <4>3
    <3>. QED
      BY <3>1, <3>2
  <2>2. ASSUME queue_pop PROVE Told
    <3>1. CASE queue_is_empty
      <4>1. c = << >>
        BY <1>1, <3>1, NoContents DEF queue_is_empty, Inv, TypeOK
      <4>2. UNCHANGED ringVars
        BY <1>1, <2>2, <3>1, PopKeeps
      <4>3. ret'[1] = "pop" /\ ret'[2] = NULL
        BY <2>2, <3>1 DEF queue_pop, Returns
      <4>. QED
        BY <4>1, <4>2, <4>3
    <3>2. CASE ~queue_is_empty
      <4>1. PayloadFifo!Pop /\ array[front] # NULL /\ c[1] = array[front]
        BY <1>1, <2>2, <3>2, PopKeeps
      <4>2. c # << >> /\ c' = Tail(c)
        BY <4>1 DEF PayloadFifo!Pop
      <4>3. ret'[1] = "pop" /\ ret'[2] = array[front]
        BY <2>2, <3>2 DEF queue_pop, Returns
      <4>. QED
        BY <4>1, <4>2, <4>3
    <3>. QED
      BY <3>1, <3>2
  <2>3. CASE queue_cleanup
    BY <2>3 DEF queue_cleanup
  <2>4. CASE UNCHANGED vars
    BY <2>4
  <2>. QED
    BY <1>1, <2>1, <2>2, <2>3, <2>4 DEF Next, Freed
<1>. QED
  BY <1>1, Invariance, PTL DEF Spec, ResultsTellTheTruth

-----------------------------------------------------------------------------
(* The test *)

\* Stage by stage, how far the slots of the ring are filled or emptied, in the order
\* of the test's payloads.
Stages ==
    /\ at \in {"empty", "push", "full", "push_full", "pop", "compare", "empty_again",
               "pop_empty", "cleanup", "done"}
    /\ at \notin {"push", "pop"} => n = 0
    /\ at \in {"empty", "compare", "empty_again", "pop_empty", "cleanup"} =>
           /\ front = 0 /\ rear = 0
           /\ \A i \in Slots : array[i] = NULL
    /\ at = "push" =>
           /\ front = 0 /\ rear = n
           /\ \A i \in Slots : array[i] = IF i < n THEN payload_in[i] ELSE NULL
    /\ at \in {"full", "push_full"} =>
           /\ front = 0 /\ rear = 0
           /\ \A i \in Slots : array[i] = payload_in[i]
    /\ at = "pop" =>
           /\ front = n /\ rear = 0
           /\ \A i \in Slots : array[i] = IF i < n THEN NULL ELSE payload_in[i]
           /\ \A i \in Slots : i < n => payload_out[i] = payload_in[i]
    /\ at \in {"compare", "empty_again", "pop_empty", "cleanup", "done"} =>
           payload_out = payload_in
    /\ at = "done" <=> ~live

\* The inductive invariant of the test.
TestInv ==
    /\ Inv
    /\ client \in {"any", "test"} /\ errors = {} /\ n \in Slots
    /\ payload_out \in [Slots -> Payload \cup {NULL}]
    /\ IF client = "test" THEN Stages ELSE at = "empty"

LEMMA TestStart == TestInit => TestInv
<1>. SUFFICES ASSUME TestInit PROVE TestInv
  OBVIOUS
<1>1. Inv /\ 0 \in Slots
  BY Start, SizePositive DEF TestInit, Slots
<1>. QED
  BY <1>1 DEF TestInit, TestInv, Stages, Init, queue_init

\* The test only calls the queue, with payloads that callers may push.
LEMMA TestCalls ==
  ASSUME TestInv, Test
  PROVE  Next \/ UNCHANGED vars
<1>1. 0 \in Slots /\ payload_in[0] \in Payload /\ payload_in[n] \in Payload
  BY TestAssumption, SizePositive DEF TestInv, Slots
<1>2. CASE PushAll \/ PushOnFull
  BY <1>1, <1>2 DEF PushAll, PushOnFull, Next
<1>3. CASE PopAll \/ PopOnEmpty \/ Finish
  BY <1>3 DEF PopAll, PopOnEmpty, Finish, Next
<1>4. CASE ReportsEmpty("empty", "push") \/ ReportsEmpty("empty_again", "pop_empty") \/ ReportsFull \/ Compare
  BY <1>4 DEF ReportsEmpty, ReportsFull, Compare
<1>. QED
  BY <1>2, <1>3, <1>4 DEF Test

LEMMA TestStep ==
  ASSUME TestInv, [TestNext]_<<vars, testVars>>
  PROVE  TestInv' /\ [Next]_vars
<1>. DEFINE m == maxSize
<1>1. m \in Nat \ {0} /\ Slots = 0 .. m - 1 /\ 0 \in Slots
  BY SizePositive DEF Slots
<1>2. /\ array \in [Slots -> Payload \cup {NULL}] /\ front \in Slots /\ rear \in Slots
      /\ payload_in \in [Slots -> Payload] /\ NULL \notin Payload /\ n \in Slots
      /\ payload_out \in [Slots -> Payload \cup {NULL}]
  BY TestAssumption, PayloadAssumption DEF TestInv, Inv, TypeOK
<1>3. Succ(n) = (IF n + 1 < m THEN n + 1 ELSE 0) /\ Succ(n) = (n + 1) % TEST_SIZE /\ Succ(n) \in Slots
  BY <1>2, SuccIs DEF Succ, TEST_SIZE
<1>4. [Next]_vars => Inv'
  BY StepKeeps DEF TestInv
<1>5. CASE client = "any" /\ Next /\ UNCHANGED testVars
  BY <1>4, <1>5 DEF TestInv, testVars
<1>6. CASE client = "test" /\ Test
  <2>1. Inv' /\ [Next]_vars /\ Stages /\ errors = {}
    BY <1>4, <1>6, TestCalls DEF TestInv
  <2>. HIDE DEF m
  <2>. SUFFICES /\ client' = "test" /\ errors' = {} /\ n' \in Slots /\ Stages'
                /\ payload_out' \in [Slots -> Payload \cup {NULL}]
    BY <2>1 DEF TestInv
  <2>. USE DEF Stages, Goto, Report
  <2>2. CASE ReportsEmpty("empty", "push") \/ ReportsEmpty("empty_again", "pop_empty")
    <3>1. /\ (at = "empty" /\ at' = "push") \/ (at = "empty_again" /\ at' = "pop_empty")
          /\ Report(~queue_is_empty \/ queue_is_full, "should report empty")
          /\ UNCHANGED <<vars, client, n, payload_out>>
      BY <2>2 DEF ReportsEmpty
    <3>2. n = 0 /\ front = 0 /\ rear = 0 /\ live /\ \A i \in Slots : array[i] = NULL
      BY <2>1, <3>1
    <3>3. queue_is_empty /\ ~queue_is_full
      BY <1>1, <3>2 DEF queue_is_empty, queue_is_full
    <3>4. errors' = {}
      BY <2>1, <3>1, <3>3
    <3>5. \A i \in Slots : ~(i < 0)
      BY <1>1
    <3>. QED
      BY <1>2, <1>6, <2>1, <3>1, <3>2, <3>4, <3>5 DEF vars
  <2>3. CASE PushAll
    <3>1. at = "push" /\ front = 0 /\ rear = n /\ live
          /\ \A i \in Slots : array[i] = IF i < n THEN payload_in[i] ELSE NULL
      BY <2>1, <2>3 DEF PushAll, Each
    <3>2. ~queue_is_full
      BY <1>1, <1>2, <3>1 DEF queue_is_full
    <3>3. /\ array' = [array EXCEPT ![rear] = payload_in[n]] /\ rear' = Succ(rear)
          /\ UNCHANGED <<front, live>> /\ errors' = errors
      <4>1. queue_push(payload_in[n]) /\ Report(ret'[2] = QUEUE_FAILURE, "push failed")
        BY <2>3 DEF PushAll
      <4>2. ret' = <<"push", QUEUE_SUCCESS, 1 - ret[3]>>
        BY <3>2, <4>1 DEF queue_push, Returns
      <4>3. ret'[2] # QUEUE_FAILURE
        BY <4>2 DEF QUEUE_SUCCESS, QUEUE_FAILURE
      <4>. QED
        BY <3>2, <4>1, <4>3 DEF queue_push, StorePayload, AdvanceRear
    <3>4. n' = Succ(n) /\ at' = (IF n + 1 < m THEN "push" ELSE "full")
          /\ UNCHANGED <<client, payload_out>>
      BY <1>3, <2>3 DEF PushAll, Each, TEST_SIZE, m
    <3>. QED
      BY <1>1, <1>2, <1>3, <1>6, <2>1, <3>1, <3>3, <3>4
  <2>4. CASE ReportsFull
    <3>1. /\ at = "full" /\ at' = "push_full"
          /\ Report(queue_is_empty \/ ~queue_is_full, "should report full")
          /\ UNCHANGED <<vars, client, n, payload_out>>
      BY <2>4 DEF ReportsFull
    <3>2. queue_is_full /\ ~queue_is_empty
      <4>1. front = 0 /\ rear = 0 /\ array[0] = payload_in[0]
        BY <1>1, <2>1, <3>1
      <4>2. payload_in[0] \in Payload
        BY <1>1, <1>2
      <4>. QED
        BY <1>2, <4>1, <4>2 DEF queue_is_empty, queue_is_full
    <3>3. errors' = {}
      BY <2>1, <3>1, <3>2
    <3>. QED
      BY <1>6, <1>2, <2>1, <3>1, <3>3 DEF vars
  <2>5. CASE PushOnFull
    <3>1. queue_is_full
      BY <1>1, <1>2, <2>1, <2>5 DEF PushOnFull, queue_is_full
    <3>2. UNCHANGED <<ringVars, live, client, n, payload_out, errors>> /\ at = "push_full" /\ at' = "pop"
      BY <2>5, <3>1 DEF PushOnFull, queue_push
    <3>3. \A i \in Slots : ~(i < 0)
      BY <1>1
    <3>. QED
      BY <1>1, <1>2, <1>6, <2>1, <3>2, <3>3 DEF ringVars
  <2>6. CASE PopAll
    <3>1. at = "pop" /\ front = n /\ rear = 0 /\ live
          /\ (\A i \in Slots : array[i] = IF i < n THEN NULL ELSE payload_in[i])
          /\ \A i \in Slots : i < n => payload_out[i] = payload_in[i]
      BY <2>1, <2>6 DEF PopAll, Each
    <3>2. array[front] = payload_in[n] /\ payload_in[n] # NULL /\ ~queue_is_empty
      BY <1>1, <1>2, <3>1 DEF queue_is_empty
    <3>3. /\ array' = [array EXCEPT ![front] = NULL] /\ front' = Succ(front)
          /\ UNCHANGED <<rear, live>> /\ ret'[2] = payload_in[n]
      <4>1. queue_pop
        BY <2>6 DEF PopAll
      <4>2. ret' = <<"pop", payload_in[n], 1 - ret[3]>>
        BY <3>2, <4>1 DEF queue_pop, Returns
      <4>. QED
        BY <3>2, <4>1, <4>2 DEF queue_pop, ClearFront, AdvanceFront
    <3>4. /\ n' = Succ(n) /\ at' = (IF n + 1 < m THEN "pop" ELSE "compare") /\ UNCHANGED client
          /\ payload_out' = [payload_out EXCEPT ![n] = payload_in[n]] /\ errors' = errors
      BY <1>3, <2>6, <3>2, <3>3 DEF PopAll, Each, TEST_SIZE, m
    <3>5. n + 1 = m => payload_out' = payload_in
      BY <1>1, <1>2, <3>1, <3>4
    <3>6. \A i \in Slots : i < n + 1 => payload_out'[i] = payload_in[i]
      BY <1>1, <1>2, <3>1, <3>4
    <3>7. \A i \in Slots : array'[i] = IF i < n + 1 THEN NULL ELSE payload_in[i]
      BY <1>1, <1>2, <3>1, <3>3
    <3>8. payload_out' \in [Slots -> Payload \cup {NULL}]
      BY <1>2, <3>4
    <3>. QED
      BY <1>1, <1>2, <1>3, <1>6, <2>1, <3>1, <3>3, <3>4, <3>5, <3>6, <3>7, <3>8
  <2>7. CASE Compare
    BY <1>1, <1>2, <1>6, <2>1, <2>7 DEF Compare, vars
  <2>8. CASE PopOnEmpty
    <3>1. queue_is_empty
      BY <1>1, <2>1, <2>8 DEF PopOnEmpty, queue_is_empty
    <3>2. UNCHANGED <<ringVars, live, client, n, payload_out, errors>> /\ at = "pop_empty" /\ at' = "cleanup"
      <4>1. queue_pop /\ Report(ret'[2] # NULL, "pop did not return NULL")
        BY <2>8 DEF PopOnEmpty
      <4>2. ret' = <<"pop", NULL, 1 - ret[3]>>
        BY <3>1, <4>1 DEF queue_pop, Returns
      <4>3. errors' = errors
        BY <4>1, <4>2
      <4>. QED
        BY <2>8, <3>1, <4>3 DEF PopOnEmpty, queue_pop
    <3>. QED
      BY <1>1, <1>2, <1>6, <2>1, <3>2 DEF ringVars
  <2>9. CASE Finish
    BY <1>1, <1>2, <1>6, <2>1, <2>9 DEF Finish, queue_cleanup, DrainRing
  <2>. QED
    BY <1>6, <2>2, <2>3, <2>4, <2>5, <2>6, <2>7, <2>8, <2>9 DEF Test
<1>7. CASE client = "test" /\ Freed /\ UNCHANGED testVars
  BY <1>4, <1>7 DEF Freed, vars, testVars, TestInv, Stages
<1>8. CASE UNCHANGED <<vars, testVars>>
  BY <1>4, <1>8 DEF vars, testVars, TestInv, Stages
<1>. QED
  BY <1>4, <1>5, <1>6, <1>7, <1>8, TestCalls DEF TestNext

\* The test makes calls that any user of the queue could make, so that what is shown
\* of Spec holds while it runs.
THEOREM TestMakesCalls == TestSpec => Spec
<1>1. TestInit => Init
  BY DEF TestInit
<1>. QED
  BY <1>1, TestStart, TestStep, PTL DEF TestSpec, Spec

\* Whatever the size of the queue and the payloads, none of the checks of queueTest.c
\* fails (TestReportsNothing).
THEOREM TestSucceeds == TestSpec => []TestReportsNothing
<1>1. TestInv => TestReportsNothing
  BY DEF TestInv, Stages, TestReportsNothing
<1>. QED
  BY <1>1, TestStart, TestStep, PTL DEF TestSpec
=============================================================================
