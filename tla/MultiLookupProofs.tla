--------------------------- MODULE MultiLookupProofs ---------------------------
(***************************************************************************)
(* Proofs about the threads of multi-lookup.c, for any number of readers   *)
(* and writers, any files and any queue size: the types, Qlock as mutual   *)
(* exclusion of the pushes and pops, and the refinement of the bounded     *)
(* first-in first-out queue although threads poll the ring without Qlock.  *)
(***************************************************************************)
EXTENDS MultiLookup, RingProofs, FiniteSetTheorems

Threads == Readers \cup Writers \cup {Main}

\* What holds of a reader at its step: Qlock is its own while it pushes, and it
\* has a hostname until it has pushed it.
ReaderOK(r) ==
    /\ pc[r] \in {"push", "push_advance"} => Qlock = r
    /\ pc[r] \in {"full_front", "full_rear", "full_slot", "push_lock", "push"}
         => hostname[r] \in Hostname
    /\ pc[r] = "dec_store" => reg[r] \in Int

\* What holds of a writer: Qlock is its own while it pops, and then it has a
\* hostname, or NULL, until it has written its line.
WriterOK(w) ==
    /\ pc[w] \in {"pop", "pop_advance"} => Qlock = w
    /\ pc[w] \in {"pop_advance", "lookup", "write_lock", "write"} => hostname[w] # Free

\* No writer runs before the readers are created, no thread after main has
\* joined them all.
MainOK ==
    /\ pc[Main] = "inc_store" => reg[Main] \in Int
    /\ pc[Main] \in {"create", "inc_load", "inc_store"} => \A w \in Writers : pc[w] = "unborn"
    /\ pc[Main] = "exit" => \A t \in Readers \cup Writers : pc[t] = "done"

ThreadsOK ==
    /\ \A r \in Readers : ReaderOK(r)
    /\ \A w \in Writers : WriterOK(w)
    /\ MainOK

\* The inductive invariant: RingShape depends on who is inside the critical
\* section, so it needs Qlock to exclude all others.
Inv == TypeOK /\ ThreadsOK /\ RingShape

-----------------------------------------------------------------------------

\* The threads are told apart by their identities.
LEMMA Apart ==
  /\ Main \notin Readers /\ Main \notin Writers
  /\ \A r \in Readers : r \notin Writers /\ r # Free
  /\ \A w \in Writers : w \notin Readers /\ w # Free
  /\ Free \notin Hostname /\ NULL \notin Hostname /\ NULL # Free
  BY ThreadAssumption, ValueAssumption

\* A step of one thread leaves the program counters of the others alone.
LEMMA GotoIs ==
  ASSUME TypeOK, NEW t \in Threads, NEW a, NEW b, Goto(t, a, b)
  PROVE  /\ pc[t] = a /\ pc'[t] = b
         /\ \A u \in Threads : u # t => pc'[u] = pc[u]
         /\ DOMAIN pc' = Threads
  BY DEF TypeOK, Goto, Threads

\* The types of the program counters, as one predicate.
PcOK ==
    /\ pc \in [Readers \cup Writers \cup {Main} -> ReaderSteps \cup WriterSteps \cup MainSteps]
    /\ \A r \in Readers : pc[r] \in ReaderSteps
    /\ \A w \in Writers : pc[w] \in WriterSteps
    /\ pc[Main] \in MainSteps

LEMMA ReaderGoes ==
  ASSUME TypeOK, NEW r \in Readers, NEW a, NEW b \in ReaderSteps, Goto(r, a, b)
  PROVE  /\ PcOK' /\ pc[r] = a /\ pc'[r] = b /\ pc'[Main] = pc[Main]
         /\ \A u \in Readers \cup Writers : u # r => pc'[u] = pc[u]
         /\ \A w \in Writers : pc'[w] = pc[w]
  BY Apart DEF TypeOK, Goto, PcOK

LEMMA WriterGoes ==
  ASSUME TypeOK, NEW w \in Writers, NEW a, NEW b \in WriterSteps, Goto(w, a, b)
  PROVE  /\ PcOK' /\ pc[w] = a /\ pc'[w] = b /\ pc'[Main] = pc[Main]
         /\ \A u \in Readers \cup Writers : u # w => pc'[u] = pc[u]
         /\ \A r \in Readers : pc'[r] = pc[r]
  BY Apart DEF TypeOK, Goto, PcOK

LEMMA MainGoes ==
  ASSUME TypeOK, NEW a, NEW b \in MainSteps, Goto(Main, a, b)
  PROVE  /\ PcOK' /\ pc[Main] = a /\ pc'[Main] = b
         /\ \A u \in Readers \cup Writers : pc'[u] = pc[u]
  BY Apart DEF TypeOK, Goto, PcOK

\* While nobody is half-way through an operation the ring begins and ends where
\* front and rear say; the thread in the critical section is the only one that
\* can be half-way.
LEMMA EffIs ==
  ASSUME TypeOK, ThreadsOK
  PROVE  /\ (\A w \in Writers : Qlock # w) => EffFront = front
         /\ (\A r \in Readers : Qlock # r) => EffRear = rear
         /\ \A r \in Readers : Qlock = r =>
                /\ EffFront = front
                /\ EffRear = IF pc[r] = "push_advance" THEN Succ(rear) ELSE rear
         /\ \A w \in Writers : Qlock = w =>
                /\ EffRear = rear
                /\ EffFront = IF pc[w] = "pop_advance" THEN Succ(front) ELSE front
  BY Apart DEF ThreadsOK, ReaderOK, WriterOK, EffFront, EffRear

\* A step that leaves the ring alone, and nobody further into an operation on
\* it, is a stuttering step of the queue.
LEMMA Quiet ==
  ASSUME RingShape, UNCHANGED ringVars, EffFront' = EffFront, EffRear' = EffRear,
         pc'[Main] = "exit" <=> pc[Main] = "exit"
  PROVE  RingShape' /\ UNCHANGED HostnameFifo!fifoVars
  BY DEF RingShape, WellFormed, ringVars, HostnameFifo!fifoVars, Contents, Count

-----------------------------------------------------------------------------
(* Reader threads *)

\* What each step of a thread keeps, and what it is to the queue.
Kept == Inv' /\ [HostnameFifo!Next]_(HostnameFifo!fifoVars)

LEMMA ScanKeeps ==
  ASSUME Inv, NEW r \in Readers, Scan(r)
  PROVE  Kept
<1>. USE DEF Inv, Scan, ringVars, lockVars
<1>1. PICK b \in {"full_front", "dec_lock"} : Goto(r, "scan", b)
  OBVIOUS
<1>2. /\ PcOK' /\ pc[r] = "scan" /\ pc'[r] = b /\ pc'[Main] = pc[Main]
      /\ \A u \in Readers \cup Writers : u # r => pc'[u] = pc[u]
      /\ \A w \in Writers : pc'[w] = pc[w]
  BY <1>1, ReaderGoes DEF ReaderSteps
<1>3. CASE scanned[r] < PerFile /\ b = "full_front"
           /\ scanned' = [scanned EXCEPT ![r] = @ + 1]
           /\ hostname' = [hostname EXCEPT ![r] = <<r, scanned[r] + 1>>]
  <2>1. scanned[r] + 1 \in 1 .. PerFile /\ scanned[r] + 1 \in 0 .. PerFile
    BY <1>3, ThreadAssumption DEF TypeOK
  <2>2. <<r, scanned[r] + 1>> \in Hostname
    BY <2>1 DEF Hostname
  <2>3. TypeOK'
    BY <1>2, <1>3, <2>1, <2>2 DEF TypeOK, PcOK
  <2>4. ThreadsOK'
    BY <1>2, <1>3, <2>2, Apart DEF TypeOK, ThreadsOK, ReaderOK, WriterOK, MainOK
  <2>5. EffFront' = EffFront /\ EffRear' = EffRear
    BY <1>2, <1>3 DEF EffFront, EffRear
  <2>. QED
    BY <1>2, <2>3, <2>4, <2>5, Quiet DEF Kept
<1>4. CASE UNCHANGED <<scanned, hostname>> /\ b = "dec_lock"
  <2>1. TypeOK'
    BY <1>2, <1>4 DEF TypeOK, PcOK
  <2>2. ThreadsOK'
    BY <1>2, <1>4, Apart DEF ThreadsOK, ReaderOK, WriterOK, MainOK
  <2>3. EffFront' = EffFront /\ EffRear' = EffRear
    BY <1>2, <1>4 DEF EffFront, EffRear
  <2>. QED
    BY <1>2, <2>1, <2>2, <2>3, Quiet DEF Kept
<1>. QED
  BY <1>1, <1>2, <1>3, <1>4 DEF Goto

\* Polling reads the ring without the lock and changes nothing of it.
LEMMA PollFullKeeps ==
  ASSUME Inv, NEW r \in Readers, PollFull(r)
  PROVE  Kept
<1>. USE DEF Inv, PollFull, ringVars, lockVars
<1>1. PICK a \in {"full_front", "full_rear", "full_slot"},
           b \in {"full_front", "full_rear", "full_slot", "push_lock"} : Goto(r, a, b)
  OBVIOUS
<1>2. /\ PcOK' /\ pc[r] = a /\ pc'[r] = b /\ pc'[Main] = pc[Main]
      /\ \A u \in Readers \cup Writers : u # r => pc'[u] = pc[u]
      /\ \A w \in Writers : pc'[w] = pc[w]
  BY <1>1, ReaderGoes DEF ReaderSteps
<1>3. reg' \in [Threads -> Int \cup {Free}] /\ \A u \in Threads : u # r => reg'[u] = reg[u]
  <2>1. front \in Int
    BY SizePositive DEF TypeOK, Slots
  <2>. QED
    BY <2>1 DEF TypeOK, Load, Threads
<1>4. TypeOK'
  BY <1>2, <1>3 DEF TypeOK, PcOK, Threads
<1>5. ThreadsOK'
  BY <1>2, <1>3, Apart DEF ThreadsOK, ReaderOK, WriterOK, MainOK, Threads
<1>6. EffFront' = EffFront /\ EffRear' = EffRear
  BY <1>2 DEF EffFront, EffRear
<1>. QED
  BY <1>2, <1>4, <1>5, <1>6, Quiet DEF Kept

LEMMA LockForPushKeeps ==
  ASSUME Inv, NEW r \in Readers, LockForPush(r)
  PROVE  Kept
<1>. USE DEF Inv, LockForPush, ringVars, lockVars
<1>1. /\ PcOK' /\ pc[r] = "push_lock" /\ pc'[r] = "push" /\ pc'[Main] = pc[Main]
      /\ \A u \in Readers \cup Writers : u # r => pc'[u] = pc[u]
      /\ \A w \in Writers : pc'[w] = pc[w]
  BY ReaderGoes DEF ReaderSteps
<1>2. TypeOK'
  BY <1>1 DEF TypeOK, PcOK
<1>3. ThreadsOK'
  BY <1>1, Apart DEF ThreadsOK, ReaderOK, WriterOK, MainOK
<1>4. EffFront' = EffFront /\ EffRear' = EffRear
  BY <1>1 DEF EffFront, EffRear
<1>. QED
  BY <1>1, <1>2, <1>3, <1>4, Quiet DEF Kept

\* The store of the payload is the step at which a push takes effect.
LEMMA PushStoreKeeps ==
  ASSUME Inv, NEW r \in Readers, PushStore(r)
  PROVE  Kept
<1>. USE DEF Inv, PushStore, ringVars, lockVars
<1>1. /\ PcOK' /\ pc[r] = "push" /\ pc'[r] = "push_advance" /\ pc'[Main] = pc[Main]
      /\ \A u \in Readers \cup Writers : u # r => pc'[u] = pc[u]
      /\ \A w \in Writers : pc'[w] = pc[w]
  BY ReaderGoes DEF ReaderSteps
<1>2. /\ Qlock = r /\ hostname[r] \in Hostname /\ hostname[r] # NULL
      /\ array' = [array EXCEPT ![rear] = hostname[r]]
  BY <1>1, Apart DEF ThreadsOK, ReaderOK, StorePayload
<1>3. TypeOK'
  BY <1>1, <1>2 DEF TypeOK, PcOK
<1>4. ThreadsOK'
  BY <1>1, <1>2, Apart DEF TypeOK, ThreadsOK, ReaderOK, WriterOK, MainOK
<1>5. EffFront = front /\ EffRear = rear
  BY <1>1, <1>2, EffIs
<1>6. EffFront' = front /\ EffRear' = Succ(rear)
  BY <1>1, <1>5 DEF EffFront, EffRear
<1>7. /\ WellFormed(array', front, Succ(rear))
      /\ Contents(array', front, Succ(rear)) = Append(Contents(array, front, rear), hostname[r])
  <2>. DEFINE V == Hostname \cup {NULL}
              p == hostname[r]
  <2>1. /\ array \in [Slots -> V] /\ p \in V /\ p # NULL
        /\ front \in Slots /\ rear \in Slots
        /\ WellFormed(array, front, rear) /\ ~(front = rear /\ array[front] # NULL)
    BY <1>2, <1>5 DEF TypeOK, RingShape, queue_is_full
  <2>2. array' = [array EXCEPT ![rear] = p]
    BY <1>2
  <2>. HIDE DEF V, p
  <2>3. /\ WellFormed([array EXCEPT ![rear] = p], front, Succ(rear))
        /\ Contents([array EXCEPT ![rear] = p], front, Succ(rear))
              = Append(Contents(array, front, rear), p)
    BY <2>1, PushRing
  <2>. QED
    BY <2>2, <2>3 DEF p
<1>8. Len(Contents(array, front, rear)) < maxSize
  <2>1. Count(array, front, rear) \in 0 .. maxSize /\ Count(array, front, rear) # maxSize
    BY CountIs DEF TypeOK, queue_is_full
  <2>2. Len(Contents(array, front, rear)) = Count(array, front, rear)
    BY <2>1, SizePositive DEF Contents
  <2>. QED
    BY <2>1, <2>2, SizePositive
<1>9. pc[Main] # "exit"
  BY <1>1 DEF ThreadsOK, MainOK
<1>10. HostnameFifo!Push(hostname[r])
  BY <1>1, <1>5, <1>6, <1>7, <1>8, <1>9 DEF HostnameFifo!Push
<1>. QED
  BY <1>2, <1>3, <1>4, <1>6, <1>7, <1>10 DEF Kept, RingShape, HostnameFifo!Next

\* Advancing rear only completes it.
LEMMA PushAdvanceKeeps ==
  ASSUME Inv, NEW r \in Readers, PushAdvance(r)
  PROVE  Kept
<1>. USE DEF Inv, PushAdvance, ringVars, lockVars
<1>1. /\ PcOK' /\ pc[r] = "push_advance" /\ pc'[r] = "scan" /\ pc'[Main] = pc[Main]
      /\ \A u \in Readers \cup Writers : u # r => pc'[u] = pc[u]
      /\ \A w \in Writers : pc'[w] = pc[w]
  BY ReaderGoes DEF ReaderSteps
<1>2. Qlock = r /\ rear' = Succ(rear) /\ rear' \in Slots
  BY <1>1, SuccIs DEF TypeOK, ThreadsOK, ReaderOK, AdvanceRear
<1>3. TypeOK'
  BY <1>1, <1>2 DEF TypeOK, PcOK
<1>4. ThreadsOK'
  BY <1>1, <1>2, Apart DEF ThreadsOK, ReaderOK, WriterOK, MainOK
<1>5. EffFront = front /\ EffRear = Succ(rear)
  BY <1>1, <1>2, EffIs
<1>6. EffFront' = EffFront /\ EffRear' = EffRear
  <2>1. \A w \in Writers : Qlock' # w
    BY Apart
  <2>2. \A u \in Readers : Qlock' # u
    BY Apart
  <2>3. EffFront' = front' /\ EffRear' = rear'
    BY <1>3, <1>4, <2>1, <2>2 DEF EffFront, EffRear, ThreadsOK, ReaderOK, WriterOK
  <2>. QED
    BY <1>2, <1>5, <2>3
<1>7. RingShape' /\ UNCHANGED HostnameFifo!fifoVars
  BY <1>1, <1>6 DEF RingShape, WellFormed, HostnameFifo!fifoVars, Contents, Count
<1>. QED
  BY <1>3, <1>4, <1>7 DEF Kept

LEMMA PushFailsKeeps ==
  ASSUME Inv, NEW r \in Readers, PushFails(r)
  PROVE  Kept
<1>. USE DEF Inv, PushFails, ringVars, lockVars
<1>1. /\ PcOK' /\ pc[r] = "push" /\ pc'[r] = "scan" /\ pc'[Main] = pc[Main]
      /\ \A u \in Readers \cup Writers : u # r => pc'[u] = pc[u]
      /\ \A w \in Writers : pc'[w] = pc[w]
  BY ReaderGoes DEF ReaderSteps
<1>2. Qlock = r /\ hostname[r] \in Hostname
  BY <1>1 DEF ThreadsOK, ReaderOK
<1>3. TypeOK'
  BY <1>1, <1>2 DEF TypeOK, PcOK
<1>4. ThreadsOK'
  BY <1>1, <1>2, Apart DEF TypeOK, ThreadsOK, ReaderOK, WriterOK, MainOK
<1>5. EffFront' = EffFront /\ EffRear' = EffRear
  BY <1>1 DEF EffFront, EffRear
<1>. QED
  BY <1>1, <1>3, <1>4, <1>5, Quiet DEF Kept

LEMMA LeaveCountKeeps ==
  ASSUME Inv, NEW r \in Readers, LeaveCount(r)
  PROVE  Kept
<1>. USE DEF Inv, LeaveCount, ringVars, lockVars
<1>1. PICK a \in {"dec_lock", "dec_load", "dec_store"},
           b \in {"dec_load", "dec_store", "done"} : Goto(r, a, b)
  OBVIOUS
<1>2. /\ PcOK' /\ pc[r] = a /\ pc'[r] = b /\ pc'[Main] = pc[Main]
      /\ \A u \in Readers \cup Writers : u # r => pc'[u] = pc[u]
      /\ \A w \in Writers : pc'[w] = pc[w]
  BY <1>1, ReaderGoes DEF ReaderSteps
<1>3. /\ reg' \in [Threads -> Int \cup {Free}]
      /\ \A u \in Threads : u # r => reg'[u] = reg[u]
      /\ b = "dec_store" => reg'[r] \in Int
  BY <1>1, <1>2 DEF TypeOK, Load, Threads, Goto
<1>4. reader_count' \in Int /\ Globallock' \in Readers \cup {Free}
  BY <1>2 DEF TypeOK, ThreadsOK, ReaderOK, Goto
<1>5. TypeOK'
  BY <1>2, <1>3, <1>4 DEF TypeOK, PcOK, Threads
<1>6. ThreadsOK'
  BY <1>2, <1>3, Apart DEF ThreadsOK, ReaderOK, WriterOK, MainOK, Threads
<1>7. EffFront' = EffFront /\ EffRear' = EffRear
  BY <1>2 DEF EffFront, EffRear
<1>. QED
  BY <1>2, <1>5, <1>6, <1>7, Quiet DEF Kept

LEMMA ReaderKeeps ==
  ASSUME Inv, NEW r \in Readers, Reader(r)
  PROVE  Kept
  BY ScanKeeps, PollFullKeeps, LockForPushKeeps, PushStoreKeeps, PushAdvanceKeeps,
     PushFailsKeeps, LeaveCountKeeps DEF Reader

-----------------------------------------------------------------------------
(* Writer threads *)

LEMMA WhileMoreKeeps ==
  ASSUME Inv, NEW w \in Writers, WhileMore(w)
  PROVE  Kept
<1>. USE DEF Inv, WhileMore, PollEmpty, ringVars, lockVars
<1>. DEFINE Polls == {"while_front", "while_rear", "while_slot", "while_count",
                      "wait_front", "wait_rear", "wait_slot"}
<1>1. PICK a \in Polls, b \in Polls \cup {"pop_lock", "done"} : Goto(w, a, b)
  OBVIOUS
<1>2. /\ PcOK' /\ pc[w] = a /\ pc'[w] = b /\ pc'[Main] = pc[Main]
      /\ \A u \in Readers \cup Writers : u # w => pc'[u] = pc[u]
      /\ \A r \in Readers : pc'[r] = pc[r]
  BY <1>1, WriterGoes DEF WriterSteps
<1>3. reg' \in [Threads -> Int \cup {Free}] /\ \A u \in Threads : u # w => reg'[u] = reg[u]
  <2>1. front \in Int
    BY SizePositive DEF TypeOK, Slots
  <2>. QED
    BY <2>1 DEF TypeOK, Load, Threads
<1>4. TypeOK'
  BY <1>2, <1>3 DEF TypeOK, PcOK, Threads
<1>5. ThreadsOK'
  BY <1>2, <1>3, Apart DEF ThreadsOK, ReaderOK, WriterOK, MainOK, Threads
<1>6. EffFront' = EffFront /\ EffRear' = EffRear
  BY <1>2 DEF EffFront, EffRear
<1>. QED
  BY <1>2, <1>4, <1>5, <1>6, Quiet DEF Kept

LEMMA LockForPopKeeps ==
  ASSUME Inv, NEW w \in Writers, LockForPop(w)
  PROVE  Kept
<1>. USE DEF Inv, LockForPop, ringVars, lockVars
<1>1. /\ PcOK' /\ pc[w] = "pop_lock" /\ pc'[w] = "pop" /\ pc'[Main] = pc[Main]
      /\ \A u \in Readers \cup Writers : u # w => pc'[u] = pc[u]
      /\ \A r \in Readers : pc'[r] = pc[r]
  BY WriterGoes DEF WriterSteps
<1>2. TypeOK'
  BY <1>1 DEF TypeOK, PcOK
<1>3. ThreadsOK'
  BY <1>1, Apart DEF TypeOK, ThreadsOK, ReaderOK, WriterOK, MainOK
<1>4. EffFront' = EffFront /\ EffRear' = EffRear
  BY <1>1 DEF EffFront, EffRear
<1>. QED
  BY <1>1, <1>2, <1>3, <1>4, Quiet DEF Kept

\* The store of NULL is the step at which a pop takes effect.
LEMMA PopTakeKeeps ==
  ASSUME Inv, NEW w \in Writers, PopTake(w)
  PROVE  Kept
<1>. USE DEF Inv, PopTake, ringVars, lockVars
<1>1. /\ PcOK' /\ pc[w] = "pop" /\ pc'[w] = "pop_advance" /\ pc'[Main] = pc[Main]
      /\ \A u \in Readers \cup Writers : u # w => pc'[u] = pc[u]
      /\ \A r \in Readers : pc'[r] = pc[r]
  BY WriterGoes DEF WriterSteps
<1>2. Qlock = w /\ array' = [array EXCEPT ![front] = NULL]
  BY <1>1 DEF ThreadsOK, WriterOK, ClearFront
<1>3. EffFront = front /\ EffRear = rear
  BY <1>1, <1>2, EffIs
<1>4. EffFront' = Succ(front) /\ EffRear' = rear
  BY <1>1, <1>3 DEF EffFront, EffRear
<1>5. /\ array[front] # NULL
      /\ WellFormed(array', Succ(front), rear)
      /\ Contents(array, front, rear) # << >>
      /\ Contents(array', Succ(front), rear) = Tail(Contents(array, front, rear))
  <2>. DEFINE V == Hostname \cup {NULL}
              d == [array EXCEPT ![front] = NULL]
  <2>1. /\ NULL \in V /\ array \in [Slots -> V] /\ front \in Slots /\ rear \in Slots
        /\ WellFormed(array, front, rear) /\ ~(front = rear /\ array[front] = NULL)
    BY <1>3 DEF TypeOK, RingShape, queue_is_empty
  <2>. HIDE DEF V
  <2>2. /\ array[front] # NULL /\ WellFormed(d, Succ(front), rear)
        /\ Len(Contents(array, front, rear)) > 0
    BY <2>1, PopRing
  <2>3. Contents(d, Succ(front), rear) = Tail(Contents(array, front, rear))
    BY <2>1, PopRing, Zenon
  <2>4. Contents(array, front, rear) # << >>
    BY <2>2
  <2>. QED
    BY <1>2, <2>2, <2>3, <2>4
<1>6. array[front] \in Hostname
  BY <1>5 DEF TypeOK
<1>7. TypeOK'
  BY <1>1, <1>2, <1>6 DEF TypeOK, PcOK
<1>8. ThreadsOK'
  BY <1>1, <1>2, <1>6, Apart DEF TypeOK, ThreadsOK, ReaderOK, WriterOK, MainOK
<1>9. pc[Main] # "exit"
  BY <1>1 DEF ThreadsOK, MainOK
<1>10. HostnameFifo!Pop
  BY <1>1, <1>3, <1>4, <1>5, <1>9 DEF HostnameFifo!Pop
<1>. QED
  BY <1>4, <1>5, <1>7, <1>8, <1>10 DEF Kept, RingShape, HostnameFifo!Next

\* Advancing front only completes it.
LEMMA PopAdvanceKeeps ==
  ASSUME Inv, NEW w \in Writers, PopAdvance(w)
  PROVE  Kept
<1>. USE DEF Inv, PopAdvance, ringVars, lockVars
<1>1. /\ PcOK' /\ pc[w] = "pop_advance" /\ pc'[w] = "lookup" /\ pc'[Main] = pc[Main]
      /\ \A u \in Readers \cup Writers : u # w => pc'[u] = pc[u]
      /\ \A r \in Readers : pc'[r] = pc[r]
  BY WriterGoes DEF WriterSteps
<1>2. Qlock = w /\ front' = Succ(front) /\ front' \in Slots
  BY <1>1, SuccIs DEF TypeOK, ThreadsOK, WriterOK, AdvanceFront
<1>3. TypeOK'
  BY <1>1, <1>2 DEF TypeOK, PcOK
<1>4. ThreadsOK'
  BY <1>1, <1>2, Apart DEF ThreadsOK, ReaderOK, WriterOK, MainOK
<1>5. EffRear = rear /\ EffFront = Succ(front)
  BY <1>1, <1>2, EffIs
<1>6. EffFront' = EffFront /\ EffRear' = EffRear
  <2>1. (\A u \in Writers : Qlock' # u) /\ \A r \in Readers : Qlock' # r
    BY Apart
  <2>2. EffFront' = front' /\ EffRear' = rear'
    BY <1>4, <2>1 DEF EffFront, EffRear, ThreadsOK, ReaderOK, WriterOK
  <2>. QED
    BY <1>2, <1>5, <2>2
<1>7. RingShape' /\ UNCHANGED HostnameFifo!fifoVars
  BY <1>1, <1>6 DEF RingShape, WellFormed, HostnameFifo!fifoVars, Contents, Count
<1>. QED
  BY <1>3, <1>4, <1>7 DEF Kept

LEMMA PopNothingKeeps ==
  ASSUME Inv, NEW w \in Writers, PopNothing(w)
  PROVE  Kept
<1>. USE DEF Inv, PopNothing, ringVars, lockVars
<1>1. /\ PcOK' /\ pc[w] = "pop" /\ pc'[w] = "lookup" /\ pc'[Main] = pc[Main]
      /\ \A u \in Readers \cup Writers : u # w => pc'[u] = pc[u]
      /\ \A r \in Readers : pc'[r] = pc[r]
  BY WriterGoes DEF WriterSteps
<1>2. TypeOK'
  BY <1>1 DEF TypeOK, PcOK
<1>3. ThreadsOK'
  BY <1>1, Apart DEF TypeOK, ThreadsOK, ReaderOK, WriterOK, MainOK
<1>4. EffFront' = EffFront /\ EffRear' = EffRear
  BY <1>1 DEF EffFront, EffRear
<1>. QED
  BY <1>1, <1>2, <1>3, <1>4, Quiet DEF Kept

\* A writer that looks up a name has one: dnslookup gets a hostname or NULL.
LEMMA LookupKeeps ==
  ASSUME Inv, NEW w \in Writers, Lookup(w)
  PROVE  Kept
<1>. USE DEF Inv, Lookup, ringVars, lockVars
<1>1. /\ PcOK' /\ pc[w] = "lookup" /\ pc'[w] = "write_lock" /\ pc'[Main] = pc[Main]
      /\ \A u \in Readers \cup Writers : u # w => pc'[u] = pc[u]
      /\ \A r \in Readers : pc'[r] = pc[r]
  BY WriterGoes DEF WriterSteps
<1>2. TypeOK'
  BY <1>1 DEF TypeOK, PcOK, ThreadsOK, WriterOK
<1>3. ThreadsOK'
  BY <1>1, Apart DEF TypeOK, ThreadsOK, ReaderOK, WriterOK, MainOK
<1>4. EffFront' = EffFront /\ EffRear' = EffRear
  BY <1>1 DEF EffFront, EffRear
<1>. QED
  BY <1>1, <1>2, <1>3, <1>4, Quiet DEF Kept

LEMMA LockForWriteKeeps ==
  ASSUME Inv, NEW w \in Writers, LockForWrite(w)
  PROVE  Kept
<1>. USE DEF Inv, LockForWrite, ringVars, lockVars
<1>1. /\ PcOK' /\ pc[w] = "write_lock" /\ pc'[w] = "write" /\ pc'[Main] = pc[Main]
      /\ \A u \in Readers \cup Writers : u # w => pc'[u] = pc[u]
      /\ \A r \in Readers : pc'[r] = pc[r]
  BY WriterGoes DEF WriterSteps
<1>2. TypeOK'
  BY <1>1 DEF TypeOK, PcOK
<1>3. ThreadsOK'
  BY <1>1, Apart DEF TypeOK, ThreadsOK, ReaderOK, WriterOK, MainOK
<1>4. EffFront' = EffFront /\ EffRear' = EffRear
  BY <1>1 DEF EffFront, EffRear
<1>. QED
  BY <1>1, <1>2, <1>3, <1>4, Quiet DEF Kept

LEMMA WriteLineKeeps ==
  ASSUME Inv, NEW w \in Writers, WriteLine(w)
  PROVE  Kept
<1>. USE DEF Inv, WriteLine, ringVars, lockVars
<1>1. /\ PcOK' /\ pc[w] = "write" /\ pc'[w] = "while_front" /\ pc'[Main] = pc[Main]
      /\ \A u \in Readers \cup Writers : u # w => pc'[u] = pc[u]
      /\ \A r \in Readers : pc'[r] = pc[r]
  BY WriterGoes DEF WriterSteps
<1>2. TypeOK'
  BY <1>1 DEF TypeOK, PcOK, ThreadsOK, WriterOK, Line
<1>3. ThreadsOK'
  BY <1>1, Apart DEF TypeOK, ThreadsOK, ReaderOK, WriterOK, MainOK
<1>4. EffFront' = EffFront /\ EffRear' = EffRear
  BY <1>1 DEF EffFront, EffRear
<1>. QED
  BY <1>1, <1>2, <1>3, <1>4, Quiet DEF Kept

LEMMA WriterKeeps ==
  ASSUME Inv, NEW w \in Writers, Writer(w)
  PROVE  Kept
  BY WhileMoreKeeps, LockForPopKeeps, PopTakeKeeps, PopAdvanceKeeps, PopNothingKeeps,
     LookupKeeps, LockForWriteKeeps, WriteLineKeeps DEF Writer

-----------------------------------------------------------------------------
(* The main thread *)

LEMMA CreateReaderKeeps ==
  ASSUME Inv, NEW r \in Readers, CreateReader(r)
  PROVE  Kept
<1>. USE DEF Inv, CreateReader, ringVars, lockVars
<1>1. /\ PcOK' /\ pc[r] = "unborn" /\ pc'[r] = "scan"
      /\ pc[Main] = "create" /\ pc'[Main] = "inc_load"
      /\ \A u \in Readers \cup Writers : u # r => pc'[u] = pc[u]
      /\ \A w \in Writers : pc'[w] = pc[w]
  BY Apart DEF TypeOK, PcOK, ReaderSteps, MainSteps
<1>2. TypeOK'
  BY <1>1 DEF TypeOK, PcOK
<1>3. ThreadsOK'
  BY <1>1, Apart DEF ThreadsOK, ReaderOK, WriterOK, MainOK
<1>4. EffFront' = EffFront /\ EffRear' = EffRear
  BY <1>1 DEF EffFront, EffRear
<1>. QED
  BY <1>1, <1>2, <1>3, <1>4, Quiet DEF Kept

LEMMA CountReaderKeeps ==
  ASSUME Inv, CountReader
  PROVE  Kept
<1>. USE DEF Inv, CountReader, ringVars, lockVars
<1>1. PICK a \in {"inc_load", "inc_store"}, b \in {"inc_store", "create"} : Goto(Main, a, b)
  OBVIOUS
<1>2. /\ PcOK' /\ pc[Main] = a /\ pc'[Main] = b
      /\ \A u \in Readers \cup Writers : pc'[u] = pc[u]
  BY <1>1, MainGoes DEF MainSteps
<1>3. /\ reg' \in [Threads -> Int \cup {Free}]
      /\ \A u \in Readers \cup Writers : reg'[u] = reg[u]
      /\ b = "inc_store" => reg'[Main] \in Int
      /\ reader_count' \in Int
  BY <1>1, <1>2, Apart DEF TypeOK, ThreadsOK, MainOK, Load, Threads, Goto
<1>4. TypeOK'
  BY <1>2, <1>3 DEF TypeOK, PcOK, Threads
<1>5. ThreadsOK'
  BY <1>2, <1>3 DEF ThreadsOK, ReaderOK, WriterOK, MainOK
<1>6. EffFront' = EffFront /\ EffRear' = EffRear
  BY <1>2 DEF EffFront, EffRear
<1>. QED
  BY <1>2, <1>4, <1>5, <1>6, Quiet DEF Kept

\* The writers start outside the critical section, whatever the readers do.
LEMMA CreateWritersKeeps ==
  ASSUME Inv, CreateWriters
  PROVE  Kept
<1>. USE DEF Inv, CreateWriters, ringVars, lockVars
<1>1. /\ PcOK' /\ pc[Main] = "create" /\ pc'[Main] = "join"
      /\ \A w \in Writers : pc[w] = "unborn" /\ pc'[w] = "while_front"
      /\ \A r \in Readers : pc'[r] = pc[r]
  BY Apart DEF TypeOK, PcOK, ThreadsOK, MainOK, WriterSteps, MainSteps
<1>2. TypeOK'
  BY <1>1 DEF TypeOK, PcOK
<1>3. ThreadsOK'
  BY <1>1 DEF ThreadsOK, ReaderOK, WriterOK, MainOK
<1>4. EffFront' = EffFront /\ EffRear' = EffRear
  BY <1>1 DEF EffFront, EffRear
<1>. QED
  BY <1>1, <1>2, <1>3, <1>4, Quiet DEF Kept

\* The contents of an empty ring are the empty sequence.
LEMMA NoContents ==
  ASSUME NEW a, NEW f \in Slots, a[f] = NULL
  PROVE  Contents(a, f, f) = << >>
<1>1. Count(a, f, f) = 0
  BY CountIs
<1>. QED
  BY <1>1 DEF Contents

LEMMA JoinAllKeeps ==
  ASSUME Inv, JoinAll
  PROVE  Kept
<1>. USE DEF Inv, JoinAll, lockVars
<1>1. /\ PcOK' /\ pc[Main] = "join" /\ pc'[Main] = "exit"
      /\ \A u \in Readers \cup Writers : pc[u] = "done" /\ pc'[u] = "done"
  BY MainGoes DEF MainSteps
<1>2. /\ array' = [i \in Slots |-> NULL] /\ front' = rear /\ rear' = rear /\ rear \in Slots
  BY DEF DrainRing, TypeOK
<1>3. dropped' \subseteq Hostname
  BY DEF TypeOK
<1>4. TypeOK'
  BY <1>1, <1>2, <1>3 DEF TypeOK, PcOK
<1>5. ThreadsOK'
  BY <1>1 DEF ThreadsOK, ReaderOK, WriterOK, MainOK
<1>6. EffFront' = rear /\ EffRear' = rear
  BY <1>1, <1>2 DEF EffFront, EffRear
<1>7. RingShape'
  BY <1>2, <1>6 DEF RingShape, WellFormed
<1>8. Contents(array', EffFront', EffRear') = << >>
  BY <1>2, <1>6, NoContents
<1>9. HostnameFifo!Cleanup
  BY <1>1, <1>8 DEF HostnameFifo!Cleanup
<1>. QED
  BY <1>4, <1>5, <1>7, <1>9 DEF Kept, HostnameFifo!Next

-----------------------------------------------------------------------------

LEMMA Start == Init => Inv /\ HostnameFifo!Init
<1>. SUFFICES ASSUME Init PROVE Inv /\ HostnameFifo!Init
  OBVIOUS
<1>1. 0 \in Slots
  BY SizePositive DEF Slots
<1>2. /\ \A u \in Readers \cup Writers : pc[u] = "unborn"
      /\ pc[Main] = "create" /\ PcOK
  BY Apart DEF Init, PcOK, ReaderSteps, WriterSteps, MainSteps
<1>3. TypeOK
  BY <1>1, <1>2, ThreadAssumption DEF Init, queue_init, TypeOK, PcOK
<1>4. ThreadsOK
  BY <1>2 DEF ThreadsOK, ReaderOK, WriterOK, MainOK
<1>5. EffFront = 0 /\ EffRear = 0 /\ array = [i \in Slots |-> NULL]
  BY <1>2 DEF Init, queue_init, EffFront, EffRear
<1>6. RingShape
  BY <1>5 DEF RingShape, WellFormed
<1>7. Contents(array, EffFront, EffRear) = << >>
  BY <1>1, <1>5, NoContents
<1>. QED
  BY <1>2, <1>3, <1>4, <1>6, <1>7 DEF Inv, HostnameFifo!Init

LEMMA StepKeeps ==
  ASSUME Inv, [Next]_vars
  PROVE  Kept
<1>1. CASE \E r \in Readers : Reader(r)
  BY <1>1, ReaderKeeps
<1>2. CASE \E w \in Writers : Writer(w)
  BY <1>2, WriterKeeps
<1>3. CASE MainThread
  BY <1>3, CreateReaderKeeps, CountReaderKeeps, CreateWritersKeeps, JoinAllKeeps
     DEF MainThread
<1>4. CASE UNCHANGED vars
  <2>1. TypeOK' /\ ThreadsOK'
    BY <1>4 DEF vars, Inv, TypeOK, ThreadsOK, ReaderOK, WriterOK, MainOK
  <2>2. UNCHANGED ringVars /\ EffFront' = EffFront /\ EffRear' = EffRear /\ pc' = pc
    BY <1>4 DEF vars, ringVars, EffFront, EffRear
  <2>. QED
    BY <2>1, <2>2, Quiet DEF Inv, Kept
<1>. QED
  BY <1>1, <1>2, <1>3, <1>4 DEF Next, Terminated

LEMMA Invariance == Spec => []Inv
<1>1. Inv /\ [Next]_vars => Inv'
  BY StepKeeps DEF Kept
<1>. QED
  BY <1>1, Start, PTL DEF Spec

\* Indices of the queue stay inside the array, a thread only frees and pushes
\* hostnames, and only threads of the right kind hold each mutex.
THEOREM TypeCorrect == Spec => []TypeOK
<1>1. Inv => TypeOK
  BY DEF Inv
<1>. QED
  BY <1>1, Invariance, PTL

\* Whatever the threads do, the occupied slots of the ring are those from front
\* up to rear, one half-finished push or pop aside.
THEOREM ShapeKept == Spec => []RingShape
<1>1. Inv => RingShape
  BY DEF Inv
<1>. QED
  BY <1>1, Invariance, PTL

\* The threads inside queue_push or queue_pop.
InQueue == {r \in Readers : pc[r] \in {"push", "push_advance"}}
           \cup {w \in Writers : pc[w] \in {"pop", "pop_advance"}}

\* Qlock is a mutex: of all readers and writers, at most one is inside
\* queue_push or queue_pop.
THEOREM OneInQueue == Spec => [](\A t, u \in InQueue : t = u)
<1>1. Inv => \A t, u \in InQueue : t = u
  BY DEF Inv, ThreadsOK, ReaderOK, WriterOK, InQueue
<1>. QED
  BY <1>1, Invariance, PTL

\* Used by any number of threads, some of which poll it without the lock, the
\* ring of queue.c is a bounded first-in first-out queue until the cleanup.
THEOREM FifoRefinement == Spec => ImplementsFifo
<1>1. Inv /\ [Next]_vars => [HostnameFifo!Next]_(HostnameFifo!fifoVars)
  BY StepKeeps DEF Kept
<1>. QED
  BY <1>1, Start, Invariance, PTL DEF Spec, ImplementsFifo, HostnameFifo!Spec

-----------------------------------------------------------------------------
(* Every hostname has one owner *)

\* A thread has no hostname when it is about to get one, so that none is lost.
HandsFree ==
    /\ \A r \in Readers : pc[r] \in {"unborn", "scan", "push_advance"} => hostname[r] = Free
    /\ \A w \in Writers : pc[w] \in {"unborn", "while_front", "while_rear", "while_slot",
           "while_count", "wait_front", "wait_rear", "wait_slot", "pop_lock", "pop"}
         => hostname[w] = Free

\* What refers to h, and the ghost of a hostname that nothing refers to any more: a
\* scanned hostname is always in exactly one of these places.
Places(h) == Owners(h) \cup {<<"dropped", x>> : x \in dropped \cap {h}}

OnePlace ==
    \A h \in Hostname :
        IF h[2] <= scanned[h[1]] THEN \E o \in Places(h) : Places(h) = {o}
                                 ELSE Places(h) = {}

OwnInv == Inv /\ HandsFree /\ OnePlace

\* A step that leaves alone all that can refer to a hostname.
LEMMA NoMove ==
  ASSUME OnePlace, UNCHANGED <<array, hostname, outfile, dropped, scanned>>
  PROVE  OnePlace'
  BY DEF OnePlace, Places, Owners

\* A step that hands hostname x over from its owner o to p.
LEMMA HandOver ==
  ASSUME OnePlace, NEW x \in Hostname, NEW o \in Places(x), NEW p,
         Places(x)' = (Places(x) \ {o}) \cup {p},
         \A h \in Hostname : h # x => Places(h)' = Places(h),
         UNCHANGED scanned
  PROVE  OnePlace'
<1>1. Places(x) = {o} /\ x[2] <= scanned[x[1]]
  BY DEF OnePlace
<1>2. Places(x)' = {p}
  BY <1>1
<1>. QED
  BY <1>1, <1>2 DEF OnePlace

LEMMA PushStoreOwns ==
  ASSUME OwnInv, NEW r \in Readers, PushStore(r)
  PROVE  HandsFree' /\ OnePlace'
<1>. USE DEF OwnInv, Inv, PushStore
<1>1. /\ PcOK' /\ pc[r] = "push" /\ pc'[r] = "push_advance" /\ pc'[Main] = pc[Main]
      /\ \A u \in Readers \cup Writers : u # r => pc'[u] = pc[u]
      /\ \A w \in Writers : pc'[w] = pc[w]
  BY ReaderGoes DEF ReaderSteps
<1>2. /\ Qlock = r /\ hostname[r] \in Hostname
      /\ array' = [array EXCEPT ![rear] = hostname[r]]
      /\ hostname' = [hostname EXCEPT ![r] = Free]
  BY <1>1 DEF ThreadsOK, ReaderOK, StorePayload
<1>3. HandsFree'
  BY <1>1, <1>2, Apart DEF HandsFree, TypeOK
<1>4. EffFront = front /\ EffRear = rear
  BY <1>1, <1>2, EffIs
<1>5. array[rear] = NULL
  BY <1>4, SizePositive DEF RingShape, WellFormed, queue_is_full, TypeOK, InSpan, Slots
<1>p. PICK x \in Hostname : x = hostname[r]
  BY <1>2
<1>6. <<"thread", r>> \in Places(x)
  BY <1>p DEF Places, Owners
<1>7. Places(x)' = (Places(x) \ {<<"thread", r>>}) \cup {<<"slot", rear>>}
  BY <1>2, <1>5, <1>p, Apart DEF Places, Owners, TypeOK
<1>8. \A h \in Hostname : h # x => Places(h)' = Places(h)
  BY <1>2, <1>5, <1>p, Apart DEF Places, Owners, TypeOK
<1>. QED
  BY <1>2, <1>3, <1>6, <1>7, <1>8, HandOver

LEMMA PushFailsOwns ==
  ASSUME OwnInv, NEW r \in Readers, PushFails(r)
  PROVE  HandsFree' /\ OnePlace'
<1>. USE DEF OwnInv, Inv, PushFails
<1>1. /\ PcOK' /\ pc[r] = "push" /\ pc'[r] = "scan" /\ pc'[Main] = pc[Main]
      /\ \A u \in Readers \cup Writers : u # r => pc'[u] = pc[u]
      /\ \A w \in Writers : pc'[w] = pc[w]
  BY ReaderGoes DEF ReaderSteps
<1>2. hostname[r] \in Hostname /\ hostname' = [hostname EXCEPT ![r] = Free]
  BY <1>1 DEF ThreadsOK, ReaderOK
<1>3. HandsFree'
  BY <1>1, <1>2, Apart DEF HandsFree, TypeOK
<1>4. PICK x \in Hostname : x = hostname[r]
  BY <1>2
<1>5. <<"thread", r>> \in Places(x)
  BY <1>4 DEF Places, Owners
<1>6. Places(x)' = (Places(x) \ {<<"thread", r>>}) \cup {<<"dropped", x>>}
  BY <1>2, <1>4, Apart DEF Places, Owners, TypeOK, ringVars
<1>7. \A h \in Hostname : h # x => Places(h)' = Places(h)
  BY <1>2, <1>4, Apart DEF Places, Owners, TypeOK, ringVars
<1>. QED
  BY <1>3, <1>5, <1>6, <1>7, HandOver

\* A hostname is new when it is scanned: nothing refers to it yet.
LEMMA ScanOwns ==
  ASSUME OwnInv, NEW r \in Readers, Scan(r)
  PROVE  HandsFree' /\ OnePlace'
<1>. USE DEF OwnInv, Inv, Scan
<1>1. CASE /\ Goto(r, "scan", "full_front")
           /\ scanned[r] < PerFile
           /\ scanned' = [scanned EXCEPT ![r] = @ + 1]
           /\ hostname' = [hostname EXCEPT ![r] = <<r, scanned[r] + 1>>]
  <2>1. /\ pc[r] = "scan" /\ pc'[r] = "full_front"
        /\ \A u \in Readers \cup Writers : u # r => pc'[u] = pc[u]
    BY <1>1, ReaderGoes DEF ReaderSteps
  <2>2. HandsFree'
    BY <1>1, <2>1, Apart DEF HandsFree, TypeOK
  <2>3. scanned[r] + 1 \in 1 .. PerFile /\ scanned[r] \in Nat
    BY <1>1, ThreadAssumption DEF TypeOK
  <2>4. PICK x \in Hostname : x = <<r, scanned[r] + 1>>
    BY <2>3 DEF Hostname
  <2>5. x[1] = r /\ x[2] = scanned[r] + 1
    BY <2>4
  <2>6. Places(x) = {}
    BY <2>3, <2>5 DEF OnePlace
  <2>7. hostname[r] = Free
    BY <2>1 DEF HandsFree
  <2>8. Places(x)' = Places(x) \cup {<<"thread", r>>}
    BY <1>1, <2>4, <2>7, Apart DEF Places, Owners, TypeOK, ringVars
  <2>9. \A h \in Hostname : h # x => Places(h)' = Places(h)
    BY <1>1, <2>4, <2>7, Apart DEF Places, Owners, TypeOK, ringVars
  <2>10. x[2] <= scanned'[x[1]]
    BY <1>1, <2>3, <2>5 DEF TypeOK
  <2>11. ASSUME NEW h \in Hostname, h # x
         PROVE  h[2] <= scanned'[h[1]] <=> h[2] <= scanned[h[1]]
    <3>1. h[1] \in Readers /\ h[2] \in 1 .. PerFile /\ h = <<h[1], h[2]>>
      BY DEF Hostname
    <3>2. CASE h[1] # r
      BY <1>1, <3>1, <3>2 DEF TypeOK
    <3>3. CASE h[1] = r
      <4>1. h[2] # scanned[r] + 1
        BY <2>4, <2>11, <3>1, <3>3
      <4>2. scanned'[r] = scanned[r] + 1
        BY <1>1 DEF TypeOK
      <4>3. h[2] \in Int
        BY <3>1, ThreadAssumption
      <4>. QED
        BY <2>3, <3>3, <4>1, <4>2, <4>3
    <3>. QED
      BY <3>2, <3>3
  <2>12. ASSUME NEW h \in Hostname
         PROVE  IF h[2] <= scanned'[h[1]] THEN \E o \in Places(h)' : Places(h)' = {o}
                                          ELSE Places(h)' = {}
    <3>1. CASE h = x
      BY <2>6, <2>8, <2>10, <3>1
    <3>2. CASE h # x
      BY <2>9, <2>11, <3>2 DEF OnePlace
    <3>. QED
      BY <3>1, <3>2
  <2>13. OnePlace'
    BY <2>12 DEF OnePlace
  <2>. QED
    BY <2>2, <2>13
<1>2. CASE Goto(r, "scan", "dec_lock") /\ UNCHANGED <<scanned, hostname>>
  <2>1. /\ pc[r] = "scan" /\ pc'[r] = "dec_lock"
        /\ \A u \in Readers \cup Writers : u # r => pc'[u] = pc[u]
    BY <1>2, ReaderGoes DEF ReaderSteps
  <2>2. HandsFree'
    BY <1>2, <2>1, Apart DEF HandsFree
  <2>. QED
    BY <1>2, <2>2, NoMove DEF ringVars
<1>. QED
  BY <1>1, <1>2

\* The other steps of a reader.
LEMMA ReaderOwns ==
  ASSUME OwnInv, NEW r \in Readers, Reader(r)
  PROVE  HandsFree' /\ OnePlace'
<1>. DEFINE Lets == {"full_front", "full_rear", "full_slot", "push_lock", "push",
                     "dec_lock", "dec_load", "dec_store", "done"}
<1>1. ASSUME NEW a \in Lets, NEW b \in Lets, Goto(r, a, b),
             UNCHANGED <<array, hostname, outfile, dropped, scanned>>
      PROVE  HandsFree' /\ OnePlace'
  <2>1. /\ pc'[r] = b /\ \A u \in Readers \cup Writers : u # r => pc'[u] = pc[u]
    BY <1>1, ReaderGoes DEF ReaderSteps, OwnInv, Inv
  <2>2. HandsFree'
    BY <1>1, <2>1, Apart DEF HandsFree, OwnInv
  <2>. QED
    BY <1>1, <2>2, NoMove DEF OwnInv
<1>2. CASE PollFull(r)
  BY <1>1, <1>2 DEF PollFull, ringVars
<1>3. CASE LockForPush(r)
  BY <1>1, <1>3 DEF LockForPush, ringVars
<1>4. CASE PushAdvance(r)
  <2>1. /\ pc[r] = "push_advance" /\ pc'[r] = "scan"
        /\ \A u \in Readers \cup Writers : u # r => pc'[u] = pc[u]
    BY <1>4, ReaderGoes DEF ReaderSteps, OwnInv, Inv, PushAdvance
  <2>2. HandsFree'
    BY <1>4, <2>1, Apart DEF HandsFree, OwnInv, PushAdvance
  <2>. QED
    BY <1>4, <2>2, NoMove DEF OwnInv, PushAdvance
<1>5. CASE LeaveCount(r)
  BY <1>1, <1>5 DEF LeaveCount, ringVars
<1>. QED
  BY <1>2, <1>3, <1>4, <1>5, ScanOwns, PushStoreOwns, PushFailsOwns DEF Reader

LEMMA PopTakeOwns ==
  ASSUME OwnInv, NEW w \in Writers, PopTake(w)
  PROVE  HandsFree' /\ OnePlace'
<1>. USE DEF OwnInv, Inv, PopTake
<1>1. /\ PcOK' /\ pc[w] = "pop" /\ pc'[w] = "pop_advance" /\ pc'[Main] = pc[Main]
      /\ \A u \in Readers \cup Writers : u # w => pc'[u] = pc[u]
      /\ \A r \in Readers : pc'[r] = pc[r]
  BY WriterGoes DEF WriterSteps
<1>2. /\ array' = [array EXCEPT ![front] = NULL] /\ front \in Slots
      /\ hostname' = [hostname EXCEPT ![w] = array[front]] /\ hostname[w] = Free
  BY <1>1 DEF ClearFront, TypeOK, HandsFree
<1>3. array[front] \in Hostname
  <2>1. Qlock = w
    BY <1>1 DEF ThreadsOK, WriterOK
  <2>2. EffFront = front /\ EffRear = rear
    BY <1>1, <2>1, EffIs
  <2>3. array[front] # NULL
    BY <2>2, SizePositive DEF RingShape, WellFormed, queue_is_empty, TypeOK, InSpan, Slots
  <2>. QED
    BY <1>2, <2>3 DEF TypeOK
<1>4. HandsFree'
  BY <1>1, <1>2, Apart DEF HandsFree, TypeOK
<1>5. PICK x \in Hostname : x = array[front]
  BY <1>3
<1>6. <<"slot", front>> \in Places(x)
  BY <1>2, <1>5 DEF Places, Owners
<1>7. Places(x)' = (Places(x) \ {<<"slot", front>>}) \cup {<<"thread", w>>}
  BY <1>2, <1>5, Apart DEF Places, Owners, TypeOK
<1>8. \A h \in Hostname : h # x => Places(h)' = Places(h)
  BY <1>2, <1>5, Apart DEF Places, Owners, TypeOK
<1>. QED
  BY <1>4, <1>6, <1>7, <1>8, HandOver

LEMMA PopNothingOwns ==
  ASSUME OwnInv, NEW w \in Writers, PopNothing(w)
  PROVE  HandsFree' /\ OnePlace'
<1>. USE DEF OwnInv, Inv, PopNothing
<1>1. /\ PcOK' /\ pc[w] = "pop" /\ pc'[w] = "lookup" /\ pc'[Main] = pc[Main]
      /\ \A u \in Readers \cup Writers : u # w => pc'[u] = pc[u]
      /\ \A r \in Readers : pc'[r] = pc[r]
  BY WriterGoes DEF WriterSteps
<1>2. hostname' = [hostname EXCEPT ![w] = NULL] /\ hostname[w] = Free
  BY <1>1 DEF HandsFree
<1>3. HandsFree'
  BY <1>1, <1>2, Apart DEF HandsFree, TypeOK
<1>4. \A h \in Hostname : Places(h)' = Places(h)
  BY <1>2, Apart DEF Places, Owners, TypeOK, ringVars
<1>. QED
  BY <1>3, <1>4 DEF OnePlace

LEMMA WriteLineOwns ==
  ASSUME OwnInv, NEW w \in Writers, WriteLine(w)
  PROVE  HandsFree' /\ OnePlace'
<1>. USE DEF OwnInv, Inv, WriteLine
<1>1. /\ PcOK' /\ pc[w] = "write" /\ pc'[w] = "while_front" /\ pc'[Main] = pc[Main]
      /\ \A u \in Readers \cup Writers : u # w => pc'[u] = pc[u]
      /\ \A r \in Readers : pc'[r] = pc[r]
  BY WriterGoes DEF WriterSteps
<1>2. hostname' = [hostname EXCEPT ![w] = Free] /\ hostname[w] # Free
  BY <1>1 DEF ThreadsOK, WriterOK
<1>3. HandsFree'
  BY <1>1, <1>2, Apart DEF HandsFree, TypeOK
<1>l. PICK l : l = [by |-> w, n |-> counter[w] + 1, host |-> hostname[w], ip |-> firstipstr[w]]
  OBVIOUS
<1>4. outfile' = outfile \cup {l} /\ l.host = hostname[w]
  BY <1>l
<1>5. CASE hostname[w] = NULL
  <2>1. \A h \in Hostname : Places(h)' = Places(h)
    BY <1>2, <1>4, <1>5, Apart DEF Places, Owners, TypeOK, ringVars
  <2>. QED
    BY <1>3, <2>1 DEF OnePlace
<1>6. CASE hostname[w] \in Hostname
  <2>1. PICK x \in Hostname : x = hostname[w]
    BY <1>6
  <2>2. <<"thread", w>> \in Places(x)
    BY <2>1 DEF Places, Owners
  <2>3. Places(x)' = (Places(x) \ {<<"thread", w>>}) \cup {<<"line", l>>}
    BY <1>2, <1>4, <2>1, Apart DEF Places, Owners, TypeOK, ringVars
  <2>4. \A h \in Hostname : h # x => Places(h)' = Places(h)
    BY <1>2, <1>4, <2>1, Apart DEF Places, Owners, TypeOK, ringVars
  <2>. QED
    BY <1>3, <2>2, <2>3, <2>4, HandOver
<1>. QED
  BY <1>2, <1>5, <1>6 DEF TypeOK

\* The other steps of a writer.
LEMMA WriterOwns ==
  ASSUME OwnInv, NEW w \in Writers, Writer(w)
  PROVE  HandsFree' /\ OnePlace'
<1>. DEFINE Before == {"while_front", "while_rear", "while_slot", "while_count",
                       "wait_front", "wait_rear", "wait_slot", "pop_lock"}
            After == {"pop_advance", "lookup", "write_lock", "write"}
<1>1. ASSUME NEW a \in WriterSteps, NEW b \in WriterSteps, Goto(w, a, b),
             a \in Before \/ b \in After,
             UNCHANGED <<array, hostname, outfile, dropped, scanned>>
      PROVE  HandsFree' /\ OnePlace'
  <2>1. /\ pc[w] = a /\ pc'[w] = b /\ \A u \in Readers \cup Writers : u # w => pc'[u] = pc[u]
    BY <1>1, WriterGoes DEF OwnInv, Inv
  <2>2. HandsFree'
    BY <1>1, <2>1, Apart DEF HandsFree, OwnInv
  <2>. QED
    BY <1>1, <2>2, NoMove DEF OwnInv
<1>2. CASE WhileMore(w)
  BY <1>1, <1>2 DEF WhileMore, PollEmpty, ringVars, WriterSteps
<1>3. CASE LockForPop(w)
  BY <1>1, <1>3 DEF LockForPop, ringVars, WriterSteps
<1>4. CASE PopAdvance(w)
  BY <1>1, <1>4 DEF PopAdvance, WriterSteps
<1>5. CASE Lookup(w)
  BY <1>1, <1>5 DEF Lookup, ringVars, WriterSteps
<1>6. CASE LockForWrite(w)
  BY <1>1, <1>6 DEF LockForWrite, ringVars, WriterSteps
<1>. QED
  BY <1>2, <1>3, <1>4, <1>5, <1>6, PopTakeOwns, PopNothingOwns, WriteLineOwns DEF Writer

LEMMA JoinAllOwns ==
  ASSUME OwnInv, JoinAll
  PROVE  HandsFree' /\ OnePlace'
<1>. USE DEF OwnInv, Inv, JoinAll
<1>1. \A u \in Readers \cup Writers : pc[u] = "done" /\ pc'[u] = "done"
  BY MainGoes DEF MainSteps
<1>2. HandsFree'
  BY <1>1 DEF HandsFree
<1>3. /\ array' = [i \in Slots |-> NULL]
      /\ dropped' = dropped \cup {array[i] : i \in {j \in Slots : array[j] # NULL}}
  BY DEF DrainRing
<1>4. ASSUME NEW x \in Hostname, NEW i \in Slots, array[i] = x
      PROVE  /\ \E o \in Places(x)' : Places(x)' = {o}
             /\ x[2] <= scanned[x[1]]
  <2>1. <<"slot", i>> \in Places(x)
    BY <1>4 DEF Places, Owners
  <2>2. Places(x) = {<<"slot", i>>} /\ x[2] <= scanned[x[1]]
    BY <2>1 DEF OnePlace
  <2>3. x \in dropped'
    BY <1>3, <1>4, Apart
  <2>4. Places(x)' = {o \in Places(x) : o[1] \in {"thread", "line"}} \cup {<<"dropped", x>>}
    BY <1>3, <2>3, Apart DEF Places, Owners
  <2>5. Places(x)' = {<<"dropped", x>>}
    BY <2>2, <2>4
  <2>. QED
    BY <2>2, <2>5
<1>5. ASSUME NEW x \in Hostname, \A i \in Slots : array[i] # x
      PROVE  Places(x)' = Places(x)
  BY <1>3, <1>5, Apart DEF Places, Owners
<1>6. OnePlace'
  <2>. SUFFICES ASSUME NEW h \in Hostname
                PROVE  IF h[2] <= scanned[h[1]] THEN \E o \in Places(h)' : Places(h)' = {o}
                                                ELSE Places(h)' = {}
    BY DEF OnePlace
  <2>. QED
    BY <1>4, <1>5 DEF OnePlace
<1>. QED
  BY <1>2, <1>6

LEMMA StepOwns ==
  ASSUME OwnInv, [Next]_vars
  PROVE  OwnInv'
<1>1. Inv'
  BY StepKeeps DEF OwnInv, Kept
<1>2. CASE \E r \in Readers : Reader(r)
  BY <1>1, <1>2, ReaderOwns DEF OwnInv
<1>3. CASE \E w \in Writers : Writer(w)
  BY <1>1, <1>3, WriterOwns DEF OwnInv
<1>4. ASSUME NEW r \in Readers, CreateReader(r) PROVE HandsFree' /\ OnePlace'
  <2>1. HandsFree'
    BY <1>4, Apart DEF CreateReader, HandsFree, OwnInv, Inv, TypeOK
  <2>. QED
    BY <1>4, <2>1, NoMove DEF CreateReader, OwnInv, ringVars
<1>5. CASE CountReader
  <2>1. \A u \in Readers \cup Writers : pc'[u] = pc[u]
    BY <1>5, Apart DEF CountReader, Goto, OwnInv, Inv, TypeOK
  <2>2. HandsFree'
    BY <1>5, <2>1 DEF CountReader, HandsFree, OwnInv
  <2>. QED
    BY <1>1, <1>5, <2>2, NoMove DEF CountReader, OwnInv, ringVars
<1>6. CASE CreateWriters
  <2>1. /\ \A w \in Writers : pc[w] = "unborn"
        /\ \A r \in Readers : pc'[r] = pc[r]
    BY <1>6, Apart DEF CreateWriters, OwnInv, Inv, TypeOK, ThreadsOK, MainOK
  <2>2. HandsFree'
    BY <1>6, <2>1 DEF CreateWriters, HandsFree, OwnInv
  <2>. QED
    BY <1>1, <1>6, <2>2, NoMove DEF CreateWriters, OwnInv, ringVars
<1>7. CASE UNCHANGED vars
  <2>1. HandsFree'
    BY <1>7 DEF vars, HandsFree, OwnInv
  <2>. QED
    BY <1>1, <1>7, <2>1, NoMove DEF vars, OwnInv
<1>. QED
  BY <1>1, <1>2, <1>3, <1>4, <1>5, <1>6, <1>7, JoinAllOwns DEF Next, MainThread, Terminated, OwnInv

LEMMA OwnersKept == Spec => []OwnInv
<1>1. Init => OwnInv
  <2>. SUFFICES ASSUME Init PROVE OwnInv
    OBVIOUS
  <2>1. HandsFree
    BY DEF Init, HandsFree
  <2>2. ASSUME NEW h \in Hostname PROVE Places(h) = {} /\ ~(h[2] <= scanned[h[1]])
    <3>1. Places(h) = {}
      BY Apart DEF Init, queue_init, Places, Owners
    <3>2. h[1] \in Readers /\ h[2] \in 1 .. PerFile
      BY DEF Hostname
    <3>. QED
      BY <3>1, <3>2, ThreadAssumption DEF Init
  <2>. QED
    BY <2>1, <2>2, Start DEF OwnInv, OnePlace
<1>2. OwnInv /\ [Next]_vars => OwnInv'
  BY StepOwns
<1>. QED
  BY <1>1, <1>2, PTL DEF Spec

\* For any number of threads no hostname has two owners, so that it is not looked up
\* or written twice, and never used after it was freed; one that was not dropped, by a
\* push on a full queue or at cleanup, has exactly one, and one that was has none.
THEOREM NoHostnameHasTwoOwners == Spec => []OneOwnerUnlessDropped
<1>1. ASSUME OwnInv PROVE OneOwnerUnlessDropped
  <2>. SUFFICES ASSUME NEW h \in Hostname
                PROVE  IF h[2] <= scanned[h[1]] /\ h \notin dropped
                       THEN \E o \in Owners(h) : Owners(h) = {o}
                       ELSE Owners(h) = {}
    BY DEF OneOwnerUnlessDropped
  <2>1. CASE h \in dropped
    <3>1. <<"dropped", h>> \in Places(h)
      BY <2>1 DEF Places
    <3>2. Places(h) = {<<"dropped", h>>}
      BY <1>1, <3>1 DEF OwnInv, OnePlace
    <3>3. <<"dropped", h>> \notin Owners(h)
      BY DEF Owners
    <3>. QED
      BY <2>1, <3>2, <3>3 DEF Places
  <2>2. CASE h \notin dropped
    <3>1. Places(h) = Owners(h)
      BY <2>2 DEF Places
    <3>. QED
      BY <1>1, <2>2, <3>1 DEF OwnInv, OnePlace
  <2>. QED
    BY <2>1, <2>2
<1>. QED
  BY <1>1, OwnersKept, PTL

-----------------------------------------------------------------------------
(* Whose address a line shows *)

\* What a writer's buffer holds: nothing, the address of the hostname whose line it
\* is about to write, or that of a hostname whose line it has written.
BufferOK(w) ==
    \/ firstipstr[w] = Garbage
    \/ pc[w] \in {"write_lock", "write"} /\ hostname[w] = firstipstr[w]
    \/ \E l \in outfile : l.by = w /\ l.host = firstipstr[w]

AddressInv ==
    /\ Inv /\ AddressesStayWithWriter
    /\ \A w \in Writers : BufferOK(w)
    /\ \A l \in outfile : l.n <= counter[l.by]

\* A step that neither looks up nor writes.
LEMMA BuffersStay ==
  ASSUME AddressInv, UNCHANGED <<outfile, firstipstr>>,
         \A w \in Writers : /\ counter'[w] = counter[w]
                            /\ pc[w] \in {"write_lock", "write"} =>
                                  pc'[w] \in {"write_lock", "write"} /\ hostname'[w] = hostname[w]
  PROVE  AddressesStayWithWriter' /\ (\A w \in Writers : BufferOK(w))'
         /\ (\A l \in outfile : l.n <= counter[l.by])'
<1>1. AddressesStayWithWriter'
  BY DEF AddressInv, AddressesStayWithWriter
<1>2. ASSUME NEW w \in Writers PROVE BufferOK(w)'
  BY DEF AddressInv, BufferOK
<1>3. ASSUME NEW l \in outfile PROVE l.n <= counter'[l.by]
  <2>1. l.by \in Writers
    BY DEF AddressInv, Inv, TypeOK, Line
  <2>. QED
    BY <2>1 DEF AddressInv
<1>. QED
  BY <1>1, <1>2, <1>3

LEMMA LookupAddresses ==
  ASSUME AddressInv, NEW w \in Writers, Lookup(w)
  PROVE  AddressesStayWithWriter' /\ (\A v \in Writers : BufferOK(v))'
         /\ (\A l \in outfile : l.n <= counter[l.by])'
<1>. USE DEF Lookup
<1>1. /\ pc'[w] = "write_lock" /\ pc[w] = "lookup"
      /\ \A u \in Readers \cup Writers : u # w => pc'[u] = pc[u]
  BY WriterGoes DEF AddressInv, Inv, WriterSteps
<1>2. ASSUME NEW v \in Writers PROVE BufferOK(v)'
  <2>1. CASE v # w
    <3>1. firstipstr'[v] = firstipstr[v] /\ pc'[v] = pc[v]
      BY <1>1, <2>1 DEF AddressInv, Inv, TypeOK
    <3>. QED
      BY <3>1 DEF AddressInv, BufferOK
  <2>2. CASE v = w /\ firstipstr' = [firstipstr EXCEPT ![w] = hostname[w]]
    BY <1>1, <2>2 DEF AddressInv, Inv, TypeOK, BufferOK
  <2>3. CASE v = w /\ UNCHANGED firstipstr
    BY <1>1, <2>3 DEF AddressInv, BufferOK
  <2>. QED
    BY <2>1, <2>2, <2>3
<1>. QED
  BY <1>2 DEF AddressInv, AddressesStayWithWriter

LEMMA WriteLineAddresses ==
  ASSUME AddressInv, NEW w \in Writers, WriteLine(w)
  PROVE  AddressesStayWithWriter' /\ (\A v \in Writers : BufferOK(v))'
         /\ (\A l \in outfile : l.n <= counter[l.by])'
<1>. USE DEF WriteLine
<1>1. /\ pc'[w] = "while_front" /\ pc[w] = "write"
      /\ \A u \in Readers \cup Writers : u # w => pc'[u] = pc[u]
  BY WriterGoes DEF AddressInv, Inv, WriterSteps
<1>2. PICK k : k = [by |-> w, n |-> counter[w] + 1, host |-> hostname[w], ip |-> firstipstr[w]]
  OBVIOUS
<1>3. outfile' = outfile \cup {k} /\ k.by = w /\ k.n = counter[w] + 1 /\ k.host = hostname[w]
      /\ k.ip = firstipstr[w]
  BY <1>2
<1>4. /\ \A v \in Writers : v # w => hostname'[v] = hostname[v]
      /\ counter'[w] = counter[w] + 1 /\ \A v \in Writers : v # w => counter'[v] = counter[v]
      /\ \A v \in Writers : counter[v] \in Nat
  BY DEF AddressInv, Inv, TypeOK
<1>5. AddressesStayWithWriter'
  <2>1. \/ k.ip \in {Garbage, k.host}
        \/ \E e \in outfile : e.by = k.by /\ e.n < k.n /\ e.host = k.ip
    <3>1. CASE firstipstr[w] = Garbage \/ hostname[w] = firstipstr[w]
      BY <1>3, <3>1
    <3>2. ASSUME NEW e \in outfile, e.by = w, e.host = firstipstr[w]
          PROVE  e.n < k.n
      <4>1. e.n <= counter[w] /\ e.n \in Nat
        BY <3>2 DEF AddressInv, Inv, TypeOK, Line
      <4>. QED
        BY <1>3, <1>4, <4>1
    <3>. QED
      BY <1>3, <3>1, <3>2 DEF AddressInv, BufferOK
  <2>. QED
    BY <1>3, <2>1 DEF AddressInv, AddressesStayWithWriter
<1>6. ASSUME NEW v \in Writers PROVE BufferOK(v)'
  <2>1. CASE v # w
    BY <1>1, <1>3, <1>4, <2>1 DEF AddressInv, BufferOK
  <2>2. CASE v = w
    BY <1>3, <2>2 DEF AddressInv, BufferOK
  <2>. QED
    BY <2>1, <2>2
<1>7. ASSUME NEW l \in outfile' PROVE l.n <= counter'[l.by]
  <2>1. CASE l = k
    BY <1>3, <1>4, <2>1
  <2>2. CASE l \in outfile
    <3>1. l.by \in Writers /\ l.n \in Nat /\ l.n <= counter[l.by]
      BY <2>2 DEF AddressInv, Inv, TypeOK, Line
    <3>. QED
      BY <1>4, <3>1
  <2>. QED
    BY <1>3, <2>1, <2>2
<1>. QED
  BY <1>5, <1>6, <1>7

\* The other steps of a writer.
LEMMA WriterAddresses ==
  ASSUME AddressInv, NEW w \in Writers, Writer(w)
  PROVE  AddressesStayWithWriter' /\ (\A v \in Writers : BufferOK(v))'
         /\ (\A l \in outfile : l.n <= counter[l.by])'
<1>1. ASSUME NEW a \in WriterSteps, NEW b \in WriterSteps, Goto(w, a, b),
             UNCHANGED <<outfile, firstipstr, counter>>,
             \/ a \notin {"write_lock", "write"}
             \/ b \in {"write_lock", "write"} /\ UNCHANGED hostname,
             \A v \in Writers : v # w => hostname'[v] = hostname[v]
      PROVE  AddressesStayWithWriter' /\ (\A v \in Writers : BufferOK(v))'
             /\ (\A l \in outfile : l.n <= counter[l.by])'
  <2>1. /\ pc[w] = a /\ pc'[w] = b /\ \A u \in Readers \cup Writers : u # w => pc'[u] = pc[u]
    BY <1>1, WriterGoes DEF AddressInv, Inv
  <2>. QED
    BY <1>1, <2>1, BuffersStay
<1>2. CASE WhileMore(w)
  BY <1>1, <1>2 DEF WhileMore, PollEmpty, ringVars, WriterSteps
<1>3. CASE LockForPop(w)
  BY <1>1, <1>3 DEF LockForPop, ringVars, WriterSteps
<1>4. CASE PopTake(w)
  BY <1>1, <1>4 DEF PopTake, WriterSteps, AddressInv, Inv, TypeOK
<1>5. CASE PopAdvance(w)
  BY <1>1, <1>5 DEF PopAdvance, WriterSteps
<1>6. CASE PopNothing(w)
  BY <1>1, <1>6 DEF PopNothing, WriterSteps, AddressInv, Inv, TypeOK
<1>7. CASE LockForWrite(w)
  BY <1>1, <1>7 DEF LockForWrite, ringVars, WriterSteps
<1>. QED
  BY <1>2, <1>3, <1>4, <1>5, <1>6, <1>7, LookupAddresses, WriteLineAddresses DEF Writer

\* The steps of a reader touch its own hostname and counter.
LEMMA ReaderAddresses ==
  ASSUME AddressInv, NEW r \in Readers, Reader(r)
  PROVE  AddressesStayWithWriter' /\ (\A v \in Writers : BufferOK(v))'
         /\ (\A l \in outfile : l.n <= counter[l.by])'
<1>1. UNCHANGED <<outfile, firstipstr>>
  BY DEF Reader, Scan, PollFull, LockForPush, PushStore, PushAdvance, PushFails, LeaveCount
<1>2. \A w \in Writers : pc'[w] = pc[w]
  BY Apart DEF AddressInv, Inv, TypeOK, Goto, Reader, Scan, PollFull, LockForPush, PushStore,
               PushAdvance, PushFails, LeaveCount
<1>3. \A w \in Writers : hostname'[w] = hostname[w] /\ counter'[w] = counter[w]
  BY Apart DEF AddressInv, Inv, TypeOK, Reader, Scan, PollFull, LockForPush, PushStore,
               PushAdvance, PushFails, LeaveCount
<1>. QED
  BY <1>1, <1>2, <1>3, BuffersStay

LEMMA StepAddresses ==
  ASSUME AddressInv, [Next]_vars
  PROVE  AddressInv'
<1>1. Inv'
  BY StepKeeps DEF AddressInv, Kept
<1>2. CASE \E r \in Readers : Reader(r)
  BY <1>1, <1>2, ReaderAddresses DEF AddressInv
<1>3. CASE \E w \in Writers : Writer(w)
  BY <1>1, <1>3, WriterAddresses DEF AddressInv
<1>4. CASE MainThread
  <2>1. UNCHANGED <<outfile, firstipstr, hostname, counter>>
    BY <1>4 DEF MainThread, CreateReader, CountReader, CreateWriters, JoinAll
  <2>2. \A w \in Writers : pc[w] \in {"write_lock", "write"} => pc'[w] = pc[w]
    <3>1. ASSUME NEW r \in Readers, CreateReader(r) PROVE \A w \in Writers : pc'[w] = pc[w]
      BY <3>1, Apart DEF CreateReader, AddressInv, Inv, TypeOK
    <3>2. CASE CountReader
      BY <3>2, Apart DEF CountReader, Goto, AddressInv, Inv, TypeOK
    <3>3. CASE CreateWriters
      BY <3>3, Apart DEF CreateWriters, AddressInv, Inv, TypeOK, ThreadsOK, MainOK
    <3>4. CASE JoinAll
      BY <3>4, Apart DEF JoinAll, Goto, AddressInv, Inv, TypeOK
    <3>. QED
      BY <1>4, <3>1, <3>2, <3>3, <3>4 DEF MainThread
  <2>. QED
    BY <1>1, <2>1, <2>2, BuffersStay DEF AddressInv
<1>5. CASE UNCHANGED vars
  BY <1>1, <1>5, BuffersStay DEF vars, AddressInv
<1>. QED
  BY <1>2, <1>3, <1>4, <1>5 DEF Next, Terminated

LEMMA AddressesKept == Spec => []AddressInv
<1>1. Init => AddressInv
  BY Start DEF Init, AddressInv, AddressesStayWithWriter, BufferOK
<1>2. AddressInv /\ [Next]_vars => AddressInv'
  BY StepAddresses
<1>. QED
  BY <1>1, <1>2, PTL DEF Spec

\* A line never shows an address another writer has looked up, nor one whose own
\* line its writer has not written before, for any number of threads.
THEOREM AddressesAreOwn == Spec => []AddressesStayWithWriter
<1>1. AddressInv => AddressesStayWithWriter
  BY DEF AddressInv
<1>. QED
  BY <1>1, AddressesKept, PTL

-----------------------------------------------------------------------------
(* A single reader *)

HasRoom == \E i \in Slots : array[i] = NULL

\* The only reader has found room in the queue before it takes Qlock, and nobody else
\* takes it away: at full_rear it has loaded a front that is rear, or there is room.
RoomOK(r) ==
    /\ pc[r] = "full_rear" => reg[r] = rear \/ HasRoom
    /\ pc[r] \in {"push_lock", "push"} => HasRoom
    /\ \A w \in Writers : pc[w] = "pop_advance" => array[front] = NULL
    /\ pc[Main] # "exit" => dropped = {}

\* Main has counted the only reader.
Counted(r) == pc[Main] \in {"join", "exit"} \/ (pc[Main] = "create" /\ pc[r] # "unborn")

\* Until the reader is done reader_count is what main has made of it; so no writer
\* finds it zero.
CountOK(r) ==
    /\ pc[r] # "done" => reader_count = IF Counted(r) THEN 1 ELSE 0
    /\ pc[r] # "done" /\ pc[Main] = "inc_store" => reg[Main] = 0
    /\ pc[Main] # "create" => pc[r] # "unborn"
    /\ \A w \in Writers : pc[w] = "done" => pc[r] = "done"

SoleInv(r) == Inv /\ Readers = {r} /\ RoomOK(r) /\ CountOK(r)

\* Whenever front and rear differ there is room, also half-way through a pop.
LEMMA DifferMeansRoom ==
  ASSUME NEW r, SoleInv(r), pc[r] # "push_advance", front # rear
  PROVE  HasRoom
<1>1. /\ EffRear = rear /\ front \in Slots /\ rear \in Slots
      /\ WellFormed(array, EffFront, rear)
  BY DEF SoleInv, Inv, RingShape, TypeOK, EffRear
<1>2. CASE EffFront = rear
  <2>1. PICK w \in Writers : pc[w] = "pop_advance"
    BY <1>2 DEF EffFront
  <2>. QED
    BY <1>1, <2>1 DEF SoleInv, RoomOK, HasRoom
<1>3. CASE EffFront # rear
  <2>1. EffFront \in Slots
    BY <1>1, SuccIs DEF EffFront
  <2>2. ~InSpan(EffFront, rear, rear)
    BY <1>1, <1>3, <2>1, SizePositive DEF InSpan, Slots
  <2>3. array[rear] = NULL
    BY <1>1, <1>3, <2>2 DEF WellFormed
  <2>. QED
    BY <1>1, <2>3 DEF HasRoom
<1>. QED
  BY <1>2, <1>3

\* Under Qlock a full queue has no room.
LEMMA FullMeansNoRoom ==
  ASSUME Inv, NEW r \in Readers, pc[r] = "push", queue_is_full
  PROVE  ~HasRoom
<1>1. EffFront = front /\ EffRear = rear
  BY EffIs DEF Inv, ThreadsOK, ReaderOK
<1>. QED
  BY <1>1 DEF Inv, TypeOK, RingShape, WellFormed, queue_is_full, HasRoom

LEMMA SoleReaderStep ==
  ASSUME NEW r, SoleInv(r), Inv', Reader(r)
  PROVE  RoomOK(r)' /\ CountOK(r)'
<1>1. /\ TypeOK /\ r \in Readers /\ r \in Readers \cup Writers
      /\ RoomOK(r) /\ CountOK(r)
  BY DEF SoleInv, Inv
<1>2. ASSUME NEW a, NEW b \in ReaderSteps, Goto(r, a, b)
      PROVE  /\ pc[r] = a /\ pc'[r] = b /\ pc'[Main] = pc[Main]
             /\ \A w \in Writers : pc'[w] = pc[w]
  BY <1>1, <1>2, ReaderGoes
<1>3. ASSUME NEW a \in ReaderSteps \ {"unborn", "done"}, NEW b \in ReaderSteps \ {"unborn"}, Goto(r, a, b),
             b # "done" => UNCHANGED reader_count, UNCHANGED front,
             reg'[Main] = reg[Main], dropped' = dropped
      PROVE  /\ CountOK(r)'
             /\ pc[Main] # "exit" => dropped' = {}
  <2>1. /\ pc[r] = a /\ pc'[r] = b /\ pc'[Main] = pc[Main]
        /\ \A w \in Writers : pc'[w] = pc[w]
    BY <1>2, <1>3
  <2>. QED
    BY <1>1, <1>3, <2>1 DEF RoomOK, CountOK, Counted
<1>4. r # Main
  BY <1>1, Apart
<1>5. CASE Scan(r)
  <2>1. PICK b \in {"full_front", "dec_lock"} : Goto(r, "scan", b)
    BY <1>5 DEF Scan
  <2>2. CountOK(r)' /\ (pc[Main] # "exit" => dropped' = {})
    BY <1>3, <1>5, <2>1 DEF Scan, ringVars, ReaderSteps
  <2>. QED
    BY <1>1, <1>2, <1>5, <2>1, <2>2 DEF Scan, ringVars, RoomOK, ReaderSteps
<1>6. CASE PollFull(r)
  <2>1. PICK a \in {"full_front", "full_rear", "full_slot"},
             b \in {"full_front", "full_rear", "full_slot", "push_lock"} : Goto(r, a, b)
    BY <1>6 DEF PollFull
  <2>2. reg'[Main] = reg[Main]
    BY <1>1, <1>4, <1>6 DEF PollFull, Load, TypeOK
  <2>3. CountOK(r)' /\ (pc[Main] # "exit" => dropped' = {})
    BY <1>3, <1>6, <2>1, <2>2 DEF PollFull, ringVars, ReaderSteps
  <2>4. /\ pc[r] = a /\ pc'[r] = b /\ pc'[Main] = pc[Main]
        /\ \A w \in Writers : pc'[w] = pc[w]
    BY <1>2, <2>1 DEF ReaderSteps
  <2>5. UNCHANGED <<array, front, rear>> /\ (HasRoom' <=> HasRoom)
    BY <1>6 DEF PollFull, ringVars, HasRoom
  <2>6. /\ b = "full_rear" => reg'[r] = rear \/ HasRoom
        /\ b = "push_lock" => HasRoom
    <3>1. CASE Goto(r, "full_front", "full_rear") /\ Load(r, front)
      BY <1>1, <2>4, <3>1, DifferMeansRoom DEF Load, Goto, TypeOK
    <3>2. CASE Goto(r, "full_rear", IF reg[r] = rear THEN "full_slot" ELSE "push_lock")
      BY <1>1, <2>4, <3>2 DEF Goto, TypeOK, RoomOK
    <3>3. CASE Goto(r, "full_slot", IF array[front] # NULL THEN "full_front" ELSE "push_lock")
      BY <1>1, <2>4, <3>3 DEF Goto, TypeOK, HasRoom
    <3>. QED
      BY <1>6, <3>1, <3>2, <3>3 DEF PollFull
  <2>. QED
    BY <1>1, <2>3, <2>4, <2>5, <2>6 DEF RoomOK
<1>7. CASE LockForPush(r)
  <2>1. Goto(r, "push_lock", "push") /\ UNCHANGED <<array, front, rear, reader_count, reg, dropped>>
    BY <1>7 DEF LockForPush, ringVars
  <2>2. CountOK(r)' /\ (pc[Main] # "exit" => dropped' = {})
    BY <1>3, <2>1 DEF ReaderSteps
  <2>. QED
    BY <1>1, <1>2, <2>1, <2>2 DEF RoomOK, HasRoom, ReaderSteps
<1>8. CASE PushStore(r)
  <2>1. /\ Goto(r, "push", "push_advance") /\ UNCHANGED <<front, rear, reader_count, reg, dropped>>
    BY <1>8 DEF PushStore
  <2>2. CountOK(r)' /\ (pc[Main] # "exit" => dropped' = {})
    BY <1>2, <1>3, <2>1 DEF ReaderSteps
  <2>3. \A w \in Writers : pc[w] # "pop_advance"
    BY <1>1, <2>1, Apart DEF SoleInv, Inv, ThreadsOK, ReaderOK, WriterOK, Goto
  <2>. QED
    BY <1>1, <1>2, <2>1, <2>2, <2>3 DEF RoomOK, ReaderSteps
<1>9. CASE PushAdvance(r)
  <2>1. /\ Goto(r, "push_advance", "scan") /\ UNCHANGED <<array, front, reader_count, reg, dropped>>
    BY <1>9 DEF PushAdvance
  <2>2. CountOK(r)' /\ (pc[Main] # "exit" => dropped' = {})
    BY <1>3, <2>1 DEF ReaderSteps
  <2>. QED
    BY <1>1, <1>2, <2>1, <2>2 DEF RoomOK, ReaderSteps
<1>10. CASE PushFails(r)
  BY <1>1, <1>10, FullMeansNoRoom DEF PushFails, Goto, RoomOK, SoleInv
<1>11. CASE LeaveCount(r)
  <2>1. PICK a \in {"dec_lock", "dec_load", "dec_store"},
             b \in {"dec_load", "dec_store", "done"} : Goto(r, a, b)
    BY <1>11 DEF LeaveCount
  <2>2. reg'[Main] = reg[Main] /\ UNCHANGED <<array, front, rear, dropped>>
    BY <1>1, <1>4, <1>11 DEF LeaveCount, Load, TypeOK, ringVars
  <2>3. /\ pc[r] = a /\ pc'[r] = b
    BY <1>2, <2>1 DEF ReaderSteps
  <2>4. b # "done" => UNCHANGED reader_count
    BY <1>1, <1>11, <2>3 DEF LeaveCount, Goto, TypeOK
  <2>5. CountOK(r)' /\ (pc[Main] # "exit" => dropped' = {})
    BY <1>3, <2>1, <2>2, <2>4 DEF ReaderSteps
  <2>. QED
    BY <1>1, <1>2, <2>1, <2>2, <2>5 DEF RoomOK, ReaderSteps
<1>. QED
  BY <1>5, <1>6, <1>7, <1>8, <1>9, <1>10, <1>11 DEF Reader

LEMMA SoleWriterStep ==
  ASSUME NEW r, SoleInv(r), Inv', NEW w \in Writers, Writer(w)
  PROVE  RoomOK(r)' /\ CountOK(r)'
<1>1. /\ TypeOK /\ r \in Readers /\ RoomOK(r) /\ CountOK(r) /\ r # w /\ w # Main /\ pc[r] \in ReaderSteps
  BY Apart DEF SoleInv, Inv, TypeOK
<1>2. UNCHANGED <<rear, reader_count, dropped>>
  BY DEF Writer, WhileMore, LockForPop, PopTake, PopAdvance, PopNothing, Lookup, LockForWrite,
         WriteLine, ringVars
<1>3. reg'[r] = reg[r] /\ reg'[Main] = reg[Main]
  BY <1>1 DEF Writer, WhileMore, PollEmpty, LockForPop, PopTake, PopAdvance, PopNothing, Lookup,
              LockForWrite, WriteLine, Load, TypeOK
<1>4. ASSUME NEW a \in WriterSteps, NEW b \in WriterSteps, Goto(w, a, b),
             HasRoom => HasRoom', b = "pop_advance" => array'[front'] = NULL,
             \A v \in Writers : v # w /\ pc[v] = "pop_advance" => array'[front'] = NULL,
             b = "done" => pc[r] = "done"
      PROVE  RoomOK(r)' /\ CountOK(r)'
  <2>1. /\ pc[w] = a /\ pc'[w] = b /\ pc'[Main] = pc[Main] /\ pc'[r] = pc[r]
        /\ \A u \in Readers \cup Writers : u # w => pc'[u] = pc[u]
    BY <1>1, <1>4, WriterGoes
  <2>2. RoomOK(r)'
    BY <1>1, <1>2, <1>3, <1>4, <2>1 DEF RoomOK
  <2>3. CountOK(r)'
    BY <1>1, <1>2, <1>3, <1>4, <2>1 DEF CountOK, Counted
  <2>. QED
    BY <2>2, <2>3
<1>5. ASSUME NEW a \in WriterSteps, NEW b \in WriterSteps \ {"pop_advance"}, Goto(w, a, b),
             UNCHANGED <<array, front>>, b = "done" => pc[r] = "done"
      PROVE  RoomOK(r)' /\ CountOK(r)'
  BY <1>1, <1>4, <1>5 DEF RoomOK, HasRoom
<1>6. CASE WhileMore(w)
  <2>1. CASE Goto(w, "while_count", IF reader_count > 0 THEN "wait_front" ELSE "done")
    <3>1. pc[Main] = "join"
      BY <1>1, <2>1 DEF SoleInv, Inv, ThreadsOK, MainOK, TypeOK, Goto, MainSteps
    <3>2. ~(reader_count > 0) => pc[r] = "done"
      BY <1>1, <3>1 DEF CountOK, Counted
    <3>. QED
      BY <1>5, <1>6, <2>1, <3>2 DEF WhileMore, WriterSteps, ringVars
  <2>. DEFINE Polls == {"while_front", "while_rear", "while_slot", "while_count", "wait_front",
                        "wait_rear", "wait_slot"}
  <2>2. CASE \E a \in Polls, b \in Polls \cup {"pop_lock"} : Goto(w, a, b)
    BY <1>5, <1>6, <2>2 DEF WhileMore, WriterSteps, ringVars
  <2>. QED
    BY <1>6, <2>1, <2>2 DEF WhileMore, PollEmpty
<1>7. CASE LockForPop(w)
  BY <1>5, <1>7 DEF LockForPop, WriterSteps, ringVars
<1>8. CASE PopTake(w)
  <2>1. array' = [array EXCEPT ![front] = NULL] /\ front' = front
    BY <1>8 DEF PopTake, ClearFront
  <2>2. array'[front'] = NULL /\ (HasRoom => HasRoom')
    BY <1>1, <2>1 DEF TypeOK, HasRoom
  <2>. QED
    BY <1>4, <1>8, <2>2 DEF PopTake, WriterSteps
<1>9. CASE PopAdvance(w)
  <2>1. \A v \in Writers : v # w => pc[v] # "pop_advance"
    BY <1>9 DEF SoleInv, Inv, ThreadsOK, WriterOK, PopAdvance, Goto
  <2>2. array' = array
    BY <1>9 DEF PopAdvance
  <2>. QED
    BY <1>4, <1>9, <2>1, <2>2 DEF PopAdvance, WriterSteps, HasRoom
<1>10. CASE PopNothing(w)
  BY <1>5, <1>10 DEF PopNothing, WriterSteps, ringVars
<1>11. CASE Lookup(w)
  BY <1>5, <1>11 DEF Lookup, WriterSteps, ringVars
<1>12. CASE LockForWrite(w)
  BY <1>5, <1>12 DEF LockForWrite, WriterSteps, ringVars
<1>13. CASE WriteLine(w)
  BY <1>5, <1>13 DEF WriteLine, WriterSteps, ringVars
<1>. QED
  BY <1>6, <1>7, <1>8, <1>9, <1>10, <1>11, <1>12, <1>13 DEF Writer

LEMMA SoleMainStep ==
  ASSUME NEW r, SoleInv(r), Inv', MainThread
  PROVE  RoomOK(r)' /\ CountOK(r)'
<1>1. /\ TypeOK /\ Readers = {r} /\ r \in Readers /\ RoomOK(r) /\ CountOK(r) /\ r # Main
      /\ (\A w \in Writers : w # Main /\ w # r) /\ pc[r] \in ReaderSteps /\ pc[Main] \in MainSteps
  BY Apart DEF SoleInv, Inv, TypeOK
<1>2. ASSUME NEW s \in Readers, CreateReader(s) PROVE RoomOK(r)' /\ CountOK(r)'
  <2>1. /\ pc[Main] = "create" /\ pc'[Main] = "inc_load" /\ pc[r] = "unborn" /\ pc'[r] = "scan"
        /\ (\A w \in Writers : pc'[w] = pc[w])
        /\ UNCHANGED <<array, front, rear, reader_count, reg, dropped>>
    BY <1>1, <1>2 DEF CreateReader, TypeOK, ringVars
  <2>. QED
    BY <1>1, <2>1 DEF RoomOK, CountOK, Counted, HasRoom
<1>3. CASE CountReader
  <2>1. PICK a \in {"inc_load", "inc_store"}, b \in {"inc_store", "create"} : Goto(Main, a, b)
    BY <1>3 DEF CountReader
  <2>2. /\ pc[Main] = a /\ pc'[Main] = b /\ pc'[r] = pc[r] /\ \A w \in Writers : pc'[w] = pc[w]
    BY <1>1, <2>1, MainGoes DEF MainSteps
  <2>3. UNCHANGED <<array, front, rear, dropped>> /\ reg'[r] = reg[r]
    BY <1>1, <1>3 DEF CountReader, Load, ringVars, TypeOK
  <2>4. RoomOK(r)'
    BY <1>1, <2>2, <2>3 DEF RoomOK, HasRoom
  <2>5. CASE Goto(Main, "inc_load", "inc_store") /\ Load(Main, reader_count) /\ UNCHANGED reader_count
    <3>1. pc[Main] = "inc_load" /\ pc'[Main] = "inc_store" /\ reg'[Main] = reader_count
      BY <1>1, <2>2, <2>5 DEF Load, Goto, TypeOK
    <3>. QED
      BY <1>1, <2>2, <2>4, <2>5, <3>1 DEF CountOK, Counted
  <2>6. CASE Goto(Main, "inc_store", "create") /\ reader_count' = reg[Main] + 1
    <3>1. pc[Main] = "inc_store" /\ pc'[Main] = "create"
      BY <1>1, <2>2, <2>6 DEF Goto, TypeOK
    <3>. QED
      BY <1>1, <2>2, <2>4, <2>6, <3>1 DEF CountOK, Counted
  <2>. QED
    BY <1>3, <2>4, <2>5, <2>6 DEF CountReader
<1>4. CASE CreateWriters
  <2>1. /\ pc[Main] = "create" /\ pc'[Main] = "join" /\ pc[r] # "unborn" /\ pc'[r] = pc[r]
        /\ (\A w \in Writers : pc'[w] = "while_front")
        /\ UNCHANGED <<array, front, rear, reader_count, reg, dropped>>
    BY <1>1, <1>4, Apart DEF CreateWriters, TypeOK, ringVars
  <2>. QED
    BY <1>1, <2>1 DEF RoomOK, CountOK, Counted, HasRoom
<1>5. CASE JoinAll
  <2>1. /\ pc[r] = "done" /\ (\A w \in Writers : pc[w] = "done")
        /\ pc'[r] = "done" /\ (\A w \in Writers : pc'[w] = "done") /\ pc'[Main] = "exit"
    BY <1>1, <1>5, MainGoes DEF JoinAll, MainSteps
  <2>. QED
    BY <2>1 DEF RoomOK, CountOK
<1>. QED
  BY <1>2, <1>3, <1>4, <1>5 DEF MainThread

LEMMA SoleInvariance ==
  ASSUME NEW r
  PROVE  Readers = {r} /\ Spec => []SoleInv(r)
<1>1. Readers = {r} /\ Init => SoleInv(r)
  BY Start, Apart DEF Init, SoleInv, RoomOK, CountOK, Counted
<1>2. ASSUME SoleInv(r), [Next]_vars PROVE SoleInv(r)'
  <2>1. Inv'
    BY <1>2, StepKeeps DEF SoleInv, Kept
  <2>. SUFFICES RoomOK(r)' /\ CountOK(r)'
    BY <1>2, <2>1 DEF SoleInv
  <2>2. CASE UNCHANGED vars
    BY <1>2, <2>2 DEF vars, SoleInv, RoomOK, CountOK, Counted, HasRoom
  <2>3. CASE \E s \in Readers : Reader(s)
    <3>1. Reader(r)
      BY <1>2, <2>3 DEF SoleInv
    <3>. QED
      BY <1>2, <2>1, <3>1, SoleReaderStep
  <2>4. CASE \E w \in Writers : Writer(w)
    BY <1>2, <2>1, <2>4, SoleWriterStep
  <2>5. CASE MainThread
    BY <1>2, <2>1, <2>5, SoleMainStep
  <2>. QED
    BY <1>2, <2>2, <2>3, <2>4, <2>5 DEF Next, Terminated
<1>. QED
  BY <1>1, <1>2, PTL DEF Spec

LEMMA SoleReader == Cardinality(Readers) = 1 <=> \E r : Readers = {r}
  BY ThreadAssumption, FS_Singleton

\* Whatever the writers, the size of the queue and the file, one reader never loses a
\* hostname although it looks for room before it takes Qlock (OneReaderDropsNothing).
THEOREM SoleReaderDropsNothing == Spec => []OneReaderDropsNothing
<1>1. CASE Cardinality(Readers) = 1
  <2>1. PICK r : Readers = {r}
    BY <1>1, SoleReader
  <2>2. SoleInv(r) => OneReaderDropsNothing
    BY DEF SoleInv, RoomOK, OneReaderDropsNothing
  <2>. QED
    BY <2>1, <2>2, SoleInvariance, PTL
<1>2. CASE Cardinality(Readers) # 1
  <2>1. OneReaderDropsNothing
    BY <1>2 DEF OneReaderDropsNothing
  <2>. QED
    BY <2>1, PTL
<1>. QED
  BY <1>1, <1>2

\* No writer leaves before the only reader has pushed everything, although main counts
\* that reader after it runs and without Globallock (WritersOutliveReader).
THEOREM WritersStay == Spec => []WritersOutliveReader
<1>1. CASE Cardinality(Readers) = 1
  <2>1. PICK r : Readers = {r}
    BY <1>1, SoleReader
  <2>2. SoleInv(r) => WritersOutliveReader
    BY DEF SoleInv, CountOK, WritersOutliveReader
  <2>. QED
    BY <2>1, <2>2, SoleInvariance, PTL
<1>2. CASE Cardinality(Readers) # 1
  <2>1. WritersOutliveReader
    BY <1>2 DEF WritersOutliveReader
  <2>. QED
    BY <2>1, PTL
<1>. QED
  BY <1>1, <1>2

-----------------------------------------------------------------------------
(* The order of a file *)

\* How many slots slot i is behind the first one.
Distance(i) == IF i >= EffFront THEN i - EffFront ELSE i + maxSize - EffFront

\* What a writer has, or has written.
Taken == {h \in Hostname : (\E w \in Writers : hostname[w] = h) \/ \E l \in outfile : l.host = h}

\* A hostname on its way into the queue is the last one scanned from its file.
HoldsLast ==
    \A r \in Readers :
        pc[r] \in {"full_front", "full_rear", "full_slot", "push_lock", "push"} =>
            hostname[r] = <<r, scanned[r]>>

\* The hostnames of a file lie in the queue in order,
QueueInOrder ==
    \A i, j \in Slots :
        array[i] # NULL /\ array[j] # NULL /\ array[i][1] = array[j][1] /\ Distance(i) < Distance(j)
            => array[i][2] < array[j][2]

\* behind those that have been taken out of it,
TakenBefore ==
    \A h \in Taken, i \in Slots : array[i] # NULL /\ array[i][1] = h[1] => h[2] < array[i][2]

\* and the one that a writer has is behind those it has written.
WrittenBefore ==
    \A l \in outfile :
        hostname[l.by] \in Hostname /\ l.host # NULL /\ l.host[1] = hostname[l.by][1] =>
            l.host[2] < hostname[l.by][2]

Orders == QueueInOrder /\ TakenBefore /\ WrittenBefore /\ FileOrderKept

\* FileOrderKept compares lines only; it takes the order of all places a hostname has
\* been in on the way, and that it is in one of them at a time (OnePlace).
OrderInv == OwnInv /\ AddressInv /\ HoldsLast /\ Orders

\* A step that leaves the queue and the lines alone, and gives no writer a hostname.
LEMMA OrderStays ==
  ASSUME OrderInv, UNCHANGED <<array, outfile>>, EffFront' = EffFront,
         \A w \in Writers : hostname'[w] = hostname[w] \/ hostname'[w] \notin Hostname
  PROVE  Orders'
<1>1. Taken' \subseteq Taken
  BY DEF Taken
<1>2. \A l \in outfile : l.by \in Writers
  BY DEF OrderInv, OwnInv, Inv, TypeOK, Line
<1>3. \A i : Distance(i)' = Distance(i)
  BY DEF Distance
<1>4. QueueInOrder'
  BY <1>3 DEF OrderInv, Orders, QueueInOrder
<1>5. TakenBefore'
  BY <1>1 DEF OrderInv, Orders, TakenBefore
<1>6. WrittenBefore'
  BY <1>2 DEF OrderInv, Orders, WrittenBefore
<1>. QED
  BY <1>4, <1>5, <1>6 DEF OrderInv, Orders, FileOrderKept

\* What can refer to the hostname that reader r has just scanned: nothing else.
LEMMA EarlierThanHeld ==
  ASSUME OrderInv, NEW r \in Readers, pc[r] = "push", NEW h \in Hostname, h[1] = r,
         h \in Taken \/ \E i \in Slots : array[i] = h
  PROVE  h[2] < scanned[r]
<1>. DEFINE x == <<r, scanned[r]>>
<1>1. hostname[r] = x /\ x \in Hostname
  BY DEF OrderInv, HoldsLast, OwnInv, Inv, ThreadsOK, ReaderOK
<1>2. <<"thread", r>> \in Places(x)
  BY <1>1 DEF Places, Owners
<1>3. PICK o \in Places(h) : o # <<"thread", r>>
  <2>1. ASSUME NEW w \in Writers, hostname[w] = h
        PROVE  <<"thread", w>> \in Places(h) /\ <<"thread", w>> # <<"thread", r>>
    BY <2>1, Apart DEF Places, Owners
  <2>2. ASSUME NEW l \in outfile, l.host = h
        PROVE  <<"line", l>> \in Places(h) /\ <<"line", l>> # <<"thread", r>>
    BY <2>2 DEF Places, Owners
  <2>3. ASSUME NEW i \in Slots, array[i] = h
        PROVE  <<"slot", i>> \in Places(h) /\ <<"slot", i>> # <<"thread", r>>
    BY <2>3 DEF Places, Owners
  <2>. QED
    BY <2>1, <2>2, <2>3 DEF Taken
<1>4. h # x
  BY <1>1, <1>2, <1>3 DEF OrderInv, OwnInv, OnePlace
<1>5. h[2] <= scanned[r]
  BY <1>3 DEF OrderInv, OwnInv, OnePlace
<1>6. h[2] \in Nat /\ scanned[r] \in Nat /\ h = <<h[1], h[2]>>
  BY ThreadAssumption DEF Hostname, OrderInv, OwnInv, Inv, TypeOK
<1>. QED
  BY <1>4, <1>5, <1>6

LEMMA PushStoreOrder ==
  ASSUME OrderInv, NEW r \in Readers, PushStore(r)
  PROVE  Orders'
<1>1. /\ pc[r] = "push" /\ \A w \in Writers : pc'[w] = pc[w]
  BY ReaderGoes DEF PushStore, OrderInv, OwnInv, Inv, ReaderSteps
<1>2. /\ Qlock = r /\ EffFront = front /\ EffRear = rear /\ EffFront' = front
  BY <1>1, EffIs DEF OrderInv, OwnInv, Inv, ThreadsOK, ReaderOK, PushStore, EffFront
<1>. PICK x \in Hostname : x = hostname[r] /\ x = <<r, scanned[r]>> /\ x[1] = r /\ x[2] = scanned[r]
  BY <1>1 DEF OrderInv, HoldsLast, OwnInv, Inv, ThreadsOK, ReaderOK
<1>3. /\ array' = [array EXCEPT ![rear] = x] /\ array \in [Slots -> Hostname \cup {NULL}]
      /\ front \in Slots /\ rear \in Slots
      /\ WellFormed(array, front, rear) /\ ~(front = rear /\ array[front] # NULL)
  BY <1>2 DEF OrderInv, OwnInv, Inv, TypeOK, RingShape, PushStore, StorePayload, queue_is_full
<1>4. \A i \in Slots : i # rear => array'[i] = array[i]
  BY <1>3
<1>5. \A i \in Slots : Distance(i)' = Distance(i) /\ (array[i] # NULL => Distance(i) < Distance(rear))
  BY <1>2, <1>3, SizePositive DEF Distance, WellFormed, InSpan, Slots
<1>6. \A i \in Slots : Distance(i) \in Int
  BY <1>2, <1>3, SizePositive DEF Distance, Slots
<1>7. array[rear] = NULL
  <2>1. CASE front = rear
    BY <1>3, <2>1
  <2>2. CASE front # rear
    <3>1. ~InSpan(front, rear, rear)
      BY <1>3, <2>2, SizePositive DEF InSpan, Slots
    <3>. QED
      BY <1>3, <2>2, <3>1 DEF WellFormed
  <2>. QED
    BY <2>1, <2>2
<1>8. \A i \in Slots : array[i] # NULL /\ array[i][1] = r => array[i][2] < x[2]
  BY <1>1, <1>3, EarlierThanHeld
<1>9. QueueInOrder'
  <2>. SUFFICES ASSUME NEW i \in Slots, NEW j \in Slots, array'[i] # NULL, array'[j] # NULL,
                       array'[i][1] = array'[j][1], Distance(i)' < Distance(j)'
                PROVE  array'[i][2] < array'[j][2]
    BY DEF QueueInOrder
  <2>1. CASE i # rear /\ j # rear
    BY <1>4, <1>5, <2>1 DEF OrderInv, Orders, QueueInOrder
  <2>2. CASE i # rear /\ j = rear
    BY <1>3, <1>4, <1>8, <2>2
  <2>3. CASE i = rear
    BY <1>3, <1>4, <1>5, <1>6, <2>3
  <2>. QED
    BY <2>1, <2>2, <2>3
<1>10. /\ outfile' = outfile /\ \A w \in Writers : hostname'[w] = hostname[w]
  BY Apart DEF PushStore, OrderInv, OwnInv, Inv, TypeOK
<1>11. Taken' = Taken
  BY <1>10 DEF Taken
<1>12. TakenBefore'
  <2>. SUFFICES ASSUME NEW h \in Taken, NEW i \in Slots, array'[i] # NULL, array'[i][1] = h[1]
                PROVE  h[2] < array'[i][2]
    BY <1>11 DEF TakenBefore
  <2>1. CASE i = rear
    BY <1>1, <1>3, <2>1, EarlierThanHeld DEF Taken
  <2>2. CASE i # rear
    BY <1>4, <2>2 DEF OrderInv, Orders, TakenBefore
  <2>. QED
    BY <2>1, <2>2
<1>13. \A l \in outfile : l.by \in Writers
  BY DEF OrderInv, OwnInv, Inv, TypeOK, Line
<1>14. WrittenBefore' /\ FileOrderKept'
  BY <1>10, <1>13 DEF OrderInv, Orders, WrittenBefore, FileOrderKept
<1>. QED
  BY <1>9, <1>12, <1>14 DEF Orders

LEMMA PopTakeOrder ==
  ASSUME OrderInv, NEW w \in Writers, PopTake(w)
  PROVE  Orders'
<1>1. /\ pc[w] = "pop" /\ pc'[w] = "pop_advance"
  BY WriterGoes DEF PopTake, OrderInv, OwnInv, Inv, WriterSteps
<1>2. EffFront = front /\ EffRear = rear /\ EffFront' = Succ(front)
  BY <1>1, EffIs DEF OrderInv, OwnInv, Inv, ThreadsOK, WriterOK, PopTake, EffFront
<1>3. /\ array' = [array EXCEPT ![front] = NULL] /\ array \in [Slots -> Hostname \cup {NULL}]
      /\ front \in Slots /\ rear \in Slots /\ outfile' = outfile
      /\ hostname' = [hostname EXCEPT ![w] = array[front]]
      /\ WellFormed(array, front, rear) /\ ~(front = rear /\ array[front] = NULL)
  BY <1>2 DEF OrderInv, OwnInv, Inv, TypeOK, RingShape, PopTake, ClearFront, queue_is_empty
<1>4. array[front] # NULL
  BY <1>3, SizePositive DEF WellFormed, InSpan, Slots
<1>5. \A i \in Slots : array'[i] # NULL => i # front /\ array'[i] = array[i]
  BY <1>3
<1>6. Succ(front) = IF front + 1 < maxSize THEN front + 1 ELSE 0
  BY <1>3, SuccIs
<1>7. /\ Distance(front) = 0
      /\ \A i \in Slots : /\ Distance(i) \in Int
                          /\ i # front => Distance(i) > 0 /\ Distance(i)' = Distance(i) - 1
  BY <1>2, <1>3, <1>6, SizePositive DEF Distance, Slots
<1>8. QueueInOrder'
  <2>. SUFFICES ASSUME NEW i \in Slots, NEW j \in Slots, array'[i] # NULL, array'[j] # NULL,
                       array'[i][1] = array'[j][1], Distance(i)' < Distance(j)'
                PROVE  array'[i][2] < array'[j][2]
    BY DEF QueueInOrder
  <2>1. Distance(i) < Distance(j)
    BY <1>5, <1>7
  <2>. QED
    BY <1>5, <2>1 DEF OrderInv, Orders, QueueInOrder
<1>. PICK x \in Hostname : x = array[front]
  BY <1>3, <1>4
<1>9. \A i \in Slots : array'[i] # NULL /\ array'[i][1] = x[1] => x[2] < array'[i][2]
  BY <1>3, <1>4, <1>5, <1>7 DEF OrderInv, Orders, QueueInOrder
<1>10. /\ hostname \in [Readers \cup Writers -> Hostname \cup {NULL, Free}] /\ hostname'[w] = x
       /\ \A v \in Writers : v # w => hostname'[v] = hostname[v]
  BY <1>3 DEF OrderInv, OwnInv, Inv, TypeOK
<1>11. Taken' \subseteq Taken \cup {x}
  BY <1>3, <1>10 DEF Taken
<1>12. TakenBefore'
  BY <1>5, <1>9, <1>11 DEF OrderInv, Orders, TakenBefore
<1>13. WrittenBefore'
  <2>. SUFFICES ASSUME NEW l \in outfile, hostname'[l.by] \in Hostname, l.host # NULL,
                       l.host[1] = hostname'[l.by][1]
                PROVE  l.host[2] < hostname'[l.by][2]
    BY <1>3 DEF WrittenBefore
  <2>1. l.by \in Writers /\ l.host \in Hostname
    BY DEF OrderInv, OwnInv, Inv, TypeOK, Line
  <2>2. CASE l.by = w
    <3>1. l.host \in Taken
      BY <2>1 DEF Taken
    <3>. QED
      BY <1>3, <1>4, <1>10, <2>2, <3>1 DEF OrderInv, Orders, TakenBefore
  <2>3. CASE l.by # w
    BY <1>10, <2>1, <2>3 DEF OrderInv, Orders, WrittenBefore
  <2>. QED
    BY <2>2, <2>3
<1>14. FileOrderKept'
  BY <1>3 DEF OrderInv, Orders, FileOrderKept
<1>. QED
  BY <1>8, <1>12, <1>13, <1>14 DEF Orders

LEMMA WriteLineOrder ==
  ASSUME OrderInv, NEW w \in Writers, WriteLine(w)
  PROVE  Orders'
<1>1. /\ UNCHANGED <<array, front>> /\ pc[w] = "write" /\ pc'[w] = "while_front"
      /\ \A u \in Readers \cup Writers : u # w => pc'[u] = pc[u]
  BY WriterGoes DEF WriteLine, OrderInv, OwnInv, Inv, WriterSteps, ringVars
<1>2. EffFront' = EffFront
  BY <1>1 DEF EffFront
<1>3. PICK k : k = [by |-> w, n |-> counter[w] + 1, host |-> hostname[w], ip |-> firstipstr[w]]
  OBVIOUS
<1>4. outfile' = outfile \cup {k} /\ k.by = w /\ k.n = counter[w] + 1 /\ k.host = hostname[w]
  BY <1>3 DEF WriteLine
<1>5. /\ hostname'[w] = Free /\ hostname[w] \in Hostname \cup {NULL, Free}
      /\ \A v \in Writers : v # w => hostname'[v] = hostname[v]
      /\ counter[w] \in Nat /\ hostname[w] # Free
  BY <1>1 DEF WriteLine, OrderInv, OwnInv, Inv, TypeOK, ThreadsOK, WriterOK
<1>6. \A l \in outfile : l.by \in Writers /\ l.n \in Nat /\ l.n <= counter[l.by]
                         /\ l.host \in Hostname \cup {NULL}
  BY DEF OrderInv, AddressInv, OwnInv, Inv, TypeOK, Line
<1>7. QueueInOrder'
  BY <1>1, <1>2 DEF OrderInv, Orders, QueueInOrder, Distance
<1>8. Taken' \subseteq Taken
  BY <1>4, <1>5, Apart DEF Taken
<1>9. TakenBefore'
  BY <1>1, <1>8 DEF OrderInv, Orders, TakenBefore
<1>10. WrittenBefore'
  <2>. SUFFICES ASSUME NEW l \in outfile', hostname'[l.by] \in Hostname, l.host # NULL,
                       l.host[1] = hostname'[l.by][1]
                PROVE  l.host[2] < hostname'[l.by][2]
    BY DEF WrittenBefore
  <2>1. l \in outfile /\ l.by # w
    BY <1>4, <1>5, Apart
  <2>. QED
    BY <1>5, <1>6, <2>1 DEF OrderInv, Orders, WrittenBefore
<1>11. FileOrderKept'
  <2>. SUFFICES ASSUME NEW l \in outfile', NEW m \in outfile', l.by = m.by,
                       l.host # NULL, m.host # NULL, l.host[1] = m.host[1]
                PROVE  l.n < m.n <=> l.host[2] < m.host[2]
    BY DEF FileOrderKept
  <2>1. ASSUME NEW e \in outfile, e.by = w, e.host # NULL, k.host # NULL, e.host[1] = k.host[1]
        PROVE  e.n < k.n /\ e.host[2] < k.host[2] /\ e.host[2] \in Nat /\ k.host[2] \in Nat
    <3>1. hostname[w] \in Hostname /\ e.host \in Hostname
      BY <1>4, <1>5, <1>6, <2>1
    <3>2. e.host[2] < k.host[2]
      BY <1>4, <2>1, <3>1 DEF OrderInv, Orders, WrittenBefore
    <3>3. e.host[2] \in Nat /\ k.host[2] \in Nat
      BY <1>4, <3>1, ThreadAssumption DEF Hostname
    <3>. QED
      BY <1>4, <1>5, <1>6, <2>1, <3>2, <3>3
  <2>2. CASE l \in outfile /\ m \in outfile
    BY <2>2 DEF OrderInv, Orders, FileOrderKept
  <2>3. CASE l \in outfile /\ m = k
    BY <1>4, <2>1, <2>3
  <2>4. CASE l = k /\ m \in outfile
    <3>1. m.n < k.n /\ m.host[2] < k.host[2] /\ m.host[2] \in Nat /\ k.host[2] \in Nat /\ m.n \in Nat
      BY <1>4, <1>6, <2>1, <2>4
    <3>. QED
      BY <1>4, <1>5, <2>4, <3>1
  <2>5. CASE l = k /\ m = k
    <3>1. k.host \in Hostname
      BY <1>4, <1>5, <2>5
    <3>. QED
      BY <1>4, <1>5, <2>5, <3>1, ThreadAssumption DEF Hostname
  <2>. QED
    BY <1>4, <2>2, <2>3, <2>4, <2>5
<1>. QED
  BY <1>7, <1>9, <1>10, <1>11 DEF Orders

LEMMA ReaderOrder ==
  ASSUME OrderInv, NEW r \in Readers, Reader(r)
  PROVE  HoldsLast' /\ Orders'
<1>. DEFINE Holding == {"full_front", "full_rear", "full_slot", "push_lock", "push"}
<1>1. /\ TypeOK /\ \A w \in Writers : hostname'[w] = hostname[w]
  BY Apart DEF OrderInv, OwnInv, Inv, TypeOK, Reader, Scan, PollFull, LockForPush, PushStore,
               PushAdvance, PushFails, LeaveCount
<1>2. front' = front /\ outfile' = outfile
  BY DEF Reader, Scan, PollFull, LockForPush, PushStore, PushAdvance, PushFails, LeaveCount, ringVars
<1>3. ASSUME NEW a \in ReaderSteps, NEW b \in ReaderSteps, Goto(r, a, b),
             \A s \in Readers : s # r => scanned'[s] = scanned[s] /\ hostname'[s] = hostname[s],
             b \in Holding =>
                \/ hostname'[r] = <<r, scanned'[r]>>
                \/ a \in Holding /\ UNCHANGED <<hostname, scanned>>,
             array' = array \/ PushStore(r)
      PROVE  HoldsLast' /\ Orders'
  <2>1. /\ pc[r] = a /\ pc'[r] = b /\ (\A w \in Writers : pc'[w] = pc[w])
        /\ \A s \in Readers \cup Writers : s # r => pc'[s] = pc[s]
    BY <1>1, <1>3, ReaderGoes
  <2>2. HoldsLast'
    BY <1>3, <2>1 DEF OrderInv, HoldsLast
  <2>3. EffFront' = EffFront
    BY <1>2, <2>1 DEF EffFront
  <2>4. Orders'
    BY <1>1, <1>2, <1>3, <2>3, OrderStays, PushStoreOrder
  <2>. QED
    BY <2>2, <2>4
<1>4. CASE Scan(r)
  <2>1. CASE /\ Goto(r, "scan", "full_front")
             /\ scanned' = [scanned EXCEPT ![r] = @ + 1]
             /\ hostname' = [hostname EXCEPT ![r] = <<r, scanned[r] + 1>>]
    <3>1. hostname'[r] = <<r, scanned'[r]>>
      BY <1>1, <2>1 DEF TypeOK
    <3>2. \A s \in Readers : s # r => scanned'[s] = scanned[s] /\ hostname'[s] = hostname[s]
      BY <1>1, <2>1 DEF TypeOK
    <3>. QED
      BY <1>3, <1>4, <2>1, <3>1, <3>2 DEF Scan, ringVars, ReaderSteps
  <2>2. CASE Goto(r, "scan", "dec_lock") /\ UNCHANGED <<scanned, hostname>>
    BY <1>3, <1>4, <2>2 DEF Scan, ringVars, ReaderSteps
  <2>. QED
    BY <1>4, <2>1, <2>2 DEF Scan
<1>5. CASE PollFull(r)
  BY <1>3, <1>5 DEF PollFull, ringVars, ReaderSteps
<1>6. CASE LockForPush(r)
  BY <1>3, <1>6 DEF LockForPush, ringVars, ReaderSteps
<1>7. CASE PushStore(r) \/ PushAdvance(r) \/ PushFails(r)
  <2>1. \E a, b \in ReaderSteps \ Holding : Goto(r, a, b) \/ Goto(r, "push", b)
    BY <1>7 DEF PushStore, PushAdvance, PushFails, ReaderSteps
  <2>2. \A s \in Readers : s # r => scanned'[s] = scanned[s] /\ hostname'[s] = hostname[s]
    BY <1>1, <1>7 DEF PushStore, PushAdvance, PushFails, TypeOK
  <2>3. array' = array \/ PushStore(r)
    BY <1>7 DEF PushAdvance, PushFails, ringVars
  <2>. QED
    BY <1>3, <2>1, <2>2, <2>3 DEF ReaderSteps
<1>8. CASE LeaveCount(r)
  BY <1>3, <1>8 DEF LeaveCount, ringVars, ReaderSteps
<1>. QED
  BY <1>4, <1>5, <1>6, <1>7, <1>8 DEF Reader

LEMMA WriterOrder ==
  ASSUME OrderInv, NEW w \in Writers, Writer(w)
  PROVE  HoldsLast' /\ Orders'
<1>1. TypeOK /\ UNCHANGED scanned /\ \A r \in Readers : hostname'[r] = hostname[r]
  BY Apart DEF OrderInv, OwnInv, Inv, TypeOK, Writer, WhileMore, LockForPop, PopTake, PopAdvance,
               PopNothing, Lookup, LockForWrite, WriteLine
<1>2. \A r \in Readers : pc'[r] = pc[r]
  BY <1>1, Apart DEF Writer, WhileMore, PollEmpty, LockForPop, PopTake, PopAdvance, PopNothing,
               Lookup, LockForWrite, WriteLine, Goto, TypeOK
<1>3. HoldsLast'
  BY <1>1, <1>2 DEF OrderInv, HoldsLast
<1>. SUFFICES Orders'
  BY <1>3
<1>4. ASSUME NEW a \in WriterSteps \ {"pop_advance"}, NEW b \in WriterSteps \ {"pop_advance"},
             Goto(w, a, b), UNCHANGED <<array, front, outfile>>,
             \A v \in Writers : hostname'[v] = hostname[v] \/ hostname'[v] \notin Hostname
      PROVE  Orders'
  <2>1. /\ pc[w] = a /\ pc'[w] = b
        /\ \A u \in Readers \cup Writers : u # w => pc'[u] = pc[u]
    BY <1>1, <1>4, WriterGoes
  <2>2. EffFront' = EffFront
    BY <1>4, <2>1 DEF EffFront
  <2>. QED
    BY <1>4, <2>2, OrderStays
<1>5. CASE WhileMore(w)
  BY <1>4, <1>5 DEF WhileMore, PollEmpty, ringVars, WriterSteps
<1>6. CASE LockForPop(w)
  BY <1>4, <1>6 DEF LockForPop, ringVars, WriterSteps
<1>7. CASE PopAdvance(w)
  <2>1. /\ pc[w] = "pop_advance" /\ pc'[w] = "lookup"
        /\ \A u \in Readers \cup Writers : u # w => pc'[u] = pc[u]
    BY <1>1, <1>7, WriterGoes DEF PopAdvance, WriterSteps
  <2>2. \A v \in Writers : v # w => pc[v] # "pop_advance"
    BY <2>1 DEF OrderInv, OwnInv, Inv, ThreadsOK, WriterOK
  <2>3. EffFront' = EffFront
    BY <1>7, <2>1, <2>2 DEF PopAdvance, AdvanceFront, EffFront
  <2>. QED
    BY <1>7, <2>3, OrderStays DEF PopAdvance
<1>8. CASE PopNothing(w)
  <2>1. \A v \in Writers : hostname'[v] = hostname[v] \/ hostname'[v] \notin Hostname
    BY <1>1, <1>8, Apart DEF PopNothing, TypeOK
  <2>. QED
    BY <1>4, <1>8, <2>1 DEF PopNothing, ringVars, WriterSteps
<1>9. CASE Lookup(w)
  BY <1>4, <1>9 DEF Lookup, ringVars, WriterSteps
<1>10. CASE LockForWrite(w)
  BY <1>4, <1>10 DEF LockForWrite, ringVars, WriterSteps
<1>. QED
  BY <1>5, <1>6, <1>7, <1>8, <1>9, <1>10, PopTakeOrder, WriteLineOrder DEF Writer

LEMMA MainOrder ==
  ASSUME OrderInv, MainThread
  PROVE  HoldsLast' /\ Orders'
<1>1. TypeOK /\ ThreadsOK /\ UNCHANGED <<scanned, hostname, outfile>>
  BY DEF OrderInv, OwnInv, Inv, MainThread, CreateReader, CountReader, CreateWriters, JoinAll
<1>2. ASSUME NEW r \in Readers, CreateReader(r) PROVE HoldsLast' /\ Orders'
  <2>1. /\ pc'[r] = "scan" /\ (\A s \in Readers : s # r => pc'[s] = pc[s])
        /\ \A w \in Writers : pc'[w] = pc[w]
    BY <1>1, <1>2, Apart DEF CreateReader, TypeOK
  <2>2. HoldsLast'
    BY <1>1, <2>1 DEF OrderInv, HoldsLast
  <2>3. EffFront' = EffFront /\ array' = array
    BY <1>2, <2>1 DEF EffFront, CreateReader, ringVars
  <2>. QED
    BY <1>1, <2>2, <2>3, OrderStays
<1>3. CASE CountReader
  <2>1. \A u \in Readers \cup Writers : pc'[u] = pc[u]
    BY <1>1, <1>3, Apart DEF CountReader, Goto, TypeOK
  <2>2. HoldsLast'
    BY <1>1, <2>1 DEF OrderInv, HoldsLast
  <2>3. EffFront' = EffFront /\ array' = array
    BY <1>3, <2>1 DEF EffFront, CountReader, ringVars
  <2>. QED
    BY <1>1, <2>2, <2>3, OrderStays
<1>4. CASE CreateWriters
  <2>1. /\ \A r \in Readers : pc'[r] = pc[r]
        /\ \A w \in Writers : pc[w] = "unborn" /\ pc'[w] = "while_front"
    BY <1>1, <1>4, Apart DEF CreateWriters, TypeOK, ThreadsOK, MainOK
  <2>2. HoldsLast'
    BY <1>1, <2>1 DEF OrderInv, HoldsLast
  <2>3. EffFront' = EffFront /\ array' = array
    BY <1>4, <2>1 DEF EffFront, CreateWriters, ringVars
  <2>. QED
    BY <1>1, <2>2, <2>3, OrderStays
<1>5. CASE JoinAll
  <2>1. (\A r \in Readers : pc'[r] = "done") /\ \A i \in Slots : array'[i] = NULL
    BY <1>1, <1>5, MainGoes DEF JoinAll, MainSteps, DrainRing
  <2>2. HoldsLast' /\ QueueInOrder' /\ TakenBefore'
    BY <2>1 DEF HoldsLast, QueueInOrder, TakenBefore
  <2>3. WrittenBefore' /\ FileOrderKept'
    BY <1>1 DEF OrderInv, Orders, WrittenBefore, FileOrderKept
  <2>. QED
    BY <2>2, <2>3 DEF Orders
<1>. QED
  BY <1>2, <1>3, <1>4, <1>5 DEF MainThread

\* However many readers and writers there are, and however they get in each other's
\* way: a writer writes the hostnames of one file in the order of that file.
THEOREM OrderOfFiles == Spec => []FileOrderKept
<1>1. Init => HoldsLast /\ Orders
  <2>. SUFFICES ASSUME Init PROVE HoldsLast /\ Orders
    OBVIOUS
  <2>1. (\A i \in Slots : array[i] = NULL) /\ outfile = {} /\ \A r \in Readers : pc[r] = "unborn"
    BY Apart DEF Init, queue_init
  <2>. QED
    BY <2>1 DEF HoldsLast, Orders, QueueInOrder, TakenBefore, WrittenBefore, FileOrderKept
<1>2. ASSUME OrderInv, [Next]_vars PROVE HoldsLast' /\ Orders'
  <2>1. CASE UNCHANGED vars
    <3>1. HoldsLast'
      BY <1>2, <2>1 DEF vars, OrderInv, HoldsLast
    <3>2. EffFront' = EffFront
      BY <2>1 DEF vars, EffFront
    <3>. QED
      BY <1>2, <2>1, <3>1, <3>2, OrderStays DEF vars
  <2>2. CASE \E r \in Readers : Reader(r)
    BY <1>2, <2>2, ReaderOrder
  <2>3. CASE \E w \in Writers : Writer(w)
    BY <1>2, <2>3, WriterOrder
  <2>4. CASE MainThread
    BY <1>2, <2>4, MainOrder
  <2>. QED
    BY <1>2, <2>1, <2>2, <2>3, <2>4 DEF Next, Terminated
<1>3. OrderInv /\ [Next]_vars /\ OwnInv' /\ AddressInv' => OrderInv'
  BY <1>2 DEF OrderInv
<1>4. OwnInv /\ AddressInv /\ HoldsLast /\ Orders => OrderInv
  BY DEF OrderInv
<1>5. OrderInv => FileOrderKept
  BY DEF OrderInv, Orders
<1>. QED
  BY <1>1, <1>3, <1>4, <1>5, OwnersKept, AddressesKept, PTL DEF Spec
=============================================================================
