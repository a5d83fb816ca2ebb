----------------------------- MODULE MultiLookup -----------------------------
(***************************************************************************)
(* multi-lookup.c: reader threads scan hostnames from files and push them  *)
(* on a bounded queue, writer threads pop them, look them up and write a   *)
(* line of the output file for each.                                       *)
(*                                                                         *)
(* The program is built without optimisation, so a step is one access to   *)
(* shared memory: queue_is_full and queue_is_empty are called without the  *)
(* lock and load front, rear and the slot one after the other; "reader_count *)
(* += 1" is a load and a store.  Under Qlock, a push stores the payload    *)
(* and then advances rear, and a pop clears the slot and then advances     *)
(* front; a thread that polls the queue can look in between.               *)
(***************************************************************************)
EXTENDS QueueRing, FiniteSets

CONSTANTS Readers,   \* one reader thread per input file
          Writers,   \* the resolver threads
          Main,      \* the thread that creates and joins the others
          Free,      \* "no thread", for a lock, and "nothing", for a register
          Garbage,   \* an address buffer that was never written
          PerFile    \* bound: the most hostnames an input file has

ASSUME ThreadAssumption ==
    /\ IsFiniteSet(Readers) /\ IsFiniteSet(Writers)
    /\ Readers \cap Writers = {} /\ Main \notin Readers \cup Writers
    /\ Free \notin Readers \cup Writers
    /\ PerFile \in Nat

\* The n-th hostname of a reader's file.
Hostname == Readers \X (1 .. PerFile)

ASSUME ValueAssumption ==
    NULL \notin Hostname /\ Free \notin Hostname /\ NULL # Free /\ Garbage \notin Hostname

VARIABLES
    reader_count,    \* the global counter of running readers
    Qlock, Wlock, Globallock,   \* the thread that holds each mutex, or Free
    pc,              \* the next step of each thread
    reg,             \* what a thread has loaded from memory and still needs
    hostname,        \* the local variable hostname of a thread
    counter,         \* the local variable counter of a thread
    firstipstr,      \* whose address a writer's buffer holds
    scanned,         \* how many hostnames a reader has scanned
    outfile,         \* the lines written
    dropped          \* the hostnames that left the queue, or never entered
                     \* it, without a writer having them

threadVars == <<pc, reg, hostname, counter, firstipstr, scanned>>
lockVars   == <<Qlock, Wlock, Globallock>>
vars == <<array, front, rear, reader_count, Qlock, Wlock, Globallock, pc, reg,
          hostname, counter, firstipstr, scanned, outfile, dropped>>

Line == [by : Writers, n : Nat, host : Hostname \cup {NULL},
         ip : Hostname \cup {Garbage}]

Init ==
    /\ queue_init
    /\ reader_count = 0
    /\ Qlock = Free /\ Wlock = Free /\ Globallock = Free
    /\ pc = [t \in Readers \cup Writers \cup {Main} |->
               IF t = Main THEN "create" ELSE "unborn"]
    /\ reg = [t \in Readers \cup Writers \cup {Main} |-> Free]
    /\ hostname = [t \in Readers \cup Writers |-> Free]
    /\ counter = [t \in Readers \cup Writers |-> 0]
    /\ firstipstr = [w \in Writers |-> Garbage]
    /\ scanned = [r \in Readers |-> 0]
    /\ outfile = {} /\ dropped = {}

\* Thread t goes from step a to step b.
Goto(t, a, b) == pc[t] = a /\ pc' = [pc EXCEPT ![t] = b]

\* Thread t loads value v.
Load(t, v) == reg' = [reg EXCEPT ![t] = v]

-----------------------------------------------------------------------------
(* Reader threads: read_thread_function *)

\* fscanf reads the next hostname into fresh memory, or meets the end of the file.
Scan(r) ==
    /\ \/ /\ Goto(r, "scan", "full_front")
          /\ scanned[r] < PerFile
          /\ scanned' = [scanned EXCEPT ![r] = @ + 1]
          /\ hostname' = [hostname EXCEPT ![r] = <<r, scanned[r] + 1>>]
       \/ /\ Goto(r, "scan", "dec_lock")
          /\ UNCHANGED <<scanned, hostname>>
    /\ UNCHANGED <<ringVars, lockVars, reader_count, reg, counter, firstipstr,
                   outfile, dropped>>

\* Mutant: pushes without waiting for room.
MutantPollFull(r) ==
    /\ Goto(r, "full_front", "push_lock")
    /\ UNCHANGED <<ringVars, lockVars, reader_count, reg, hostname, counter,
                   firstipstr, scanned, outfile, dropped>>

\* The loads of queue_is_full, without the lock; a reader that finds the queue
\* full sleeps and asks again.
PollFull(r) ==
    /\ \/ Goto(r, "full_front", "full_rear") /\ Load(r, front)
       \/ /\ Goto(r, "full_rear", IF reg[r] = rear THEN "full_slot" ELSE "push_lock")
          /\ Load(r, Free)
       \/ /\ Goto(r, "full_slot", IF array[front] # NULL THEN "full_front" ELSE "push_lock")
          /\ UNCHANGED reg
    /\ UNCHANGED <<ringVars, lockVars, reader_count, hostname, counter,
                   firstipstr, scanned, outfile, dropped>>

\* Mutant: enters the critical section without waiting for the lock.
MutantLockForPush(r) ==
    /\ Goto(r, "push_lock", "push")
    /\ Qlock' = r
    /\ UNCHANGED <<ringVars, Wlock, Globallock, reader_count, reg, hostname,
                   counter, firstipstr, scanned, outfile, dropped>>

LockForPush(r) ==
    /\ Goto(r, "push_lock", "push")
    /\ Qlock = Free
    /\ Qlock' = r
    /\ UNCHANGED <<ringVars, Wlock, Globallock, reader_count, reg, hostname,
                   counter, firstipstr, scanned, outfile, dropped>>

\* queue_push on a queue with room, up to the store of the payload.
PushStore(r) ==
    /\ Goto(r, "push", "push_advance")
    /\ ~queue_is_full
    /\ StorePayload(hostname[r])
    /\ hostname' = [hostname EXCEPT ![r] = Free]
    /\ UNCHANGED <<front, rear, lockVars, reader_count, reg, counter,
                   firstipstr, scanned, outfile, dropped>>

\* queue_push advances rear; the reader counts the hostname and unlocks.
PushAdvance(r) ==
    /\ Goto(r, "push_advance", "scan")
    /\ AdvanceRear
    /\ counter' = [counter EXCEPT ![r] = @ + 1]
    /\ Qlock' = Free
    /\ UNCHANGED <<array, front, Wlock, Globallock, reader_count, reg, hostname,
                   firstipstr, scanned, outfile, dropped>>

\* queue_push fails on a queue that filled up since the poll.  The reader does
\* not look at the result: it counts the hostname and goes on to the next one.
PushFails(r) ==
    /\ Goto(r, "push", "scan")
    /\ queue_is_full
    /\ dropped' = dropped \cup {hostname[r]}
    /\ hostname' = [hostname EXCEPT ![r] = Free]
    /\ counter' = [counter EXCEPT ![r] = @ + 1]
    /\ Qlock' = Free
    /\ UNCHANGED <<ringVars, Wlock, Globallock, reader_count, reg, firstipstr,
                   scanned, outfile>>

\* reader_count -= 1 under Globallock.
LeaveCount(r) ==
    /\ \/ /\ Goto(r, "dec_lock", "dec_load")
          /\ Globallock = Free
          /\ Globallock' = r
          /\ UNCHANGED <<reg, reader_count>>
       \/ /\ Goto(r, "dec_load", "dec_store")
          /\ Load(r, reader_count)
          /\ UNCHANGED <<reader_count, Globallock>>
       \/ /\ Goto(r, "dec_store", "done")
          /\ reader_count' = reg[r] - 1
          /\ Load(r, Free)
          /\ Globallock' = Free
    /\ UNCHANGED <<ringVars, Qlock, Wlock, hostname, counter, firstipstr,
                   scanned, outfile, dropped>>

Reader(r) ==
    \/ Scan(r) \/ PollFull(r) \/ LockForPush(r) \/ PushStore(r) \/ PushAdvance(r)
    \/ PushFails(r) \/ LeaveCount(r)

-----------------------------------------------------------------------------
(* Writer threads: write_thread_function *)

\* The loads of one queue_is_empty, at steps a, b and c; the writer goes on at
\* full when it found the queue not empty and at empty when it did.
PollEmpty(w, a, b, c, full, empty) ==
    \/ Goto(w, a, b) /\ Load(w, front)
    \/ Goto(w, b, IF reg[w] = rear THEN c ELSE full) /\ Load(w, Free)
    \/ Goto(w, c, IF array[front] = NULL THEN empty ELSE full) /\ UNCHANGED reg

\* Mutant: stops at the first empty queue, readers or no readers.
MutantWhileNoCount(w) ==
    /\ \/ PollEmpty(w, "while_front", "while_rear", "while_slot", "wait_front", "done")
       \/ PollEmpty(w, "wait_front", "wait_rear", "wait_slot", "pop_lock", "wait_front")
    /\ UNCHANGED <<ringVars, lockVars, reader_count, hostname, counter,
                   firstipstr, scanned, outfile, dropped>>

\* The condition of the outer loop.  "|" evaluates both sides, so the load of
\* reader_count decides only after an empty queue, and changes nothing after
\* a queue that was not empty.  It is followed by the loop that waits for the
\* queue to be not empty.
WhileMore(w) ==
    /\ \/ PollEmpty(w, "while_front", "while_rear", "while_slot", "wait_front", "while_count")
       \/ /\ Goto(w, "while_count", IF reader_count > 0 THEN "wait_front" ELSE "done")
          /\ UNCHANGED reg
       \/ PollEmpty(w, "wait_front", "wait_rear", "wait_slot", "pop_lock", "wait_front")
    /\ UNCHANGED <<ringVars, lockVars, reader_count, hostname, counter,
                   firstipstr, scanned, outfile, dropped>>

LockForPop(w) ==
    /\ Goto(w, "pop_lock", "pop")
    /\ Qlock = Free
    /\ Qlock' = w
    /\ UNCHANGED <<ringVars, Wlock, Globallock, reader_count, reg, hostname,
                   counter, firstipstr, scanned, outfile, dropped>>

\* Mutant: takes the first slot of the array rather than the front of the ring.
MutantPopTake(w) ==
    /\ Goto(w, "pop", "pop_advance")
    /\ ~queue_is_empty
    /\ LET i == IF array[0] # NULL THEN 0 ELSE front IN
          /\ hostname' = [hostname EXCEPT ![w] = array[i]]
          /\ array' = [array EXCEPT ![i] = NULL]
    /\ UNCHANGED <<front, rear, lockVars, reader_count, reg, counter,
                   firstipstr, scanned, outfile, dropped>>

\* queue_pop on a queue that is not empty, up to the store of NULL.
PopTake(w) ==
    /\ Goto(w, "pop", "pop_advance")
    /\ ~queue_is_empty
    /\ hostname' = [hostname EXCEPT ![w] = array[front]]
    /\ ClearFront
    /\ UNCHANGED <<front, rear, lockVars, reader_count, reg, counter,
                   firstipstr, scanned, outfile, dropped>>

\* Mutant: leaves the critical section without unlocking.
MutantPopAdvance(w) ==
    /\ Goto(w, "pop_advance", "lookup")
    /\ AdvanceFront
    /\ UNCHANGED <<array, rear, lockVars, reader_count, reg, hostname, counter,
                   firstipstr, scanned, outfile, dropped>>

PopAdvance(w) ==
    /\ Goto(w, "pop_advance", "lookup")
    /\ AdvanceFront
    /\ Qlock' = Free
    /\ UNCHANGED <<array, rear, Wlock, Globallock, reader_count, reg, hostname,
                   counter, firstipstr, scanned, outfile, dropped>>

\* queue_pop returns NULL when another writer emptied the queue since the poll.
PopNothing(w) ==
    /\ Goto(w, "pop", "lookup")
    /\ queue_is_empty
    /\ hostname' = [hostname EXCEPT ![w] = NULL]
    /\ Qlock' = Free
    /\ UNCHANGED <<ringVars, Wlock, Globallock, reader_count, reg, counter,
                   firstipstr, scanned, outfile, dropped>>

\* Mutant: all calls of dnslookup write into one buffer.
MutantLookup(w) ==
    /\ Goto(w, "lookup", "write_lock")
    /\ \/ hostname[w] # NULL /\ firstipstr' = [v \in Writers |-> hostname[w]]
       \/ UNCHANGED firstipstr
    /\ UNCHANGED <<ringVars, lockVars, reader_count, reg, hostname, counter,
                   scanned, outfile, dropped>>

\* dnslookup writes the address buffer only when it succeeds; it never
\* succeeds for a null name.
Lookup(w) ==
    /\ Goto(w, "lookup", "write_lock")
    /\ \/ hostname[w] # NULL /\ firstipstr' = [firstipstr EXCEPT ![w] = hostname[w]]
       \/ UNCHANGED firstipstr
    /\ UNCHANGED <<ringVars, lockVars, reader_count, reg, hostname, counter,
                   scanned, outfile, dropped>>

LockForWrite(w) ==
    /\ Goto(w, "write_lock", "write")
    /\ Wlock = Free
    /\ Wlock' = w
    /\ UNCHANGED <<ringVars, Qlock, Globallock, reader_count, reg, hostname,
                   counter, firstipstr, scanned, outfile, dropped>>

\* Mutant: leaves the critical section without unlocking.
MutantWriteLine(w) ==
    /\ Goto(w, "write", "while_front")
    /\ outfile' = outfile \cup {[by |-> w, n |-> counter[w] + 1,
                                 host |-> hostname[w], ip |-> firstipstr[w]]}
    /\ hostname' = [hostname EXCEPT ![w] = Free]
    /\ counter' = [counter EXCEPT ![w] = @ + 1]
    /\ UNCHANGED <<ringVars, lockVars, reader_count, reg, firstipstr, scanned, dropped>>

\* Write the line, free the hostname, count it and unlock.
WriteLine(w) ==
    /\ Goto(w, "write", "while_front")
    /\ outfile' = outfile \cup {[by |-> w, n |-> counter[w] + 1,
                                 host |-> hostname[w], ip |-> firstipstr[w]]}
    /\ hostname' = [hostname EXCEPT ![w] = Free]
    /\ counter' = [counter EXCEPT ![w] = @ + 1]
    /\ Wlock' = Free
    /\ UNCHANGED <<ringVars, Qlock, Globallock, reader_count, reg, firstipstr,
                   scanned, dropped>>

Writer(w) ==
    \/ WhileMore(w) \/ LockForPop(w) \/ PopTake(w) \/ PopAdvance(w) \/ PopNothing(w)
    \/ Lookup(w) \/ LockForWrite(w) \/ WriteLine(w)

-----------------------------------------------------------------------------
(* The main thread *)

\* Create a reader.  The order does not matter: files and readers are alike.
CreateReader(r) ==
    /\ pc[Main] = "create" /\ pc[r] = "unborn"
    /\ pc' = [pc EXCEPT ![Main] = "inc_load", ![r] = "scan"]
    /\ UNCHANGED <<ringVars, lockVars, reader_count, reg, hostname, counter,
                   firstipstr, scanned, outfile, dropped>>

\* reader_count += 1, without a lock, once the reader runs.
CountReader ==
    /\ \/ /\ Goto(Main, "inc_load", "inc_store")
          /\ Load(Main, reader_count)
          /\ UNCHANGED reader_count
       \/ /\ Goto(Main, "inc_store", "create")
          /\ reader_count' = reg[Main] + 1
          /\ Load(Main, Free)
    /\ UNCHANGED <<ringVars, lockVars, hostname, counter, firstipstr, scanned,
                   outfile, dropped>>

\* Creating the writers one by one adds nothing: a writer that main has not
\* yet created is like one that has not yet run.
CreateWriters ==
    /\ pc[Main] = "create" /\ \A r \in Readers : pc[r] # "unborn"
    /\ pc' = [t \in DOMAIN pc |-> IF t = Main THEN "join"
                                  ELSE IF t \in Writers THEN "while_front" ELSE pc[t]]
    /\ UNCHANGED <<ringVars, lockVars, reader_count, reg, hostname, counter,
                   firstipstr, scanned, outfile, dropped>>

\* Join every thread, then clean up: queue_cleanup pops what is left.
JoinAll ==
    /\ Goto(Main, "join", "exit")
    /\ \A t \in Readers \cup Writers : pc[t] = "done"
    /\ dropped' = dropped \cup {array[i] : i \in {j \in Slots : array[j] # NULL}}
    /\ DrainRing
    /\ UNCHANGED <<lockVars, reader_count, reg, hostname, counter, firstipstr,
                   scanned, outfile>>

MainThread ==
    (\E r \in Readers : CreateReader(r)) \/ CountReader \/ CreateWriters \/ JoinAll

Terminated == pc[Main] = "exit" /\ UNCHANGED vars

Next ==
    \/ \E r \in Readers : Reader(r)
    \/ \E w \in Writers : Writer(w)
    \/ MainThread
    \/ Terminated

Spec == Init /\ [][Next]_vars

\* The scheduler lets every thread go on running.  Weak fairness is enough
\* although the threads contend for mutexes: a run has finitely many hostnames,
\* hence finitely many pushes and pops, and a pop that finds nothing needs a
\* push or a pop since its poll, so each lock is taken finitely often.
FairSpec ==
    /\ Spec
    /\ \A r \in Readers : WF_vars(Reader(r))
    /\ \A w \in Writers : WF_vars(Writer(w))
    /\ WF_vars(MainThread)

-----------------------------------------------------------------------------

ReaderSteps == {"unborn", "scan", "full_front", "full_rear", "full_slot",
    "push_lock", "push", "push_advance", "dec_lock", "dec_load", "dec_store", "done"}
WriterSteps == {"unborn", "while_front", "while_rear", "while_slot", "while_count",
    "wait_front", "wait_rear", "wait_slot", "pop_lock", "pop", "pop_advance",
    "lookup", "write_lock", "write", "done"}
MainSteps == {"create", "inc_load", "inc_store", "join", "exit"}

TypeOK ==
    /\ array \in [Slots -> Hostname \cup {NULL}]
    /\ front \in Slots /\ rear \in Slots
    /\ reader_count \in Int
    /\ Qlock \in Readers \cup Writers \cup {Free}
    /\ Wlock \in Writers \cup {Free}
    /\ Globallock \in Readers \cup {Free}
    /\ pc \in [Readers \cup Writers \cup {Main} -> ReaderSteps \cup WriterSteps \cup MainSteps]
    /\ \A r \in Readers : pc[r] \in ReaderSteps
    /\ \A w \in Writers : pc[w] \in WriterSteps
    /\ pc[Main] \in MainSteps
    /\ reg \in [Readers \cup Writers \cup {Main} -> Int \cup {Free}]
    /\ hostname \in [Readers \cup Writers -> Hostname \cup {NULL, Free}]
    /\ counter \in [Readers \cup Writers -> Nat]
    /\ firstipstr \in [Writers -> Hostname \cup {Garbage}]
    /\ scanned \in [Readers -> 0 .. PerFile]
    /\ outfile \subseteq Line
    /\ dropped \subseteq Hostname

\* Where the ring begins and ends once the thread inside queue_push or
\* queue_pop has finished.
EffFront == IF \E w \in Writers : pc[w] = "pop_advance" THEN Succ(front) ELSE front
EffRear  == IF \E r \in Readers : pc[r] = "push_advance" THEN Succ(rear) ELSE rear

\* Qlock keeps the pushes and pops of all threads from disturbing each other:
\* at every moment the non-null slots are the ones from front up to rear, one
\* half-finished operation aside.
RingShape == WellFormed(array, EffFront, EffRear)

\* Used by many threads, some of which poll without the lock, the ring is a
\* first-in first-out queue: no payload that is in it is lost, duplicated or overtaken.
HostnameFifo ==
    INSTANCE Fifo WITH items <- Contents(array, EffFront, EffRear), Capacity <- maxSize,
                       live <- pc[Main] # "exit", Payload <- Hostname
ImplementsFifo == HostnameFifo!Spec

\* Everything that refers to hostname h: a thread, a slot, or the line written for it.
Owners(h) ==
    {<<"thread", t>> : t \in {u \in Readers \cup Writers : hostname[u] = h}}
    \cup {<<"slot", i>> : i \in {j \in Slots : array[j] = h}}
    \cup {<<"line", l>> : l \in {m \in outfile : m.host = h}}

\* A scanned hostname is never referred to twice, and it goes without an owner only
\* if it was dropped, by a push that failed or by the final cleanup; from then on
\* nothing refers to it again (and nothing frees it: its memory is lost).  So no
\* hostname is looked up or written twice, none is used after free(hostname), and
\* each that was not dropped is on its way or in the output.
OneOwnerUnlessDropped ==
    \A h \in Hostname :
        IF h[2] <= scanned[h[1]] /\ h \notin dropped
        THEN \E o \in Owners(h) : Owners(h) = {o}
        ELSE Owners(h) = {}

\* A writer writes the hostnames of one file in the order of that file.
FileOrderKept ==
    \A l, m \in outfile :
        l.by = m.by /\ l.host # NULL /\ m.host # NULL /\ l.host[1] = m.host[1] =>
            (l.n < m.n <=> l.host[2] < m.host[2])

\* A single reader never pushes on a full queue although it polls without the
\* lock: nothing but the final cleanup takes hostnames away.
OneReaderDropsNothing ==
    Cardinality(Readers) = 1 /\ pc[Main] # "exit" => dropped = {}

\* With a single reader the writers stay until it has pushed everything, even
\* though main counts the reader only after it runs.
WritersOutliveReader ==
    Cardinality(Readers) = 1 =>
        \A w \in Writers, r \in Readers : pc[w] = "done" => pc[r] = "done"

\* A single reader gets through its file, however full the queue.
ReaderFinishes == \A r \in Readers : <>(pc[r] = "done")

\* Every hostname it scans is written in the end, or left in the queue when
\* the threads have been joined.
Settled(h) == h \in dropped \/ \E l \in outfile : l.host = h
HostnamesSettle ==
    \A h \in Hostname : (h[2] <= scanned[h[1]]) ~> Settled(h)

-----------------------------------------------------------------------------
(* What the comments and the reference output promise and the code does not *)
(* keep.                                                                    *)

\* multi-lookup.c:192 "Wait for writer and reader threads to join before
\* ending": main gets to its end.
MainEnds == <>(pc[Main] = "exit")

\* multi-lookup.c:92 "Counter will keep track of how many hostnames pushed to
\* the stack": a finished reader has counted exactly the ones it pushed.
CounterTellsPushed ==
    \A r \in Readers :
        pc[r] = "done" /\ pc[Main] # "exit" =>
            counter[r] = Cardinality({h \in Hostname : h[1] = r /\ h[2] <= scanned[r]}
                                     \ dropped)

\* multi-lookup.c:41 "this is the counter to keep track of how many hostnames
\* each thread resolves": a finished writer has counted hostnames only.
CounterTellsHostnames ==
    \A w \in Writers :
        pc[w] = "done" =>
            counter[w] = Cardinality({l \in outfile : l.by = w /\ l.host # NULL})

\* multi-lookup.c:115 "Need to lock the Globallock to ensure it is locked so it
\* can't be changed by another thread at the same time": once all readers have
\* been counted in and out, none is left.
CountReturnsToZero ==
    (\A r \in Readers : pc[r] = "done") /\ pc[Main] = "join" => reader_count = 0

\* multi-lookup.c:46 "The thread runs through this loop until there are no
\* reader threads left or the queue isnt empty", of a loop whose condition asks
\* for both: a writer that leaves it leaves no hostname behind in the queue.
WriterLeavesEmptyQueue ==
    [][\A w \in Writers : pc[w] # "done" /\ pc'[w] = "done" => queue_is_empty]_vars

\* When dnslookup fails the buffer keeps an earlier address, and the line shows
\* it; but never one from another writer's lookup, nor one of a hostname whose
\* own line the same writer has not written before.
AddressesStayWithWriter ==
    \A l \in outfile :
        \/ l.ip \in {Garbage, l.host}
        \/ \E e \in outfile : e.by = l.by /\ e.n < l.n /\ e.host = l.ip

\* results-ref.txt:21 "sdjjdsaf.com,": no line shows an address that is not the
\* one of its own hostname, be it another hostname's or an unwritten buffer.
AddressOfItsHostname ==
    \A l \in outfile : l.ip \notin (Hostname \cup {Garbage}) \ {l.host}
=============================================================================
