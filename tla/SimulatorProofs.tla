--------------------------- MODULE SimulatorProofs ---------------------------
(***************************************************************************)
(* Proofs about PA4's simulator, for any programs and any number of slots, *)
(* pages and frames: under any pager the types, the conservation of the    *)
(* frames and the service of the queue, and then what the pagers of the    *)
(* repository promise.                                                     *)
(***************************************************************************)
EXTENDS Simulator, PagerPromises, Sequences, FiniteSetTheorems, WellFoundedInduction, TLAPS

CONSTANTS Beyond, MAXITERATIONS
VARIABLES called, testRun, iterations, recent, next, freqArray, pastAccessed, calls

\* simulator.c linked with one of its pagers.
Linked == INSTANCE Pagers

\* A running process stays inside its program: the exit is its last address.
PcInside == \A i \in Slots : loaded(i) => pc[i] < Prog(i).size

\* The inductive invariant.  The counter of free frames goes up by the pages of
\* a slot when its process exits and by those that leave when time passes, so
\* its being right rests on the pages of every slot, those of idle slots too.
Inv == TypeOK /\ PcInside /\ FramesConserved /\ QueueServedOnce

-----------------------------------------------------------------------------
(* Sets of pages *)

LEMMA PagesFinite ==
  ASSUME NEW S, S \subseteq Slots \X Pages
  PROVE  IsFiniteSet(S) /\ Cardinality(S) \in Nat
<1>1. IsFiniteSet(Slots) /\ IsFiniteSet(Pages)
  BY SimulatorAssumption, FS_Interval DEF Slots, Pages
<1>2. IsFiniteSet(Slots \X Pages)
  BY <1>1, FS_Product
<1>. QED
  BY <1>2, FS_Subset, FS_CardinalityType

\* Removing a part of a set of pages.
LEMMA PagesWithout ==
  ASSUME NEW S, S \subseteq Slots \X Pages, NEW T, T \subseteq S
  PROVE  /\ Cardinality(S \ T) = Cardinality(S) - Cardinality(T)
         /\ Cardinality(T) \in 0 .. Cardinality(S)
<1>1. IsFiniteSet(S) /\ Cardinality(S) \in Nat /\ IsFiniteSet(T) /\ Cardinality(T) \in Nat
  BY PagesFinite
<1>2. S \cap T = T
  OBVIOUS
<1>3. Cardinality(S \ T) = Cardinality(S) - Cardinality(T)
  BY <1>1, <1>2, FS_Difference
<1>4. Cardinality(T) <= Cardinality(S)
  BY <1>1, FS_Subset
<1>. QED
  BY <1>1, <1>3, <1>4

\* The pages of one slot, counted as pages of all slots.
LEMMA PagesOfSlot ==
  ASSUME NEW i \in Slots, NEW S \in SUBSET Pages
  PROVE  /\ Cardinality({i} \X S) = Cardinality(S)
         /\ {i} \X S \subseteq Slots \X Pages
<1>1. IsFiniteSet(Pages)
  BY SimulatorAssumption, FS_Interval DEF Pages
<1>2. IsFiniteSet(S) /\ Cardinality(S) \in Nat
  BY <1>1, FS_Subset, FS_CardinalityType
<1>3. IsFiniteSet({i}) /\ Cardinality({i}) = 1
  BY FS_Singleton
<1>4. Cardinality({i} \X S) = 1 * Cardinality(S)
  BY <1>2, <1>3, FS_Product
<1>. QED
  BY <1>2, <1>4

\* The counter cannot leave its range while the frames are conserved.
LEMMA CounterInRange ==
  ASSUME NEW avail \in Int, NEW S, S \subseteq Slots \X Pages,
         avail + Cardinality(S) = PHYSICALPAGES, avail >= 0
  PROVE  avail \in 0 .. PHYSICALPAGES
  BY PagesFinite, SimulatorAssumption

\* A frame changes sides.
LEMMA OneFrameTaken ==
  ASSUME NEW P \in Nat, NEW avail \in 0 .. P, avail # 0, NEW held \in Nat, avail + held = P
  PROVE  avail - 1 + (held + 1) = P /\ avail - 1 \in 0 .. P
  OBVIOUS

-----------------------------------------------------------------------------
(* The initial state *)

LEMMA Start == Init => Inv
<1>. SUFFICES ASSUME Init PROVE Inv
  OBVIOUS
<1>. DEFINE M == MAXPROCPAGES * PAGESIZE
<1>1. M \in Nat \ {0}
  BY SimulatorAssumption
<1>2. Addresses = 0 .. M - 1
  BY DEF Addresses
<1>. HIDE DEF M
<1>3. 0 \in Addresses
  BY <1>1, <1>2
<1>4. TypeOK
  BY <1>3, SimulatorAssumption
     DEF Init, initqueue, TypeOK, Queue, Slots, NULL, OUT, AllOut, Untried
<1>5. PcInside
  <2>. SUFFICES ASSUME NEW i \in Slots, loaded(i) PROVE 0 < Prog(i).size
    BY DEF PcInside, Init
  <2>1. queuetype[processes[i]] \in Kinds
    BY <1>4 DEF TypeOK, loaded
  <2>. QED
    BY <2>1, SimulatorAssumption DEF Fits, Prog
<1>6. FramesConserved
  <2>1. HeldPages = {}
    BY SimulatorAssumption DEF HeldPages, Init, OUT, AllOut
  <2>2. \A i \in Slots : HeldBySlot(i) = {}
    BY SimulatorAssumption DEF HeldBySlot, Init, OUT, AllOut
  <2>. QED
    BY <2>1, <2>2, FS_EmptySet, SimulatorAssumption DEF FramesConserved, Init
<1>7. QueueServedOnce
  BY SimulatorAssumption DEF QueueServedOnce, Init, loaded, Slots, NULL
<1>. QED
  BY <1>4, <1>5, <1>6, <1>7 DEF Inv

-----------------------------------------------------------------------------
(* allstep *)

\* dequeue hands out the processes of the queue one after the other.
LEMMA ReloadKeeps ==
  ASSUME Inv, NEW i \in Slots, Reload(i), queuetype' = queuetype
  PROVE  /\ queueend' \in 0 .. QUEUESIZE
         /\ processes' \in [Slots -> Queue \cup {NULL}]
         /\ pc' \in [Slots -> Addresses]
         /\ bcount' \in [Slots -> [Addresses -> Nat]]
         /\ PcInside' /\ QueueServedOnce'
         /\ \A k \in Slots : k # i => processes'[k] = processes[k]
<1>. DEFINE M == MAXPROCPAGES * PAGESIZE
<1>1. M \in Nat \ {0}
  BY SimulatorAssumption
<1>2. Addresses = 0 .. M - 1
  BY DEF Addresses
<1>. HIDE DEF M
<1>3. 0 \in Addresses
  BY <1>1, <1>2
<1>4. /\ queueend' \in 0 .. QUEUESIZE
      /\ processes' \in [Slots -> Queue \cup {NULL}]
      /\ \A k \in Slots : k # i => processes'[k] = processes[k]
  BY SimulatorAssumption DEF Inv, TypeOK, Reload, Queue, dequeue
<1>5. /\ pc' \in [Slots -> Addresses]
      /\ bcount' \in [Slots -> [Addresses -> Nat]]
      /\ pc'[i] = 0 /\ \A k \in Slots : k # i => pc'[k] = pc[k]
  BY <1>3 DEF Inv, TypeOK, Reload, process_load, Untried
<1>6. PcInside'
  <2>. SUFFICES ASSUME NEW k \in Slots, processes'[k] # NULL
                PROVE  pc'[k] < programs[queuetype[processes'[k]]].size
    BY DEF PcInside, loaded, Prog
  <2>1. CASE k = i
    <3>1. queuetype[processes'[i]] \in Kinds
      BY <1>4, <2>1 DEF Inv, TypeOK
    <3>. QED
      BY <1>5, <2>1, <3>1, SimulatorAssumption DEF Fits
  <2>2. CASE k # i
    BY <1>4, <1>5, <2>2 DEF Inv, PcInside, loaded, Prog
  <2>. QED
    BY <2>1, <2>2
<1>7. QueueServedOnce'
  <2>1. /\ queueend \in 0 .. QUEUESIZE /\ QUEUESIZE \in Nat
        /\ \A k \in Slots : processes[k] = NULL => queueend = QUEUESIZE
        /\ \A k \in Slots : processes[k] # NULL => processes[k] \in 0 .. queueend - 1
        /\ \A k, l \in Slots : processes[k] # NULL /\ processes[k] = processes[l] => k = l
    BY SimulatorAssumption DEF QueueServedOnce, Inv, TypeOK, loaded, Queue
  <2>2. CASE queueend < QUEUESIZE
    <3>1. processes'[i] = queueend /\ queueend' = queueend + 1
      BY <2>2 DEF Reload, Inv, TypeOK, dequeue
    <3>. QED
      BY <1>4, <2>1, <2>2, <3>1 DEF QueueServedOnce, loaded, NULL
  <2>3. CASE queueend = QUEUESIZE
    <3>1. processes'[i] = NULL /\ queueend' = queueend
      BY <2>1, <2>3 DEF Reload, Inv, TypeOK, dequeue
    <3>. QED
      BY <1>4, <2>1, <2>3, <3>1 DEF QueueServedOnce, loaded
  <2>. QED
    BY <2>1, <2>2, <2>3
<1>. QED
  BY <1>4, <1>5, <1>6, <1>7

\* Frames that nobody touches stay conserved while no busy slot becomes idle.
LEMMA FramesUntouched ==
  ASSUME Inv, UNCHANGED <<pages, pagesavail>>,
         \A k \in Slots : loaded(k)' \/ ~loaded(k)
  PROVE  /\ FramesConserved'
         /\ pages' \in [Slots -> [Pages -> OUT .. PAGEWAIT]]
         /\ pagesavail' \in 0 .. PHYSICALPAGES
<1>1. HeldPages' = HeldPages
  BY DEF HeldPages
<1>2. \A k \in Slots : HeldBySlot(k)' = HeldBySlot(k)
  BY DEF HeldBySlot
<1>. QED
  BY <1>1, <1>2 DEF FramesConserved, Inv, TypeOK

\* process_unload gives back exactly the frames of its slot.
LEMMA UnloadKeeps ==
  ASSUME Inv, NEW i \in Slots, process_unload(i),
         \A k \in Slots : k # i => loaded(k)' \/ ~loaded(k)
  PROVE  /\ FramesConserved'
         /\ pages' \in [Slots -> [Pages -> OUT .. PAGEWAIT]]
         /\ pagesavail' \in 0 .. PHYSICALPAGES
<1>. DEFINE T == {i} \X HeldBySlot(i)
<1>1. /\ Cardinality(T) = Cardinality(HeldBySlot(i))
      /\ T \subseteq HeldPages /\ HeldPages \subseteq Slots \X Pages
  BY PagesOfSlot DEF HeldBySlot, HeldPages
<1>2. pages' \in [Slots -> [Pages -> OUT .. PAGEWAIT]]
  BY SimulatorAssumption DEF process_unload, Inv, TypeOK, OUT, AllOut
<1>3. HeldPages' = HeldPages \ T
  <2>1. ASSUME NEW k \in Slots, NEW j \in Pages
        PROVE  <<k, j>> \in HeldPages' <=> <<k, j>> \in HeldPages \ T
    BY SimulatorAssumption DEF HeldPages, HeldBySlot, process_unload, Inv, TypeOK, OUT, AllOut
  <2>. QED
    BY <1>1, <2>1 DEF HeldPages
<1>4. /\ Cardinality(HeldPages') = Cardinality(HeldPages) - Cardinality(T)
      /\ Cardinality(T) \in 0 .. Cardinality(HeldPages)
      /\ Cardinality(HeldPages) \in Nat
  BY <1>1, <1>3, PagesWithout, PagesFinite
<1>5. pagesavail' + Cardinality(HeldPages') = PHYSICALPAGES /\ pagesavail' \in 0 .. PHYSICALPAGES
  <2>1. pagesavail' = pagesavail + Cardinality(T)
    BY <1>1 DEF process_unload
  <2>2. pagesavail + Cardinality(HeldPages) = PHYSICALPAGES /\ pagesavail \in 0 .. PHYSICALPAGES
    BY DEF Inv, FramesConserved, TypeOK
  <2>. QED
    BY <1>4, <2>1, <2>2, SimulatorAssumption
<1>6. ASSUME NEW k \in Slots, ~loaded(k)' PROVE HeldBySlot(k)' = {}
  <2>1. CASE k = i
    BY <2>1, SimulatorAssumption DEF HeldBySlot, process_unload, Inv, TypeOK, OUT, AllOut
  <2>2. CASE k # i
    BY <1>6, <2>2 DEF HeldBySlot, process_unload, Inv, TypeOK, FramesConserved
  <2>. QED
    BY <2>1, <2>2
<1>. QED
  BY <1>2, <1>5, <1>6 DEF FramesConserved

\* The slot's step, one lemma for each of its outcomes.
LEMMA NextSlotKeeps ==
  ASSUME Inv, NextSlot
  PROVE  phase' \in {"step", "age", "page", "end"} /\ cursor' \in Slots
<1>1. cursor \in 0 .. procs - 1 /\ phase \in {"step", "age", "page", "end"} /\ procs \in Nat \ {0}
  BY SimulatorAssumption DEF Inv, TypeOK, Slots
<1>2. CASE cursor < procs - 1
  BY <1>1, <1>2 DEF NextSlot, Slots
<1>3. CASE ~(cursor < procs - 1)
  BY <1>1, <1>3 DEF NextSlot, Slots
<1>. QED
  BY <1>2, <1>3

LEMMA StepEmptyKeeps ==
  ASSUME Inv, NEW i \in Slots, StepEmpty(i), UNCHANGED queuetype, NextSlot
  PROVE  Inv'
<1>1. phase' \in {"step", "age", "page", "end"} /\ cursor' \in Slots
  BY NextSlotKeeps
<1>2. \A k \in Slots : loaded(k)' \/ ~loaded(k)
  BY ReloadKeeps DEF StepEmpty, loaded
<1>. QED
  BY <1>1, <1>2, ReloadKeeps, FramesUntouched DEF StepEmpty, Inv, TypeOK

LEMMA StepBlockedKeeps ==
  ASSUME Inv, NEW i \in Slots, StepBlocked(i), UNCHANGED queuetype, NextSlot
  PROVE  Inv'
<1>1. phase' \in {"step", "age", "page", "end"} /\ cursor' \in Slots
  BY NextSlotKeeps
<1>2. PcInside' /\ QueueServedOnce'
  BY DEF StepBlocked, Inv, PcInside, QueueServedOnce, loaded, Prog
<1>3. \A k \in Slots : loaded(k)' \/ ~loaded(k)
  BY DEF StepBlocked, loaded
<1>. QED
  BY <1>1, <1>2, <1>3, FramesUntouched DEF StepBlocked, Inv, TypeOK

LEMMA StepExitKeeps ==
  ASSUME Inv, NEW i \in Slots, StepExit(i), UNCHANGED queuetype, NextSlot
  PROVE  Inv'
<1>1. phase' \in {"step", "age", "page", "end"} /\ cursor' \in Slots
  BY NextSlotKeeps
<1>2. \A k \in Slots : k # i => loaded(k)' \/ ~loaded(k)
  BY ReloadKeeps DEF StepExit, loaded
<1>. QED
  BY <1>1, <1>2, ReloadKeeps, UnloadKeeps DEF StepExit, Inv, TypeOK

\* A branch of the program, and the comparison with the zeroed entry of a
\* program without branches, lead to an address of the program.
LEMMA BranchKeeps ==
  ASSUME Inv, NEW i \in Slots, loaded(i),
         NEW b \in BranchesAt(i), process_dobranch(i, b)
  PROVE  /\ pc' \in [Slots -> Addresses] /\ bcount' \in [Slots -> [Addresses -> Nat]]
         /\ pc'[i] < Prog(i).size /\ \A k \in Slots : k # i => pc'[k] = pc[k]
<1>. DEFINE M == MAXPROCPAGES * PAGESIZE
            size == Prog(i).size
<1>1. M \in Nat \ {0}
  BY SimulatorAssumption
<1>2. Addresses = 0 .. M - 1
  BY DEF Addresses
<1>3. queuetype[processes[i]] \in Kinds
  BY DEF Inv, TypeOK, loaded
<1>4. /\ size \in Nat \ {0} /\ size <= M
      /\ b.whereto \in Nat /\ b.whereto < size
  <2>1. CASE b = PhantomBranch
    BY <1>3, <2>1, SimulatorAssumption DEF Fits, Prog, PhantomBranch
  <2>2. CASE b \in Prog(i).branches
    <3>1. b \in BranchRecord /\ b.whereto < size /\ size \in Nat \ {0} /\ size <= M
      BY <1>3, <2>2, SimulatorAssumption DEF Fits, Prog
    <3>. QED
      BY <3>1 DEF BranchRecord
  <2>. QED
    BY <2>1, <2>2 DEF BranchesAt
<1>. HIDE DEF M
<1>5. pc[i] \in Addresses /\ pc[i] < size
  BY DEF Inv, TypeOK, PcInside
<1>6. bcount' \in [Slots -> [Addresses -> Nat]]
  <2>1. bcount \in [Slots -> [Addresses -> Nat]] /\ bcount[i][pc[i]] \in Nat
    BY <1>5 DEF Inv, TypeOK
  <2>2. \/ bcount' = [bcount EXCEPT ![i] = [bcount[i] EXCEPT ![pc[i]] = bcount[i][pc[i]] + 1]]
        \/ bcount' = [bcount EXCEPT ![i] = [bcount[i] EXCEPT ![pc[i]] = 0]]
        \/ bcount' = bcount
    BY DEF process_dobranch
  <2>3. \A n \in Nat : [bcount[i] EXCEPT ![pc[i]] = n] \in [Addresses -> Nat]
    BY <2>1
  <2>. QED
    BY <2>1, <2>2, <2>3
<1>7. \E n \in Addresses : n < size /\ pc' = [pc EXCEPT ![i] = n]
  <2>. HIDE DEF size
  <2>1. b.whereto \in Addresses /\ 0 \in Addresses
    BY <1>1, <1>2, <1>4
  <2>2. ~(pc[i] + 1 >= size) => pc[i] + 1 \in Addresses
    BY <1>1, <1>2, <1>4, <1>5
  <2>. QED
    BY <1>2, <1>4, <1>5, <2>1, <2>2 DEF process_dobranch, size
<1>. QED
  BY <1>6, <1>7 DEF Inv, TypeOK

LEMMA StepComputeKeeps ==
  ASSUME Inv, NEW i \in Slots, StepCompute(i), UNCHANGED queuetype, NextSlot
  PROVE  Inv'
<1>1. phase' \in {"step", "age", "page", "end"} /\ cursor' \in Slots
  BY NextSlotKeeps
<1>2. /\ pc' \in [Slots -> Addresses] /\ bcount' \in [Slots -> [Addresses -> Nat]]
      /\ pc'[i] < Prog(i).size /\ \A k \in Slots : k # i => pc'[k] = pc[k]
  <2>1. CASE \E b \in BranchesAt(i) : process_dobranch(i, b)
    BY <2>1, BranchKeeps DEF StepCompute
  <2>2. CASE /\ pc' = [pc EXCEPT ![i] = IF pc[i] + 1 > Prog(i).size THEN 0 ELSE pc[i] + 1]
             /\ UNCHANGED bcount
    <3>. DEFINE M == MAXPROCPAGES * PAGESIZE
                size == Prog(i).size
    <3>1. M \in Nat \ {0}
      BY SimulatorAssumption
    <3>2. Addresses = 0 .. M - 1
      BY DEF Addresses
    <3>3. queuetype[processes[i]] \in Kinds
      BY DEF Inv, TypeOK, loaded, StepCompute
    <3>4. size \in Nat \ {0} /\ size <= M /\ Prog(i).exit = size - 1
      BY <3>3, SimulatorAssumption DEF Fits, Prog
    <3>. HIDE DEF M
    <3>5. pc[i] \in Addresses /\ pc[i] < size /\ pc[i] # size - 1
      BY <3>4 DEF Inv, TypeOK, PcInside, StepCompute
    <3>6. pc[i] + 1 \in Addresses /\ pc[i] + 1 < size
      BY <3>1, <3>2, <3>4, <3>5
    <3>7. pc' = [pc EXCEPT ![i] = pc[i] + 1]
      <4>1. ~(pc[i] + 1 > size)
        BY <3>1, <3>2, <3>4, <3>6
      <4>. QED
        BY <2>2, <4>1
    <3>. QED
      BY <2>2, <3>6, <3>7 DEF Inv, TypeOK
  <2>. QED
    BY <2>1, <2>2 DEF StepCompute
<1>3. PcInside' /\ QueueServedOnce'
  BY <1>2 DEF StepCompute, Inv, PcInside, QueueServedOnce, loaded, Prog
<1>4. \A k \in Slots : loaded(k)' \/ ~loaded(k)
  BY DEF StepCompute, loaded
<1>. QED
  BY <1>1, <1>2, <1>3, <1>4, FramesUntouched DEF StepCompute, Inv, TypeOK

LEMMA allstepKeeps ==
  ASSUME Inv, allstep
  PROVE  Inv'
<1>1. cursor \in Slots /\ UNCHANGED queuetype /\ NextSlot
  BY DEF Inv, TypeOK, allstep
<1>. QED
  BY <1>1, StepEmptyKeeps, StepBlockedKeeps, StepExitKeeps, StepComputeKeeps DEF allstep

-----------------------------------------------------------------------------
(* allage *)

\* Time takes away exactly the pages that it gives back to the counter.
LEMMA allageKeeps ==
  ASSUME Inv, allage
  PROVE  Inv'
<1>1. pages' \in [Slots -> [Pages -> OUT .. PAGEWAIT]]
  <2>1. \A n \in OUT .. PAGEWAIT : Aged(n) \in OUT .. PAGEWAIT
    BY SimulatorAssumption DEF Aged, OUT
  <2>2. \A k \in Slots, j \in Pages : pages[k][j] \in OUT .. PAGEWAIT
    BY DEF Inv, TypeOK
  <2>. QED
    BY <2>1, <2>2 DEF allage
<1>2. PcInside' /\ QueueServedOnce'
  BY DEF allage, Inv, PcInside, QueueServedOnce, loaded, Prog
<1>3. HeldPages' = HeldPages \ Leaving
  <2>1. ASSUME NEW k \in Slots, NEW j \in Pages
        PROVE  <<k, j>> \in HeldPages' <=> <<k, j>> \in HeldPages \ Leaving
    <3>1. pages[k][j] \in OUT .. PAGEWAIT
      BY DEF Inv, TypeOK
    <3>2. pages'[k][j] = IF loaded(k) THEN Aged(pages[k][j]) ELSE pages[k][j]
      BY DEF allage
    <3>. QED
      BY <3>1, <3>2, SimulatorAssumption DEF HeldPages, Leaving, Aged, OUT
  <2>. QED
    BY <2>1 DEF HeldPages
<1>4. Leaving \subseteq HeldPages /\ HeldPages \subseteq Slots \X Pages
  BY SimulatorAssumption DEF Leaving, HeldPages
<1>5. /\ Cardinality(HeldPages') = Cardinality(HeldPages) - Cardinality(Leaving)
      /\ Cardinality(Leaving) \in 0 .. Cardinality(HeldPages)
      /\ Cardinality(HeldPages) \in Nat
  BY <1>3, <1>4, PagesWithout, PagesFinite
<1>6. pagesavail' + Cardinality(HeldPages') = PHYSICALPAGES /\ pagesavail' \in 0 .. PHYSICALPAGES
  <2>1. pagesavail' = pagesavail + Cardinality(Leaving)
    BY DEF allage
  <2>2. pagesavail + Cardinality(HeldPages) = PHYSICALPAGES /\ pagesavail \in 0 .. PHYSICALPAGES
    BY DEF Inv, FramesConserved, TypeOK
  <2>. QED
    BY <1>5, <2>1, <2>2, SimulatorAssumption
<1>7. ASSUME NEW k \in Slots, ~loaded(k)' PROVE HeldBySlot(k)' = {}
  BY <1>7 DEF allage, HeldBySlot, Inv, FramesConserved, loaded
<1>8. phase' \in {"step", "age", "page", "end"} /\ cursor' \in Slots
  BY SimulatorAssumption DEF allage, Slots
<1>. QED
  BY <1>1, <1>2, <1>6, <1>7, <1>8 DEF allage, Inv, TypeOK, FramesConserved

-----------------------------------------------------------------------------
(* The calls of the pager *)

\* Only the pages and the counter change while the pager runs.
LEMMA PagerKeepsProcesses ==
  ASSUME Inv, processesUnchanged
  PROVE  /\ PcInside' /\ QueueServedOnce'
         /\ \A k \in Slots : loaded(k)' <=> loaded(k)
  BY DEF processesUnchanged, Inv, PcInside, QueueServedOnce, loaded, Prog

\* A page that starts to come in takes one free frame.
LEMMA PageinKeeps ==
  ASSUME Inv, NEW i \in Slots, NEW j \in Pages, PageinStarts(i, j), pagein(i, j),
         processesUnchanged
  PROVE  /\ pages' = [pages EXCEPT ![i][j] = PAGEWAIT]
         /\ pages' \in [Slots -> [Pages -> OUT .. PAGEWAIT]]
         /\ pagesavail' \in 0 .. PHYSICALPAGES /\ pagesavail' = pagesavail - 1
         /\ <<i, j>> \notin HeldPages
         /\ FramesConserved'
<1>1. /\ pages' = [pages EXCEPT ![i][j] = PAGEWAIT]
      /\ pagesavail' = pagesavail - 1
      /\ loaded(i) /\ pagesavail # 0
  BY DEF pagein, PageinStarts, Valid
<1>2. pages' \in [Slots -> [Pages -> OUT .. PAGEWAIT]]
  BY <1>1, SimulatorAssumption DEF Inv, TypeOK, OUT
<1>3. HeldPages' = HeldPages \cup {<<i, j>>} /\ <<i, j>> \notin HeldPages
  <2>1. ASSUME NEW k \in Slots, NEW l \in Pages
        PROVE  pages'[k][l] = IF k = i /\ l = j THEN PAGEWAIT ELSE pages[k][l]
    BY <1>1 DEF Inv, TypeOK
  <2>2. pages[i][j] \in OUT .. PAGEWAIT /\ ~(pages[i][j] >= -PAGEWAIT)
    BY SimulatorAssumption DEF PageinStarts, Inv, TypeOK, OUT
  <2>3. PAGEWAIT >= -PAGEWAIT
    BY SimulatorAssumption
  <2>. QED
    BY <2>1, <2>2, <2>3 DEF HeldPages
<1>4. Cardinality(HeldPages') = Cardinality(HeldPages) + 1 /\ Cardinality(HeldPages) \in Nat
  <2>1. HeldPages \subseteq Slots \X Pages
    BY DEF HeldPages
  <2>. QED
    BY <1>3, <2>1, PagesFinite, FS_AddElement
<1>5. /\ pagesavail' + Cardinality(HeldPages') = PHYSICALPAGES
      /\ pagesavail' \in 0 .. PHYSICALPAGES
  <2>1. pagesavail + Cardinality(HeldPages) = PHYSICALPAGES /\ pagesavail \in 0 .. PHYSICALPAGES
    BY DEF Inv, FramesConserved, TypeOK
  <2>2. PHYSICALPAGES \in Nat
    BY SimulatorAssumption
  <2>3. /\ pagesavail - 1 + (Cardinality(HeldPages) + 1) = PHYSICALPAGES
        /\ pagesavail - 1 \in 0 .. PHYSICALPAGES
    BY <1>1, <1>4, <2>1, <2>2, OneFrameTaken
  <2>. QED
    BY <1>1, <1>4, <2>3
<1>6. ASSUME NEW k \in Slots, ~loaded(k)' PROVE HeldBySlot(k)' = {}
  <2>1. k # i /\ ~loaded(k)
    BY <1>1, <1>6, PagerKeepsProcesses
  <2>2. pages'[k] = pages[k]
    BY <1>1, <2>1 DEF Inv, TypeOK
  <2>. QED
    BY <2>1, <2>2 DEF HeldBySlot, Inv, FramesConserved
<1>. QED
  BY <1>1, <1>2, <1>3, <1>5, <1>6 DEF FramesConserved

\* A page that starts to go out keeps its frame for the time being.
LEMMA PageoutKeeps ==
  ASSUME Inv, NEW i \in Slots, NEW j \in Pages, Valid(i, j), pages[i][j] = 0, pageout(i, j),
         processesUnchanged
  PROVE  /\ pages' = [pages EXCEPT ![i][j] = -1]
         /\ pages' \in [Slots -> [Pages -> OUT .. PAGEWAIT]]
         /\ FramesConserved'
<1>1. pages' = [pages EXCEPT ![i][j] = -1] /\ pagesavail' = pagesavail
  BY DEF pageout
<1>2. pages' \in [Slots -> [Pages -> OUT .. PAGEWAIT]]
  BY <1>1, SimulatorAssumption DEF Inv, TypeOK, OUT
<1>3. ASSUME NEW k \in Slots, NEW l \in Pages
      PROVE  pages'[k][l] >= -PAGEWAIT <=> pages[k][l] >= -PAGEWAIT
  <2>1. CASE k = i /\ l = j
    BY <1>1, <2>1, SimulatorAssumption DEF Inv, TypeOK
  <2>2. CASE ~(k = i /\ l = j)
    BY <1>1, <2>2 DEF Inv, TypeOK
  <2>. QED
    BY <2>1, <2>2
<1>4. HeldPages' = HeldPages
  BY <1>3 DEF HeldPages
<1>5. \A k \in Slots : HeldBySlot(k)' = HeldBySlot(k)
  BY <1>3 DEF HeldBySlot
<1>. QED
  BY <1>1, <1>2, <1>4, <1>5, PagerKeepsProcesses DEF FramesConserved, Inv

LEMMA PagerCallKeeps ==
  ASSUME Inv, NEW i, NEW j, PagerCall(i, j)
  PROVE  Inv'
<1>1. processesUnchanged /\ UNCHANGED <<phase, cursor>>
  BY DEF PagerCall
<1>2. /\ pages' \in [Slots -> [Pages -> OUT .. PAGEWAIT]]
      /\ pagesavail' \in 0 .. PHYSICALPAGES
      /\ FramesConserved'
  <2>1. CASE pagein(i, j) /\ PageinStarts(i, j)
    BY <1>1, <2>1, PageinKeeps DEF PageinStarts, Valid
  <2>2. CASE pageout(i, j) /\ Valid(i, j) /\ pages[i][j] = 0
    BY <1>1, <2>2, PageoutKeeps DEF pageout, Valid, Inv, TypeOK
  <2>3. CASE UNCHANGED <<pages, pagesavail>>
    BY <1>1, <2>3, PagerKeepsProcesses, FramesUntouched
  <2>. QED
    BY <2>1, <2>2, <2>3 DEF PagerCall, pagein, pageout
<1>. QED
  BY <1>1, <1>2, PagerKeepsProcesses DEF Inv, TypeOK, processesUnchanged

LEMMA PageitReturnsKeeps ==
  ASSUME Inv, PageitReturns
  PROVE  Inv'
<1>1. processesUnchanged /\ UNCHANGED <<pages, pagesavail>>
  BY DEF PageitReturns
<1>2. phase' \in {"step", "age", "page", "end"} /\ cursor' \in Slots
  BY SimulatorAssumption DEF PageitReturns, Slots
<1>. QED
  BY <1>1, <1>2, PagerKeepsProcesses, FramesUntouched DEF Inv, TypeOK, processesUnchanged

LEMMA StutterKeeps ==
  ASSUME Inv, UNCHANGED vars
  PROVE  Inv'
  BY DEF vars, Inv, TypeOK, PcInside, FramesConserved, QueueServedOnce, loaded, Prog,
         HeldPages, HeldBySlot

LEMMA StepKeeps == Inv /\ [Next]_vars => Inv'
  BY allstepKeeps, allageKeeps, PagerCallKeeps, PageitReturnsKeeps, StutterKeeps
     DEF Next, Ended

-----------------------------------------------------------------------------
(* The theorems *)

THEOREM Invariance == Spec => []Inv
  BY Start, StepKeeps, PTL DEF Spec

\* The position in the queue, the program counters, the page states and the
\* counter of free frames of simulator.c stay in their ranges, whatever pager
\* runs.
THEOREM TypeCorrect == Spec => []TypeOK
<1>1. Inv => TypeOK
  BY DEF Inv
<1>. QED
  BY <1>1, Invariance, PTL

\* pagesavail is right: however the pager calls pagein and pageout and however
\* processes exit with pages on their way, every frame is free or held by one
\* page.
THEOREM FramesAreConserved == Spec => []FramesConserved
<1>1. Inv => FramesConserved
  BY DEF Inv
<1>. QED
  BY <1>1, Invariance, PTL

\* Every process of the queue runs once, in one slot, and no slot is idle while
\* the queue has more.
THEOREM QueueIsServedOnce == Spec => []QueueServedOnce
<1>1. Inv => QueueServedOnce
  BY DEF Inv
<1>. QED
  BY <1>1, Invariance, PTL

-----------------------------------------------------------------------------
(* The frame pool *)

\* The instance of Frames has its own copy of the definition of Cardinality.
LEMMA SameCardinality == \A S : PageFrames!Cardinality(S) = Cardinality(S)
  BY DEF PageFrames!Cardinality, Cardinality

LEMMA HeldAreHeld == TypeOK => PageFrames!Held = HeldPages
<1>. SUFFICES ASSUME TypeOK PROVE PageFrames!Held = HeldPages
  OBVIOUS
<1>1. ASSUME NEW p \in Slots \X Pages
      PROVE  \/ pages[p[1]][p[2]] > 0 \/ pages[p[1]][p[2]] = 0
             \/ pages[p[1]][p[2]] \in -PAGEWAIT .. -1
             <=> pages[p[1]][p[2]] >= -PAGEWAIT
  <2>1. pages[p[1]][p[2]] \in OUT .. PAGEWAIT
    BY DEF TypeOK
  <2>. QED
    BY <2>1, SimulatorAssumption DEF OUT
<1>. QED
  BY <1>1 DEF PageFrames!Held, HeldPages

\* A process that exits gives up the pages of its slot.
LEMMA ExitReleases ==
  ASSUME Inv, NEW i \in Slots, process_unload(i)
  PROVE  PageFrames!Release({i} \X Pages)
<1>1. ASSUME NEW k \in Slots, NEW j \in Pages
      PROVE  pages'[k][j] = IF k = i THEN OUT ELSE pages[k][j]
  BY DEF process_unload, Inv, TypeOK, AllOut
<1>2. ~(OUT > 0) /\ OUT # 0 /\ ~(OUT \in -PAGEWAIT .. -1)
  BY SimulatorAssumption DEF OUT
<1>. QED
  BY <1>1, <1>2 DEF PageFrames!Release

\* Time lets pages arrive and leave.
LEMMA TimeAdvances ==
  ASSUME Inv, allage
  PROVE  \E arriving \in SUBSET {p \in Slots \X Pages : pages[p[1]][p[2]] > 0},
            leaving \in SUBSET {p \in Slots \X Pages : pages[p[1]][p[2]] \in -PAGEWAIT .. -1} :
            PageFrames!Advance(arriving, leaving)
<1>. DEFINE Arriving == {p \in Slots \X Pages : loaded(p[1]) /\ pages[p[1]][p[2]] = 1}
<1>1. ASSUME NEW k \in Slots, NEW j \in Pages
      PROVE  LET n == pages[k][j]
                 m == pages'[k][j]
             IN  /\ m > 0 <=> n > 0 /\ <<k, j>> \notin Arriving
                 /\ m = 0 <=> n = 0 \/ <<k, j>> \in Arriving
                 /\ m \in -PAGEWAIT .. -1 <=> n \in -PAGEWAIT .. -1 /\ <<k, j>> \notin Leaving
                 /\ <<k, j>> \in Leaving => n \in -PAGEWAIT .. -1
  <2>1. pages[k][j] \in OUT .. PAGEWAIT
    BY DEF Inv, TypeOK
  <2>2. pages'[k][j] = IF loaded(k) THEN Aged(pages[k][j]) ELSE pages[k][j]
    BY DEF allage
  <2>. QED
    BY <2>1, <2>2, SimulatorAssumption DEF Leaving, Aged, OUT
<1>2. /\ {p \in Slots \X Pages : pages'[p[1]][p[2]] > 0}
         = {p \in Slots \X Pages : pages[p[1]][p[2]] > 0} \ Arriving
      /\ {p \in Slots \X Pages : pages'[p[1]][p[2]] = 0}
         = {p \in Slots \X Pages : pages[p[1]][p[2]] = 0} \cup Arriving
      /\ {p \in Slots \X Pages : pages'[p[1]][p[2]] \in -PAGEWAIT .. -1}
         = {p \in Slots \X Pages : pages[p[1]][p[2]] \in -PAGEWAIT .. -1} \ Leaving
  BY <1>1 DEF Leaving
<1>3. Arriving \in SUBSET {p \in Slots \X Pages : pages[p[1]][p[2]] > 0}
  OBVIOUS
<1>4. Leaving \in SUBSET {p \in Slots \X Pages : pages[p[1]][p[2]] \in -PAGEWAIT .. -1}
  BY SimulatorAssumption DEF Leaving
<1>. HIDE DEF Arriving
<1>. QED
  BY <1>2, <1>3, <1>4, Zenon DEF PageFrames!Advance

LEMMA PagerCallFrames ==
  ASSUME Inv, NEW i, NEW j, PagerCall(i, j)
  PROVE  PageFrames!Next \/ UNCHANGED PageFrames!framesVars
<1>1. processesUnchanged
  BY DEF PagerCall
<1>2. CASE pagein(i, j) /\ PageinStarts(i, j)
  <2>1. i \in Slots /\ j \in Pages
    BY <1>2 DEF PageinStarts, Valid
  <2>2. pages' = [pages EXCEPT ![i][j] = PAGEWAIT] /\ <<i, j>> \notin HeldPages
    BY <1>1, <1>2, <2>1, PageinKeeps
  <2>3. Cardinality(HeldPages) < PHYSICALPAGES
    <3>1. pagesavail + Cardinality(HeldPages) = PHYSICALPAGES
          /\ pagesavail \in 0 .. PHYSICALPAGES /\ pagesavail # 0
      BY <1>2 DEF Inv, TypeOK, FramesConserved, PageinStarts
    <3>2. Cardinality(HeldPages) \in Nat
      BY PagesFinite DEF HeldPages
    <3>. QED
      BY <3>1, <3>2, SimulatorAssumption
  <2>4. ASSUME NEW k \in Slots, NEW l \in Pages
        PROVE  pages'[k][l] = IF k = i /\ l = j THEN PAGEWAIT ELSE pages[k][l]
    BY <2>2 DEF Inv, TypeOK
  <2>5. ~(pages[i][j] >= -PAGEWAIT) /\ pages[i][j] \in Int
    BY <2>1, <2>2 DEF HeldPages, Inv, TypeOK, OUT
  <2>6. PAGEWAIT > 0 /\ PAGEWAIT # 0 /\ ~(PAGEWAIT \in -PAGEWAIT .. -1)
        /\ ~(pages[i][j] > 0) /\ pages[i][j] # 0 /\ ~(pages[i][j] \in -PAGEWAIT .. -1)
    BY <2>5, SimulatorAssumption
  <2>7. PageFrames!StartIn(<<i, j>>)
    <3>1. /\ <<i, j>> \notin PageFrames!Held
          /\ PageFrames!Cardinality(PageFrames!Held) < PHYSICALPAGES
      BY <2>2, <2>3, HeldAreHeld, SameCardinality DEF Inv
    <3>2. {p \in Slots \X Pages : pages'[p[1]][p[2]] > 0}
          = {p \in Slots \X Pages : pages[p[1]][p[2]] > 0} \cup {<<i, j>>}
      BY <2>1, <2>4, <2>6
    <3>3. {p \in Slots \X Pages : pages'[p[1]][p[2]] = 0}
          = {p \in Slots \X Pages : pages[p[1]][p[2]] = 0}
      BY <2>1, <2>4, <2>6
    <3>4. {p \in Slots \X Pages : pages'[p[1]][p[2]] \in -PAGEWAIT .. -1}
          = {p \in Slots \X Pages : pages[p[1]][p[2]] \in -PAGEWAIT .. -1}
      BY <2>1, <2>4, <2>6
    <3>. QED
      BY <3>1, <3>2, <3>3, <3>4, Zenon DEF PageFrames!StartIn
  <2>. QED
    BY <2>1, <2>7 DEF PageFrames!Next
<1>3. CASE pageout(i, j) /\ Valid(i, j) /\ pages[i][j] = 0
  <2>1. i \in Slots /\ j \in Pages
    BY <1>3 DEF Valid
  <2>2. ASSUME NEW k \in Slots, NEW l \in Pages
        PROVE  pages'[k][l] = IF k = i /\ l = j THEN -1 ELSE pages[k][l]
    BY <1>1, <1>3, <2>1, PageoutKeeps DEF Inv, TypeOK
  <2>3. -1 \in -PAGEWAIT .. -1 /\ ~(-1 > 0) /\ -1 # 0 /\ ~(0 > 0) /\ 0 \notin -PAGEWAIT .. -1
    BY SimulatorAssumption
  <2>4. PageFrames!StartOut(<<i, j>>)
    BY <1>3, <2>1, <2>2, <2>3 DEF PageFrames!StartOut
  <2>. QED
    BY <2>1, <2>4 DEF PageFrames!Next
<1>4. CASE UNCHANGED pages
  BY <1>4 DEF PageFrames!framesVars
<1>. QED
  BY <1>2, <1>3, <1>4 DEF PagerCall, pagein, pageout, Valid, Inv, TypeOK

LEMMA StepFrames ==
  ASSUME Inv, [Next]_vars
  PROVE  [PageFrames!Next]_(PageFrames!framesVars)
<1>1. CASE UNCHANGED pages
  BY <1>1 DEF PageFrames!framesVars
<1>2. CASE allstep
  <2>1. cursor \in Slots
    BY DEF Inv, TypeOK
  <2>2. CASE process_unload(cursor)
    BY <2>1, <2>2, ExitReleases DEF PageFrames!Next
  <2>. QED
    BY <1>1, <1>2, <2>2 DEF allstep, StepEmpty, StepBlocked, StepExit, StepCompute
<1>3. CASE allage
  BY <1>3, TimeAdvances DEF PageFrames!Next
<1>4. CASE \E i \in -1 .. procs, j \in -1 .. MAXPROCPAGES : PagerCall(i, j)
  BY <1>4, PagerCallFrames
<1>. QED
  BY <1>1, <1>2, <1>3, <1>4 DEF Next, PageitReturns, Ended, vars

\* The pages of simulator.c are the frame pool that simulator.h promises: for
\* any pager a page starts to come in only when it is out and a frame is free,
\* is used until it is paged out or its process exits, and keeps its frame
\* while it goes.
THEOREM FramesRefinement == Spec => ImplementsFrames
<1>1. Init => PageFrames!Init
  BY SimulatorAssumption DEF Init, PageFrames!Init, OUT, AllOut
<1>2. Inv /\ [Next]_vars => [PageFrames!Next]_(PageFrames!framesVars)
  BY StepFrames
<1>. QED
  BY <1>1, <1>2, Invariance, PTL DEF Spec, ImplementsFrames, PageFrames!Spec

\* No call of a pager turns round a page that is on its way.
THEOREM PagesDoNotTurnBack == Spec => NoTurningBack
<1>. DEFINE Kept == phase = "page" =>
               \A i \in Slots, j \in Pages :
                   pages'[i][j] # pages[i][j] => pages[i][j] \in {OUT, 0}
<1>1. ASSUME Inv, [Next]_vars PROVE [Kept]_vars
  <2>. SUFFICES ASSUME phase = "page", NEW k \in Slots, NEW l \in Pages,
                       pages'[k][l] # pages[k][l]
                PROVE  pages[k][l] \in {OUT, 0}
    OBVIOUS
  <2>1. PICK i \in -1 .. procs, j \in -1 .. MAXPROCPAGES : PagerCall(i, j)
    BY <1>1 DEF Next, allstep, allage, PageitReturns, Ended, vars
  <2>2. CASE pagein(i, j)
    <3>1. PageinStarts(i, j) /\ pages' = [pages EXCEPT ![i][j] = PAGEWAIT]
      BY <2>2 DEF pagein
    <3>2. i \in Slots /\ j \in Pages /\ pages \in [Slots -> [Pages -> OUT .. PAGEWAIT]]
      BY <1>1, <3>1 DEF PageinStarts, Valid, Inv, TypeOK
    <3>3. k = i /\ l = j
      BY <3>1, <3>2
    <3>4. pages[i][j] < -PAGEWAIT /\ pages[i][j] \in OUT .. PAGEWAIT
      BY <3>1, <3>2 DEF PageinStarts
    <3>. QED
      BY <3>3, <3>4, SimulatorAssumption DEF OUT
  <2>3. CASE pageout(i, j)
    <3>1. /\ Valid(i, j) /\ pages[i][j] = 0
          /\ pages' = [pages EXCEPT ![i][j] = -1]
      BY <2>3 DEF pageout
    <3>2. i \in Slots /\ j \in Pages /\ pages \in [Slots -> [Pages -> OUT .. PAGEWAIT]]
      BY <1>1, <3>1 DEF Valid, Inv, TypeOK
    <3>3. k = i /\ l = j
      BY <3>1, <3>2
    <3>. QED
      BY <3>1, <3>3
  <2>. QED
    BY <2>1, <2>2, <2>3 DEF PagerCall
<1>. QED
  BY <1>1, Invariance, PTL DEF Spec, NoTurningBack

-----------------------------------------------------------------------------
(* The pagers *)

\* An instance of a pager has its own copies of the definitions of Simulator; they mean
\* the same, for no call and no step depends on the number of frames.
LEMMA SameBasic ==
  /\ Linked!Basic!Next <=> Next
  /\ Linked!Basic!allstep <=> allstep
  /\ Linked!Basic!allage <=> allage
  /\ Linked!Basic!Ended <=> Ended
  /\ Linked!Basic!PageitReturns <=> PageitReturns
  /\ Linked!Basic!processesUnchanged <=> processesUnchanged
  /\ Linked!Basic!Slots = Slots /\ Linked!Basic!Pages = Pages
  /\ \A i : (Linked!Basic!loaded(i) <=> loaded(i)) /\ Linked!Basic!NeededPage(i) = NeededPage(i)
  /\ \A i, j : /\ Linked!Basic!PageinResult(i, j) <=> PageinResult(i, j)
               /\ Linked!Basic!PageoutResult(i, j) <=> PageoutResult(i, j)
               /\ Linked!Basic!pagein(i, j) <=> pagein(i, j)
               /\ Linked!Basic!pageout(i, j) <=> pageout(i, j)
  BY DEF Linked!Basic!Next, Linked!Basic!allstep, Linked!Basic!allage,
         Linked!Basic!PageitReturns, Linked!Basic!Ended, Linked!Basic!vars, Linked!Basic!alldone,
         Linked!Basic!NextSlot, Linked!Basic!StepEmpty, Linked!Basic!StepBlocked,
         Linked!Basic!StepExit, Linked!Basic!StepCompute, Linked!Basic!Reload,
         Linked!Basic!dequeue, Linked!Basic!process_load, Linked!Basic!Untried,
         Linked!Basic!AllOut, Linked!Basic!Addresses, Linked!Basic!HeldBySlot,
         Linked!Basic!process_unload, Linked!Basic!Prog, Linked!Basic!BranchesAt,
         Linked!Basic!PhantomBranch, Linked!Basic!FOR, Linked!Basic!GOTO, Linked!Basic!IF_,
         Linked!Basic!MayTake, Linked!Basic!MaySkip, Linked!Basic!process_dobranch,
         Linked!Basic!Cardinality, Linked!Basic!Leaving, Linked!Basic!Aged, Linked!Basic!OUT,
         Linked!Basic!PagerCall, Linked!Basic!pagein, Linked!Basic!pageout,
         Linked!Basic!PageinStarts, Linked!Basic!PageinResult, Linked!Basic!PageoutResult,
         Linked!Basic!Valid, Linked!Basic!Slots, Linked!Basic!Pages, Linked!Basic!loaded,
         Linked!Basic!NULL, Linked!Basic!NeededPage, Linked!Basic!processesUnchanged, Next,
         allstep, allage, PageitReturns, Ended, vars, alldone, NextSlot, StepEmpty, StepBlocked,
         StepExit, StepCompute, Reload, dequeue, process_load, Untried, AllOut, Addresses,
         HeldBySlot, process_unload, Prog, BranchesAt, PhantomBranch, FOR, GOTO, IF_, MayTake,
         MaySkip, process_dobranch, Cardinality, Leaving, Aged, OUT, PagerCall, pagein, pageout,
         PageinStarts, PageinResult, PageoutResult, Valid, Slots, Pages, loaded, NULL,
         NeededPage, processesUnchanged

LEMMA SameLRU ==
  /\ Linked!LRU!Next <=> Next
  /\ Linked!LRU!allstep <=> allstep
  /\ Linked!LRU!allage <=> allage
  /\ Linked!LRU!Ended <=> Ended
  /\ Linked!LRU!PageitReturns <=> PageitReturns
  /\ Linked!LRU!processesUnchanged <=> processesUnchanged
  /\ Linked!LRU!Slots = Slots /\ Linked!LRU!Pages = Pages
  /\ \A i : (Linked!LRU!loaded(i) <=> loaded(i)) /\ Linked!LRU!NeededPage(i) = NeededPage(i)
  /\ \A i, j : /\ Linked!LRU!PageinResult(i, j) <=> PageinResult(i, j)
               /\ Linked!LRU!PageoutResult(i, j) <=> PageoutResult(i, j)
               /\ Linked!LRU!pagein(i, j) <=> pagein(i, j)
               /\ Linked!LRU!pageout(i, j) <=> pageout(i, j)
  BY DEF Linked!LRU!Next, Linked!LRU!allstep, Linked!LRU!allage, Linked!LRU!PageitReturns,
         Linked!LRU!Ended, Linked!LRU!vars, Linked!LRU!alldone, Linked!LRU!NextSlot,
         Linked!LRU!StepEmpty, Linked!LRU!StepBlocked, Linked!LRU!StepExit,
         Linked!LRU!StepCompute, Linked!LRU!Reload, Linked!LRU!dequeue, Linked!LRU!process_load,
         Linked!LRU!Untried, Linked!LRU!AllOut, Linked!LRU!Addresses, Linked!LRU!HeldBySlot,
         Linked!LRU!process_unload, Linked!LRU!Prog, Linked!LRU!BranchesAt,
         Linked!LRU!PhantomBranch, Linked!LRU!FOR, Linked!LRU!GOTO, Linked!LRU!IF_,
         Linked!LRU!MayTake, Linked!LRU!MaySkip, Linked!LRU!process_dobranch,
         Linked!LRU!Cardinality, Linked!LRU!Leaving, Linked!LRU!Aged, Linked!LRU!OUT,
         Linked!LRU!PagerCall, Linked!LRU!pagein, Linked!LRU!pageout, Linked!LRU!PageinStarts,
         Linked!LRU!PageinResult, Linked!LRU!PageoutResult, Linked!LRU!Valid, Linked!LRU!Slots,
         Linked!LRU!Pages, Linked!LRU!loaded, Linked!LRU!NULL, Linked!LRU!NeededPage,
         Linked!LRU!processesUnchanged, Next, allstep, allage, PageitReturns, Ended, vars,
         alldone, NextSlot, StepEmpty, StepBlocked, StepExit, StepCompute, Reload, dequeue,
         process_load, Untried, AllOut, Addresses, HeldBySlot, process_unload, Prog, BranchesAt,
         PhantomBranch, FOR, GOTO, IF_, MayTake, MaySkip, process_dobranch, Cardinality, Leaving,
         Aged, OUT, PagerCall, pagein, pageout, PageinStarts, PageinResult, PageoutResult, Valid,
         Slots, Pages, loaded, NULL, NeededPage, processesUnchanged

LEMMA SamePredict ==
  /\ Linked!Predict!Next <=> Next
  /\ Linked!Predict!allstep <=> allstep
  /\ Linked!Predict!allage <=> allage
  /\ Linked!Predict!Ended <=> Ended
  /\ Linked!Predict!PageitReturns <=> PageitReturns
  /\ Linked!Predict!processesUnchanged <=> processesUnchanged
  /\ Linked!Predict!Slots = Slots /\ Linked!Predict!Pages = Pages
  /\ \A i : (Linked!Predict!loaded(i) <=> loaded(i)) /\ Linked!Predict!NeededPage(i) = NeededPage(i)
  /\ \A i, j : /\ Linked!Predict!PageinResult(i, j) <=> PageinResult(i, j)
               /\ Linked!Predict!PageoutResult(i, j) <=> PageoutResult(i, j)
               /\ Linked!Predict!pagein(i, j) <=> pagein(i, j)
               /\ Linked!Predict!pageout(i, j) <=> pageout(i, j)
  BY DEF Linked!Predict!Next, Linked!Predict!allstep, Linked!Predict!allage,
         Linked!Predict!PageitReturns, Linked!Predict!Ended, Linked!Predict!vars,
         Linked!Predict!alldone, Linked!Predict!NextSlot, Linked!Predict!StepEmpty,
         Linked!Predict!StepBlocked, Linked!Predict!StepExit, Linked!Predict!StepCompute,
         Linked!Predict!Reload, Linked!Predict!dequeue, Linked!Predict!process_load,
         Linked!Predict!Untried, Linked!Predict!AllOut, Linked!Predict!Addresses,
         Linked!Predict!HeldBySlot, Linked!Predict!process_unload, Linked!Predict!Prog,
         Linked!Predict!BranchesAt, Linked!Predict!PhantomBranch, Linked!Predict!FOR,
         Linked!Predict!GOTO, Linked!Predict!IF_, Linked!Predict!MayTake, Linked!Predict!MaySkip,
         Linked!Predict!process_dobranch, Linked!Predict!Cardinality, Linked!Predict!Leaving,
         Linked!Predict!Aged, Linked!Predict!OUT, Linked!Predict!PagerCall,
         Linked!Predict!pagein, Linked!Predict!pageout, Linked!Predict!PageinStarts,
         Linked!Predict!PageinResult, Linked!Predict!PageoutResult, Linked!Predict!Valid,
         Linked!Predict!Slots, Linked!Predict!Pages, Linked!Predict!loaded, Linked!Predict!NULL,
         Linked!Predict!NeededPage, Linked!Predict!processesUnchanged, Next, allstep, allage,
         PageitReturns, Ended, vars, alldone, NextSlot, StepEmpty, StepBlocked, StepExit,
         StepCompute, Reload, dequeue, process_load, Untried, AllOut, Addresses, HeldBySlot,
         process_unload, Prog, BranchesAt, PhantomBranch, FOR, GOTO, IF_, MayTake, MaySkip,
         process_dobranch, Cardinality, Leaving, Aged, OUT, PagerCall, pagein, pageout,
         PageinStarts, PageinResult, PageoutResult, Valid, Slots, Pages, loaded, NULL,
         NeededPage, processesUnchanged

LEMMA SameTest ==
  /\ Linked!Test!Next <=> Next
  /\ Linked!Test!allstep <=> allstep
  /\ Linked!Test!allage <=> allage
  /\ Linked!Test!Ended <=> Ended
  /\ Linked!Test!PageitReturns <=> PageitReturns
  /\ Linked!Test!processesUnchanged <=> processesUnchanged
  /\ Linked!Test!Slots = Slots /\ Linked!Test!Pages = Pages
  /\ \A i : (Linked!Test!loaded(i) <=> loaded(i)) /\ Linked!Test!NeededPage(i) = NeededPage(i)
  /\ \A i, j : /\ Linked!Test!PageinResult(i, j) <=> PageinResult(i, j)
               /\ Linked!Test!PageoutResult(i, j) <=> PageoutResult(i, j)
               /\ Linked!Test!pagein(i, j) <=> pagein(i, j)
               /\ Linked!Test!pageout(i, j) <=> pageout(i, j)
  BY DEF Linked!Test!Next, Linked!Test!allstep, Linked!Test!allage, Linked!Test!PageitReturns,
         Linked!Test!Ended, Linked!Test!vars, Linked!Test!alldone, Linked!Test!NextSlot,
         Linked!Test!StepEmpty, Linked!Test!StepBlocked, Linked!Test!StepExit,
         Linked!Test!StepCompute, Linked!Test!Reload, Linked!Test!dequeue,
         Linked!Test!process_load, Linked!Test!Untried, Linked!Test!AllOut,
         Linked!Test!Addresses, Linked!Test!HeldBySlot, Linked!Test!process_unload,
         Linked!Test!Prog, Linked!Test!BranchesAt, Linked!Test!PhantomBranch, Linked!Test!FOR,
         Linked!Test!GOTO, Linked!Test!IF_, Linked!Test!MayTake, Linked!Test!MaySkip,
         Linked!Test!process_dobranch, Linked!Test!Cardinality, Linked!Test!Leaving,
         Linked!Test!Aged, Linked!Test!OUT, Linked!Test!PagerCall, Linked!Test!pagein,
         Linked!Test!pageout, Linked!Test!PageinStarts, Linked!Test!PageinResult,
         Linked!Test!PageoutResult, Linked!Test!Valid, Linked!Test!Slots, Linked!Test!Pages,
         Linked!Test!loaded, Linked!Test!NULL, Linked!Test!NeededPage,
         Linked!Test!processesUnchanged, Next, allstep, allage, PageitReturns, Ended, vars,
         alldone, NextSlot, StepEmpty, StepBlocked, StepExit, StepCompute, Reload, dequeue,
         process_load, Untried, AllOut, Addresses, HeldBySlot, process_unload, Prog, BranchesAt,
         PhantomBranch, FOR, GOTO, IF_, MayTake, MaySkip, process_dobranch, Cardinality, Leaving,
         Aged, OUT, PagerCall, pagein, pageout, PageinStarts, PageinResult, PageoutResult, Valid,
         Slots, Pages, loaded, NULL, NeededPage, processesUnchanged

-----------------------------------------------------------------------------
(* The calls of one pager *)

\* The page that slot i needs holds a frame, or no frame is left for it.
Served(i) == pages[i][NeededPage(i)] >= -PAGEWAIT \/ pagesavail = 0

\* A set of numbers that is not empty has a least one.
LEMMA LeastNumber ==
  ASSUME NEW S, S \subseteq Nat, S # {}
  PROVE  \E n \in S : \A m \in S : n <= m
<1>. DEFINE R == {ss \in Nat \X Nat : ss[1] < ss[2]}
<1>1. IsWellFoundedOn(R, Nat)
  BY NatLessThanWellFounded DEF OpToRel
<1>. HIDE DEF R
<1>2. PICK n \in S : \A m \in S : ~(<<m, n>> \in R)
  BY <1>1, WFMin
<1>3. ASSUME NEW m \in S PROVE n <= m
  <2>1. m \in Nat /\ n \in Nat /\ <<m, n>> \notin R
    BY <1>2
  <2>. QED
    BY <2>1 DEF R
<1>. QED
  BY <1>3

\* The page a program counter lies on is one of the process.
LEMMA NeededIsPage ==
  ASSUME Inv, NEW i \in Slots
  PROVE  NeededPage(i) \in Pages
<1>. DEFINE M == MAXPROCPAGES * PAGESIZE
            d == pc[i] \div PAGESIZE
<1>1. /\ MAXPROCPAGES \in Nat \ {0} /\ PAGESIZE \in Nat \ {0}
      /\ M = MAXPROCPAGES * PAGESIZE
  BY SimulatorAssumption
<1>2. pc[i] \in Nat /\ pc[i] < M
  BY <1>1 DEF Inv, TypeOK, Addresses
<1>3. d \in Nat /\ d * PAGESIZE <= pc[i]
  BY <1>1, <1>2
<1>4. d < MAXPROCPAGES
  <2>1. SUFFICES ASSUME d >= MAXPROCPAGES PROVE FALSE
    BY <1>1, <1>3
  <2>2. d * PAGESIZE >= MAXPROCPAGES * PAGESIZE
    BY <1>1, <1>3, <2>1
  <2>. QED
    BY <1>1, <1>2, <1>3, <2>2
<1>. QED
  BY <1>1, <1>3, <1>4 DEF NeededPage, Pages

\* A call with arguments that pagein and pageout do not accept does nothing.
LEMMA CallIsStep ==
  ASSUME NEW i, NEW j, PagerCall(i, j)
  PROVE  Next \/ UNCHANGED vars
<1>1. CASE Valid(i, j)
  <2>1. i \in -1 .. procs /\ j \in -1 .. MAXPROCPAGES
    BY <1>1, SimulatorAssumption DEF Valid, Slots, Pages
  <2>. QED
    BY <2>1 DEF Next
<1>2. CASE ~Valid(i, j)
  BY <1>2 DEF PagerCall, pagein, pageout, PageinStarts, processesUnchanged, vars
<1>. QED
  BY <1>1, <1>2

\* A call touches at most the page it names, and that only when the page is out or in.
LEMMA CallTouches ==
  ASSUME Inv, NEW i, NEW j, PagerCall(i, j), NEW k \in Slots, NEW l \in Pages
  PROVE  /\ (k # i \/ l # j) => pages'[k][l] = pages[k][l]
         /\ pages[k][l] >= -PAGEWAIT => pages'[k][l] >= -PAGEWAIT
         /\ pagesavail = 0 => pagesavail' = 0
         /\ NeededPage(k)' = NeededPage(k) /\ (loaded(k)' <=> loaded(k))
<1>1. NeededPage(k)' = NeededPage(k) /\ (loaded(k)' <=> loaded(k))
  BY DEF PagerCall, processesUnchanged, NeededPage, loaded
<1>2. pages \in [Slots -> [Pages -> OUT .. PAGEWAIT]]
  BY DEF Inv, TypeOK
<1>3. CASE pagein(i, j) /\ PageinStarts(i, j)
  <2>1. /\ pages' = [pages EXCEPT ![i][j] = PAGEWAIT] /\ pagesavail # 0
        /\ i \in Slots /\ j \in Pages
    BY <1>3 DEF pagein, PageinStarts, Valid
  <2>. QED
    BY <1>1, <1>2, <2>1, SimulatorAssumption
<1>4. CASE pageout(i, j) /\ Valid(i, j) /\ pages[i][j] = 0
  <2>1. /\ pages' = [pages EXCEPT ![i][j] = -1] /\ pagesavail' = pagesavail
        /\ i \in Slots /\ j \in Pages
    BY <1>4 DEF pageout, Valid
  <2>. QED
    BY <1>1, <1>2, <2>1, SimulatorAssumption
<1>5. CASE UNCHANGED <<pages, pagesavail>>
  BY <1>1, <1>5
<1>. QED
  BY <1>3, <1>4, <1>5 DEF PagerCall, pagein, pageout

\* Slots stay served whatever is called for them or for others.
LEMMA CallKeepsServed ==
  ASSUME Inv, NEW i, NEW j, PagerCall(i, j), NEW k \in Slots, Served(k)
  PROVE  Served(k)'
  BY NeededIsPage, CallTouches DEF Served

\* pagein serves the slot when it reports success, and when it does not, no frame is
\* left or the page is still on its way out.
LEMMA GrantServes ==
  ASSUME Inv, NEW i \in Slots, loaded(i), PagerCall(i, NeededPage(i)),
         pagein(i, NeededPage(i)), PageinResult(i, NeededPage(i))
  PROVE  Served(i)'
<1>. DEFINE j == NeededPage(i)
<1>1. j \in Pages /\ NeededPage(i)' = j
  BY NeededIsPage, CallTouches
<1>2. pages \in [Slots -> [Pages -> OUT .. PAGEWAIT]]
  BY DEF Inv, TypeOK
<1>3. CASE PageinStarts(i, j)
  <2>1. pages' = [pages EXCEPT ![i][j] = PAGEWAIT]
    BY <1>3 DEF pagein
  <2>. QED
    BY <1>1, <1>2, <2>1, SimulatorAssumption DEF Served
<1>4. CASE pages[i][j] >= 0
  <2>1. pages[i][j] >= -PAGEWAIT
    BY <1>1, <1>2, <1>4, SimulatorAssumption DEF OUT
  <2>. QED
    BY <2>1, CallKeepsServed DEF Served
<1>. QED
  BY <1>3, <1>4 DEF PageinResult

LEMMA RefusalServes ==
  ASSUME Inv, NEW i \in Slots, loaded(i), ~PageinResult(i, NeededPage(i))
  PROVE  Served(i)
<1>1. NeededPage(i) \in Pages
  BY NeededIsPage
<1>2. pages[i][NeededPage(i)] \in OUT .. PAGEWAIT
  BY <1>1 DEF Inv, TypeOK
<1>. QED
  BY <1>1, <1>2, SimulatorAssumption DEF PageinResult, PageinStarts, Valid, Served, OUT

\* Nothing is in use that is not resident: a page in use is not refused.
LEMMA InUseIsGranted ==
  ASSUME Inv, NEW i \in Slots, loaded(i), pages[i][NeededPage(i)] = 0
  PROVE  PageinResult(i, NeededPage(i))
  BY NeededIsPage DEF PageinResult, Valid

-----------------------------------------------------------------------------
(* The turns of the pagers, in terms of Simulator *)

LEMMA BasicTurn ==
  ASSUME Linked!Basic!pageit
  PROVE  /\ phase = "page" /\ phase' = "page" /\ called' = TRUE
         /\ \/ \E i \in Slots :
                  /\ FirstActive(i) /\ pages[i][NeededPage(i)] # 0
                  /\ \/ /\ PageinResult(i, NeededPage(i)) /\ pagein(i, NeededPage(i))
                        /\ PagerCall(i, NeededPage(i))
                     \/ /\ ~PageinResult(i, NeededPage(i))
                        /\ \E j : PagerCall(i, j)
            \/ /\ \A i \in Slots : FirstActive(i) => pages[i][NeededPage(i)] = 0
               /\ UNCHANGED vars
<1>1. \A i : Linked!Basic!FirstActive(i) <=> FirstActive(i)
  BY SameBasic DEF Linked!Basic!FirstActive, FirstActive
<1>2. /\ phase = "page" /\ UNCHANGED <<phase, cursor>> /\ called' = TRUE
      /\ processesUnchanged
  BY SameBasic DEF Linked!Basic!pageit
<1>3. CASE \E i \in Slots : /\ FirstActive(i)
                            /\ pages[i][NeededPage(i)] # 0
                            /\ IF PageinResult(i, NeededPage(i))
                               THEN pagein(i, NeededPage(i))
                               ELSE pageout(i, Linked!Basic!Victim(i, NeededPage(i)))
  BY <1>2, <1>3 DEF PagerCall
<1>4. CASE /\ \A i \in Slots : FirstActive(i) => pages[i][NeededPage(i)] = 0
           /\ UNCHANGED <<pages, pagesavail>>
  BY <1>2, <1>4 DEF vars, processesUnchanged
<1>. QED
  BY <1>1, <1>3, <1>4, SameBasic DEF Linked!Basic!pageit

LEMMA LRUTurn ==
  ASSUME NEW i \in Slots, Linked!LRU!pageit(i)
  PROVE  /\ phase = "page" /\ phase' = "page" /\ next = i /\ next' = i + 1
         /\ \/ /\ loaded(i) /\ PageinResult(i, NeededPage(i))
               /\ pagein(i, NeededPage(i)) /\ PagerCall(i, NeededPage(i))
            \/ /\ loaded(i) /\ ~PageinResult(i, NeededPage(i))
               /\ (\E j : PagerCall(i, j)) \/ UNCHANGED vars
            \/ ~loaded(i) /\ UNCHANGED vars
<1>1. /\ phase = "page" /\ UNCHANGED <<phase, cursor>> /\ next = i /\ next' = i + 1
      /\ processesUnchanged
  BY SameLRU DEF Linked!LRU!pageit
<1>2. CASE loaded(i) /\ Linked!LRU!Granted(i)
  BY <1>1, <1>2, SameLRU DEF Linked!LRU!Granted, PagerCall
<1>3. CASE loaded(i) /\ Linked!LRU!Evicts(i)
  BY <1>1, <1>3, SameLRU DEF Linked!LRU!Evicts, PagerCall
<1>4. CASE loaded(i) /\ Linked!LRU!EvictsNothing(i)
  BY <1>1, <1>4, SameLRU DEF Linked!LRU!EvictsNothing, vars, processesUnchanged
<1>5. CASE ~loaded(i) /\ UNCHANGED <<pages, pagesavail, recent>>
  BY <1>1, <1>5 DEF vars, processesUnchanged
<1>. QED
  BY <1>2, <1>3, <1>4, <1>5, SameLRU DEF Linked!LRU!pageit

\* What is planned for slot i: everything out but three pages, then those three in, the
\* needed one first.
Planned(i, first, second) ==
    [out |-> {j \in Pages \ {NeededPage(i), first, second} : pages[i][j] = 0},
     in  |-> <<NeededPage(i), first, second>>]

LEMMA PredictTurn ==
  ASSUME NEW i \in Slots, Linked!Predict!pageit(i)
  PROVE  /\ phase = "page" /\ phase' = "page" /\ next = i /\ next' = i + 1
         /\ calls = Linked!Predict!NoCalls /\ UNCHANGED vars
         /\ \/ loaded(i) /\ \E first, second : calls' = Planned(i, first, second)
            \/ ~loaded(i) /\ calls' = calls
<1>1. /\ phase = "page" /\ UNCHANGED <<phase, cursor, pages, pagesavail>>
      /\ next = i /\ next' = i + 1
      /\ processesUnchanged /\ calls = Linked!Predict!NoCalls
  BY SamePredict DEF Linked!Predict!pageit
<1>2. \A first, second :
          Linked!Predict!Plan(i, NeededPage(i), first, second) = Planned(i, first, second)
  BY SamePredict DEF Linked!Predict!Plan, Linked!Predict!Unwanted, Planned
<1>. QED
  BY <1>1, <1>2, SamePredict DEF Linked!Predict!pageit, vars, processesUnchanged

LEMMA PredictCalls ==
  ASSUME Linked!Predict!MakeCall
  PROVE  /\ phase = "page" /\ phase' = "page" /\ next' = next
         /\ \/ \E j \in calls.out :
                  /\ pageout(next - 1, j) /\ PagerCall(next - 1, j)
                  /\ calls' = [calls EXCEPT !.out = calls.out \ {j}]
            \/ /\ calls.in # << >>
               /\ pagein(next - 1, Head(calls.in)) /\ PagerCall(next - 1, Head(calls.in))
               /\ calls' = [calls EXCEPT !.in = Tail(calls.in)]
<1>1. /\ phase = "page" /\ UNCHANGED <<phase, cursor>> /\ next' = next /\ processesUnchanged
  BY SamePredict DEF Linked!Predict!MakeCall
<1>2. CASE Linked!Predict!PageoutCall
  BY <1>1, <1>2, SamePredict DEF Linked!Predict!PageoutCall, PagerCall
<1>3. CASE Linked!Predict!PageinCall
  BY <1>1, <1>3, SamePredict DEF Linked!Predict!PageinCall, PagerCall
<1>. QED
  BY <1>1, <1>2, <1>3 DEF Linked!Predict!MakeCall

LEMMA TestTurn ==
  ASSUME Linked!Test!pageit
  PROVE  PagerCall(0, 0) \/ UNCHANGED vars
<1>1. /\ phase = "page" /\ UNCHANGED <<phase, cursor>> /\ processesUnchanged
  BY SameTest DEF Linked!Test!pageit
<1>2. CASE pagein(0, 0) \/ pageout(0, 0)
  BY <1>1, <1>2 DEF PagerCall
<1>3. CASE UNCHANGED <<pages, pagesavail>>
  BY <1>1, <1>3 DEF vars, processesUnchanged
<1>. QED
  BY <1>1, <1>2, <1>3, SameTest DEF Linked!Test!pageit, Linked!Test!TestOut, Linked!Test!TestIn

\* The end of the program in api-test.c, the one step that is not of Simulator.
Exits ==
    /\ iterations > MAXITERATIONS /\ pager = "test"
    /\ phase = "page" /\ phase' = "end" /\ processesUnchanged
    /\ UNCHANGED <<cursor, pages, pagesavail>>

-----------------------------------------------------------------------------
(* The steps of the pagers *)

LEMMA BasicIsPager ==
  ASSUME Linked!Basic!BasicNext
  PROVE  Next \/ UNCHANGED vars
<1>1. CASE Linked!Basic!pageit
  BY <1>1, BasicTurn, CallIsStep
<1>. QED
  BY <1>1, SameBasic DEF Linked!Basic!BasicNext, Linked!Basic!BasicReturns, Next

LEMMA LRUIsPager ==
  ASSUME Linked!LRU!LRUNext
  PROVE  Next \/ UNCHANGED vars
<1>1. ASSUME NEW i \in Slots, Linked!LRU!pageit(i) PROVE Next \/ UNCHANGED vars
  BY <1>1, LRUTurn, CallIsStep
<1>. QED
  BY <1>1, SameLRU DEF Linked!LRU!LRUNext, Linked!LRU!LRUReturns, Next

LEMMA PredictIsPager ==
  ASSUME Linked!Predict!PredictNext
  PROVE  Next \/ UNCHANGED vars
<1>1. ASSUME NEW i \in Slots, Linked!Predict!pageit(i) PROVE Next \/ UNCHANGED vars
  BY <1>1, PredictTurn
<1>2. CASE Linked!Predict!MakeCall
  BY <1>2, PredictCalls, CallIsStep
<1>. QED
  BY <1>1, <1>2, SamePredict DEF Linked!Predict!PredictNext, Linked!Predict!PredictReturns, Next

LEMMA TestIsPager ==
  ASSUME Linked!Test!TestNext, pager = "test"
  PROVE  Next \/ UNCHANGED vars \/ Exits
<1>1. CASE Linked!Test!pageit
  BY <1>1, TestTurn, CallIsStep
<1>2. CASE Linked!Test!TestExits
  BY <1>2, SameTest DEF Linked!Test!TestExits, Exits
<1>. QED
  BY <1>1, <1>2, SameTest DEF Linked!Test!TestNext, Linked!Test!TestReturns, Next

\* The pagers are written with the steps and calls of the simulator, so that each of
\* their steps is one that the simulator allows any pager; only api-test.c also ends
\* the program.
LEMMA StepIsPager ==
  ASSUME [Linked!Next]_(Linked!allVars)
  PROVE  Next \/ UNCHANGED vars \/ Exits
  BY BasicIsPager, LRUIsPager, PredictIsPager, TestIsPager DEF Linked!Next, Linked!allVars, vars

-----------------------------------------------------------------------------
(* The invariant of the pagers *)

HeldFirst == \A i \in Slots : HeldBySlot(i) # {} => FirstActive(i)

BasicInv ==
    /\ HeldFirst
    /\ phase # "page" => ~called
    /\ called => \A i \in Slots : FirstActive(i) => Served(i)

LRUInv ==
    /\ phase # "page" => next = 0
    /\ next \in 0 .. procs
    /\ \A k \in Slots : k < next /\ loaded(k) => Served(k)

\* Until the needed page of the slot that pageit is at has been asked for, that is the
\* next page to be asked for.
PredictInv ==
    /\ calls = [out |-> calls.out, in |-> calls.in]
    /\ phase # "page" => next = 0
    /\ next \in 0 .. procs
    /\ next = 0 => calls = Linked!Predict!NoCalls
    /\ \A k \in Slots : k < next - 1 /\ loaded(k) => Served(k)
    /\ next > 0 =>
          /\ NeededPage(next - 1) \notin calls.out
          /\ loaded(next - 1) =>
                \/ Served(next - 1)
                \/ calls.in # << >> /\ Head(calls.in) = NeededPage(next - 1)

\* The inductive invariant: that of the simulator, and for each pager how far it is
\* with serving the slots.
PagersInv ==
    /\ Inv
    /\ pager = "basic"   => BasicInv
    /\ pager = "lru"     => LRUInv
    /\ pager = "predict" => PredictInv

\* While no pager runs, frames come to no other slot than the one that has them.
LEMMA OthersKeepHeldFirst ==
  ASSUME Inv, HeldFirst, allstep \/ allage \/ PageitReturns \/ Ended \/ UNCHANGED vars
  PROVE  HeldFirst'
<1>1. CASE UNCHANGED <<processes, pages>>
  BY <1>1 DEF HeldFirst, HeldBySlot, FirstActive, loaded
<1>2. CASE StepEmpty(cursor) /\ allstep
  <2>1. /\ cursor \in Slots /\ processes[cursor] = NULL /\ processes \in [Slots -> Queue \cup {NULL}]
        /\ ~(queueend < QUEUESIZE)
    BY <1>2, SimulatorAssumption DEF StepEmpty, Inv, TypeOK, QueueServedOnce, loaded
  <2>2. processes' = processes
    <3>1. processes' = [processes EXCEPT ![cursor] = NULL]
      BY <1>2, <2>1 DEF StepEmpty, Reload, dequeue
    <3>. QED
      BY <2>1, <3>1
  <2>. QED
    BY <1>1, <1>2, <2>2 DEF StepEmpty
<1>3. CASE StepExit(cursor) /\ allstep
  <2>1. PICK i \in Slots : i = cursor
    BY DEF Inv, TypeOK
  <2>. loaded(i) /\ StepExit(i)
    BY <1>3, <2>1 DEF StepExit
  <2>2. \A k \in Slots : k # i => processes'[k] = processes[k] /\ pages'[k] = pages[k]
    BY DEF StepExit, Reload, dequeue, process_unload, Inv, TypeOK
  <2>3. HeldBySlot(i)' = {}
    BY SimulatorAssumption
       DEF StepExit, process_unload, HeldBySlot, AllOut, OUT, Inv, TypeOK
  <2>4. ASSUME NEW k \in Slots, HeldBySlot(k)' # {} PROVE FirstActive(k)'
    <3>1. k # i /\ HeldBySlot(k) # {}
      BY <2>2, <2>3, <2>4 DEF HeldBySlot
    <3>2. FirstActive(k) /\ k < i
      <4>1. FirstActive(k)
        BY <3>1 DEF HeldFirst
      <4>2. ~(i < k)
        BY <2>1, <4>1 DEF FirstActive
      <4>. QED
        BY <2>1, <3>1, <4>1, <4>2, SimulatorAssumption DEF Slots
    <3>3. ASSUME NEW m \in Slots, m < k PROVE ~loaded(m)'
      <4>1. m # i
        BY <2>1, <3>2, <3>3, SimulatorAssumption DEF Slots
      <4>. QED
        BY <2>2, <3>2, <3>3, <4>1 DEF FirstActive, loaded
    <3>. QED
      BY <2>2, <3>1, <3>2, <3>3 DEF FirstActive, loaded
  <2>. QED
    BY <2>4 DEF HeldFirst
<1>4. CASE allage
  <2>1. ASSUME NEW k \in Slots PROVE HeldBySlot(k)' \subseteq HeldBySlot(k)
    <3>1. ASSUME NEW j \in Pages, pages'[k][j] >= -PAGEWAIT PROVE pages[k][j] >= -PAGEWAIT
      <4>1. pages[k][j] \in OUT .. PAGEWAIT
        BY DEF Inv, TypeOK
      <4>2. pages'[k][j] = IF loaded(k) THEN Aged(pages[k][j]) ELSE pages[k][j]
        BY <1>4 DEF allage
      <4>. QED
        BY <3>1, <4>1, <4>2, SimulatorAssumption DEF Aged, OUT
    <3>. QED
      BY <3>1 DEF HeldBySlot
  <2>. QED
    BY <1>4, <2>1 DEF allage, HeldFirst, FirstActive, loaded
<1>5. CASE UNCHANGED vars
  BY <1>1, <1>5 DEF vars
<1>. QED
  BY <1>1, <1>2, <1>3, <1>4, <1>5
     DEF allstep, StepBlocked, StepCompute, PageitReturns, processesUnchanged, Ended

\* A call for the first active slot brings frames to no other slot.
LEMMA FirstCallKeepsHeldFirst ==
  ASSUME Inv, HeldFirst, NEW i \in Slots, FirstActive(i), NEW j, PagerCall(i, j)
  PROVE  HeldFirst'
<1>1. \A k \in Slots : FirstActive(k)' <=> FirstActive(k)
  BY DEF PagerCall, processesUnchanged, FirstActive, loaded
<1>2. ASSUME NEW k \in Slots, k # i PROVE HeldBySlot(k)' = HeldBySlot(k)
  BY <1>2, CallTouches DEF HeldBySlot
<1>. QED
  BY <1>1, <1>2 DEF HeldFirst

LEMMA BasicKeeps ==
  ASSUME Inv, BasicInv, Linked!Basic!BasicNext
  PROVE  BasicInv'
<1>1. CASE Linked!Basic!pageit
  <2>1. CASE UNCHANGED vars /\ \A i \in Slots : FirstActive(i) => pages[i][NeededPage(i)] = 0
    <3>1. HeldFirst'
      BY <2>1, OthersKeepHeldFirst DEF BasicInv
    <3>2. \A i \in Slots : (FirstActive(i)' <=> FirstActive(i)) /\ NeededPage(i)' = NeededPage(i)
      BY <2>1 DEF vars, FirstActive, loaded, NeededPage
    <3>3. 0 >= -PAGEWAIT
      BY SimulatorAssumption
    <3>. QED
      BY <1>1, <2>1, <3>1, <3>2, <3>3, BasicTurn DEF BasicInv, Served, vars
  <2>2. ASSUME NEW i \in Slots, FirstActive(i), NEW j, PagerCall(i, j), Served(i)'
        PROVE  BasicInv'
    <3>1. HeldFirst'
      BY <2>2, FirstCallKeepsHeldFirst DEF BasicInv
    <3>2. ASSUME NEW k \in Slots, FirstActive(k)' PROVE k = i
      <4>1. FirstActive(k)
        BY <2>2, <3>2 DEF PagerCall, processesUnchanged, FirstActive, loaded
      <4>2. ~(k < i) /\ ~(i < k)
        BY <2>2, <4>1 DEF FirstActive
      <4>. QED
        BY <4>2, SimulatorAssumption DEF Slots
    <3>. QED
      BY <1>1, <2>2, <3>1, <3>2, BasicTurn DEF BasicInv
  <2>3. ASSUME NEW i \in Slots, FirstActive(i), PageinResult(i, NeededPage(i)),
               pagein(i, NeededPage(i)), PagerCall(i, NeededPage(i))
        PROVE  BasicInv'
    BY <2>2, <2>3, GrantServes DEF FirstActive
  <2>4. ASSUME NEW i \in Slots, FirstActive(i), ~PageinResult(i, NeededPage(i)),
               NEW j, PagerCall(i, j)
        PROVE  BasicInv'
    BY <2>2, <2>4, RefusalServes, CallKeepsServed DEF FirstActive
  <2>. QED
    BY <1>1, <2>1, <2>3, <2>4, BasicTurn
<1>2. CASE (allstep \/ allage \/ Ended) /\ UNCHANGED called
  <2>1. phase # "page"
    BY <1>2 DEF allstep, allage, Ended
  <2>. QED
    BY <1>2, <2>1, OthersKeepHeldFirst DEF BasicInv
<1>3. CASE Linked!Basic!BasicReturns
  BY <1>3, OthersKeepHeldFirst, SameBasic DEF Linked!Basic!BasicReturns, BasicInv
<1>. QED
  BY <1>1, <1>2, <1>3, SameBasic DEF Linked!Basic!BasicNext

\* A turn of pager-lru serves its slot and leaves the others served.
LEMMA LRUKeeps ==
  ASSUME Inv, LRUInv, Linked!LRU!LRUNext
  PROVE  LRUInv'
<1>1. ASSUME NEW i \in Slots, Linked!LRU!pageit(i) PROVE LRUInv'
  <2>1. /\ phase' = "page" /\ next = i /\ next' = i + 1
        /\ i + 1 \in 0 .. procs
    BY <1>1, LRUTurn, SimulatorAssumption DEF Slots
  <2>2. ASSUME NEW k \in Slots, Served(k) PROVE Served(k)'
    BY <1>1, <2>2, LRUTurn, CallKeepsServed DEF Served, vars, NeededPage
  <2>3. \A k \in Slots : loaded(k)' <=> loaded(k)
    BY <1>1, LRUTurn DEF PagerCall, processesUnchanged, vars, loaded
  <2>4. loaded(i) => Served(i)'
    BY <1>1, <2>2, LRUTurn, GrantServes, RefusalServes
  <2>5. \A k \in Slots : k < i + 1 => k < i \/ k = i
    BY SimulatorAssumption DEF Slots
  <2>. QED
    BY <2>1, <2>2, <2>3, <2>4, <2>5 DEF LRUInv
<1>2. CASE (allstep \/ allage \/ Ended) /\ UNCHANGED <<recent, next>>
  <2>1. next = 0 /\ next' = 0
    BY <1>2 DEF allstep, allage, Ended, LRUInv
  <2>. QED
    BY <2>1, SimulatorAssumption DEF LRUInv, Slots
<1>3. CASE Linked!LRU!LRUReturns
  <2>1. next' = 0
    BY <1>3 DEF Linked!LRU!LRUReturns
  <2>. QED
    BY <2>1, SimulatorAssumption DEF LRUInv, Slots
<1>. QED
  BY <1>1, <1>2, <1>3, SameLRU DEF Linked!LRU!LRUNext

\* A turn of pager-predict plans the calls for its slot.
LEMMA PredictTurnKeeps ==
  ASSUME Inv, PredictInv, NEW i \in Slots, Linked!Predict!pageit(i)
  PROVE  PredictInv'
<1>1. /\ phase' = "page" /\ next = i /\ next' = i + 1 /\ i + 1 \in 1 .. procs
      /\ i + 1 - 1 = i
      /\ calls = Linked!Predict!NoCalls
  BY PredictTurn, SimulatorAssumption DEF Slots
<1>2. \A k \in Slots : /\ Served(k)' <=> Served(k)
                       /\ loaded(k)' <=> loaded(k)
                       /\ NeededPage(k)' = NeededPage(k)
  BY PredictTurn DEF vars, Served, loaded, NeededPage
<1>3. \A k \in Slots : k < i /\ loaded(k) => Served(k)
  <2>1. ASSUME NEW k \in Slots, k < i, loaded(k) PROVE Served(k)
    <3>1. CASE k < next - 1
      BY <2>1, <3>1 DEF PredictInv
    <3>2. CASE ~(k < next - 1)
      <4>1. k = next - 1 /\ next > 0
        BY <1>1, <2>1, <3>2, SimulatorAssumption DEF Slots
      <4>2. calls.in = << >>
        BY <1>1 DEF Linked!Predict!NoCalls
      <4>. QED
        BY <2>1, <4>1, <4>2 DEF PredictInv
    <3>. QED
      BY <3>1, <3>2
  <2>. QED
    BY <2>1
<1>4. CASE loaded(i) /\ \E first, second : calls' = Planned(i, first, second)
  <2>1. PICK first, second : calls' = Planned(i, first, second)
    BY <1>4
  <2>2. /\ calls' = [out |-> calls'.out, in |-> calls'.in]
        /\ NeededPage(i) \notin calls'.out
        /\ calls'.in # << >> /\ Head(calls'.in) = NeededPage(i)
    BY <2>1 DEF Planned
  <2>. QED
    BY <1>1, <1>2, <1>3, <2>2 DEF PredictInv
<1>5. CASE ~loaded(i) /\ calls' = calls
  <2>1. calls'.out = {} /\ calls' = [out |-> calls'.out, in |-> calls'.in]
    BY <1>1, <1>5 DEF Linked!Predict!NoCalls
  <2>. QED
    BY <1>1, <1>2, <1>3, <1>5, <2>1 DEF PredictInv
<1>. QED
  BY <1>4, <1>5, PredictTurn

\* A call that it has planned serves the slot when it is for the needed page.
LEMMA PredictCallKeeps ==
  ASSUME Inv, PredictInv, Linked!Predict!MakeCall
  PROVE  PredictInv'
<1>1. phase = "page" /\ phase' = "page" /\ next' = next /\ next \in 0 .. procs
  BY PredictCalls DEF PredictInv
<1>2. next > 0
  <2>1. calls.out # {} \/ calls.in # << >>
    BY PredictCalls
  <2>. QED
    BY <1>1, <2>1 DEF PredictInv, Linked!Predict!NoCalls
<1>3. PICK i \in Slots : i = next - 1
  BY <1>1, <1>2, SimulatorAssumption DEF Slots
<1>. /\ next' - 1 = i
     /\ NeededPage(i) \notin calls.out
     /\ loaded(i) => \/ Served(i)
                     \/ calls.in # << >> /\ Head(calls.in) = NeededPage(i)
  BY <1>1, <1>2, <1>3, Zenon DEF PredictInv
<1>4. ASSUME NEW k \in Slots, Served(k) PROVE Served(k)'
  BY <1>4, PredictCalls, CallKeepsServed
<1>5. \A k \in Slots : (loaded(k)' <=> loaded(k)) /\ NeededPage(k)' = NeededPage(k)
  BY PredictCalls DEF PagerCall, processesUnchanged, loaded, NeededPage
<1>6. \A k \in Slots : k < next' - 1 /\ loaded(k)' => Served(k)'
  BY <1>1, <1>4, <1>5 DEF PredictInv
<1>7. CASE \E j \in calls.out : calls' = [calls EXCEPT !.out = calls.out \ {j}]
  <2>1. /\ calls' = [out |-> calls'.out, in |-> calls'.in]
        /\ calls'.out \subseteq calls.out /\ calls'.in = calls.in
    BY <1>7 DEF PredictInv
  <2>2. NeededPage(i)' \notin calls'.out
    BY <1>2, <1>3, <1>5, <2>1 DEF PredictInv
  <2>3. loaded(i)' => \/ Served(i)'
                      \/ calls'.in # << >> /\ Head(calls'.in) = NeededPage(i)'
    BY <1>4, <1>5, <2>1
  <2>. QED
    BY <1>1, <1>2, <1>6, <2>1, <2>2, <2>3 DEF PredictInv
<1>8. CASE /\ calls.in # << >>
           /\ pagein(i, Head(calls.in)) /\ PagerCall(i, Head(calls.in))
           /\ calls' = [calls EXCEPT !.in = Tail(calls.in)]
  <2>1. /\ calls' = [out |-> calls'.out, in |-> calls'.in]
        /\ calls'.out = calls.out
    BY <1>8 DEF PredictInv
  <2>2. NeededPage(i)' \notin calls'.out
    BY <1>2, <1>3, <1>5, <2>1 DEF PredictInv
  <2>3. loaded(i) => Served(i)'
    <3>1. CASE Served(i)
      BY <1>3, <1>4, <3>1
    <3>2. CASE ~Served(i) /\ loaded(i)
      <4>1. Head(calls.in) = NeededPage(i)
        BY <3>2
      <4>2. PageinResult(i, NeededPage(i))
        BY <1>3, <3>2, RefusalServes
      <4>. QED
        BY <1>3, <1>8, <3>2, <4>1, <4>2, GrantServes
    <3>. QED
      BY <3>1, <3>2
  <2>. QED
    BY <1>1, <1>2, <1>3, <1>5, <1>6, <2>1, <2>2, <2>3 DEF PredictInv
<1>. QED
  BY <1>7, <1>8, PredictCalls, <1>3

LEMMA PredictKeeps ==
  ASSUME Inv, PredictInv, Linked!Predict!PredictNext
  PROVE  PredictInv'
<1>1. CASE (allstep \/ allage \/ Ended) /\ UNCHANGED <<freqArray, pastAccessed, next, calls>>
  <2>1. next = 0 /\ next' = 0 /\ calls' = calls
    BY <1>1 DEF allstep, allage, Ended, PredictInv
  <2>. QED
    BY <2>1, SimulatorAssumption DEF PredictInv, Slots
<1>2. CASE Linked!Predict!PredictReturns
  <2>1. next' = 0 /\ calls' = calls /\ calls = Linked!Predict!NoCalls
    BY <1>2 DEF Linked!Predict!PredictReturns
  <2>. QED
    BY <2>1, SimulatorAssumption DEF PredictInv, Slots
<1>. QED
  BY <1>1, <1>2, PredictTurnKeeps, PredictCallKeeps, SamePredict DEF Linked!Predict!PredictNext

-----------------------------------------------------------------------------
(* What the pagers promise *)

\* A run of one of the pagers.  The constant PHYSICALPAGES, which Pagers leaves open,
\* names the number of its frames.
PagerRuns == Linked!Spec /\ PHYSICALPAGES = Frames[pager]

LEMMA PagersStart ==
  ASSUME Linked!Init, PHYSICALPAGES = Frames[pager]
  PROVE  PagersInv
<1>1. pager \in {"basic", "lru", "predict", "test"}
  BY PagersAssumption DEF Linked!Init
<1>2. CASE pager = "basic"
  <2>1. Init
    BY <1>2 DEF Linked!Init, Linked!Basic!Init, Linked!Basic!initqueue, Linked!Basic!Queue, Linked!Basic!Kinds,
         Linked!Basic!Cardinality, Linked!Basic!Slots, Linked!Basic!NULL,
         Linked!Basic!Untried, Linked!Basic!Addresses, Linked!Basic!AllOut,
         Linked!Basic!Pages, Linked!Basic!OUT, Init, initqueue, Queue, Kinds, Cardinality,
         Slots, NULL, Untried, Addresses, AllOut, Pages, OUT
  <2>2. Inv /\ ~called
    BY <2>1, Start DEF Linked!Init
  <2>3. \A i \in Slots : HeldBySlot(i) = {}
    BY <2>1, SimulatorAssumption DEF Init, HeldBySlot, AllOut, OUT
  <2>. QED
    BY <1>2, <2>2, <2>3 DEF PagersInv, BasicInv, HeldFirst
<1>3. CASE pager = "lru"
  <2>1. Init
    BY <1>3 DEF Linked!Init, Linked!LRU!Init, Linked!LRU!initqueue, Linked!LRU!Queue, Linked!LRU!Kinds,
         Linked!LRU!Cardinality, Linked!LRU!Slots, Linked!LRU!NULL, Linked!LRU!Untried,
         Linked!LRU!Addresses, Linked!LRU!AllOut, Linked!LRU!Pages, Linked!LRU!OUT, Init,
         initqueue, Queue, Kinds, Cardinality, Slots, NULL, Untried, Addresses, AllOut,
         Pages, OUT
  <2>2. Inv /\ next = 0
    BY <2>1, Start DEF Linked!Init
  <2>. QED
    BY <1>3, <2>2, SimulatorAssumption DEF PagersInv, LRUInv, Slots
<1>4. CASE pager = "predict"
  <2>1. Init
    BY <1>4 DEF Linked!Init, Linked!Predict!Init, Linked!Predict!initqueue, Linked!Predict!Queue,
         Linked!Predict!Kinds, Linked!Predict!Cardinality, Linked!Predict!Slots,
         Linked!Predict!NULL, Linked!Predict!Untried, Linked!Predict!Addresses,
         Linked!Predict!AllOut, Linked!Predict!Pages, Linked!Predict!OUT, Init, initqueue,
         Queue, Kinds, Cardinality, Slots, NULL, Untried, Addresses, AllOut, Pages, OUT
  <2>2. Inv /\ next = 0 /\ calls = Linked!Predict!NoCalls
    BY <2>1, Start DEF Linked!Init
  <2>3. calls = [out |-> calls.out, in |-> calls.in]
    BY <2>2 DEF Linked!Predict!NoCalls
  <2>. QED
    BY <1>4, <2>2, <2>3, SimulatorAssumption DEF PagersInv, PredictInv, Slots
<1>5. CASE pager = "test"
  <2>1. Init
    BY <1>5 DEF Linked!Init, Linked!Test!Init, Linked!Test!initqueue, Linked!Test!Queue, Linked!Test!Kinds,
         Linked!Test!Cardinality, Linked!Test!Slots, Linked!Test!NULL, Linked!Test!Untried,
         Linked!Test!Addresses, Linked!Test!AllOut, Linked!Test!Pages, Linked!Test!OUT, Init,
         initqueue, Queue, Kinds, Cardinality, Slots, NULL, Untried, Addresses, AllOut,
         Pages, OUT
  <2>. QED
    BY <1>5, <2>1, Start DEF PagersInv
<1>. QED
  BY <1>1, <1>2, <1>3, <1>4, <1>5

LEMMA ExitsKeeps ==
  ASSUME Inv, Exits
  PROVE  Inv'
<1>1. processesUnchanged /\ UNCHANGED <<pages, pagesavail, cursor>> /\ phase' = "end"
  BY DEF Exits
<1>. QED
  BY <1>1, PagerKeepsProcesses, FramesUntouched DEF Inv, TypeOK, processesUnchanged

LEMMA PagersStep ==
  ASSUME PagersInv, [Linked!Next]_(Linked!allVars)
  PROVE  PagersInv'
<1>1. Inv'
  <2>1. Next \/ UNCHANGED vars \/ Exits
    BY StepIsPager
  <2>. QED
    BY <2>1, StepKeeps, ExitsKeeps DEF PagersInv
<1>2. CASE UNCHANGED Linked!allVars
  <2>1. UNCHANGED <<vars, pager, called, next, calls>>
    BY <1>2 DEF Linked!allVars, vars
  <2>. QED
    BY <1>1, <2>1 DEF PagersInv, BasicInv, LRUInv, PredictInv, HeldFirst, HeldBySlot,
         FirstActive, Served, loaded, NeededPage, vars
<1>3. CASE pager = "basic" /\ pager' = pager /\ Linked!Basic!BasicNext
  BY <1>1, <1>3, BasicKeeps DEF PagersInv
<1>4. CASE pager = "lru" /\ pager' = pager /\ Linked!LRU!LRUNext
  BY <1>1, <1>4, LRUKeeps DEF PagersInv
<1>5. CASE pager = "predict" /\ pager' = pager /\ Linked!Predict!PredictNext
  BY <1>1, <1>5, PredictKeeps DEF PagersInv
<1>6. CASE pager = "test" /\ pager' = pager
  BY <1>1, <1>6 DEF PagersInv
<1>. QED
  BY <1>2, <1>3, <1>4, <1>5, <1>6 DEF Linked!Next

THEOREM PagersInvariance == PagerRuns => []PagersInv
  BY PagersStart, PagersStep, PTL DEF PagerRuns, Linked!Spec

\* FAQ.txt on pager-basic: whatever the programs, their number and the number of
\* slots, only the first active process holds frames.
THEOREM OneSlotAtATime == PagerRuns => []OnlyFirstActiveHoldsPages
<1>1. PagersInv => OnlyFirstActiveHoldsPages
  BY DEF PagersInv, BasicInv, HeldFirst, OnlyFirstActiveHoldsPages
<1>. QED
  BY <1>1, PagersInvariance, PTL

\* pagein leaves alone what is resident.
LEMMA PageinKeepsResident ==
  ASSUME Inv, NEW i, NEW j, pagein(i, j), NEW k \in Slots, NEW l \in Pages, pages[k][l] = 0
  PROVE  pages'[k][l] = 0
<1>1. CASE PageinStarts(i, j)
  <2>1. /\ pages' = [pages EXCEPT ![i][j] = PAGEWAIT] /\ pages[i][j] < -PAGEWAIT
        /\ i \in Slots /\ j \in Pages
    BY <1>1 DEF pagein, PageinStarts, Valid
  <2>2. ~(0 < -PAGEWAIT)
    BY SimulatorAssumption
  <2>. QED
    BY <2>1, <2>2 DEF Inv, TypeOK
<1>2. CASE ~PageinStarts(i, j)
  BY <1>2 DEF pagein
<1>. QED
  BY <1>1, <1>2

\* For any programs, slots and frames: no pager of the repository, api-test.c aside,
\* pages out the page on which a process runs.
THEOREM UsedPagesStay == PagerRuns => UsedPageStays
<1>. DEFINE Kept == phase = "page" /\ pager # "test" =>
               \A i \in Slots : loaded(i) /\ pages[i][NeededPage(i)] = 0 =>
                   pages'[i][NeededPage(i)] = 0
<1>1. ASSUME PagersInv, [Linked!Next]_(Linked!allVars) PROVE [Kept]_vars
  <2>. SUFFICES ASSUME phase = "page", pager # "test", pages' # pages,
                       NEW i \in Slots, loaded(i), pages[i][NeededPage(i)] = 0
                PROVE  pages'[i][NeededPage(i)] = 0
    OBVIOUS
  <2>1. Inv /\ NeededPage(i) \in Pages /\ PageinResult(i, NeededPage(i))
    BY <1>1, NeededIsPage, InUseIsGranted DEF PagersInv
  <2>2. ASSUME NEW k, k # i, NEW j, PagerCall(k, j) PROVE pages'[i][NeededPage(i)] = 0
    BY <2>1, <2>2, CallTouches
  <2>3. ~(allstep \/ allage \/ PageitReturns \/ Ended \/ UNCHANGED vars)
    BY DEF allstep, allage, PageitReturns, Ended, vars
  <2>4. CASE pager = "basic" /\ Linked!Basic!BasicNext
    <3>1. Linked!Basic!pageit
      BY <2>3, <2>4, SameBasic DEF Linked!Basic!BasicNext, Linked!Basic!BasicReturns
    <3>. QED
      BY <2>2, <2>3, <3>1, BasicTurn
  <2>5. CASE pager = "lru" /\ Linked!LRU!LRUNext
    <3>1. PICK k \in Slots : Linked!LRU!pageit(k)
      BY <2>3, <2>5, SameLRU DEF Linked!LRU!LRUNext, Linked!LRU!LRUReturns
    <3>. QED
      BY <2>1, <2>2, <2>3, <3>1, LRUTurn, PageinKeepsResident
  <2>6. CASE pager = "predict" /\ Linked!Predict!PredictNext
    <3>1. Linked!Predict!MakeCall
      BY <2>3, <2>6, SamePredict, PredictTurn
         DEF Linked!Predict!PredictNext, Linked!Predict!PredictReturns
    <3>2. next \in 0 .. procs /\ (next > 0 => NeededPage(next - 1) \notin calls.out)
      BY <1>1, <2>6 DEF PagersInv, PredictInv
    <3>3. ASSUME NEW j \in calls.out, PagerCall(next - 1, j)
          PROVE  pages'[i][NeededPage(i)] = 0
      <4>1. CASE i = next - 1
        <5>1. next > 0 /\ NeededPage(i) \notin calls.out
          BY <3>2, <4>1, SimulatorAssumption DEF Slots
        <5>. QED
          BY <2>1, <3>3, <5>1, CallTouches
      <4>. QED
        BY <2>2, <3>3, <4>1
    <3>. QED
      BY <2>1, <3>1, <3>3, PredictCalls, PageinKeepsResident
  <2>. QED
    BY <1>1, <2>3, <2>4, <2>5, <2>6 DEF Linked!Next, Linked!allVars, vars
<1>. QED
  BY <1>1, PagersInvariance, PTL DEF PagerRuns, Linked!Spec, UsedPageStays

\* When allblocked reports at the end of a tick that no process has its page in or on
\* its way, no frame is free: no pager has left one unused.
THEOREM BlockedOnlyForFrames == PagerRuns => BlockedForWantOfFrames
<1>. DEFINE Meant == phase = "page" /\ phase' = "step" /\ pager # "test" =>
                (allblocked' => pagesavail' = 0)
<1>1. ASSUME PagersInv, [Linked!Next]_(Linked!allVars) PROVE [Meant]_vars
  <2>. SUFFICES ASSUME phase = "page", phase' = "step", pager # "test", allblocked'
                PROVE  pagesavail' = 0
    OBVIOUS
  <2>1. /\ PageitReturns
        /\ \/ pager = "basic" /\ called
           \/ pager = "lru" /\ next = procs
           \/ pager = "predict" /\ next = procs /\ calls = Linked!Predict!NoCalls
    <3>1. CASE pager = "basic" /\ Linked!Basic!BasicNext
      BY <3>1, BasicTurn, SameBasic
         DEF Linked!Basic!BasicNext, Linked!Basic!BasicReturns, allstep, allage, Ended
    <3>2. CASE pager = "lru" /\ Linked!LRU!LRUNext
      BY <3>2, LRUTurn, SameLRU
         DEF Linked!LRU!LRUNext, Linked!LRU!LRUReturns, allstep, allage, Ended
    <3>3. CASE pager = "predict" /\ Linked!Predict!PredictNext
      BY <3>3, PredictTurn, PredictCalls, SamePredict
         DEF Linked!Predict!PredictNext, Linked!Predict!PredictReturns, allstep, allage, Ended
    <3>. QED
      BY <1>1, <3>1, <3>2, <3>3 DEF Linked!Next, Linked!allVars
  <2>2. UNCHANGED <<processes, pc, pages, pagesavail>>
    BY <2>1 DEF PageitReturns, processesUnchanged
  <2>3. allblocked
    BY <2>2 DEF allblocked, alldone, loaded, NeededPage
  <2>4. ASSUME NEW i \in Slots, FirstActive(i) PROVE Served(i)
    <3>1. CASE pager = "basic"
      BY <1>1, <2>1, <2>4, <3>1 DEF PagersInv, BasicInv
    <3>2. CASE pager = "lru"
      BY <1>1, <2>1, <2>4, <3>2, SimulatorAssumption DEF PagersInv, LRUInv, FirstActive, Slots
    <3>3. CASE pager = "predict"
      <4>1. next = procs /\ calls.in = << >>
        BY <2>1, <3>3 DEF Linked!Predict!NoCalls
      <4>2. i < next - 1 \/ (next > 0 /\ i = next - 1)
        BY <4>1, SimulatorAssumption DEF Slots
      <4>. QED
        BY <1>1, <2>4, <3>3, <4>1, <4>2 DEF PagersInv, PredictInv, FirstActive
    <3>. QED
      BY <2>1, <3>1, <3>2, <3>3
  <2>5. PICK i \in Slots : FirstActive(i)
    <3>. DEFINE Running == {i \in Slots : loaded(i)}
    <3>1. Running # {} /\ Running \subseteq Nat
      BY <2>3, SimulatorAssumption DEF allblocked, alldone, Slots
    <3>2. PICK i \in Running : \A m \in Running : i <= m
      BY <3>1, LeastNumber
    <3>3. \A k \in Slots : k < i => ~loaded(k)
      <4>1. ASSUME NEW k \in Slots, k < i, loaded(k) PROVE FALSE
        <5>1. i <= k
          BY <3>2, <4>1
        <5>. QED
          BY <4>1, <5>1, SimulatorAssumption DEF Slots
      <4>. QED
        BY <4>1
    <3>. QED
      BY <3>2, <3>3 DEF FirstActive
  <2>6. ~(pages[i][NeededPage(i)] >= -PAGEWAIT)
    <3>1. pages[i][NeededPage(i)] < -PAGEWAIT
      BY <2>3, <2>5 DEF allblocked, FirstActive
    <3>2. pages[i][NeededPage(i)] \in OUT .. PAGEWAIT
      BY <1>1, NeededIsPage DEF PagersInv, Inv, TypeOK
    <3>. QED
      BY <3>1, <3>2, SimulatorAssumption DEF OUT
  <2>. QED
    BY <2>2, <2>4, <2>5, <2>6 DEF Served
<1>. QED
  BY <1>1, PagersInvariance, PTL DEF PagerRuns, Linked!Spec, BlockedForWantOfFrames
=============================================================================
