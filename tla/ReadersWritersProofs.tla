------------------------- MODULE ReadersWritersProofs -------------------------
(***************************************************************************)
(* Proofs about ThreadReadersWritersSemaphores.c, for any number of        *)
(* readers and writers, any file size and any texts: the types, the mutual *)
(* exclusion of the writers with one another and with the readers, that    *)
(* what a reader has read stays true while it reads, the mark, and that    *)
(* the program implements the monitor.                                     *)
(***************************************************************************)
EXTENDS ReadersWriters, FiniteSetTheorems, WellFoundedInduction, TLAPS

\* The threads between sem_wait and sem_post of each semaphore; semWrite is held
\* by a writer, or by the readers together from the first to the last.
ReadHolders ==
    {w \in Writers : pc[w] \in {"write_sem", "write", "post_write", "post_read"}}
    \cup {r \in Readers : pc[r] \in {"enter_mutex", "count", "first", "entered", "entered_post"}}
MutexHolders ==
    {r \in Readers : pc[r] \in {"count", "first", "entered", "uncount", "last", "left"}}
WriteHolders == {w \in Writers : pc[w] \in {"write", "post_write"}}
ReadersIn ==
    {r \in Readers : pc[r] \in {"entered", "entered_post", "measure", "read",
                                "leave_mutex", "uncount", "last"}}

\* The readers that _nReadCount counts.
Counted ==
    {r \in Readers : pc[r] \in {"first", "entered", "entered_post", "measure", "read",
                                "leave_mutex", "uncount"}}

\* Semaphore s is a mutex held by the one thread in S, or free.
Holds(S, s) == (s = 0 /\ \E t : S = {t}) \/ (s = 1 /\ S = {})

SemOK ==
    /\ Holds(ReadHolders, semRead)
    /\ Holds(MutexHolders, semMutex)
    /\ semWrite = IF WriteHolders = {} /\ ReadersIn = {} THEN 1 ELSE 0
    /\ WriteHolders # {} => ReadersIn = {}

\* The count is that of the counted readers, and it tells the first and the last.
CountOK ==
    /\ nReadCount = Cardinality(Counted)
    /\ \A r \in Readers : pc[r] = "first" => Counted = {r}
    /\ \A r \in Readers : pc[r] = "last" => Counted = {}

\* The loops of WriteFile and ReadFile stay inside the text and the file.
LoopsOK ==
    /\ \A w \in Writers : pc[w] = "write" => i[w] < Len(Text[w])
    /\ \A r \in Readers : pc[r] = "read" => i[r] < nLenBuffer[r]

Inv == TypeOK /\ SemOK /\ CountOK /\ LoopsOK /\ ReadsHold

-----------------------------------------------------------------------------

LEMMA Apart == \A r \in Readers : r \notin Writers
  BY FileAssumption

\* Waiting for a free mutex and giving it back.
LEMMA WaitHolds ==
  ASSUME NEW S, NEW s, Holds(S, s), s > 0
  PROVE  s = 1 /\ S = {} /\ \A t : Holds({t}, s - 1)
  BY DEF Holds

LEMMA PostHolds ==
  ASSUME NEW S, NEW s, Holds(S, s), NEW t \in S
  PROVE  s = 0 /\ S = {t} /\ Holds({}, s + 1)
  BY DEF Holds

LEMMA WriterGoes ==
  ASSUME TypeOK, NEW w \in Writers, NEW a, NEW b \in WriterSteps, Goto(w, a, b)
  PROVE  /\ pc[w] = a /\ pc'[w] = b
         /\ \A u \in Writers : u # w => pc'[u] = pc[u]
         /\ \A r \in Readers : pc'[r] = pc[r]
         /\ pc' \in [Readers \cup Writers -> ReaderSteps \cup WriterSteps]
         /\ \A r \in Readers : pc'[r] \in ReaderSteps
         /\ \A u \in Writers : pc'[u] \in WriterSteps
  BY Apart DEF TypeOK, Goto

LEMMA ReaderGoes ==
  ASSUME TypeOK, NEW r \in Readers, NEW a, NEW b \in ReaderSteps, Goto(r, a, b)
  PROVE  /\ pc[r] = a /\ pc'[r] = b
         /\ \A u \in Readers : u # r => pc'[u] = pc[u]
         /\ \A w \in Writers : pc'[w] = pc[w]
         /\ pc' \in [Readers \cup Writers -> ReaderSteps \cup WriterSteps]
         /\ \A u \in Readers : pc'[u] \in ReaderSteps
         /\ \A w \in Writers : pc'[w] \in WriterSteps
  BY Apart DEF TypeOK, Goto

\* The count of the readers is zero when there are none, and goes up and down
\* with them.
LEMMA CountedIs ==
  /\ IsFiniteSet(Counted) /\ Cardinality(Counted) \in Nat
  /\ Cardinality(Counted) = 0 <=> Counted = {}
<1>1. Counted \in SUBSET Readers /\ IsFiniteSet(Readers)
  BY FileAssumption DEF Counted
<1>. QED
  BY <1>1, FS_Subset, FS_CardinalityType, FS_EmptySet

\* ReadFile never measures more than the file has room for.
LEMMA LengthIs == file \in File => Length(file) \in 0 .. LEN_FILE
<1>. DEFINE Leading == {p \in Positions : \A q \in 0 .. p : file.buffer[q] # NUL}
<1>1. LEN_FILE \in Nat \ {0}
  BY FileAssumption
<1>2. IsFiniteSet(Positions) /\ Cardinality(Positions) = LEN_FILE
  BY <1>1, FS_Interval DEF Positions
<1>3. Cardinality(Leading) \in Nat /\ Cardinality(Leading) <= LEN_FILE
  BY <1>2, FS_Subset, FS_CardinalityType
<1>. QED
  BY <1>1, <1>3 DEF Length
-----------------------------------------------------------------------------
(* Writers *)

LEMMA WriterWaitsRead ==
  ASSUME Inv, NEW w \in Writers, WaitRead(w, "write_sem")
  PROVE  Inv'
<1>. USE DEF Inv, WaitRead, dataVars
<1>1. /\ pc[w] = "read_sem" /\ pc'[w] = "write_sem"
      /\ \A u \in Writers : u # w => pc'[u] = pc[u]
      /\ \A r \in Readers : pc'[r] = pc[r]
      /\ pc' \in [Readers \cup Writers -> ReaderSteps \cup WriterSteps]
      /\ \A r \in Readers : pc'[r] \in ReaderSteps
      /\ \A u \in Writers : pc'[u] \in WriterSteps
  BY WriterGoes DEF WriterSteps
<1>2. semRead > 0 /\ semRead' = semRead - 1
  BY DEF sem_wait
<1>3. semRead = 1 /\ ReadHolders = {} /\ Holds({w}, semRead')
  BY <1>2, WaitHolds DEF SemOK
<1>4. /\ ReadHolders' = {w} /\ MutexHolders' = MutexHolders /\ WriteHolders' = WriteHolders
      /\ ReadersIn' = ReadersIn /\ Counted' = Counted
  BY <1>1, <1>3, Apart DEF ReadHolders, MutexHolders, WriteHolders, ReadersIn, Counted
<1>5. SemOK' /\ CountOK'
  BY <1>1, <1>3, <1>4 DEF SemOK, CountOK
<1>6. TypeOK'
  BY <1>1, <1>2, <1>3 DEF TypeOK
<1>7. LoopsOK' /\ ReadsHold'
  BY <1>1 DEF LoopsOK, ReadsHold
<1>. QED
  BY <1>5, <1>6, <1>7

LEMMA WriterPostsRead ==
  ASSUME Inv, NEW w \in Writers, PostRead(w, "post_read", "read_sem")
  PROVE  Inv'
<1>. USE DEF Inv, PostRead, dataVars
<1>1. /\ pc[w] = "post_read" /\ pc'[w] = "read_sem"
      /\ \A u \in Writers : u # w => pc'[u] = pc[u]
      /\ \A r \in Readers : pc'[r] = pc[r]
      /\ pc' \in [Readers \cup Writers -> ReaderSteps \cup WriterSteps]
      /\ \A r \in Readers : pc'[r] \in ReaderSteps
      /\ \A u \in Writers : pc'[u] \in WriterSteps
  BY WriterGoes DEF WriterSteps
<1>2. w \in ReadHolders
  BY <1>1 DEF ReadHolders
<1>3. semRead = 0 /\ ReadHolders = {w} /\ Holds({}, semRead') /\ semRead' = 1
  BY <1>2, PostHolds DEF SemOK, sem_post
<1>4. /\ ReadHolders' = {} /\ MutexHolders' = MutexHolders /\ WriteHolders' = WriteHolders
      /\ ReadersIn' = ReadersIn /\ Counted' = Counted
  BY <1>1, <1>3, Apart DEF ReadHolders, MutexHolders, WriteHolders, ReadersIn, Counted
<1>5. SemOK' /\ CountOK'
  BY <1>1, <1>3, <1>4 DEF SemOK, CountOK
<1>6. TypeOK'
  BY <1>1, <1>3 DEF TypeOK
<1>7. LoopsOK' /\ ReadsHold'
  BY <1>1 DEF LoopsOK, ReadsHold
<1>. QED
  BY <1>5, <1>6, <1>7

LEMMA WaitWriteKeeps ==
  ASSUME Inv, NEW w \in Writers, WaitWrite(w)
  PROVE  Inv'
<1>. USE DEF Inv, WaitWrite
<1>1. /\ pc[w] = "write_sem" /\ pc'[w] = "write"
      /\ \A u \in Writers : u # w => pc'[u] = pc[u]
      /\ \A r \in Readers : pc'[r] = pc[r]
      /\ pc' \in [Readers \cup Writers -> ReaderSteps \cup WriterSteps]
      /\ \A r \in Readers : pc'[r] \in ReaderSteps
      /\ \A u \in Writers : pc'[u] \in WriterSteps
  BY WriterGoes DEF WriterSteps
<1>2. semWrite = 1 /\ semWrite' = 0 /\ WriteHolders = {} /\ ReadersIn = {}
  BY DEF sem_wait, TypeOK, SemOK
<1>3. /\ ReadHolders' = ReadHolders /\ MutexHolders' = MutexHolders /\ WriteHolders' = {w}
      /\ ReadersIn' = {} /\ Counted' = Counted
  BY <1>1, <1>2, Apart DEF ReadHolders, MutexHolders, WriteHolders, ReadersIn, Counted
<1>4. SemOK' /\ CountOK'
  BY <1>1, <1>2, <1>3 DEF SemOK, CountOK
<1>5. TypeOK'
  BY <1>1, <1>2 DEF TypeOK
<1>6. LoopsOK' /\ ReadsHold'
  BY <1>1, Apart, FileAssumption DEF TypeOK, LoopsOK, ReadsHold
<1>. QED
  BY <1>4, <1>5, <1>6

\* The file with one more character is a file, not empty, with the mark where
\* the next one goes.
LEMMA PutIs ==
  ASSUME NEW f \in File, NEW c \in Characters
  PROVE  /\ Put(f, c) \in File /\ Put(f, c).pointer > 0
         /\ (f = EmptyFile \/ \A p \in Positions :
                 f.buffer[p] = MARK => p = f.pointer % LEN_FILE)
            => \A p \in Positions :
                  Put(f, c).buffer[p] = MARK <=> p = Put(f, c).pointer % LEN_FILE
<1>. DEFINE n == LEN_FILE
            p == Wrap(f.pointer)
            q == IF p + 1 < n THEN p + 1 ELSE 0
<1>1. n \in Nat \ {0} /\ c # MARK /\ NUL # MARK
  BY FileAssumption
<1>2. f.pointer \in 0 .. n /\ f.buffer \in [Positions -> Characters \cup {NUL, MARK}]
  BY DEF File
<1>3. p \in 0 .. n - 1 /\ q \in 0 .. n - 1
  BY <1>1, <1>2 DEF Wrap
<1>. HIDE DEF n
<1>4. p = f.pointer % n /\ q = (p + 1) % n
  <2>1. CASE f.pointer = n
    BY <1>1, <1>2, <1>3, <2>1 DEF Wrap, n
  <2>2. CASE f.pointer < n
    BY <1>1, <1>2, <1>3, <2>2 DEF Wrap, n
  <2>3. q = (p + 1) % n
    <3>. HIDE DEF p
    <3>1. CASE p + 1 = n
      BY <1>1, <1>3, <3>1
    <3>2. CASE p + 1 < n
      BY <1>1, <1>3, <3>2
    <3>. QED
      BY <1>1, <1>3, <3>1, <3>2
  <2>. QED
    BY <1>1, <1>2, <2>1, <2>2, <2>3
<1>5. Put(f, c) = [buffer |-> [f.buffer EXCEPT ![p] = c, ![q] = MARK], pointer |-> p + 1]
  BY DEF Put, n
<1>. HIDE DEF p, q
<1>6. /\ Put(f, c).buffer = [f.buffer EXCEPT ![p] = c, ![q] = MARK]
      /\ Put(f, c).pointer = p + 1
  BY <1>5
<1>7. Put(f, c) \in File
  BY <1>1, <1>2, <1>3, <1>5 DEF File, Positions, n
<1>8. ASSUME f = EmptyFile \/ \A k \in Positions : f.buffer[k] = MARK => k = p,
             NEW k \in Positions
      PROVE  Put(f, c).buffer[k] = MARK <=> k = q
  BY <1>1, <1>2, <1>3, <1>6, <1>8 DEF EmptyFile, Positions, n
<1>. QED
  BY <1>1, <1>3, <1>4, <1>6, <1>7, <1>8 DEF n

\* Nobody reads while a writer is in, so nothing that was read is overwritten.
LEMMA WriteFileKeeps ==
  ASSUME Inv, NEW w \in Writers, WriteFile(w)
  PROVE  Inv'
<1>. USE DEF Inv, WriteFile, semVars
<1>. PICK b \in {"write", "post_write"} :
           /\ Goto(w, "write", b)
           /\ b = IF i[w] + 1 < Len(Text[w]) THEN "write" ELSE "post_write"
  OBVIOUS
<1>1. /\ pc[w] = "write" /\ pc'[w] = b
      /\ \A u \in Writers : u # w => pc'[u] = pc[u]
      /\ \A r \in Readers : pc'[r] = pc[r]
      /\ pc' \in [Readers \cup Writers -> ReaderSteps \cup WriterSteps]
      /\ \A r \in Readers : pc'[r] \in ReaderSteps
      /\ \A u \in Writers : pc'[u] \in WriterSteps
  BY WriterGoes DEF WriterSteps
<1>2. i[w] \in Nat /\ i[w] + 1 \in 1 .. Len(Text[w]) /\ Len(Text[w]) \in Nat
  BY <1>1, FileAssumption DEF TypeOK, LoopsOK
<1>3. Text[w][i[w] + 1] \in Characters
  BY <1>2 DEF Characters
<1>4. file' \in File
  BY <1>3, PutIs DEF TypeOK
<1>5. /\ ReadHolders' = ReadHolders /\ MutexHolders' = MutexHolders
      /\ WriteHolders' = WriteHolders /\ ReadersIn' = ReadersIn /\ Counted' = Counted
  BY <1>1, Apart DEF ReadHolders, MutexHolders, WriteHolders, ReadersIn, Counted
<1>6. SemOK' /\ CountOK'
  BY <1>1, <1>5 DEF SemOK, CountOK
<1>7. TypeOK'
  BY <1>1, <1>2, <1>4 DEF TypeOK
<1>8. LoopsOK'
  BY <1>1, <1>2, Apart DEF TypeOK, LoopsOK
<1>9. ReadersIn = {}
  BY <1>1 DEF SemOK, WriteHolders
<1>10. ReadsHold'
  BY <1>1, <1>9 DEF ReadsHold, ReadersIn
<1>. QED
  BY <1>6, <1>7, <1>8, <1>10

LEMMA PostWriteKeeps ==
  ASSUME Inv, NEW w \in Writers, PostWrite(w)
  PROVE  Inv'
<1>. USE DEF Inv, PostWrite, dataVars
<1>1. /\ pc[w] = "post_write" /\ pc'[w] = "post_read"
      /\ \A u \in Writers : u # w => pc'[u] = pc[u]
      /\ \A r \in Readers : pc'[r] = pc[r]
      /\ pc' \in [Readers \cup Writers -> ReaderSteps \cup WriterSteps]
      /\ \A r \in Readers : pc'[r] \in ReaderSteps
      /\ \A u \in Writers : pc'[u] \in WriterSteps
  BY WriterGoes DEF WriterSteps
<1>2. w \in WriteHolders /\ w \in ReadHolders
  BY <1>1 DEF WriteHolders, ReadHolders
<1>3. ReadHolders = {w} /\ ReadersIn = {} /\ semWrite' = 1
  BY <1>2, PostHolds DEF SemOK, sem_post
<1>4. WriteHolders \subseteq ReadHolders
  BY DEF WriteHolders, ReadHolders
<1>5. /\ ReadHolders' = ReadHolders /\ MutexHolders' = MutexHolders /\ WriteHolders' = {}
      /\ ReadersIn' = {} /\ Counted' = Counted
  BY <1>1, <1>3, <1>4, Apart DEF ReadHolders, MutexHolders, WriteHolders, ReadersIn, Counted
<1>6. SemOK' /\ CountOK'
  BY <1>1, <1>3, <1>5 DEF SemOK, CountOK
<1>7. TypeOK'
  BY <1>1, <1>3 DEF TypeOK
<1>8. LoopsOK' /\ ReadsHold'
  BY <1>1 DEF LoopsOK, ReadsHold
<1>. QED
  BY <1>6, <1>7, <1>8

LEMMA WriterKeeps ==
  ASSUME Inv, NEW w \in Writers, WriterFunction(w)
  PROVE  Inv'
  BY WriterWaitsRead, WaitWriteKeeps, WriteFileKeeps, PostWriteKeeps, WriterPostsRead
     DEF WriterFunction

-----------------------------------------------------------------------------
(* Readers *)

LEMMA ReaderWaitsRead ==
  ASSUME Inv, NEW r \in Readers, WaitRead(r, "enter_mutex")
  PROVE  Inv'
<1>. USE DEF Inv, WaitRead, dataVars
<1>1. /\ pc[r] = "read_sem" /\ pc'[r] = "enter_mutex"
      /\ \A u \in Readers : u # r => pc'[u] = pc[u]
      /\ \A w \in Writers : pc'[w] = pc[w]
      /\ pc' \in [Readers \cup Writers -> ReaderSteps \cup WriterSteps]
      /\ \A u \in Readers : pc'[u] \in ReaderSteps
      /\ \A w \in Writers : pc'[w] \in WriterSteps
  BY ReaderGoes DEF ReaderSteps
<1>2. semRead > 0 /\ semRead' = semRead - 1
  BY DEF sem_wait
<1>3. semRead = 1 /\ ReadHolders = {} /\ Holds({r}, semRead')
  BY <1>2, WaitHolds DEF SemOK
<1>4. /\ ReadHolders' = {r} /\ MutexHolders' = MutexHolders /\ WriteHolders' = WriteHolders
      /\ ReadersIn' = ReadersIn /\ Counted' = Counted
  BY <1>1, <1>3, Apart DEF ReadHolders, MutexHolders, WriteHolders, ReadersIn, Counted
<1>5. SemOK' /\ CountOK'
  BY <1>1, <1>3, <1>4 DEF SemOK, CountOK
<1>6. TypeOK'
  BY <1>1, <1>2, <1>3 DEF TypeOK
<1>7. LoopsOK' /\ ReadsHold'
  BY <1>1 DEF LoopsOK, ReadsHold
<1>. QED
  BY <1>5, <1>6, <1>7

LEMMA ReaderPostsRead ==
  ASSUME Inv, NEW r \in Readers, PostRead(r, "entered_post", "measure")
  PROVE  Inv'
<1>. USE DEF Inv, PostRead, dataVars
<1>1. /\ pc[r] = "entered_post" /\ pc'[r] = "measure"
      /\ \A u \in Readers : u # r => pc'[u] = pc[u]
      /\ \A w \in Writers : pc'[w] = pc[w]
      /\ pc' \in [Readers \cup Writers -> ReaderSteps \cup WriterSteps]
      /\ \A u \in Readers : pc'[u] \in ReaderSteps
      /\ \A w \in Writers : pc'[w] \in WriterSteps
  BY ReaderGoes DEF ReaderSteps
<1>2. r \in ReadHolders
  BY <1>1 DEF ReadHolders
<1>3. semRead = 0 /\ ReadHolders = {r} /\ Holds({}, semRead') /\ semRead' = 1
  BY <1>2, PostHolds DEF SemOK, sem_post
<1>4. /\ ReadHolders' = {} /\ MutexHolders' = MutexHolders /\ WriteHolders' = WriteHolders
      /\ ReadersIn' = ReadersIn /\ Counted' = Counted
  BY <1>1, <1>3, Apart DEF ReadHolders, MutexHolders, WriteHolders, ReadersIn, Counted
<1>5. SemOK' /\ CountOK'
  BY <1>1, <1>3, <1>4 DEF SemOK, CountOK
<1>6. TypeOK'
  BY <1>1, <1>3 DEF TypeOK
<1>7. LoopsOK' /\ ReadsHold'
  BY <1>1 DEF LoopsOK, ReadsHold
<1>. QED
  BY <1>5, <1>6, <1>7

LEMMA WaitMutexKeeps ==
  ASSUME Inv, NEW r \in Readers, WaitMutex(r)
  PROVE  Inv'
<1>. USE DEF Inv, WaitMutex, dataVars
<1>. PICK a \in {"enter_mutex", "leave_mutex"}, b \in {"count", "uncount"} :
           Goto(r, a, b) /\ (a = "enter_mutex" <=> b = "count")
  OBVIOUS
<1>0. a \in ReaderSteps /\ b \in ReaderSteps
  BY DEF ReaderSteps
<1>1. /\ pc[r] = a /\ pc'[r] = b
      /\ \A u \in Readers : u # r => pc'[u] = pc[u]
      /\ \A w \in Writers : pc'[w] = pc[w]
      /\ pc' \in [Readers \cup Writers -> ReaderSteps \cup WriterSteps]
      /\ \A u \in Readers : pc'[u] \in ReaderSteps
      /\ \A w \in Writers : pc'[w] \in WriterSteps
  BY <1>0, ReaderGoes
<1>2. semMutex > 0 /\ semMutex' = semMutex - 1
  BY DEF sem_wait
<1>3. semMutex = 1 /\ MutexHolders = {} /\ Holds({r}, semMutex')
  BY <1>2, WaitHolds DEF SemOK
<1>4. /\ ReadHolders' = ReadHolders /\ MutexHolders' = {r} /\ WriteHolders' = WriteHolders
      /\ ReadersIn' = ReadersIn /\ Counted' = Counted
  BY <1>1, <1>3, Apart DEF ReadHolders, MutexHolders, WriteHolders, ReadersIn, Counted
<1>5. SemOK' /\ CountOK'
  BY <1>1, <1>3, <1>4 DEF SemOK, CountOK
<1>6. TypeOK'
  BY <1>1, <1>2, <1>3 DEF TypeOK
<1>7. LoopsOK' /\ ReadsHold'
  BY <1>1 DEF LoopsOK, ReadsHold
<1>. QED
  BY <1>5, <1>6, <1>7

\* Whoever holds semMutex is the only one between waiting for it and posting it.
LEMMA MutexIs ==
  ASSUME Inv, NEW r \in MutexHolders
  PROVE  MutexHolders = {r} /\ semMutex = 0
  BY PostHolds DEF Inv, SemOK

\* With semMutex held by r, every other counted reader has been let in.
LEMMA OthersAreIn ==
  ASSUME Inv, NEW r \in MutexHolders
  PROVE  \A u \in Counted : u # r => u \in ReadersIn
<1>1. MutexHolders = {r}
  BY MutexIs
<1>. QED
  BY <1>1 DEF Counted, ReadersIn, MutexHolders

LEMMA CountKeeps ==
  ASSUME Inv, NEW r \in Readers, Count(r)
  PROVE  Inv'
<1>. USE DEF Inv, Count, dataVars
<1>. PICK b \in {"first", "entered"} :
           /\ Goto(r, "count", b)
           /\ b = IF nReadCount + 1 = 1 THEN "first" ELSE "entered"
  OBVIOUS
<1>1. /\ pc[r] = "count" /\ pc'[r] = b
      /\ \A u \in Readers : u # r => pc'[u] = pc[u]
      /\ \A w \in Writers : pc'[w] = pc[w]
      /\ pc' \in [Readers \cup Writers -> ReaderSteps \cup WriterSteps]
      /\ \A u \in Readers : pc'[u] \in ReaderSteps
      /\ \A w \in Writers : pc'[w] \in WriterSteps
  BY ReaderGoes DEF ReaderSteps
<1>2. r \in MutexHolders /\ MutexHolders = {r} /\ r \notin Counted
  BY <1>1, MutexIs DEF MutexHolders, Counted
<1>3. b = "first" <=> Counted = {}
  BY CountedIs DEF CountOK
<1>4. Counted' = Counted \cup {r}
  BY <1>1 DEF Counted
<1>5. nReadCount' = Cardinality(Counted') /\ nReadCount' \in Nat
  BY <1>2, <1>4, CountedIs, FS_AddElement DEF CountOK
<1>6. /\ ReadHolders' = ReadHolders /\ MutexHolders' = MutexHolders
      /\ WriteHolders' = WriteHolders
      /\ ReadersIn' = IF b = "first" THEN ReadersIn ELSE ReadersIn \cup {r}
  BY <1>1, Apart DEF ReadHolders, MutexHolders, WriteHolders, ReadersIn
<1>7. b = "entered" => ReadersIn # {}
  BY <1>2, <1>3, OthersAreIn
<1>8. SemOK'
  BY <1>6, <1>7 DEF SemOK
<1>9. \A u \in Readers : u # r => pc[u] \notin {"first", "last"}
  BY <1>2 DEF MutexHolders
<1>10. CountOK'
  BY <1>1, <1>3, <1>4, <1>5, <1>9 DEF CountOK
<1>11. TypeOK'
  BY <1>1, <1>5 DEF TypeOK
<1>12. LoopsOK' /\ ReadsHold'
  BY <1>1 DEF LoopsOK, ReadsHold
<1>. QED
  BY <1>8, <1>10, <1>11, <1>12

LEMMA FirstWaitsKeeps ==
  ASSUME Inv, NEW r \in Readers, FirstWaits(r)
  PROVE  Inv'
<1>. USE DEF Inv, FirstWaits, dataVars
<1>1. /\ pc[r] = "first" /\ pc'[r] = "entered"
      /\ \A u \in Readers : u # r => pc'[u] = pc[u]
      /\ \A w \in Writers : pc'[w] = pc[w]
      /\ pc' \in [Readers \cup Writers -> ReaderSteps \cup WriterSteps]
      /\ \A u \in Readers : pc'[u] \in ReaderSteps
      /\ \A w \in Writers : pc'[w] \in WriterSteps
  BY ReaderGoes DEF ReaderSteps
<1>2. semWrite = 1 /\ semWrite' = 0 /\ WriteHolders = {} /\ ReadersIn = {}
  BY DEF sem_wait, TypeOK, SemOK
<1>3. /\ ReadHolders' = ReadHolders /\ MutexHolders' = MutexHolders /\ WriteHolders' = {}
      /\ ReadersIn' = {r} /\ Counted' = Counted
  BY <1>1, <1>2, Apart DEF ReadHolders, MutexHolders, WriteHolders, ReadersIn, Counted
<1>4. SemOK' /\ CountOK'
  BY <1>1, <1>2, <1>3 DEF SemOK, CountOK
<1>5. TypeOK'
  BY <1>1, <1>2 DEF TypeOK
<1>6. LoopsOK' /\ ReadsHold'
  BY <1>1 DEF LoopsOK, ReadsHold
<1>. QED
  BY <1>4, <1>5, <1>6

LEMMA PostMutexKeeps ==
  ASSUME Inv, NEW r \in Readers, PostMutex(r)
  PROVE  Inv'
<1>. USE DEF Inv, PostMutex, dataVars
<1>. PICK a \in {"entered", "left"}, b \in {"entered_post", "read_sem"} :
           Goto(r, a, b) /\ (a = "entered" <=> b = "entered_post")
  OBVIOUS
<1>1. /\ pc[r] = a /\ pc'[r] = b
      /\ \A u \in Readers : u # r => pc'[u] = pc[u]
      /\ \A w \in Writers : pc'[w] = pc[w]
      /\ pc' \in [Readers \cup Writers -> ReaderSteps \cup WriterSteps]
      /\ \A u \in Readers : pc'[u] \in ReaderSteps
      /\ \A w \in Writers : pc'[w] \in WriterSteps
  BY ReaderGoes DEF ReaderSteps
<1>2. r \in MutexHolders
  BY <1>1 DEF MutexHolders
<1>3. MutexHolders = {r} /\ semMutex' = 1 /\ Holds({}, semMutex')
  BY <1>2, PostHolds DEF SemOK, sem_post
<1>4. /\ ReadHolders' = ReadHolders /\ MutexHolders' = {} /\ WriteHolders' = WriteHolders
      /\ ReadersIn' = ReadersIn /\ Counted' = Counted
  BY <1>1, <1>3, Apart DEF ReadHolders, MutexHolders, WriteHolders, ReadersIn, Counted
<1>5. SemOK' /\ CountOK'
  BY <1>1, <1>3, <1>4 DEF SemOK, CountOK
<1>6. TypeOK' /\ LoopsOK' /\ ReadsHold'
  BY <1>1, <1>3 DEF TypeOK, LoopsOK, ReadsHold
<1>. QED
  BY <1>5, <1>6

LEMMA MeasureFileKeeps ==
  ASSUME Inv, NEW r \in Readers, MeasureFile(r)
  PROVE  Inv'
<1>. USE DEF Inv, MeasureFile, semVars
<1>. PICK b \in {"leave_mutex", "read"} :
           Goto(r, "measure", b) /\ b = IF Length(file) = 0 THEN "leave_mutex" ELSE "read"
  OBVIOUS
<1>1. /\ pc[r] = "measure" /\ pc'[r] = b
      /\ \A u \in Readers : u # r => pc'[u] = pc[u]
      /\ \A w \in Writers : pc'[w] = pc[w]
      /\ pc' \in [Readers \cup Writers -> ReaderSteps \cup WriterSteps]
      /\ \A u \in Readers : pc'[u] \in ReaderSteps
      /\ \A w \in Writers : pc'[w] \in WriterSteps
  BY ReaderGoes DEF ReaderSteps
<1>2. /\ ReadHolders' = ReadHolders /\ MutexHolders' = MutexHolders
      /\ WriteHolders' = WriteHolders /\ ReadersIn' = ReadersIn /\ Counted' = Counted
  BY <1>1, Apart DEF ReadHolders, MutexHolders, WriteHolders, ReadersIn, Counted
<1>3. SemOK' /\ CountOK'
  BY <1>1, <1>2 DEF SemOK, CountOK
<1>4. Length(file) \in 0 .. LEN_FILE /\ LEN_FILE \in Nat
  BY LengthIs, FileAssumption DEF TypeOK
<1>5. TypeOK'
  <2>1. szData' \in [Readers -> [Positions -> Characters \cup {NUL, MARK}]]
    BY DEF TypeOK, EmptyFile
  <2>. QED
    BY <1>1, <1>4, <2>1 DEF TypeOK
<1>6. LoopsOK'
  BY <1>1, <1>4, Apart DEF TypeOK, LoopsOK
<1>7. ReadsHold'
  <2>. SUFFICES ASSUME NEW u \in Readers, pc'[u] = "read"
                PROVE  /\ nLenBuffer'[u] = Length(file)
                       /\ \A p \in Positions : p < i'[u] => szData'[u][p] = file.buffer[p]
    BY DEF ReadsHold, Length
  <2>1. CASE u = r
    BY <1>4, <2>1 DEF TypeOK, Positions
  <2>2. CASE u # r
    BY <1>1, <2>2 DEF TypeOK, ReadsHold
  <2>. QED
    BY <2>1, <2>2
<1>. QED
  BY <1>3, <1>5, <1>6, <1>7

LEMMA ReadFileKeeps ==
  ASSUME Inv, NEW r \in Readers, ReadFile(r)
  PROVE  Inv'
<1>. USE DEF Inv, ReadFile, semVars
<1>. PICK b \in {"leave_mutex", "read"} :
           /\ Goto(r, "read", b)
           /\ b = IF i[r] + 1 < nLenBuffer[r] THEN "read" ELSE "leave_mutex"
  OBVIOUS
<1>1. /\ pc[r] = "read" /\ pc'[r] = b
      /\ \A u \in Readers : u # r => pc'[u] = pc[u]
      /\ \A w \in Writers : pc'[w] = pc[w]
      /\ pc' \in [Readers \cup Writers -> ReaderSteps \cup WriterSteps]
      /\ \A u \in Readers : pc'[u] \in ReaderSteps
      /\ \A w \in Writers : pc'[w] \in WriterSteps
  BY ReaderGoes DEF ReaderSteps
<1>2. /\ ReadHolders' = ReadHolders /\ MutexHolders' = MutexHolders
      /\ WriteHolders' = WriteHolders /\ ReadersIn' = ReadersIn /\ Counted' = Counted
  BY <1>1, Apart DEF ReadHolders, MutexHolders, WriteHolders, ReadersIn, Counted
<1>3. SemOK' /\ CountOK'
  BY <1>1, <1>2 DEF SemOK, CountOK
<1>4. i[r] \in Positions /\ i[r] \in Nat
  BY <1>1, FileAssumption DEF TypeOK, LoopsOK, Positions
<1>5. file.buffer \in [Positions -> Characters \cup {NUL, MARK}]
  BY DEF TypeOK, File
<1>6. szData' \in [Readers -> [Positions -> Characters \cup {NUL, MARK}]]
  BY <1>4, <1>5 DEF TypeOK
<1>7. TypeOK'
  BY <1>1, <1>4, <1>6 DEF TypeOK
<1>8. LoopsOK'
  BY <1>1, <1>4, Apart DEF TypeOK, LoopsOK
<1>9. ReadsHold'
  <2>. SUFFICES ASSUME NEW u \in Readers, pc'[u] = "read"
                PROVE  /\ nLenBuffer[u] = Length(file)
                       /\ \A p \in Positions : p < i'[u] => szData'[u][p] = file.buffer[p]
    BY DEF ReadsHold, Length
  <2>1. CASE u = r
    <3>1. i'[u] = i[r] + 1 /\ szData'[u] = [szData[r] EXCEPT ![i[r]] = file.buffer[i[r]]]
      BY <2>1 DEF TypeOK
    <3>2. szData[r] \in [Positions -> Characters \cup {NUL, MARK}]
      BY DEF TypeOK
    <3>3. /\ nLenBuffer[u] = Length(file)
          /\ \A p \in Positions : p < i[r] => szData[r][p] = file.buffer[p]
      BY <1>1, <2>1 DEF ReadsHold
    <3>4. ASSUME NEW p \in Positions, p < i'[u]
          PROVE  szData'[u][p] = file.buffer[p]
      <4>1. CASE p = i[r]
        BY <1>4, <3>1, <3>2, <4>1
      <4>2. CASE p # i[r]
        <5>1. p < i[r]
          BY <1>4, <3>1, <3>4, <4>2, FileAssumption DEF Positions
        <5>2. szData'[u][p] = szData[r][p]
          BY <3>1, <3>2, <4>2
        <5>. QED
          BY <3>3, <5>1, <5>2
      <4>. QED
        BY <4>1, <4>2
    <3>. QED
      BY <3>3, <3>4
  <2>2. CASE u # r
    BY <1>1, <2>2 DEF TypeOK, ReadsHold
  <2>. QED
    BY <2>1, <2>2
<1>. QED
  BY <1>3, <1>7, <1>8, <1>9

LEMMA UncountKeeps ==
  ASSUME Inv, NEW r \in Readers, Uncount(r)
  PROVE  Inv'
<1>. USE DEF Inv, Uncount, dataVars
<1>. PICK b \in {"last", "left"} :
           Goto(r, "uncount", b) /\ b = IF nReadCount - 1 = 0 THEN "last" ELSE "left"
  OBVIOUS
<1>1. /\ pc[r] = "uncount" /\ pc'[r] = b
      /\ \A u \in Readers : u # r => pc'[u] = pc[u]
      /\ \A w \in Writers : pc'[w] = pc[w]
      /\ pc' \in [Readers \cup Writers -> ReaderSteps \cup WriterSteps]
      /\ \A u \in Readers : pc'[u] \in ReaderSteps
      /\ \A w \in Writers : pc'[w] \in WriterSteps
  BY ReaderGoes DEF ReaderSteps
<1>2. /\ r \in MutexHolders /\ MutexHolders = {r}
      /\ r \in Counted /\ r \in ReadersIn
  BY <1>1, MutexIs DEF MutexHolders, Counted, ReadersIn
<1>3. Counted' = Counted \ {r}
  BY <1>1 DEF Counted
<1>4. nReadCount' = Cardinality(Counted') /\ nReadCount' \in Nat
  BY <1>2, <1>3, CountedIs, FS_RemoveElement, FS_CardinalityType DEF CountOK
<1>5. b = "last" <=> Counted' = {}
  BY <1>2, <1>3, <1>4, CountedIs, FS_RemoveElement, FS_EmptySet DEF CountOK
<1>6. /\ ReadHolders' = ReadHolders /\ MutexHolders' = MutexHolders
      /\ WriteHolders' = WriteHolders
      /\ ReadersIn' = IF b = "last" THEN ReadersIn ELSE ReadersIn \ {r}
  BY <1>1, Apart DEF ReadHolders, MutexHolders, WriteHolders, ReadersIn
<1>7. b = "left" => ReadersIn \ {r} # {}
  BY <1>2, <1>3, <1>5, OthersAreIn
<1>8. SemOK'
  BY <1>2, <1>6, <1>7 DEF SemOK
<1>9. \A u \in Readers : u # r => pc[u] \notin {"first", "last"}
  BY <1>2 DEF MutexHolders
<1>10. CountOK'
  BY <1>1, <1>4, <1>5, <1>9 DEF CountOK
<1>11. TypeOK'
  BY <1>1, <1>4 DEF TypeOK
<1>12. LoopsOK' /\ ReadsHold'
  BY <1>1 DEF LoopsOK, ReadsHold
<1>. QED
  BY <1>8, <1>10, <1>11, <1>12

LEMMA LastPostsKeeps ==
  ASSUME Inv, NEW r \in Readers, LastPosts(r)
  PROVE  Inv'
<1>. USE DEF Inv, LastPosts, dataVars
<1>1. /\ pc[r] = "last" /\ pc'[r] = "left"
      /\ \A u \in Readers : u # r => pc'[u] = pc[u]
      /\ \A w \in Writers : pc'[w] = pc[w]
      /\ pc' \in [Readers \cup Writers -> ReaderSteps \cup WriterSteps]
      /\ \A u \in Readers : pc'[u] \in ReaderSteps
      /\ \A w \in Writers : pc'[w] \in WriterSteps
  BY ReaderGoes DEF ReaderSteps
<1>2. r \in MutexHolders /\ MutexHolders = {r} /\ r \in ReadersIn /\ Counted = {}
  BY <1>1, MutexIs DEF MutexHolders, ReadersIn, CountOK
<1>3. ReadersIn = {r}
  BY <1>2 DEF ReadersIn, Counted, MutexHolders
<1>4. WriteHolders = {} /\ semWrite' = 1
  BY <1>2 DEF SemOK, sem_post
<1>5. /\ ReadHolders' = ReadHolders /\ MutexHolders' = MutexHolders /\ WriteHolders' = {}
      /\ ReadersIn' = {} /\ Counted' = Counted
  BY <1>1, <1>3, <1>4, Apart DEF ReadHolders, MutexHolders, WriteHolders, ReadersIn, Counted
<1>6. SemOK' /\ CountOK'
  BY <1>1, <1>2, <1>4, <1>5 DEF SemOK, CountOK
<1>7. TypeOK'
  BY <1>1, <1>4 DEF TypeOK
<1>8. LoopsOK' /\ ReadsHold'
  BY <1>1 DEF LoopsOK, ReadsHold
<1>. QED
  BY <1>6, <1>7, <1>8

LEMMA ReaderKeeps ==
  ASSUME Inv, NEW r \in Readers, ReaderFunction(r)
  PROVE  Inv'
  BY ReaderWaitsRead, WaitMutexKeeps, CountKeeps, FirstWaitsKeeps, PostMutexKeeps,
     ReaderPostsRead, MeasureFileKeeps, ReadFileKeeps, UncountKeeps, LastPostsKeeps
     DEF ReaderFunction

-----------------------------------------------------------------------------

LEMMA Start == Init => Inv
<1>. SUFFICES ASSUME Init PROVE Inv
  OBVIOUS
<1>1. \A t \in Readers \cup Writers : pc[t] = "read_sem"
  BY DEF Init
<1>2. /\ ReadHolders = {} /\ MutexHolders = {} /\ WriteHolders = {}
      /\ ReadersIn = {} /\ Counted = {}
  BY <1>1 DEF ReadHolders, MutexHolders, WriteHolders, ReadersIn, Counted
<1>3. SemOK
  BY <1>2 DEF Init, SemOK, Holds
<1>4. CountOK
  BY <1>1, <1>2, FS_EmptySet DEF Init, CountOK
<1>5. EmptyFile \in File
  BY FileAssumption DEF EmptyFile, File
<1>6. TypeOK
  BY <1>5, FileAssumption DEF Init, TypeOK, ReaderSteps, WriterSteps, EmptyFile
<1>7. LoopsOK /\ ReadsHold
  BY <1>1 DEF LoopsOK, ReadsHold
<1>. QED
  BY <1>3, <1>4, <1>6, <1>7 DEF Inv

LEMMA StepKeeps ==
  ASSUME Inv, [Next]_vars
  PROVE  Inv'
<1>1. CASE UNCHANGED vars
  BY <1>1 DEF vars, Inv, TypeOK, SemOK, CountOK, LoopsOK, ReadsHold, ReadHolders,
     MutexHolders, WriteHolders, ReadersIn, Counted
<1>. QED
  BY <1>1, WriterKeeps, ReaderKeeps DEF Next

LEMMA Invariance == Spec => []Inv
  BY Start, StepKeeps, PTL DEF Spec

\* The semaphores stay 0 or 1, the count of readers does not fall below 0, and
\* the loops of WriteFile and ReadFile stay inside _szFileBuffer.
THEOREM TypeCorrect == Spec => []TypeOK
<1>1. Inv => TypeOK
  BY DEF Inv
<1>. QED
  BY <1>1, Invariance, PTL

\* No two writers are in WriteFile, and no writer while a reader is in ReadFile,
\* for any number of each.
THEOREM WritersAreAlone == Spec => []Exclusion
<1>1. Inv => Exclusion
  <2>. SUFFICES ASSUME Inv, NEW w \in Writing PROVE Writing = {w} /\ Reading = {}
    BY DEF Exclusion
  <2>1. w \in WriteHolders /\ w \in ReadHolders /\ Writing \subseteq ReadHolders
    BY DEF Writing, WriteHolders, ReadHolders
  <2>2. ReadHolders = {w}
    BY <2>1, PostHolds DEF Inv, SemOK
  <2>3. ReadersIn = {} /\ Reading \subseteq ReadersIn
    BY <2>1 DEF Inv, SemOK, Reading, ReadersIn
  <2>. QED
    BY <2>1, <2>2, <2>3
<1>. QED
  BY <1>1, Invariance, PTL

\* What ReadFile has copied stays what is in the file until it returns.
THEOREM ReadsAreStable == Spec => []ReadsHold
<1>1. Inv => ReadsHold
  BY DEF Inv
<1>. QED
  BY <1>1, Invariance, PTL

\* The mark is always where the next character goes, round and round the file.
THEOREM MarkIsAtPointer == Spec => []OneMark
<1>. DEFINE MarkInv == OneMark /\ (file.pointer = 0 => file = EmptyFile)
<1>1. Init => MarkInv
  BY FileAssumption DEF Init, OneMark, EmptyFile
<1>2. Inv /\ MarkInv /\ [Next]_vars => MarkInv'
  <2>. SUFFICES ASSUME Inv, MarkInv, [Next]_vars PROVE MarkInv'
    OBVIOUS
  <2>1. ASSUME NEW w \in Writers, WriteFile(w) PROVE MarkInv'
    <3>1. i[w] \in Nat /\ i[w] + 1 \in 1 .. Len(Text[w])
      BY <2>1, FileAssumption DEF WriteFile, Goto, Inv, TypeOK, LoopsOK
    <3>2. PICK c \in Characters : file' = Put(file, c)
      BY <2>1, <3>1 DEF WriteFile, Characters
    <3>3. /\ file' \in File /\ file'.pointer > 0
          /\ \A p \in Positions :
                file'.buffer[p] = MARK <=> p = file'.pointer % LEN_FILE
      BY <3>2, PutIs DEF Inv, TypeOK, OneMark
    <3>4. file' # EmptyFile
      BY <3>3 DEF EmptyFile
    <3>. QED
      BY <3>3, <3>4 DEF OneMark, File
  <2>2. CASE UNCHANGED file
    BY <2>2 DEF OneMark
  <2>3. ASSUME NEW w \in Writers, WriterFunction(w), ~WriteFile(w) PROVE UNCHANGED file
    BY <2>3 DEF WriterFunction, WaitRead, WaitWrite, PostWrite, PostRead
  <2>4. ASSUME NEW r \in Readers, ReaderFunction(r) PROVE UNCHANGED file
    BY <2>4 DEF ReaderFunction, WaitRead, WaitMutex, Count, FirstWaits, PostMutex, PostRead,
       MeasureFile, ReadFile, Uncount, LastPosts, semVars
  <2>. QED
    BY <2>1, <2>2, <2>3, <2>4 DEF Next, vars
<1>3. MarkInv => OneMark
  OBVIOUS
<1>. QED
  BY <1>1, <1>2, <1>3, Invariance, PTL DEF Spec
-----------------------------------------------------------------------------
(* The monitor *)

\* A set of numbers that is not empty has a least one.
LEMMA LeastNumber ==
  ASSUME NEW S, S \subseteq Nat, S # {}
  PROVE  \E n \in S : \A m \in S : n <= m
<1>. DEFINE R == {ss \in Nat \X Nat : ss[1] < ss[2]}
<1>1. IsWellFoundedOn(R, Nat)
  BY NatLessThanWellFounded DEF OpToRel
<1>. HIDE DEF R
<1>2. PICK n \in S : \A m \in S : ~(<<m, n>> \in R)
  BY <1>1, WFMin
<1>3. ASSUME NEW m \in S PROVE n <= m
  <2>1. m \in Nat /\ n \in Nat /\ <<m, n>> \notin R
    BY <1>2
  <2>. QED
    BY <2>1 DEF R
<1>. QED
  BY <1>3

\* There is a function with the recursive definition of Rest(w): the approximations
\* up to each n exist, and agree where they are defined; else there were a least n
\* where they do not.
LEMMA RestUnfolds ==
  ASSUME NEW w
  PROVE  /\ Rest(w)[0] = [f \in File |-> f]
         /\ \A n \in Nat : Rest(w)[n + 1] =
                [f \in File |-> Rest(w)[n][Put(f, Text[w][Len(Text[w]) - (n + 1) + 1])]]
<1>. DEFINE Body(h, n) == IF n = 0 THEN [f \in File |-> f]
                          ELSE [f \in File |-> h[n - 1][Put(f, Text[w][Len(Text[w]) - n + 1])]]
            UpTo(h, n) == h = [k \in 0 .. n |-> Body(h, k)]
            h(n) == CHOOSE h : UpTo(h, n)
            g == [n \in Nat |-> h(n)[n]]
<1>1. \A f, e, k : (k # 0 => f[k - 1] = e[k - 1]) => Body(f, k) = Body(e, k)
  OBVIOUS
<1>2. \A e : Body(e, 0) = [f \in File |-> f]
  OBVIOUS
<1>3. \A e : \A n \in Nat : Body(e, n + 1) =
          [f \in File |-> e[n][Put(f, Text[w][Len(Text[w]) - (n + 1) + 1])]]
  <2>. SUFFICES ASSUME NEW e, NEW n \in Nat
                PROVE  Body(e, n + 1) =
                         [f \in File |-> e[n][Put(f, Text[w][Len(Text[w]) - (n + 1) + 1])]]
    OBVIOUS
  <2>1. n + 1 # 0 /\ (n + 1) - 1 = n
    OBVIOUS
  <2>. QED
    BY <2>1
<1>4. Rest(w) = CHOOSE rest : rest = [n \in Nat |-> Body(rest, n)]
  BY DEF Rest
<1>. HIDE DEF Body
<1>5. \A n \in Nat : \E e : UpTo(e, n)
  <2>. DEFINE S == {n \in Nat : ~\E e : UpTo(e, n)}
  <2>. SUFFICES ASSUME S # {} PROVE FALSE
    OBVIOUS
  <2>1. PICK n \in S : \A m \in S : n <= m
    <3>. HIDE DEF S
    <3>1. S \subseteq Nat
      BY DEF S
    <3>. QED
      BY <3>1, LeastNumber
  <2>2. CASE n = 0
    <3>. DEFINE e == [k \in 0 .. 0 |-> Body(0, k)]
    <3>1. UpTo(e, 0)
      BY <1>1
    <3>. QED
      BY <3>1, <2>1, <2>2
  <2>3. CASE n # 0
    <3>1. n - 1 \in Nat /\ n - 1 \notin S
      BY <2>1, <2>3
    <3>2. PICK e : UpTo(e, n - 1)
      BY <3>1
    <3>. DEFINE d == [k \in 0 .. n |-> IF k = n THEN Body(e, n) ELSE e[k]]
    <3>3. \A k \in 0 .. n : k # 0 => d[k - 1] = e[k - 1]
      BY <3>1
    <3>4. ASSUME NEW k \in 0 .. n PROVE d[k] = Body(d, k)
      <4>1. Body(d, k) = Body(e, k)
        BY <1>1, <3>3
      <4>2. k # n => e[k] = Body(e, k)
        BY <3>1, <3>2
      <4>. QED
        BY <4>1, <4>2
    <3>5. UpTo(d, n)
      BY <3>4
    <3>. QED
      BY <3>5, <2>1
  <2>. QED
    BY <2>2, <2>3
<1>6. ASSUME NEW m \in Nat, NEW n \in Nat, NEW e, NEW d, UpTo(e, m), UpTo(d, n), m <= n
      PROVE  \A k \in 0 .. m : e[k] = d[k]
  <2>. DEFINE S == {k \in 0 .. m : e[k] # d[k]}
  <2>. SUFFICES ASSUME S # {} PROVE FALSE
    OBVIOUS
  <2>1. PICK k \in S : \A l \in S : k <= l
    <3>1. S \subseteq Nat
      OBVIOUS
    <3>. HIDE DEF S
    <3>. QED
      BY <3>1, LeastNumber
  <2>2. k \in 0 .. m /\ k \in 0 .. n /\ e[k] # d[k]
    BY <2>1, <1>6
  <2>3. k # 0 => e[k - 1] = d[k - 1]
    BY <2>1, <2>2
  <2>4. e[k] = Body(e, k) /\ d[k] = Body(d, k)
    BY <2>2, <1>6
  <2>. QED
    BY <1>1, <2>2, <2>3, <2>4
<1>7. \A n \in Nat : UpTo(h(n), n)
  BY <1>5
<1>. HIDE DEF h
<1>8. ASSUME NEW n \in Nat PROVE h(n)[n] = Body(h(n), n)
  <2>1. n \in 0 .. n /\ UpTo(h(n), n)
    BY <1>7
  <2>. QED
    BY <2>1
<1>. HIDE DEF UpTo
<1>9. ASSUME NEW n \in Nat PROVE g[n] = Body(g, n)
  <2>1. n # 0 => g[n - 1] = h(n)[n - 1]
    BY <1>6, <1>7
  <2>. QED
    BY <1>1, <1>8, <2>1
<1>10. g = [n \in Nat |-> Body(g, n)]
  BY <1>9
<1>11. Rest(w) = [n \in Nat |-> Body(Rest(w), n)]
  BY <1>4, <1>10
<1>12. ASSUME NEW n \in Nat PROVE Rest(w)[n] = Body(Rest(w), n)
  BY <1>11
<1>13. Rest(w)[0] = [f \in File |-> f]
  BY <1>2, <1>12
<1>14. ASSUME NEW n \in Nat
       PROVE  Rest(w)[n + 1] =
                [f \in File |-> Rest(w)[n][Put(f, Text[w][Len(Text[w]) - (n + 1) + 1])]]
  <2>1. n + 1 \in Nat
    OBVIOUS
  <2>2. Rest(w)[n + 1] = Body(Rest(w), n + 1)
    BY <2>1, <1>12
  <2>. QED
    BY <2>2, <1>3
<1>. QED
  BY <1>13, <1>14

\* The NULs of a file are those behind the first round of writing, if there are any.
NulsLast(f) ==
  /\ \A p, q \in Positions : p <= q /\ f.buffer[p] = NUL => f.buffer[q] = NUL
  /\ f = EmptyFile \/ \A p \in Positions : p <= f.pointer => f.buffer[p] # NUL

\* What a reader has not read yet is NUL in its buffer.
Cleared ==
  \A r \in Readers : pc[r] = "read" =>
      \A p \in Positions : p >= i[r] => szData[r][p] = NUL

LEMMA PutKeepsNuls ==
  ASSUME NEW f \in File, NEW c \in Characters, NulsLast(f)
  PROVE  NulsLast(Put(f, c))
<1>. DEFINE p == Wrap(f.pointer)
            n == IF p + 1 < LEN_FILE THEN p + 1 ELSE 0
            b == Put(f, c).buffer
<1>1. LEN_FILE \in Nat \ {0} /\ c # NUL /\ MARK # NUL /\ Positions = 0 .. LEN_FILE - 1
  BY FileAssumption DEF Positions
<1>2. f.buffer \in [Positions -> Characters \cup {NUL, MARK}] /\ f.pointer \in 0 .. LEN_FILE
  BY DEF File
<1>3. p \in Positions /\ n \in Positions
  BY <1>1, <1>2 DEF Wrap
<1>4. b = [f.buffer EXCEPT ![p] = c, ![n] = MARK] /\ Put(f, c).pointer = p + 1
  BY DEF Put
<1>. HIDE DEF n, b
<1>5. \A q \in Positions : b[q] = IF q = n THEN MARK ELSE IF q = p THEN c ELSE f.buffer[q]
  BY <1>2, <1>3, <1>4
<1>6. \A q \in Positions : b[q] # NUL <=> q = n \/ q = p \/ f.buffer[q] # NUL
  BY <1>1, <1>5
<1>7. CASE f = EmptyFile
  <2>1. p = 0 /\ \A q \in Positions : f.buffer[q] = NUL
    BY <1>1, <1>7 DEF EmptyFile, Wrap
  <2>2. \A q \in Positions : b[q] # NUL <=> q <= p + 1
    BY <1>1, <1>6, <2>1 DEF n
  <2>. QED
    BY <1>1, <1>4, <2>1, <2>2 DEF NulsLast, b
<1>8. CASE f # EmptyFile /\ f.pointer = LEN_FILE
  <2>1. \A q \in Positions : f.buffer[q] # NUL
    BY <1>1, <1>8 DEF NulsLast
  <2>. QED
    BY <1>6, <2>1 DEF NulsLast, b
<1>9. CASE f # EmptyFile /\ f.pointer < LEN_FILE
  <2>1. p = f.pointer
    BY <1>1, <1>2, <1>9 DEF Wrap
  <2>2. \A q \in Positions : q <= p => f.buffer[q] # NUL
    BY <1>9, <2>1 DEF NulsLast
  <2>3. \A q \in Positions : q <= p + 1 => b[q] # NUL
    BY <1>1, <1>3, <1>6, <2>2 DEF n
  <2>4. ASSUME NEW q \in Positions, NEW r \in Positions, q <= r, b[q] = NUL PROVE b[r] = NUL
    <3>1. f.buffer[q] = NUL /\ q > p + 1
      BY <1>1, <1>3, <1>6, <2>3, <2>4
    <3>2. f.buffer[r] = NUL
      BY <2>4, <3>1 DEF NulsLast
    <3>3. r # n /\ r # p
      BY <1>1, <1>3, <2>4, <3>1 DEF n
    <3>. QED
      BY <1>6, <3>2, <3>3
  <2>. QED
    BY <1>4, <2>3, <2>4 DEF NulsLast, b
<1>. QED
  BY <1>2, <1>1, <1>7, <1>8, <1>9

\* strlen ends where the NULs begin.
LEMMA LengthEnds ==
  ASSUME file \in File, NulsLast(file)
  PROVE  \A p \in Positions : p < Length(file) <=> file.buffer[p] # NUL
<1>. DEFINE S == {n \in 0 .. LEN_FILE : n = LEN_FILE \/ file.buffer[n] = NUL}
            Leading == {p \in Positions : \A q \in 0 .. p : file.buffer[q] # NUL}
<1>1. LEN_FILE \in Nat \ {0} /\ Positions = 0 .. LEN_FILE - 1
  BY FileAssumption DEF Positions
<1>2. PICK m \in S : \A n \in S : m <= n
  <2>1. S \subseteq Nat /\ LEN_FILE \in S
    BY <1>1
  <2>. HIDE DEF S
  <2>. QED
    BY <2>1, LeastNumber
<1>3. ASSUME NEW p \in Positions PROVE p < m <=> file.buffer[p] # NUL
  <2>1. p < m => file.buffer[p] # NUL
    BY <1>1, <1>2
  <2>2. m <= p => file.buffer[p] = NUL
    BY <1>1, <1>2 DEF NulsLast
  <2>. QED
    BY <1>1, <1>2, <2>1, <2>2
<1>4. Leading = 0 .. m - 1
  BY <1>1, <1>2, <1>3
<1>5. Cardinality(0 .. m - 1) = m
  BY <1>2, <1>1, FS_Interval
<1>. QED
  BY <1>3, <1>4, <1>5 DEF Length

-----------------------------------------------------------------------------

LEMMA NulsAndClearedStart == Init => NulsLast(file) /\ Cleared
  BY FileAssumption DEF Init, NulsLast, EmptyFile, Cleared, Positions

LEMMA WriterPuts ==
  ASSUME Inv, NEW w \in Writers, WriteFile(w)
  PROVE  /\ w \in Writing /\ i[w] \in Nat /\ i[w] < Len(Text[w])
         /\ \E c \in Characters : c = Text[w][i[w] + 1] /\ file' = Put(file, c)
<1>1. pc[w] = "write" /\ file' = Put(file, Text[w][i[w] + 1])
  BY DEF WriteFile, Goto
<1>2. i[w] \in Nat /\ i[w] < Len(Text[w])
  BY <1>1 DEF Inv, TypeOK, LoopsOK
<1>3. Text[w][i[w] + 1] \in Characters
  <2>1. Len(Text[w]) \in Nat /\ i[w] + 1 \in 1 .. Len(Text[w])
    BY <1>2, FileAssumption
  <2>. QED
    BY <2>1 DEF Characters
<1>. QED
  BY <1>1, <1>2, <1>3 DEF Writing

LEMMA OthersKeepFile ==
  ASSUME NEW w \in Writers, WriterFunction(w), ~WriteFile(w)
  PROVE  UNCHANGED <<file, szData>>
  BY DEF WriterFunction, WaitRead, WaitWrite, PostWrite, PostRead, dataVars

LEMMA ReadersKeepFile ==
  ASSUME NEW r \in Readers, ReaderFunction(r)
  PROVE  UNCHANGED file
  BY DEF ReaderFunction, WaitRead, WaitMutex, Count, FirstWaits, PostMutex, PostRead,
     MeasureFile, ReadFile, Uncount, LastPosts, semVars

\* The file as FileMonitor sees it, and the results of its readers.
Whole ==
  IF Writing = {} THEN file
  ELSE LET w == CHOOSE w \in Writing : TRUE
       IN  Rest(w)[Len(Text[w]) - i[w]][file]
Done == {"leave_mutex", "uncount", "last", "left"}
Results == [r \in Readers |-> IF pc[r] \in Done THEN szData[r] ELSE << >>]

MonitorInv == Inv /\ NulsLast(file) /\ Cleared

\* What a step is to the monitor: a write, a read, the end of a reader's round, or nothing.
Writes == \E w \in Writers : Whole' = Rest(w)[Len(Text[w])][Whole] /\ UNCHANGED Results
Reads ==
  \E r \in Readers :
      /\ Results[r] = << >>
      /\ Results' = [Results EXCEPT ![r] = Whole.buffer]
      /\ UNCHANGED Whole
Forgets ==
  \E r \in Readers : Results' = [Results EXCEPT ![r] = << >>] /\ UNCHANGED Whole
Monitored == Writes \/ Reads \/ Forgets \/ UNCHANGED <<Whole, Results>>

\* A writer in WriteFile has semWrite, and so is the only one.
LEMMA WritingAlone ==
  ASSUME Inv, NEW w \in Writing
  PROVE  Writing = {w} /\ ReadersIn = {}
<1>1. w \in WriteHolders /\ w \in ReadHolders /\ Writing \subseteq ReadHolders
  BY DEF Writing, WriteHolders, ReadHolders
<1>. QED
  BY <1>1, PostHolds DEF Inv, SemOK

LEMMA WholeStays ==
  ASSUME UNCHANGED file, Writing' = Writing, \A w \in Writing : i'[w] = i[w]
  PROVE  Whole' = Whole
<1>1. CASE Writing = {}
  BY <1>1 DEF Whole
<1>2. CASE Writing # {}
  <2>. DEFINE w == CHOOSE w \in Writing : TRUE
  <2>1. w \in Writing
    BY <1>2
  <2>2. i'[w] = i[w]
    BY <2>1
  <2>3. Whole = Rest(w)[Len(Text[w]) - i[w]][file]
    BY <1>2 DEF Whole
  <2>4. Whole' = Rest(w)[Len(Text[w]) - i'[w]][file']
    BY <1>2 DEF Whole
  <2>. QED
    BY <2>2, <2>3, <2>4
<1>. QED
  BY <1>1, <1>2

LEMMA ResultsStay ==
  ASSUME UNCHANGED szData, \A r \in Readers : pc'[r] \in Done <=> pc[r] \in Done
  PROVE  Results' = Results
  BY DEF Results

LEMMA WaitReadIs ==
  ASSUME MonitorInv, NEW w \in Writers, WaitRead(w, "write_sem") \/ PostWrite(w)
                                        \/ PostRead(w, "post_read", "read_sem")
  PROVE  Monitored
<1>1. PICK a, b \in WriterSteps \ {"write"} : Goto(w, a, b) /\ a # "write"
  BY DEF WaitRead, PostWrite, PostRead, WriterSteps, Goto
<1>2. /\ pc[w] = a /\ pc'[w] = b
      /\ \A u \in Writers : u # w => pc'[u] = pc[u]
      /\ \A r \in Readers : pc'[r] = pc[r]
  BY <1>1, WriterGoes DEF MonitorInv, Inv
<1>3. UNCHANGED <<file, dataVars>>
  BY DEF WaitRead, PostWrite, PostRead
<1>4. Writing' = Writing
  BY <1>1, <1>2 DEF Writing
<1>. QED
  BY <1>2, <1>3, <1>4, WholeStays, ResultsStay DEF Monitored, dataVars

LEMMA WaitWriteIs ==
  ASSUME MonitorInv, NEW w \in Writers, WaitWrite(w)
  PROVE  Monitored
<1>1. /\ pc[w] = "write_sem" /\ pc'[w] = "write"
      /\ \A u \in Writers : u # w => pc'[u] = pc[u]
      /\ \A r \in Readers : pc'[r] = pc[r]
  BY WriterGoes DEF MonitorInv, Inv, WaitWrite, WriterSteps
<1>2. Writing = {}
  BY DEF MonitorInv, Inv, SemOK, WaitWrite, sem_wait, WriteHolders, Writing
<1>3. Writing' = {w}
  BY <1>1, <1>2 DEF Writing
<1>4. UNCHANGED <<file, szData>> /\ i'[w] = 0
  BY DEF WaitWrite, MonitorInv, Inv, TypeOK
<1>5. Len(Text[w]) - i'[w] = Len(Text[w])
  BY <1>4, FileAssumption
<1>6. (CHOOSE u \in {w} : TRUE) = w
  OBVIOUS
<1>7. Whole = file /\ Whole' = Rest(w)[Len(Text[w])][file]
  BY <1>2, <1>3, <1>4, <1>5, <1>6 DEF Whole
<1>. QED
  BY <1>1, <1>4, <1>7, ResultsStay DEF Monitored, Writes

\* What is left of a text begins with its next character.
LEMMA RestPuts ==
  ASSUME NEW w, NEW m \in Nat, NEW f \in File
  PROVE  Rest(w)[m + 1][f] = Rest(w)[m][Put(f, Text[w][Len(Text[w]) - (m + 1) + 1])]
<1>. DEFINE Unfolds(k) ==
              Rest(w)[k + 1] = [g \in File |-> Rest(w)[k][Put(g, Text[w][Len(Text[w]) - (k + 1) + 1])]]
<1>1. \A k \in Nat : Unfolds(k)
  BY RestUnfolds, Zenon
<1>2. Unfolds(m)
  <2>. HIDE DEF Unfolds
  <2>. QED
    BY <1>1
<1>. QED
  BY <1>2

LEMMA WriteFileIs ==
  ASSUME MonitorInv, NEW w \in Writers, WriteFile(w)
  PROVE  Monitored
<1>. DEFINE n == Len(Text[w])
<1>1. PICK b \in {"write", "post_write"} :
          Goto(w, "write", b) /\ (b = "write" <=> i[w] + 1 < Len(Text[w]))
  BY DEF WriteFile
<1>2. /\ pc[w] = "write" /\ pc'[w] = b
      /\ \A u \in Writers : u # w => pc'[u] = pc[u]
      /\ \A r \in Readers : pc'[r] = pc[r]
  BY <1>1, WriterGoes DEF MonitorInv, Inv, WriterSteps
<1>3. /\ Writing = {w} /\ i[w] \in Nat /\ i[w] < n /\ n \in Nat /\ file \in File
      /\ \E c \in Characters : c = Text[w][i[w] + 1] /\ file' = Put(file, c)
  <2>0. Inv
    BY DEF MonitorInv
  <2>1. Writing = {w}
    BY <2>0, WriterPuts, WritingAlone
  <2>2. \E c \in Characters : c = Text[w][i[w] + 1] /\ file' = Put(file, c)
    BY <2>0, WriterPuts
  <2>3. i[w] \in Nat /\ file \in File /\ n \in Nat
    BY FileAssumption DEF MonitorInv, Inv, TypeOK
  <2>4. i[w] < n
    BY <1>2 DEF MonitorInv, Inv, LoopsOK
  <2>. QED
    BY <2>1, <2>2, <2>3, <2>4
<1>4. i'[w] = i[w] + 1 /\ UNCHANGED szData
  BY DEF WriteFile, MonitorInv, Inv, TypeOK
<1>5. Rest(w)[n - i[w]][file] = Rest(w)[n - i'[w]][file']
  <2>1. PICK m \in Nat : m = n - i[w] - 1
    BY <1>3
  <2>2. m + 1 = n - i[w] /\ n - (m + 1) + 1 = i[w] + 1 /\ m = n - i'[w]
    BY <1>3, <1>4, <2>1
  <2>3. Rest(w)[m + 1][file] = Rest(w)[m][Put(file, Text[w][Len(Text[w]) - (m + 1) + 1])]
    BY <1>3, RestPuts
  <2>. QED
    BY <1>3, <2>2, <2>3
<1>6. (CHOOSE u \in {w} : TRUE) = w
  OBVIOUS
<1>7. Whole = Rest(w)[n - i[w]][file]
  BY <1>3, <1>6 DEF Whole
<1>8. Whole' = Rest(w)[n - i'[w]][file']
  <2>1. CASE b = "write"
    <3>1. Writing' = {w}
      BY <1>2, <1>3, <2>1 DEF Writing
    <3>. QED
      BY <3>1, <1>6 DEF Whole
  <2>2. CASE b = "post_write"
    <3>1. Writing' = {} /\ n - i'[w] = 0
      BY <1>1, <1>2, <1>3, <1>4, <2>2 DEF Writing
    <3>2. file' \in File
      BY <1>3, PutIs
    <3>3. Rest(w)[0][file'] = file'
      BY <3>2, RestUnfolds
    <3>. QED
      BY <3>1, <3>3 DEF Whole
  <2>. QED
    BY <2>1, <2>2
<1>. QED
  BY <1>2, <1>4, <1>5, <1>7, <1>8, ResultsStay DEF Monitored

-----------------------------------------------------------------------------
(* Readers, to the monitor *)

\* What a step of reader r leaves as it is.
LEMMA ReaderLeaves ==
  ASSUME MonitorInv, NEW r \in Readers, ReaderFunction(r)
  PROVE  /\ UNCHANGED file /\ Whole' = Whole
         /\ \A u \in Readers : u # r =>
                /\ pc'[u] = pc[u] /\ i'[u] = i[u]
                /\ szData'[u] = szData[u]
<1>1. UNCHANGED file
  BY ReadersKeepFile
<1>2. PICK a, b \in ReaderSteps : Goto(r, a, b)
  BY DEF ReaderFunction, WaitRead, WaitMutex, Count, FirstWaits, PostMutex, PostRead,
     MeasureFile, ReadFile, Uncount, LastPosts, ReaderSteps
<1>3. /\ \A u \in Readers : u # r => pc'[u] = pc[u]
      /\ \A w \in Writers : pc'[w] = pc[w]
  BY <1>2, ReaderGoes DEF MonitorInv, Inv
<1>4. \/ UNCHANGED <<i, szData>>
      \/ (\E n : i' = [i EXCEPT ![r] = n]) /\ (\E d : szData' = [szData EXCEPT ![r] = d])
  BY DEF ReaderFunction, WaitRead, WaitMutex, Count, FirstWaits, PostMutex, PostRead,
     MeasureFile, ReadFile, Uncount, LastPosts, dataVars
<1>5. \A t \in Readers \cup Writers : t # r => i'[t] = i[t]
  BY <1>4 DEF MonitorInv, Inv, TypeOK
<1>6. \A u \in Readers : u # r => szData'[u] = szData[u]
  BY <1>4 DEF MonitorInv, Inv, TypeOK
<1>7. Writing' = Writing /\ \A w \in Writing : i'[w] = i[w]
  BY <1>3, <1>5, Apart DEF Writing
<1>. QED
  BY <1>1, <1>3, <1>5, <1>6, <1>7, WholeStays

\* While a reader is in ReadFile the monitor's file is the file.
LEMMA ReadingWhole ==
  ASSUME MonitorInv, NEW r \in Reading
  PROVE  Whole = file
<1>1. r \in ReadersIn
  BY DEF Reading, ReadersIn
<1>2. Writing = {}
  BY <1>1, WritingAlone DEF MonitorInv
<1>. QED
  BY <1>2 DEF Whole

LEMMA MeasureFileIs ==
  ASSUME MonitorInv, NEW r \in Readers, MeasureFile(r)
  PROVE  Monitored /\ Cleared'
<1>1. PICK b \in {"leave_mutex", "read"} :
          Goto(r, "measure", b) /\ (b = "leave_mutex" <=> Length(file) = 0)
  BY DEF MeasureFile
<1>2. pc[r] = "measure" /\ pc'[r] = b
  BY <1>1, ReaderGoes DEF MonitorInv, Inv, ReaderSteps
<1>3. /\ UNCHANGED file /\ Whole' = Whole
      /\ \A u \in Readers : u # r =>
             pc'[u] = pc[u] /\ i'[u] = i[u] /\ szData'[u] = szData[u]
  BY ReaderLeaves DEF ReaderFunction
<1>4. szData'[r] = EmptyFile.buffer
  BY DEF MeasureFile, MonitorInv, Inv, TypeOK
<1>5. Cleared'
  BY <1>3, <1>4 DEF Cleared, EmptyFile, MonitorInv
<1>6. CASE b = "read"
  <2>1. Results' = Results
    BY <1>2, <1>3, <1>6 DEF Results, Done
  <2>. QED
    BY <1>3, <1>5, <2>1 DEF Monitored
<1>7. CASE b = "leave_mutex"
  <2>1. \A p \in Positions : file.buffer[p] = NUL
    <3>1. \A p \in Positions : ~(p < 0)
      BY DEF Positions
    <3>. QED
      BY <1>1, <1>7, <3>1, LengthEnds DEF MonitorInv, Inv, TypeOK
  <2>2. file.buffer = EmptyFile.buffer
    BY <2>1 DEF MonitorInv, Inv, TypeOK, File, EmptyFile
  <2>3. Whole = file
    BY <1>2, ReadingWhole DEF Reading
  <2>4. Results[r] = << >> /\ Results'[r] = Whole.buffer
    BY <1>2, <1>4, <1>7, <2>2, <2>3 DEF Results, Done
  <2>5. \A u \in Readers : u # r => Results'[u] = Results[u]
    BY <1>3 DEF Results, Done
  <2>6. Results' = [Results EXCEPT ![r] = Whole.buffer]
    BY <2>4, <2>5 DEF Results
  <2>. QED
    BY <1>3, <1>5, <2>4, <2>6 DEF Monitored, Reads
<1>. QED
  BY <1>6, <1>7

LEMMA ReadFileIs ==
  ASSUME MonitorInv, NEW r \in Readers, ReadFile(r)
  PROVE  Monitored /\ Cleared'
<1>1. PICK b \in {"leave_mutex", "read"} :
          Goto(r, "read", b) /\ (b = "read" <=> i[r] + 1 < nLenBuffer[r])
  BY DEF ReadFile
<1>2. pc[r] = "read" /\ pc'[r] = b
  BY <1>1, ReaderGoes DEF MonitorInv, Inv, ReaderSteps
<1>3. /\ UNCHANGED file /\ Whole' = Whole
      /\ \A u \in Readers : u # r =>
             pc'[u] = pc[u] /\ i'[u] = i[u] /\ szData'[u] = szData[u]
  BY ReaderLeaves DEF ReaderFunction
<1>4. /\ nLenBuffer[r] = Length(file) /\ Length(file) \in Nat
      /\ i[r] \in Nat /\ i[r] < Length(file)
      /\ \A p \in Positions : p < i[r] => szData[r][p] = file.buffer[p]
      /\ \A p \in Positions : p >= i[r] => szData[r][p] = NUL
  BY <1>2, LengthIs DEF MonitorInv, Inv, TypeOK, LoopsOK, ReadsHold, Cleared
<1>5. /\ i'[r] = i[r] + 1
      /\ DOMAIN szData'[r] = Positions
      /\ \A p \in Positions :
             szData'[r][p] = IF p = i[r] THEN file.buffer[p] ELSE szData[r][p]
  BY DEF ReadFile, MonitorInv, Inv, TypeOK
<1>6. Positions \subseteq Nat
  BY FileAssumption DEF Positions
<1>7. \A p \in Positions : p >= i'[r] => szData'[r][p] = NUL
  BY <1>4, <1>5, <1>6
<1>8. Cleared'
  BY <1>3, <1>7 DEF Cleared, MonitorInv
<1>9. CASE b = "read"
  <2>1. Results' = Results
    BY <1>2, <1>3, <1>9 DEF Results, Done
  <2>. QED
    BY <1>3, <1>8, <2>1 DEF Monitored
<1>10. CASE b = "leave_mutex"
  <2>1. Length(file) = i[r] + 1
    BY <1>1, <1>4, <1>10
  <2>2. ASSUME NEW p \in Positions PROVE szData'[r][p] = file.buffer[p]
    <3>1. p > i[r] => file.buffer[p] = NUL
      BY <1>4, <1>6, <2>1, LengthEnds DEF MonitorInv, Inv, TypeOK
    <3>. QED
      BY <1>4, <1>5, <1>6, <3>1
  <2>3. szData'[r] = file.buffer
    <3>1. file.buffer \in [Positions -> Characters \cup {NUL, MARK}]
      BY DEF MonitorInv, Inv, TypeOK, File
    <3>2. szData'[r] \in [Positions -> Characters \cup {NUL, MARK}]
      BY ReadFileKeeps DEF MonitorInv, Inv, TypeOK
    <3>. QED
      BY <2>2, <3>1, <3>2
  <2>4. Whole = file
    BY <1>2, ReadingWhole DEF Reading
  <2>5. Results[r] = << >> /\ Results'[r] = Whole.buffer
    BY <1>2, <1>10, <2>3, <2>4 DEF Results, Done
  <2>6. \A u \in Readers : u # r => Results'[u] = Results[u]
    BY <1>3 DEF Results, Done
  <2>7. Results' = [Results EXCEPT ![r] = Whole.buffer]
    BY <2>5, <2>6 DEF Results
  <2>. QED
    BY <1>3, <1>8, <2>5, <2>7 DEF Monitored, Reads
<1>. QED
  BY <1>9, <1>10

\* The other steps of a reader end its round, or are nothing to the monitor.
LEMMA OtherReadsAre ==
  ASSUME MonitorInv, NEW r \in Readers, ReaderFunction(r), ~MeasureFile(r), ~ReadFile(r)
  PROVE  Monitored /\ Cleared'
<1>1. PICK a \in ReaderSteps, b \in ReaderSteps \ {"read"} :
          /\ Goto(r, a, b)
          /\ (a \in Done <=> b \in Done) \/ (a = "left" /\ b = "read_sem")
  BY DEF ReaderFunction, WaitRead, WaitMutex, Count, FirstWaits, PostMutex, PostRead,
     Uncount, LastPosts, ReaderSteps, Done
<1>2. pc[r] = a /\ pc'[r] = b
  BY <1>1, ReaderGoes DEF MonitorInv, Inv
<1>3. /\ UNCHANGED file /\ Whole' = Whole
      /\ \A u \in Readers : u # r =>
             pc'[u] = pc[u] /\ i'[u] = i[u] /\ szData'[u] = szData[u]
  BY ReaderLeaves
<1>4. UNCHANGED szData
  BY DEF ReaderFunction, WaitRead, WaitMutex, Count, FirstWaits, PostMutex, PostRead,
     Uncount, LastPosts, dataVars
<1>5. Cleared'
  BY <1>1, <1>2, <1>3 DEF Cleared, MonitorInv
<1>6. CASE a \in Done <=> b \in Done
  <2>1. \A u \in Readers : pc'[u] \in Done <=> pc[u] \in Done
    BY <1>2, <1>3, <1>6
  <2>. QED
    BY <1>3, <1>4, <1>5, <2>1, ResultsStay DEF Monitored
<1>7. CASE a = "left" /\ b = "read_sem"
  <2>1. Results'[r] = << >>
    BY <1>2, <1>7 DEF Results, Done
  <2>2. \A u \in Readers : u # r => Results'[u] = Results[u]
    BY <1>3 DEF Results, Done
  <2>3. Results' = [Results EXCEPT ![r] = << >>]
    BY <2>1, <2>2 DEF Results
  <2>. QED
    BY <1>3, <1>5, <2>3 DEF Monitored, Forgets
<1>. QED
  BY <1>1, <1>6, <1>7

-----------------------------------------------------------------------------

LEMMA MonitorStep ==
  ASSUME MonitorInv, [Next]_vars
  PROVE  MonitorInv' /\ Monitored
<1>1. Inv'
  BY StepKeeps DEF MonitorInv
<1>2. CASE UNCHANGED vars
  <2>1. NulsLast(file)' /\ Cleared'
    BY <1>2 DEF vars, MonitorInv, NulsLast, Cleared
  <2>2. Writing' = Writing /\ \A r \in Readers : pc'[r] \in Done <=> pc[r] \in Done
    BY <1>2 DEF vars, Writing
  <2>. QED
    BY <1>1, <1>2, <2>1, <2>2, WholeStays, ResultsStay DEF vars, MonitorInv, Monitored
<1>3. ASSUME NEW w \in Writers, WriterFunction(w) PROVE NulsLast(file)' /\ Cleared' /\ Monitored
  <2>1. NulsLast(file)'
    <3>1. CASE WriteFile(w)
      <4>1. PICK c \in Characters : file' = Put(file, c)
        BY <3>1, WriterPuts DEF MonitorInv
      <4>2. NulsLast(Put(file, c))
        BY PutKeepsNuls DEF MonitorInv, Inv, TypeOK
      <4>. QED
        BY <4>1, <4>2 DEF NulsLast
    <3>2. CASE ~WriteFile(w)
      BY <1>3, <3>2, OthersKeepFile DEF MonitorInv, NulsLast
    <3>. QED
      BY <3>1, <3>2
  <2>2. Cleared'
    <3>1. PICK a, b \in WriterSteps : Goto(w, a, b)
      BY <1>3 DEF WriterFunction, WaitRead, WaitWrite, WriteFile, PostWrite, PostRead, WriterSteps
    <3>2. \A r \in Readers : pc'[r] = pc[r]
      BY <3>1, WriterGoes DEF MonitorInv, Inv
    <3>3. UNCHANGED szData
      BY <1>3 DEF WriterFunction, WaitRead, WaitWrite, WriteFile, PostWrite, PostRead, dataVars
    <3>4. \A r \in Readers : i'[r] = i[r]
      BY <1>3, Apart DEF WriterFunction, WaitRead, WaitWrite, WriteFile, PostWrite, PostRead,
         dataVars, MonitorInv, Inv, TypeOK
    <3>. QED
      BY <3>2, <3>3, <3>4 DEF Cleared, MonitorInv
  <2>3. Monitored
    BY <1>3, WaitReadIs, WaitWriteIs, WriteFileIs DEF WriterFunction
  <2>. QED
    BY <2>1, <2>2, <2>3
<1>4. ASSUME NEW r \in Readers, ReaderFunction(r) PROVE NulsLast(file)' /\ Cleared' /\ Monitored
  <2>1. NulsLast(file)'
    BY <1>4, ReadersKeepFile DEF MonitorInv, NulsLast
  <2>. QED
    BY <1>4, <2>1, MeasureFileIs, ReadFileIs, OtherReadsAre
<1>. QED
  BY <1>1, <1>2, <1>3, <1>4 DEF Next, MonitorInv

\* Writes and reads, made character by character under three semaphores, are those of
\* the monitor in ThreadReadersWritersMonitor.java, for any number of threads, any texts
\* and any size of the file.
THEOREM MonitorRefinement == Spec => ImplementsMonitor
<1>1. Init => Monitor!Init
  <2>. SUFFICES ASSUME Init PROVE Monitor!Init
    OBVIOUS
  <2>1. Writing = {} /\ \A r \in Readers : pc[r] \notin Done
    BY DEF Init, Writing, Done
  <2>. QED
    BY <2>1 DEF Init, Done, Monitor!Init, Monitor!EmptyFile, Monitor!Positions, Monitor!Nothing,
       EmptyFile, Positions
<1>2. \A w : Monitor!Rest(w) = Rest(w)
  BY DEF Monitor!Rest, Rest, Monitor!File, File, Monitor!Put, Put, Monitor!Wrap, Wrap,
     Monitor!Positions, Positions, Monitor!Characters, Characters
<1>3. Monitored => [Monitor!Next]_(Monitor!monitorVars)
  BY <1>2 DEF Monitored, Writes, Reads, Forgets, Whole, Results, Done, Monitor!Next, Monitor!write,
     Monitor!read, Monitor!forget, Monitor!Nothing, Monitor!monitorVars
<1>4. MonitorInv /\ [Next]_vars => MonitorInv' /\ [Monitor!Next]_(Monitor!monitorVars)
  BY <1>3, MonitorStep
<1>5. Init => MonitorInv
  BY Start, NulsAndClearedStart DEF MonitorInv
<1>. QED
  BY <1>1, <1>4, <1>5, PTL DEF Spec, ImplementsMonitor, Monitor!Spec
================================================================================
