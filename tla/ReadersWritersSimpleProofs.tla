---------------------- MODULE ReadersWritersSimpleProofs ----------------------
(***************************************************************************)
(* Proofs about the readers-writers programs without semaphores: the types *)
(* of all three, and of ThreadReadersWritersSimple.c that its one mutex    *)
(* keeps the pointer inside the file and a read of one moment, for any     *)
(* number of threads, any file size and any texts.                         *)
(***************************************************************************)
EXTENDS ReadersWritersSimple, FiniteSetTheorems, TLAPS

\* The steps at which a thread of ThreadReadersWritersSimple.c has the mutex.
Held == {"wrap", "wrapped", "kept", "char", "test", "mark", "mark_first", "advance", "read"}

MutexOK == \A t \in Readers \cup Writers : pc[t] \in Held => muxLock = t

\* A writer's register is the pointer, wrapped around, until the pointer moves on.
RegisterOK ==
    \A w \in Writers :
        /\ pc[w] = "wrapped" => register[w] = 0
        /\ pc[w] \in {"kept", "char", "test", "mark", "mark_first", "advance"} =>
              register[w] = _nBufferPointer /\ register[w] < LEN_FILE
        /\ pc[w] = "mark" => register[w] + 1 < LEN_FILE

\* What was there when a reader measured the file is there still.
MeasureHolds == \A r \in Readers : pc[r] \in {"measured", "read"} => nLenBuffer[r] <= strlen

Inv ==
    /\ TypeOK
    /\ program = "Simple.c" =>
          MutexOK /\ RegisterOK /\ MeasureHolds /\ NothingBehindFile /\ ReadIsOfOneMoment

-----------------------------------------------------------------------------

LEMMA Bounds ==
  /\ LEN_FILE \in Nat \ {0} /\ MaxOverrun \in Nat
  /\ \A r \in Readers : r \notin Writers
  /\ \A w \in Writers : Len(Text[w]) \in Nat \ {0}
  /\ NUL # MARK /\ NUL \notin Characters /\ MARK \in Stored /\ NUL \in Stored
  /\ None \notin Readers \cup Writers
  BY FileAssumption, SimpleAssumption DEF Stored

LEMMA CharIs ==
  ASSUME TypeOK, NEW w \in Writers
  PROVE  Text[w][i[w] + 1] \in Characters
<1>1. i[w] \in Nat /\ i[w] < Len(Text[w]) /\ Len(Text[w]) \in Nat
  BY Bounds DEF TypeOK
<1>2. i[w] + 1 \in 1 .. Len(Text[w])
  BY <1>1
<1>. QED
  BY <1>2 DEF Characters

\* The characters in front of the first NUL.
Leading == {p \in Memory : \A q \in 0 .. p : _szFileBuffer[q] # NUL}

LEMMA LeadingIs ==
  /\ strlen = Cardinality(Leading)
  /\ IsFiniteSet(Leading) /\ Cardinality(Leading) \in 0 .. LEN_FILE + 1
<1>1. IsFiniteSet(Memory) /\ Cardinality(Memory) = LEN_FILE + 1
  BY Bounds, FS_Interval DEF Memory
<1>2. /\ IsFiniteSet(Leading) /\ Cardinality(Leading) \in Nat
      /\ Cardinality(Leading) <= LEN_FILE + 1
  BY <1>1, FS_Subset, FS_CardinalityType DEF Leading
<1>. QED
  BY <1>2, Bounds DEF strlen, Leading

\* A file in which no character is written over by a NUL does not become shorter.
LEMMA StrlenGrows ==
  ASSUME \A q \in Memory : _szFileBuffer[q] # NUL => _szFileBuffer'[q] # NUL
  PROVE  strlen \in Nat /\ strlen' \in Nat /\ strlen <= strlen'
<1>1. /\ strlen' = Cardinality(Leading')
      /\ IsFiniteSet(Leading') /\ Cardinality(Leading') \in 0 .. LEN_FILE + 1
  <2>1. IsFiniteSet(Memory) /\ Cardinality(Memory) = LEN_FILE + 1
    BY Bounds, FS_Interval DEF Memory
  <2>2. IsFiniteSet(Leading') /\ Cardinality(Leading') \in Nat
        /\ Cardinality(Leading') <= LEN_FILE + 1
    BY <2>1, FS_Subset, FS_CardinalityType DEF Leading
  <2>. QED
    BY <2>2, Bounds DEF strlen, Leading
<1>2. Leading \subseteq Leading'
  BY Bounds DEF Leading, Memory
<1>. QED
  BY <1>1, <1>2, LeadingIs, FS_Subset, FS_CardinalityType

-----------------------------------------------------------------------------
(* Types *)

\* Where a writer goes, the others stay.
LEMMA WriterGoes ==
  ASSUME TypeOK, NEW w \in Writers, NEW b \in WriterSteps, pc' = [pc EXCEPT ![w] = b]
  PROVE  /\ pc' \in [Readers \cup Writers -> ReaderSteps \cup WriterSteps]
         /\ pc'[w] = b
         /\ \A t \in Readers \cup Writers : t # w => pc'[t] = pc[t]
         /\ \A u \in Writers : pc'[u] \in WriterSteps
         /\ \A r \in Readers : pc'[r] = pc[r]
  BY Bounds DEF TypeOK

LEMMA ReaderGoes ==
  ASSUME TypeOK, NEW r \in Readers, NEW b \in ReaderSteps, pc' = [pc EXCEPT ![r] = b]
  PROVE  /\ pc' \in [Readers \cup Writers -> ReaderSteps \cup WriterSteps]
         /\ pc'[r] = b
         /\ \A t \in Readers \cup Writers : t # r => pc'[t] = pc[t]
         /\ \A u \in Readers : pc'[u] \in ReaderSteps
         /\ \A w \in Writers : pc'[w] = pc[w]
  BY Bounds DEF TypeOK

LEMMA LockTypes ==
  ASSUME TypeOK, NEW t \in Readers \cup Writers, Lock(t) \/ Unlock \/ UNCHANGED muxLock
  PROVE  muxLock' \in Readers \cup Writers \cup {None}
  BY DEF TypeOK, Lock, Unlock

LEMMA StoreTypes ==
  ASSUME TypeOK, NEW w \in Writers, NEW p, NEW c \in Stored, NEW next \in WriterSteps,
         Store(w, p, c, next)
  PROVE  /\ _szFileBuffer' \in [Memory -> Stored]
         /\ \E b \in {next, "dead"} : pc' = [pc EXCEPT ![w] = b]
  BY DEF TypeOK, Store

LEMMA WriterTypes ==
  ASSUME TypeOK, NEW w \in Writers, WriteFile(w)
  PROVE  /\ TypeOK'
         /\ \E b \in WriterSteps : pc' = [pc EXCEPT ![w] = b]
<1>0. /\ register[w] \in 0 .. LEN_FILE + MaxOverrun
      /\ Wrap(_nBufferPointer) \in 0 .. LEN_FILE + MaxOverrun
  BY Bounds DEF TypeOK, Wrap
<1>. DEFINE Goes == \E b \in WriterSteps : pc' = [pc EXCEPT ![w] = b]
<1>1. ASSUME Goes,
             muxLock' \in Readers \cup Writers \cup {None},
             _szFileBuffer' \in [Memory -> Stored],
             _nBufferPointer' \in 0 .. LEN_FILE + MaxOverrun,
             register' \in [Writers -> 0 .. LEN_FILE + MaxOverrun],
             i' = i, UNCHANGED <<program, readVars>>
      PROVE  TypeOK'
  BY <1>1, WriterGoes DEF TypeOK, readVars
<1>2. CASE WrapTest(w)
  <2>1. Goes
    BY <1>2 DEF WrapTest, Goto, WriterSteps
  <2>2. muxLock' \in Readers \cup Writers \cup {None}
    BY <1>2, LockTypes DEF WrapTest
  <2>. QED
    BY <1>0, <1>1, <1>2, <2>1, <2>2 DEF WrapTest, fileVars, TypeOK
<1>3. CASE WrapStore(w)
  BY <1>0, <1>1, <1>3 DEF WrapStore, Goto, WriterSteps, TypeOK
<1>4. CASE Reload(w)
  <2>1. pc' = [pc EXCEPT ![w] = pc[w]] /\ pc[w] \in WriterSteps
    BY <1>4 DEF Reload, TypeOK
  <2>. QED
    BY <1>1, <1>4, <2>1 DEF Reload, TypeOK, fileVars
<1>5. CASE StoreChar(w)
  <2>1. Text[w][i[w] + 1] \in Stored
    BY CharIs DEF Stored
  <2>2. _szFileBuffer' \in [Memory -> Stored] /\ Goes
    BY <1>5, <2>1, StoreTypes DEF StoreChar, WriterSteps
  <2>. QED
    BY <1>1, <1>5, <2>2 DEF StoreChar, TypeOK
<1>6. CASE TestEnd(w)
  BY <1>1, <1>6 DEF TestEnd, Goto, WriterSteps, TypeOK, fileVars
<1>7. CASE StoreMark(w)
  <2>1. MARK \in Stored
    BY DEF Stored
  <2>2. _szFileBuffer' \in [Memory -> Stored] /\ Goes
    BY <1>7, <2>1, StoreTypes DEF StoreMark, WriterSteps
  <2>. QED
    BY <1>1, <1>7, <2>2 DEF StoreMark, TypeOK
<1>8. CASE Advance(w)
  <2>1. Goes
    BY <1>8 DEF Advance, NextRound, WriterSteps
  <2>2. muxLock' \in Readers \cup Writers \cup {None}
    BY <1>8, LockTypes DEF Advance
  <2>3. _nBufferPointer' \in 0 .. LEN_FILE + MaxOverrun
    BY <1>0, <1>8, Bounds DEF Advance
  <2>4. i' = [i EXCEPT ![w] = i'[w]] /\ i'[w] \in Nat /\ i'[w] < Len(Text[w])
    BY <1>8, Bounds DEF Advance, TypeOK
  <2>5. /\ i' \in [Readers \cup Writers -> Nat]
        /\ \A u \in Writers : i'[u] < Len(Text[u])
        /\ \A r \in Readers : i'[r] = i[r]
    BY <2>4, Bounds DEF TypeOK
  <2>6. /\ pc' \in [Readers \cup Writers -> ReaderSteps \cup WriterSteps]
        /\ \A u \in Writers : pc'[u] \in WriterSteps
        /\ \A r \in Readers : pc'[r] = pc[r]
    BY <2>1, WriterGoes
  <2>7. UNCHANGED <<program, _szFileBuffer, register, nLenBuffer, szData>>
    BY <1>8 DEF Advance, readVars
  <2>8. TypeOK'
    BY <2>2, <2>3, <2>5, <2>6, <2>7 DEF TypeOK
  <2>. QED
    BY <2>1, <2>8
<1>. QED
  BY <1>2, <1>3, <1>4, <1>5, <1>6, <1>7, <1>8 DEF WriteFile

LEMMA ReaderTypes ==
  ASSUME TypeOK, NEW r \in Readers, ReadFile(r)
  PROVE  /\ TypeOK'
         /\ \E b \in ReaderSteps : pc' = [pc EXCEPT ![r] = b]
         /\ UNCHANGED <<program, _szFileBuffer, _nBufferPointer, register>>
         /\ \A u \in Readers : u # r => nLenBuffer'[u] = nLenBuffer[u] /\ szData'[u] = szData[u]
<1>. DEFINE Goes == \E b \in ReaderSteps : pc' = [pc EXCEPT ![r] = b]
<1>1. Goes /\ muxLock' \in Readers \cup Writers \cup {None}
  BY LockTypes DEF ReadFile, Measure, StartRead, ReadChar, EndRead, Goto, NextRound, ReaderSteps, TypeOK
<1>2. UNCHANGED <<program, _szFileBuffer, _nBufferPointer, register>>
  BY DEF ReadFile, Measure, StartRead, ReadChar, EndRead, fileVars
<1>3. /\ nLenBuffer' \in [Readers -> 0 .. LEN_FILE + 1]
      /\ szData' \in [Readers -> Seq(Stored)]
      /\ i' \in [Readers \cup Writers -> Nat]
      /\ i'[r] = Len(szData'[r]) /\ i'[r] <= nLenBuffer'[r]
      /\ pc'[r] # "read" => i'[r] = 0
      /\ \A t \in Readers \cup Writers : t # r => i'[t] = i[t]
      /\ \A u \in Readers : u # r => nLenBuffer'[u] = nLenBuffer[u] /\ szData'[u] = szData[u]
  <2>1. CASE Measure(r)
    <3>1. Length \in 0 .. LEN_FILE + 1 /\ i[r] = 0
      BY <2>1, LeadingIs, Bounds DEF Length, Measure, Goto, TypeOK
    <3>. QED
      BY <2>1, <3>1, Bounds DEF Measure, TypeOK
  <2>2. CASE StartRead(r)
    BY <2>2 DEF StartRead, Goto, TypeOK, readVars
  <2>3. CASE ReadChar(r)
    <3>1. i[r] \in Nat /\ i[r] < nLenBuffer[r] /\ nLenBuffer[r] \in 0 .. LEN_FILE + 1
      BY <2>3 DEF ReadChar, TypeOK
    <3>2. _szFileBuffer[i[r]] \in Stored
      BY <3>1, Bounds DEF TypeOK, Memory
    <3>3. szData'[r] \in Seq(Stored) /\ Len(szData'[r]) = i[r] + 1
      BY <2>3, <3>2 DEF ReadChar, TypeOK
    <3>. QED
      BY <2>3, <3>1, <3>3 DEF ReadChar, TypeOK
  <2>4. CASE EndRead(r)
    BY <2>4, Bounds DEF EndRead, TypeOK
  <2>. QED
    BY <2>1, <2>2, <2>3, <2>4 DEF ReadFile
<1>4. /\ pc' \in [Readers \cup Writers -> ReaderSteps \cup WriterSteps]
      /\ \A u \in Readers : pc'[u] \in ReaderSteps
      /\ \A w \in Writers : pc'[w] = pc[w]
  BY <1>1, ReaderGoes
<1>5. TypeOK'
  BY <1>1, <1>2, <1>3, <1>4, Bounds DEF TypeOK
<1>. QED
  BY <1>1, <1>2, <1>3, <1>5

-----------------------------------------------------------------------------
(* The mutex, and what it keeps *)

Simple == MutexOK /\ RegisterOK /\ MeasureHolds /\ NothingBehindFile /\ ReadIsOfOneMoment

\* Whoever moves at a step that needs the mutex, or takes it, is alone with it.
LEMMA Alone ==
  ASSUME Inv, program = "Simple.c", NEW t \in Readers \cup Writers,
         pc[t] \in Held \/ muxLock = None
  PROVE  \A u \in Readers \cup Writers : u # t => pc[u] \notin Held
  BY Bounds DEF Inv, MutexOK

\* A thread that has the mutex after its step leaves it to nobody else.
LEMMA MutexKeeps ==
  ASSUME Inv, program = "Simple.c", NEW t \in Readers \cup Writers,
         pc[t] \in Held \/ muxLock = None,
         \A u \in Readers \cup Writers : u # t => pc'[u] = pc[u],
         pc'[t] \in Held => muxLock' = t
  PROVE  MutexOK'
  BY Alone DEF MutexOK

\* A step of a writer who is alone with the file concerns its own register only.
LEMMA WriterKeepsReads ==
  ASSUME Inv, program = "Simple.c", NEW w \in Writers, WriteFile(w),
         pc[w] \in Held \/ muxLock = None,
         \A q \in Memory : _szFileBuffer[q] # NUL => _szFileBuffer'[q] # NUL
  PROVE  MeasureHolds' /\ ReadIsOfOneMoment'
<1>1. \A r \in Readers : pc[r] # "read" /\ pc'[r] = pc[r]
  BY Alone, WriterTypes, WriterGoes, Bounds DEF Held, Inv
<1>2. strlen \in Nat /\ strlen' \in Nat /\ strlen <= strlen'
  BY StrlenGrows
<1>3. nLenBuffer' = nLenBuffer
  BY DEF WriteFile, WrapTest, WrapStore, Reload, StoreChar, TestEnd, StoreMark, Advance, readVars
<1>4. MeasureHolds'
  BY <1>1, <1>2, <1>3 DEF Inv, TypeOK, MeasureHolds
<1>. QED
  BY <1>1, <1>4 DEF ReadIsOfOneMoment

LEMMA SimpleStore ==
  ASSUME Inv, program = "Simple.c", NEW w \in Writers, NEW p \in Positions,
         NEW c \in Stored \ {NUL}, NEW next, Store(w, p, c, next)
  PROVE  /\ pc' = [pc EXCEPT ![w] = next]
         /\ _szFileBuffer'[LEN_FILE] = _szFileBuffer[LEN_FILE]
         /\ \A q \in Memory : _szFileBuffer[q] # NUL => _szFileBuffer'[q] # NUL
  BY Bounds DEF Store, Positions, Memory

\* Each step of WriteFile in turn.
LEMMA WriterKeeps ==
  ASSUME Inv, program = "Simple.c", NEW w \in Writers, WriteFile(w)
  PROVE  Simple'
<1>. DEFINE Mine == pc[w] \in Held \/ muxLock = None
            Kept == \A q \in Memory : _szFileBuffer[q] # NUL => _szFileBuffer'[q] # NUL
            Inside == _nBufferPointer' <= LEN_FILE /\ _szFileBuffer'[LEN_FILE] = NUL
            MyRegister ==
              /\ pc'[w] = "wrapped" => register'[w] = 0
              /\ pc'[w] \in {"kept", "char", "test", "mark", "mark_first", "advance"} =>
                    register'[w] = _nBufferPointer' /\ register'[w] < LEN_FILE
              /\ pc'[w] = "mark" => register'[w] + 1 < LEN_FILE
            Fine == Mine /\ Kept /\ Inside /\ MyRegister /\ (pc'[w] \in Held => muxLock' = w)
<1>1. /\ TypeOK /\ w \in Readers \cup Writers
      /\ pc[w] \in Held => muxLock = w
      /\ register[w] \in Nat /\ _nBufferPointer \in Nat
      /\ _nBufferPointer <= LEN_FILE /\ _szFileBuffer[LEN_FILE] = NUL
      /\ pc[w] = "wrapped" => register[w] = 0
      /\ pc[w] \in {"kept", "char", "test", "mark", "mark_first", "advance"} =>
            register[w] = _nBufferPointer /\ register[w] < LEN_FILE
      /\ pc[w] = "mark" => register[w] + 1 < LEN_FILE
  BY Bounds DEF Inv, TypeOK, MutexOK, RegisterOK, NothingBehindFile
<1>2. ASSUME Fine PROVE Simple'
  <2>1. \A t \in Readers \cup Writers : t # w => pc'[t] = pc[t]
    BY <1>1, WriterTypes, WriterGoes
  <2>2. MutexOK'
    BY <1>1, <1>2, <2>1, MutexKeeps
  <2>3. \A u \in Writers : u # w => pc[u] \notin Held
    BY <1>1, <1>2, Alone
  <2>4. RegisterOK'
    BY <1>2, <2>1, <2>3 DEF RegisterOK, Held
  <2>5. MeasureHolds' /\ ReadIsOfOneMoment'
    BY <1>2, WriterKeepsReads
  <2>. QED
    BY <1>2, <2>2, <2>4, <2>5 DEF Simple, NothingBehindFile
<1>3. CASE WrapTest(w)
  <2>1. PICK next \in {"wrapped", "kept"} :
           /\ next = "wrapped" <=> Wrap(_nBufferPointer) # _nBufferPointer
           /\ \/ Goto(w, "start", next) /\ Lock(w)
              \/ Goto(w, "wrap", next) /\ UNCHANGED muxLock
    BY <1>3 DEF WrapTest
  <2>2. pc'[w] = next
    BY <2>1, <1>1, Bounds DEF Goto, TypeOK
  <2>3. register'[w] = Wrap(_nBufferPointer) /\ UNCHANGED fileVars
    BY <1>1, <1>3 DEF WrapTest, TypeOK
  <2>4. MyRegister
    BY <1>1, <2>1, <2>2, <2>3, Bounds DEF Wrap, fileVars
  <2>5. Mine /\ muxLock' = w
    BY <1>1, <2>1 DEF Goto, Lock, Held
  <2>. QED
    BY <1>1, <1>2, <2>3, <2>4, <2>5 DEF fileVars
<1>4. CASE WrapStore(w)
  <2>1. /\ pc[w] \in {"wrapped", "kept"} /\ pc'[w] = "char"
        /\ _nBufferPointer' = register[w] /\ UNCHANGED <<muxLock, _szFileBuffer, register>>
    BY <1>1, <1>4 DEF WrapStore, Goto, TypeOK
  <2>. QED
    BY <1>1, <1>2, <2>1, Bounds DEF Held
<1>5. CASE Reload(w)
  <2>1. /\ pc[w] \in {"kept", "char", "test", "mark", "advance"} /\ UNCHANGED pc
        /\ register'[w] = _nBufferPointer /\ UNCHANGED <<muxLock, fileVars>>
    BY <1>1, <1>5 DEF Reload, TypeOK
  <2>. QED
    BY <1>1, <1>2, <2>1 DEF Held, fileVars
<1>6. CASE StoreChar(w)
  <2>1. register[w] \in Positions /\ Text[w][i[w] + 1] \in Stored \ {NUL}
    BY <1>1, <1>6, CharIs, Bounds DEF StoreChar, Positions, Stored
  <2>2. /\ pc' = [pc EXCEPT ![w] = "test"] /\ Kept
        /\ _szFileBuffer'[LEN_FILE] = _szFileBuffer[LEN_FILE]
    BY <1>6, <2>1, SimpleStore DEF StoreChar
  <2>3. pc[w] = "char" /\ pc'[w] = "test" /\ UNCHANGED <<muxLock, _nBufferPointer, register>>
    BY <1>1, <1>6, <2>2 DEF StoreChar, TypeOK
  <2>. QED
    BY <1>1, <1>2, <2>2, <2>3 DEF Held
<1>7. CASE TestEnd(w)
  <2>1. /\ pc[w] = "test" /\ pc'[w] = IF register[w] + 1 < LEN_FILE THEN "mark" ELSE "mark_first"
        /\ UNCHANGED <<muxLock, fileVars, register>>
    BY <1>1, <1>7 DEF TestEnd, Goto, TypeOK
  <2>. QED
    BY <1>1, <1>2, <2>1 DEF Held, fileVars
<1>8. CASE StoreMark(w)
  <2>1. PICK p \in Positions : Store(w, p, MARK, "advance")
    BY <1>1, <1>8, Bounds DEF StoreMark, Positions
  <2>2. /\ pc' = [pc EXCEPT ![w] = "advance"] /\ Kept
        /\ _szFileBuffer'[LEN_FILE] = _szFileBuffer[LEN_FILE]
    BY <2>1, SimpleStore, Bounds
  <2>3. /\ pc[w] \in {"mark", "mark_first"} /\ pc'[w] = "advance"
        /\ UNCHANGED <<muxLock, _nBufferPointer, register>>
    BY <1>1, <1>8, <2>2 DEF StoreMark, TypeOK
  <2>. QED
    BY <1>1, <1>2, <2>2, <2>3 DEF Held
<1>9. CASE Advance(w)
  <2>1. /\ pc[w] = "advance" /\ _nBufferPointer' = register[w] + 1
        /\ UNCHANGED <<_szFileBuffer, register>>
        /\ \/ pc'[w] = "wrap" /\ UNCHANGED muxLock
           \/ pc'[w] = "start"
    BY <1>1, <1>9 DEF Advance, NextRound, TypeOK
  <2>. QED
    BY <1>1, <1>2, <2>1, Bounds DEF Held
<1>. QED
  BY <1>3, <1>4, <1>5, <1>6, <1>7, <1>8, <1>9 DEF WriteFile

\* Each step of ReadFile in turn: the file stays as it is, and so do the others.
LEMMA ReaderKeeps ==
  ASSUME Inv, program = "Simple.c", NEW r \in Readers, ReadFile(r)
  PROVE  Simple'
<1>1. /\ UNCHANGED <<program, _szFileBuffer, _nBufferPointer, register>>
      /\ \A t \in Readers \cup Writers : t # r => pc'[t] = pc[t]
      /\ \A u \in Readers : u # r => nLenBuffer'[u] = nLenBuffer[u] /\ szData'[u] = szData[u]
      /\ \A w \in Writers : pc'[w] = pc[w]
  BY ReaderTypes, ReaderGoes DEF Inv
<1>2. NothingBehindFile' /\ strlen' = strlen /\ Length = strlen /\ Length' = strlen
  BY <1>1 DEF Inv, NothingBehindFile, strlen, Length
<1>3. RegisterOK'
  BY <1>1 DEF Inv, RegisterOK
<1>. DEFINE MyRead ==
       /\ pc'[r] \in {"measured", "read"} => nLenBuffer'[r] <= strlen
       /\ pc'[r] = "read" => \A p \in DOMAIN szData'[r] : szData'[r][p] = _szFileBuffer[p - 1]
<1>4. ASSUME MutexOK', MyRead PROVE Simple'
  <2>1. MeasureHolds'
    BY <1>1, <1>2, <1>4 DEF Inv, MeasureHolds
  <2>2. ReadIsOfOneMoment'
    BY <1>1, <1>2, <1>4 DEF Inv, MeasureHolds, ReadIsOfOneMoment
  <2>. QED
    BY <1>2, <1>3, <1>4, <2>1, <2>2 DEF Simple
<1>5. CASE Measure(r)
  <2>1. pc'[r] = "measured" /\ nLenBuffer'[r] = strlen /\ UNCHANGED muxLock
    BY <1>2, <1>5 DEF Measure, Goto, Inv, TypeOK
  <2>2. strlen <= strlen
    BY LeadingIs, Bounds
  <2>3. MutexOK'
    BY <1>1, <2>1 DEF Inv, MutexOK, Held
  <2>. QED
    BY <1>4, <2>1, <2>2, <2>3
<1>6. CASE StartRead(r)
  <2>1. /\ pc[r] = "measured" /\ pc'[r] = "read" /\ UNCHANGED <<nLenBuffer, szData>>
        /\ muxLock = None /\ muxLock' = r
    BY <1>6 DEF StartRead, Goto, Lock, readVars, Inv, TypeOK
  <2>2. szData[r] = << >>
    BY <2>1 DEF Inv, TypeOK
  <2>3. MutexOK'
    BY <1>1, <2>1, MutexKeeps
  <2>4. MyRead
    BY <2>1, <2>2 DEF Inv, MeasureHolds
  <2>. QED
    BY <1>4, <2>3, <2>4
<1>7. CASE ReadChar(r)
  <2>1. /\ pc[r] = "read" /\ UNCHANGED <<pc, muxLock, nLenBuffer>>
        /\ szData'[r] = Append(szData[r], _szFileBuffer[i[r]])
        /\ i[r] = Len(szData[r]) /\ szData[r] \in Seq(Stored)
    BY <1>7 DEF ReadChar, Inv, TypeOK
  <2>2. \A p \in DOMAIN szData[r] : szData[r][p] = _szFileBuffer[p - 1]
    BY <2>1 DEF Inv, ReadIsOfOneMoment
  <2>3. \A p \in DOMAIN szData'[r] : szData'[r][p] = _szFileBuffer[p - 1]
    <3>. SUFFICES ASSUME NEW p \in 1 .. i[r] + 1
                  PROVE  szData'[r][p] = _szFileBuffer[p - 1]
      BY <2>1
    <3>1. CASE p = i[r] + 1
      BY <2>1, <3>1
    <3>2. CASE p \in 1 .. i[r]
      BY <2>1, <2>2, <3>2
    <3>. QED
      BY <2>1, <3>1, <3>2
  <2>4. MutexOK'
    BY <1>1, <2>1 DEF Inv, MutexOK
  <2>. QED
    BY <1>4, <2>1, <2>3, <2>4 DEF Inv, MeasureHolds
<1>8. CASE EndRead(r)
  <2>1. pc[r] = "read" /\ pc'[r] = "start"
    BY <1>8 DEF EndRead, NextRound, Inv, TypeOK
  <2>2. MutexOK'
    BY <1>1, <2>1, MutexKeeps DEF Held
  <2>. QED
    BY <1>4, <2>1, <2>2
<1>. QED
  BY <1>5, <1>6, <1>7, <1>8 DEF ReadFile

-----------------------------------------------------------------------------

LEMMA Start == Init => Inv
<1>. SUFFICES ASSUME Init PROVE Inv
  OBVIOUS
<1>1. \A t \in Readers \cup Writers : pc[t] = "start"
  BY DEF Init
<1>2. TypeOK
  BY Bounds DEF Init, TypeOK, ReaderSteps, WriterSteps, Memory, Stored
<1>3. MutexOK /\ RegisterOK /\ MeasureHolds /\ ReadIsOfOneMoment
  BY <1>1, Bounds DEF MutexOK, Held, RegisterOK, MeasureHolds, ReadIsOfOneMoment
<1>4. NothingBehindFile
  BY Bounds DEF Init, NothingBehindFile, Memory
<1>. QED
  BY <1>2, <1>3, <1>4 DEF Inv

LEMMA StepKeeps ==
  ASSUME Inv, [Next]_vars
  PROVE  Inv'
<1>1. ASSUME NEW w \in Writers, WriteFile(w) PROVE Inv'
  <2>1. TypeOK'
    BY <1>1, WriterTypes DEF Inv
  <2>2. program' = program
    BY <1>1 DEF WriteFile, WrapTest, WrapStore, Reload, StoreChar, TestEnd, StoreMark, Advance
  <2>. QED
    BY <1>1, <2>1, <2>2, WriterKeeps DEF Inv, Simple
<1>2. ASSUME NEW r \in Readers, ReadFile(r) PROVE Inv'
  <2>1. TypeOK' /\ program' = program
    BY <1>2, ReaderTypes DEF Inv
  <2>. QED
    BY <1>2, <2>1, ReaderKeeps DEF Inv, Simple
<1>3. CASE UNCHANGED vars
  BY <1>3 DEF vars, Inv, TypeOK, MutexOK, RegisterOK, MeasureHolds, NothingBehindFile,
     ReadIsOfOneMoment, strlen, Length
<1>. QED
  BY <1>1, <1>2, <1>3 DEF Next

LEMMA Invariance == Spec => []Inv
  BY Start, StepKeeps, PTL DEF Spec

\* In all three programs the loops of WriteFile stay inside the texts, a reader copies
\* no more than it has measured, and what it copies are characters, marks or NULs.  Of
\* the pointer it only says that it is within the bound that the model puts on its way
\* past the end; FileIsNotLeft says more.
THEOREM TypeCorrect == Spec => []TypeOK
<1>1. Inv => TypeOK
  BY DEF Inv
<1>. QED
  BY <1>1, Invariance, PTL

\* With the mutex nothing is written behind _szFileBuffer, and the pointer stays inside
\* it, for any number of writers and any texts.
THEOREM FileIsNotLeft == Spec => []NothingBehindFile
<1>1. Inv => NothingBehindFile
  BY DEF Inv, NothingBehindFile
<1>. QED
  BY <1>1, Invariance, PTL

\* With the mutex a read is of one moment, although ReadFile takes the length of the
\* file before it has the mutex.
THEOREM ReadsAreOfOneMoment == Spec => []ReadIsOfOneMoment
<1>1. Inv => ReadIsOfOneMoment
  BY DEF Inv, ReadIsOfOneMoment
<1>. QED
  BY <1>1, Invariance, PTL
=============================================================================
