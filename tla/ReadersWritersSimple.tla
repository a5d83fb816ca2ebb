------------------------- MODULE ReadersWritersSimple -------------------------
(***************************************************************************)
(* The simpler readers-writers programs.  ThreadReadersWritersSimple.c     *)
(* makes every read and write under one mutex, but measures the file       *)
(* before it has it; ThreadReadersWritersNoSync.c and ...NoSync.java do    *)
(* the same without any lock ("it's not supposed to work").                *)
(*                                                                         *)
(* A thread makes one access to shared memory in a step.  Whether it loads *)
(* _nBufferPointer anew for a statement or keeps it in a register is up to *)
(* the compiler: both happen.                                              *)
(***************************************************************************)
EXTENDS FileBuffer

CONSTANTS None,         \* no thread
          MaxOverrun    \* a bound on the overrun of the pointer, which has none

ASSUME SimpleAssumption ==
    MaxOverrun \in Nat /\ Writers # {} /\ None \notin Readers \cup Writers

VARIABLES
    program,           \* which of the three; it stays what it is
    muxLock,           \* the thread that has the mutex, or None
    _szFileBuffer,     \* the characters of the file
    _nBufferPointer,   \* where the next character goes
    pc,                \* the next step of each thread
    i,                 \* the loop index of WriteFile or ReadFile
    register,          \* _nBufferPointer as a writer has loaded it
    nLenBuffer,        \* the length a reader has found
    szData             \* what a reader has read

fileVars  == <<_szFileBuffer, _nBufferPointer>>
readVars  == <<nLenBuffer, szData>>
vars == <<program, muxLock, _szFileBuffer, _nBufferPointer, pc, i, register, nLenBuffer, szData>>

Programs == {"Simple.c", "NoSync.c", "NoSync.java"}

\* The characters and, in C, the NUL behind them.
Memory == 0 .. LEN_FILE

Init ==
    /\ program \in Programs
    /\ muxLock = None
    /\ _szFileBuffer = [p \in Memory |-> NUL]
    /\ _nBufferPointer = 0
    /\ pc = [t \in Readers \cup Writers |-> "start"]
    /\ i = [t \in Readers \cup Writers |-> 0]
    /\ register = [w \in Writers |-> 0]
    /\ nLenBuffer = [r \in Readers |-> 0]
    /\ szData = [r \in Readers |-> << >>]

\* Thread t goes from step a to step b.
Goto(t, a, b) == pc[t] = a /\ pc' = [pc EXCEPT ![t] = b]

\* pthread_mutex_lock, where there is a mutex.
MutantLock(t) == UNCHANGED muxLock    \* Mutant: the mutex is left out.
Lock(t) ==
    IF program = "Simple.c" THEN muxLock = None /\ muxLock' = t ELSE UNCHANGED muxLock

Unlock == muxLock' = None

\* The endless loops of the threads.
NextRound(t) == pc' = [pc EXCEPT ![t] = "start"]

-----------------------------------------------------------------------------
(* WriteFile *)

\* The pointer is loaded, to see whether it has come to the end,
WrapTest(w) ==
    /\ \E next \in {"wrapped", "kept"} :
          /\ next = "wrapped" <=> Wrap(_nBufferPointer) # _nBufferPointer
          /\ \/ Goto(w, "start", next) /\ Lock(w)
             \/ Goto(w, "wrap", next) /\ UNCHANGED muxLock
    /\ register' = [register EXCEPT ![w] = Wrap(_nBufferPointer)]
    /\ UNCHANGED <<program, fileVars, i, readVars>>

\* and stored, changed or not.
WrapStore(w) ==
    /\ Goto(w, "wrapped", "char") \/ Goto(w, "kept", "char")
    /\ _nBufferPointer' = register[w]
    /\ UNCHANGED <<program, muxLock, _szFileBuffer, i, register, readVars>>

\* It may be loaded again for each use.
Reload(w) ==
    /\ pc[w] \in {"kept", "char", "test", "mark", "advance"}
    /\ register' = [register EXCEPT ![w] = _nBufferPointer]
    /\ UNCHANGED <<program, muxLock, fileVars, pc, i, readVars>>

\* A subscript out of range ends the thread in Java; in C, memory behind the array
\* is written, which is not followed here.
Store(w, p, c, next) ==
    IF program = "NoSync.java" /\ p >= LEN_FILE
    THEN pc' = [pc EXCEPT ![w] = "dead"] /\ UNCHANGED _szFileBuffer
    ELSE pc' = [pc EXCEPT ![w] = next] /\ _szFileBuffer' = [q \in Memory |-> IF q = p THEN c ELSE _szFileBuffer[q]]

StoreChar(w) ==
    /\ pc[w] = "char"
    /\ Store(w, register[w], Text[w][i[w] + 1], "test")
    /\ UNCHANGED <<program, muxLock, _nBufferPointer, i, register, readVars>>

\* Where the mark goes: behind the character, or at the beginning.
TestEnd(w) ==
    /\ Goto(w, "test", IF register[w] + 1 < LEN_FILE THEN "mark" ELSE "mark_first")
    /\ UNCHANGED <<program, muxLock, fileVars, i, register, readVars>>

StoreMark(w) ==
    /\ \/ pc[w] = "mark" /\ Store(w, register[w] + 1, MARK, "advance")
       \/ pc[w] = "mark_first" /\ Store(w, 0, MARK, "advance")
    /\ UNCHANGED <<program, muxLock, _nBufferPointer, i, register, readVars>>

\* Mutant: the loop index stays.
MutantAdvance(w) ==
    /\ Goto(w, "advance", "wrap")
    /\ register[w] < LEN_FILE + MaxOverrun
    /\ _nBufferPointer' = register[w] + 1
    /\ UNCHANGED <<program, muxLock, _szFileBuffer, i, register, readVars>>

\* _nBufferPointer++, and the loop goes on or ends.
Advance(w) ==
    /\ pc[w] = "advance"
    /\ register[w] < LEN_FILE + MaxOverrun
    /\ _nBufferPointer' = register[w] + 1
    /\ IF i[w] + 1 < Len(Text[w])
       THEN /\ pc' = [pc EXCEPT ![w] = "wrap"]
            /\ i' = [i EXCEPT ![w] = @ + 1]
            /\ UNCHANGED muxLock
       ELSE Unlock /\ NextRound(w) /\ i' = [i EXCEPT ![w] = 0]
    /\ UNCHANGED <<program, _szFileBuffer, register, readVars>>

\* A writer, the same in all three programs but for Lock and Store.
WriteFile(w) ==
    \/ WrapTest(w) \/ WrapStore(w) \/ Reload(w) \/ StoreChar(w)
    \/ TestEnd(w) \/ StoreMark(w) \/ Advance(w)

-----------------------------------------------------------------------------
(* ReadFile *)

\* strlen: the characters in front of the first NUL, or more than the array has when
\* its NUL has been written over.  (Characters do not become NUL, so one step does
\* for all of them.)  Java reads the whole array.
strlen == Cardinality({p \in Memory : \A q \in 0 .. p : _szFileBuffer[q] # NUL})

Length == IF program = "NoSync.java" THEN LEN_FILE ELSE strlen

\* The file is measured before it is locked.
Measure(r) ==
    /\ Goto(r, "start", "measured")
    /\ nLenBuffer' = [nLenBuffer EXCEPT ![r] = Length]
    /\ UNCHANGED <<program, muxLock, fileVars, i, register, szData>>

StartRead(r) ==
    /\ Goto(r, "measured", "read")
    /\ Lock(r)
    /\ UNCHANGED <<program, fileVars, i, register, readVars>>

ReadChar(r) ==
    /\ pc[r] = "read" /\ i[r] < nLenBuffer[r]
    /\ szData' = [szData EXCEPT ![r] = Append(@, _szFileBuffer[i[r]])]
    /\ i' = [i EXCEPT ![r] = @ + 1]
    /\ UNCHANGED <<program, muxLock, fileVars, pc, register, nLenBuffer>>

\* Its buffer is cleared for the next round.
EndRead(r) ==
    /\ pc[r] = "read" /\ i[r] >= nLenBuffer[r]
    /\ Unlock /\ NextRound(r)
    /\ i' = [i EXCEPT ![r] = 0]
    /\ nLenBuffer' = [nLenBuffer EXCEPT ![r] = 0]
    /\ szData' = [szData EXCEPT ![r] = << >>]
    /\ UNCHANGED <<program, fileVars, register>>

\* A reader, the same in all three programs but for Lock and Length.
ReadFile(r) == Measure(r) \/ StartRead(r) \/ ReadChar(r) \/ EndRead(r)

Next == (\E w \in Writers : WriteFile(w)) \/ (\E r \in Readers : ReadFile(r))

Spec == Init /\ [][Next]_vars

\* Every thread that can go on does, and no thread loads the pointer for ever.
FairSpec ==
    /\ Spec
    /\ \A w \in Writers : WF_vars(WriteFile(w) /\ pc' # pc)
    /\ \A r \in Readers : WF_vars(ReadFile(r))

-----------------------------------------------------------------------------

Stored == Characters \cup {NUL, MARK}

WriterSteps == {"start", "wrap", "wrapped", "kept", "char", "test", "mark", "mark_first", "advance", "dead"}
ReaderSteps == {"start", "measured", "read"}

TypeOK ==
    /\ program \in Programs
    /\ muxLock \in Readers \cup Writers \cup {None}
    /\ _szFileBuffer \in [Memory -> Stored]
    /\ _nBufferPointer \in 0 .. LEN_FILE + MaxOverrun
    /\ pc \in [Readers \cup Writers -> ReaderSteps \cup WriterSteps]
    /\ i \in [Readers \cup Writers -> Nat]
    /\ register \in [Writers -> 0 .. LEN_FILE + MaxOverrun]
    /\ nLenBuffer \in [Readers -> 0 .. LEN_FILE + 1]
    /\ szData \in [Readers -> Seq(Stored)]
    /\ \A w \in Writers : pc[w] \in WriterSteps /\ i[w] < Len(Text[w])
    /\ \A r \in Readers :
          /\ pc[r] \in ReaderSteps /\ i[r] = Len(szData[r]) /\ i[r] <= nLenBuffer[r]
          /\ pc[r] # "read" => i[r] = 0

\* With the mutex, a read is of one moment although its length is of an earlier
\* one: what has been read so far is the beginning of the file as it is, and what
\* was there when it was measured still is.
ReadIsOfOneMoment ==
    program = "Simple.c" =>
        \A r \in Readers : pc[r] = "read" =>
            /\ nLenBuffer[r] <= Length
            /\ \A p \in DOMAIN szData[r] : szData[r][p] = _szFileBuffer[p - 1]

\* With the mutex the pointer wraps around in time, and nothing is ever written
\* behind the file.  (Without it the pointer runs past the end, further each time
\* one writer wraps it around while another one still has it in a register; in Java
\* every writer may die of that.)
NothingBehindFile ==
    program = "Simple.c" =>
        /\ _nBufferPointer <= LEN_FILE
        /\ _szFileBuffer[LEN_FILE] = NUL

\* Nobody keeps the mutex: reads and writes end, one after the other, for ever.
LockComesFree == []<>(muxLock = None)
=============================================================================
