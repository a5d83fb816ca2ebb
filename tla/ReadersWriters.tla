---------------------------- MODULE ReadersWriters ----------------------------
(***************************************************************************)
(* ThreadReadersWritersSemaphores.c: writers and readers of one file,      *)
(* excluded by three semaphores.  A writer holds semRead and semWrite; the *)
(* first reader in takes semWrite for all readers and the last one out     *)
(* gives it back; semMutex guards the count of readers; every thread goes  *)
(* through semRead, so that readers cannot overtake a waiting writer.      *)
(*                                                                         *)
(* WriteFile and ReadFile go character by character, with a pause before   *)
(* each.  main only waits for a key to end the process, which stops all    *)
(* threads wherever they are; the model is of the time until then.         *)
(***************************************************************************)
EXTENDS FileBuffer

VARIABLES
    semWrite, semRead, semMutex,   \* the values of the semaphores
    nReadCount,                    \* readers that are in, or on their way
    file,                          \* _szFileBuffer and _nBufferPointer
    pc,                            \* the next step of each thread
    i,                             \* the loop index of WriteFile or ReadFile
    nLenBuffer,                    \* the length ReadFile has found, of a reader
    szData                         \* the buffer a reader reads into

semVars  == <<semWrite, semRead, semMutex, nReadCount>>
dataVars == <<i, nLenBuffer, szData>>
vars     == <<semWrite, semRead, semMutex, nReadCount, file, pc, i, nLenBuffer, szData>>

Init ==
    /\ semWrite = 1 /\ semRead = 1 /\ semMutex = 1
    /\ nReadCount = 0
    /\ file = EmptyFile
    /\ pc = [t \in Readers \cup Writers |-> "read_sem"]
    /\ i = [t \in Readers \cup Writers |-> 0]
    /\ nLenBuffer = [r \in Readers |-> 0]
    /\ szData = [r \in Readers |-> EmptyFile.buffer]

\* Thread t goes from step a to step b.
Goto(t, a, b) == pc[t] = a /\ pc' = [pc EXCEPT ![t] = b]

sem_wait(s) == s > 0 /\ s' = s - 1
sem_post(s) == s' = s + 1

\* Every round of every thread begins with sem_wait(&_semRead).
WaitRead(t, b) ==
    /\ Goto(t, "read_sem", b)
    /\ sem_wait(semRead)
    /\ UNCHANGED <<semWrite, semMutex, nReadCount, file, dataVars>>

PostRead(t, a, b) ==
    /\ Goto(t, a, b)
    /\ sem_post(semRead)
    /\ UNCHANGED <<semWrite, semMutex, nReadCount, file, dataVars>>

-----------------------------------------------------------------------------
(* WriterFunction *)

WaitWrite(w) ==
    /\ Goto(w, "write_sem", "write")
    /\ sem_wait(semWrite)
    /\ i' = [i EXCEPT ![w] = 0]
    /\ UNCHANGED <<semRead, semMutex, nReadCount, file, nLenBuffer, szData>>

\* One round of the loop of WriteFile.
WriteFile(w) ==
    /\ Goto(w, "write", IF i[w] + 1 < Len(Text[w]) THEN "write" ELSE "post_write")
    /\ file' = Put(file, Text[w][i[w] + 1])
    /\ i' = [i EXCEPT ![w] = @ + 1]
    /\ UNCHANGED <<semVars, nLenBuffer, szData>>

PostWrite(w) ==
    /\ Goto(w, "post_write", "post_read")
    /\ sem_post(semWrite)
    /\ UNCHANGED <<semRead, semMutex, nReadCount, file, dataVars>>

WriterFunction(w) ==
    \/ WaitRead(w, "write_sem") \/ WaitWrite(w) \/ WriteFile(w) \/ PostWrite(w)
    \/ PostRead(w, "post_read", "read_sem")

-----------------------------------------------------------------------------
(* ReaderFunction *)

WaitMutex(r) ==
    /\ \/ Goto(r, "enter_mutex", "count") \/ Goto(r, "leave_mutex", "uncount")
    /\ sem_wait(semMutex)
    /\ UNCHANGED <<semWrite, semRead, nReadCount, file, dataVars>>

\* Mutant: every reader but the first waits for the writers.
MutantCount(r) ==
    /\ Goto(r, "count", IF nReadCount + 1 = 1 THEN "entered" ELSE "first")
    /\ nReadCount' = nReadCount + 1
    /\ UNCHANGED <<semWrite, semRead, semMutex, file, dataVars>>

\* _nReadCount++; the first reader waits for the writers.
Count(r) ==
    /\ Goto(r, "count", IF nReadCount + 1 = 1 THEN "first" ELSE "entered")
    /\ nReadCount' = nReadCount + 1
    /\ UNCHANGED <<semWrite, semRead, semMutex, file, dataVars>>

\* Mutant: the first reader does not wait.
MutantFirstWaits(r) ==
    /\ Goto(r, "first", "entered")
    /\ UNCHANGED <<semVars, file, dataVars>>

FirstWaits(r) ==
    /\ Goto(r, "first", "entered")
    /\ sem_wait(semWrite)
    /\ UNCHANGED <<semRead, semMutex, nReadCount, file, dataVars>>

\* Mutant: the last reader posts semWrite although others are still in.
MutantUncount(r) ==
    /\ Goto(r, "uncount", "last")
    /\ nReadCount' = nReadCount - 1
    /\ UNCHANGED <<semWrite, semRead, semMutex, file, dataVars>>

\* _nReadCount--; the last reader lets the writers in.
Uncount(r) ==
    /\ Goto(r, "uncount", IF nReadCount - 1 = 0 THEN "last" ELSE "left")
    /\ nReadCount' = nReadCount - 1
    /\ UNCHANGED <<semWrite, semRead, semMutex, file, dataVars>>

LastPosts(r) ==
    /\ Goto(r, "last", "left")
    /\ sem_post(semWrite)
    /\ UNCHANGED <<semRead, semMutex, nReadCount, file, dataVars>>

PostMutex(r) ==
    /\ Goto(r, "entered", "entered_post") \/ Goto(r, "left", "read_sem")
    /\ sem_post(semMutex)
    /\ UNCHANGED <<semWrite, semRead, nReadCount, file, dataVars>>

\* strlen: the characters in front of the first NUL; the one behind the file is
\* never overwritten.
Length(f) == Cardinality({p \in Positions : \A q \in 0 .. p : f.buffer[q] # NUL})

\* The reader clears its buffer, and ReadFile measures the file.
MeasureFile(r) ==
    /\ Goto(r, "measure", IF Length(file) = 0 THEN "leave_mutex" ELSE "read")
    /\ nLenBuffer' = [nLenBuffer EXCEPT ![r] = Length(file)]
    /\ i' = [i EXCEPT ![r] = 0]
    /\ szData' = [szData EXCEPT ![r] = EmptyFile.buffer]
    /\ UNCHANGED <<semVars, file>>

\* One round of the loop of ReadFile.
ReadFile(r) ==
    /\ Goto(r, "read", IF i[r] + 1 < nLenBuffer[r] THEN "read" ELSE "leave_mutex")
    /\ szData' = [szData EXCEPT ![r][i[r]] = file.buffer[i[r]]]
    /\ i' = [i EXCEPT ![r] = @ + 1]
    /\ UNCHANGED <<semVars, file, nLenBuffer>>

\* Mutant: readers do not go through semRead, as in the solution that lets them
\* starve the writers.
MutantReaderFunction(r) ==
    \/ /\ Goto(r, "read_sem", "enter_mutex") \/ Goto(r, "entered_post", "measure")
       /\ UNCHANGED <<semVars, file, dataVars>>
    \/ WaitMutex(r) \/ Count(r) \/ FirstWaits(r) \/ PostMutex(r)
    \/ MeasureFile(r) \/ ReadFile(r) \/ Uncount(r) \/ LastPosts(r)

ReaderFunction(r) ==
    \/ WaitRead(r, "enter_mutex") \/ WaitMutex(r) \/ Count(r) \/ FirstWaits(r)
    \/ PostMutex(r) \/ PostRead(r, "entered_post", "measure")
    \/ MeasureFile(r) \/ ReadFile(r) \/ Uncount(r) \/ LastPosts(r)

Next ==
    \/ \E w \in Writers : WriterFunction(w)
    \/ \E r \in Readers : ReaderFunction(r)

Spec == Init /\ [][Next]_vars

\* Every thread that can go on does.  Nothing is assumed of the order in which
\* a semaphore lets threads in: a thread that waits can be overtaken again and
\* again, as POSIX allows.
FairSpec ==
    /\ Spec
    /\ \A w \in Writers : WF_vars(WriterFunction(w))
    /\ \A r \in Readers : WF_vars(ReaderFunction(r))

-----------------------------------------------------------------------------

WriterSteps == {"read_sem", "write_sem", "write", "post_write", "post_read"}
ReaderSteps == {"read_sem", "enter_mutex", "count", "first", "entered", "entered_post",
    "measure", "read", "leave_mutex", "uncount", "last", "left"}

TypeOK ==
    /\ semWrite \in {0, 1} /\ semRead \in {0, 1} /\ semMutex \in {0, 1}
    /\ nReadCount \in Nat
    /\ file \in File
    /\ pc \in [Readers \cup Writers -> ReaderSteps \cup WriterSteps]
    /\ \A r \in Readers : pc[r] \in ReaderSteps
    /\ \A w \in Writers : pc[w] \in WriterSteps
    /\ i \in [Readers \cup Writers -> Nat]
    /\ nLenBuffer \in [Readers -> 0 .. LEN_FILE]
    /\ szData \in [Readers -> [Positions -> Characters \cup {NUL, MARK}]]

\* The threads that are at work on the file.
Writing == {w \in Writers : pc[w] = "write"}
Reading == {r \in Readers : pc[r] \in {"measure", "read"}}

\* A writer works on the file alone, readers only with readers.
Exclusion == \A w \in Writing : Writing = {w} /\ Reading = {}

\* What a reader has so far is the beginning of the file as it is now: no write
\* begins or ends during a read, so what ReadFile returns was in the file
\* at one time, all of it.
ReadsHold ==
    \A r \in Readers : pc[r] = "read" =>
        /\ nLenBuffer[r] = Length(file)
        /\ \A p \in Positions : p < i[r] => szData[r][p] = file.buffer[p]

\* As long as a round of the file has been written, the mark is where the next
\* character goes, and only there.
OneMark ==
    \A p \in Positions :
        file.buffer[p] = MARK <=> file # EmptyFile /\ p = file.pointer % LEN_FILE

\* The semaphores make of reads and writes, character by character, what
\* synchronized makes of them in ThreadReadersWritersMonitor.java.
\* A write takes effect when its writer gets in.
Monitor ==
    INSTANCE FileMonitor WITH
        file <- IF Writing = {} THEN file
                ELSE LET w == CHOOSE w \in Writing : TRUE
                     IN  Rest(w)[Len(Text[w]) - i[w]][file],
        readBuffer <- [r \in Readers |->
                          IF pc[r] \in {"leave_mutex", "uncount", "last", "left"}
                          THEN szData[r] ELSE << >>]
ImplementsMonitor == Monitor!Spec

\* ThreadReadersWritersSemaphores.c:1 "the starvation-free solution": a thread
\* that has got semRead gets to the file, whatever readers come and go.  No
\* order is assumed among the threads that wait for a semaphore.
TurnComes ==
    /\ \A w \in Writers : pc[w] = "write_sem" ~> pc[w] = "write"
    /\ \A r \in Readers : pc[r] = "enter_mutex" ~> pc[r] = "measure"
=============================================================================
