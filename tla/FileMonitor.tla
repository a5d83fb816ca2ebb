----------------------------- MODULE FileMonitor ------------------------------
(***************************************************************************)
(* ThreadReadersWritersMonitor.java: read and write are synchronized, so   *)
(* each is one step.  It is the abstract specification of the program with *)
(* semaphores: a write appends its whole text at once, and a read returns  *)
(* the file as it is at one moment.                                        *)
(***************************************************************************)
EXTENDS FileBuffer

VARIABLES file,         \* the monitor's buffer and pointer
          readBuffer    \* readBuffer[r], the result of the last read of r, while it is in scope

monitorVars == <<file, readBuffer>>

\* A reader that has no result.
Nothing == << >>

Init ==
    /\ file = EmptyFile
    /\ readBuffer = [r \in Readers |-> Nothing]

write(w) ==
    /\ file' = Rest(w)[Len(Text[w])][file]
    /\ UNCHANGED readBuffer

read(r) ==
    /\ readBuffer[r] = Nothing
    /\ readBuffer' = [readBuffer EXCEPT ![r] = file.buffer]
    /\ UNCHANGED file

\* The reader's loop body ends, and the result with it.
forget(r) ==
    /\ readBuffer' = [readBuffer EXCEPT ![r] = Nothing]
    /\ UNCHANGED file

Next == (\E w \in Writers : write(w)) \/ (\E r \in Readers : read(r) \/ forget(r))

Spec == Init /\ [][Next]_monitorVars
=============================================================================
