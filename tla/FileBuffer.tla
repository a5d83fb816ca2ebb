------------------------------ MODULE FileBuffer ------------------------------
(***************************************************************************)
(* The in-memory file that the readers-writers programs share: a circular  *)
(* buffer of characters, written one at a time, with a mark behind the     *)
(* last one.  The C programs and the Java ones treat it alike.             *)
(***************************************************************************)
EXTENDS Naturals, Sequences, FiniteSets

CONSTANTS Readers, Writers,   \* the threads
          LEN_FILE,           \* the size of the file
          NUL,                \* what the file is filled with at first
          MARK,               \* '@'
          Text                \* Text[w], what writer w writes again and again

\* The characters that are written.
Characters == UNION {{Text[w][i] : i \in 1 .. Len(Text[w])} : w \in Writers}

ASSUME FileAssumption ==
    /\ LEN_FILE \in Nat \ {0}
    /\ IsFiniteSet(Readers) /\ Readers \cap Writers = {}
    /\ \A w \in Writers : Len(Text[w]) \in Nat \ {0}
    /\ NUL # MARK /\ NUL \notin Characters /\ MARK \notin Characters

Positions == 0 .. LEN_FILE - 1

\* The characters of a file, and where the next one goes.
File == [buffer : [Positions -> Characters \cup {NUL, MARK}], pointer : 0 .. LEN_FILE]

EmptyFile == [buffer |-> [p \in Positions |-> NUL], pointer |-> 0]

\* Mutant: writes one character behind the end of the file.
MutantWrap(p) == IF p > LEN_FILE THEN 0 ELSE p

\* Where the next character goes, for pointer p.
Wrap(p) == IF p >= LEN_FILE THEN 0 ELSE p

\* Mutant: no mark at the beginning of the file.
MutantPut(f, c) ==
    LET p == Wrap(f.pointer) IN
    [buffer  |-> [q \in Positions |-> IF q = p THEN c ELSE IF q = p + 1 THEN MARK ELSE f.buffer[q]],
     pointer |-> p + 1]

\* File f with one more character, and the mark behind it.
Put(f, c) ==
    LET p == Wrap(f.pointer) IN
    [buffer  |-> [f.buffer EXCEPT ![p] = c, ![IF p + 1 < LEN_FILE THEN p + 1 ELSE 0] = MARK],
     pointer |-> p + 1]

\* Rest(w)[n][f] is file f with the last n characters of writer w's text put into it.
Rest(w) ==
    LET rest[n \in Nat] ==
            IF n = 0 THEN [f \in File |-> f]
            ELSE [f \in File |-> rest[n - 1][Put(f, Text[w][Len(Text[w]) - n + 1])]]
    IN  rest
=============================================================================
