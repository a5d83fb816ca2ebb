------------------------------- MODULE FileText -------------------------------
(***************************************************************************)
(* The contents of files, and what the calls of the operating system do to *)
(* them.                                                                   *)
(***************************************************************************)
EXTENDS Naturals, Sequences, SequencesExt

CONSTANTS Files,       \* the paths
          Bytes,       \* what can be written
          Hole,        \* a byte that nobody has written: zero
          Unknown,     \* a text that nobody can tell, the empty one perhaps
          MaxLen,      \* a bound on the length of a file
          TruncateTo,  \* the sizes files are truncated to
          Gone         \* no such file

ASSUME TextAssumption ==
    /\ MaxLen \in Nat \ {0}
    /\ TruncateTo \subseteq 0 .. MaxLen
    /\ Hole \notin Bytes
    /\ Unknown \notin SeqOf(Bytes \cup {Hole}, MaxLen)

Texts == SeqOf(Bytes \cup {Hole}, MaxLen) \cup {Unknown}

\* The text after byte b is written at an offset, beyond the end perhaps.
Written(text, offset, b) ==
    IF text = Unknown THEN Unknown
    ELSE [p \in 1 .. (IF offset < Len(text) THEN Len(text) ELSE offset + 1) |->
             IF p = offset + 1 THEN b ELSE IF p <= Len(text) THEN text[p] ELSE Hole]

\* The text with its size changed.
Resized(text, size) ==
    IF text = Unknown /\ size # 0 THEN Unknown
    ELSE [p \in 1 .. size |-> IF p <= Len(text) THEN text[p] ELSE Hole]
=============================================================================
