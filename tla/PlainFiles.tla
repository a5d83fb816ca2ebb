------------------------------ MODULE PlainFiles ------------------------------
(***************************************************************************)
(* What the encrypted file system is to its users: a directory of plain    *)
(* files, every request one step.  It is less than a directory in two      *)
(* things: to change the size of a file, other than to nothing, may leave  *)
(* a text that nobody can tell, and so may a call that fails; it is so     *)
(* until the file is emptied or removed.                                   *)
(***************************************************************************)
EXTENDS FileText

VARIABLES contents,   \* contents[f], the text of file f, or Gone
          unsure,     \* the files that may hold any text
          result,     \* what the last read has returned
          mayFail     \* whether calls of the operating system may fail at all

plainVars == <<contents, unsure, result, mayFail>>

Init ==
    /\ contents \in [Files -> Texts \cup {Gone}]
    /\ unsure = {}
    /\ result = << >>
    /\ mayFail \in BOOLEAN

create(f) ==
    /\ contents[f] = Gone
    /\ contents' = [contents EXCEPT ![f] = << >>]
    /\ UNCHANGED <<unsure, result>>

unlink(f) ==
    /\ contents[f] # Gone
    /\ contents' = [contents EXCEPT ![f] = Gone]
    /\ unsure' = unsure \ {f}
    /\ UNCHANGED result

read(f) ==
    /\ contents[f] # Gone
    /\ result' \in IF f \in unsure THEN Texts ELSE {contents[f]}
    /\ UNCHANGED <<contents, unsure>>

write(f, offset, b) ==
    /\ contents[f] # Gone
    /\ contents' = [contents EXCEPT ![f] = Written(@, offset, b)]
    /\ UNCHANGED <<unsure, result>>

spoil(f) ==
    /\ contents[f] # Gone
    /\ contents' = [contents EXCEPT ![f] = Unknown]
    /\ unsure' = unsure \cup {f}
    /\ UNCHANGED result

truncate(f, size) ==
    \/ /\ contents[f] # Gone
       /\ contents' = [contents EXCEPT ![f] = Resized(@, size)]
       /\ unsure' = IF size = 0 THEN unsure \ {f} ELSE unsure
       /\ UNCHANGED result
    \/ size # 0 /\ spoil(f)

\* A call fails, or the process ends, while a request for file f is served.
fail(f) == mayFail /\ spoil(f)

Next ==
    /\ \E f \in Files :
          \/ create(f) \/ unlink(f) \/ read(f) \/ fail(f)
          \/ \E offset \in 0 .. MaxLen - 1, b \in Bytes : write(f, offset, b)
          \/ \E size \in TruncateTo : truncate(f, size)
    /\ UNCHANGED mayFail

Spec == Init /\ [][Next]_plainVars
=============================================================================
