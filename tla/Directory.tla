------------------------------ MODULE Directory ------------------------------
(***************************************************************************)
(* What programs expect of a directory: names lead to files, a file that   *)
(* is open stays the same file whatever becomes of its name, and a request *)
(* gets at the file it names.                                              *)
(***************************************************************************)
CONSTANTS Names, Handles, Node, None, Failed

VARIABLES name,     \* the file of each name, or None
          open,     \* the file each handle is open on, or None
          reply     \* the files or names the last request got at, or Failed

directoryVars == <<name, open, reply>>

Init == name \in [Names -> Node \cup {None}] /\ open = [h \in Handles |-> None] /\ reply = {}

\* A new file under a free name, and perhaps open at once.
Make(p) ==
    \E n \in Node :
        /\ name[p] = None
        /\ \A q \in Names : name[q] # n
        /\ \A h \in Handles : open[h] # n
        /\ name' = [name EXCEPT ![p] = n]
        /\ \/ UNCHANGED open /\ reply' = {}
           \/ \E h \in Handles : open[h] = None /\ open' = [open EXCEPT ![h] = n] /\ reply' = {n}

Remove(p) == name[p] # None /\ name' = [name EXCEPT ![p] = None] /\ reply' = {} /\ UNCHANGED open

\* Two names of one file may stay as they are.
Rename(p, q) ==
    /\ name[p] # None
    /\ \/ name' = [name EXCEPT ![p] = None, ![q] = name[p]]
       \/ name[p] = name[q] /\ UNCHANGED name
    /\ reply' = {} /\ UNCHANGED open

Link(p, q) ==
    /\ name[p] # None /\ name[q] = None
    /\ name' = [name EXCEPT ![q] = name[p]]
    /\ reply' = {} /\ UNCHANGED open

Open(h, p) ==
    /\ open[h] = None /\ name[p] # None
    /\ open' = [open EXCEPT ![h] = name[p]]
    /\ reply' = {name[p]} /\ UNCHANGED name

Close(h) == open[h] # None /\ open' = [open EXCEPT ![h] = None] /\ reply' = {} /\ UNCHANGED name

\* What changes no name gets at the file of a name or a handle, or lists the names,
\* perhaps with others that are nobody's.  A request may fail and change nothing.
Access ==
    /\ \/ reply' \in {{}, Failed}
       \/ \E p \in Names : name[p] # None /\ reply' = {name[p]}
       \/ \E h \in Handles : open[h] # None /\ reply' = {open[h]}
       \/ reply' # Failed /\ reply' \cap Node = {} /\ reply' \cap Names = {p \in Names : name[p] # None}
    /\ UNCHANGED <<name, open>>

Next ==
    \/ \E p \in Names : Make(p) \/ Remove(p)
    \/ \E p, q \in Names : p # q /\ (Rename(p, q) \/ Link(p, q))
    \/ \E h \in Handles : Close(h) \/ \E p \in Names : Open(h, p)
    \/ Access

Spec == Init /\ [][Next]_directoryVars
=============================================================================
