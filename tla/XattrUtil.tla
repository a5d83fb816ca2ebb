------------------------------ MODULE XattrUtil ------------------------------
(***************************************************************************)
(* xattr-util.c, run by several users at once on a file of a mount of      *)
(* Mirror.  What it prints it asks for twice: how long it is, and then,    *)
(* into a buffer of that length, what it is.  Between the two calls the    *)
(* attribute may be set or removed and the file renamed or removed.        *)
(*                                                                         *)
(* A value stands for all values of its length, so it is its length; a     *)
(* list of names is as long as it has names.  That malloc fails is left    *)
(* out.                                                                    *)
(***************************************************************************)
EXTENDS Mirror

CONSTANTS Callers,    \* those who run the utility
          Attrs,      \* names of attributes, with XATTR_USER_PREFIX
          MaxLength,  \* bound: of the length of a value
          Garbage     \* what was in the memory behind or in a buffer

ASSUME XattrAssumption == MaxLength \in Nat /\ Garbage \notin Node /\ None \notin Nat /\ Failed \notin Nat

VARIABLES
    usage,    \* bound: requests are about "names" or about "attributes"; it stays so
    attr,     \* the value of each attribute of each file, or None
    user,     \* what a user has measured and is about to get, or None
    printed   \* what the last step printed: a value, a set of names, Garbage, Failed; or None

utilVars == <<usage, attr, user, printed>>

\* In the instance for attributes there is one file, with any attributes.
UtilInit ==
    /\ user = [u \in Callers |-> None]
    /\ printed = None
    /\ \/ /\ usage = "names" /\ Init
          /\ attr = [n \in Node |-> [a \in Attrs |-> None]]
       \/ /\ usage = "attributes"
          /\ program \in {"fusexmp", "encfs"} /\ mounted = TRUE
          /\ at = [h \in Handles |-> None] /\ reply = {}
          /\ \E n \in Node, p \in Names, v \in [Attrs -> {None} \cup 0..MaxLength] :
                /\ Kind[n] = "file"
                /\ entry = [d \in {"root", "mirror"} |-> [q \in Paths |->
                                IF d = Prefixed /\ q = p THEN n ELSE None]]
                /\ attr = [k \in Node |-> IF k = n THEN v ELSE [a \in Attrs |-> None]]

\* A call on path p comes to the program, or fails before it does.
Served(p) == mounted /\ Found(p)
Asks(p, Handler) == IF Served(p) THEN Handler ELSE UNCHANGED vars

Value(p, a) == attr[entry[Prefixed][p]][a]
Set(p)      == {a \in Attrs : Value(p, a) # None}

-----------------------------------------------------------------------------

\* A command of user u begins.
Begins(u) == user[u] = None /\ UNCHANGED <<usage, attr>>

\* The first call of a get: a buffer of that length is allocated, and one more.
MeasureValue(u, p, a) ==
    /\ Begins(u) /\ Asks(p, xmp_getxattr(p))
    /\ IF Served(p) /\ Value(p, a) # None
       THEN user' = [user EXCEPT ![u] = [get |-> "value", path |-> p, name |-> a, length |-> Value(p, a)]]
            /\ printed' = None
       ELSE UNCHANGED user /\ printed' = Failed

\* The first call of a list.
MeasureList(u, p) ==
    /\ Begins(u) /\ Asks(p, xmp_listxattr(p))
    /\ IF Served(p)
       THEN user' = [user EXCEPT ![u] = [get |-> "list", path |-> p, length |-> Cardinality(Set(p))]]
            /\ printed' = None
       ELSE UNCHANGED user /\ printed' = Failed

\* Mutant: the length of the first call is kept.
MutantInto(size, length, what) ==
    IF length > size THEN Failed ELSE IF length < size THEN Garbage ELSE what

\* What is printed after a call with a buffer of some size: a call with none
\* tells the length only, and the buffer is printed as it is, and beyond.
Into(size, length, what) ==
    IF size = 0 /\ length > 0 THEN Garbage
    ELSE IF length > size THEN Failed
    ELSE what

\* The second call and the output.
FetchValue(u) ==
    LET g == user[u] IN
    /\ g # None /\ g.get = "value" /\ Asks(g.path, xmp_getxattr(g.path))
    /\ printed' = IF Served(g.path) /\ Value(g.path, g.name) # None
                  THEN Into(g.length, Value(g.path, g.name), Value(g.path, g.name)) ELSE Failed
    /\ user' = [user EXCEPT ![u] = None]
    /\ UNCHANGED <<usage, attr>>

FetchList(u) ==
    LET g == user[u] IN
    /\ g # None /\ g.get = "list" /\ Asks(g.path, xmp_listxattr(g.path))
    /\ printed' = IF Served(g.path) THEN Into(g.length, Cardinality(Set(g.path)), Set(g.path)) ELSE Failed
    /\ user' = [user EXCEPT ![u] = None]
    /\ UNCHANGED <<usage, attr>>

\* The call of a set: the program may not survive it, or not pass it on.
SetValue(u, p, a, v) ==
    /\ user[u] = None /\ Asks(p, xmp_setxattr(p))
    /\ IF Served(p) /\ program = "fusexmp"
       THEN attr' = [attr EXCEPT ![entry[Prefixed][p]][a] = v] /\ printed' = None
       ELSE UNCHANGED attr /\ printed' = Failed
    /\ UNCHANGED <<usage, user>>

RemoveValue(u, p, a) ==
    /\ user[u] = None /\ Asks(p, xmp_removexattr(p))
    /\ IF Served(p) /\ Value(p, a) # None
       THEN attr' = [attr EXCEPT ![entry[Prefixed][p]][a] = None] /\ printed' = None
       ELSE UNCHANGED attr /\ printed' = Failed
    /\ UNCHANGED <<usage, user>>

\* A command comes with the arguments it needs.
Command(u) ==
    \/ \E p \in Names : \/ MeasureList(u, p)
                        \/ \E a \in Attrs : \/ MeasureValue(u, p, a) \/ RemoveValue(u, p, a)
                                            \/ \E v \in 0..MaxLength : SetValue(u, p, a, v)
    \/ FetchValue(u) \/ FetchList(u)

\* The file gets another name, or none.
NameGoes ==
    /\ mounted
    /\ \E p \in Names : Unlink(p) \/ \E q \in Names \ {p} : Rename(p, q)
    /\ printed' = None /\ UNCHANGED <<usage, attr, user>>

UtilNext ==
    \/ usage = "names" /\ Next /\ UNCHANGED utilVars
    \/ usage = "attributes" /\ (NameGoes \/ \E u \in Callers : Command(u))

UtilSpec == UtilInit /\ [][UtilNext]_<<vars, utilVars>>

-----------------------------------------------------------------------------

\* What xattr-util prints is what the file with that name has at the end,
\* though it was measured before: values are never cut off, nor lengthened with
\* what a longer value left.  The exception is what was empty when it was
\* measured and is longer since: then no buffer is filled and it prints what is there.
PrintsWhatIsThere ==
    [][\A u \in Callers :
          user[u] # None /\ user'[u] = None =>
              LET now == IF user[u].get = "list" THEN Set(user[u].path) ELSE Value(user[u].path, user[u].name)
              IN  \/ printed' = Failed
                  \/ Served(user[u].path) /\ printed' = now
                  \/ /\ printed' = Garbage /\ user[u].length = 0
                     /\ Served(user[u].path) /\ now # (IF user[u].get = "list" THEN {} ELSE 0)]_<<vars, utilVars>>
=============================================================================
