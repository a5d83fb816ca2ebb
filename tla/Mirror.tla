------------------------------- MODULE Mirror --------------------------------
(***************************************************************************)
(* The requests on names of fusexmp.c, which mounts the root directory of  *)
(* the host, and of pa5-encfs.c, which mounts a directory of it: all that  *)
(* is not about the contents of files (EncFS is).  Names are those of one  *)
(* directory; directories in it stay empty.                                *)
(*                                                                         *)
(* The library keeps a path, not a file, for each handle: it moves the     *)
(* path along when the file is renamed, and renames a file that is open    *)
(* to a hidden name instead of removing it.  The kernel has found the      *)
(* names of a request there, or not there, before it passes it on.         *)
(***************************************************************************)
EXTENDS Naturals, FiniteSets

CONSTANTS Names, Hidden,     \* names, and those the library hides files under
          Node, Kind,        \* the files, and what each of them is
          Handles, None, Failed

Kinds == {"file", "fifo", "dir", "symlink"}
Paths == Names \cup Hidden

ASSUME MirrorAssumption ==
    /\ Names \cap Hidden = {} /\ Paths \cap Node = {}
    /\ None \notin Paths \cup Node /\ \A S \in SUBSET (Paths \cup Node) : S # Failed
    /\ Kind \in [Node -> Kinds]

VARIABLES
    program,    \* "fusexmp" or "encfs"; it stays what it is
    mounted,    \* the program is running
    entry,      \* the file of each path in the root and in the mirrored directory, or None
    at,         \* the path the library has for each handle, or None
    reply       \* the files or paths the last request got at, or Failed

vars == <<program, mounted, entry, at, reply>>

\* The directory that a path is completed with prepend_path to; fusexmp has none.
MutantPrefixed == "root"    \* Mutant: a path is passed on as it is.
Prefixed == IF program = "encfs" THEN "mirror" ELSE "root"

\* A path that is passed on as it is.
Raw == "root"

\* In the root there may be files with the same names as in the mirrored directory.
Init ==
    /\ program \in {"fusexmp", "encfs"}
    /\ mounted = TRUE
    /\ \E taken \in SUBSET Names, n \in Node :
          /\ Cardinality(taken) <= 1 /\ Kind[n] = "file"
          /\ entry = [d \in {"root", "mirror"} |-> [p \in Paths |->
                          IF d = "root" /\ p \in taken THEN n ELSE None]]
    /\ at = [h \in Handles |-> None]
    /\ reply = {}

Exists(d, p) == entry[d][p] # None
IsDir(d, p)  == Exists(d, p) /\ Kind[entry[d][p]] = "dir"

\* What the kernel has found in the mount.
Found(p) == Exists(Prefixed, p)

IsOpen(p) == \E h \in Handles : at[h] = p

\* The library's table of paths, with p renamed to q.
Follow(p, q) == [h \in Handles |-> IF at[h] = p THEN q ELSE at[h]]

-----------------------------------------------------------------------------
(* Requests that leave the names as they are *)

\* A call on the file of p, which must be of one of some kinds.
Call(p, kinds) ==
    /\ reply' = IF Found(p) /\ Kind[entry[Prefixed][p]] \in kinds THEN {entry[Prefixed][p]} ELSE Failed
    /\ UNCHANGED <<program, mounted, entry, at>>

xmp_getattr(p)  == Call(p, Kinds)
xmp_access(p)   == Call(p, Kinds)
xmp_readlink(p) == Call(p, {"symlink"})
xmp_chmod(p)    == Call(p, Kinds \ {"symlink"})
xmp_chown(p)    == Call(p, Kinds)
xmp_truncate(p) == Call(p, {"file"})
xmp_utimens(p)  == Call(p, Kinds \ {"symlink"})
xmp_statfs(p)   == Call(p, Kinds)
xmp_getxattr(p)    == Call(p, Kinds)
xmp_listxattr(p)   == Call(p, Kinds)
xmp_removexattr(p) == Call(p, Kinds)

\* pa5-encfs.c copies the path to where nothing is and is gone.
xmp_setxattr(p) ==
    IF program = "fusexmp" THEN Call(p, Kinds)
    ELSE /\ mounted' = FALSE /\ at' = [h \in Handles |-> None] /\ reply' = Failed
         /\ UNCHANGED <<program, entry>>

\* Hidden names are listed as well.
xmp_readdir ==
    /\ reply' = {p \in Paths : Found(p)}
    /\ UNCHANGED <<program, mounted, entry, at>>

-----------------------------------------------------------------------------
(* Requests that make and remove names *)

\* Path p of directory d leads to file n.
Entered(d, n, p) == entry' = [entry EXCEPT ![d][p] = n]

\* A file that is nowhere else.
Fresh(n) == \A d \in {"root", "mirror"}, p \in Paths : entry[d][p] # n

\* A new file of some kind, unless there is one already.
Create(d, p, kinds) ==
    /\ ~Found(p)
    /\ IF Exists(d, p) THEN reply' = Failed /\ UNCHANGED entry
       ELSE /\ \E n \in Node : Fresh(n) /\ Kind[n] \in kinds /\ Entered(d, n, p)
            /\ reply' = {}
    /\ UNCHANGED <<program, mounted, at>>

xmp_mknod(p)   == Create(Prefixed, p, {"file", "fifo"})
xmp_mkdir(p)   == Create(Prefixed, p, {"dir"})
xmp_symlink(p) == Create(Raw, p, {"symlink"})

xmp_link(p, q) ==
    /\ Found(p) /\ ~Found(q) /\ ~IsDir(Prefixed, p)
    /\ IF Exists(Raw, p) /\ ~Exists(Raw, q) /\ ~IsDir(Raw, p)
       THEN Entered(Raw, entry[Raw][p], q) /\ reply' = {}
       ELSE UNCHANGED entry /\ reply' = Failed
    /\ UNCHANGED <<program, mounted, at>>

\* What the host can rename: a directory replaces a directory, a file a file.
CanRename(d, p, q) == Exists(d, p) /\ (Exists(d, q) => IsDir(d, p) = IsDir(d, q))

MutantRenamed(e, p, q) == [e EXCEPT ![q] = e[p]]    \* Mutant: the old name stays.

\* Directory e of the host after rename(p, q): two names of one file stay.
Renamed(e, p, q) == IF e[p] = e[q] THEN e ELSE [e EXCEPT ![p] = None, ![q] = e[p]]

xmp_unlink(p) == entry' = [entry EXCEPT ![Prefixed][p] = None]

\* The library hides an open file; the request fails when that does.
Unlink(p) ==
    /\ Found(p) /\ ~IsDir(Prefixed, p)
    /\ IF ~IsOpen(p) THEN xmp_unlink(p) /\ UNCHANGED at /\ reply' = {}
       ELSE \E x \in Hidden :
              /\ ~IsOpen(x) /\ ~Found(x)
              /\ IF CanRename(Raw, p, x)
                 THEN /\ entry' = [entry EXCEPT ![Raw] = Renamed(@, p, x)]
                      /\ at' = Follow(p, x) /\ reply' = {}
                 ELSE UNCHANGED <<entry, at>> /\ reply' = Failed
    /\ UNCHANGED <<program, mounted>>

xmp_rmdir(p) ==
    /\ IsDir(Prefixed, p)
    /\ entry' = [entry EXCEPT ![Prefixed][p] = None]
    /\ reply' = {}
    /\ UNCHANGED <<program, mounted, at>>

xmp_rename(p, q) ==
    IF CanRename(Raw, p, q)
    THEN /\ entry' = [entry EXCEPT ![Raw] = Renamed(@, p, q)]
         /\ at' = Follow(p, q) /\ reply' = {}
    ELSE UNCHANGED <<entry, at>> /\ reply' = Failed

\* An open file that is to be replaced is hidden first.
Rename(p, q) ==
    /\ CanRename(Prefixed, p, q)
    /\ IF ~IsOpen(q) THEN xmp_rename(p, q)
       ELSE \E x \in Hidden :
              /\ ~IsOpen(x) /\ ~Found(x)
              /\ IF CanRename(Raw, q, x)
                 THEN LET e == Renamed(entry[Raw], q, x) IN
                      /\ entry' = [entry EXCEPT ![Raw] = IF e[p] # None THEN Renamed(e, p, q) ELSE e]
                      /\ at' = [h \in Handles |-> IF at[h] = q THEN x
                                                  ELSE IF e[p] # None THEN Follow(p, q)[h] ELSE at[h]]
                      /\ reply' = IF e[p] # None THEN {} ELSE Failed
                 ELSE reply' = Failed /\ UNCHANGED <<entry, at>>
    /\ UNCHANGED <<program, mounted>>

-----------------------------------------------------------------------------
(* Requests on handles *)

\* The file is opened and closed: the handle is the library's.
xmp_open(h, p) ==
    /\ at[h] = None /\ Found(p) /\ Kind[entry[Prefixed][p]] = "file"
    /\ at' = [at EXCEPT ![h] = p]
    /\ reply' = {entry[Prefixed][p]}
    /\ UNCHANGED <<program, mounted, entry>>

xmp_create(h, p) ==
    /\ at[h] = None /\ ~Found(p)
    /\ \E n \in Node : /\ Fresh(n) /\ Kind[n] = "file"
                       /\ Entered(Prefixed, n, p)
                       /\ reply' = {n}
    /\ at' = [at EXCEPT ![h] = p]
    /\ UNCHANGED <<program, mounted>>

\* The path is opened anew for every access.
xmp_read(h)  == at[h] # None /\ Call(at[h], {"file"})
xmp_write(h) == at[h] # None /\ Call(at[h], {"file"})
xmp_fsync(h) == at[h] # None /\ reply' = {} /\ UNCHANGED <<program, mounted, entry, at>>

\* Nothing is to be done: the handler is empty.
xmp_release == UNCHANGED entry

\* The library forgets the handle; if it was the last one of a hidden file, it has that
\* file unlinked.
Release(h) ==
    /\ at[h] # None
    /\ at' = [at EXCEPT ![h] = None]
    /\ IF at[h] \in Hidden /\ \A k \in Handles \ {h} : at[k] # at[h]
       THEN xmp_unlink(at[h]) ELSE xmp_release
    /\ reply' = {}
    /\ UNCHANGED <<program, mounted>>

-----------------------------------------------------------------------------
(* The handlers of fusexmp.c, which are the same but for the prefix *)

Lookups(p)     == xmp_getattr(p) \/ xmp_access(p) \/ xmp_readlink(p) \/ xmp_readdir
NewNames(p)    == xmp_mknod(p) \/ xmp_mkdir(p)
Removals(p)    == Unlink(p) \/ xmp_rmdir(p)
Moves(p, q)    == xmp_symlink(p) \/ Rename(p, q) \/ xmp_link(p, q)
Settings(p)    == xmp_chmod(p) \/ xmp_chown(p) \/ xmp_truncate(p) \/ xmp_utimens(p)
Opens(h, p)    == xmp_open(h, p) \/ xmp_create(h, p)
Accesses(h)    == xmp_read(h) \/ xmp_write(h)
Stubs(h)       == Release(h) \/ xmp_fsync(h)
Attributes(p)  == xmp_setxattr(p) \/ xmp_getxattr(p) \/ xmp_listxattr(p) \/ xmp_removexattr(p)

Next ==
    /\ mounted
    /\ \/ \E p \in Names :
             \/ Lookups(p) \/ NewNames(p) \/ Removals(p) \/ Settings(p) \/ xmp_statfs(p) \/ Attributes(p)
             \/ \E q \in Names \ {p} : Moves(p, q)
       \/ \E h \in Handles : Accesses(h) \/ Stubs(h) \/ \E p \in Names : Opens(h, p)

Spec == Init /\ [][Next]_vars

-----------------------------------------------------------------------------

TypeOK ==
    /\ program \in {"fusexmp", "encfs"} /\ mounted \in BOOLEAN
    /\ entry \in [{"root", "mirror"} -> [Paths -> Node \cup {None}]]
    /\ at \in [Handles -> Paths \cup {None}]

\* fusexmp is a directory to its users: though the path of a handle is looked up
\* anew for every access, it always leads to the file that was opened, and a
\* file whose name is gone is there until it is closed.
Users ==
    INSTANCE Directory WITH
        name <- [p \in Names |-> entry["root"][p]],
        open <- [h \in Handles |-> IF at[h] = None THEN None ELSE entry["root"][at[h]]]
ImplementsDirectory == Users!Init /\ [][program = "fusexmp" => Users!Next]_Users!directoryVars

\* A step that gets at no file of the root directory, and makes or changes none there.
StaysOutside ==
    /\ \A p \in Paths : reply' # Failed => entry["root"][p] \notin reply'
    /\ \A p \in Paths :
          LET n == entry'["root"][p] IN
          n # entry["root"][p] =>
              \/ n = None /\ \E q \in Paths \ {p} : entry'["root"][q] = entry["root"][p]
              \/ n # None /\ (Kind[n] = "symlink" \/ \E q \in Paths : entry["root"][q] = n)

\* pa5-encfs gets at no file outside the mirrored directory, and makes or
\* changes none there: what is in the root directory is only renamed (and with
\* that replaced), linked, or a new symbolic link.
OutsideUntouched == [][program = "encfs" => StaysOutside]_vars
=============================================================================
