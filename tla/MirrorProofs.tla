----------------------------- MODULE MirrorProofs -----------------------------
(***************************************************************************)
(* Proofs about the requests on names of fusexmp.c and pa5-encfs.c, alone  *)
(* and under the users of xattr-util.c, for any names, files and handles:  *)
(* fusexmp implements a directory, and pa5-encfs gets at nothing outside   *)
(* the mirrored directory.                                                 *)
(***************************************************************************)
EXTENDS XattrUtil, FiniteSetTheorems, TLAPS

\* No file is both in the root directory and in the mirrored one.
Apart == \A p, q \in Paths : entry["root"][p] = entry["mirror"][q] => entry["root"][p] = None

\* The path of a handle leads to a file.
HandlesLead ==
    program = "fusexmp" =>
        \A h \in Handles : at[h] # None => Exists("root", at[h]) /\ Kind[entry["root"][at[h]]] = "file"

\* What the library keeps of hidden files, on which the handles of unlinked files rest.
HiddenGoesAway ==
    program = "fusexmp" => \A x \in Hidden : Exists("root", x) <=> IsOpen(x)

Inv == TypeOK /\ Apart /\ HandlesLead /\ HiddenGoesAway

-----------------------------------------------------------------------------
(* What the requests do to the directories *)

Dirs == {"root", "mirror"}
Contents == [Paths -> Node \cup {None}]

LEMMA Names0 ==
  /\ Names \subseteq Paths /\ Hidden \subseteq Paths /\ \A p \in Names : p \notin Hidden
  /\ None \notin Paths /\ None \notin Node /\ Paths \cap Node = {}
  /\ Raw \in Dirs /\ Prefixed \in Dirs
  BY MirrorAssumption DEF Paths, Raw, Prefixed, Dirs

LEMMA EntryIs ==
  ASSUME TypeOK
  PROVE  /\ entry["root"] \in Contents /\ entry["mirror"] \in Contents
         /\ entry[Raw] = entry["root"]
         /\ entry[Prefixed] = entry[IF program = "encfs" THEN "mirror" ELSE "root"]
  BY DEF TypeOK, Contents, Raw, Prefixed

LEMMA EnteredIs ==
  ASSUME TypeOK, NEW d \in Dirs, NEW n \in Node \cup {None}, NEW p \in Paths,
         entry' = [entry EXCEPT ![d][p] = n]
  PROVE  /\ entry' \in [Dirs -> Contents]
         /\ entry'[d] = [entry[d] EXCEPT ![p] = n]
         /\ \A c \in Dirs \ {d} : entry'[c] = entry[c]
  BY DEF TypeOK, Dirs, Contents

LEMMA MovedIs ==
  ASSUME TypeOK, NEW e \in Contents, entry' = [entry EXCEPT ![Raw] = e]
  PROVE  /\ entry' \in [Dirs -> Contents]
         /\ entry'["root"] = e /\ entry'["mirror"] = entry["mirror"]
  BY DEF TypeOK, Dirs, Contents, Raw

LEMMA RenamedIs ==
  ASSUME NEW e \in Contents, NEW p \in Paths, NEW q \in Paths, p # q
  PROVE  /\ Renamed(e, p, q) \in Contents
         /\ e[p] = e[q] => Renamed(e, p, q) = e
         /\ e[p] # e[q] =>
               \A x \in Paths : Renamed(e, p, q)[x] =
                   IF x = q THEN e[p] ELSE IF x = p THEN None ELSE e[x]
  BY DEF Renamed, Contents

LEMMA FollowIs ==
  ASSUME TypeOK, NEW p, NEW q \in Paths
  PROVE  /\ Follow(p, q) \in [Handles -> Paths \cup {None}]
         /\ \A h \in Handles : Follow(p, q)[h] = IF at[h] = p THEN q ELSE at[h]
  BY DEF TypeOK, Follow

-----------------------------------------------------------------------------
(* A step keeps the two directories apart *)

\* What is new in the mirrored directory is new, what is new in the root directory is new
\* or was there before.
LEMMA ApartKeeps ==
  ASSUME Inv, entry' \in [Dirs -> Contents],
         \A q \in Paths :
            LET n == entry'["mirror"][q] IN n \in {entry["mirror"][q], None} \/ Fresh(n),
         \A p \in Paths :
            LET n == entry'["root"][p] IN
            n = None \/ Fresh(n) \/ \E x \in Paths : entry["root"][x] = n,
         \/ entry'["mirror"] = entry["mirror"]
         \/ \A p \in Paths : entry'["root"][p] \in {None, entry["root"][p]}
  PROVE  Apart'
  BY DEF Inv, Apart, Fresh

-----------------------------------------------------------------------------
(* The users of fusexmp see the steps of a directory *)

NameOf == [p \in Names |-> entry["root"][p]]
OpenOn == [h \in Handles |-> IF at[h] = None THEN None ELSE entry["root"][at[h]]]

LEMMA UserMakes ==
  ASSUME NEW p \in Names, NEW n \in Node, NameOf[p] = None, Fresh(n), TypeOK,
         NameOf' = [NameOf EXCEPT ![p] = n],
         \/ OpenOn' = OpenOn /\ reply' = {}
         \/ \E h \in Handles : OpenOn[h] = None /\ OpenOn' = [OpenOn EXCEPT ![h] = n] /\ reply' = {n}
  PROVE  Users!Next
<1>1. \A q \in Names : NameOf[q] # n
  BY Names0 DEF NameOf, Fresh
<1>2. \A h \in Handles : OpenOn[h] # n
  BY Names0 DEF OpenOn, Fresh, TypeOK
<1>3. Users!Make(p)
  BY <1>1, <1>2 DEF Users!Make, NameOf, OpenOn
<1>. QED
  BY <1>3 DEF Users!Next

LEMMA UserRemoves ==
  ASSUME NEW p \in Names, NameOf[p] # None, NameOf' = [NameOf EXCEPT ![p] = None],
         OpenOn' = OpenOn, reply' = {}
  PROVE  Users!Next
  BY DEF Users!Next, Users!Remove, NameOf, OpenOn

LEMMA UserRenames ==
  ASSUME NEW p \in Names, NEW q \in Names \ {p}, NameOf[p] # None,
         \/ NameOf' = [NameOf EXCEPT ![p] = None, ![q] = NameOf[p]]
         \/ NameOf[p] = NameOf[q] /\ NameOf' = NameOf,
         OpenOn' = OpenOn, reply' = {}
  PROVE  Users!Next
<1>1. Users!Rename(p, q)
  BY DEF Users!Rename, NameOf, OpenOn
<1>. QED
  BY <1>1 DEF Users!Next

LEMMA UserLinks ==
  ASSUME NEW p \in Names, NEW q \in Names \ {p}, NameOf[p] # None, NameOf[q] = None,
         NameOf' = [NameOf EXCEPT ![q] = NameOf[p]], OpenOn' = OpenOn, reply' = {}
  PROVE  Users!Next
<1>1. Users!Link(p, q)
  BY DEF Users!Link, NameOf, OpenOn
<1>. QED
  BY <1>1 DEF Users!Next

LEMMA UserOpens ==
  ASSUME NEW h \in Handles, NEW p \in Names, OpenOn[h] = None, NameOf[p] # None,
         OpenOn' = [OpenOn EXCEPT ![h] = NameOf[p]], NameOf' = NameOf, reply' = {NameOf[p]}
  PROVE  Users!Next
<1>1. Users!Open(h, p)
  BY DEF Users!Open, NameOf, OpenOn
<1>. QED
  BY <1>1 DEF Users!Next

LEMMA UserCloses ==
  ASSUME NEW h \in Handles, OpenOn[h] # None, OpenOn' = [OpenOn EXCEPT ![h] = None],
         NameOf' = NameOf, reply' = {}
  PROVE  Users!Next
<1>1. Users!Close(h)
  BY DEF Users!Close, NameOf, OpenOn
<1>. QED
  BY <1>1 DEF Users!Next

LEMMA UserAccesses ==
  ASSUME \/ reply' \in {{}, Failed}
         \/ \E p \in Names : NameOf[p] # None /\ reply' = {NameOf[p]}
         \/ \E h \in Handles : OpenOn[h] # None /\ reply' = {OpenOn[h]}
         \/ /\ reply' # Failed /\ reply' \cap Node = {}
            /\ reply' \cap Names = {p \in Names : NameOf[p] # None},
         NameOf' = NameOf, OpenOn' = OpenOn
  PROVE  Users!Next
<1>1. Users!Access
  BY DEF Users!Access, NameOf, OpenOn
<1>. QED
  BY <1>1 DEF Users!Next

\* A handle whose path moves along with its file stays open on it.
LEMMA HandlesStay ==
  ASSUME Inv, program' = program, at' \in [Handles -> Paths \cup {None}],
         \A h \in Handles :
            IF at[h] = None THEN at'[h] = None
            ELSE at'[h] \in Paths /\ entry'["root"][at'[h]] = entry["root"][at[h]]
  PROVE  OpenOn' = OpenOn /\ HandlesLead'
<1>1. OpenOn' = OpenOn
  BY Names0 DEF OpenOn, Inv, TypeOK
<1>2. HandlesLead'
  BY Names0 DEF HandlesLead, Exists, Inv, TypeOK
<1>. QED
  BY <1>1, <1>2

-----------------------------------------------------------------------------
(* Each request in turn *)

\* What is to be shown of a step.
Right ==
    /\ Inv'
    /\ program = "fusexmp" => Users!Next
    /\ program = "encfs" => StaysOutside

LEMMA NothingMoves ==
  ASSUME Inv, UNCHANGED <<program, mounted, entry, at>>
  PROVE  /\ Inv' /\ NameOf' = NameOf /\ OpenOn' = OpenOn
         /\ (\A p \in Paths : reply' # Failed => entry["root"][p] \notin reply') => StaysOutside
  BY DEF Inv, TypeOK, Apart, HandlesLead, HiddenGoesAway, Exists, IsOpen, NameOf, OpenOn, StaysOutside

\* A call on the file of a name, or on the path of a handle.
LEMMA CallIsRight ==
  ASSUME Inv, NEW p \in Paths, NEW kinds, Call(p, kinds),
         p \in Names \/ \E h \in Handles : at[h] = p
  PROVE  Right
<1>1. UNCHANGED <<program, mounted, entry, at>>
  BY DEF Call
<1>2. \/ reply' = Failed
      \/ entry[Prefixed][p] # None /\ reply' = {entry[Prefixed][p]}
  BY DEF Call, Found, Exists
<1>3. ASSUME program = "fusexmp" PROVE Users!Next
  <2>1. entry[Prefixed] = entry["root"]
    BY <1>3 DEF Prefixed
  <2>2. \/ reply' = Failed
        \/ \E q \in Names : NameOf[q] # None /\ reply' = {NameOf[q]}
        \/ \E h \in Handles : OpenOn[h] # None /\ reply' = {OpenOn[h]}
    BY <1>2, <2>1, Names0 DEF NameOf, OpenOn
  <2>. QED
    BY <1>1, <2>2, NothingMoves, UserAccesses
<1>4. ASSUME program = "encfs" PROVE StaysOutside
  <2>1. entry[Prefixed] = entry["mirror"]
    BY <1>4 DEF Prefixed
  <2>2. \A q \in Paths : reply' # Failed => entry["root"][q] \notin reply'
    BY <1>2, <2>1 DEF Inv, Apart
  <2>. QED
    BY <1>1, <2>2, NothingMoves
<1>. QED
  BY <1>1, <1>3, <1>4, NothingMoves DEF Right

LEMMA ReaddirIsRight ==
  ASSUME Inv, xmp_readdir
  PROVE  Right
<1>1. /\ UNCHANGED <<program, mounted, entry, at>>
      /\ reply' = {p \in Paths : entry[Prefixed][p] # None}
  BY DEF xmp_readdir, Found, Exists
<1>2. reply' # Failed /\ reply' \cap Node = {}
  BY <1>1, MirrorAssumption
<1>3. ASSUME program = "fusexmp" PROVE Users!Next
  <2>1. entry[Prefixed] = entry["root"]
    BY <1>3 DEF Prefixed
  <2>2. reply' \cap Names = {p \in Names : NameOf[p] # None}
    BY <1>1, <2>1, Names0 DEF NameOf
  <2>. QED
    BY <1>1, <1>2, <2>2, NothingMoves, UserAccesses
<1>4. \A q \in Paths : entry["root"][q] \notin reply'
  BY <1>1, Names0 DEF Inv, TypeOK
<1>. QED
  BY <1>1, <1>3, <1>4, NothingMoves DEF Right

\* pa5-encfs does not survive a setxattr.
LEMMA SetxattrIsRight ==
  ASSUME Inv, NEW p \in Names, xmp_setxattr(p)
  PROVE  Right
<1>1. CASE program = "fusexmp"
  BY <1>1, CallIsRight, Names0 DEF xmp_setxattr
<1>2. CASE program = "encfs"
  <2>1. /\ UNCHANGED <<program, entry>> /\ mounted' = FALSE
        /\ at' = [h \in Handles |-> None] /\ reply' = Failed
    BY <1>2 DEF xmp_setxattr
  <2>2. Inv'
    BY <1>2, <2>1 DEF Inv, TypeOK, Apart, HandlesLead, HiddenGoesAway
  <2>3. StaysOutside
    BY <2>1 DEF StaysOutside
  <2>. QED
    BY <1>2, <2>2, <2>3 DEF Right
<1>. QED
  BY <1>1, <1>2 DEF Inv, TypeOK

\* A request that fails changes nothing.
LEMMA FailureIsRight ==
  ASSUME Inv, UNCHANGED <<program, mounted, entry, at>>, reply' = Failed \/ reply' = {}
  PROVE  Right
<1>1. NameOf' = NameOf /\ OpenOn' = OpenOn /\ Inv'
  BY NothingMoves
<1>2. Users!Next
  BY <1>1, UserAccesses
<1>3. StaysOutside
  BY NothingMoves
<1>. QED
  BY <1>1, <1>2, <1>3 DEF Right

\* What holds of every request: the types, and what an invariant of fusexmp comes to.
LEMMA InvIs ==
  ASSUME Inv
  PROVE  /\ TypeOK /\ Apart /\ entry \in [Dirs -> Contents]
         /\ program = "fusexmp" => Prefixed = "root"
         /\ program = "encfs" => Prefixed = "mirror"
         /\ program \in {"fusexmp", "encfs"}
  BY DEF Inv, TypeOK, Prefixed, Dirs, Contents

LEMMA TypesAre ==
  ASSUME Inv, program' = program, mounted' \in BOOLEAN, entry' \in [Dirs -> Contents],
         at' \in [Handles -> Paths \cup {None}]
  PROVE  TypeOK'
  BY DEF Inv, TypeOK, Dirs, Contents

\* A free handle gets path p.
HandleOn(p) == \E h \in Handles : at[h] = None /\ at' = [at EXCEPT ![h] = p]

\* A new file under a free name; with a handle on it, perhaps.
LEMMA NewFileIsRight ==
  ASSUME Inv, NEW d \in Dirs, NEW p \in Names, NEW n \in Node, ~Found(p), ~Exists(d, p),
         Fresh(n), Entered(d, n, p), UNCHANGED <<program, mounted>>,
         \/ UNCHANGED at /\ reply' = {}
         \/ d = Prefixed /\ Kind[n] = "file" /\ reply' = {n} /\ HandleOn(p),
         d = Prefixed \/ (d = Raw /\ Kind[n] = "symlink" /\ reply' = {})
  PROVE  Right
<1>1. /\ entry' \in [Dirs -> Contents] /\ entry'[d] = [entry[d] EXCEPT ![p] = n]
      /\ \A c \in Dirs \ {d} : entry'[c] = entry[c]
      /\ p \in Paths /\ p \notin Hidden /\ n # None
  BY EnteredIs, InvIs, Names0 DEF Entered
<1>2. at' \in [Handles -> Paths \cup {None}]
  BY <1>1 DEF Inv, TypeOK, HandleOn
<1>3. TypeOK'
  BY <1>1, <1>2, TypesAre DEF Inv, TypeOK
<1>4. Apart'
  <2>1. CASE d = "mirror"
    BY <1>1, <2>1, ApartKeeps DEF Dirs, Inv, TypeOK
  <2>2. CASE d = "root"
    BY <1>1, <2>2, ApartKeeps DEF Dirs, Inv, TypeOK
  <2>. QED
    BY <2>1, <2>2 DEF Dirs
<1>5. ASSUME program = "fusexmp" PROVE Users!Next /\ HandlesLead' /\ HiddenGoesAway'
  <2>1. d = "root"
    BY <1>5, InvIs DEF Raw
  <2>2. /\ entry["root"][p] = None
        /\ entry'["root"] = [entry["root"] EXCEPT ![p] = n]
        /\ \A x \in Paths : entry'["root"][x] = IF x = p THEN n ELSE entry["root"][x]
    BY <1>1, <2>1, EntryIs, InvIs DEF Exists, Contents
  <2>3. NameOf' = [NameOf EXCEPT ![p] = n] /\ NameOf[p] = None
    BY <2>2, Names0 DEF NameOf
  <2>4. \A h \in Handles : at[h] # None =>
           at[h] \in Paths \ {p} /\ entry'["root"][at[h]] = entry["root"][at[h]]
    BY <1>5, <2>2 DEF Inv, TypeOK, HandlesLead, Exists
  <2>5. HiddenGoesAway'
    <3>1. ASSUME NEW x \in Hidden PROVE Exists("root", x)' <=> IsOpen(x)'
      <4>1. Exists("root", x)' <=> Exists("root", x)
        BY <1>1, <2>2, Names0 DEF Exists
      <4>2. IsOpen(x)' <=> IsOpen(x)
        BY <1>1, Names0 DEF Inv, TypeOK, IsOpen, HandleOn
      <4>. QED
        BY <1>5, <4>1, <4>2 DEF Inv, HiddenGoesAway
    <3>. QED
      BY <3>1 DEF HiddenGoesAway
  <2>6. CASE UNCHANGED at /\ reply' = {}
    <3>1. OpenOn' = OpenOn /\ HandlesLead'
      BY <1>2, <2>4, <2>6, HandlesStay
    <3>. QED
      BY <2>3, <2>5, <2>6, <3>1, UserMakes DEF Inv
  <2>7. ASSUME NEW h \in Handles, at[h] = None, at' = [at EXCEPT ![h] = p],
               reply' = {n}, Kind[n] = "file"
        PROVE  Users!Next /\ HandlesLead' /\ HiddenGoesAway'
    <3>1. OpenOn[h] = None /\ OpenOn' = [OpenOn EXCEPT ![h] = n]
      <4>1. \A g \in Handles : at'[g] = IF g = h THEN p ELSE at[g]
        BY <2>7 DEF Inv, TypeOK
      <4>2. p # None /\ entry'["root"][p] = n
        BY <1>1, <2>2, Names0
      <4>3. \A g \in Handles :
               (IF at'[g] = None THEN None ELSE entry'["root"][at'[g]])
                 = IF g = h THEN n ELSE IF at[g] = None THEN None ELSE entry["root"][at[g]]
        BY <2>4, <4>1, <4>2
      <4>4. /\ OpenOn = [g \in Handles |-> OpenOn[g]]
            /\ \A g \in Handles : OpenOn[g] = IF at[g] = None THEN None ELSE entry["root"][at[g]]
            /\ OpenOn' = [g \in Handles |-> IF at'[g] = None THEN None ELSE entry'["root"][at'[g]]]
        BY DEF OpenOn
      <4>5. OpenOn' = [g \in Handles |-> IF g = h THEN n ELSE OpenOn[g]]
        BY <4>3, <4>4
      <4>6. OpenOn[h] = None
        BY <2>7, <4>4
      <4>. QED
        BY <4>4, <4>5, <4>6
    <3>2. HandlesLead'
      BY <1>1, <2>2, <2>4, <2>7 DEF HandlesLead, Exists, Inv, TypeOK
    <3>. QED
      BY <2>3, <2>5, <2>7, <3>1, <3>2, UserMakes DEF Inv
  <2>. QED
    BY <2>6, <2>7 DEF HandleOn
<1>6. ASSUME program = "encfs" PROVE StaysOutside /\ HandlesLead' /\ HiddenGoesAway'
  <2>1. HandlesLead' /\ HiddenGoesAway'
    BY <1>6 DEF HandlesLead, HiddenGoesAway
  <2>2. \A q \in Paths : entry["root"][q] \notin reply'
    BY DEF Fresh
  <2>3. CASE d = "mirror"
    BY <1>1, <2>1, <2>2, <2>3 DEF StaysOutside, Dirs
  <2>4. CASE d = "root"
    <3>1. Kind[n] = "symlink"
      BY <1>6, <2>4, InvIs
    <3>. QED
      BY <1>1, <2>1, <2>2, <2>4, <3>1, EntryIs, InvIs DEF StaysOutside, Contents
  <2>. QED
    BY <2>1, <2>3, <2>4 DEF Dirs
<1>. QED
  BY <1>3, <1>4, <1>5, <1>6, InvIs DEF Right, Inv

LEMMA CreateIsRight ==
  ASSUME Inv, NEW d \in Dirs, NEW p \in Names, NEW kinds, Create(d, p, kinds),
         d = Prefixed \/ (d = Raw /\ kinds = {"symlink"})
  PROVE  Right
<1>1. CASE Exists(d, p)
  BY <1>1, FailureIsRight DEF Create
<1>2. CASE ~Exists(d, p)
  <2>1. PICK n \in Node : Fresh(n) /\ Kind[n] \in kinds /\ Entered(d, n, p)
    BY <1>2 DEF Create
  <2>. QED
    BY <1>2, <2>1, NewFileIsRight DEF Create
<1>. QED
  BY <1>1, <1>2

LEMMA CreateOpenIsRight ==
  ASSUME Inv, NEW h \in Handles, NEW p \in Names, xmp_create(h, p)
  PROVE  Right
<1>1. PICK d \in Dirs : d = Prefixed
  BY Names0
<1>2. PICK n \in Node : Fresh(n) /\ Kind[n] = "file" /\ Entered(d, n, p) /\ reply' = {n}
  BY <1>1 DEF xmp_create, Entered
<1>3. ~Found(p) /\ ~Exists(d, p) /\ UNCHANGED <<program, mounted>>
  BY <1>1 DEF xmp_create, Found, Exists
<1>4. HandleOn(p)
  BY DEF xmp_create, HandleOn
<1>. QED
  BY <1>1, <1>2, <1>3, <1>4, NewFileIsRight

\* A name goes, of a file no handle is on.
LEMMA RemovalIsRight ==
  ASSUME Inv, NEW p \in Names, Found(p), entry' = [entry EXCEPT ![Prefixed][p] = None],
         ~IsOpen(p) \/ IsDir(Prefixed, p), UNCHANGED <<program, mounted, at>>, reply' = {}
  PROVE  Right
<1>1. /\ entry' \in [Dirs -> Contents]
      /\ entry'[Prefixed] = [entry[Prefixed] EXCEPT ![p] = None]
      /\ \A c \in Dirs \ {Prefixed} : entry'[c] = entry[c]
      /\ p \in Paths /\ p \notin Hidden
  BY EnteredIs, InvIs, Names0
<1>2. TypeOK'
  BY <1>1, TypesAre DEF Inv, TypeOK
<1>3. CASE program = "fusexmp"
  <2>1. /\ Prefixed = "root" /\ entry["root"][p] # None
        /\ entry'["mirror"] = entry["mirror"]
        /\ \A x \in Paths : entry'["root"][x] = IF x = p THEN None ELSE entry["root"][x]
    BY <1>1, <1>3, EntryIs, InvIs DEF Found, Exists, Contents, Dirs
  <2>2. Apart'
    BY <2>1 DEF Inv, Apart
  <2>3. NameOf[p] # None /\ NameOf' = [NameOf EXCEPT ![p] = None]
    BY <2>1, Names0 DEF NameOf
  <2>4. \A h \in Handles : at[h] # p
    BY <1>3, <2>1, Names0 DEF IsOpen, IsDir, Exists, Inv, HandlesLead
  <2>5. OpenOn' = OpenOn /\ HandlesLead'
    BY <2>1, <2>4, HandlesStay DEF Inv, TypeOK
  <2>6. HiddenGoesAway'
    BY <1>1, <2>1, Names0 DEF Inv, HiddenGoesAway, Exists, IsOpen
  <2>. QED
    BY <1>2, <1>3, <2>2, <2>3, <2>5, <2>6, UserRemoves DEF Right, Inv
<1>4. CASE program = "encfs"
  <2>1. /\ entry'["root"] = entry["root"]
        /\ \A x \in Paths : entry'["mirror"][x] \in {entry["mirror"][x], None}
    BY <1>1, <1>4, EntryIs, InvIs DEF Contents, Dirs
  <2>2. Apart'
    BY <2>1 DEF Inv, Apart
  <2>3. StaysOutside
    BY <2>1 DEF StaysOutside
  <2>4. HandlesLead' /\ HiddenGoesAway'
    BY <1>4 DEF HandlesLead, HiddenGoesAway
  <2>. QED
    BY <1>2, <1>4, <2>2, <2>3, <2>4 DEF Right, Inv
<1>. QED
  BY <1>3, <1>4, InvIs

LEMMA LinkIsRight ==
  ASSUME Inv, NEW p \in Names, NEW q \in Names \ {p}, xmp_link(p, q)
  PROVE  Right
<1>1. CASE ~(Exists(Raw, p) /\ ~Exists(Raw, q) /\ ~IsDir(Raw, p))
  BY <1>1, FailureIsRight DEF xmp_link
<1>2. CASE Exists(Raw, p) /\ ~Exists(Raw, q) /\ ~IsDir(Raw, p)
  <2>1. /\ entry["root"][p] \in Node /\ entry["root"][q] = None
        /\ Entered(Raw, entry["root"][p], q) /\ reply' = {} /\ UNCHANGED <<program, mounted, at>>
    BY <1>2, Names0, EntryIs, InvIs DEF xmp_link, Exists, Raw, Contents
  <2>2. /\ entry' \in [Dirs -> Contents] /\ entry'["mirror"] = entry["mirror"]
        /\ \A x \in Paths : entry'["root"][x] = IF x = q THEN entry["root"][p] ELSE entry["root"][x]
    BY <2>1, EnteredIs, EntryIs, InvIs, Names0 DEF Entered, Raw, Dirs, Contents
  <2>3. TypeOK' /\ Apart'
    BY <2>1, <2>2, TypesAre, Names0 DEF Inv, TypeOK, Apart
  <2>4. ASSUME program = "fusexmp" PROVE HandlesLead' /\ HiddenGoesAway' /\ Users!Next
    <3>1. \A h \in Handles : at[h] # q
      BY <2>1, <2>4, Names0 DEF Inv, HandlesLead, Exists
    <3>2. OpenOn' = OpenOn /\ HandlesLead'
      BY <2>1, <2>2, <3>1, HandlesStay, Names0 DEF Inv, TypeOK
    <3>3. HiddenGoesAway'
      BY <2>1, <2>2, Names0 DEF Inv, HiddenGoesAway, Exists, IsOpen
    <3>4. /\ NameOf[p] # None /\ NameOf[q] = None
          /\ NameOf' = [NameOf EXCEPT ![q] = NameOf[p]]
      BY <2>1, <2>2, Names0 DEF NameOf
    <3>. QED
      BY <2>1, <3>2, <3>3, <3>4, UserLinks
  <2>5. ASSUME program = "encfs" PROVE HandlesLead' /\ HiddenGoesAway' /\ StaysOutside
    BY <2>1, <2>2, <2>5, Names0 DEF HandlesLead, HiddenGoesAway, StaysOutside
  <2>. QED
    BY <2>3, <2>4, <2>5, InvIs DEF Right, Inv
<1>. QED
  BY <1>1, <1>2

\* An open file gets a hidden name.
LEMMA HideIsRight ==
  ASSUME Inv, NEW p \in Names, NEW x \in Hidden, Found(p), IsOpen(p), ~IsOpen(x), ~Found(x),
         CanRename(Raw, p, x), entry' = [entry EXCEPT ![Raw] = Renamed(@, p, x)],
         at' = Follow(p, x), reply' = {}, UNCHANGED <<program, mounted>>
  PROVE  Right
<1>1. /\ p \in Paths /\ x \in Paths /\ p # x /\ p # None /\ x # None /\ p \notin Hidden /\ x \notin Names
      /\ entry["root"] \in Contents /\ Renamed(entry["root"], p, x) \in Contents
  BY Names0, EntryIs, InvIs, RenamedIs
<1>2. /\ entry' \in [Dirs -> Contents] /\ entry'["mirror"] = entry["mirror"]
      /\ entry'["root"] = Renamed(entry["root"], p, x)
  BY <1>1, MovedIs, EntryIs, InvIs
<1>3. /\ at' \in [Handles -> Paths \cup {None}]
      /\ \A h \in Handles : at'[h] = IF at[h] = p THEN x ELSE at[h]
  BY <1>1, FollowIs, InvIs
<1>4. TypeOK'
  BY <1>2, <1>3, TypesAre DEF Inv, TypeOK
<1>5. \A y \in Paths : \E z \in Paths : entry'["root"][y] \in {None, entry["root"][z]}
  BY <1>1, <1>2, RenamedIs
<1>6. Apart'
  BY <1>2, <1>5 DEF Inv, Apart
<1>7. CASE program = "fusexmp"
  <2>1. entry["root"][p] # None /\ entry["root"][x] = None
    BY <1>7, InvIs DEF Found, Exists
  <2>2. \A y \in Paths : entry'["root"][y] =
           IF y = x THEN entry["root"][p] ELSE IF y = p THEN None ELSE entry["root"][y]
    BY <1>1, <1>2, <2>1, RenamedIs
  <2>3. \A h \in Handles : at[h] # x
    BY DEF IsOpen
  <2>4. OpenOn' = OpenOn /\ HandlesLead'
    BY <1>1, <1>3, <2>2, <2>3, HandlesStay DEF Inv, TypeOK
  <2>5. NameOf[p] # None /\ NameOf' = [NameOf EXCEPT ![p] = None]
    BY <1>1, <2>1, <2>2, Names0 DEF NameOf
  <2>6. ASSUME NEW y \in Hidden PROVE Exists("root", y)' <=> IsOpen(y)'
    <3>1. CASE y = x
      <4>1. Exists("root", y)'
        BY <1>1, <2>1, <2>2, <3>1 DEF Exists
      <4>2. IsOpen(y)'
        BY <1>3, <3>1 DEF IsOpen
      <4>. QED
        BY <4>1, <4>2
    <3>2. CASE y # x
      <4>1. Exists("root", y)' <=> Exists("root", y)
        BY <1>1, <2>2, <3>2, Names0 DEF Exists
      <4>2. IsOpen(y)' <=> IsOpen(y)
        BY <1>1, <1>3, <3>2 DEF IsOpen
      <4>. QED
        BY <1>7, <4>1, <4>2 DEF Inv, HiddenGoesAway
    <3>. QED
      BY <3>1, <3>2
  <2>7. HiddenGoesAway'
    BY <2>6 DEF HiddenGoesAway
  <2>. QED
    BY <1>4, <1>6, <1>7, <2>4, <2>5, <2>7, UserRemoves DEF Right, Inv
<1>8. CASE program = "encfs"
  <2>1. HandlesLead' /\ HiddenGoesAway'
    BY <1>8 DEF HandlesLead, HiddenGoesAway
  <2>2. StaysOutside
    <3>1. CASE entry["root"][p] = entry["root"][x]
      BY <1>1, <1>2, <3>1, RenamedIs DEF StaysOutside
    <3>2. CASE entry["root"][p] # entry["root"][x]
      <4>1. \A y \in Paths : entry'["root"][y] =
              IF y = x THEN entry["root"][p] ELSE IF y = p THEN None ELSE entry["root"][y]
        BY <1>1, <1>2, <3>2, RenamedIs
      <4>2. entry["root"][p] # None
        BY DEF CanRename, Exists, Raw
      <4>. QED
        BY <1>1, <4>1, <4>2 DEF StaysOutside
    <3>. QED
      BY <3>1, <3>2
  <2>. QED
    BY <1>4, <1>6, <1>8, <2>1, <2>2 DEF Right, Inv
<1>. QED
  BY <1>7, <1>8, InvIs

LEMMA UnlinkIsRight ==
  ASSUME Inv, NEW p \in Names, Unlink(p)
  PROVE  Right
<1>1. CASE ~IsOpen(p)
  BY <1>1, RemovalIsRight DEF Unlink, xmp_unlink
<1>2. CASE IsOpen(p)
  <2>1. PICK x \in Hidden :
           /\ ~IsOpen(x) /\ ~Found(x)
           /\ IF CanRename(Raw, p, x)
              THEN /\ entry' = [entry EXCEPT ![Raw] = Renamed(@, p, x)]
                   /\ at' = Follow(p, x) /\ reply' = {}
              ELSE UNCHANGED <<entry, at>> /\ reply' = Failed
    BY <1>2 DEF Unlink
  <2>2. CASE CanRename(Raw, p, x)
    BY <1>2, <2>1, <2>2, HideIsRight DEF Unlink
  <2>3. CASE ~CanRename(Raw, p, x)
    BY <2>1, <2>3, FailureIsRight DEF Unlink
  <2>. QED
    BY <2>2, <2>3
<1>. QED
  BY <1>1, <1>2

LEMMA OpenIsRight ==
  ASSUME Inv, NEW h \in Handles, NEW p \in Names, xmp_open(h, p)
  PROVE  Right
<1>1. /\ at[h] = None /\ Found(p) /\ Kind[entry[Prefixed][p]] = "file"
      /\ at' = [at EXCEPT ![h] = p] /\ reply' = {entry[Prefixed][p]}
      /\ UNCHANGED <<program, mounted, entry>>
      /\ p \in Paths /\ p \notin Hidden /\ p # None
  BY Names0 DEF xmp_open
<1>2. /\ \A g \in Handles : at'[g] = IF g = h THEN p ELSE at[g]
      /\ at' \in [Handles -> Paths \cup {None}]
  BY <1>1 DEF Inv, TypeOK
<1>3. TypeOK' /\ Apart'
  BY <1>1, <1>2 DEF Inv, TypeOK, Apart
<1>4. CASE program = "fusexmp"
  <2>1. entry["root"][p] # None /\ Kind[entry["root"][p]] = "file" /\ reply' = {entry["root"][p]}
    BY <1>1, <1>4, InvIs DEF Found, Exists
  <2>2. HandlesLead'
    BY <1>1, <1>2, <1>4, <2>1 DEF Inv, HandlesLead, Exists
  <2>3. \A x \in Hidden : IsOpen(x)' <=> IsOpen(x)
    BY <1>1, <1>2, Names0 DEF IsOpen
  <2>4. HiddenGoesAway'
    BY <1>1, <2>3 DEF Inv, HiddenGoesAway, Exists
  <2>5. NameOf' = NameOf /\ NameOf[p] = entry["root"][p]
    BY <1>1 DEF NameOf
  <2>6. OpenOn[h] = None /\ OpenOn' = [OpenOn EXCEPT ![h] = NameOf[p]]
    <3>1. /\ OpenOn = [g \in Handles |-> OpenOn[g]]
          /\ \A g \in Handles : OpenOn[g] = IF at[g] = None THEN None ELSE entry["root"][at[g]]
          /\ OpenOn' = [g \in Handles |-> IF at'[g] = None THEN None ELSE entry'["root"][at'[g]]]
      BY DEF OpenOn
    <3>2. \A g \in Handles : (IF at'[g] = None THEN None ELSE entry'["root"][at'[g]])
                                = IF g = h THEN NameOf[p] ELSE OpenOn[g]
      BY <1>1, <1>2, <2>5, <3>1
    <3>3. OpenOn' = [g \in Handles |-> IF g = h THEN NameOf[p] ELSE OpenOn[g]]
      BY <3>1, <3>2
    <3>4. OpenOn[h] = None
      BY <1>1, <3>1
    <3>. QED
      BY <3>1, <3>3, <3>4
  <2>. QED
    BY <1>3, <1>4, <2>1, <2>2, <2>4, <2>5, <2>6, UserOpens DEF Right, Inv
<1>5. CASE program = "encfs"
  <2>1. HandlesLead' /\ HiddenGoesAway'
    BY <1>1, <1>5 DEF HandlesLead, HiddenGoesAway
  <2>2. entry[Prefixed] = entry["mirror"] /\ entry["mirror"][p] # None
    BY <1>1, <1>5, InvIs DEF Found, Exists
  <2>3. StaysOutside
    BY <1>1, <2>2 DEF Inv, Apart, StaysOutside
  <2>. QED
    BY <1>3, <1>5, <2>1, <2>3 DEF Right, Inv
<1>. QED
  BY <1>4, <1>5, InvIs

\* The last handle of a hidden file takes it along; no other handle is on it.
LEMMA ReleaseIsRight ==
  ASSUME Inv, NEW h \in Handles, Release(h)
  PROVE  Right
<1>. DEFINE Last == at[h] \in Hidden /\ \A k \in Handles \ {h} : at[k] # at[h]
<1>1. /\ at[h] \in Paths /\ at' = [at EXCEPT ![h] = None] /\ reply' = {}
      /\ UNCHANGED <<program, mounted>>
      /\ entry' = IF Last THEN [entry EXCEPT ![Prefixed][at[h]] = None] ELSE entry
  BY DEF Release, xmp_release, xmp_unlink, Inv, TypeOK
<1>2. /\ \A g \in Handles : at'[g] = IF g = h THEN None ELSE at[g]
      /\ at' \in [Handles -> Paths \cup {None}]
  BY <1>1 DEF Inv, TypeOK
<1>3. PICK p \in Paths : p = at[h]
  BY <1>1
<1>4. /\ entry' \in [Dirs -> Contents]
      /\ \A c \in Dirs, x \in Paths :
            entry'[c][x] = IF Last /\ c = Prefixed /\ x = p THEN None ELSE entry[c][x]
  <2>1. CASE Last
    <3>1. /\ entry' \in [Dirs -> Contents]
          /\ entry'[Prefixed] = [entry[Prefixed] EXCEPT ![p] = None]
          /\ \A c \in Dirs \ {Prefixed} : entry'[c] = entry[c]
      BY <1>1, <1>3, <2>1, EnteredIs, InvIs, Names0
    <3>2. \A c \in Dirs : entry[c] \in Contents
      BY InvIs
    <3>. QED
      BY <2>1, <3>1, <3>2 DEF Contents
  <2>2. CASE ~Last
    BY <1>1, <2>2, InvIs
  <2>. QED
    BY <2>1, <2>2
<1>5. TypeOK'
  BY <1>1, <1>2, <1>4, TypesAre DEF Inv, TypeOK
<1>6. Apart'
  BY <1>4 DEF Inv, Apart, Dirs
<1>7. CASE program = "fusexmp"
  <2>1. \A x \in Paths : entry'["root"][x] = IF Last /\ x = p THEN None ELSE entry["root"][x]
    BY <1>4, <1>7, InvIs DEF Dirs
  <2>2. NameOf' = NameOf
    BY <1>3, <2>1, Names0 DEF NameOf
  <2>3. \A g \in Handles \ {h} : at[g] # None => entry'["root"][at[g]] = entry["root"][at[g]]
    BY <1>3, <2>1 DEF Inv, TypeOK
  <2>4. HandlesLead'
    BY <1>1, <1>2, <1>7, <2>3 DEF Inv, HandlesLead, Exists, TypeOK
  <2>5. OpenOn[h] # None /\ OpenOn' = [OpenOn EXCEPT ![h] = None]
    <3>1. /\ OpenOn = [g \in Handles |-> OpenOn[g]]
          /\ \A g \in Handles : OpenOn[g] = IF at[g] = None THEN None ELSE entry["root"][at[g]]
          /\ OpenOn' = [g \in Handles |-> IF at'[g] = None THEN None ELSE entry'["root"][at'[g]]]
      BY DEF OpenOn
    <3>2. \A g \in Handles : (IF at'[g] = None THEN None ELSE entry'["root"][at'[g]])
                                = IF g = h THEN None ELSE OpenOn[g]
      BY <1>2, <2>3, <3>1
    <3>3. OpenOn' = [g \in Handles |-> IF g = h THEN None ELSE OpenOn[g]]
      BY <3>1, <3>2
    <3>4. OpenOn[h] # None
      BY <1>1, <1>7, <3>1, Names0 DEF Inv, HandlesLead, Exists
    <3>. QED
      BY <3>1, <3>3, <3>4
  <2>6. ASSUME NEW x \in Hidden PROVE Exists("root", x)' <=> IsOpen(x)'
    <3>1. x \in Paths /\ (Exists("root", x) <=> IsOpen(x))
      BY <1>7, Names0 DEF Inv, HiddenGoesAway
    <3>2. CASE x # p
      <4>1. IsOpen(x)' <=> IsOpen(x)
        BY <1>2, <1>3, <3>1, <3>2, Names0 DEF IsOpen
      <4>. QED
        BY <2>1, <3>1, <3>2, <4>1 DEF Exists
    <3>3. CASE x = p
      <4>1. IsOpen(x)' <=> \E k \in Handles \ {h} : at[k] = p
        BY <1>2, <3>1, <3>3, Names0 DEF IsOpen
      <4>2. IsOpen(x) /\ Exists("root", x)
        BY <1>3, <3>1, <3>3 DEF IsOpen
      <4>3. Last <=> ~\E k \in Handles \ {h} : at[k] = p
        BY <1>3, <3>3
      <4>. QED
        BY <2>1, <3>1, <3>3, <4>1, <4>2, <4>3 DEF Exists
    <3>. QED
      BY <3>2, <3>3
  <2>7. HiddenGoesAway'
    BY <2>6 DEF HiddenGoesAway
  <2>. QED
    BY <1>1, <1>5, <1>6, <1>7, <2>2, <2>4, <2>5, <2>7, UserCloses DEF Right, Inv
<1>8. CASE program = "encfs"
  <2>1. HandlesLead' /\ HiddenGoesAway'
    BY <1>1, <1>8 DEF HandlesLead, HiddenGoesAway
  <2>2. \A x \in Paths : entry'["root"][x] = entry["root"][x]
    BY <1>4, <1>8, InvIs DEF Dirs
  <2>3. StaysOutside
    BY <1>1, <2>2 DEF StaysOutside
  <2>. QED
    BY <1>5, <1>6, <1>8, <2>1, <2>3 DEF Right, Inv
<1>. QED
  BY <1>7, <1>8, InvIs

\* Names in the root directory are moved: no file is new there, and none is gone but
\* those that another one replaces.
LEMMA MoveIsOutside ==
  ASSUME Inv, NEW e \in Contents, entry' = [entry EXCEPT ![Raw] = e],
         at' \in [Handles -> Paths \cup {None}], UNCHANGED <<program, mounted>>,
         reply' \in {{}, Failed},
         \A y \in Paths : e[y] # None => \E z \in Paths : entry["root"][z] = e[y],
         \A y \in Paths :
            e[y] = None /\ entry["root"][y] # None => \E z \in Paths \ {y} : e[z] = entry["root"][y]
  PROVE  TypeOK' /\ Apart' /\ StaysOutside
<1>1. /\ entry' \in [Dirs -> Contents] /\ entry'["root"] = e
      /\ entry'["mirror"] = entry["mirror"]
  BY MovedIs, InvIs
<1>2. TypeOK'
  BY <1>1, TypesAre DEF Inv, TypeOK
<1>3. Apart'
  BY <1>1 DEF Inv, Apart
<1>4. StaysOutside
  BY <1>1 DEF StaysOutside
<1>. QED
  BY <1>2, <1>3, <1>4

\* The name moves alone: nobody has the file that is replaced open.
LEMMA PlainRenameIsRight ==
  ASSUME Inv, NEW p \in Names, NEW q \in Names \ {p}, Found(p), ~IsOpen(q),
         CanRename(Raw, p, q), entry' = [entry EXCEPT ![Raw] = Renamed(@, p, q)],
         at' = Follow(p, q), reply' = {}, UNCHANGED <<program, mounted>>
  PROVE  Right
<1>. DEFINE r == entry["root"]
            e == Renamed(r, p, q)
<1>1. /\ p \in Paths /\ q \in Paths /\ p # q /\ p # None /\ q # None
      /\ p \notin Hidden /\ q \notin Hidden
      /\ r \in Contents /\ e \in Contents /\ r[p] # None
  BY Names0, EntryIs, InvIs, RenamedIs DEF CanRename, Exists, Raw
<1>2. /\ at' \in [Handles -> Paths \cup {None}]
      /\ \A h \in Handles : at'[h] = IF at[h] = p THEN q ELSE at[h]
  BY <1>1, FollowIs, InvIs
<1>3. entry' = [entry EXCEPT ![Raw] = e] /\ entry'["root"] = e
  BY <1>1, EntryIs, MovedIs, InvIs
<1>4. /\ e[q] = r[p]
      /\ \A y \in Paths \ {p, q} : e[y] = r[y]
      /\ \/ e[p] = None
         \/ e = r /\ r[p] = r[q]
  BY <1>1, RenamedIs
<1>5. TypeOK' /\ Apart' /\ StaysOutside
  <2>1. \A y \in Paths : e[y] # None => \E z \in Paths : r[z] = e[y]
    BY <1>1, <1>4
  <2>2. \A y \in Paths : e[y] = None /\ r[y] # None => \E z \in Paths \ {y} : e[z] = r[y]
    BY <1>1, <1>4
  <2>. HIDE DEF e
  <2>. QED
    BY <1>1, <1>2, <1>3, <2>1, <2>2, MoveIsOutside
<1>6. ASSUME program = "fusexmp" PROVE Users!Next /\ HandlesLead' /\ HiddenGoesAway'
  <2>1. \A h \in Handles : at[h] # q
    BY DEF IsOpen
  <2>2. \A h \in Handles : at[h] # None => at'[h] \in Paths /\ e[at'[h]] = r[at[h]]
    BY <1>1, <1>2, <1>4, <2>1 DEF Inv, TypeOK
  <2>3. OpenOn' = OpenOn /\ HandlesLead'
    BY <1>1, <1>2, <1>3, <2>2, HandlesStay
  <2>4. \A x \in Hidden : (IsOpen(x)' <=> IsOpen(x)) /\ (Exists("root", x)' <=> Exists("root", x))
    BY <1>1, <1>2, <1>3, <1>4, Names0 DEF IsOpen, Exists
  <2>5. HiddenGoesAway'
    BY <1>6, <2>4 DEF Inv, HiddenGoesAway
  <2>6. CASE e[p] = None
    <3>1. NameOf[p] # None /\ NameOf' = [NameOf EXCEPT ![p] = None, ![q] = NameOf[p]]
      BY <1>1, <1>3, <1>4, <2>6, Names0 DEF NameOf
    <3>. QED
      BY <2>3, <2>5, <3>1, UserRenames
  <2>7. CASE e = r /\ r[p] = r[q]
    <3>1. NameOf[p] # None /\ NameOf[p] = NameOf[q] /\ NameOf' = NameOf
      BY <1>1, <1>3, <2>7, Names0 DEF NameOf
    <3>. QED
      BY <2>3, <2>5, <3>1, UserRenames
  <2>. QED
    BY <1>4, <2>6, <2>7
<1>7. ASSUME program = "encfs" PROVE HandlesLead' /\ HiddenGoesAway'
  BY <1>7 DEF HandlesLead, HiddenGoesAway
<1>. QED
  BY <1>5, <1>6, <1>7, InvIs DEF Right, Inv

\* The file that is replaced is open, and goes on under a hidden name.
LEMMA HidingRenameIsRight ==
  ASSUME Inv, NEW p \in Names, NEW q \in Names \ {p}, NEW x \in Hidden,
         Found(p), IsOpen(q), ~IsOpen(x), ~Found(x), CanRename(Raw, q, x),
         NEW e, e = Renamed(entry["root"], q, x),
         entry' = [entry EXCEPT ![Raw] = IF e[p] # None THEN Renamed(e, p, q) ELSE e],
         at' = [h \in Handles |-> IF at[h] = q THEN x
                                  ELSE IF e[p] # None THEN Follow(p, q)[h] ELSE at[h]],
         reply' = IF e[p] # None THEN {} ELSE Failed,
         UNCHANGED <<program, mounted>>
  PROVE  Right
<1>. DEFINE r == entry["root"]
            f == IF e[p] # None THEN Renamed(e, p, q) ELSE e
<1>1. /\ p \in Paths /\ q \in Paths /\ x \in Paths /\ p # q /\ p # x /\ q # x
      /\ p # None /\ q # None /\ x # None /\ p \notin Hidden /\ q \notin Hidden
      /\ r \in Contents /\ e \in Contents /\ r[q] # None
  BY Names0, EntryIs, InvIs, RenamedIs DEF CanRename, Exists, Raw
<1>2. f \in Contents /\ entry' = [entry EXCEPT ![Raw] = f] /\ entry'["root"] = f
  <2>1. f \in Contents
    BY <1>1, RenamedIs
  <2>2. entry' = [entry EXCEPT ![Raw] = f]
    OBVIOUS
  <2>. HIDE DEF f
  <2>. QED
    BY <2>1, <2>2, MovedIs, InvIs
<1>3. /\ at' \in [Handles -> Paths \cup {None}]
      /\ \A h \in Handles : at'[h] = IF at[h] = q THEN x
                                     ELSE IF e[p] # None /\ at[h] = p THEN q ELSE at[h]
  BY <1>1, FollowIs, InvIs DEF Inv, TypeOK
<1>4. /\ e[p] = r[p] /\ e[x] = r[q] /\ \A y \in Paths \ {q, x} : e[y] = r[y]
      /\ \/ e[q] = None
         \/ e = r /\ r[q] = r[x]
  BY <1>1, RenamedIs
<1>5. /\ \A y \in Paths \ {p, q} : f[y] = e[y]
      /\ \/ e[p] # None /\ f[q] = e[p] /\ f[p] = None
         \/ e[p] # None /\ f = e /\ e[p] = e[q]
         \/ e[p] = None /\ f = e
  BY <1>1, RenamedIs
<1>6. TypeOK' /\ Apart' /\ StaysOutside
  <2>1. \A y \in Paths : f[y] # None => \E z \in Paths : r[z] = f[y]
    BY <1>1, <1>4, <1>5
  <2>2. \A y \in Paths : f[y] = None /\ r[y] # None => \E z \in Paths \ {y} : f[z] = r[y]
    BY <1>1, <1>4, <1>5
  <2>. QED
    BY <1>2, <1>3, <2>1, <2>2, MoveIsOutside
<1>7. ASSUME program = "fusexmp" PROVE Users!Next /\ HandlesLead' /\ HiddenGoesAway'
  <2>1. r[p] # None /\ r[q] # None /\ r[x] = None
    BY <1>1, <1>7, InvIs DEF Found, Exists
  <2>2. /\ \A y \in Paths : f[y] = IF y = q THEN r[p] ELSE IF y = x THEN r[q]
                                   ELSE IF y = p THEN None ELSE r[y]
        /\ e[p] # None
    BY <1>1, <1>4, <1>5, <2>1
  <2>3. \A h \in Handles : at[h] # x
    BY DEF IsOpen
  <2>4. \A h \in Handles : at[h] # None => at'[h] \in Paths /\ f[at'[h]] = r[at[h]]
    BY <1>1, <1>3, <2>2, <2>3 DEF Inv, TypeOK
  <2>5. OpenOn' = OpenOn /\ HandlesLead'
    BY <1>1, <1>2, <1>3, <2>4, HandlesStay
  <2>6. NameOf[p] # None /\ NameOf' = [NameOf EXCEPT ![p] = None, ![q] = NameOf[p]]
    <3>1. \A y \in Names : entry'["root"][y] =
             IF y = q THEN r[p] ELSE IF y = p THEN None ELSE r[y]
      BY <1>1, <1>2, <2>2, Names0
    <3>. QED
      BY <1>1, <2>1, <3>1 DEF NameOf
  <2>7. ASSUME NEW y \in Hidden PROVE Exists("root", y)' <=> IsOpen(y)'
    <3>1. CASE y = x
      <4>1. Exists("root", y)'
        BY <1>1, <1>2, <2>1, <2>2, <3>1 DEF Exists
      <4>2. IsOpen(y)'
        BY <1>3, <3>1 DEF IsOpen
      <4>. QED
        BY <4>1, <4>2
    <3>2. CASE y # x
      <4>1. Exists("root", y)' <=> Exists("root", y)
        BY <1>1, <1>2, <2>2, <3>2, Names0 DEF Exists
      <4>2. IsOpen(y)' <=> IsOpen(y)
        BY <1>1, <1>3, <3>2, Names0 DEF IsOpen
      <4>. QED
        BY <1>7, <4>1, <4>2 DEF Inv, HiddenGoesAway
    <3>. QED
      BY <3>1, <3>2
  <2>8. HiddenGoesAway'
    BY <2>7 DEF HiddenGoesAway
  <2>9. reply' = {}
    BY <2>2
  <2>. QED
    BY <2>5, <2>6, <2>8, <2>9, UserRenames
<1>8. ASSUME program = "encfs" PROVE HandlesLead' /\ HiddenGoesAway'
  BY <1>8 DEF HandlesLead, HiddenGoesAway
<1>. QED
  BY <1>6, <1>7, <1>8, InvIs DEF Right, Inv

LEMMA RenameIsRight ==
  ASSUME Inv, NEW p \in Names, NEW q \in Names \ {p}, Rename(p, q)
  PROVE  Right
<1>1. Found(p) /\ UNCHANGED <<program, mounted>>
  BY DEF Rename, CanRename, Found, Exists
<1>2. CASE ~IsOpen(q)
  <2>1. CASE CanRename(Raw, p, q)
    BY <1>1, <1>2, <2>1, PlainRenameIsRight DEF Rename, xmp_rename
  <2>2. CASE ~CanRename(Raw, p, q)
    BY <1>1, <1>2, <2>2, FailureIsRight DEF Rename, xmp_rename
  <2>. QED
    BY <2>1, <2>2
<1>3. CASE IsOpen(q)
  <2>1. PICK x \in Hidden :
           /\ ~IsOpen(x) /\ ~Found(x)
           /\ IF CanRename(Raw, q, x)
              THEN LET e == Renamed(entry[Raw], q, x) IN
                   /\ entry' = [entry EXCEPT ![Raw] = IF e[p] # None THEN Renamed(e, p, q) ELSE e]
                   /\ at' = [h \in Handles |-> IF at[h] = q THEN x
                                               ELSE IF e[p] # None THEN Follow(p, q)[h] ELSE at[h]]
                   /\ reply' = IF e[p] # None THEN {} ELSE Failed
              ELSE reply' = Failed /\ UNCHANGED <<entry, at>>
    BY <1>3 DEF Rename
  <2>2. CASE CanRename(Raw, q, x)
    <3>1. PICK e : e = Renamed(entry["root"], q, x)
      OBVIOUS
    <3>. QED
      BY <1>1, <1>3, <2>1, <2>2, <3>1, EntryIs, InvIs, HidingRenameIsRight
  <2>3. CASE ~CanRename(Raw, q, x)
    BY <1>1, <2>1, <2>3, FailureIsRight
  <2>. QED
    BY <2>2, <2>3
<1>. QED
  BY <1>2, <1>3

-----------------------------------------------------------------------------
(* All requests *)

LEMMA Start ==
  ASSUME Init
  PROVE  Inv /\ Users!Init
<1>1. TypeOK
  <2>1. PICK taken \in SUBSET Names, n \in Node :
           entry = [d \in {"root", "mirror"} |-> [p \in Paths |->
                        IF d = "root" /\ p \in taken THEN n ELSE None]]
    BY DEF Init
  <2>. QED
    BY <2>1 DEF Init, TypeOK
<1>2. Apart /\ \A x \in Hidden : entry["root"][x] = None
  BY Names0 DEF Init, Apart
<1>3. \A h \in Handles : at[h] = None
  BY DEF Init
<1>4. HandlesLead /\ HiddenGoesAway
  BY <1>2, <1>3, Names0 DEF HandlesLead, HiddenGoesAway, Exists, IsOpen
<1>5. Users!Init
  BY <1>1, <1>3, Names0 DEF Users!Init, Init, TypeOK
<1>. QED
  BY <1>1, <1>2, <1>4, <1>5 DEF Inv

LEMMA NameRequests ==
  ASSUME Inv, NEW p \in Names,
         \/ Lookups(p) \/ NewNames(p) \/ Removals(p) \/ Settings(p) \/ xmp_statfs(p) \/ Attributes(p)
         \/ \E q \in Names \ {p} : Moves(p, q)
  PROVE  Right
<1>1. p \in Paths /\ Prefixed \in Dirs /\ Raw \in Dirs
  BY Names0
<1>2. ASSUME NEW kinds, Call(p, kinds) PROVE Right
  BY <1>1, <1>2, CallIsRight
<1>3. ASSUME Lookups(p) PROVE Right
  BY <1>2, <1>3, ReaddirIsRight DEF Lookups, xmp_getattr, xmp_access, xmp_readlink
<1>4. ASSUME NewNames(p) PROVE Right
  <2>1. PICK d \in Dirs : d = Prefixed
    BY <1>1
  <2>2. \E kinds : Create(d, p, kinds)
    BY <1>4, <2>1 DEF NewNames, xmp_mknod, xmp_mkdir, Create, Entered, Exists
  <2>. QED
    BY <2>1, <2>2, CreateIsRight
<1>5. ASSUME Removals(p) PROVE Right
  <2>1. CASE xmp_rmdir(p)
    BY <2>1, RemovalIsRight DEF xmp_rmdir, IsDir, Found
  <2>. QED
    BY <1>5, <2>1, UnlinkIsRight DEF Removals
<1>6. ASSUME Settings(p) PROVE Right
  BY <1>2, <1>6 DEF Settings, xmp_chmod, xmp_chown, xmp_truncate, xmp_utimens
<1>7. ASSUME xmp_statfs(p) PROVE Right
  BY <1>2, <1>7 DEF xmp_statfs
<1>8. ASSUME Attributes(p) PROVE Right
  BY <1>2, <1>8, SetxattrIsRight DEF Attributes, xmp_getxattr, xmp_listxattr, xmp_removexattr
<1>9. ASSUME NEW q \in Names \ {p}, Moves(p, q) PROVE Right
  <2>1. CASE xmp_symlink(p)
    <3>1. PICK d \in Dirs : d = Raw
      BY <1>1
    <3>2. Create(d, p, {"symlink"})
      BY <2>1, <3>1 DEF xmp_symlink, Raw
    <3>. QED
      BY <3>1, <3>2, CreateIsRight
  <2>2. CASE Rename(p, q)
    BY <2>2, RenameIsRight
  <2>3. CASE xmp_link(p, q)
    BY <2>3, LinkIsRight
  <2>. QED
    BY <1>9, <2>1, <2>2, <2>3 DEF Moves
<1>. QED
  BY <1>3, <1>4, <1>5, <1>6, <1>7, <1>8, <1>9

LEMMA HandleRequests ==
  ASSUME Inv, NEW h \in Handles,
         Accesses(h) \/ Stubs(h) \/ \E p \in Names : Opens(h, p)
  PROVE  Right
<1>1. ASSUME Accesses(h) PROVE Right
  <2>1. PICK p \in Paths : p = at[h]
    BY <1>1, Names0 DEF Accesses, xmp_read, xmp_write, Inv, TypeOK
  <2>2. Call(p, {"file"})
    BY <1>1, <2>1 DEF Accesses, xmp_read, xmp_write
  <2>. QED
    BY <2>1, <2>2, CallIsRight
<1>2. ASSUME Stubs(h) PROVE Right
  BY <1>2, ReleaseIsRight, FailureIsRight DEF Stubs, xmp_fsync
<1>3. ASSUME NEW p \in Names, Opens(h, p) PROVE Right
  BY <1>3, OpenIsRight, CreateOpenIsRight DEF Opens
<1>. QED
  BY <1>1, <1>2, <1>3

LEMMA StepIsRight ==
  ASSUME Inv, Next
  PROVE  Right
  BY NameRequests, HandleRequests DEF Next

LEMMA Stuttering ==
  ASSUME Inv, UNCHANGED vars
  PROVE  Inv' /\ UNCHANGED Users!directoryVars
  BY DEF vars, Inv, TypeOK, Apart, HandlesLead, HiddenGoesAway, Exists, IsOpen, Users!directoryVars

LEMMA Invariance == Spec => []Inv
<1>1. Inv /\ [Next]_vars => Inv'
  BY StepIsRight, Stuttering DEF Right
<1>. QED
  BY <1>1, Start, PTL DEF Spec

-----------------------------------------------------------------------------
(* The same under the users of xattr-util.c *)

\* Who has measured something asks for it under the same name.
UserOK ==
    /\ user = [u \in Callers |-> user[u]]
    /\ \A u \in Callers : user[u] # None => user[u].path \in Names

\* What a command may do to the mount: a request, or nothing.
LEMMA AsksIs ==
  ASSUME NEW p \in Names,
         \/ Asks(p, xmp_getxattr(p)) \/ Asks(p, xmp_listxattr(p))
         \/ Asks(p, xmp_setxattr(p)) \/ Asks(p, xmp_removexattr(p))
  PROVE  Next \/ UNCHANGED vars
<1>1. CASE Served(p)
  <2>1. Attributes(p) /\ mounted
    BY <1>1 DEF Asks, Attributes, Served
  <2>. QED
    BY <2>1 DEF Next
<1>2. CASE ~Served(p)
  BY <1>2 DEF Asks
<1>. QED
  BY <1>1, <1>2

LEMMA UtilStart ==
  ASSUME UtilInit
  PROVE  Inv /\ UserOK /\ Users!Init
<1>1. UserOK
  BY DEF UtilInit, UserOK
<1>2. CASE Init
  BY <1>1, <1>2, Start
<1>3. CASE ~Init
  <2>1. /\ program \in {"fusexmp", "encfs"} /\ mounted = TRUE
        /\ at = [h \in Handles |-> None] /\ reply = {}
    BY <1>3 DEF UtilInit
  <2>2. PICK n \in Node, p \in Names :
           entry = [d \in {"root", "mirror"} |-> [q \in Paths |->
                        IF d = Prefixed /\ q = p THEN n ELSE None]]
    BY <1>3 DEF UtilInit
  <2>3. TypeOK
    BY <2>1, <2>2 DEF TypeOK
  <2>4. Apart /\ \A x \in Hidden : entry["root"][x] = None
    <3>1. Prefixed = "root" \/ Prefixed = "mirror"
      BY DEF Prefixed
    <3>. QED
      BY <2>2, <3>1, Names0 DEF Apart
  <2>5. HandlesLead /\ HiddenGoesAway
    BY <2>1, <2>4, Names0 DEF HandlesLead, HiddenGoesAway, Exists, IsOpen
  <2>6. Users!Init
    BY <2>1, <2>3, Names0 DEF Users!Init, TypeOK
  <2>. QED
    BY <1>1, <2>3, <2>4, <2>5, <2>6 DEF Inv
<1>. QED
  BY <1>2, <1>3

\* What a second call prints.
Prints(u) ==
    LET now == IF user[u].get = "list" THEN Set(user[u].path) ELSE Value(user[u].path, user[u].name)
    IN  \/ printed' = Failed
        \/ Served(user[u].path) /\ printed' = now
        \/ /\ printed' = Garbage /\ user[u].length = 0
           /\ Served(user[u].path) /\ now # (IF user[u].get = "list" THEN {} ELSE 0)

\* A command is a request to the mount or none; its second call alone ends it.
LEMMA CommandIs ==
  ASSUME UserOK, NEW u \in Callers, Command(u)
  PROVE  /\ UserOK' /\ (Next \/ UNCHANGED vars)
         /\ \A w \in Callers \ {u} : user'[w] = user[w]
         /\ user[u] # None /\ user'[u] = None => Prints(u)
<1>. DEFINE Moves1 == Next \/ UNCHANGED vars
            Others == \A w \in Callers \ {u} : user'[w] = user[w]
            Ends == user[u] # None /\ user'[u] = None => Prints(u)
<1>1. ASSUME NEW p \in Names, MeasureList(u, p) PROVE UserOK' /\ Moves1 /\ Others /\ Ends
  <2>1. user[u] = None /\ Moves1
    BY <1>1, AsksIs DEF MeasureList, Begins
  <2>2. \/ UNCHANGED user
        \/ user' = [user EXCEPT ![u] = [get |-> "list", path |-> p, length |-> Cardinality(Set(p))]]
    BY <1>1 DEF MeasureList
  <2>. QED
    BY <2>1, <2>2 DEF UserOK
<1>2. ASSUME NEW p \in Names, NEW a \in Attrs, MeasureValue(u, p, a)
      PROVE  UserOK' /\ Moves1 /\ Others /\ Ends
  <2>1. user[u] = None /\ Moves1
    BY <1>2, AsksIs DEF MeasureValue, Begins
  <2>2. \/ UNCHANGED user
        \/ user' = [user EXCEPT ![u] = [get |-> "value", path |-> p, name |-> a, length |-> Value(p, a)]]
    BY <1>2 DEF MeasureValue
  <2>. QED
    BY <2>1, <2>2 DEF UserOK
<1>3. ASSUME NEW p \in Names, NEW a \in Attrs,
             RemoveValue(u, p, a) \/ \E v \in 0..MaxLength : SetValue(u, p, a, v)
      PROVE  UserOK' /\ Moves1 /\ Others /\ Ends
  <2>1. user[u] = None /\ UNCHANGED user /\ Moves1
    BY <1>3, AsksIs DEF RemoveValue, SetValue
  <2>. QED
    BY <2>1 DEF UserOK
<1>4. ASSUME FetchValue(u) PROVE UserOK' /\ Moves1 /\ Others /\ Ends
  <2>1. /\ user[u] # None /\ user[u].get = "value" /\ user[u].path \in Names
        /\ user' = [user EXCEPT ![u] = None]
    BY <1>4 DEF FetchValue, UserOK
  <2>2. PICK p \in Names : p = user[u].path
    BY <2>1
  <2>3. Moves1
    <3>1. Asks(p, xmp_getxattr(p))
      BY <1>4, <2>2 DEF FetchValue
    <3>. QED
      BY <3>1, AsksIs
  <2>4. Prints(u)
    BY <1>4, <2>1 DEF FetchValue, Prints, Into
  <2>. QED
    BY <2>1, <2>3, <2>4 DEF UserOK
<1>5. ASSUME FetchList(u) PROVE UserOK' /\ Moves1 /\ Others /\ Ends
  <2>1. /\ user[u] # None /\ user[u].get = "list" /\ user[u].path \in Names
        /\ user' = [user EXCEPT ![u] = None]
    BY <1>5 DEF FetchList, UserOK
  <2>2. PICK p \in Names : p = user[u].path
    BY <2>1
  <2>3. Moves1
    <3>1. Asks(p, xmp_listxattr(p))
      BY <1>5, <2>2 DEF FetchList
    <3>. QED
      BY <3>1, AsksIs
  <2>4. Prints(u)
    BY <1>5, <2>1, FS_EmptySet DEF FetchList, Prints, Into
  <2>. QED
    BY <2>1, <2>3, <2>4 DEF UserOK
<1>. QED
  BY <1>1, <1>2, <1>3, <1>4, <1>5 DEF Command

LEMMA UtilStep ==
  ASSUME Inv, UserOK, UtilNext
  PROVE  /\ Inv' /\ UserOK' /\ [Next]_vars
         /\ \A u \in Callers : user[u] # None /\ user'[u] = None => Prints(u)
<1>1. CASE usage = "names" /\ Next /\ UNCHANGED utilVars
  BY <1>1, StepIsRight DEF Right, utilVars, UserOK
<1>2. CASE NameGoes
  <2>1. Next
    <3>1. PICK p \in Names : Unlink(p) \/ \E q \in Names \ {p} : Rename(p, q)
      BY <1>2 DEF NameGoes
    <3>2. mounted /\ (Removals(p) \/ \E q \in Names \ {p} : Moves(p, q))
      BY <1>2, <3>1 DEF NameGoes, Removals, Moves
    <3>. QED
      BY <3>2 DEF Next
  <2>. QED
    BY <1>2, <2>1, StepIsRight DEF Right, NameGoes, UserOK
<1>3. ASSUME NEW u \in Callers, Command(u)
      PROVE  /\ Inv' /\ UserOK' /\ [Next]_vars
             /\ \A w \in Callers : user[w] # None /\ user'[w] = None => Prints(w)
  BY <1>3, CommandIs, StepIsRight, Stuttering DEF Right
<1>. QED
  BY <1>1, <1>2, <1>3 DEF UtilNext

LEMMA UtilStuttering ==
  ASSUME Inv, UserOK, UNCHANGED <<vars, utilVars>>
  PROVE  Inv' /\ UserOK'
  BY Stuttering DEF utilVars, UserOK

LEMMA UtilInvariance == UtilSpec => [](Inv /\ UserOK)
<1>1. Inv /\ UserOK /\ [UtilNext]_<<vars, utilVars>> => Inv' /\ UserOK'
  BY UtilStep, UtilStuttering
<1>. QED
  BY <1>1, UtilStart, PTL DEF UtilSpec

\* Whatever the users of xattr-util do, the mount gets its requests and nothing else:
\* what holds of Mirror holds of it under them.
THEOREM UsersMakeRequests == UtilSpec => [][Next]_vars
<1>1. Inv /\ UserOK /\ [UtilNext]_<<vars, utilVars>> => [Next]_vars
  BY UtilStep
<1>. QED
  BY <1>1, UtilInvariance, PTL DEF UtilSpec

\* The paths the library keeps are paths, and each leads to one file or none.
THEOREM TypeCorrect == (Spec \/ UtilSpec) => []TypeOK
<1>1. Inv => TypeOK
  BY DEF Inv
<1>. QED
  BY <1>1, Invariance, UtilInvariance, PTL

\* fusexmp is a directory to its users: a request by name gets at the file of that name,
\* one by handle at the file that was opened, though its path is looked up anew.
THEOREM DirectoryRefinement == (Spec \/ UtilSpec) => ImplementsDirectory
<1>1. Init \/ UtilInit => Users!Init
  BY Start, UtilStart
<1>2. Inv /\ [Next]_vars => [program = "fusexmp" => Users!Next]_Users!directoryVars
  BY StepIsRight, Stuttering DEF Right
<1>3. Spec => ImplementsDirectory
  BY <1>1, <1>2, Invariance, PTL DEF Spec, ImplementsDirectory
<1>4. UtilSpec => ImplementsDirectory
  BY <1>1, <1>2, UtilInvariance, UsersMakeRequests, PTL DEF UtilSpec, ImplementsDirectory
<1>. QED
  BY <1>3, <1>4

\* pa5-encfs gets at nothing in the root directory of the host, and makes or changes nothing
\* there but for the names that its rename, link and symlink move, add or replace.
THEOREM RootIsLeftAlone == (Spec \/ UtilSpec) => OutsideUntouched
<1>1. Inv /\ [Next]_vars => [program = "encfs" => StaysOutside]_vars
  BY StepIsRight DEF Right
<1>. QED
  BY <1>1, Invariance, UtilInvariance, UsersMakeRequests, PTL DEF Spec, OutsideUntouched

\* xattr-util prints what is there when it asks for the second time, or fails; only what
\* was empty when it was measured can be followed by what is in memory.
THEOREM PrintedIsThere == UtilSpec => PrintsWhatIsThere
<1>1. Inv /\ UserOK /\ [UtilNext]_<<vars, utilVars>> =>
         [\A u \in Callers : user[u] # None /\ user'[u] = None => Prints(u)]_<<vars, utilVars>>
  BY UtilStep
<1>. QED
  BY <1>1, UtilInvariance, PTL DEF UtilSpec, PrintsWhatIsThere, Prints
=============================================================================
