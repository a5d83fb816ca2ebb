-------------------------------- MODULE EncFS --------------------------------
(***************************************************************************)
(* pa5-encfs.c: a mirrored directory whose files are encrypted on disk.    *)
(* Every read or write of an encrypted file decrypts the whole file, reads *)
(* or writes, and encrypts it again; de_crypt and en_crypt go through one  *)
(* file, ./tempfile.c, whatever the request and the thread that serves it. *)
(* An extended attribute tells which files are encrypted.                  *)
(*                                                                         *)
(* Calls of the operating system may fail; the process may end, on its own *)
(* or because it is killed, and be started again.  A file is short enough  *)
(* for one buffer of the C library, so that output reaches the disk when   *)
(* the stream is closed.  The requests that touch neither contents nor     *)
(* attribute are those of Mirror.                                          *)
(***************************************************************************)
EXTENDS FileText

CONSTANTS Threads,     \* those of FUSE that serve requests
          TempFile,    \* the path ./tempfile.c
          MaxLayers    \* a bound on repeated encryption

VARIABLES
    disk,        \* disk[f], the file as it is, or Gone
    encrypted,   \* encrypted[f], its attribute user.pa5-encfs.encrypted
    temp,        \* ./tempfile.c
    pc,          \* the next step of each thread
    req,         \* the request it serves
    action,      \* whether it is in en_crypt or de_crypt
    output,      \* what do_crypt has made of the file
    own,         \* whether the thread's stream to tempfile.c is to the file of that name
    copied,      \* what it copies back
    result,      \* what the last pread has returned
    mayFail,     \* whether calls may fail and the process may be killed
    wrong        \* files that a failing call, the end of the process, or a truncation has
                 \* left otherwise than they should be

cryptVars == <<output, own, copied>>
vars == <<disk, encrypted, temp, pc, req, action, output, own, copied, result, mayFail, wrong>>

\* A file: a text, encrypted some times.
Plain(text) == [layers |-> 0, text |-> text]
Empty == Plain(<< >>)
Spoiled == Plain(Unknown)
Stored == [layers : 0 .. MaxLayers, text : Texts]

ASSUME StoredAssumption ==
    /\ MaxLayers \in Nat \ {0} /\ TempFile \notin Files
    /\ Gone \notin Stored /\ Gone \notin Texts

Requests ==
    [op : {"create", "read"}, file : Files]
    \cup [op : {"write"}, file : Files, offset : 0 .. MaxLen - 1, byte : Bytes]
None == [op |-> "none"]

\* The directory that is mirrored holds plain files without the attribute.  Calls fail
\* where one thread serves: what exit writes of the streams of others is left out.
Init ==
    /\ disk \in [Files -> {Plain(text) : text \in SeqOf(Bytes, MaxLen)} \cup {Gone}]
    /\ encrypted = [f \in Files |-> "none"]
    /\ temp = Gone
    /\ pc = [t \in Threads |-> "idle"]
    /\ req = [t \in Threads |-> None]
    /\ action = [t \in Threads |-> "encrypt"]
    /\ output = [t \in Threads |-> Empty]
    /\ own = [t \in Threads |-> FALSE]
    /\ copied = [t \in Threads |-> Empty]
    /\ result = Empty
    /\ mayFail \in BOOLEAN /\ (mayFail => \A t, u \in Threads : t = u)
    /\ wrong = {}

\* Thread t goes from step a to step b.
Goto(t, a, b) == pc[t] = a /\ pc' = [pc EXCEPT ![t] = b]

Returns(t, a) ==
    /\ Goto(t, a, "idle")
    /\ req' = [req EXCEPT ![t] = None]
    /\ action' = [action EXCEPT ![t] = "encrypt"]

\* The file of thread t is on its way from one form to the other: emptied, or not stored
\* as its attribute tells.
Midway(t) ==
    \/ pc[t] \in {"copy", "unlink", "close", "set_true", "io"}
    \/ pc[t] \in {"crypt", "close_temp", "reopen"} /\ action[t] = "encrypt" /\ req[t].op # "create"

\* The process ends, and with it what its threads and streams hold.
Ends ==
    /\ pc' = [t \in Threads |-> "ended"]
    /\ req' = [t \in Threads |-> None]
    /\ action' = [t \in Threads |-> "encrypt"]
    /\ output' = [t \in Threads |-> Empty]
    /\ own' = [t \in Threads |-> FALSE]
    /\ copied' = [t \in Threads |-> Empty]
    /\ wrong' = wrong \cup {req[t].file : t \in {t \in Threads : Midway(t)}}
                        \cup (IF temp' = Gone THEN {} ELSE {TempFile})
    /\ UNCHANGED <<disk, encrypted, result>>

-----------------------------------------------------------------------------
(* en_crypt and de_crypt *)

\* What do_crypt makes of a file.  Of text that is not encrypted decryption makes
\* nothing, or nothing that makes sense; it then returns 0, and is only reported.
do_crypt(act, c) ==
    IF act = "encrypt" THEN [c EXCEPT !.layers = @ + 1]
    ELSE IF c.layers > 0 THEN [c EXCEPT !.layers = @ - 1]
    ELSE IF c = Empty THEN Empty ELSE Spoiled

\* Both streams are opened, tempfile.c emptied and the file read.  If a stream cannot be
\* opened the process ends, with NULL for a stream; if do_crypt stops on the way its
\* output is used all the same.
Crypt(t) ==
    LET f == req[t].file IN
    \/ /\ Goto(t, "crypt", "close_temp")
       /\ action[t] = "encrypt" => disk[f].layers < MaxLayers
       /\ \/ output' = [output EXCEPT ![t] = do_crypt(action[t], disk[f])] /\ UNCHANGED wrong
          \/ mayFail /\ output' = [output EXCEPT ![t] = Spoiled] /\ wrong' = wrong \cup {f}
       /\ temp' = Empty
       /\ own' = [own EXCEPT ![t] = TRUE]
       /\ UNCHANGED <<disk, encrypted, req, action, copied, result>>
    \/ mayFail /\ pc[t] = "crypt" /\ temp' \in {temp, Empty} /\ Ends

\* The stream to tempfile.c is closed, and only now written.  Of two threads that write
\* the same file the later one leaves what is longer in the earlier one's output.
CloseTemp(t) ==
    /\ Goto(t, "close_temp", "reopen")
    /\ \/ /\ temp' = IF ~own[t] THEN temp
                     ELSE IF temp # Gone /\ temp.layers > output[t].layers THEN Spoiled
                     ELSE output[t]
          /\ UNCHANGED wrong
       \/ mayFail /\ temp' = Spoiled /\ wrong' = wrong \cup {req[t].file}
    /\ UNCHANGED <<disk, encrypted, req, action, cryptVars, result>>

\* The file is opened with "wb+", which empties it.  If it cannot be opened the process
\* ends, when something is to be written to it or, tempfile.c removed, when it is closed.
Reopen(t) ==
    \/ /\ Goto(t, "reopen", "copy")
       /\ disk' = [disk EXCEPT ![req[t].file] = Empty]
       /\ UNCHANGED <<encrypted, temp, req, action, cryptVars, result, wrong>>
    \/ mayFail /\ pc[t] = "reopen" /\ temp' = (IF temp = Empty THEN Gone ELSE temp) /\ Ends

\* tempfile.c is opened and read, part of it if fread fails.  If it cannot be opened,
\* another thread has removed it perhaps, do_crypt reads from NULL and the process ends.
Copy(t) ==
    \/ /\ Goto(t, "copy", "unlink")
       /\ temp # Gone
       /\ \/ copied' = [copied EXCEPT ![t] = temp] /\ UNCHANGED wrong
          \/ /\ mayFail
             /\ copied' = [copied EXCEPT ![t] = Spoiled]
             /\ wrong' = wrong \cup {req[t].file}
       /\ UNCHANGED <<disk, encrypted, temp, req, action, output, own, result>>
    \/ pc[t] = "copy" /\ (mayFail \/ temp = Gone) /\ UNCHANGED temp /\ Ends

UnlinkTemp(t) ==
    /\ Goto(t, "unlink", "close")
    /\ \/ /\ temp' = Gone
          /\ own' = [u \in Threads |-> FALSE]
          /\ wrong' = wrong \ {TempFile}
       \/ mayFail /\ wrong' = wrong \cup {TempFile} /\ UNCHANGED <<temp, own>>
    /\ UNCHANGED <<disk, encrypted, req, action, output, copied, result>>

\* The file is closed, and only now written.
Close(t) ==
    LET f == req[t].file IN
    /\ Goto(t, "close",
            IF action[t] = "decrypt" THEN "io"
            ELSE IF req[t].op = "create" THEN "set_true" ELSE "return")
    /\ \/ disk' = [disk EXCEPT ![f] = copied[t]] /\ UNCHANGED wrong
       \/ mayFail /\ disk' = [disk EXCEPT ![f] = Spoiled] /\ wrong' = wrong \cup {f}
    /\ output' = [output EXCEPT ![t] = Empty]
    /\ copied' = [copied EXCEPT ![t] = Empty]
    /\ UNCHANGED <<encrypted, temp, req, action, own, result>>

EnDeCrypt(t) == Crypt(t) \/ CloseTemp(t) \/ Reopen(t) \/ Copy(t) \/ UnlinkTemp(t) \/ Close(t)

-----------------------------------------------------------------------------
(* Requests *)

\* creat; the kernel asks for it when there is no such file.
Create(t, f) ==
    /\ disk[f] = Gone
    /\ Goto(t, "idle", "crypt")
    /\ req' = [req EXCEPT ![t] = [op |-> "create", file |-> f]]
    /\ disk' = [disk EXCEPT ![f] = Empty]
    /\ action' = [action EXCEPT ![t] = "encrypt"]
    /\ UNCHANGED <<encrypted, temp, cryptVars, result, wrong>>

\* The attribute is set, or the program exits.
SetTrue(t) ==
    \/ /\ Returns(t, "set_true")
       /\ encrypted' = [encrypted EXCEPT ![req[t].file] = "True"]
       /\ UNCHANGED <<disk, temp, cryptVars, result, wrong>>
    \/ mayFail /\ pc[t] = "set_true" /\ UNCHANGED temp /\ Ends

\* Mutant: a file without the attribute is taken for an encrypted one.
MutantGetAttribute(t, r) ==
    /\ r.op # "create" /\ disk[r.file] # Gone
    /\ Goto(t, "idle", IF encrypted[r.file] = "False" THEN "io_plain" ELSE "crypt")
    /\ req' = [req EXCEPT ![t] = r]
    /\ action' = [action EXCEPT ![t] = "decrypt"]
    /\ UNCHANGED <<disk, encrypted, temp, cryptVars, result, wrong>>

\* xmp_read and xmp_write look at the attribute first; if getxattr fails they take the
\* file to have none.
GetAttribute(t, r) ==
    /\ r.op # "create" /\ disk[r.file] # Gone
    /\ \/ /\ Goto(t, "idle",
                  CASE encrypted[r.file] = "none"  -> "set_false"
                    [] encrypted[r.file] = "True"  -> "crypt"
                    [] encrypted[r.file] = "False" -> "io_plain")
          /\ UNCHANGED wrong
       \/ mayFail /\ Goto(t, "idle", "set_false") /\ wrong' = wrong \cup {r.file}
    /\ req' = [req EXCEPT ![t] = r]
    /\ action' = [action EXCEPT ![t] = "decrypt"]
    /\ UNCHANGED <<disk, encrypted, temp, cryptVars, result>>

SetFalse(t) ==
    \/ /\ Goto(t, "set_false", "io_none")
       /\ encrypted' = [encrypted EXCEPT ![req[t].file] = "False"]
       /\ UNCHANGED <<disk, temp, req, action, cryptVars, result, wrong>>
    \/ mayFail /\ pc[t] = "set_false" /\ UNCHANGED temp /\ Ends

\* What pwrite leaves: a byte written into encrypted text spoils it.
Overwritten(c, r) ==
    IF c.layers = 0 THEN Plain(Written(c.text, r.offset, r.byte)) ELSE Spoiled

\* pread or pwrite; one that fails is not noticed before the request returns.
Transfer(r) ==
    \/ /\ r.op = "read"
       /\ result' = disk[r.file]
       /\ UNCHANGED disk
    \/ /\ r.op = "write"
       /\ disk' = [disk EXCEPT ![r.file] = Overwritten(@, r)]
       /\ UNCHANGED result
    \/ mayFail /\ UNCHANGED <<disk, result>>

\* Mutant: after a read the file is not encrypted again.
MutantInOut(t) ==
    /\ \/ Goto(t, "io_none", "io_plain") /\ UNCHANGED action
       \/ Goto(t, "io_plain", "return") /\ UNCHANGED action
       \/ /\ Goto(t, "io", IF req[t].op = "read" THEN "return" ELSE "crypt")
          /\ action' = [action EXCEPT ![t] = "encrypt"]
    /\ Transfer(req[t])
    /\ UNCHANGED <<encrypted, temp, req, cryptVars, wrong>>

\* The file is opened, read or written, and encrypted again if it was decrypted.  A file
\* that had no attribute is read or written twice: its attribute is False by the time it
\* is compared.  If it cannot be opened the request is over, the file left decrypted.
InOut(t) ==
    LET f == req[t].file IN
    /\ \/ /\ \/ Goto(t, "io_none", "io_plain") /\ UNCHANGED action
             \/ Goto(t, "io_plain", "return") /\ UNCHANGED action
             \/ Goto(t, "io", "crypt") /\ action' = [action EXCEPT ![t] = "encrypt"]
          /\ Transfer(req[t])
          /\ UNCHANGED wrong
       \/ /\ mayFail
          /\ \/ Goto(t, "io_none", "return") /\ UNCHANGED wrong
             \/ Goto(t, "io_plain", "return") /\ UNCHANGED wrong
             \/ Goto(t, "io", "return") /\ wrong' = wrong \cup {f}
          /\ UNCHANGED <<action, disk, result>>
    /\ UNCHANGED <<encrypted, temp, req, cryptVars>>

Return(t) ==
    /\ Returns(t, "return")
    /\ UNCHANGED <<disk, encrypted, temp, cryptVars, result, wrong>>

\* xmp_mknod makes a plain file.
Mknod(f) ==
    /\ disk[f] = Gone
    /\ disk' = [disk EXCEPT ![f] = Empty]
    /\ UNCHANGED <<encrypted, temp, pc, req, action, cryptVars, result, wrong>>

\* xmp_unlink; the kernel passes it on when the file is no longer in use.
Unlink(f) ==
    /\ disk[f] # Gone /\ \A t \in Threads : req[t] # None => req[t].file # f
    /\ disk' = [disk EXCEPT ![f] = Gone]
    /\ encrypted' = [encrypted EXCEPT ![f] = "none"]
    /\ wrong' = wrong \ {f}
    /\ UNCHANGED <<temp, pc, req, action, cryptVars, result>>

\* xmp_truncate changes the size of the file as it is: of encrypted text, cut or with
\* zeros added, nobody can tell what decryption makes.  An emptied file is right whatever
\* its attribute; the zeros added to it are not encrypted, even if the attribute is True.
Truncate(f, size) ==
    /\ disk[f] # Gone
    /\ disk' = [disk EXCEPT ![f] =
                   IF size = 0 THEN Empty
                   ELSE IF @.layers = 0 THEN Plain(Resized(@.text, size))
                   ELSE [@ EXCEPT !.text = Unknown]]
    /\ wrong' = IF size = 0 THEN wrong \ {f}
                ELSE IF encrypted[f] = "True" THEN wrong \cup {f}
                ELSE wrong
    /\ UNCHANGED <<encrypted, temp, pc, req, action, cryptVars, result>>

Serve(t) ==
    \/ EnDeCrypt(t) \/ SetTrue(t) \/ SetFalse(t) \/ InOut(t) \/ Return(t)
    \/ \E f \in Files : Create(t, f)
    \/ \E r \in Requests : GetAttribute(t, r)
    \/ pc[t] = "idle" /\ \E f \in Files :
           Mknod(f) \/ Unlink(f) \/ \E size \in TruncateTo : Truncate(f, size)

\* The process is killed, whatever it is doing.
Killed == mayFail /\ (\E t \in Threads : pc[t] # "ended") /\ UNCHANGED temp /\ Ends

\* The directory is mounted again; a tempfile.c that was left is still there.
Restart ==
    /\ \A t \in Threads : pc[t] = "ended"
    /\ pc' = [t \in Threads |-> "idle"]
    /\ UNCHANGED <<disk, encrypted, temp, req, action, cryptVars, result, wrong>>

Next ==
    /\ (\E t \in Threads : Serve(t)) \/ Killed \/ Restart
    /\ UNCHANGED mayFail

Spec == Init /\ [][Next]_vars

-----------------------------------------------------------------------------

Steps == {"idle", "crypt", "close_temp", "reopen", "copy", "unlink", "close", "set_true",
          "set_false", "io_none", "io_plain", "io", "return", "ended"}

\* The types of the variables: a file exists for as long as a request for it is served,
\* and a file that is wrong exists, whatever the threads do to each other.
TypeOK ==
    /\ disk \in [Files -> Stored \cup {Gone}]
    /\ encrypted \in [Files -> {"none", "True", "False"}]
    /\ temp \in Stored \cup {Gone}
    /\ pc \in [Threads -> Steps]
    /\ req \in [Threads -> Requests \cup {None}]
    /\ action \in [Threads -> {"encrypt", "decrypt"}]
    /\ output \in [Threads -> Stored]
    /\ own \in [Threads -> BOOLEAN]
    /\ copied \in [Threads -> Stored]
    /\ result \in Stored
    /\ mayFail \in BOOLEAN
    /\ wrong \subseteq {f \in Files : disk[f] # Gone} \cup {TempFile}
    /\ \A t \in Threads :
          IF req[t] = None THEN pc[t] \in {"idle", "ended"}
          ELSE pc[t] \notin {"idle", "ended"} /\ disk[req[t].file] # Gone

\* Between requests, and after the process has ended at whatever step, the attribute
\* tells how a file is stored: encrypted once where it is True, unless the file has just
\* been emptied, and plain elsewhere; and no plain text is left behind in tempfile.c.
\* Wrong, until it is emptied or removed, is only the file that was being served when a
\* call failed or on its way from one form to the other when the process ended, and an
\* encrypted file that was truncated to a size other than 0.
AtRest ==
    (\A t \in Threads : pc[t] \in {"idle", "ended"}) =>
        /\ TempFile \notin wrong => temp = Gone
        /\ \A f \in Files \ wrong : disk[f] # Gone =>
              IF encrypted[f] = "True" THEN disk[f].layers = 1 \/ disk[f] = Empty
              ELSE disk[f].layers = 0

\* pa5-encfs.c:58 "Re-open files and do a copy using do_crypt so that it goes back
\* to original file": what is copied back is what was made of that file.
GoesBackToOriginal ==
    \A t \in Threads : pc[t] \in {"unlink", "close"} => copied[t] = output[t]

\* Where the contents of a file are: on disk, or between the emptying of the file
\* and its closing in tempfile.c, or in the stream.
Kept(f) ==
    LET Busy == {t \in Threads : pc[t] \in {"copy", "unlink", "close"} /\ req[t].file = f}
        t == CHOOSE t \in Busy : TRUE
    IN  IF Busy = {} THEN disk[f] ELSE IF pc[t] = "copy" THEN temp ELSE copied[t]

\* To users that wait for each request the files look plain: decryption, encryption and
\* the attribute do not show.  The exceptions are those of PlainFiles: a file truncated
\* to a size other than 0, and one that was served when a call failed or the process
\* ended, may hold text that nobody can tell, until it is emptied or removed.
PlainView == INSTANCE PlainFiles WITH
    contents <- [f \in Files |-> IF disk[f] = Gone THEN Gone
                                 ELSE IF f \in wrong THEN Unknown ELSE Kept(f).text],
    unsure   <- wrong \ {TempFile},
    result   <- IF result.layers = 0 THEN result.text ELSE Unknown
ImplementsPlainFiles == PlainView!Spec
=============================================================================
