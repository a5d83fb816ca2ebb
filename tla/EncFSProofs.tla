----------------------------- MODULE EncFSProofs -----------------------------
(***************************************************************************)
(* Proofs about the encrypted files of pa5-encfs.c: the types, for any     *)
(* threads; and for one thread, step by step through de_crypt and en_crypt *)
(* where the contents of a file are, so that between requests the          *)
(* attribute tells how it is stored and users see plain files, but for the *)
(* files that failing calls, the end of the process and truncation have    *)
(* left wrong.                                                             *)
(***************************************************************************)
EXTENDS EncFS, SequenceTheorems, TLAPS

Chars == Bytes \cup {Hole}

\* A text that can be told is a sequence of at most MaxLen characters.
LEMMA TextIs ==
  ASSUME NEW text \in Texts, text # Unknown
  PROVE  Len(text) \in 0 .. MaxLen /\ text \in [1 .. Len(text) -> Chars]
<1>1. PICK m \in 0 .. MaxLen : text \in [1 .. m -> Chars]
  BY DEF Texts, SeqOf, Chars
<1>2. m \in Nat
  BY TextAssumption
<1>3. text \in Seq(Chars)
  BY <1>1, <1>2, SeqDef
<1>4. Len(text) \in Nat /\ DOMAIN text = 1 .. Len(text)
  BY <1>3, LenProperties
<1>. DEFINE k == Len(text)
<1>5. k \in Nat /\ \A i : i \in 1 .. m <=> i \in 1 .. k
  BY <1>1, <1>4
<1>. HIDE DEF k
<1>6. m = k
  <2>1. m = 0 \/ m \in 1 .. k
    BY <1>2, <1>5
  <2>2. k = 0 \/ k \in 1 .. m
    BY <1>5
  <2>. QED
    BY <2>1, <2>2, <1>2, <1>5
<1>. QED
  BY <1>1, <1>6 DEF k

\* And such a sequence is a text.
LEMMA IsText ==
  ASSUME NEW m \in 0 .. MaxLen, NEW text \in [1 .. m -> Chars]
  PROVE  text \in Texts
  BY DEF Texts, SeqOf, Chars

LEMMA TextsKept ==
  ASSUME NEW text \in Texts
  PROVE  /\ \A offset \in 0 .. MaxLen - 1, b \in Bytes : Written(text, offset, b) \in Texts
         /\ \A size \in TruncateTo : Resized(text, size) \in Texts
<1>. DEFINE n == Len(text)
<1>1. text # Unknown => n \in 0 .. MaxLen /\ text \in [1 .. n -> Chars]
  BY TextIs
<1>. HIDE DEF n
<1>2. MaxLen \in Nat \ {0} /\ TruncateTo \subseteq 0 .. MaxLen /\ Unknown \in Texts
  BY TextAssumption DEF Texts
<1>3. ASSUME NEW offset \in 0 .. MaxLen - 1, NEW b \in Bytes
      PROVE  Written(text, offset, b) \in Texts
  <2>. DEFINE m == IF offset < n THEN n ELSE offset + 1
  <2>1. CASE text = Unknown
    BY <1>2, <2>1 DEF Written
  <2>2. CASE text # Unknown
    <3>1. m \in 0 .. MaxLen
      BY <1>1, <1>2, <2>2
    <3>2. Written(text, offset, b) \in [1 .. m -> Chars]
      BY <1>1, <1>2, <2>2 DEF Written, Chars, n
    <3>. QED
      BY <3>1, <3>2, IsText
  <2>. QED
    BY <2>1, <2>2
<1>4. ASSUME NEW size \in TruncateTo
      PROVE  Resized(text, size) \in Texts
  <2>1. size \in 0 .. MaxLen
    BY <1>2
  <2>2. CASE text = Unknown /\ size # 0
    BY <1>2, <2>2 DEF Resized
  <2>3. CASE size = 0
    <3>1. Resized(text, size) \in [1 .. size -> Chars]
      BY <2>3 DEF Resized
    <3>. QED
      BY <2>1, <3>1, IsText
  <2>4. CASE text # Unknown
    <3>1. Resized(text, size) \in [1 .. size -> Chars]
      BY <1>1, <1>2, <2>1, <2>4 DEF Resized, Chars, n
    <3>. QED
      BY <2>1, <3>1, IsText
  <2>. QED
    BY <2>2, <2>3, <2>4
<1>. QED
  BY <1>3, <1>4

\* Nothing is left of a text that is cut to nothing.
LEMMA CutToNothing == \A text : Resized(text, 0) = << >>
  BY DEF Resized

LEMMA ShortTexts == << >> \in Texts /\ Unknown \in Texts
<1>1. << >> \in [1 .. 0 -> Chars] /\ 0 \in 0 .. MaxLen
  BY TextAssumption
<1>. QED
  BY <1>1, IsText DEF Texts

LEMMA StoredKept ==
  /\ Empty \in Stored /\ Spoiled \in Stored
  /\ \A text \in Texts : Plain(text) \in Stored
  /\ \A c \in Stored : [c EXCEPT !.text = Unknown] \in Stored
  /\ \A c \in Stored : c # Gone
  BY ShortTexts, StoredAssumption DEF Stored, Plain, Empty, Spoiled

\* What do_crypt makes is a file; encryption and decryption only change the layers.
LEMMA CryptMakes ==
  ASSUME NEW act \in {"encrypt", "decrypt"}, NEW c \in Stored,
         act = "encrypt" => c.layers < MaxLayers
  PROVE  do_crypt(act, c) \in Stored
<1>1. c.layers \in 0 .. MaxLayers /\ c.text \in Texts /\ MaxLayers \in Nat
  BY StoredAssumption DEF Stored
<1>2. CASE act = "encrypt"
  BY <1>1, <1>2 DEF do_crypt, Stored
<1>3. CASE act # "encrypt" /\ c.layers > 0
  BY <1>1, <1>3 DEF do_crypt, Stored
<1>4. CASE act # "encrypt" /\ ~(c.layers > 0)
  BY <1>4, StoredKept DEF do_crypt
<1>. QED
  BY <1>2, <1>3, <1>4

-----------------------------------------------------------------------------
(* Types, for any threads *)

LEMMA TypeStart == Init => TypeOK
<1>. SUFFICES ASSUME Init PROVE TypeOK
  OBVIOUS
<1>1. SeqOf(Bytes, MaxLen) \subseteq Texts
  <2>. SUFFICES ASSUME NEW m \in 0 .. MaxLen, NEW text \in [1 .. m -> Bytes] PROVE text \in Texts
    BY DEF SeqOf
  <2>1. text \in [1 .. m -> Chars]
    BY DEF Chars
  <2>. QED
    BY <2>1, IsText
<1>2. disk \in [Files -> Stored \cup {Gone}]
  BY <1>1, StoredKept DEF Init
<1>. QED
  BY <1>2, StoredKept DEF Init, TypeOK, Steps

\* A thread that serves a request serves one for a file that exists.
LEMMA Served ==
  ASSUME TypeOK, NEW t \in Threads, pc[t] \notin {"idle", "ended"}
  PROVE  /\ req[t] \in Requests /\ req[t].file \in Files /\ disk[req[t].file] \in Stored
         /\ disk[req[t].file] # Gone
         /\ req[t].op \in {"create", "read", "write"}
         /\ req[t].op = "write" => req[t].offset \in 0 .. MaxLen - 1 /\ req[t].byte \in Bytes
<1>1. req[t] \in Requests /\ disk[req[t].file] # Gone
  BY DEF TypeOK
<1>. QED
  BY <1>1 DEF TypeOK, Requests

LEMMA NoneIsNoRequest == None \notin Requests
  BY DEF None, Requests

\* When the process ends, only files that exist are left wrong.
LEMMA EndsTyped ==
  ASSUME TypeOK, Ends, temp' \in Stored \cup {Gone}, UNCHANGED mayFail
  PROVE  TypeOK'
<1>1. \A u \in Threads : Midway(u) => req[u].file \in Files /\ disk[req[u].file] # Gone
  BY Served DEF Midway, TypeOK
<1>2. wrong' \subseteq {f \in Files : disk'[f] # Gone} \cup {TempFile}
  BY <1>1 DEF Ends, TypeOK
<1>. QED
  BY <1>2, StoredKept DEF Ends, TypeOK, Steps

LEMMA TypeStep == TypeOK /\ [Next]_vars => TypeOK'
<1>. SUFFICES ASSUME TypeOK, [Next]_vars PROVE TypeOK'
  OBVIOUS
<1>0. UNCHANGED mayFail /\ (UNCHANGED vars \/ Killed \/ Restart \/ \E t \in Threads : Serve(t))
  BY DEF Next, vars
<1>. USE DEF Goto, Returns, cryptVars
<1>1. ASSUME NEW t \in Threads, Crypt(t) PROVE TypeOK'
  <2>1. CASE Ends
    BY <1>0, <1>1, <2>1, EndsTyped, StoredKept DEF Crypt, TypeOK
  <2>2. CASE Goto(t, "crypt", "close_temp")
    <3>1. /\ output' \in [Threads -> Stored] /\ temp' = Empty
          /\ own' = [own EXCEPT ![t] = TRUE]
          /\ wrong' \subseteq wrong \cup {req[t].file}
          /\ UNCHANGED <<disk, encrypted, req, action, copied, result>>
      BY <1>1, <2>2, Served, CryptMakes, StoredKept DEF Crypt, TypeOK, Ends
    <3>. QED
      BY <1>0, <2>2, <3>1, Served, StoredKept DEF TypeOK, Steps
  <2>. QED
    BY <1>1, <2>1, <2>2 DEF Crypt
<1>2. ASSUME NEW t \in Threads, CloseTemp(t) PROVE TypeOK'
  BY <1>0, <1>2, Served, StoredKept DEF CloseTemp, TypeOK, Steps
<1>3. ASSUME NEW t \in Threads, Reopen(t) PROVE TypeOK'
  <2>1. CASE Ends
    BY <1>0, <1>3, <2>1, EndsTyped DEF Reopen, TypeOK
  <2>2. CASE disk' = [disk EXCEPT ![req[t].file] = Empty]
    <3>1. req[t].file \in Files /\ Empty # Gone
      BY <1>3, Served, StoredKept DEF Reopen, TypeOK
    <3>2. /\ disk' \in [Files -> Stored \cup {Gone}]
          /\ \A f \in Files : disk[f] # Gone => disk'[f] # Gone
      BY <2>2, <3>1, StoredKept DEF TypeOK
    <3>. QED
      BY <1>0, <1>3, <2>1, <3>2, Served DEF Reopen, TypeOK, Steps
  <2>. QED
    BY <1>3, <2>1, <2>2 DEF Reopen
<1>4. ASSUME NEW t \in Threads, Copy(t) PROVE TypeOK'
  <2>1. CASE Ends
    BY <1>0, <1>4, <2>1, EndsTyped DEF Copy, TypeOK
  <2>2. CASE Goto(t, "copy", "unlink") /\ temp # Gone
    BY <1>0, <1>4, <2>1, <2>2, Served, StoredKept DEF Copy, TypeOK, Steps
  <2>. QED
    BY <1>4, <2>1, <2>2 DEF Copy
<1>5. ASSUME NEW t \in Threads, UnlinkTemp(t) PROVE TypeOK'
  BY <1>0, <1>5 DEF UnlinkTemp, TypeOK, Steps
<1>6. ASSUME NEW t \in Threads, Close(t) PROVE TypeOK'
  <2>1. req[t].file \in Files /\ copied[t] \in Stored
    BY <1>6, Served DEF Close, TypeOK
  <2>2. PICK c \in Stored : disk' = [disk EXCEPT ![req[t].file] = c]
    BY <1>6, <2>1, StoredKept DEF Close
  <2>3. c # Gone
    BY StoredKept
  <2>4. /\ disk' \in [Files -> Stored \cup {Gone}]
        /\ \A f \in Files : disk[f] # Gone => disk'[f] # Gone
    BY <2>1, <2>2, <2>3 DEF TypeOK
  <2>5. wrong' \subseteq wrong \cup {req[t].file}
    BY <1>6 DEF Close
  <2>. QED
    BY <1>0, <1>6, <2>1, <2>4, <2>5, StoredKept, Served DEF Close, TypeOK, Steps
<1>7. ASSUME NEW t \in Threads, SetTrue(t) PROVE TypeOK'
  <2>1. CASE Ends
    BY <1>0, <1>7, <2>1, EndsTyped DEF SetTrue, TypeOK
  <2>2. CASE Returns(t, "set_true")
    BY <1>0, <1>7, <2>1, <2>2 DEF SetTrue, TypeOK, Steps
  <2>. QED
    BY <1>7, <2>1, <2>2 DEF SetTrue
<1>8. ASSUME NEW t \in Threads, SetFalse(t) PROVE TypeOK'
  <2>1. CASE Ends
    BY <1>0, <1>8, <2>1, EndsTyped DEF SetFalse, TypeOK
  <2>2. CASE Goto(t, "set_false", "io_none")
    BY <1>0, <1>8, <2>1, <2>2 DEF SetFalse, TypeOK, Steps
  <2>. QED
    BY <1>8, <2>1, <2>2 DEF SetFalse
<1>9. ASSUME NEW t \in Threads, Return(t) PROVE TypeOK'
  BY <1>0, <1>9 DEF Return, TypeOK, Steps
<1>10. ASSUME NEW t \in Threads, InOut(t) PROVE TypeOK'
  <2>1. /\ pc[t] \in {"io_none", "io_plain", "io"}
        /\ pc' = [pc EXCEPT ![t] = pc'[t]] /\ pc'[t] \in {"io_plain", "return", "crypt"}
        /\ action' \in [Threads -> {"encrypt", "decrypt"}]
        /\ wrong' \subseteq wrong \cup {req[t].file}
        /\ UNCHANGED <<encrypted, temp, req, cryptVars>>
    BY <1>10 DEF InOut, TypeOK, Steps
  <2>2. /\ req[t].file \in Files /\ disk[req[t].file] \in Stored /\ disk[req[t].file] # Gone
        /\ req[t].op = "write" => req[t].offset \in 0 .. MaxLen - 1 /\ req[t].byte \in Bytes
    BY <2>1, Served
  <2>3. /\ disk' \in [Files -> Stored \cup {Gone}] /\ result' \in Stored
        /\ \A f \in Files : disk[f] # Gone => disk'[f] # Gone
    <3>1. Transfer(req[t]) \/ UNCHANGED <<disk, result>>
      BY <1>10 DEF InOut
    <3>2. CASE req[t].op = "read" /\ result' = disk[req[t].file] /\ UNCHANGED disk
      BY <2>2, <3>2 DEF TypeOK
    <3>3. CASE req[t].op = "write" /\ disk' = [disk EXCEPT ![req[t].file] = Overwritten(@, req[t])]
               /\ UNCHANGED result
      <4>. DEFINE c == Overwritten(disk[req[t].file], req[t])
      <4>1. c \in Stored
        BY <2>2, <3>3, TextsKept, StoredKept DEF Overwritten, Stored
      <4>2. disk' = [disk EXCEPT ![req[t].file] = c] /\ UNCHANGED result
        BY <3>3
      <4>. HIDE DEF c
      <4>. QED
        BY <4>1, <4>2, StoredKept DEF TypeOK
    <3>4. CASE UNCHANGED <<disk, result>>
      BY <3>4 DEF TypeOK
    <3>. QED
      BY <3>1, <3>2, <3>3, <3>4 DEF Transfer
  <2>4. wrong' \subseteq {f \in Files : disk'[f] # Gone} \cup {TempFile}
    BY <2>1, <2>2, <2>3 DEF TypeOK
  <2>5. /\ pc' \in [Threads -> Steps]
        /\ \A u \in Threads : pc'[u] \in {"idle", "ended"} <=> pc[u] \in {"idle", "ended"}
    BY <2>1 DEF TypeOK, Steps
  <2>6. \A u \in Threads : req[u] # None => req[u].file \in Files
    BY DEF TypeOK, Requests
  <2>7. \A u \in Threads :
           IF req[u] = None THEN pc'[u] \in {"idle", "ended"}
           ELSE pc'[u] \notin {"idle", "ended"} /\ disk'[req[u].file] # Gone
    BY <2>3, <2>5, <2>6 DEF TypeOK
  <2>. QED
    BY <1>0, <2>1, <2>3, <2>4, <2>5, <2>7 DEF TypeOK
<1>11. ASSUME NEW t \in Threads, NEW f \in Files, Create(t, f) PROVE TypeOK'
  <2>1. Empty \in Stored /\ Empty # Gone
    BY StoredKept
  <2>. QED
    BY <1>0, <1>11, <2>1, NoneIsNoRequest DEF Create, TypeOK, Steps, Requests
<1>12. ASSUME NEW t \in Threads, NEW r \in Requests, GetAttribute(t, r) PROVE TypeOK'
  <2>1. r.file \in Files
    BY DEF Requests
  <2>. QED
    BY <1>0, <1>12, <2>1, NoneIsNoRequest DEF GetAttribute, TypeOK, Steps
<1>13. ASSUME NEW f \in Files, Mknod(f) PROVE TypeOK'
  BY <1>0, <1>13, StoredKept DEF Mknod, TypeOK
<1>14. ASSUME NEW f \in Files, Unlink(f) PROVE TypeOK'
  BY <1>0, <1>14 DEF Unlink, TypeOK
<1>15. ASSUME NEW f \in Files, NEW size \in TruncateTo, Truncate(f, size) PROVE TypeOK'
  <2>1. disk[f] \in Stored
    BY <1>15 DEF Truncate, TypeOK
  <2>2. Plain(Resized(disk[f].text, size)) \in Stored
    BY <2>1, TextsKept, StoredKept DEF Stored
  <2>3. PICK c \in Stored : disk' = [disk EXCEPT ![f] = c]
    BY <1>15, <2>1, <2>2, StoredKept DEF Truncate
  <2>4. c # Gone
    BY StoredKept
  <2>5. wrong' \subseteq wrong \cup {f}
    BY <1>15 DEF Truncate
  <2>6. /\ disk' \in [Files -> Stored \cup {Gone}]
        /\ \A g \in Files : disk[g] # Gone => disk'[g] # Gone
    BY <2>3, <2>4 DEF TypeOK
  <2>7. wrong' \subseteq {g \in Files : disk'[g] # Gone} \cup {TempFile}
    BY <1>15, <2>5, <2>6 DEF Truncate, TypeOK
  <2>8. \A u \in Threads : req[u] # None => req[u].file \in Files
    BY DEF TypeOK, Requests
  <2>9. \A u \in Threads :
           IF req[u] = None THEN pc[u] \in {"idle", "ended"}
           ELSE pc[u] \notin {"idle", "ended"} /\ disk'[req[u].file] # Gone
    BY <2>6, <2>8 DEF TypeOK
  <2>. QED
    BY <1>0, <1>15, <2>6, <2>7, <2>9 DEF Truncate, TypeOK
<1>16. CASE UNCHANGED vars
  BY <1>16 DEF vars, TypeOK
<1>17. CASE Killed
  BY <1>0, <1>17, EndsTyped DEF Killed, TypeOK
<1>18. CASE Restart
  BY <1>0, <1>18 DEF Restart, TypeOK, Steps
<1>. QED
  BY <1>0, <1>1, <1>2, <1>3, <1>4, <1>5, <1>6, <1>7, <1>8, <1>9, <1>10, <1>11, <1>12, <1>13,
     <1>14, <1>15, <1>16, <1>17, <1>18 DEF Serve, EnDeCrypt

\* The types of the variables, whatever the threads do to each other's tempfile.c and
\* whichever calls fail: a file exists for as long as a request for it is served.
THEOREM TypeCorrect == Spec => []TypeOK
  BY TypeStart, TypeStep, PTL DEF Spec

-----------------------------------------------------------------------------
(* One thread: its requests one after the other, calls that fail, and restarts *)

Serial(t) == Threads = {t}

\* File f is stored the way its attribute tells.
AsAttribute(f) ==
    disk[f] # Gone =>
        IF encrypted[f] = "True" THEN disk[f].layers = 1 \/ disk[f] = Empty
        ELSE disk[f].layers = 0

\* What de_crypt and en_crypt take, and what they make of it.
Takes(act, c) == IF act = "encrypt" THEN c.layers = 0 ELSE c.layers = 1 \/ c = Empty
Makes(act, c) == c.layers = IF act = "encrypt" THEN 1 ELSE 0

Resting == {"idle", "ended"}
Reading == {"crypt", "close_temp", "reopen"}
Storing == {"copy", "unlink", "close"}

\* Step by step, where the contents of the file are that is served, and in which form.
Underway(t) ==
    LET f      == req[t].file
        act    == action[t]
        create == req[t].op = "create"
    IN
    /\ pc[t] \in Reading \cup Storing =>
           IF create THEN act = "encrypt" ELSE encrypted[f] = "True"
    /\ pc[t] \in Reading    => Takes(act, disk[f]) /\ (create => disk[f] = Empty)
    /\ pc[t] = "close_temp" => /\ own[t] /\ temp = Empty
                               /\ Makes(act, output[t]) /\ output[t].text = disk[f].text
    /\ pc[t] = "reopen"     => temp # Gone /\ Makes(act, temp) /\ temp.text = disk[f].text
    /\ pc[t] = "copy"       => temp # Gone /\ Makes(act, temp)
    /\ pc[t] \in {"unlink", "close"} => Makes(act, copied[t])
    /\ pc[t] = "set_true"   => disk[f].layers = 1
    /\ pc[t] = "set_false"  => encrypted[f] # "True"
    /\ pc[t] \in {"io_none", "io_plain"} => encrypted[f] = "False"
    /\ pc[t] = "io"         => encrypted[f] = "True"
    /\ pc[t] \in {"set_false", "io_none", "io_plain", "io"} => ~create /\ disk[f].layers = 0
    /\ pc[t] = "return"     => AsAttribute(f)

\* The inductive invariant: AtRest says nothing of the time between two requests.
Inv(t) ==
    /\ TypeOK
    /\ Serial(t)
    /\ pc[t] \notin {"close_temp", "reopen", "copy", "unlink"} /\ TempFile \notin wrong => temp = Gone
    /\ \A f \in Files \ wrong : pc[t] \in Resting \/ f # req[t].file => AsAttribute(f)
    /\ pc[t] \notin Resting /\ req[t].file \notin wrong => Underway(t)

LEMMA SerialStart ==
  ASSUME NEW t, Serial(t), Init
  PROVE  Inv(t)
<1>1. TypeOK
  BY TypeStart
<1>2. t \in Threads
  BY DEF Serial
<1>3. \A f \in Files : encrypted[f] = "none" /\ (disk[f] # Gone => disk[f].layers = 0)
  BY DEF Init, Plain
<1>. QED
  BY <1>1, <1>2, <1>3 DEF Init, Inv, AsAttribute, Resting

\* What do_crypt takes it turns into what it should make, with the same text.
LEMMA CryptKeepsText ==
  ASSUME NEW act \in {"encrypt", "decrypt"}, NEW c \in Stored, Takes(act, c)
  PROVE  Makes(act, do_crypt(act, c)) /\ do_crypt(act, c).text = c.text
<1>1. c.layers \in Nat
  BY StoredAssumption DEF Stored
<1>2. CASE act = "encrypt"
  BY <1>1, <1>2 DEF do_crypt, Stored, Takes, Makes
<1>3. CASE act # "encrypt" /\ c.layers = 1
  BY <1>1, <1>3 DEF do_crypt, Stored, Makes
<1>4. CASE act # "encrypt" /\ c = Empty
  BY <1>4 DEF do_crypt, Stored, Makes, Empty, Plain
<1>. QED
  BY <1>2, <1>3, <1>4 DEF Takes

\* The process may end at any step: a file that is not marked is as its attribute tells.
LEMMA EndsKeeps ==
  ASSUME NEW t, Inv(t), Ends, TypeOK'
  PROVE  Inv(t)'
<1>1. Threads = {t} /\ TypeOK /\ t \in Threads
  BY DEF Inv, Serial
<1>2. /\ pc'[t] = "ended" /\ UNCHANGED <<disk, encrypted>> /\ wrong \subseteq wrong'
      /\ TempFile \notin wrong' => temp' = Gone
      /\ Midway(t) => req[t].file \in wrong'
  BY <1>1 DEF Ends
<1>3. ASSUME NEW f \in Files, f \notin wrong' PROVE AsAttribute(f)
  <2>1. CASE pc[t] \in Resting \/ f # req[t].file
    BY <1>2, <1>3, <2>1 DEF Inv
  <2>2. CASE pc[t] \notin Resting /\ f = req[t].file
    <3>1. Underway(t) /\ ~Midway(t)
      BY <1>2, <1>3, <2>2 DEF Inv
    <3>2. CASE pc[t] \in Reading
      <4>1. Takes(action[t], disk[f]) /\ (req[t].op = "create" => disk[f] = Empty)
        BY <2>2, <3>1, <3>2 DEF Underway
      <4>2. action[t] # "encrypt" \/ req[t].op = "create"
        BY <3>1, <3>2 DEF Midway, Reading
      <4>. QED
        BY <2>2, <3>1, <3>2, <4>1, <4>2 DEF Underway, AsAttribute, Takes, Empty, Plain
    <3>3. CASE pc[t] \in {"set_false", "io_none", "io_plain", "return"}
      BY <2>2, <3>1, <3>3 DEF Underway, AsAttribute
    <3>. QED
      BY <1>1, <2>2, <3>1, <3>2, <3>3 DEF Midway, TypeOK, Steps, Resting, Reading
  <2>. QED
    BY <2>1, <2>2
<1>4. \A f \in Files \ wrong' : AsAttribute(f)'
  BY <1>2, <1>3 DEF AsAttribute
<1>. QED
  BY <1>1, <1>2, <1>4 DEF Inv, Serial, Resting

LEMMA SerialStep ==
  ASSUME NEW t, Inv(t), [Next]_vars
  PROVE  Inv(t)'
<1>1. Threads = {t} /\ TypeOK /\ t \in Threads
  BY DEF Inv, Serial
<1>2. TypeOK' /\ Serial(t)'
  BY <1>1, TypeStep DEF Inv, Serial
<1>0. CASE Ends
  BY <1>0, <1>2, EndsKeeps
<1>. USE DEF Goto, Returns, cryptVars, Resting, Reading, Storing
<1>s. pc[t] \notin Resting => req[t].file \in Files /\ req[t].file # TempFile
  BY <1>1, Served, StoredAssumption
<1>3. CASE Crypt(t) /\ ~Ends
  <2>1. action[t] \in {"encrypt", "decrypt"} /\ disk[req[t].file] \in Stored
    BY <1>1, <1>3, Served DEF Crypt, TypeOK
  <2>2. /\ pc[t] = "crypt" /\ pc'[t] = "close_temp" /\ temp' = Empty /\ own'[t]
        /\ UNCHANGED <<disk, encrypted, req, action>>
        /\ \/ UNCHANGED wrong /\ output'[t] = do_crypt(action[t], disk[req[t].file])
           \/ wrong' = wrong \cup {req[t].file}
    BY <1>1, <1>3 DEF Crypt, TypeOK
  <2>3. req[t].file \notin wrong' => Underway(t) /\ UNCHANGED wrong
    BY <2>2 DEF Inv
  <2>4. req[t].file \notin wrong' => Underway(t)'
    BY <2>1, <2>2, <2>3, CryptKeepsText DEF Underway
  <2>5. wrong \subseteq wrong'
    BY <2>2
  <2>. QED
    BY <1>2, <2>2, <2>4, <2>5 DEF Inv, AsAttribute
<1>4. CASE CloseTemp(t)
  <2>1. output[t] \in Stored /\ output[t].layers \in Nat
    BY <1>1, StoredAssumption DEF TypeOK, Stored
  <2>2. /\ pc[t] = "close_temp" /\ pc'[t] = "reopen" /\ wrong \subseteq wrong'
        /\ UNCHANGED <<disk, encrypted, req, action, own, output>>
        /\ req[t].file \notin wrong' => UNCHANGED wrong
    BY <1>1, <1>4 DEF CloseTemp, TypeOK
  <2>3. req[t].file \notin wrong' => Underway(t) /\ own[t] /\ temp.layers = 0
    BY <2>2 DEF Inv, Underway, Empty, Plain
  <2>4. req[t].file \notin wrong' => temp' = output[t] /\ temp' # Gone
    BY <1>4, <2>1, <2>3, StoredKept DEF CloseTemp
  <2>5. req[t].file \notin wrong' => Underway(t)'
    BY <2>2, <2>3, <2>4 DEF Underway
  <2>. QED
    BY <1>2, <2>2, <2>5 DEF Inv, AsAttribute
<1>5. CASE Reopen(t) /\ ~Ends
  <2>1. /\ pc[t] = "reopen" /\ pc'[t] = "copy" /\ disk' = [disk EXCEPT ![req[t].file] = Empty]
        /\ UNCHANGED <<encrypted, temp, req, action, wrong>>
    BY <1>1, <1>5 DEF Reopen, TypeOK
  <2>2. req[t].file \notin wrong' => Underway(t)'
    BY <1>s, <1>1, <2>1 DEF Inv, Underway, TypeOK
  <2>. QED
    BY <1>1, <1>2, <1>s, <2>1, <2>2 DEF Inv, AsAttribute, TypeOK
<1>6. CASE Copy(t) /\ ~Ends
  <2>1. /\ pc[t] = "copy" /\ pc'[t] = "unlink" /\ wrong \subseteq wrong'
        /\ UNCHANGED <<disk, encrypted, temp, req, action>>
        /\ req[t].file \notin wrong' => UNCHANGED wrong /\ copied'[t] = temp
    BY <1>1, <1>6 DEF Copy, TypeOK
  <2>2. req[t].file \notin wrong' => Underway(t)'
    BY <2>1 DEF Inv, Underway
  <2>. QED
    BY <1>2, <2>1, <2>2 DEF Inv, AsAttribute
<1>7. CASE UnlinkTemp(t)
  <2>1. /\ pc[t] = "unlink" /\ pc'[t] = "close" /\ UNCHANGED <<disk, encrypted, req, action, copied>>
        /\ TempFile \notin wrong' => temp' = Gone
        /\ \A f \in Files : f \in wrong' <=> f \in wrong
    BY <1>1, <1>7, StoredAssumption DEF UnlinkTemp, TypeOK
  <2>2. req[t].file \notin wrong' => Underway(t)'
    BY <1>s, <2>1 DEF Inv, Underway
  <2>. QED
    BY <1>2, <2>1, <2>2 DEF Inv, AsAttribute
<1>8. CASE Close(t)
  <2>1. /\ pc[t] = "close" /\ wrong \subseteq wrong' /\ UNCHANGED <<encrypted, temp, req, action>>
        /\ pc'[t] = IF action[t] = "decrypt" THEN "io"
                    ELSE IF req[t].op = "create" THEN "set_true" ELSE "return"
        /\ \A f \in Files : f # req[t].file => disk'[f] = disk[f]
        /\ req[t].file \notin wrong' => UNCHANGED wrong /\ disk'[req[t].file] = copied[t]
    BY <1>1, <1>8, <1>s DEF Close, TypeOK
  <2>2. req[t].file \notin wrong' => Underway(t)'
    BY <1>1, <2>1 DEF Inv, Underway, Makes, AsAttribute, TypeOK
  <2>3. TempFile \notin wrong' => temp' = Gone
    BY <2>1 DEF Inv
  <2>4. \A f \in Files \ wrong' : f # req[t].file => AsAttribute(f)'
    BY <2>1 DEF Inv, AsAttribute
  <2>. QED
    BY <1>2, <2>1, <2>2, <2>3, <2>4 DEF Inv
<1>9. CASE SetTrue(t) /\ ~Ends
  <2>1. /\ pc[t] = "set_true" /\ pc'[t] = "idle" /\ UNCHANGED <<disk, temp, wrong>>
        /\ encrypted' = [encrypted EXCEPT ![req[t].file] = "True"]
    BY <1>1, <1>9 DEF SetTrue, TypeOK
  <2>. QED
    BY <1>1, <1>2, <1>s, <2>1 DEF Inv, AsAttribute, Underway, TypeOK
<1>10. CASE SetFalse(t) /\ ~Ends
  <2>1. /\ pc[t] = "set_false" /\ pc'[t] = "io_none" /\ UNCHANGED <<disk, temp, req, action, wrong>>
        /\ encrypted' = [encrypted EXCEPT ![req[t].file] = "False"]
    BY <1>1, <1>10 DEF SetFalse, TypeOK
  <2>. QED
    BY <1>1, <1>2, <1>s, <2>1 DEF Inv, AsAttribute, Underway, TypeOK
<1>11. CASE Return(t)
  <2>1. pc[t] = "return" /\ pc'[t] = "idle" /\ UNCHANGED <<disk, encrypted, temp, wrong>>
    BY <1>1, <1>11 DEF Return, TypeOK
  <2>. QED
    BY <1>1, <1>2, <1>s, <2>1 DEF Inv, AsAttribute, Underway
<1>12. CASE InOut(t)
  <2>. DEFINE r == req[t]
              f == r.file
  <2>1. /\ pc[t] \in {"io_none", "io_plain", "io"} /\ wrong \subseteq wrong'
        /\ UNCHANGED <<encrypted, temp, req>>
        /\ pc'[t] \in {"io_plain", "return", "crypt"}
        /\ pc'[t] = "io_plain" => pc[t] = "io_none"
        /\ pc'[t] = "crypt" => pc[t] = "io" /\ action'[t] = "encrypt"
        /\ f \notin wrong' => (pc'[t] = "return" => pc[t] # "io") /\ UNCHANGED wrong
        /\ Transfer(r) \/ UNCHANGED <<disk, result>>
    BY <1>1, <1>12 DEF InOut, TypeOK
  <2>2. f \notin wrong' => Underway(t) /\ disk[f].layers = 0
    BY <2>1 DEF Inv, Underway
  <2>3. /\ \A g \in Files : g # f => disk'[g] = disk[g]
        /\ f \notin wrong' => disk'[f].layers = 0
    BY <1>1, <1>s, <2>1, <2>2 DEF Transfer, Overwritten, Plain, TypeOK
  <2>4. f \notin wrong' => Underway(t)'
    BY <2>1, <2>2, <2>3 DEF Underway, Takes, AsAttribute
  <2>5. \A g \in Files \ wrong' : g # f => AsAttribute(g)'
    BY <2>1, <2>3 DEF Inv, AsAttribute
  <2>6. TempFile \notin wrong' => temp' = Gone
    BY <2>1 DEF Inv
  <2>. QED
    BY <1>2, <2>1, <2>4, <2>5, <2>6 DEF Inv
<1>13. ASSUME NEW f \in Files, Create(t, f) PROVE Inv(t)'
  <2>1. /\ pc[t] = "idle" /\ pc'[t] = "crypt" /\ disk' = [disk EXCEPT ![f] = Empty]
        /\ req'[t] = [op |-> "create", file |-> f] /\ action'[t] = "encrypt"
        /\ UNCHANGED <<encrypted, temp, wrong>>
    BY <1>1, <1>13 DEF Create, TypeOK
  <2>2. Underway(t)'
    BY <1>1, <2>1 DEF Underway, Takes, Empty, Plain, TypeOK
  <2>3. \A g \in Files \ wrong' : g # f => AsAttribute(g)'
    BY <1>1, <2>1 DEF Inv, AsAttribute, TypeOK
  <2>. QED
    BY <1>2, <2>1, <2>2, <2>3 DEF Inv
<1>14. ASSUME NEW r \in Requests, GetAttribute(t, r) PROVE Inv(t)'
  <2>1. /\ pc[t] = "idle" /\ req'[t] = r /\ action'[t] = "decrypt" /\ r.op # "create"
        /\ r.file \in Files /\ disk[r.file] # Gone /\ wrong \subseteq wrong'
        /\ UNCHANGED <<disk, encrypted, temp>>
        /\ pc'[t] \in {"set_false", "crypt", "io_plain"}
        /\ r.file \notin wrong' =>
              /\ UNCHANGED wrong
              /\ pc'[t] = CASE encrypted[r.file] = "none"  -> "set_false"
                            [] encrypted[r.file] = "True"  -> "crypt"
                            [] encrypted[r.file] = "False" -> "io_plain"
    BY <1>1, <1>14 DEF GetAttribute, TypeOK, Requests
  <2>2. r.file \notin wrong' => AsAttribute(r.file)
    BY <2>1 DEF Inv
  <2>3. r.file \notin wrong' => Underway(t)'
    BY <1>1, <2>1, <2>2 DEF Underway, AsAttribute, Takes, TypeOK
  <2>4. \A g \in Files \ wrong' : AsAttribute(g)'
    BY <2>1 DEF Inv, AsAttribute
  <2>5. TempFile \notin wrong' => temp' = Gone
    BY <2>1 DEF Inv
  <2>. QED
    BY <1>2, <2>1, <2>3, <2>4, <2>5 DEF Inv
<1>15. ASSUME NEW f \in Files, pc[t] = "idle", Mknod(f) PROVE Inv(t)'
  BY <1>1, <1>2, <1>15 DEF Mknod, Empty, Plain, TypeOK, Inv, AsAttribute
<1>16. ASSUME NEW f \in Files, pc[t] = "idle", Unlink(f) PROVE Inv(t)'
  BY <1>1, <1>2, <1>16, StoredAssumption DEF Unlink, TypeOK, Inv, AsAttribute
<1>17. ASSUME NEW f \in Files, NEW size \in TruncateTo, pc[t] = "idle", Truncate(f, size)
       PROVE  Inv(t)'
  <2>1. /\ UNCHANGED <<encrypted, temp, pc>> /\ \A g \in Files : g # f => disk'[g] = disk[g]
        /\ wrong \ {f} \subseteq wrong'
        /\ disk'[f] = IF size = 0 THEN Empty
                      ELSE IF disk[f].layers = 0 THEN Plain(Resized(disk[f].text, size))
                      ELSE [disk[f] EXCEPT !.text = Unknown]
    BY <1>1, <1>17 DEF Truncate, TypeOK
  <2>2. f \notin wrong' => AsAttribute(f)'
    <3>1. CASE size = 0
      BY <2>1, <3>1 DEF AsAttribute, Empty, Plain
    <3>2. CASE size # 0
      <4>1. SUFFICES ASSUME f \notin wrong' PROVE AsAttribute(f)'
        OBVIOUS
      <4>2. encrypted[f] # "True" /\ f \notin wrong
        BY <1>17, <3>2, <4>1 DEF Truncate
      <4>3. disk[f].layers = 0
        BY <1>17, <4>2 DEF Inv, AsAttribute, Truncate
      <4>. QED
        BY <2>1, <3>2, <4>2, <4>3 DEF AsAttribute, Plain
    <3>. QED
      BY <3>1, <3>2
  <2>3. \A g \in Files \ wrong' : g # f => AsAttribute(g)'
    BY <1>17, <2>1 DEF Inv, AsAttribute
  <2>4. TempFile \notin wrong' => temp' = Gone
    BY <1>17, <2>1, StoredAssumption DEF Inv
  <2>. QED
    BY <1>2, <1>17, <2>1, <2>2, <2>3, <2>4 DEF Inv
<1>18. CASE UNCHANGED vars
  BY <1>1, <1>2, <1>18 DEF vars, Inv, AsAttribute, Underway
<1>19. CASE Restart
  BY <1>1, <1>2, <1>19 DEF Restart, Inv, AsAttribute
<1>. QED
  BY <1>1, <1>0, <1>3, <1>4, <1>5, <1>6, <1>7, <1>8, <1>9, <1>10, <1>11, <1>12, <1>13, <1>14,
     <1>15, <1>16, <1>17, <1>18, <1>19 DEF Next, Serve, EnDeCrypt, Killed

LEMMA SerialInv ==
  ASSUME NEW t
  PROVE  Serial(t) /\ Spec => []Inv(t)
<1>1. Serial(t) /\ Init => Inv(t)
  BY SerialStart
<1>2. Inv(t) /\ [Next]_vars => Inv(t)'
  BY SerialStep
<1>. QED
  BY <1>1, <1>2, PTL DEF Spec

\* With one thread, between two requests and after the process has ended, the attribute
\* tells how a file is stored, and tempfile.c is gone, except for what failing calls,
\* the end of the process and truncation have left wrong (see AtRest).
THEOREM AttributeTells ==
  ASSUME NEW t
  PROVE  Serial(t) /\ Spec => []AtRest
<1>1. Inv(t) => AtRest
  BY DEF Inv, Serial, AtRest, AsAttribute, Resting
<1>. QED
  BY <1>1, SerialInv, PTL

-----------------------------------------------------------------------------
(* The plain files that the users of one thread see *)

\* Where the contents of file f are (Kept), if t is the only thread.
Holds(t, f) ==
    IF pc[t] \in Storing /\ req[t].file = f
    THEN IF pc[t] = "copy" THEN temp ELSE copied[t]
    ELSE disk[f]

LEMMA KeptIs ==
  ASSUME NEW t, Threads = {t}
  PROVE  \A f \in Files : Kept(f) = Holds(t, f)
<1>. SUFFICES ASSUME NEW f \in Files PROVE Kept(f) = Holds(t, f)
  OBVIOUS
<1>. DEFINE Busy == {u \in Threads : pc[u] \in {"copy", "unlink", "close"} /\ req[u].file = f}
<1>1. CASE pc[t] \in Storing /\ req[t].file = f
  <2>1. Busy = {t}
    BY <1>1 DEF Storing
  <2>2. (CHOOSE u \in Busy : TRUE) = t
    BY <2>1
  <2>. QED
    BY <1>1, <2>1, <2>2 DEF Kept, Holds
<1>2. CASE ~(pc[t] \in Storing /\ req[t].file = f)
  <2>1. Busy = {}
    BY <1>2 DEF Storing
  <2>. QED
    BY <1>2, <2>1 DEF Kept, Holds
<1>. QED
  BY <1>1, <1>2

View == [f \in Files |-> IF disk[f] = Gone THEN Gone
                         ELSE IF f \in wrong THEN Unknown ELSE Kept(f).text]
Unsure == wrong \ {TempFile}
Seen == IF result.layers = 0 THEN result.text ELSE Unknown

\* What is seen of a file.
Look(t, f) ==
    IF disk[f] = Gone THEN Gone ELSE IF f \in wrong THEN Unknown ELSE Holds(t, f).text

LEMMA ViewIs ==
  ASSUME NEW t
  PROVE  Threads = {t} => View = [f \in Files |-> Look(t, f)]
  BY KeptIs DEF View, Look

LEMMA ViewIsNext ==
  ASSUME NEW t
  PROVE  Threads = {t} => View' = [f \in Files |-> Look(t, f)']
<1>1. (Threads = {t} => View = [f \in Files |-> Look(t, f)])'
  BY ViewIs, PTL
<1>. QED
  BY <1>1

\* A file that is seen is a text, and no text is Gone.
LEMMA LookIs ==
  ASSUME NEW t, Inv(t), NEW f \in Files
  PROVE  /\ Look(t, f) = Gone <=> disk[f] = Gone
         /\ disk[f] # Gone => Look(t, f) \in Texts
<1>1. Threads = {t} /\ TypeOK /\ t \in Threads
  BY DEF Inv, Serial
<1>2. disk[f] # Gone /\ f \notin wrong => Holds(t, f) \in Stored
  BY <1>1 DEF Inv, Underway, Holds, TypeOK, Resting, Storing
<1>. QED
  BY <1>2, ShortTexts, StoredAssumption DEF Look, Stored

LEMMA SameTexts ==
  /\ PlainView!Texts = Texts
  /\ \A text, offset, b : PlainView!Written(text, offset, b) = Written(text, offset, b)
  /\ \A text, size : PlainView!Resized(text, size) = Resized(text, size)
<1>1. PlainView!Texts = Texts
  BY DEF PlainView!Texts, Texts, PlainView!SeqOf, SeqOf
<1>2. \A text, offset, b : PlainView!Written(text, offset, b) = Written(text, offset, b)
  BY DEF PlainView!Written, Written
<1>3. \A text, size : PlainView!Resized(text, size) = Resized(text, size)
  BY DEF PlainView!Resized, Resized
<1>. QED
  BY <1>1, <1>2, <1>3

Stutter == UNCHANGED View /\ UNCHANGED Unsure /\ UNCHANGED Seen /\ UNCHANGED mayFail

\* Nothing is seen of a step that leaves what is seen of each file.
LEMMA Unseen ==
  ASSUME NEW t, Threads = {t}, \A f \in Files : Look(t, f)' = Look(t, f),
         UNCHANGED <<wrong \ {TempFile}, result, mayFail>>
  PROVE  Stutter
<1>1. View = [f \in Files |-> Look(t, f)] /\ View' = [f \in Files |-> Look(t, f)']
  BY ViewIs, ViewIsNext
<1>. QED
  BY <1>1 DEF Stutter, Unsure, Seen

\* A call that fails, or the end of the process, leaves the file that is served wrong.
LEMMA FailIsSeen ==
  ASSUME NEW t, Inv(t), NEW f \in Files, mayFail, disk[f] # Gone, disk'[f] # Gone,
         wrong' \ {TempFile} = (wrong \ {TempFile}) \cup {f},
         \A g \in Files : g # f => Look(t, g)' = Look(t, g), UNCHANGED <<result, mayFail>>
  PROVE  PlainView!Next
<1>1. View = [g \in Files |-> Look(t, g)] /\ View' = [g \in Files |-> Look(t, g)']
  BY ViewIs, ViewIsNext DEF Inv, Serial
<1>2. Look(t, f)' = Unknown /\ Look(t, f) # Gone
  BY StoredAssumption, LookIs DEF Look
<1>3. View' = [View EXCEPT ![f] = Unknown] /\ View[f] # Gone
  BY <1>1, <1>2
<1>4. Unsure' = Unsure \cup {f} /\ UNCHANGED Seen
  BY DEF Unsure, Seen
<1>. QED
  BY <1>3, <1>4 DEF PlainView!Next, PlainView!fail, PlainView!spoil, View, Seen, Unsure

LEMMA EndIsSeen ==
  ASSUME NEW t, Inv(t), Ends, UNCHANGED mayFail, mayFail \/ (pc[t] = "copy" /\ temp = Gone)
  PROVE  PlainView!Next \/ Stutter
<1>1. Threads = {t} /\ TypeOK /\ t \in Threads
  BY DEF Inv, Serial
<1>. DEFINE f == req[t].file
<1>2. pc'[t] = "ended" /\ UNCHANGED <<disk, result>>
  BY <1>1 DEF Ends
<1>3. \A g \in Files : g \in wrong' <=> g \in wrong \/ (Midway(t) /\ g = f)
  BY <1>1, StoredAssumption DEF Ends
<1>4. pc[t] \in Storing => Midway(t)
  BY DEF Storing, Midway
<1>5. \A g \in Files : g # f => Look(t, g)' = Look(t, g)
  BY <1>2, <1>3 DEF Look, Holds, Storing
<1>6. Midway(t) => f \in Files /\ disk[f] # Gone
  BY <1>1, Served DEF Midway
<1>7. wrong' \ {TempFile} = (wrong \ {TempFile}) \cup (IF Midway(t) THEN {f} ELSE {})
  BY <1>1, <1>6, StoredAssumption DEF Ends
<1>8. CASE ~Midway(t)
  <2>1. \A g \in Files : Look(t, g)' = Look(t, g)
    BY <1>2, <1>3, <1>4, <1>8 DEF Look, Holds, Storing
  <2>. QED
    BY <1>1, <1>2, <1>7, <1>8, <2>1, Unseen
<1>9. CASE Midway(t) /\ mayFail
  BY <1>2, <1>5, <1>6, <1>7, <1>9, FailIsSeen
<1>10. CASE pc[t] = "copy" /\ temp = Gone
  <2>1. Midway(t) /\ f \in wrong
    BY <1>10 DEF Midway, Inv, Underway, Resting
  <2>2. \A g \in Files : g = f => Look(t, g)' = Look(t, g)
    BY <1>2, <1>3, <1>6, <2>1 DEF Look
  <2>3. wrong' \ {TempFile} = wrong \ {TempFile}
    BY <1>6, <1>7, <2>1, StoredAssumption
  <2>. QED
    BY <1>1, <1>2, <1>5, <2>2, <2>3, Unseen
<1>. QED
  BY <1>8, <1>9, <1>10

LEMMA ViewStep ==
  ASSUME NEW t, Inv(t), Inv(t)', [Next]_vars
  PROVE  PlainView!Next \/ Stutter
<1>1. Threads = {t} /\ TypeOK /\ TypeOK' /\ t \in Threads
  BY DEF Inv, Serial
<1>2. View = [f \in Files |-> Look(t, f)] /\ View' = [f \in Files |-> Look(t, f)']
  BY <1>1, ViewIs, ViewIsNext
<1>3. UNCHANGED mayFail
  BY DEF Next, vars
<1>4. ASSUME \A f \in Files : Look(t, f)' = Look(t, f), UNCHANGED <<wrong \ {TempFile}, result>>
      PROVE  Stutter
  BY <1>1, <1>3, <1>4, Unseen
<1>. USE DEF Goto, Returns, cryptVars, Storing, Resting
<1>s. pc[t] \notin Resting => /\ req[t].file \in Files /\ req[t].file # TempFile
                              /\ disk[req[t].file] \in Stored /\ disk[req[t].file] # Gone
  BY <1>1, Served, StoredAssumption
<1>5. CASE Crypt(t)
  <2>1. CASE Ends /\ mayFail
    BY <1>3, <2>1, EndIsSeen
  <2>2. CASE Goto(t, "crypt", "close_temp") /\ UNCHANGED <<disk, wrong, result>>
    BY <1>1, <1>4, <2>2 DEF TypeOK, Look, Holds
  <2>3. CASE Goto(t, "crypt", "close_temp") /\ mayFail /\ UNCHANGED <<disk, req, result>>
             /\ wrong' = wrong \cup {req[t].file}
    <3>1. \A g \in Files : g # req[t].file => Look(t, g)' = Look(t, g)
      BY <1>1, <2>3 DEF TypeOK, Look, Holds
    <3>. QED
      BY <1>3, <1>s, <2>3, <3>1, FailIsSeen
  <2>. QED
    BY <1>5, <2>1, <2>2, <2>3 DEF Crypt
<1>6. CASE CloseTemp(t)
  <2>1. CASE UNCHANGED wrong
    BY <1>1, <1>4, <1>6, <2>1 DEF CloseTemp, TypeOK, Look, Holds
  <2>2. CASE mayFail /\ wrong' = wrong \cup {req[t].file}
    <3>1. \A g \in Files : g # req[t].file => Look(t, g)' = Look(t, g)
      BY <1>1, <1>6, <2>2 DEF CloseTemp, TypeOK, Look, Holds
    <3>. QED
      BY <1>3, <1>6, <1>s, <2>2, <3>1, FailIsSeen DEF CloseTemp
  <2>. QED
    BY <1>6, <2>1, <2>2 DEF CloseTemp
<1>7. CASE Reopen(t)
  <2>1. CASE Ends /\ mayFail
    BY <1>3, <2>1, EndIsSeen
  <2>2. CASE Goto(t, "reopen", "copy") /\ disk' = [disk EXCEPT ![req[t].file] = Empty]
             /\ UNCHANGED <<temp, req, wrong, result>>
    <3>1. \A g \in Files : g # req[t].file => Look(t, g)' = Look(t, g)
      BY <1>1, <2>2 DEF TypeOK, Look, Holds
    <3>2. Look(t, req[t].file)' = Look(t, req[t].file)
      BY <1>1, <1>s, <2>2, StoredKept DEF TypeOK, Look, Holds, Inv, Underway
    <3>. QED
      BY <1>4, <2>2, <3>1, <3>2
  <2>. QED
    BY <1>7, <2>1, <2>2 DEF Reopen
<1>8. CASE Copy(t)
  <2>1. CASE Ends /\ (mayFail \/ (pc[t] = "copy" /\ temp = Gone))
    BY <1>3, <2>1, EndIsSeen
  <2>2. CASE Goto(t, "copy", "unlink") /\ copied' = [copied EXCEPT ![t] = temp]
             /\ UNCHANGED <<disk, temp, req, wrong, result>>
    BY <1>1, <1>4, <2>2 DEF TypeOK, Look, Holds
  <2>3. CASE Goto(t, "copy", "unlink") /\ mayFail /\ wrong' = wrong \cup {req[t].file}
             /\ UNCHANGED <<disk, req, result>>
    <3>1. \A g \in Files : g # req[t].file => Look(t, g)' = Look(t, g)
      BY <1>1, <2>3 DEF TypeOK, Look, Holds
    <3>. QED
      BY <1>3, <1>s, <2>3, <3>1, FailIsSeen
  <2>. QED
    BY <1>8, <2>1, <2>2, <2>3 DEF Copy
<1>9. CASE UnlinkTemp(t)
  <2>1. wrong' \ {TempFile} = wrong \ {TempFile} /\ \A f \in Files : f \in wrong' <=> f \in wrong
    BY <1>9, StoredAssumption DEF UnlinkTemp
  <2>. QED
    BY <1>1, <1>4, <1>9, <2>1 DEF UnlinkTemp, TypeOK, Look, Holds
<1>10. CASE Close(t)
  <2>. DEFINE f == req[t].file
  <2>1. /\ pc[t] = "close" /\ pc'[t] \in {"io", "set_true", "return"}
        /\ \A g \in Files : g # f => disk'[g] = disk[g]
        /\ UNCHANGED <<req, result>>
    BY <1>1, <1>10, <1>s DEF Close, TypeOK
  <2>2. wrong \subseteq wrong' /\ \A g \in wrong' : g \in wrong \/ g = f
    BY <1>10 DEF Close
  <2>3. \A g \in Files : g # f => Look(t, g)' = Look(t, g)
    BY <2>1, <2>2 DEF Look, Holds
  <2>4. disk'[f] # Gone
    BY <1>1, <1>s, <2>1 DEF TypeOK
  <2>5. CASE UNCHANGED wrong /\ disk' = [disk EXCEPT ![f] = copied[t]]
    <3>1. Look(t, f)' = Look(t, f)
      BY <1>1, <1>s, <2>1, <2>4, <2>5 DEF TypeOK, Look, Holds
    <3>. QED
      BY <1>4, <2>1, <2>3, <2>5, <3>1
  <2>6. CASE mayFail /\ wrong' = wrong \cup {f}
    BY <1>3, <1>s, <2>1, <2>3, <2>4, <2>6, FailIsSeen
  <2>. QED
    BY <1>10, <2>5, <2>6 DEF Close
<1>11. CASE SetTrue(t) \/ SetFalse(t) \/ Return(t)
  <2>1. CASE Ends /\ mayFail
    BY <1>3, <2>1, EndIsSeen
  <2>2. CASE ~Ends
    BY <1>1, <1>4, <1>11, <2>2 DEF SetTrue, SetFalse, Return, TypeOK, Look, Holds
  <2>3. CASE Return(t)
    BY <1>1, <1>4, <2>3 DEF Return, TypeOK, Look, Holds
  <2>4. CASE Ends /\ ~mayFail /\ ~Return(t)
    BY <1>1, <1>4, <1>11, <2>4 DEF SetTrue, SetFalse, TypeOK, Look, Holds
  <2>. QED
    BY <2>1, <2>2, <2>3, <2>4
<1>12. CASE InOut(t)
  <2>. DEFINE r == req[t]
              f == r.file
  <2>1. /\ pc[t] \in {"io_none", "io_plain", "io"} /\ pc'[t] \in {"io_plain", "return", "crypt"}
        /\ UNCHANGED <<temp, req, copied>>
        /\ (Transfer(r) /\ UNCHANGED wrong) \/ (mayFail /\ UNCHANGED <<disk, result>>)
        /\ UNCHANGED wrong \/ wrong' = wrong \cup {f}
    BY <1>12, <1>1 DEF InOut, TypeOK
  <2>2. /\ f \in Files /\ disk[f] \in Stored /\ r.op \in {"create", "read", "write"}
        /\ disk[f] # Gone /\ f # TempFile
        /\ r.op = "write" => r.offset \in 0 .. MaxLen - 1 /\ r.byte \in Bytes
        /\ f \notin wrong => disk[f].layers = 0
    BY <1>1, <1>s, <2>1, Served DEF Inv, Underway
  <2>3. /\ \A g \in Files : Look(t, g) = IF disk[g] = Gone THEN Gone
                                         ELSE IF g \in wrong THEN Unknown ELSE disk[g].text
        /\ \A g \in Files : Look(t, g)' = IF disk'[g] = Gone THEN Gone
                                          ELSE IF g \in wrong' THEN Unknown ELSE disk'[g].text
    BY <2>1 DEF Look, Holds
  <2>4. CASE UNCHANGED wrong /\ r.op = "read" /\ result' = disk[f] /\ UNCHANGED disk
    <3>1. UNCHANGED View /\ UNCHANGED Unsure
      BY <1>2, <2>3, <2>4 DEF Unsure
    <3>2. View[f] # Gone
      BY <1>2, <2>2, LookIs
    <3>3. Seen' \in IF f \in Unsure THEN Texts ELSE {View[f]}
      <4>1. Seen' = IF disk[f].layers = 0 THEN disk[f].text ELSE Unknown
        BY <2>4 DEF Seen
      <4>2. disk[f].text \in Texts /\ Unknown \in Texts
        BY <2>2, ShortTexts DEF Stored
      <4>. QED
        BY <1>2, <2>2, <2>3, <4>1, <4>2 DEF Unsure
    <3>. QED
      BY <1>3, <2>2, <3>1, <3>2, <3>3, SameTexts DEF PlainView!Next, PlainView!read, View, Seen, Unsure
  <2>5. CASE UNCHANGED wrong /\ r.op = "write" /\ disk' = [disk EXCEPT ![f] = Overwritten(@, r)]
             /\ UNCHANGED result
    <3>. DEFINE c == Overwritten(disk[f], r)
    <3>1. c # Gone /\ (f \notin wrong => c.text = Written(disk[f].text, r.offset, r.byte))
      BY <2>2, <2>5, TextsKept, StoredKept DEF Overwritten, Plain, Stored
    <3>2. disk'[f] = c /\ \A g \in Files : g # f => disk'[g] = disk[g]
      BY <1>1, <2>2, <2>5 DEF TypeOK
    <3>. HIDE DEF c
    <3>3. \A g \in Files : Look(t, g)' = IF g = f THEN Written(Look(t, f), r.offset, r.byte)
                                         ELSE Look(t, g)
      BY <2>2, <2>3, <2>5, <3>1, <3>2 DEF Written
    <3>4. View' = [View EXCEPT ![f] = Written(@, r.offset, r.byte)]
      BY <1>2, <2>2, <3>3
    <3>5. View[f] # Gone /\ UNCHANGED Seen /\ UNCHANGED Unsure
      BY <1>2, <2>2, <2>5, LookIs DEF Seen, Unsure
    <3>. QED
      BY <1>3, <2>2, <2>5, <3>4, <3>5, SameTexts
      DEF PlainView!Next, PlainView!write, View, Seen, Unsure
  <2>6. CASE mayFail /\ UNCHANGED <<disk, result>> /\ UNCHANGED wrong
    BY <1>4, <2>3, <2>6
  <2>7. CASE mayFail /\ UNCHANGED <<disk, result>> /\ wrong' = wrong \cup {f}
    <3>1. \A g \in Files : g # f => Look(t, g)' = Look(t, g)
      BY <2>3, <2>7
    <3>. QED
      BY <1>3, <2>2, <2>7, <3>1, FailIsSeen
  <2>. QED
    BY <2>1, <2>4, <2>5, <2>6, <2>7 DEF Transfer
<1>13. ASSUME NEW r \in Requests, GetAttribute(t, r)
       PROVE  PlainView!Next \/ Stutter
  <2>1. /\ pc[t] = "idle" /\ pc'[t] \in {"set_false", "crypt", "io_plain"}
        /\ UNCHANGED <<disk, result>> /\ r.file \in Files /\ disk[r.file] # Gone
        /\ UNCHANGED wrong \/ (mayFail /\ wrong' = wrong \cup {r.file})
    BY <1>1, <1>13 DEF GetAttribute, TypeOK, Requests
  <2>2. CASE UNCHANGED wrong
    BY <1>4, <2>1, <2>2 DEF Look, Holds
  <2>3. CASE mayFail /\ wrong' = wrong \cup {r.file}
    <3>1. \A g \in Files : g # r.file => Look(t, g)' = Look(t, g)
      BY <2>1, <2>3 DEF Look, Holds
    <3>. QED
      BY <1>3, <2>1, <2>3, <3>1, StoredAssumption, FailIsSeen
  <2>. QED
    BY <2>1, <2>2, <2>3
<1>14. ASSUME NEW f \in Files,
              disk[f] = Gone, disk' = [disk EXCEPT ![f] = Empty], UNCHANGED <<wrong, result>>,
              pc[t] = "idle", pc'[t] \in {"idle", "crypt"}
       PROVE  PlainView!Next
  <2>0. f \notin wrong
    BY <1>1, <1>14, StoredAssumption DEF TypeOK
  <2>1. \A g \in Files : Look(t, g)' = IF g = f THEN << >> ELSE Look(t, g)
    BY <1>1, <1>14, <2>0, StoredKept DEF TypeOK, Look, Holds, Empty, Plain
  <2>2. View' = [View EXCEPT ![f] = << >>] /\ View[f] = Gone /\ UNCHANGED Seen /\ UNCHANGED Unsure
    BY <1>2, <1>14, <2>1, LookIs DEF Seen, Unsure
  <2>. QED
    BY <1>3, <1>14, <2>2 DEF PlainView!Next, PlainView!create, View, Seen, Unsure
<1>15. ASSUME NEW f \in Files, Create(t, f) PROVE PlainView!Next
  BY <1>1, <1>14, <1>15 DEF Create, TypeOK
<1>16. ASSUME NEW f \in Files, pc[t] = "idle", Mknod(f) PROVE PlainView!Next
  BY <1>14, <1>16 DEF Mknod
<1>17. ASSUME NEW f \in Files, pc[t] = "idle", Unlink(f) PROVE PlainView!Next
  <2>1. \A g \in Files : Look(t, g)' = IF g = f THEN Gone ELSE Look(t, g)
    BY <1>1, <1>17 DEF Unlink, TypeOK, Look, Holds
  <2>2. /\ View' = [View EXCEPT ![f] = Gone] /\ View[f] # Gone
        /\ UNCHANGED Seen /\ Unsure' = Unsure \ {f}
    BY <1>2, <1>17, <2>1, LookIs DEF Unlink, Seen, Unsure
  <2>. QED
    BY <1>3, <2>2 DEF PlainView!Next, PlainView!unlink, View, Seen, Unsure
<1>18. ASSUME NEW f \in Files, NEW size \in TruncateTo, pc[t] = "idle", Truncate(f, size)
       PROVE  PlainView!Next
  <2>1. /\ disk[f] # Gone /\ UNCHANGED <<pc, result>> /\ disk[f] \in Stored
        /\ \A g \in Files : g # f => disk'[g] = disk[g]
        /\ disk'[f] = IF size = 0 THEN Empty
                      ELSE IF disk[f].layers = 0 THEN Plain(Resized(disk[f].text, size))
                      ELSE [disk[f] EXCEPT !.text = Unknown]
        /\ wrong' = IF size = 0 THEN wrong \ {f}
                    ELSE IF encrypted[f] = "True" THEN wrong \cup {f} ELSE wrong
    BY <1>1, <1>18 DEF Truncate, TypeOK
  <2>2. disk'[f] # Gone
    BY <2>1, TextsKept, StoredKept DEF Stored
  <2>3. /\ \A g \in Files : g # f => Look(t, g)' = Look(t, g)
        /\ Look(t, f) = IF f \in wrong THEN Unknown ELSE disk[f].text
        /\ Look(t, f)' = IF f \in wrong' THEN Unknown ELSE disk'[f].text
    BY <1>18, <2>1, <2>2 DEF Look, Holds
  <2>4. View[f] # Gone /\ UNCHANGED Seen
    BY <1>2, <2>1, LookIs DEF Seen
  <2>5. CASE size # 0 /\ encrypted[f] = "True"
    <3>1. View' = [View EXCEPT ![f] = Unknown] /\ Unsure' = Unsure \cup {f}
      BY <1>2, <2>1, <2>3, <2>5, StoredAssumption DEF Unsure
    <3>. QED
      BY <1>3, <2>4, <2>5, <3>1 DEF PlainView!Next, PlainView!truncate, PlainView!spoil, View, Seen, Unsure
  <2>6. CASE size = 0 \/ encrypted[f] # "True"
    <3>1. f \notin wrong /\ size # 0 => disk[f].layers = 0
      BY <1>18, <2>1, <2>6 DEF Inv, AsAttribute
    <3>2. Look(t, f)' = Resized(Look(t, f), size)
      <4>1. CASE size = 0
        BY <2>1, <2>3, <4>1, CutToNothing DEF Empty, Plain
      <4>2. CASE size # 0 /\ f \in wrong
        BY <2>1, <2>3, <2>6, <4>2 DEF Resized
      <4>3. CASE size # 0 /\ f \notin wrong
        BY <2>1, <2>3, <2>6, <3>1, <4>3 DEF Plain
      <4>. QED
        BY <4>1, <4>2, <4>3
    <3>3. View' = [View EXCEPT ![f] = Resized(@, size)]
      BY <1>2, <2>3, <3>2
    <3>4. Unsure' = IF size = 0 THEN Unsure \ {f} ELSE Unsure
      BY <2>1, <2>6 DEF Unsure
    <3>. QED
      BY <1>3, <2>4, <3>3, <3>4, SameTexts DEF PlainView!Next, PlainView!truncate, View, Seen, Unsure
  <2>. QED
    BY <2>5, <2>6
<1>19. CASE UNCHANGED vars
  BY <1>4, <1>19 DEF vars, Look, Holds
<1>20. CASE Killed
  BY <1>3, <1>20, EndIsSeen DEF Killed
<1>21. CASE Restart
  BY <1>1, <1>4, <1>21 DEF Restart, Look, Holds
<1>. QED
  BY <1>1, <1>5, <1>6, <1>7, <1>8, <1>9, <1>10, <1>11, <1>12, <1>13, <1>15, <1>16, <1>17,
     <1>18, <1>19, <1>20, <1>21 DEF Next, Serve, EnDeCrypt

\* Users of one thread that wait for each request see plain files, a file that was
\* truncated to a size other than 0, or served when a call failed or the process ended,
\* apart (ImplementsPlainFiles).
THEOREM PlainFilesRefinement ==
  ASSUME NEW t
  PROVE  Serial(t) /\ Spec => ImplementsPlainFiles
<1>1. Serial(t) /\ Init => PlainView!Init
  <2>. SUFFICES ASSUME Serial(t), Init PROVE PlainView!Init
    OBVIOUS
  <2>1. Inv(t) /\ Threads = {t}
    BY SerialStart DEF Serial
  <2>2. View = [f \in Files |-> Look(t, f)]
    BY <2>1, ViewIs
  <2>3. View \in [Files -> Texts \cup {Gone}]
    BY <2>1, <2>2, LookIs
  <2>. QED
    BY <2>3, SameTexts DEF PlainView!Init, View, Init, Empty, Plain
<1>2. Inv(t) /\ Inv(t)' /\ [Next]_vars => [PlainView!Next]_(PlainView!plainVars)
  BY ViewStep DEF PlainView!plainVars, View, Seen, Unsure, Stutter
<1>. QED
  BY <1>1, <1>2, SerialInv, PTL DEF Spec, ImplementsPlainFiles, PlainView!Spec

=============================================================================
