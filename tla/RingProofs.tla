----------------------------- MODULE RingProofs ------------------------------
(***************************************************************************)
(* What a push and a pop do to a ring, for every size: lemmas about the    *)
(* operators of QueueRing for the proofs about its users.                  *)
(***************************************************************************)
EXTENDS QueueRing, SequenceTheorems, TLAPS

\* queue_init gives the ring at least one slot.
LEMMA SizePositive == maxSize \in Nat \ {0}
  BY QueueAssumption DEF maxSize

\* The index after i, without the remainder: queue.c:77 and queue.c:90 wrap
\* around at the end of the array and stay inside it.
LEMMA SuccIs ==
  ASSUME NEW i \in Slots
  PROVE  /\ Succ(i) = IF i + 1 < maxSize THEN i + 1 ELSE 0
         /\ Succ(i) \in Slots
<1>. DEFINE m == maxSize
<1>1. m \in Nat \ {0}
  BY SizePositive
<1>2. i \in 0 .. m - 1
  BY DEF Slots
<1>. HIDE DEF m
<1>3. (i + 1) % m = IF i + 1 < m THEN i + 1 ELSE 0
  <2>1. CASE i + 1 < m
    BY <1>1, <1>2, <2>1
  <2>2. CASE i + 1 = m
    BY <1>1, <1>2, <2>2
  <2>. QED
    BY <1>1, <1>2, <2>1, <2>2
<1>4. (i + 1) % m \in 0 .. m - 1
  BY <1>1, <1>2, <1>3
<1>. QED
  BY <1>3, <1>4 DEF m, Succ, Slots

\* A ring without holes has room for 0 to maxSize elements; "front = rear" with
\* a null slot (queue_is_empty) means none, with a payload (queue_is_full) means
\* maxSize.
LEMMA CountIs ==
  ASSUME NEW a, NEW f \in Slots, NEW r \in Slots
  PROVE  /\ Count(a, f, r) \in 0 .. maxSize
         /\ Count(a, f, r) = 0 <=> f = r /\ a[f] = NULL
         /\ Count(a, f, r) = maxSize <=> f = r /\ a[f] # NULL
  BY SizePositive DEF Count, Slots

\* A push on a ring that is not full leaves a ring without holes and appends
\* its payload to the contents.
LEMMA PushRing ==
  ASSUME NEW V, NEW a \in [Slots -> V], NEW p \in V, p # NULL,
         NEW f \in Slots, NEW r \in Slots,
         WellFormed(a, f, r), ~(f = r /\ a[f] # NULL)
  PROVE  /\ WellFormed([a EXCEPT ![r] = p], f, Succ(r))
         /\ Count([a EXCEPT ![r] = p], f, Succ(r)) = Count(a, f, r) + 1
         /\ Contents([a EXCEPT ![r] = p], f, Succ(r)) = Append(Contents(a, f, r), p)
<1>. DEFINE b == [a EXCEPT ![r] = p]
            s == Succ(r)
            n == Count(a, f, r)
<1>1. /\ s \in Slots /\ s = IF r + 1 < maxSize THEN r + 1 ELSE 0
      /\ maxSize \in Nat \ {0}
  BY SuccIs, SizePositive
<1>2. /\ b \in [Slots -> V] /\ b[r] = p
      /\ \A i \in Slots : i # r => b[i] = a[i]
  OBVIOUS
<1>3. f = r => \A i \in Slots : a[i] = NULL
  BY DEF WellFormed
<1>4. f # r => \A i \in Slots : a[i] # NULL <=> InSpan(f, r, i)
  BY DEF WellFormed
<1>. HIDE DEF b, s
<1>5. WellFormed(b, f, s)
  <2>1. CASE f = s
    <3>1. \A i \in Slots : b[i] # NULL
      <4>. SUFFICES ASSUME NEW i \in Slots, i # r PROVE a[i] # NULL
        BY <1>2
      <4>. QED
        BY <1>1, <1>3, <1>4, <2>1 DEF InSpan, Slots
    <3>. QED
      BY <2>1, <3>1 DEF WellFormed
  <2>2. CASE f # s
    <3>1. ASSUME NEW i \in Slots PROVE b[i] # NULL <=> InSpan(f, s, i)
      BY <1>1, <1>2, <1>3, <1>4, <2>2 DEF InSpan, Slots
    <3>. QED
      BY <2>2, <3>1 DEF WellFormed
  <2>. QED
    BY <2>1, <2>2
<1>6. n \in 0 .. maxSize /\ n = IF f <= r THEN r - f ELSE r + maxSize - f
  BY CountIs, <1>3 DEF Count, Slots
<1>7. Count(b, f, s) = n + 1
  <2>1. b[f] # NULL
    BY <1>2, <1>4 DEF InSpan, Slots
  <2>2. Count(b, f, s) = IF f < s THEN s - f ELSE s + maxSize - f
    BY <1>1, <2>1 DEF Count, Slots
  <2>. HIDE DEF n
  <2>. QED
    BY <1>1, <1>6, <2>2 DEF Slots
<1>8. Wrap(f + n) = r
  BY <1>1, <1>6 DEF Wrap, Slots
<1>9. ASSUME NEW k \in 1 .. n
      PROVE  Wrap(f + k - 1) \in Slots /\ Wrap(f + k - 1) # r
  BY <1>1, <1>6 DEF Wrap, Slots
<1>. HIDE DEF n
<1>10. Contents(b, f, s) = Append(Contents(a, f, r), p)
  <2>1. Contents(a, f, r) = [k \in 1 .. n |-> a[Wrap(f + k - 1)]]
    BY DEF Contents, n
  <2>2. Contents(b, f, s) = [k \in 1 .. n + 1 |-> b[Wrap(f + k - 1)]]
    BY <1>7 DEF Contents
  <2>3. Contents(a, f, r) \in Seq(V) /\ Len(Contents(a, f, r)) = n
    BY <1>6, <1>9, <2>1
  <2>4. ASSUME NEW k \in 1 .. n + 1
        PROVE  b[Wrap(f + k - 1)] = IF k <= n THEN a[Wrap(f + k - 1)] ELSE p
    <3>1. CASE k <= n
      BY <1>2, <1>6, <1>9, <3>1
    <3>2. CASE k = n + 1
      BY <1>2, <1>6, <1>8, <3>2
    <3>. QED
      BY <1>6, <3>1, <3>2
  <2>. QED
    BY <1>6, <2>1, <2>2, <2>3, <2>4
<1>. QED
  BY <1>5, <1>7, <1>10 DEF b, s, n

\* A pop on a ring that is not empty leaves a ring without holes; it takes the
\* payload of the front slot, and that was the first of the contents.
LEMMA PopRing ==
  ASSUME NEW V, NULL \in V, NEW a \in [Slots -> V],
         NEW f \in Slots, NEW r \in Slots,
         WellFormed(a, f, r), ~(f = r /\ a[f] = NULL)
  PROVE  /\ a[f] # NULL
         /\ WellFormed([a EXCEPT ![f] = NULL], Succ(f), r)
         /\ Count([a EXCEPT ![f] = NULL], Succ(f), r) = Count(a, f, r) - 1
         /\ Len(Contents(a, f, r)) > 0 /\ Contents(a, f, r)[1] = a[f]
         /\ Contents([a EXCEPT ![f] = NULL], Succ(f), r) = Tail(Contents(a, f, r))
<1>. DEFINE b == [a EXCEPT ![f] = NULL]
            s == Succ(f)
            n == Count(a, f, r)
<1>1. /\ s \in Slots /\ s = IF f + 1 < maxSize THEN f + 1 ELSE 0
      /\ maxSize \in Nat \ {0}
  BY SuccIs, SizePositive
<1>2. /\ b \in [Slots -> V] /\ b[f] = NULL
      /\ \A i \in Slots : i # f => b[i] = a[i]
  OBVIOUS
<1>3. f = r => \A i \in Slots : a[i] # NULL
  BY DEF WellFormed
<1>4. f # r => \A i \in Slots : a[i] # NULL <=> InSpan(f, r, i)
  BY DEF WellFormed
<1>. HIDE DEF b, s
<1>5. a[f] # NULL
  BY <1>3, <1>4 DEF InSpan, Slots
<1>6. WellFormed(b, s, r)
  <2>1. CASE s = r
    <3>1. \A i \in Slots : b[i] = NULL
      <4>. SUFFICES ASSUME NEW i \in Slots, i # f PROVE a[i] = NULL
        BY <1>2
      <4>. QED
        BY <1>1, <1>3, <1>4, <2>1 DEF InSpan, Slots
    <3>. QED
      BY <2>1, <3>1 DEF WellFormed
  <2>2. CASE s # r
    <3>1. ASSUME NEW i \in Slots PROVE b[i] # NULL <=> InSpan(s, r, i)
      BY <1>1, <1>2, <1>3, <1>4, <2>2 DEF InSpan, Slots
    <3>. QED
      BY <2>2, <3>1 DEF WellFormed
  <2>. QED
    BY <2>1, <2>2
<1>7. n \in 1 .. maxSize /\ n = IF f < r THEN r - f ELSE r + maxSize - f
  BY <1>1, <1>5 DEF Count, Slots
<1>8. Count(b, s, r) = n - 1
  <2>1. s = r => b[s] = NULL
    BY <1>1, <1>2, <1>6 DEF WellFormed
  <2>2. Count(b, s, r) = IF s <= r THEN r - s ELSE r + maxSize - s
    BY <1>1, <2>1 DEF Count, Slots
  <2>. HIDE DEF n
  <2>. QED
    BY <1>1, <1>7, <2>2 DEF Slots
<1>9. Wrap(f) = f
  BY <1>1 DEF Wrap, Slots
<1>10. ASSUME NEW k \in 1 .. n
       PROVE  Wrap(f + k - 1) \in Slots /\ (k > 1 => Wrap(f + k - 1) # f)
  BY <1>1, <1>7 DEF Wrap, Slots
<1>11. ASSUME NEW k \in 1 .. n - 1
       PROVE  Wrap(s + k - 1) = Wrap(f + (k + 1) - 1)
  BY <1>1, <1>7 DEF Wrap, Slots
<1>. HIDE DEF n
<1>12. Contents(a, f, r) = [k \in 1 .. n |-> a[Wrap(f + k - 1)]]
  BY DEF Contents, n
<1>13. /\ Contents(a, f, r) \in Seq(V) /\ Len(Contents(a, f, r)) = n
       /\ Len(Contents(a, f, r)) > 0 /\ Contents(a, f, r) # << >>
  BY <1>7, <1>10, <1>12
<1>14. Contents(a, f, r)[1] = a[f]
  BY <1>7, <1>9, <1>12 DEF Slots
<1>15. Contents(b, s, r) = Tail(Contents(a, f, r))
  <2>1. Contents(b, s, r) = [k \in 1 .. n - 1 |-> b[Wrap(s + k - 1)]]
    BY <1>8 DEF Contents
  <2>2. ASSUME NEW k \in 1 .. n - 1
        PROVE  b[Wrap(s + k - 1)] = Contents(a, f, r)[k + 1]
    BY <1>2, <1>7, <1>10, <1>11, <1>12
  <2>3. Contents(b, s, r) = [k \in 1 .. n - 1 |-> Contents(a, f, r)[k + 1]]
    BY <2>1, <2>2, Zenon
  <2>4. Tail(Contents(a, f, r)) = [k \in 1 .. n - 1 |-> Contents(a, f, r)[k + 1]]
    <3>. DEFINE c == Contents(a, f, r)
                d == [k \in 1 .. n - 1 |-> c[k + 1]]
    <3>1. /\ Tail(c) \in Seq(V) /\ Len(Tail(c)) = n - 1
          /\ \A k \in 1 .. n - 1 : Tail(c)[k] = c[k + 1]
      BY <1>13, HeadTailProperties
    <3>2. d \in Seq(V) /\ Len(d) = n - 1
      BY <1>7, <1>13
    <3>3. ASSUME NEW k \in 1 .. n - 1 PROVE d[k] = Tail(c)[k]
      BY <3>1
    <3>. HIDE DEF c, d
    <3>4. Tail(c) = d
      BY <1>7, <3>1, <3>2, <3>3, SeqEqual
    <3>. QED
      BY <3>4 DEF c, d
  <2>. QED
    BY <2>3, <2>4, Zenon
<1>. QED
  BY <1>5, <1>6, <1>8, <1>13, <1>14, <1>15 DEF b, s, n
=============================================================================
