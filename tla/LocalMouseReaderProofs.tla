------------------------ MODULE LocalMouseReaderProofs ------------------------
(***************************************************************************)
(* Proofs about the reader of the local mice, for any mice, buttons and    *)
(* length of the kernel's queues, and any number of events and faults.     *)
(***************************************************************************)
EXTENDS LocalMouseReader, FiniteSetTheorems, WellFoundedInduction, SequenceTheorems, TLAPS

(***************************************************************************)
(* Induction over the natural numbers, for a set that holds those for      *)
(* which something is true.                                                *)
(***************************************************************************)
Below == {p \in Nat \X Nat : p[1] < p[2]}

\* The order of the natural numbers is well founded.
LEMMA BelowWellFounded == IsWellFoundedOn(Below, Nat)
<1>1. OpToRel(<, Nat) = Below
  BY DEF OpToRel, Below
<1> QED
  BY <1>1, NatLessThanWellFounded

\* A set that holds 0 and with a number the next one holds them all.
LEMMA Induction ==
  ASSUME NEW T, 0 \in T, \A n \in Nat : n \in T => n + 1 \in T
  PROVE  Nat \subseteq T
<1> SUFFICES ASSUME Nat \ T # {} PROVE FALSE
  OBVIOUS
<1>1. PICK n \in Nat \ T : \A k \in Nat \ T : <<k, n>> \notin Below
  BY BelowWellFounded, WFMin
<1>2. n - 1 \in Nat /\ n - 1 < n
  BY <1>1
<1>3. n - 1 \notin T
  BY <1>1, <1>2
<1>4. <<n - 1, n>> \in Below
  BY <1>2 DEF Below
<1> QED
  BY <1>1, <1>2, <1>3, <1>4
-----------------------------------------------------------------------------
(***************************************************************************)
(* Events, and a queue that is read up to some event.                      *)
(***************************************************************************)
LEMMA EventType ==
  ASSUME NEW e \in Event
  PROVE  /\ e.step \in {0, 1} /\ e.down \in SUBSET Button /\ e.up \in SUBSET Button
<1>1. CASE e = Other
  BY <1>1 DEF Other
<1>2. CASE e = Move
  BY <1>2 DEF Move, Other
<1>3. ASSUME NEW b \in Button, e = Press(b) \/ e = Release(b)
      PROVE  e.step \in {0, 1} /\ e.down \in SUBSET Button /\ e.up \in SUBSET Button
  BY <1>3 DEF Press, Release, Other
<1> QED
  BY <1>1, <1>2, <1>3 DEF Event

\* The events of no interest are events.
LEMMA OtherType ==
  Other \in Event /\ Other.step = 0 /\ Other.down = {} /\ Other.up = {}
BY DEF Other, Event

\* What a read takes from a queue, and what it leaves.
LEMMA SplitQueue ==
  ASSUME NEW q \in Seq(Event), NEW n \in 1 .. Len(q)
  PROVE  /\ SubSeq(q, 1, n) \in Seq(Event) /\ Len(SubSeq(q, 1, n)) = n
         /\ \A k \in 1 .. n : SubSeq(q, 1, n)[k] = q[k]
         /\ SubSeq(q, n + 1, Len(q)) \in Seq(Event)
         /\ Len(SubSeq(q, n + 1, Len(q))) = Len(q) - n
         /\ \A k \in 1 .. Len(q) - n : SubSeq(q, n + 1, Len(q))[k] = q[n + k]
<1>1. /\ SubSeq(q, 1, n) \in Seq(Event) /\ Len(SubSeq(q, 1, n)) = n
      /\ \A k \in 1 .. n : SubSeq(q, 1, n)[k] = q[k]
  BY SubSeqProperties
<1> DEFINE s == SubSeq(q, n + 1, Len(q))
<1>2. s \in Seq(Event) /\ Len(s) = Len(q) - n
  BY SubSeqProperties
<1>3. \A k \in 1 .. Len(q) - n : s[k] = q[n + k]
  BY SubSeqProperties
<1> QED
  BY <1>1, <1>2, <1>3
-----------------------------------------------------------------------------
(***************************************************************************)
(* The mask: that it is computed step by step, and how it follows a queue  *)
(* that is appended to or read.                                            *)
(***************************************************************************)
LEMMA PressedType ==
  ASSUME NEW btn \in SUBSET Button, NEW e \in Event
  PROVE  Pressed(btn, e) \in SUBSET Button
BY EventType DEF Pressed

\* There is a function that follows the mask event by event.
LEMMA MasksExist ==
  ASSUME NEW btn \in SUBSET Button, NEW q \in Seq(Event)
  PROVE  \E f \in [0 .. Len(q) -> SUBSET Button] :
           \A i \in 0 .. Len(q) :
             f[i] = IF i = 0 THEN btn ELSE Pressed(f[i - 1], q[i])
<1> DEFINE Folded(f, n) == \A i \in 0 .. n :
                             f[i] = IF i = 0 THEN btn ELSE Pressed(f[i - 1], q[i])
           T == {n \in Nat : n <= Len(q) => \E f \in [0 .. n -> SUBSET Button] : Folded(f, n)}
<1>1. 0 \in T
  <2>1. /\ [i \in 0 .. 0 |-> btn] \in [0 .. 0 -> SUBSET Button]
        /\ Folded([i \in 0 .. 0 |-> btn], 0)
    OBVIOUS
  <2> QED
    BY <2>1
<1>2. ASSUME NEW n \in Nat, n \in T PROVE n + 1 \in T
  <2> HIDE DEF Folded
  <2> SUFFICES ASSUME n + 1 <= Len(q)
               PROVE  \E f \in [0 .. n + 1 -> SUBSET Button] : Folded(f, n + 1)
    OBVIOUS
  <2>1. PICK f \in [0 .. n -> SUBSET Button] : Folded(f, n)
    BY <1>2
  <2> USE DEF Folded
  <2> DEFINE v == Pressed(f[n], q[n + 1])
             g == [i \in 0 .. n + 1 |-> IF i <= n THEN f[i] ELSE v]
  <2>2. v \in SUBSET Button
    <3>1. q[n + 1] \in Event
      BY ElementOfSeq
    <3> QED
      BY <2>1, <3>1, PressedType
  <2> HIDE DEF v
  <2>3. g \in [0 .. n + 1 -> SUBSET Button]
    BY <2>1, <2>2
  <2>4. ASSUME NEW i \in 0 .. n + 1
        PROVE  g[i] = IF i = 0 THEN btn ELSE Pressed(g[i - 1], q[i])
    <3>1. CASE i <= n
      BY <2>1, <3>1
    <3>2. CASE i = n + 1
      <4>1. g[i] = v /\ g[i - 1] = f[n] /\ i # 0
        BY <3>2
      <4> QED
        BY <3>2, <4>1 DEF v
    <3> QED
      BY <3>1, <3>2
  <2> QED
    BY <2>3, <2>4
<1> HIDE DEF T
<1>3. Nat \subseteq T
  BY <1>1, <1>2, Induction
<1> QED
  BY <1>3 DEF T

\* So Masks, which CHOOSE defines, is one.
LEMMA MasksProperties ==
  ASSUME NEW btn \in SUBSET Button, NEW q \in Seq(Event)
  PROVE  /\ Masks(btn, q) \in [0 .. Len(q) -> SUBSET Button]
         /\ Masks(btn, q)[0] = btn
         /\ \A i \in 1 .. Len(q) : Masks(btn, q)[i] = Pressed(Masks(btn, q)[i - 1], q[i])
<1> DEFINE F(f) == [i \in 0 .. Len(q) |-> IF i = 0 THEN btn ELSE Pressed(f[i - 1], q[i])]
<1>1. PICK f \in [0 .. Len(q) -> SUBSET Button] :
        \A i \in 0 .. Len(q) : f[i] = IF i = 0 THEN btn ELSE Pressed(f[i - 1], q[i])
  BY MasksExist
<1>2. f = F(f)
  BY <1>1
<1>3. Masks(btn, q) = F(Masks(btn, q))
  BY <1>2 DEF Masks
<1> DEFINE s == Masks(btn, q)
<1> HIDE DEF s
<1>4. s = F(s)
  BY <1>3 DEF s
<1>5. s[0] = btn /\ \A i \in 1 .. Len(q) : s[i] = Pressed(s[i - 1], q[i])
  BY <1>4
<1> DEFINE T == {n \in Nat : n <= Len(q) => s[n] \in SUBSET Button}
<1>6. 0 \in T
  BY <1>5
<1>7. ASSUME NEW n \in Nat, n \in T PROVE n + 1 \in T
  <2> SUFFICES ASSUME n + 1 <= Len(q) PROVE s[n + 1] \in SUBSET Button
    OBVIOUS
  <2>1. s[n + 1] = Pressed(s[n], q[n + 1])
    BY <1>5
  <2>2. q[n + 1] \in Event
    BY ElementOfSeq
  <2> QED
    BY <1>7, <2>1, <2>2, PressedType
<1> HIDE DEF T
<1>8. Nat \subseteq T
  BY <1>6, <1>7, Induction
<1>9. s \in [0 .. Len(q) -> SUBSET Button]
  BY <1>4, <1>8 DEF T
<1> QED
  BY <1>5, <1>9 DEF s

\* A mask is a set of buttons.
LEMMA MaskType ==
  ASSUME NEW btn \in SUBSET Button, NEW q \in Seq(Event)
  PROVE  MaskAfter(btn, q) \in SUBSET Button
<1>1. Len(q) \in 0 .. Len(q)
  OBVIOUS
<1> QED
  BY <1>1, MasksProperties DEF MaskAfter

\* Without events the mask stays.
LEMMA MaskNone ==
  ASSUME NEW btn \in SUBSET Button
  PROVE  MaskAfter(btn, <<>>) = btn
<1>1. <<>> \in Seq(Event) /\ Len(<<>>) = 0
  OBVIOUS
<1> QED
  BY <1>1, MasksProperties DEF MaskAfter

\* The hypotheses of the next lemma, each under a name.
Mask == SUBSET Button
Alike(q, i, r, j, n) == \A k \in 1 .. n : q[i + k] = r[j + k]

\* Masks that are equal at one place stay equal along equal events.
LEMMA MasksAgree ==
  ASSUME NEW a \in Mask, NEW q \in Seq(Event), NEW b \in Mask, NEW r \in Seq(Event),
         NEW i \in 0 .. Len(q), NEW j \in 0 .. Len(r), NEW n \in Nat,
         i + n <= Len(q), j + n <= Len(r), Alike(q, i, r, j, n),
         Masks(a, q)[i] = Masks(b, r)[j]
  PROVE  Masks(a, q)[i + n] = Masks(b, r)[j + n]
<1> DEFINE s == Masks(a, q)
           t == Masks(b, r)
           T == {k \in Nat : k <= n => s[i + k] = t[j + k]}
<1>1. \A k \in 1 .. Len(q) : s[k] = Pressed(s[k - 1], q[k])
  BY MasksProperties DEF Mask
<1>2. \A k \in 1 .. Len(r) : t[k] = Pressed(t[k - 1], r[k])
  BY MasksProperties DEF Mask
<1>3. s[i] = t[j]
  OBVIOUS
<1> HIDE DEF s, t
<1>4. 0 \in T
  BY <1>3
<1>5. ASSUME NEW k \in Nat, k \in T, k + 1 <= n
      PROVE  s[i + (k + 1)] = t[j + (k + 1)]
  <2>1. i + (k + 1) \in 1 .. Len(q) /\ (i + (k + 1)) - 1 = i + k
    BY <1>5
  <2>2. j + (k + 1) \in 1 .. Len(r) /\ (j + (k + 1)) - 1 = j + k
    BY <1>5
  <2>3. q[i + (k + 1)] = r[j + (k + 1)]
    <3>1. k + 1 \in 1 .. n
      BY <1>5
    <3> QED
      BY <3>1 DEF Alike
  <2>4. s[i + k] = t[j + k]
    BY <1>5
  <2> HIDE DEF T
  <2>5. s[i + (k + 1)] = Pressed(s[i + k], q[i + (k + 1)])
    BY <1>1, <2>1
  <2>6. t[j + (k + 1)] = Pressed(t[j + k], r[j + (k + 1)])
    BY <1>2, <2>2
  <2> QED
    BY <2>3, <2>4, <2>5, <2>6
<1>6. ASSUME NEW k \in Nat, k \in T PROVE k + 1 \in T
  BY <1>5, <1>6
<1> HIDE DEF T
<1>7. Nat \subseteq T
  BY <1>4, <1>6, Induction
<1>8. n \in T
  BY <1>7
<1> QED
  BY <1>8 DEF T, s, t

\* One more event changes the mask as the loop does.
LEMMA MaskAppend ==
  ASSUME NEW btn \in SUBSET Button, NEW q \in Seq(Event), NEW e \in Event
  PROVE  MaskAfter(btn, Append(q, e)) = Pressed(MaskAfter(btn, q), e)
<1> DEFINE r == Append(q, e)
           n == Len(q)
<1>1. /\ r \in Seq(Event) /\ Len(r) = n + 1 /\ n \in Nat
      /\ (\A k \in 1 .. n : r[k] = q[k]) /\ r[n + 1] = e
  OBVIOUS
<1> HIDE DEF r
<1>2. Masks(btn, r)[0] = Masks(btn, q)[0]
  BY <1>1, MasksProperties
<1>3. Masks(btn, r)[0 + n] = Masks(btn, q)[0 + n]
  <2>1. Alike(r, 0, q, 0, n)
    BY <1>1 DEF Alike
  <2>2. /\ 0 \in 0 .. Len(r) /\ 0 \in 0 .. Len(q) /\ n \in Nat
        /\ 0 + n <= Len(r) /\ 0 + n <= Len(q)
    BY <1>1
  <2>3. btn \in Mask /\ r \in Seq(Event) /\ q \in Seq(Event)
    BY <1>1 DEF Mask
  <2> QED
    BY <1>2, <2>1, <2>2, <2>3, MasksAgree
<1>4. n + 1 \in 1 .. Len(r) /\ (n + 1) - 1 = n /\ 0 + n = n
  BY <1>1
<1>5. Masks(btn, r)[n + 1] = Pressed(Masks(btn, r)[n], e)
  <2>1. \A i \in 1 .. Len(r) : Masks(btn, r)[i] = Pressed(Masks(btn, r)[i - 1], r[i])
    BY <1>1, MasksProperties
  <2> HIDE DEF n
  <2>2. Masks(btn, r)[n + 1] = Pressed(Masks(btn, r)[(n + 1) - 1], r[n + 1])
    BY <1>4, <2>1
  <2> QED
    BY <1>1, <1>4, <2>2
<1>6. Masks(btn, r)[n] = Masks(btn, q)[n]
  BY <1>3, <1>4
<1>7. MaskAfter(btn, r) = Pressed(MaskAfter(btn, q), e)
  BY <1>1, <1>5, <1>6 DEF MaskAfter
<1> QED
  BY <1>7 DEF r

\* Reading a queue in two parts gives the mask of reading it at once.
LEMMA MaskSplit ==
  ASSUME NEW btn \in SUBSET Button, NEW q \in Seq(Event), NEW n \in 1 .. Len(q)
  PROVE  MaskAfter(MaskAfter(btn, SubSeq(q, 1, n)), SubSeq(q, n + 1, Len(q)))
           = MaskAfter(btn, q)
<1> DEFINE p == SubSeq(q, 1, n)
           s == SubSeq(q, n + 1, Len(q))
           c == MaskAfter(btn, p)
           l == Len(q) - n
<1>1. /\ p \in Seq(Event) /\ Len(p) = n /\ \A k \in 1 .. n : p[k] = q[k]
      /\ s \in Seq(Event) /\ Len(s) = l /\ \A k \in 1 .. l : s[k] = q[n + k]
  BY SplitQueue
<1>2. n \in Nat /\ l \in Nat /\ n + l = Len(q) /\ 0 + l = l /\ 0 + n = n
  OBVIOUS
<1> HIDE DEF p, s, l
<1>3. c \in SUBSET Button
  BY <1>1, MaskType
<1>4. c = Masks(btn, p)[n]
  BY <1>1 DEF MaskAfter
<1> HIDE DEF c
<1>5. Masks(btn, p)[0] = btn /\ Masks(btn, q)[0] = btn /\ Masks(c, s)[0] = c
  BY <1>1, <1>3, MasksProperties
<1>6. Masks(btn, p)[0 + n] = Masks(btn, q)[0 + n]
  <2>1. Alike(p, 0, q, 0, n)
    BY <1>1, <1>2 DEF Alike
  <2>2. /\ 0 \in 0 .. Len(p) /\ 0 \in 0 .. Len(q) /\ n \in Nat
        /\ 0 + n <= Len(p) /\ 0 + n <= Len(q)
    BY <1>1, <1>2
  <2>3. btn \in Mask /\ p \in Seq(Event) /\ q \in Seq(Event)
    BY <1>1 DEF Mask
  <2>4. Masks(btn, p)[0] = Masks(btn, q)[0]
    BY <1>5
  <2> QED
    BY <2>1, <2>2, <2>3, <2>4, MasksAgree
<1>7. Masks(c, s)[0 + l] = Masks(btn, q)[n + l]
  <2>1. Alike(s, 0, q, n, l)
    BY <1>1, <1>2 DEF Alike
  <2>2. /\ 0 \in 0 .. Len(s) /\ n \in 0 .. Len(q) /\ l \in Nat
        /\ 0 + l <= Len(s) /\ n + l <= Len(q)
    BY <1>1, <1>2
  <2>3. c \in Mask /\ btn \in Mask /\ s \in Seq(Event) /\ q \in Seq(Event)
    BY <1>1, <1>3 DEF Mask
  <2>4. Masks(c, s)[0] = Masks(btn, q)[n]
    BY <1>2, <1>4, <1>5, <1>6
  <2> QED
    BY <2>1, <2>2, <2>3, <2>4, MasksAgree
<1>8. MaskAfter(c, s) = MaskAfter(btn, q)
  BY <1>1, <1>2, <1>7 DEF MaskAfter
<1> QED
  BY <1>8 DEF c, p, s

\* Events of no interest leave the mask alone.
LEMMA MaskUnchanged ==
  ASSUME NEW btn \in SUBSET Button, NEW q \in Seq(Event), ~Changed(q)
  PROVE  MaskAfter(btn, q) = btn
<1> DEFINE s == Masks(btn, q)
           T == {k \in Nat : k <= Len(q) => s[k] = btn}
<1>1. s[0] = btn /\ \A k \in 1 .. Len(q) : s[k] = Pressed(s[k - 1], q[k])
  BY MasksProperties
<1> HIDE DEF s
<1>2. 0 \in T
  BY <1>1
<1>3. ASSUME NEW k \in Nat, k \in T, k + 1 <= Len(q) PROVE s[k + 1] = btn
  <2>1. k + 1 \in 1 .. Len(q) /\ (k + 1) - 1 = k /\ s[k] = btn
    BY <1>3
  <2>2. q[k + 1] = Other
    BY <2>1 DEF Changed
  <2>3. s[k + 1] = Pressed(btn, Other)
    BY <1>1, <2>1, <2>2
  <2> QED
    BY <2>3, OtherType DEF Pressed
<1>4. ASSUME NEW k \in Nat, k \in T PROVE k + 1 \in T
  BY <1>3, <1>4
<1> HIDE DEF T
<1>5. Nat \subseteq T
  BY <1>2, <1>4, Induction
<1>6. Len(q) \in T
  BY <1>5
<1> QED
  BY <1>6 DEF T, s, MaskAfter
-----------------------------------------------------------------------------
(***************************************************************************)
(* Motion: the steps of one queue, and those of all of them when one of    *)
(* the queues changes.                                                     *)
(***************************************************************************)
LEMMA StepsFinite ==
  ASSUME NEW q \in Seq(Event)
  PROVE  IsFiniteSet(Steps(q)) /\ Motion(q) \in Nat
<1>1. Steps(q) \in SUBSET (1 .. Len(q))
  BY DEF Steps
<1>2. IsFiniteSet(1 .. Len(q))
  BY FS_Interval
<1>3. IsFiniteSet(Steps(q))
  BY <1>1, <1>2, FS_Subset
<1> QED
  BY <1>3, FS_CardinalityType DEF Motion

\* Sets with as many elements.
LEMMA SameNumber ==
  ASSUME NEW S, NEW T, IsFiniteSet(S), NEW f \in [S -> T],
         \A x, y \in S : f[x] = f[y] => x = y,
         \A z \in T : \E x \in S : f[x] = z
  PROVE  IsFiniteSet(T) /\ Cardinality(T) = Cardinality(S)
<1>1. f \in Bijection(S, T)
  BY DEF Bijection, Injection, Surjection, IsInjective
<1>2. ExistsBijection(S, T)
  BY <1>1 DEF ExistsBijection
<1> QED
  BY <1>2, FS_Bijection

\* No events, no motion.
LEMMA MotionNone == Motion(<<>>) = 0
<1>1. Steps(<<>>) = {}
  BY DEF Steps
<1> QED
  BY <1>1, FS_EmptySet DEF Motion

\* One more event adds its step.
LEMMA MotionAppend ==
  ASSUME NEW q \in Seq(Event), NEW e \in Event
  PROVE  Motion(Append(q, e)) = Motion(q) + e.step
<1> DEFINE r == Append(q, e)
           n == Len(q)
<1>1. /\ DOMAIN r = 1 .. n + 1 /\ n \in Nat /\ DOMAIN q = 1 .. n
      /\ (\A k \in 1 .. n : r[k] = q[k]) /\ r[n + 1] = e
  OBVIOUS
<1>2. IsFiniteSet(Steps(q)) /\ Motion(q) \in Nat /\ e.step \in {0, 1}
  BY StepsFinite, EventType
<1> HIDE DEF r, n
<1>3. n + 1 \notin Steps(q)
  BY <1>1 DEF Steps
<1>4. CASE e.step = 1
  <2>1. Steps(r) = Steps(q) \union {n + 1}
    BY <1>1, <1>4 DEF Steps
  <2>2. Cardinality(Steps(r)) = Cardinality(Steps(q)) + 1
    BY <1>2, <1>3, <2>1, FS_AddElement
  <2> QED
    BY <1>4, <2>2 DEF Motion, r
<1>5. CASE e.step = 0
  <2>1. Steps(r) = Steps(q)
    BY <1>1, <1>5 DEF Steps
  <2> QED
    BY <1>2, <1>5, <2>1 DEF Motion, r
<1> QED
  BY <1>2, <1>4, <1>5

\* An overflowing queue keeps the motion of the newest event only.
LEMMA MotionOverflow ==
  ASSUME NEW e \in Event
  PROVE  /\ <<Other, e>> \in Seq(Event) /\ Len(<<Other, e>>) = 2
         /\ Motion(<<Other, e>>) = e.step
<1> DEFINE q == <<Other, e>>
<1>1. q \in Seq(Event) /\ Len(q) = 2
  BY OtherType
<1>2. DOMAIN q = {1, 2} /\ q[1] = Other /\ q[2] = e
  OBVIOUS
<1> HIDE DEF q
<1>3. e.step \in {0, 1} /\ Other.step = 0
  BY EventType, OtherType
<1>4. ASSUME e.step = 1 PROVE Motion(q) = 1
  <2>1. Steps(q) = {2}
    BY <1>2, <1>3, <1>4 DEF Steps
  <2> QED
    BY <2>1, FS_Singleton DEF Motion
<1>5. ASSUME e.step = 0 PROVE Motion(q) = 0
  <2>1. Steps(q) = {}
    BY <1>2, <1>3, <1>5 DEF Steps
  <2> QED
    BY <2>1, FS_EmptySet DEF Motion
<1>6. Motion(q) = e.step
  BY <1>3, <1>4, <1>5
<1> QED
  BY <1>1, <1>6 DEF q

\* The motion of a queue is that of its two parts.
LEMMA MotionSplit ==
  ASSUME NEW q \in Seq(Event), NEW n \in 1 .. Len(q)
  PROVE  Motion(q) = Motion(SubSeq(q, 1, n)) + Motion(SubSeq(q, n + 1, Len(q)))
<1> DEFINE p == SubSeq(q, 1, n)
           s == SubSeq(q, n + 1, Len(q))
           l == Len(q) - n
           A == Steps(p)
           B == {i \in Steps(q) : i > n}
<1>1. /\ p \in Seq(Event) /\ Len(p) = n /\ \A k \in 1 .. n : p[k] = q[k]
      /\ s \in Seq(Event) /\ Len(s) = l /\ \A k \in 1 .. l : s[k] = q[n + k]
  BY SplitQueue
<1>2. n \in Nat /\ l \in Nat /\ n + l = Len(q) /\ DOMAIN q = 1 .. n + l
  OBVIOUS
<1> HIDE DEF p, s, l
<1>3. DOMAIN p = 1 .. n /\ DOMAIN s = 1 .. l
  BY <1>1
<1>4. IsFiniteSet(A) /\ IsFiniteSet(Steps(s)) /\ IsFiniteSet(Steps(q))
  BY <1>1, StepsFinite
<1>5. A = {i \in Steps(q) : ~(i > n)}
  BY <1>1, <1>2, <1>3 DEF Steps
<1>6. Steps(q) = A \union B /\ A \intersect B = {}
  BY <1>5
<1>7. IsFiniteSet(B) /\ Cardinality(B) = Cardinality(Steps(s))
  <2> DEFINE f == [i \in Steps(s) |-> n + i]
  <2>1. \A i \in Steps(s) : i \in 1 .. l /\ s[i].step = 1
    BY <1>3 DEF Steps
  <2>2. f \in [Steps(s) -> B]
    <3> SUFFICES ASSUME NEW i \in Steps(s) PROVE n + i \in B
      OBVIOUS
    <3>1. n + i \in 1 .. n + l /\ n + i > n
      BY <1>2, <2>1
    <3>2. q[n + i].step = 1
      BY <1>1, <2>1
    <3> QED
      BY <1>2, <3>1, <3>2 DEF Steps
  <2>3. \A x, y \in Steps(s) : f[x] = f[y] => x = y
    <3> SUFFICES ASSUME NEW x \in Steps(s), NEW y \in Steps(s), n + x = n + y PROVE x = y
      OBVIOUS
    <3>1. x \in Int /\ y \in Int
      BY <1>2, <2>1
    <3> QED
      BY <1>2, <3>1
  <2>4. ASSUME NEW z \in B PROVE \E x \in Steps(s) : f[x] = z
    <3>1. z \in 1 .. n + l /\ z > n /\ q[z].step = 1
      BY <1>2 DEF Steps
    <3>2. z - n \in 1 .. l /\ n + (z - n) = z
      BY <1>2, <3>1
    <3>3. s[z - n].step = 1
      BY <1>1, <3>1, <3>2
    <3>4. z - n \in Steps(s)
      BY <1>3, <3>2, <3>3 DEF Steps
    <3> QED
      BY <3>2, <3>4
  <2> HIDE DEF f, B
  <2> QED
    BY <1>4, <2>2, <2>3, <2>4, SameNumber
<1> HIDE DEF A, B
<1>8. /\ Cardinality(A) \in Nat /\ Cardinality(B) \in Nat /\ Cardinality(A \intersect B) = 0
  BY <1>4, <1>6, <1>7, FS_CardinalityType, FS_EmptySet
<1>9. Cardinality(A \union B) = Cardinality(A) + Cardinality(B) - Cardinality(A \intersect B)
  BY <1>4, <1>7, FS_Union
<1>10. Cardinality(Steps(q)) = Cardinality(A) + Cardinality(B)
  BY <1>6, <1>8, <1>9
<1> QED
  BY <1>7, <1>10 DEF Motion, A, p, s

\* Events of no interest are no motion.
LEMMA MotionUnchanged ==
  ASSUME NEW q \in Seq(Event), ~Changed(q)
  PROVE  Motion(q) = 0
<1>1. Steps(q) = {}
  <2> SUFFICES ASSUME NEW i \in DOMAIN q, q[i].step = 1 PROVE FALSE
    BY DEF Steps
  <2>1. q[i] = Other
    BY DEF Changed
  <2> QED
    BY <2>1, OtherType
<1> QED
  BY <1>1, FS_EmptySet DEF Motion

Queues == {qs \in [Mouse -> Seq(Event)] : \A m \in Mouse : Len(qs[m]) <= Queue}

\* There are finitely many queued steps.
LEMMA WaitingFinite ==
  ASSUME NEW qs
  PROVE  IsFiniteSet(Waiting(qs)) /\ Cardinality(Waiting(qs)) \in Nat
<1>1. IsFiniteSet(1 .. Queue)
  BY QueueAssumption, FS_Interval
<1>2. IsFiniteSet(Mouse \X (1 .. Queue))
  BY <1>1, MouseAssumption, FS_Product
<1>3. Waiting(qs) \in SUBSET (Mouse \X (1 .. Queue))
  BY DEF Waiting
<1>4. IsFiniteSet(Waiting(qs))
  BY <1>2, <1>3, FS_Subset
<1> QED
  BY <1>4, FS_CardinalityType

\* The steps that wait are those of one mouse and those of the others.
LEMMA WaitingSplit ==
  ASSUME NEW qs \in Queues, NEW m \in Mouse
  PROVE  LET R == {p \in Waiting(qs) : p[1] # m}
         IN  Cardinality(R) \in Nat /\ Cardinality(Waiting(qs)) = Cardinality(R) + Motion(qs[m])
<1> DEFINE R == {p \in Waiting(qs) : p[1] # m}
           O == {p \in Waiting(qs) : p[1] = m}
           S == Steps(qs[m])
<1>1. qs[m] \in Seq(Event) /\ Len(qs[m]) <= Queue /\ Len(qs[m]) \in Nat
  BY DEF Queues
<1>2. IsFiniteSet(S) /\ Cardinality(S) \in Nat
  BY <1>1, StepsFinite DEF Motion
<1>3. S \subseteq 1 .. Queue
  BY <1>1, QueueAssumption DEF Steps
<1>4. IsFiniteSet(O) /\ Cardinality(O) = Cardinality(S)
  <2> DEFINE f == [i \in S |-> <<m, i>>]
  <2>1. f \in [S -> O]
    BY <1>3 DEF Waiting
  <2>2. \A x, y \in S : f[x] = f[y] => x = y
    OBVIOUS
  <2>3. \A z \in O : \E x \in S : f[x] = z
    BY DEF Waiting
  <2> HIDE DEF f, O, S
  <2> QED
    BY <1>2, <2>1, <2>2, <2>3, SameNumber
<1>5. IsFiniteSet(R) /\ Cardinality(R) \in Nat
  <2>1. R \in SUBSET Waiting(qs) /\ IsFiniteSet(Waiting(qs))
    BY WaitingFinite
  <2>2. IsFiniteSet(R)
    BY <2>1, FS_Subset
  <2> QED
    BY <2>2, FS_CardinalityType
<1>6. Waiting(qs) = R \union O /\ R \intersect O = {}
  OBVIOUS
<1> HIDE DEF R, O
<1>7. Cardinality(R \union O) = Cardinality(R) + Cardinality(O) - Cardinality(R \intersect O)
  BY <1>4, <1>5, FS_Union
<1>8. Cardinality(R \intersect O) = 0
  BY <1>6, FS_EmptySet
<1>9. Cardinality(Waiting(qs)) = Cardinality(R) + Cardinality(S)
  BY <1>2, <1>4, <1>5, <1>6, <1>7, <1>8
<1> QED
  BY <1>5, <1>9 DEF Motion, R

\* A change of one queue changes the queued motion by the motion of that queue.
LEMMA WaitingUpdate ==
  ASSUME NEW qs \in Queues, NEW m \in Mouse, NEW q \in Seq(Event), Len(q) <= Queue
  PROVE  /\ [qs EXCEPT ![m] = q] \in Queues
         /\ Cardinality(Waiting([qs EXCEPT ![m] = q])) + Motion(qs[m])
              = Cardinality(Waiting(qs)) + Motion(q)
<1> DEFINE rs == [qs EXCEPT ![m] = q]
           R == {p \in Waiting(qs) : p[1] # m}
           Q == {p \in Waiting(rs) : p[1] # m}
<1>1. rs \in Queues /\ rs[m] = q /\ \A k \in Mouse : k # m => rs[k] = qs[k]
  BY DEF Queues
<1> HIDE DEF rs
<1>2. R = Q
  BY <1>1 DEF Waiting
<1>3. Cardinality(R) \in Nat /\ Cardinality(Waiting(qs)) = Cardinality(R) + Motion(qs[m])
  BY WaitingSplit
<1>4. Cardinality(Waiting(rs)) = Cardinality(Q) + Motion(q)
  BY <1>1, WaitingSplit
<1>5. Motion(qs[m]) \in Nat /\ Motion(q) \in Nat
  BY StepsFinite DEF Queues
<1> HIDE DEF R, Q
<1>6. Cardinality(Waiting(rs)) + Motion(qs[m]) = Cardinality(Waiting(qs)) + Motion(q)
  BY <1>2, <1>3, <1>4, <1>5
<1> QED
  BY <1>1, <1>6 DEF rs

\* Empty queues hold no motion.
LEMMA WaitingNone ==
  ASSUME NEW qs, \A m \in Mouse : qs[m] = <<>>
  PROVE  Cardinality(Waiting(qs)) = 0
<1>1. Waiting(qs) = {}
  BY DEF Waiting, Steps
<1> QED
  BY <1>1, FS_EmptySet
-----------------------------------------------------------------------------
(***************************************************************************)
(* What keeps the types: while the thread looks for mice or sleeps nothing *)
(* is open, so what a scan forgets is empty; and only a device that exists *)
(* has a queue.                                                            *)
(***************************************************************************)
Closed == pc \notin {"select", "blocked", "read"} => open = {}

QueuesOfLive == \A m \in Mouse \ alive : queue[m] = <<>>

ReaderInv == TypeOK /\ Closed /\ QueuesOfLive

\* The queued motion is a number.
LEMMA PendingType ==
  ASSUME TypeOK
  PROVE  queue \in Queues /\ Pending \in Nat
BY WaitingFinite DEF TypeOK, Queues, Pending

\* While nothing is open nothing waits.
LEMMA NothingWaits ==
  ASSUME ReaderInv, pc \notin {"select", "blocked", "read"}
  PROVE  /\ open = {} /\ ready = {} /\ alive = {} /\ queue = [m \in Mouse |-> <<>>]
         /\ Pending = 0
<1>1. open = {} /\ ready = {} /\ alive = {}
  BY DEF ReaderInv, Closed, TypeOK
<1>2. \A m \in Mouse : queue[m] = <<>>
  BY <1>1 DEF ReaderInv, QueuesOfLive
<1>3. queue \in [Mouse -> Seq(Event)]
  BY DEF ReaderInv, TypeOK
<1> QED
  BY <1>1, <1>2, <1>3, WaitingNone DEF Pending

\* Empty queues have the type of the queues.
LEMMA NoQueues ==
  /\ [m \in Mouse |-> <<>>] \in [Mouse -> Seq(Event)]
  /\ \A m \in Mouse : Len([k \in Mouse |-> <<>>][m]) <= Queue
BY QueueAssumption

\* Before run() nothing is open or queued.
LEMMA ReaderInit == Init => ReaderInv
<1> SUFFICES ASSUME Init PROVE ReaderInv
  OBVIOUS
<1>1. queue \in [Mouse -> Seq(Event)] /\ \A m \in Mouse : Len(queue[m]) <= Queue
  BY NoQueues DEF Init
<1>2. events \in 0 .. MaxEvents /\ faults \in 0 .. MaxFaults
  BY MaxEventsAssumption, MaxFaultsAssumption DEF Init
<1>3. TypeOK
  BY <1>1, <1>2 DEF Init, TypeOK, PC
<1> QED
  BY <1>3 DEF Init, ReaderInv, Closed, QueuesOfLive

\* The thread, apart from what it reads and closes.
LEMMA ReaderFind ==
  ASSUME ReaderInv, NEW found \in SUBSET attached, FindMice(found)
  PROVE  ReaderInv'
<1>1. ready = {}
  BY NothingWaits DEF FindMice
<1>2. queue' \in [Mouse -> Seq(Event)] /\ \A m \in Mouse : Len(queue'[m]) <= Queue
  BY NoQueues DEF FindMice
<1>3. faults' \in 0 .. MaxFaults
  BY MaxFaultsAssumption DEF FindMice, ReaderInv, TypeOK
<1>4. unseen' \in [Mouse -> SUBSET Button] /\ mask' \in [Mouse -> SUBSET Button]
  BY DEF FindMice, ReaderInv, TypeOK
<1>5. found \in SUBSET Mouse /\ pc' \in PC /\ blind' = {} /\ open' = found /\ alive' = found
  BY DEF FindMice, ReaderInv, TypeOK, PC
<1>6. /\ UNCHANGED <<running, ready, local, total, attached, held, moved, dropped, events>>
  BY DEF FindMice, merger
<1>7. TypeOK'
  BY <1>1, <1>2, <1>3, <1>4, <1>5, <1>6 DEF ReaderInv, TypeOK
<1> QED
  BY <1>7 DEF FindMice, ReaderInv, Closed, QueuesOfLive

\* The steps that only move the thread, or forget a lost device.
LEMMA ReaderControl ==
  ASSUME ReaderInv,
         Run \/ Loop \/ Select \/ Selected \/ Wake \/ Stop \/ (\E m \in Mouse : ReadLost(m))
  PROVE  ReaderInv'
<1>1. UNCHANGED <<merger, kernel, history, events, faults>>
  BY DEF Run, Loop, Select, Selected, Wake, Stop, ReadLost
<1>2. CASE Run \/ Loop \/ Select \/ Wake \/ Stop
  <2>1. UNCHANGED <<open, ready, mask>>
    BY <1>2 DEF Run, Loop, Select, Wake, Stop
  <2>2. /\ running' \in BOOLEAN /\ pc' \in PC
        /\ (pc' \in {"select", "blocked", "read"} <=> pc \in {"select", "blocked", "read"})
    BY <1>2 DEF Run, Loop, Select, Wake, Stop, ReaderInv, TypeOK, PC
  <2>3. TypeOK'
    BY <1>1, <2>1, <2>2 DEF ReaderInv, TypeOK, merger, kernel, history
  <2> QED
    BY <1>1, <2>1, <2>2, <2>3 DEF ReaderInv, Closed, QueuesOfLive, kernel
<1>3. CASE Selected
  <2>1. /\ UNCHANGED <<running, open, mask>> /\ ready' \in SUBSET open
        /\ pc' \in {"select", "read"}
    BY <1>3 DEF Selected
  <2>2. TypeOK'
    BY <1>1, <2>1 DEF ReaderInv, TypeOK, merger, kernel, history, PC
  <2> QED
    BY <1>1, <2>1, <2>2 DEF ReaderInv, Closed, QueuesOfLive, kernel
<1>4. ASSUME NEW m \in Mouse, ReadLost(m) PROVE ReaderInv'
  <2>1. /\ running' = running /\ open' = open \ {m} /\ ready' = ready \ {m}
        /\ mask' = [mask EXCEPT ![m] = {}] /\ m \notin alive /\ pc' \in {"select", "read"}
    BY <1>4 DEF ReadLost, Done
  <2>2. mask' \in [Mouse -> SUBSET Button]
    BY <2>1 DEF ReaderInv, TypeOK
  <2>3. /\ open' \in SUBSET Mouse /\ ready' \in SUBSET open'
        /\ alive \in SUBSET (open' \intersect attached)
    BY <2>1 DEF ReaderInv, TypeOK
  <2>4. TypeOK'
    BY <1>1, <2>1, <2>2, <2>3 DEF ReaderInv, TypeOK, merger, kernel, history, PC
  <2> QED
    BY <1>1, <2>1, <2>4 DEF ReaderInv, Closed, QueuesOfLive, kernel
<1> QED
  BY <1>2, <1>3, <1>4

\* A read leaves a shorter queue and a mask of buttons.
LEMMA ReaderRead ==
  ASSUME ReaderInv, NEW m \in Mouse, Read(m)
  PROVE  ReaderInv'
<1>1. PICK n \in 1 .. Len(queue[m]) :
        /\ queue' = [queue EXCEPT ![m] = SubSeq(@, n + 1, Len(@))]
        /\ \/ /\ mask'  = [mask EXCEPT ![m] = MaskAfter(mask[m], SubSeq(queue[m], 1, n))]
              /\ local' = MaskAfter(mask[m], SubSeq(queue[m], 1, n))
              /\ total' = total + Motion(SubSeq(queue[m], 1, n))
           \/ UNCHANGED <<mask, merger>>
  BY DEF Read
<1> DEFINE p == SubSeq(queue[m], 1, n)
           s == SubSeq(queue[m], n + 1, Len(queue[m]))
<1>2. /\ m \in alive /\ m \in ready /\ ready' = ready \ {m} /\ pc = "read"
      /\ pc' \in {"select", "read"}
      /\ UNCHANGED <<running, open, attached, held, alive, history, events, faults>>
  BY DEF Read, Done
<1>3. queue \in [Mouse -> Seq(Event)] /\ \A k \in Mouse : Len(queue[k]) <= Queue
  BY DEF ReaderInv, TypeOK
<1>4. queue[m] \in Seq(Event) /\ Len(queue[m]) <= Queue /\ Len(queue[m]) \in Nat
  BY <1>3
<1>5. p \in Seq(Event) /\ s \in Seq(Event) /\ Len(s) = Len(queue[m]) - n
  BY <1>4, SplitQueue
<1>6. queue' = [queue EXCEPT ![m] = s]
  BY <1>1
<1>7. mask[m] \in SUBSET Button /\ total \in Nat /\ local \in SUBSET Button
  BY DEF ReaderInv, TypeOK
<1>8. MaskAfter(mask[m], p) \in SUBSET Button /\ Motion(p) \in Nat
  BY <1>5, <1>7, MaskType, StepsFinite
<1>9. Len(s) <= Queue
  BY <1>4, <1>5, QueueAssumption
<1>10. /\ mask' = [mask EXCEPT ![m] = MaskAfter(mask[m], p)] \/ mask' = mask
       /\ local' = MaskAfter(mask[m], p) \/ local' = local
       /\ total' = total + Motion(p) \/ total' = total
  BY <1>1 DEF merger
<1> HIDE DEF p, s
<1>11. queue' \in [Mouse -> Seq(Event)] /\ \A k \in Mouse : Len(queue'[k]) <= Queue
  BY <1>3, <1>5, <1>6, <1>9
<1>12. mask' \in [Mouse -> SUBSET Button] /\ local' \in SUBSET Button /\ total' \in Nat
  <2>1. mask \in [Mouse -> SUBSET Button]
    BY DEF ReaderInv, TypeOK
  <2>2. mask' \in [Mouse -> SUBSET Button]
    BY <1>8, <1>10, <2>1
  <2>3. local' \in SUBSET Button
    BY <1>7, <1>8, <1>10
  <2>4. total' \in Nat
    BY <1>7, <1>8, <1>10
  <2> QED
    BY <2>2, <2>3, <2>4
<1>13. TypeOK'
  BY <1>2, <1>11, <1>12 DEF ReaderInv, TypeOK, history, PC
<1>14. QueuesOfLive'
  BY <1>2, <1>3, <1>6 DEF ReaderInv, QueuesOfLive
<1> QED
  BY <1>2, <1>13, <1>14 DEF ReaderInv, Closed

\* Closing the devices empties everything that belongs to them.
LEMMA ReaderClose ==
  ASSUME ReaderInv, CloseAll, faults' \in 0 .. MaxFaults
  PROVE  ReaderInv'
<1>1. queue' \in [Mouse -> Seq(Event)] /\ \A m \in Mouse : Len(queue'[m]) <= Queue
  BY NoQueues DEF CloseAll
<1>2. Pending \in Nat
  BY PendingType DEF ReaderInv
<1>3. dropped' \in Nat
  BY <1>2 DEF CloseAll, ReaderInv, TypeOK
<1>4. /\ mask' \in [Mouse -> SUBSET Button] /\ unseen' \in [Mouse -> SUBSET Button]
      /\ open' = {} /\ ready' = {} /\ alive' = {} /\ blind' = {} /\ pc' \in {"sleep", "loop"}
  BY DEF CloseAll
<1>5. UNCHANGED <<running, local, total, attached, held, moved, events>>
  BY DEF CloseAll, merger
<1>6. TypeOK'
  BY <1>1, <1>3, <1>4, <1>5 DEF ReaderInv, TypeOK, PC
<1>7. QueuesOfLive'
  BY DEF CloseAll, QueuesOfLive
<1> QED
  BY <1>4, <1>6, <1>7 DEF ReaderInv, Closed

\* A queue never grows past what the kernel keeps, and gains one step at most.
LEMMA QueuedType ==
  ASSUME NEW q \in Seq(Event), NEW e \in Event, Len(q) <= Queue
  PROVE  /\ Queued(q, e) \in Seq(Event) /\ Len(Queued(q, e)) <= Queue
         /\ Motion(Queued(q, e)) \in Nat
         /\ Motion(Queued(q, e)) <= Motion(q) + e.step
<1>1. Motion(q) \in Nat /\ e.step \in {0, 1} /\ Len(q) \in Nat
  BY StepsFinite, EventType
<1>2. CASE Len(q) < Queue
  <2>1. Queued(q, e) = Append(q, e) /\ Motion(Append(q, e)) = Motion(q) + e.step
    BY <1>2, MotionAppend DEF Queued
  <2>2. Append(q, e) \in Seq(Event) /\ Len(Append(q, e)) = Len(q) + 1
    OBVIOUS
  <2> QED
    BY <1>1, <1>2, <2>1, <2>2, QueueAssumption
<1>3. CASE ~(Len(q) < Queue)
  <2>1. Queued(q, e) = <<Other, e>>
    BY <1>3 DEF Queued
  <2>2. /\ <<Other, e>> \in Seq(Event) /\ Len(<<Other, e>>) = 2
        /\ Motion(<<Other, e>>) = e.step
    BY MotionOverflow
  <2>3. 2 <= Queue
    BY QueueAssumption
  <2> QED
    BY <1>1, <2>1, <2>2, <2>3
<1> QED
  BY <1>2, <1>3

\* An event is queued if its device is open.
LEMMA ReaderHappens ==
  ASSUME ReaderInv, NEW m \in Mouse, NEW e \in Event, Happens(m, e)
  PROVE  ReaderInv'
<1>1. e.step \in {0, 1} /\ e.down \in SUBSET Button /\ e.up \in SUBSET Button
  BY EventType
<1>2. held' \in [Mouse -> SUBSET Button] /\ events' \in 0 .. MaxEvents
  <2>1. held' \in [Mouse -> SUBSET Button]
    BY <1>1 DEF Happens, ReaderInv, TypeOK
  <2>2. events' \in 0 .. MaxEvents
    BY MaxEventsAssumption DEF Happens, ReaderInv, TypeOK
  <2> QED
    BY <2>1, <2>2
<1>3. UNCHANGED <<thread, merger, attached, alive, faults>>
  BY DEF Happens
<1>4. CASE m \notin alive
  <2>1. UNCHANGED <<queue, history>>
    BY <1>4 DEF Happens
  <2>2. TypeOK'
    BY <1>2, <1>3, <2>1 DEF ReaderInv, TypeOK, thread, merger, history
  <2> QED
    BY <1>3, <2>1, <2>2 DEF ReaderInv, Closed, QueuesOfLive, thread
<1>5. CASE m \in alive
  <2>1. /\ queue' = [queue EXCEPT ![m] = Queued(queue[m], e)]
        /\ moved' = moved + e.step
        /\ dropped' = (dropped + Motion(queue[m]) + e.step) - Motion(queue'[m])
        /\ unseen' = [unseen EXCEPT ![m] = @ \ e.up]
        /\ blind' \in {blind, blind \union {m}}
    BY <1>5 DEF Happens
  <2>2. /\ queue \in [Mouse -> Seq(Event)] /\ (\A k \in Mouse : Len(queue[k]) <= Queue)
        /\ moved \in Nat /\ dropped \in Nat
    BY DEF ReaderInv, TypeOK
  <2>3. /\ Queued(queue[m], e) \in Seq(Event) /\ Len(Queued(queue[m], e)) <= Queue
        /\ Motion(Queued(queue[m], e)) \in Nat /\ Motion(queue[m]) \in Nat
        /\ Motion(Queued(queue[m], e)) <= Motion(queue[m]) + e.step
    BY <2>2, QueuedType, StepsFinite
  <2>4. queue'[m] = Queued(queue[m], e)
    BY <2>1, <2>2
  <2>5. dropped' \in Nat /\ moved' \in Nat
    <3> DEFINE a == Motion(queue[m])
               b == Motion(queue'[m])
               d == e.step
    <3>1. a \in Nat /\ b \in Nat /\ d \in Nat /\ b <= a + d
      BY <1>1, <2>3, <2>4
    <3>2. dropped' = (dropped + a + d) - b /\ moved' = moved + d
      BY <2>1
    <3> HIDE DEF a, b, d
    <3>3. (dropped + a + d) - b \in Nat /\ moved + d \in Nat
      BY <2>2, <3>1
    <3> QED
      BY <3>2, <3>3
  <2>6. queue' \in [Mouse -> Seq(Event)] /\ \A k \in Mouse : Len(queue'[k]) <= Queue
    BY <2>1, <2>2, <2>3
  <2>7. unseen' \in [Mouse -> SUBSET Button] /\ blind' \in SUBSET Mouse
    BY <2>1 DEF ReaderInv, TypeOK
  <2>8. TypeOK'
    BY <1>2, <1>3, <2>5, <2>6, <2>7 DEF ReaderInv, TypeOK, thread, merger
  <2>9. QueuesOfLive'
    BY <1>3, <1>5, <2>1, <2>2 DEF ReaderInv, QueuesOfLive
  <2> QED
    BY <1>3, <2>8, <2>9 DEF ReaderInv, Closed, thread
<1> QED
  BY <1>4, <1>5

\* A mouse that is unplugged takes its queue with it.
LEMMA ReaderPlugs ==
  ASSUME ReaderInv, NEW m \in Mouse, Plug(m) \/ Unplug(m)
  PROVE  ReaderInv'
<1>1. CASE Plug(m)
  <2>1. /\ attached' = attached \union {m}
        /\ UNCHANGED <<thread, merger, held, alive, queue, history, events, faults>>
    BY <1>1 DEF Plug
  <2>2. TypeOK'
    BY <2>1 DEF ReaderInv, TypeOK, thread, merger, history
  <2> QED
    BY <2>1, <2>2 DEF ReaderInv, Closed, QueuesOfLive, thread
<1>2. CASE Unplug(m)
  <2>1. /\ attached' = attached \ {m} /\ alive' = alive \ {m}
        /\ held'  = [held EXCEPT ![m] = {}]
        /\ queue' = [queue EXCEPT ![m] = <<>>]
        /\ dropped' = dropped + Motion(queue[m])
        /\ faults' = faults + 1 /\ faults < MaxFaults
        /\ UNCHANGED <<thread, merger, moved, unseen, blind, events>>
    BY <1>2 DEF Unplug
  <2>2. queue \in [Mouse -> Seq(Event)] /\ \A k \in Mouse : Len(queue[k]) <= Queue
    BY DEF ReaderInv, TypeOK
  <2>3. Motion(queue[m]) \in Nat
    BY <2>2, StepsFinite
  <2>4. queue' \in [Mouse -> Seq(Event)] /\ \A k \in Mouse : Len(queue'[k]) <= Queue
    <3>1. <<>> \in Seq(Event) /\ Len(<<>>) <= Queue
      BY QueueAssumption
    <3> QED
      BY <2>1, <2>2, <3>1
  <2>5. dropped' \in Nat /\ faults' \in 0 .. MaxFaults
    BY <2>1, <2>3, MaxFaultsAssumption DEF ReaderInv, TypeOK
  <2>6. held' \in [Mouse -> SUBSET Button]
    BY <2>1 DEF ReaderInv, TypeOK
  <2>7. attached' \in SUBSET Mouse /\ alive' \in SUBSET (open \intersect attached')
    BY <2>1 DEF ReaderInv, TypeOK
  <2>8. TypeOK'
    BY <2>1, <2>4, <2>5, <2>6, <2>7 DEF ReaderInv, TypeOK, thread, merger
  <2>9. QueuesOfLive'
    BY <2>1, <2>2 DEF ReaderInv, QueuesOfLive
  <2> QED
    BY <2>1, <2>8, <2>9 DEF ReaderInv, Closed, thread
<1> QED
  BY <1>1, <1>2

\* The steps, each given what the others have been shown to need.
LEMMA NextSplit ==
  ASSUME ReaderInv, [Next]_vars
  PROVE  \/ Run \/ Loop \/ Select \/ Selected \/ Wake \/ Stop \/ \E m \in Mouse : ReadLost(m)
         \/ \E found \in SUBSET attached : FindMice(found)
         \/ CloseAll /\ faults' \in 0 .. MaxFaults
         \/ \E m \in Mouse : Read(m) \/ Plug(m) \/ Unplug(m)
         \/ \E m \in Mouse : \E e \in Event : Happens(m, e)
         \/ UNCHANGED vars
<1>1. attached \in SUBSET attached
  OBVIOUS
<1>2. LeaveLoop \/ (\E m \in Mouse : ReadRaises(m)) \/ SelectFails
        => CloseAll /\ faults' \in 0 .. MaxFaults
  BY MaxFaultsAssumption DEF LeaveLoop, ReadRaises, SelectFails, ReaderInv, TypeOK
<1> QED
  BY <1>1, <1>2 DEF Next, Reader, Environment, Terminated

\* No step breaks ReaderInv.
LEMMA ReaderStep == ReaderInv /\ [Next]_vars => ReaderInv'
<1> SUFFICES ASSUME ReaderInv, [Next]_vars PROVE ReaderInv'
  OBVIOUS
<1>1. CASE UNCHANGED vars
  BY <1>1 DEF ReaderInv, TypeOK, Closed, QueuesOfLive, vars, thread, merger, kernel, history
<1> QED
  BY <1>1, NextSplit, ReaderControl, ReaderFind, ReaderRead, ReaderClose, ReaderHappens,
     ReaderPlugs

(***************************************************************************)
(* Every variable of the reader keeps its type: the thread looks at open   *)
(* devices only, and no queue grows past what the kernel keeps.            *)
(***************************************************************************)
THEOREM TypeCorrect == Spec => []TypeOK
<1>1. ReaderInv => TypeOK
  BY DEF ReaderInv
<1> QED
  BY <1>1, ReaderInit, ReaderStep, PTL DEF Spec
-----------------------------------------------------------------------------
\* Motion moves from the mice to the queues, and from there to the merger or away.
LEMMA PendingUpdate ==
  ASSUME TypeOK, NEW m \in Mouse, NEW q \in Seq(Event), Len(q) <= Queue,
         queue' = [queue EXCEPT ![m] = q]
  PROVE  /\ Pending' + Motion(queue[m]) = Pending + Motion(q)
         /\ Pending \in Nat /\ Pending' \in Nat /\ Motion(queue[m]) \in Nat /\ Motion(q) \in Nat
<1>1. queue \in Queues /\ Pending \in Nat
  BY PendingType
<1>2. Cardinality(Waiting(queue')) \in Nat
  BY WaitingFinite
<1>3. Cardinality(Waiting(queue')) + Motion(queue[m]) = Cardinality(Waiting(queue)) + Motion(q)
  BY <1>1, WaitingUpdate
<1>4. Motion(queue[m]) \in Nat /\ Motion(q) \in Nat
  BY <1>1, StepsFinite DEF Queues
<1> QED
  BY <1>1, <1>2, <1>3, <1>4 DEF Pending

\* A read hands the merger the motion that it takes from the queue.
LEMMA MotionRead ==
  ASSUME ReaderInv, MotionAccounted, NEW m \in Mouse, Read(m)
  PROVE  MotionAccounted'
<1>1. PICK n \in 1 .. Len(queue[m]) :
        /\ queue' = [queue EXCEPT ![m] = SubSeq(@, n + 1, Len(@))]
        /\ \/ total' = total + Motion(SubSeq(queue[m], 1, n))
           \/ ~Changed(SubSeq(queue[m], 1, n)) /\ total' = total
  BY DEF Read, merger
<1> DEFINE p == SubSeq(queue[m], 1, n)
           s == SubSeq(queue[m], n + 1, Len(queue[m]))
<1>2. /\ TypeOK /\ queue \in [Mouse -> Seq(Event)] /\ Len(queue[m]) <= Queue
      /\ total \in Nat /\ dropped \in Nat
  BY DEF ReaderInv, TypeOK
<1>3. queue[m] \in Seq(Event) /\ Len(queue[m]) \in Nat
  BY <1>2
<1>4. /\ p \in Seq(Event) /\ s \in Seq(Event) /\ Len(s) = Len(queue[m]) - n
  BY <1>3, SplitQueue
<1>5. Motion(queue[m]) = Motion(p) + Motion(s)
  BY <1>3, MotionSplit
<1>6. queue' = [queue EXCEPT ![m] = s] /\ Len(s) <= Queue
  BY <1>1, <1>2, <1>3, <1>4, QueueAssumption
<1>7. total' = total + Motion(p)
  <2>1. ~Changed(p) => Motion(p) = 0
    BY <1>4, MotionUnchanged
  <2> QED
    BY <1>1, <1>2, <2>1
<1> HIDE DEF p, s
<1>8. /\ Pending' + Motion(queue[m]) = Pending + Motion(s)
      /\ Pending \in Nat /\ Pending' \in Nat /\ Motion(s) \in Nat
  BY <1>2, <1>4, <1>6, PendingUpdate
<1>9. Motion(p) \in Nat
  BY <1>4, StepsFinite
<1>10. moved' = moved /\ dropped' = dropped
  BY DEF Read, history
<1>11. moved = total + Pending + dropped
  BY DEF MotionAccounted
<1> DEFINE a == Motion(queue[m])
           b == Motion(p)
           c == Motion(s)
           v == Pending
           w == Pending'
<1>12. /\ b \in Nat /\ c \in Nat /\ v \in Nat /\ w \in Nat /\ a = b + c /\ w + a = v + c
       /\ total' = total + b /\ moved = total + v + dropped
  BY <1>5, <1>7, <1>8, <1>9, <1>11
<1> HIDE DEF a, b, c, v, w
<1>13. total + v + dropped = total + b + w + dropped
  BY <1>2, <1>12
<1>14. moved' = total' + w + dropped'
  BY <1>10, <1>12, <1>13
<1> QED
  BY <1>14 DEF MotionAccounted, w

\* No step breaks MotionAccounted.
LEMMA MotionStep == ReaderInv /\ MotionAccounted /\ [Next]_vars => MotionAccounted'
<1> SUFFICES ASSUME ReaderInv, MotionAccounted, [Next]_vars PROVE MotionAccounted'
  OBVIOUS
<1>1. /\ TypeOK /\ queue \in [Mouse -> Seq(Event)] /\ (\A k \in Mouse : Len(queue[k]) <= Queue)
      /\ total \in Nat /\ dropped \in Nat /\ moved \in Nat /\ Pending \in Nat
  BY PendingType DEF ReaderInv, TypeOK
<1>2. moved = total + Pending + dropped
  BY DEF MotionAccounted
<1>3. ASSUME UNCHANGED <<total, queue, moved, dropped>> PROVE MotionAccounted'
  BY <1>2, <1>3 DEF MotionAccounted, Pending
<1>4. CASE \/ Run \/ Loop \/ Select \/ Selected \/ Wake \/ Stop \/ (\E m \in Mouse : ReadLost(m))
           \/ (\E m \in Mouse : Plug(m)) \/ UNCHANGED vars
  <2>1. UNCHANGED <<total, queue, moved, dropped>>
    BY <1>4 DEF Run, Loop, Select, Selected, Wake, Stop, ReadLost, Plug, vars, merger, kernel,
                history
  <2> QED
    BY <1>3, <2>1
<1>5. ASSUME NEW found \in SUBSET attached, FindMice(found) PROVE MotionAccounted'
  <2>1. queue = [m \in Mouse |-> <<>>]
    BY <1>5, NothingWaits DEF FindMice
  <2>2. UNCHANGED <<total, queue, moved, dropped>>
    BY <1>5, <2>1 DEF FindMice, merger
  <2> QED
    BY <1>3, <2>2
<1>6. CASE CloseAll
  <2>1. UNCHANGED <<total, moved>> /\ dropped' = dropped + Pending
    BY <1>6 DEF CloseAll, merger
  <2>2. Pending' = 0
    <3>1. \A m \in Mouse : queue'[m] = <<>>
      BY <1>6 DEF CloseAll
    <3>2. Cardinality(Waiting(queue')) = 0
      BY <3>1, WaitingNone
    <3> QED
      BY <3>2 DEF Pending
  <2>3. moved' = total' + Pending' + dropped'
    BY <1>1, <1>2, <2>1, <2>2
  <2> QED
    BY <2>3 DEF MotionAccounted
<1>7. ASSUME NEW m \in Mouse, Unplug(m) PROVE MotionAccounted'
  <2>1. /\ UNCHANGED <<total, moved>> /\ dropped' = dropped + Motion(queue[m])
        /\ queue' = [queue EXCEPT ![m] = <<>>]
    BY <1>7 DEF Unplug, merger
  <2>2. <<>> \in Seq(Event) /\ Len(<<>>) <= Queue
    BY QueueAssumption
  <2>3. Pending' + Motion(queue[m]) = Pending + Motion(<<>>)
        /\ Pending' \in Nat /\ Motion(queue[m]) \in Nat
    BY <1>1, <2>1, <2>2, PendingUpdate
  <2> DEFINE a == Motion(queue[m])
             v == Pending
             w == Pending'
  <2>4. w + a = v + 0
    BY <2>3, MotionNone
  <2>5. /\ a \in Nat /\ v \in Nat /\ w \in Nat /\ total' = total /\ moved' = moved
        /\ dropped' = dropped + a /\ moved = total + v + dropped
    BY <1>1, <1>2, <2>1, <2>3
  <2> HIDE DEF a, v, w
  <2>6. total + v + dropped = total + w + (dropped + a)
    BY <1>1, <2>4, <2>5
  <2>7. moved' = total' + w + dropped'
    BY <2>5, <2>6
  <2> QED
    BY <2>7 DEF MotionAccounted, w
<1>8. ASSUME NEW m \in Mouse, NEW e \in Event, Happens(m, e) PROVE MotionAccounted'
  <2>1. CASE m \notin alive
    <3>1. UNCHANGED <<total, queue, moved, dropped>>
      BY <1>8, <2>1 DEF Happens, merger, history
    <3> QED
      BY <1>3, <3>1
  <2>2. CASE m \in alive
    <3> DEFINE q == Queued(queue[m], e)
    <3>1. /\ total' = total /\ moved' = moved + e.step
          /\ queue' = [queue EXCEPT ![m] = q]
          /\ dropped' = (dropped + Motion(queue[m]) + e.step) - Motion(queue'[m])
      BY <1>8, <2>2 DEF Happens, merger
    <3>2. q \in Seq(Event) /\ Len(q) <= Queue /\ Motion(q) \in Nat
      BY <1>1, QueuedType
    <3> HIDE DEF q
    <3>3. queue'[m] = q
      BY <1>1, <3>1
    <3>4. /\ Pending' + Motion(queue[m]) = Pending + Motion(q)
          /\ Pending' \in Nat /\ Motion(queue[m]) \in Nat
      BY <1>1, <3>1, <3>2, PendingUpdate
    <3>5. e.step \in Nat
      BY EventType
    <3> DEFINE a == Motion(queue[m])
               b == Motion(q)
               d == e.step
               v == Pending
               w == Pending'
    <3>6. /\ a \in Nat /\ b \in Nat /\ d \in Nat /\ v \in Nat /\ w \in Nat /\ w + a = v + b
          /\ dropped' = (dropped + a + d) - b /\ moved' = moved + d /\ total' = total
      BY <1>1, <3>1, <3>2, <3>3, <3>4, <3>5
    <3>7. moved = total + v + dropped
      BY <1>2
    <3> HIDE DEF a, b, d, v, w
    <3>8. moved + d = total + w + ((dropped + a + d) - b)
      BY <1>1, <3>6, <3>7
    <3>9. moved' = total' + w + dropped'
      BY <3>6, <3>8
    <3> QED
      BY <3>9 DEF MotionAccounted, w
  <2> QED
    BY <2>1, <2>2
<1> QED
  BY <1>4, <1>5, <1>6, <1>7, <1>8, NextSplit, MotionRead

\* At the start nothing has moved.
LEMMA MotionInit == Init => MotionAccounted
<1> SUFFICES ASSUME Init PROVE MotionAccounted
  OBVIOUS
<1>1. \A m \in Mouse : queue[m] = <<>>
  BY DEF Init
<1>2. Pending = 0
  BY <1>1, WaitingNone DEF Pending
<1> QED
  BY <1>2 DEF Init, MotionAccounted

(***************************************************************************)
(* Every step of an open mouse is in the merger once, waits in a queue, or *)
(* is one the kernel or the reader is known to have thrown away.           *)
(***************************************************************************)
THEOREM MotionIsAccounted == Spec => []MotionAccounted
BY ReaderInit, ReaderStep, MotionInit, MotionStep, PTL DEF Spec
-----------------------------------------------------------------------------
(***************************************************************************)
(* What keeps MaskFollows: a button that the reader has not seen go down   *)
(* is still down, so no press of it can be queued.                         *)
(***************************************************************************)
UnseenHeld == \A m \in alive : unseen[m] \subseteq held[m]

MaskInv == UnseenHeld /\ MaskFollows

\* Steps that touch no mask, queue or button, and open no device.
LEMMA MaskKept ==
  ASSUME MaskInv, UNCHANGED <<mask, queue, held, unseen>>,
         alive' \subseteq alive, blind \subseteq blind'
  PROVE  MaskInv'
BY DEF MaskInv, UnseenHeld, MaskFollows

\* A read moves events from the queue into the mask.
LEMMA MaskRead ==
  ASSUME ReaderInv, MaskInv, NEW m \in Mouse, Read(m)
  PROVE  MaskInv'
<1>1. PICK n \in 1 .. Len(queue[m]) :
        /\ queue' = [queue EXCEPT ![m] = SubSeq(@, n + 1, Len(@))]
        /\ \/ mask' = [mask EXCEPT ![m] = MaskAfter(mask[m], SubSeq(queue[m], 1, n))]
           \/ ~Changed(SubSeq(queue[m], 1, n)) /\ mask' = mask
  BY DEF Read
<1> DEFINE p == SubSeq(queue[m], 1, n)
           s == SubSeq(queue[m], n + 1, Len(queue[m]))
<1>2. UNCHANGED <<held, alive, unseen, blind>>
  BY DEF Read, history
<1>3. /\ queue \in [Mouse -> Seq(Event)] /\ mask \in [Mouse -> SUBSET Button]
      /\ alive \subseteq Mouse
  BY DEF ReaderInv, TypeOK
<1>4. queue[m] \in Seq(Event) /\ mask[m] \in SUBSET Button
  BY <1>3
<1>5. p \in Seq(Event)
  BY <1>4, SplitQueue
<1>6. MaskAfter(MaskAfter(mask[m], p), s) = MaskAfter(mask[m], queue[m])
  BY <1>4, MaskSplit
<1>7. ~Changed(p) => MaskAfter(mask[m], p) = mask[m]
  BY <1>4, <1>5, MaskUnchanged
<1>8. /\ queue'[m] = s /\ mask'[m] = MaskAfter(mask[m], p)
      /\ \A k \in Mouse : k # m => queue'[k] = queue[k] /\ mask'[k] = mask[k]
  <2>1. queue' = [queue EXCEPT ![m] = s]
    BY <1>1
  <2>2. \/ mask' = [mask EXCEPT ![m] = MaskAfter(mask[m], p)]
        \/ ~Changed(p) /\ mask' = mask
    BY <1>1
  <2> HIDE DEF p, s
  <2>3. mask'[m] = MaskAfter(mask[m], p)
    BY <1>3, <1>7, <2>2
  <2> QED
    BY <1>3, <2>1, <2>2, <2>3
<1> HIDE DEF p, s
<1>9. \A k \in alive : MaskAfter(mask'[k], queue'[k]) = MaskAfter(mask[k], queue[k])
  <2> TAKE k \in alive
  <2>1. CASE k = m
    BY <1>6, <1>8, <2>1
  <2>2. CASE k # m
    BY <1>3, <1>8, <2>2
  <2> QED
    BY <2>1, <2>2
<1> QED
  BY <1>2, <1>9 DEF MaskInv, UnseenHeld, MaskFollows

\* An event changes what is pressed and what is queued alike, unless the queue
\* overflows.
LEMMA MaskHappens ==
  ASSUME ReaderInv, MaskInv, NEW m \in Mouse, NEW e \in Event, Happens(m, e)
  PROVE  MaskInv'
<1>1. /\ queue \in [Mouse -> Seq(Event)] /\ mask \in [Mouse -> SUBSET Button]
      /\ held \in [Mouse -> SUBSET Button] /\ unseen \in [Mouse -> SUBSET Button]
      /\ alive \subseteq Mouse
  BY DEF ReaderInv, TypeOK
<1>2. /\ UNCHANGED <<mask, alive>>
      /\ held' = [held EXCEPT ![m] = (@ \union e.down) \ e.up]
      /\ e.down \intersect held[m] = {}
  BY DEF Happens, thread
<1>3. \A k \in Mouse : k # m => held'[k] = held[k]
  BY <1>1, <1>2
<1>4. CASE m \notin alive
  <2>1. UNCHANGED <<queue, unseen, blind>>
    BY <1>4 DEF Happens, history
  <2>2. \A k \in alive : held'[k] = held[k]
    BY <1>1, <1>3, <1>4
  <2> QED
    BY <1>2, <2>1, <2>2 DEF MaskInv, UnseenHeld, MaskFollows
<1>5. CASE m \in alive
  <2>1. /\ queue' = [queue EXCEPT ![m] = Queued(queue[m], e)]
        /\ unseen' = [unseen EXCEPT ![m] = @ \ e.up]
        /\ blind' = IF Len(queue[m]) < Queue THEN blind ELSE blind \union {m}
    BY <1>5 DEF Happens
  <2>2. /\ held'[m] = (held[m] \union e.down) \ e.up
        /\ unseen'[m] = unseen[m] \ e.up
        /\ queue'[m] = Queued(queue[m], e)
    BY <1>1, <1>2, <2>1
  <2>3. \A k \in Mouse : k # m => queue'[k] = queue[k] /\ unseen'[k] = unseen[k]
    BY <1>1, <2>1
  <2>4. unseen[m] \subseteq held[m]
    BY <1>5 DEF MaskInv, UnseenHeld
  <2>5. unseen'[m] \subseteq held'[m]
    BY <2>2, <2>4
  <2>6. UnseenHeld'
    <3> SUFFICES ASSUME NEW k \in alive PROVE unseen'[k] \subseteq held'[k]
      BY <1>2 DEF UnseenHeld
    <3>1. CASE k = m
      BY <2>5, <3>1
    <3>2. CASE k # m
      BY <1>1, <1>3, <2>3, <3>2 DEF MaskInv, UnseenHeld
    <3> QED
      BY <3>1, <3>2
  <2>7. ASSUME m \notin blind'
        PROVE  MaskAfter(mask[m], queue'[m]) = held'[m] \ unseen'[m]
    <3>1. Len(queue[m]) < Queue /\ m \notin blind
      BY <2>1, <2>7
    <3>2. MaskAfter(mask[m], queue[m]) = held[m] \ unseen[m]
      BY <1>5, <3>1 DEF MaskInv, MaskFollows
    <3>3. queue'[m] = Append(queue[m], e)
      BY <2>2, <3>1 DEF Queued
    <3>4. MaskAfter(mask[m], Append(queue[m], e)) = Pressed(MaskAfter(mask[m], queue[m]), e)
      <4>1. mask[m] \in SUBSET Button /\ queue[m] \in Seq(Event)
        BY <1>1
      <4> QED
        BY <4>1, MaskAppend
    <3>5. ((held[m] \ unseen[m]) \union e.down) \ e.up
            = ((held[m] \union e.down) \ e.up) \ (unseen[m] \ e.up)
      BY <1>2, <2>4
    <3> QED
      BY <2>2, <3>2, <3>3, <3>4, <3>5 DEF Pressed
  <2>8. MaskFollows'
    <3> SUFFICES ASSUME NEW k \in alive, k \notin blind'
                 PROVE  MaskAfter(mask[k], queue'[k]) = held'[k] \ unseen'[k]
      BY <1>2 DEF MaskFollows
    <3>1. CASE k = m
      BY <2>7, <3>1
    <3>2. CASE k # m
      <4>1. k \in Mouse /\ k \notin blind
        BY <1>1, <2>1
      <4>2. MaskAfter(mask[k], queue[k]) = held[k] \ unseen[k]
        BY <4>1 DEF MaskInv, MaskFollows
      <4> QED
        BY <1>3, <2>3, <3>2, <4>1, <4>2
    <3> QED
      BY <3>1, <3>2
  <2> QED
    BY <2>6, <2>8 DEF MaskInv
<1> QED
  BY <1>4, <1>5

\* No step breaks MaskInv.
LEMMA MaskStep == ReaderInv /\ MaskInv /\ [Next]_vars => MaskInv'
<1> SUFFICES ASSUME ReaderInv, MaskInv, [Next]_vars PROVE MaskInv'
  OBVIOUS
<1>1. CASE \/ Run \/ Loop \/ Select \/ Selected \/ Wake \/ Stop \/ (\E m \in Mouse : Plug(m))
           \/ UNCHANGED vars
  <2>1. UNCHANGED <<mask, queue, held, unseen, alive, blind>>
    BY <1>1 DEF Run, Loop, Select, Selected, Wake, Stop, Plug, vars, thread, kernel, history
  <2> QED
    BY <2>1, MaskKept
<1>2. ASSUME NEW m \in Mouse, ReadLost(m) PROVE MaskInv'
  <2>1. /\ m \notin alive /\ mask' = [mask EXCEPT ![m] = {}]
        /\ UNCHANGED <<queue, held, unseen, alive, blind>>
    BY <1>2 DEF ReadLost, kernel, history
  <2>2. \A k \in alive : mask'[k] = mask[k]
    <3>1. mask \in [Mouse -> SUBSET Button] /\ alive \subseteq Mouse
      BY DEF ReaderInv, TypeOK
    <3> QED
      BY <2>1, <3>1
  <2> QED
    BY <2>1, <2>2 DEF MaskInv, UnseenHeld, MaskFollows
<1>3. ASSUME NEW found \in SUBSET attached, FindMice(found) PROVE MaskInv'
  <2>1. /\ alive' = found /\ mask' = [m \in Mouse |-> {}] /\ queue' = [m \in Mouse |-> <<>>]
        /\ unseen' = [m \in Mouse |-> IF m \in found THEN held[m] ELSE {}]
        /\ held' = held /\ found \subseteq Mouse
    BY <1>3 DEF FindMice, ReaderInv, TypeOK
  <2>2. \A m \in found : unseen'[m] = held'[m] /\ mask'[m] = {} /\ queue'[m] = <<>>
    BY <2>1
  <2>3. MaskAfter({}, <<>>) = {}
    BY MaskNone
  <2>4. UnseenHeld'
    BY <2>1, <2>2 DEF UnseenHeld
  <2>5. MaskFollows'
    BY <2>1, <2>2, <2>3 DEF MaskFollows
  <2> QED
    BY <2>4, <2>5 DEF MaskInv
<1>4. CASE CloseAll
  BY <1>4 DEF CloseAll, MaskInv, UnseenHeld, MaskFollows
<1>5. ASSUME NEW m \in Mouse, Unplug(m) PROVE MaskInv'
  <2>1. /\ alive' = alive \ {m} /\ held' = [held EXCEPT ![m] = {}]
        /\ queue' = [queue EXCEPT ![m] = <<>>] /\ UNCHANGED <<mask, unseen, blind>>
    BY <1>5 DEF Unplug, thread
  <2>2. \A k \in alive' : held'[k] = held[k] /\ queue'[k] = queue[k]
    <3>1. /\ held \in [Mouse -> SUBSET Button] /\ queue \in [Mouse -> Seq(Event)]
          /\ alive \subseteq Mouse
      BY DEF ReaderInv, TypeOK
    <3> QED
      BY <2>1, <3>1
  <2> QED
    BY <2>1, <2>2 DEF MaskInv, UnseenHeld, MaskFollows
<1> QED
  BY <1>1, <1>2, <1>3, <1>4, <1>5, NextSplit, MaskRead, MaskHappens

\* At the start no device is open.
LEMMA MaskInit == Init => MaskInv
BY DEF Init, MaskInv, UnseenHeld, MaskFollows

(***************************************************************************)
(* With the events still queued the mask of a device is exactly what is    *)
(* pressed, but for buttons that were down before it was opened, as long   *)
(* as its queue has not overflowed.                                        *)
(***************************************************************************)
THEOREM MaskIsFollowed == Spec => []MaskFollows
<1>1. MaskInv => MaskFollows
  BY DEF MaskInv
<1> QED
  BY <1>1, ReaderInit, ReaderStep, MaskInit, MaskStep, PTL DEF Spec
=============================================================================
