------------------------- MODULE NetworkInputProofs -------------------------
(***************************************************************************)
(* Proofs about the way of a mouse event from the hook to the merger, for  *)
(* any screen, buttons, field width, receive buffer and numbers of events  *)
(* and faults.                                                             *)
(***************************************************************************)
EXTENDS NetworkInput, WellFoundedInduction, SequenceTheorems, TLAPS

(***************************************************************************)
(* Induction over the natural numbers, for a set that holds those for      *)
(* which something is true.                                                *)
(***************************************************************************)
Below == {p \in Nat \X Nat : p[1] < p[2]}

\* The order of the natural numbers is well founded.
LEMMA BelowWellFounded == IsWellFoundedOn(Below, Nat)
<1>1. OpToRel(<, Nat) = Below
  BY DEF OpToRel, Below
<1> QED
  BY <1>1, NatLessThanWellFounded

\* A set that holds 0 and with a number the next one holds them all.
LEMMA Induction ==
  ASSUME NEW T, 0 \in T, \A n \in Nat : n \in T => n + 1 \in T
  PROVE  Nat \subseteq T
<1> SUFFICES ASSUME Nat \ T # {} PROVE FALSE
  OBVIOUS
<1>1. PICK n \in Nat \ T : \A k \in Nat \ T : <<k, n>> \notin Below
  BY BelowWellFounded, WFMin
<1>2. n - 1 \in Nat /\ n - 1 < n
  BY <1>1
<1>3. n - 1 \notin T
  BY <1>1, <1>2
<1>4. <<n - 1, n>> \in Below
  BY <1>2 DEF Below
<1> QED
  BY <1>1, <1>2, <1>3, <1>4
-----------------------------------------------------------------------------
(***************************************************************************)
(* The queues: what is left when a datagram is taken out.                  *)
(***************************************************************************)
LEMMA RemoveAtProperties ==
  ASSUME NEW S, NEW q \in Seq(S), NEW i \in 1 .. Len(q)
  PROVE  /\ RemoveAt(q, i) \in Seq(S)
         /\ Len(RemoveAt(q, i)) = Len(q) - 1
         /\ \A k \in 1 .. Len(q) - 1 :
              RemoveAt(q, i)[k] = IF k < i THEN q[k] ELSE q[k + 1]
<1> DEFINE a == SubSeq(q, 1, i - 1)
           b == SubSeq(q, i + 1, Len(q))
<1>1. a \in Seq(S) /\ Len(a) = i - 1 /\ \A k \in 1 .. i - 1 : a[k] = q[k]
  BY SubSeqProperties
<1>2. /\ b \in Seq(S) /\ Len(b) = Len(q) - i
      /\ \A k \in 1 .. Len(q) - i : b[k] = q[k + i]
  BY SubSeqProperties
<1>3. RemoveAt(q, i) = a \o b
  BY DEF RemoveAt
<1> HIDE DEF a, b
<1>4. /\ a \o b \in Seq(S) /\ Len(a \o b) = Len(a) + Len(b)
      /\ \A k \in 1 .. Len(a) + Len(b) :
           (a \o b)[k] = IF k <= Len(a) THEN a[k] ELSE b[k - Len(a)]
  BY <1>1, <1>2, ConcatProperties
<1>5. Len(a) + Len(b) = Len(q) - 1
  BY <1>1, <1>2
<1>6. ASSUME NEW k \in 1 .. Len(q) - 1
      PROVE  (a \o b)[k] = IF k < i THEN q[k] ELSE q[k + 1]
  <2>1. CASE k < i
    BY <1>1, <1>4, <1>5, <2>1
  <2>2. CASE ~(k < i)
    <3>1. k - (i - 1) \in 1 .. Len(q) - i /\ (k - (i - 1)) + i = k + 1
      BY <2>2
    <3>2. (a \o b)[k] = b[k - (i - 1)]
      BY <1>1, <1>4, <1>5, <2>2
    <3> QED
      BY <1>2, <2>2, <3>1, <3>2
  <2> QED
    BY <2>1, <2>2
<1> QED
  BY <1>3, <1>4, <1>5, <1>6

\* Head and tail of a queue.
LEMMA TailProperties ==
  ASSUME NEW S, NEW q \in Seq(S), q # <<>>
  PROVE  /\ Head(q) = q[1] /\ Head(q) \in S
         /\ Tail(q) \in Seq(S) /\ Len(Tail(q)) = Len(q) - 1
         /\ \A k \in 1 .. Len(q) - 1 : Tail(q)[k] = q[k + 1]
BY HeadTailProperties

\* To receive is to take out the first datagram.
LEMMA TailIsRemoveAt ==
  ASSUME NEW S, NEW q \in Seq(S), q # <<>>
  PROVE  1 \in 1 .. Len(q) /\ Tail(q) = RemoveAt(q, 1) /\ Head(q) = q[1]
<1>1. /\ 1 \in 1 .. Len(q) /\ RemoveAt(q, 1) \in Seq(S)
      /\ Len(RemoveAt(q, 1)) = Len(q) - 1
      /\ \A k \in 1 .. Len(q) - 1 : RemoveAt(q, 1)[k] = q[k + 1]
  BY RemoveAtProperties
<1> QED
  BY <1>1, TailProperties, SeqEqual

(***************************************************************************)
(* What a datagram moves; the sum over a queue exists and follows it.      *)
(***************************************************************************)
LEMMA MoveType ==
  ASSUME NEW d \in Datagram
  PROVE  /\ Parsed(d).move \in Int /\ Parsed(d).held \in SUBSET Button
         /\ Parsed(d).held = d.buttons
         /\ d.valid \in BOOLEAN /\ (~d.valid => Parsed(d).move = 0)
<1>1. CASE d = Junk
  BY <1>1, LimitAssumption DEF Junk, Parsed, Decode
<1>2. CASE d # Junk
  <2>1. d.valid = TRUE /\ d.dx \in 0 .. Limit - 1 /\ d.buttons \in SUBSET Button
    BY <1>2 DEF Datagram
  <2>2. Decode(d.dx) \in Int
    <3>1. d.dx \in Int
      BY <2>1, LimitAssumption
    <3> QED
      BY <3>1, LimitAssumption DEF Decode
  <2>3. Parsed(d).move = Decode(d.dx) /\ Parsed(d).held = d.buttons
    BY DEF Parsed
  <2>4. d.valid \in BOOLEAN /\ (~d.valid => Parsed(d).move = 0)
    BY <2>1
  <2> QED
    BY <2>1, <2>2, <2>3, <2>4
<1> QED
  BY <1>1, <1>2

\* There is a function that adds up the motion datagram by datagram.
LEMMA SumsExist ==
  ASSUME NEW q \in Seq(Datagram)
  PROVE  \E f \in [0 .. Len(q) -> Int] :
           \A i \in 0 .. Len(q) :
             f[i] = IF i = 0 THEN 0 ELSE f[i - 1] + Parsed(q[i]).move
<1> DEFINE Summed(f, n) == \A i \in 0 .. n :
                             f[i] = IF i = 0 THEN 0 ELSE f[i - 1] + Parsed(q[i]).move
           T == {n \in Nat : n <= Len(q) => \E f \in [0 .. n -> Int] : Summed(f, n)}
<1>1. 0 \in T
  <2>1. [i \in 0 .. 0 |-> 0] \in [0 .. 0 -> Int] /\ Summed([i \in 0 .. 0 |-> 0], 0)
    OBVIOUS
  <2> QED
    BY <2>1
<1>2. ASSUME NEW n \in Nat, n \in T PROVE n + 1 \in T
  <2> HIDE DEF Summed
  <2> SUFFICES ASSUME n + 1 <= Len(q)
               PROVE  \E f \in [0 .. n + 1 -> Int] : Summed(f, n + 1)
    OBVIOUS
  <2>1. PICK f \in [0 .. n -> Int] : Summed(f, n)
    BY <1>2
  <2> USE DEF Summed
  <2> DEFINE m == Parsed(q[n + 1]).move
             g == [i \in 0 .. n + 1 |-> IF i <= n THEN f[i] ELSE f[n] + m]
  <2>2. m \in Int
    <3>1. q[n + 1] \in Datagram
      BY ElementOfSeq
    <3> QED
      BY <3>1, MoveType
  <2> HIDE DEF m
  <2>3. g \in [0 .. n + 1 -> Int]
    BY <2>1, <2>2
  <2>4. ASSUME NEW i \in 0 .. n + 1
        PROVE  g[i] = IF i = 0 THEN 0 ELSE g[i - 1] + Parsed(q[i]).move
    <3>1. CASE i <= n
      BY <2>1, <3>1
    <3>2. CASE i = n + 1
      BY <3>2 DEF m
    <3> QED
      BY <3>1, <3>2
  <2> QED
    BY <2>3, <2>4
<1> HIDE DEF T
<1>3. Nat \subseteq T
  BY <1>1, <1>2, Induction
<1> QED
  BY <1>3 DEF T

\* So Sums, which CHOOSE defines, is one.
LEMMA SumsProperties ==
  ASSUME NEW q \in Seq(Datagram)
  PROVE  /\ Sums(q) \in [0 .. Len(q) -> Int]
         /\ Sums(q)[0] = 0
         /\ \A i \in 1 .. Len(q) : Sums(q)[i] = Sums(q)[i - 1] + Parsed(q[i]).move
<1> DEFINE F(f) == [i \in 0 .. Len(q) |-> IF i = 0 THEN 0 ELSE f[i - 1] + Parsed(q[i]).move]
<1>1. PICK f \in [0 .. Len(q) -> Int] :
        \A i \in 0 .. Len(q) : f[i] = IF i = 0 THEN 0 ELSE f[i - 1] + Parsed(q[i]).move
  BY SumsExist
<1>2. f = F(f)
  BY <1>1
<1>3. Sums(q) = F(Sums(q))
  BY <1>2 DEF Sums
<1> DEFINE s == Sums(q)
<1> HIDE DEF s
<1>4. s = F(s)
  BY <1>3 DEF s
<1>5. s[0] = 0 /\ \A i \in 1 .. Len(q) : s[i] = s[i - 1] + Parsed(q[i]).move
  BY <1>4
<1> DEFINE T == {n \in Nat : n <= Len(q) => s[n] \in Int}
<1>6. 0 \in T
  BY <1>5
<1>7. ASSUME NEW n \in Nat, n \in T PROVE n + 1 \in T
  <2> SUFFICES ASSUME n + 1 <= Len(q) PROVE s[n + 1] \in Int
    OBVIOUS
  <2>1. s[n + 1] = s[n] + Parsed(q[n + 1]).move
    BY <1>5
  <2>2. q[n + 1] \in Datagram
    BY ElementOfSeq
  <2> QED
    BY <1>7, <2>1, <2>2, MoveType
<1> HIDE DEF T
<1>8. Nat \subseteq T
  BY <1>6, <1>7, Induction
<1>9. s \in [0 .. Len(q) -> Int]
  BY <1>4, <1>8 DEF T
<1> QED
  BY <1>5, <1>9 DEF s

\* Queues that agree on a stretch move alike along it.
LEMMA SumsAgree ==
  ASSUME NEW q \in Seq(Datagram), NEW r \in Seq(Datagram),
         NEW i \in 0 .. Len(q), NEW u \in i .. Len(q),
         NEW j \in 0 .. Len(r), NEW v \in j .. Len(r), u - i = v - j,
         \A k \in 1 .. u - i : q[i + k] = r[j + k]
  PROVE  Sums(q)[u] - Sums(q)[i] = Sums(r)[v] - Sums(r)[j]
<1> DEFINE s == Sums(q)
           t == Sums(r)
           n == u - i
           T == {k \in Nat : k <= n => s[i + k] - s[i] = t[j + k] - t[j]}
<1>1. /\ s \in [0 .. Len(q) -> Int]
      /\ \A k \in 1 .. Len(q) : s[k] = s[k - 1] + Parsed(q[k]).move
  BY SumsProperties
<1>2. /\ t \in [0 .. Len(r) -> Int]
      /\ \A k \in 1 .. Len(r) : t[k] = t[k - 1] + Parsed(r[k]).move
  BY SumsProperties
<1> HIDE DEF s, t
<1>3. s[i] \in Int /\ t[j] \in Int /\ n \in Nat
  <2>1. i \in 0 .. Len(q) /\ j \in 0 .. Len(r) /\ n \in Nat
    OBVIOUS
  <2> HIDE DEF n
  <2> QED
    BY <1>1, <1>2, <2>1
<1>4. 0 \in T
  BY <1>3
<1>5. ASSUME NEW k \in Nat, k \in T, k + 1 <= n
      PROVE  s[i + (k + 1)] - s[i] = t[j + (k + 1)] - t[j]
  <2>1. i + (k + 1) \in 1 .. Len(q) /\ (i + (k + 1)) - 1 = i + k /\ i + k \in 0 .. Len(q)
    BY <1>5
  <2>2. j + (k + 1) \in 1 .. Len(r) /\ (j + (k + 1)) - 1 = j + k /\ j + k \in 0 .. Len(r)
    BY <1>5
  <2>3. q[i + (k + 1)] = r[j + (k + 1)]
    BY <1>5
  <2> DEFINE m == Parsed(q[i + (k + 1)]).move
  <2>4. m \in Int
    BY <2>1, ElementOfSeq, MoveType
  <2>5. s[i + (k + 1)] = s[i + k] + m
    BY <1>1, <2>1
  <2>6. t[j + (k + 1)] = t[j + k] + m
    BY <1>2, <2>2, <2>3
  <2>7. s[i + k] - s[i] = t[j + k] - t[j]
    BY <1>5
  <2>8. s[i + k] \in Int /\ t[j + k] \in Int
    BY <1>1, <1>2, <2>1, <2>2
  <2> HIDE DEF m, T, n
  <2> DEFINE a == s[i + k]
             b == t[j + k]
             c == s[i]
             d == t[j]
  <2>9. a - c = b - d /\ a \in Int /\ b \in Int /\ c \in Int /\ d \in Int
    BY <1>3, <2>7, <2>8
  <2>10. s[i + (k + 1)] = a + m /\ t[j + (k + 1)] = b + m
    BY <2>5, <2>6
  <2> HIDE DEF a, b, c, d
  <2>11. (a + m) - c = (b + m) - d
    BY <2>4, <2>9
  <2> QED
    BY <2>10, <2>11 DEF c, d
<1>6. ASSUME NEW k \in Nat, k \in T PROVE k + 1 \in T
  BY <1>5, <1>6
<1> HIDE DEF T
<1>7. Nat \subseteq T
  BY <1>4, <1>6, Induction
<1>8. s[i + n] - s[i] = t[j + n] - t[j]
  <2>1. n \in T
    BY <1>3, <1>7
  <2> HIDE DEF n
  <2> QED
    BY <1>3, <2>1 DEF T
<1>9. i + n = u /\ j + n = v
  OBVIOUS
<1> QED
  BY <1>8, <1>9 DEF s, t

\* The motion of a queue is an integer.
LEMMA MotionType == \A q \in Seq(Datagram) : Motion(q) \in Int
BY SumsProperties DEF Motion

\* An empty queue holds no motion.
LEMMA MotionNone == Motion(<<>>) = 0
<1>1. <<>> \in Seq(Datagram) /\ Len(<<>>) = 0
  OBVIOUS
<1> QED
  BY <1>1, SumsProperties DEF Motion

\* One more datagram adds its motion.
LEMMA MotionAppend ==
  ASSUME NEW q \in Seq(Datagram), NEW d \in Datagram
  PROVE  Motion(Append(q, d)) = Motion(q) + Parsed(d).move
<1> DEFINE r == Append(q, d)
           n == Len(q)
<1>1. /\ r \in Seq(Datagram) /\ Len(r) = n + 1 /\ n \in Nat
      /\ (\A k \in 1 .. n : r[k] = q[k]) /\ r[n + 1] = d
  OBVIOUS
<1> HIDE DEF r
<1>2. Sums(r)[n] - Sums(r)[0] = Sums(q)[n] - Sums(q)[0]
  <2>1. \A k \in 1 .. n - 0 : r[0 + k] = q[0 + k]
    BY <1>1
  <2>2. 0 \in 0 .. Len(r) /\ n \in 0 .. Len(r) /\ 0 \in 0 .. Len(q) /\ n \in 0 .. Len(q)
    BY <1>1
  <2> QED
    BY <1>1, <2>1, <2>2, SumsAgree
<1>3. /\ Sums(r)[0] = 0 /\ Sums(q)[0] = 0
      /\ Sums(r)[n] \in Int /\ Sums(q)[n] \in Int
      /\ Sums(r)[n + 1] = Sums(r)[(n + 1) - 1] + Parsed(d).move
  BY <1>1, SumsProperties
<1>4. (n + 1) - 1 = n
  BY <1>1
<1>5. Sums(r)[n + 1] = Sums(q)[n] + Parsed(d).move
  BY <1>2, <1>3, <1>4
<1> QED
  BY <1>1, <1>5 DEF Motion, r

\* One that is taken out, wherever it is, takes its motion with it.
LEMMA MotionRemoveAt ==
  ASSUME NEW q \in Seq(Datagram), NEW i \in 1 .. Len(q)
  PROVE  Motion(RemoveAt(q, i)) = Motion(q) - Parsed(q[i]).move
<1> DEFINE r == RemoveAt(q, i)
           n == Len(q)
<1>1. /\ r \in Seq(Datagram) /\ Len(r) = n - 1
      /\ \A k \in 1 .. n - 1 : r[k] = IF k < i THEN q[k] ELSE q[k + 1]
  BY RemoveAtProperties
<1> HIDE DEF r
<1>2. n \in Nat /\ i - 1 \in Nat /\ n - i \in Nat /\ i \in Nat
  OBVIOUS
<1>3. Sums(r)[i - 1] - Sums(r)[0] = Sums(q)[i - 1] - Sums(q)[0]
  <2>1. \A k \in 1 .. (i - 1) - 0 : r[0 + k] = q[0 + k]
    BY <1>1
  <2>2. /\ 0 \in 0 .. Len(r) /\ i - 1 \in 0 .. Len(r)
        /\ 0 \in 0 .. Len(q) /\ i - 1 \in 0 .. Len(q)
    BY <1>1, <1>2
  <2> QED
    BY <1>1, <2>1, <2>2, SumsAgree
<1>4. Sums(r)[n - 1] - Sums(r)[i - 1] = Sums(q)[n] - Sums(q)[i]
  <2>1. ASSUME NEW k \in 1 .. (n - 1) - (i - 1) PROVE r[(i - 1) + k] = q[i + k]
    <3>1. (i - 1) + k \in 1 .. n - 1 /\ ~((i - 1) + k < i) /\ ((i - 1) + k) + 1 = i + k
      BY <1>2
    <3> QED
      BY <1>1, <3>1
  <2>2. /\ i - 1 \in 0 .. Len(r) /\ n - 1 \in (i - 1) .. Len(r)
        /\ i \in 0 .. Len(q) /\ n \in i .. Len(q)
        /\ (n - 1) - (i - 1) = n - i
    BY <1>1, <1>2
  <2> QED
    BY <1>1, <2>1, <2>2, SumsAgree
<1>5. /\ Sums(q)[0] = 0 /\ Sums(q)[n] \in Int
      /\ Sums(q)[i] = Sums(q)[i - 1] + Parsed(q[i]).move
      /\ Sums(q)[i] \in Int /\ Sums(q)[i - 1] \in Int
  <2>1. i \in 0 .. n /\ i - 1 \in 0 .. n /\ n \in 0 .. n
    BY <1>2
  <2> QED
    BY <2>1, SumsProperties
<1>6. Sums(r)[0] = 0 /\ Sums(r)[i - 1] \in Int /\ Sums(r)[n - 1] \in Int
  <2>1. i - 1 \in 0 .. n - 1 /\ n - 1 \in 0 .. n - 1
    BY <1>2
  <2> QED
    BY <1>1, <2>1, SumsProperties
<1>7. Parsed(q[i]).move \in Int
  BY ElementOfSeq, MoveType
<1>8. Sums(r)[n - 1] = Sums(q)[n] - Parsed(q[i]).move
  <2> DEFINE a == Sums(r)[i - 1]
             b == Sums(q)[i - 1]
             c == Sums(r)[n - 1]
             d == Sums(q)[n]
             e == Sums(q)[i]
             m == Parsed(q[i]).move
  <2>1. a \in Int /\ b \in Int /\ c \in Int /\ d \in Int /\ e \in Int /\ m \in Int
    BY <1>5, <1>6, <1>7
  <2>2. a - 0 = b - 0 /\ c - a = d - e /\ e = b + m
    BY <1>3, <1>4, <1>5, <1>6
  <2> HIDE DEF a, b, c, d, e, m
  <2>3. c = d - m
    BY <2>1, <2>2
  <2> QED
    BY <2>3 DEF c, d, m
<1> QED
  BY <1>1, <1>8 DEF Motion, r

\* So does the first one.
LEMMA MotionTail ==
  ASSUME NEW q \in Seq(Datagram), q # <<>>
  PROVE  Motion(Tail(q)) = Motion(q) - Parsed(Head(q)).move
<1>1. 1 \in 1 .. Len(q) /\ Tail(q) = RemoveAt(q, 1) /\ Head(q) = q[1]
  BY TailIsRemoveAt
<1> QED
  BY <1>1, MotionRemoveAt
-----------------------------------------------------------------------------
\* What the hook packs fits the layout of the packet.
LEMMA PacketType ==
  ASSUME NEW dx \in Int, NEW held \in SUBSET Button, seq \in 0 .. SeqValues - 1
  PROVE  Packet(dx, held) \in Datagram
<1>1. Encode(dx) \in 0 .. Limit - 1
  BY LimitAssumption DEF Encode
<1> QED
  BY <1>1 DEF Packet, Datagram

\* So does a packet that carries a button only.
LEMMA ButtonPacketType ==
  ASSUME TypeOK, NEW held \in SUBSET Button
  PROVE  Packet(0, held) \in Datagram
<1>1. seq \in 0 .. SeqValues - 1
  BY DEF TypeOK
<1>2. 0 \in Int
  OBVIOUS
<1> QED
  BY <1>1, <1>2, PacketType

\* A datagram of another program is a datagram.
LEMMA JunkType == Junk \in Datagram
BY DEF Datagram

\* The number wraps inside its field.
LEMMA SeqType ==
  ASSUME seq \in 0 .. SeqValues - 1
  PROVE  (seq + 1) % SeqValues \in 0 .. SeqValues - 1
BY SeqAssumption

\* The initial values have their types.
LEMMA TypeInit == Init => TypeOK
<1> SUFFICES ASSUME Init PROVE TypeOK
  OBVIOUS
<1>1. clean \in BOOLEAN
  BY DEF Init
<1>2. wire \in Seq(Datagram) /\ inbox \in Seq(Datagram) /\ Len(inbox) <= Inbox
  <2>1. <<>> \in Seq(Datagram) /\ Len(<<>>) = 0
    OBVIOUS
  <2> QED
    BY <2>1, InboxAssumption DEF Init
<1>3. /\ seq \in 0 .. SeqValues - 1 /\ events \in 0 .. MaxEvents
      /\ faults \in 0 .. MaxFaults
  BY SeqAssumption, MaxFaultsAssumption DEF Init
<1>4. relative \in BOOLEAN /\ inbox = <<>> /\ bound = FALSE /\ pc = "start"
  BY DEF Init
<1>5. /\ cursor \in Point /\ appHeld \in SUBSET Button /\ buttons \in SUBSET Button
      /\ network \in SUBSET Button
  BY DEF Init
<1>6. total \in Int /\ wanted \in Int /\ lost \in Int /\ extra \in Int
  BY DEF Init
<1>7. running \in BOOLEAN /\ wide \in BOOLEAN
  BY DEF Init
<1> QED
  BY <1>1, <1>2, <1>3, <1>4, <1>5, <1>6, <1>7 DEF TypeOK

\* The hook: what it sends is a datagram.
LEMMA TypeForward ==
  ASSUME TypeOK, NEW p \in Datagram, Forward(p)
  PROVE  /\ wire' \in Seq(Datagram) /\ seq' \in 0 .. SeqValues - 1
         /\ lost' \in Int /\ clean' \in BOOLEAN /\ faults' \in 0 .. MaxFaults
         /\ relative' = relative
<1>1. Append(wire, p) \in Seq(Datagram)
  BY DEF TypeOK
<1>2. Parsed(p).move \in Int
  BY MoveType
<1>3. /\ wire \in Seq(Datagram) /\ seq \in 0 .. SeqValues - 1 /\ lost \in Int
      /\ clean \in BOOLEAN /\ faults \in 0 .. MaxFaults
  BY DEF TypeOK
<1>4. seq' \in 0 .. SeqValues - 1 /\ relative' = relative
  BY <1>3, SeqType DEF Forward
<1>5. CASE wire' = Append(wire, p) /\ UNCHANGED <<lost, clean, faults>>
  BY <1>1, <1>3, <1>4, <1>5
<1>6. CASE /\ faults < MaxFaults /\ faults' = faults + 1 /\ clean' = FALSE
           /\ lost' = lost + Parsed(p).move /\ UNCHANGED wire
  <2>1. faults' \in 0 .. MaxFaults
    BY <1>3, <1>6, MaxFaultsAssumption
  <2>2. lost' \in Int
    BY <1>2, <1>3, <1>6
  <2>3. clean' \in BOOLEAN /\ wire' \in Seq(Datagram)
    BY <1>3, <1>6
  <2> QED
    BY <1>4, <2>1, <2>2, <2>3
<1> QED
  BY <1>5, <1>6 DEF Forward, Transmit

\* The hook keeps the types.
LEMMA TypeHook == TypeOK /\ Hook => TypeOK'
<1> SUFFICES ASSUME TypeOK, Hook PROVE TypeOK'
  OBVIOUS
<1>1. ASSUME NEW pt \in Point, InjectMove(pt) PROVE TypeOK'
  <2>1. pt \in Int /\ cursor \in Int
    BY PointAssumption DEF TypeOK
  <2> DEFINE dx == IF relative THEN pt - cursor ELSE pt
             p == Packet(dx, buttons)
  <2>2. dx \in Int
    BY <2>1
  <2> HIDE DEF dx
  <2>3. p \in Datagram
    BY <2>2, PacketType DEF TypeOK
  <2> HIDE DEF p
  <2>4. Forward(p)
    BY <1>1 DEF InjectMove, p, dx
  <2>5. /\ wire' \in Seq(Datagram) /\ seq' \in 0 .. SeqValues - 1
        /\ lost' \in Int /\ clean' \in BOOLEAN /\ faults' \in 0 .. MaxFaults
        /\ relative' = relative
    BY <2>3, <2>4, TypeForward
  <2>6. /\ wanted' \in Int /\ wide' \in BOOLEAN /\ events' \in 0 .. MaxEvents
        /\ UNCHANGED <<application, buttons, inbox, listener, merger, extra>>
    BY <1>1, <2>1, SeqAssumption DEF InjectMove, TypeOK, Fits
  <2> QED
    BY <2>5, <2>6 DEF TypeOK, application, listener, merger
<1>2. ASSUME NEW held \in SUBSET Button, NEW b \in SUBSET Button, InjectButton(held, b)
      PROVE  TypeOK'
  <2> DEFINE p == Packet(0, b)
  <2>1. p \in Datagram
    BY ButtonPacketType
  <2> HIDE DEF p
  <2>2. Forward(p)
    BY <1>2 DEF InjectButton, p
  <2>3. /\ wire' \in Seq(Datagram) /\ seq' \in 0 .. SeqValues - 1
        /\ lost' \in Int /\ clean' \in BOOLEAN /\ faults' \in 0 .. MaxFaults
        /\ relative' = relative
    BY <2>1, <2>2, TypeForward
  <2>4. /\ appHeld' = held /\ buttons' = b /\ events' \in 0 .. MaxEvents
        /\ UNCHANGED <<cursor, inbox, listener, merger, wanted, wide, extra>>
    BY <1>2, SeqAssumption DEF InjectButton, TypeOK
  <2> QED
    BY <2>3, <2>4 DEF TypeOK, listener, merger
<1>3. ASSUME NEW b \in Button, Press(b) \/ Release(b) PROVE TypeOK'
  <2>1. /\ appHeld \union {b} \in SUBSET Button /\ buttons \union {b} \in SUBSET Button
        /\ appHeld \ {b} \in SUBSET Button /\ buttons \ {b} \in SUBSET Button
    BY DEF TypeOK
  <2> QED
    BY <1>2, <1>3, <2>1 DEF Press, Release
<1>4. ASSUME NEW pt \in Point, PhysicalMove(pt) PROVE TypeOK'
  BY <1>4, SeqAssumption DEF PhysicalMove, TypeOK, hook, channel, listener, merger, sums
<1> QED
  BY <1>1, <1>3, <1>4 DEF Hook

\* A datagram that arrives goes into a bound socket with room, or nowhere.
LEMMA TypeArrive ==
  ASSUME TypeOK, NEW i \in DOMAIN wire, Arrive(i), faults' \in 0 .. MaxFaults
  PROVE  TypeOK'
<1>1. i \in 1 .. Len(wire) /\ wire \in Seq(Datagram) /\ inbox \in Seq(Datagram)
  BY DEF TypeOK
<1>2. wire' \in Seq(Datagram)
  BY <1>1, RemoveAtProperties DEF Arrive
<1>3. wire[i] \in Datagram /\ wire[i].valid \in BOOLEAN /\ Parsed(wire[i]).move \in Int
  <2>1. wire[i] \in Datagram
    BY <1>1
  <2> QED
    BY <2>1, MoveType
<1>4. /\ inbox' \in Seq(Datagram) /\ Len(inbox') <= Inbox /\ (inbox' # <<>> => bound)
      /\ clean' \in BOOLEAN /\ lost' \in Int
  <2>1. CASE bound /\ Len(inbox) < Inbox /\ inbox' = Append(inbox, wire[i])
             /\ clean' = (clean /\ i = 1) /\ UNCHANGED lost
    BY <1>1, <1>3, <2>1, InboxAssumption DEF TypeOK
  <2>2. CASE lost' = lost + Parsed(wire[i]).move /\ clean' = (clean /\ ~wire[i].valid)
             /\ UNCHANGED inbox
    BY <1>3, <2>2 DEF TypeOK
  <2> QED
    BY <2>1, <2>2 DEF Arrive
<1>5. UNCHANGED <<application, hook, listener, merger, wanted, wide, extra, events>>
  BY DEF Arrive
<1> QED
  BY <1>2, <1>4, <1>5 DEF TypeOK, application, hook, listener, merger

\* The network keeps the types.
LEMMA TypeNetwork == TypeOK /\ Network => TypeOK'
<1> SUFFICES ASSUME TypeOK, Network PROVE TypeOK'
  OBVIOUS
<1>1. Fault => faults' \in 0 .. MaxFaults
  BY MaxFaultsAssumption DEF Fault, TypeOK
<1>2. CASE Deliver
  <2>1. 1 \in DOMAIN wire /\ Arrive(1) /\ faults' \in 0 .. MaxFaults
    BY <1>2 DEF Deliver, TypeOK
  <2> QED
    BY <2>1, TypeArrive
<1>3. CASE Stray
  <2>1. wire' \in Seq(Datagram)
    BY <1>3, JunkType DEF Stray, TypeOK
  <2> QED
    BY <1>1, <1>3, <2>1 DEF Stray, TypeOK, application, hook, listener, merger, sums
<1>4. ASSUME NEW i \in DOMAIN wire, Overtake(i) PROVE TypeOK'
  BY <1>1, <1>4, TypeArrive DEF Overtake
<1>5. ASSUME NEW i \in DOMAIN wire, Lose(i) \/ Duplicate(i) PROVE TypeOK'
  <2>1. i \in 1 .. Len(wire) /\ wire[i] \in Datagram /\ wire \in Seq(Datagram)
    BY DEF TypeOK
  <2>2. RemoveAt(wire, i) \in Seq(Datagram) /\ Append(wire, wire[i]) \in Seq(Datagram)
    BY <2>1, RemoveAtProperties
  <2>3. Parsed(wire[i]).move \in Int
    BY <2>1, MoveType
  <2>4. UNCHANGED <<application, hook, inbox, listener, merger, wanted, wide, events>>
    BY <1>5 DEF Lose, Duplicate
  <2>5. wire' \in Seq(Datagram) /\ clean' = FALSE /\ faults' \in 0 .. MaxFaults
    BY <1>1, <1>5, <2>2 DEF Lose, Duplicate
  <2>6. lost \in Int /\ extra \in Int
    BY DEF TypeOK
  <2>7. \/ lost' = lost + Parsed(wire[i]).move /\ extra' = extra
        \/ lost' = lost /\ extra' = extra + Parsed(wire[i]).move
    BY <1>5 DEF Lose, Duplicate
  <2>8. lost' \in Int /\ extra' \in Int
    BY <2>3, <2>6, <2>7
  <2> QED
    BY <2>4, <2>5, <2>8 DEF TypeOK, application, hook, listener, merger
<1> QED
  BY <1>2, <1>3, <1>4, <1>5 DEF Network

\* A read keeps the types.
LEMMA TypeReceive == TypeOK /\ Receive => TypeOK'
<1> SUFFICES ASSUME TypeOK, Receive PROVE TypeOK'
  OBVIOUS
<1>1. inbox \in Seq(Datagram) /\ inbox # <<>> /\ Len(inbox) <= Inbox
  BY DEF Receive, TypeOK
<1>2. inbox' \in Seq(Datagram) /\ Len(inbox') <= Inbox
  BY <1>1, TailProperties, InboxAssumption DEF Receive
<1>3. network' \in SUBSET Button /\ total' \in Int
  <2>1. Head(inbox) \in Datagram
    BY <1>1
  <2> QED
    BY <2>1, MoveType DEF Receive, Accumulate, TypeOK, merger
<1>4. bound /\ pc' = "loop" /\ pc = "recv"
  BY <1>1 DEF Receive, TypeOK
<1> QED
  BY <1>2, <1>3, <1>4 DEF Receive, TypeOK, application, hook, sums

\* Closing the socket empties its buffer.
LEMMA TypeCleanup ==
  ASSUME TypeOK, Cleanup, faults' \in 0 .. MaxFaults PROVE TypeOK'
<1>1. Motion(inbox) \in Int
  BY MotionType DEF TypeOK
<1>2. lost' \in Int /\ inbox' = <<>> /\ clean' \in BOOLEAN
  BY <1>1 DEF Cleanup, TypeOK
<1>3. Len(inbox') <= Inbox
  BY <1>2, InboxAssumption
<1>4. /\ bound' = FALSE /\ pc' = "done"
      /\ UNCHANGED <<application, hook, wire, running, merger, wanted, wide, extra, events>>
  BY DEF Cleanup
<1>5. bound' \in BOOLEAN /\ (bound' <=> pc' \in {"loop", "recv"})
      /\ pc' \in {"start", "loop", "recv", "done"}
  BY <1>4
<1>6. inbox' \in Seq(Datagram) /\ (inbox' # <<>> => bound')
  BY <1>2
<1> QED
  BY <1>2, <1>3, <1>4, <1>5, <1>6 DEF TypeOK, application, hook, merger

\* No step breaks the types.
LEMMA TypeStep == TypeOK /\ [Next]_vars => TypeOK'
<1> SUFFICES ASSUME TypeOK, [Next]_vars PROVE TypeOK'
  OBVIOUS
<1>1. CASE Hook
  BY <1>1, TypeHook
<1>2. CASE Network
  BY <1>2, TypeNetwork
<1>3. CASE Receive
  BY <1>3, TypeReceive
<1>4. CASE ReceiveFails \/ LeaveLoop
  <2>1. Cleanup /\ faults' \in 0 .. MaxFaults
    BY <1>4, MaxFaultsAssumption DEF ReceiveFails, LeaveLoop, Fault, TypeOK
  <2> QED
    BY <2>1, TypeCleanup
<1>5. CASE Bind \/ BindFails
  <2>1. /\ pc = "start" /\ running' = TRUE
        /\ UNCHANGED <<application, hook, channel, merger, sums, clean, events>>
    BY <1>5 DEF Bind, BindFails
  <2>2. (bound' = TRUE /\ pc' = "loop") \/ (bound' = bound /\ pc' = "done")
    BY <1>5 DEF Bind, BindFails
  <2>3. faults' \in 0 .. MaxFaults
    <3>1. faults' = faults \/ Fault
      BY <1>5 DEF Bind, BindFails
    <3> QED
      BY <3>1, MaxFaultsAssumption DEF Fault, TypeOK
  <2>4. bound = FALSE /\ inbox = <<>>
    BY <2>1 DEF TypeOK
  <2>5. /\ bound' \in BOOLEAN /\ (bound' <=> pc' \in {"loop", "recv"})
        /\ pc' \in {"start", "loop", "recv", "done"}
    BY <2>2, <2>4
  <2> QED
    BY <2>1, <2>3, <2>4, <2>5 DEF TypeOK, application, hook, channel, merger, sums
<1>6. CASE Loop \/ Timeout \/ Stop
  <2>1. UNCHANGED <<application, hook, channel, bound, merger, sums, clean, events, faults>>
    BY <1>6 DEF Loop, Timeout, Stop
  <2>2. /\ running' \in BOOLEAN /\ pc' \in {"start", "loop", "recv", "done"}
        /\ (pc' \in {"loop", "recv"} <=> pc \in {"loop", "recv"})
    BY <1>6 DEF Loop, Timeout, Stop, TypeOK
  <2> QED
    BY <2>1, <2>2 DEF TypeOK, application, hook, channel, merger, sums
<1>7. CASE Terminated \/ UNCHANGED vars
  BY <1>7 DEF Terminated, vars, TypeOK, application, hook, channel, listener, merger, sums
<1> QED
  BY <1>1, <1>2, <1>3, <1>4, <1>5, <1>6, <1>7 DEF Next, Listener

(***************************************************************************)
(* Every variable of the way keeps its type: what the hook packs fits the  *)
(* fields, and nothing waits in the receive buffer of a closed socket.     *)
(***************************************************************************)
THEOREM TypeCorrect == Spec => []TypeOK
BY TypeInit, TypeStep, PTL DEF Spec
-----------------------------------------------------------------------------
(***************************************************************************)
(* What keeps NewestHeals.  seq has not wrapped, because it counts packets *)
(* and these are no more than the events, which are fewer than the numbers.*)
(* So only the packet sent last has the number before seq, and it carries  *)
(* the present mask of the hook.                                           *)
(***************************************************************************)
Numbered(q, n, held) ==
  \A i \in DOMAIN q :
    q[i].valid => q[i].seq < n /\ (q[i].seq + 1 = n => q[i].buttons = held)

NewestInv ==
  /\ SeqValues > MaxEvents /\ seq <= events
  /\ Numbered(wire, seq, buttons) /\ Numbered(inbox, seq, buttons)

\* A packet has a number.
LEMMA NumberType ==
  ASSUME NEW d \in Datagram, d.valid
  PROVE  d.seq \in Nat
<1>1. d # Junk
  BY DEF Junk
<1>2. d.seq \in 0 .. SeqValues - 1
  BY <1>1 DEF Datagram
<1> QED
  BY <1>2, SeqAssumption

\* What is appended to a numbered queue, and what is taken out of it.
LEMMA NumberedAppend ==
  ASSUME NEW q \in Seq(Datagram), NEW d \in Datagram, NEW n, NEW held,
         Numbered(q, n, held),
         d.valid => d.seq < n /\ (d.seq + 1 = n => d.buttons = held)
  PROVE  Numbered(Append(q, d), n, held)
<1>1. /\ DOMAIN Append(q, d) = 1 .. Len(q) + 1 /\ DOMAIN q = 1 .. Len(q) /\ Len(q) \in Nat
      /\ (\A k \in 1 .. Len(q) : Append(q, d)[k] = q[k]) /\ Append(q, d)[Len(q) + 1] = d
  OBVIOUS
<1> SUFFICES ASSUME NEW k \in 1 .. Len(q) + 1, Append(q, d)[k].valid
             PROVE  /\ Append(q, d)[k].seq < n
                    /\ (Append(q, d)[k].seq + 1 = n => Append(q, d)[k].buttons = held)
  BY <1>1 DEF Numbered
<1>2. CASE k = Len(q) + 1
  BY <1>1, <1>2
<1>3. CASE k # Len(q) + 1
  <2>1. k \in 1 .. Len(q)
    BY <1>1, <1>3
  <2> QED
    BY <1>1, <2>1 DEF Numbered
<1> QED
  BY <1>2, <1>3

\* What is left of a numbered queue is numbered.
LEMMA NumberedRemoveAt ==
  ASSUME NEW q \in Seq(Datagram), NEW i \in 1 .. Len(q), NEW n, NEW held,
         Numbered(q, n, held)
  PROVE  Numbered(RemoveAt(q, i), n, held)
<1> DEFINE r == RemoveAt(q, i)
<1>1. /\ r \in Seq(Datagram) /\ Len(r) = Len(q) - 1
      /\ \A k \in 1 .. Len(q) - 1 : r[k] = IF k < i THEN q[k] ELSE q[k + 1]
  BY RemoveAtProperties
<1> HIDE DEF r
<1>2. DOMAIN r = 1 .. Len(q) - 1 /\ DOMAIN q = 1 .. Len(q) /\ Len(q) \in Nat
  BY <1>1
<1>3. \A k \in DOMAIN r : \E j \in DOMAIN q : r[k] = q[j]
  BY <1>1, <1>2
<1>4. Numbered(r, n, held)
  BY <1>3 DEF Numbered
<1> QED
  BY <1>4 DEF r

\* So is its tail.
LEMMA NumberedTail ==
  ASSUME NEW q \in Seq(Datagram), q # <<>>, NEW n, NEW held, Numbered(q, n, held)
  PROVE  Numbered(Tail(q), n, held)
<1>1. 1 \in 1 .. Len(q) /\ Tail(q) = RemoveAt(q, 1)
  BY TailIsRemoveAt
<1> QED
  BY <1>1, NumberedRemoveAt

\* A packet from before has a number too small to be the newest.
LEMMA NumberedNext ==
  ASSUME NEW q \in Seq(Datagram), NEW n \in Nat, NEW held, NEW new, Numbered(q, n, held)
  PROVE  Numbered(q, n + 1, new)
<1>1. ASSUME NEW i \in DOMAIN q, q[i].valid
      PROVE  q[i].seq < n + 1 /\ (q[i].seq + 1 = n + 1 => q[i].buttons = new)
  <2>1. q[i].seq < n
    BY <1>1 DEF Numbered
  <2>2. q[i].seq \in Int
    <3>1. q[i] \in Datagram
      OBVIOUS
    <3> QED
      BY <1>1, <3>1, NumberType
  <2> DEFINE m == q[i].seq
  <2> HIDE DEF m
  <2>3. m < n + 1 /\ m + 1 # n + 1
    BY <2>1, <2>2 DEF m
  <2> QED
    BY <2>3 DEF m
<1> QED
  BY <1>1 DEF Numbered

\* So is the empty queue.
LEMMA NumberedNone == \A n, held : Numbered(<<>>, n, held)
BY DEF Numbered

\* A packet takes the number and the mask that the hook has at that moment.
LEMMA NewestForward ==
  ASSUME TypeOK, NewestInv, NEW p \in Datagram, p.seq = seq, p.buttons = buttons',
         Forward(p), events < MaxEvents, events' = events + 1, inbox' = inbox
  PROVE  NewestInv'
<1>1. /\ seq \in Nat /\ events \in Nat /\ seq <= events /\ SeqValues > MaxEvents
      /\ seq' = (seq + 1) % SeqValues
      /\ wire \in Seq(Datagram) /\ inbox \in Seq(Datagram)
      /\ Numbered(wire, seq, buttons) /\ Numbered(inbox, seq, buttons)
  BY SeqAssumption DEF TypeOK, NewestInv, Forward
<1>2. seq' = seq + 1
  BY <1>1, SeqAssumption
<1>3. seq' <= events'
  BY <1>1, <1>2
<1>4. Numbered(wire, seq + 1, buttons') /\ Numbered(inbox, seq + 1, buttons')
  BY <1>1, NumberedNext
<1>5. p.seq < seq + 1
  BY <1>1
<1>6. Numbered(Append(wire, p), seq + 1, buttons')
  BY <1>1, <1>4, <1>5, NumberedAppend
<1>7. wire' = wire \/ wire' = Append(wire, p)
  BY DEF Forward, Transmit
<1> QED
  BY <1>2, <1>3, <1>4, <1>6, <1>7 DEF NewestInv

\* The hook keeps NewestInv.
LEMMA NewestHook == TypeOK /\ NewestInv /\ Hook => NewestInv'
<1> SUFFICES ASSUME TypeOK, NewestInv, Hook PROVE NewestInv'
  OBVIOUS
<1>1. ASSUME NEW pt \in Point, InjectMove(pt) PROVE NewestInv'
  <2> DEFINE dx == IF relative THEN pt - cursor ELSE pt
             p == Packet(dx, buttons)
  <2>1. dx \in Int
    BY PointAssumption DEF TypeOK
  <2> HIDE DEF dx
  <2>2. p \in Datagram
    BY <2>1, PacketType DEF TypeOK
  <2>3. p.seq = seq /\ p.buttons = buttons'
    BY <1>1 DEF Packet, InjectMove
  <2> HIDE DEF p
  <2>4. Forward(p) /\ events < MaxEvents /\ events' = events + 1 /\ inbox' = inbox
    BY <1>1 DEF InjectMove, p, dx
  <2> QED
    BY <2>2, <2>3, <2>4, NewestForward
<1>2. ASSUME NEW held, NEW b \in SUBSET Button, InjectButton(held, b) PROVE NewestInv'
  <2> DEFINE p == Packet(0, b)
  <2>1. p \in Datagram
    BY ButtonPacketType
  <2>2. p.seq = seq /\ p.buttons = buttons'
    BY <1>2 DEF Packet, InjectButton
  <2> HIDE DEF p
  <2>3. Forward(p) /\ events < MaxEvents /\ events' = events + 1 /\ inbox' = inbox
    BY <1>2 DEF InjectButton, p
  <2> QED
    BY <2>1, <2>2, <2>3, NewestForward
<1>3. ASSUME NEW b \in Button, Press(b) \/ Release(b) PROVE NewestInv'
  <2>1. buttons \union {b} \in SUBSET Button /\ buttons \ {b} \in SUBSET Button
    BY DEF TypeOK
  <2> QED
    BY <1>2, <1>3, <2>1 DEF Press, Release
<1>4. ASSUME NEW pt \in Point, PhysicalMove(pt) PROVE NewestInv'
  <2>1. UNCHANGED <<seq, buttons, wire, inbox>> /\ events' = events + 1 /\ seq <= events
    BY <1>4 DEF PhysicalMove, hook, channel, NewestInv
  <2>2. seq <= events + 1
    BY <2>1, SeqAssumption DEF TypeOK
  <2> QED
    BY <2>1, <2>2 DEF NewestInv
<1> QED
  BY <1>1, <1>3, <1>4 DEF Hook

\* The rest of the system only moves, doubles and drops what is there.
LEMMA NewestRest ==
  ASSUME NewestInv, UNCHANGED <<seq, buttons, events>>,
         Numbered(wire', seq, buttons), Numbered(inbox', seq, buttons)
  PROVE  NewestInv'
BY DEF NewestInv

\* The network keeps NewestInv.
LEMMA NewestNetwork == TypeOK /\ NewestInv /\ Network => NewestInv'
<1> SUFFICES ASSUME TypeOK, NewestInv, Network PROVE NewestInv'
  OBVIOUS
<1>1. /\ wire \in Seq(Datagram) /\ inbox \in Seq(Datagram) /\ DOMAIN wire = 1 .. Len(wire)
      /\ Numbered(wire, seq, buttons) /\ Numbered(inbox, seq, buttons)
  BY DEF TypeOK, NewestInv
<1>2. ASSUME NEW i \in DOMAIN wire
      PROVE  /\ Numbered(RemoveAt(wire, i), seq, buttons)
             /\ Numbered(Append(wire, wire[i]), seq, buttons)
             /\ Numbered(Append(inbox, wire[i]), seq, buttons)
  <2>1. wire[i] \in Datagram
    BY <1>1
  <2>2. wire[i].valid => /\ wire[i].seq < seq
                         /\ (wire[i].seq + 1 = seq => wire[i].buttons = buttons)
    BY <1>1 DEF Numbered
  <2>3. Numbered(Append(wire, wire[i]), seq, buttons)
    BY <1>1, <2>1, <2>2, NumberedAppend
  <2>4. Numbered(Append(inbox, wire[i]), seq, buttons)
    BY <1>1, <2>1, <2>2, NumberedAppend
  <2> QED
    BY <1>1, <2>3, <2>4, NumberedRemoveAt
<1>3. ASSUME NEW i \in DOMAIN wire, Arrive(i) PROVE NewestInv'
  <2>1. /\ UNCHANGED <<seq, buttons, events>> /\ wire' = RemoveAt(wire, i)
        /\ inbox' = inbox \/ inbox' = Append(inbox, wire[i])
    BY <1>3 DEF Arrive, hook
  <2> QED
    BY <1>1, <1>2, <2>1, NewestRest
<1>4. ASSUME NEW i \in DOMAIN wire, Lose(i) \/ Duplicate(i) PROVE NewestInv'
  <2>1. /\ UNCHANGED <<seq, buttons, events, inbox>>
        /\ wire' = RemoveAt(wire, i) \/ wire' = Append(wire, wire[i])
    BY <1>4 DEF Lose, Duplicate, hook
  <2> QED
    BY <1>1, <1>2, <2>1, NewestRest
<1>5. CASE Stray
  <2>1. UNCHANGED <<seq, buttons, events, inbox>> /\ wire' = Append(wire, Junk)
    BY <1>5 DEF Stray, hook
  <2>2. Junk.valid = FALSE
    BY DEF Junk
  <2>3. Numbered(Append(wire, Junk), seq, buttons)
    BY <1>1, <2>2, JunkType, NumberedAppend
  <2> QED
    BY <1>1, <2>1, <2>3, NewestRest
<1>6. CASE Deliver
  <2>1. 1 \in DOMAIN wire /\ Arrive(1)
    BY <1>1, <1>6 DEF Deliver
  <2> QED
    BY <1>3, <2>1
<1> QED
  BY <1>3, <1>4, <1>5, <1>6 DEF Network, Overtake

\* No step breaks NewestInv.
LEMMA NewestStep == TypeOK /\ NewestInv /\ [Next]_vars => NewestInv'
<1> SUFFICES ASSUME TypeOK, NewestInv, [Next]_vars PROVE NewestInv'
  OBVIOUS
<1>1. CASE Hook
  BY <1>1, NewestHook
<1>2. CASE Network
  BY <1>2, NewestNetwork
<1>3. CASE Receive
  <2>1. /\ UNCHANGED <<seq, buttons, events, wire>>
        /\ inbox' = Tail(inbox) /\ inbox # <<>> /\ inbox \in Seq(Datagram)
        /\ Numbered(wire, seq, buttons) /\ Numbered(inbox, seq, buttons)
    BY <1>3 DEF Receive, hook, NewestInv, TypeOK
  <2> QED
    BY <2>1, NumberedTail, NewestRest
<1>4. CASE ReceiveFails \/ LeaveLoop
  <2>1. UNCHANGED <<seq, buttons, events, wire>> /\ inbox' = <<>>
    BY <1>4 DEF ReceiveFails, LeaveLoop, Cleanup, hook
  <2> QED
    BY <2>1, NumberedNone, NewestRest DEF NewestInv
<1>5. CASE Bind \/ BindFails \/ Loop \/ Timeout \/ Stop \/ Terminated \/ UNCHANGED vars
  <2>1. UNCHANGED <<hook, channel, events>>
    BY <1>5 DEF Bind, BindFails, Loop, Timeout, Stop, Terminated, vars
  <2> QED
    BY <2>1 DEF NewestInv, hook, channel
<1> QED
  BY <1>1, <1>2, <1>3, <1>4, <1>5 DEF Next, Listener

\* At the start nothing is numbered.
LEMMA NewestInit == SeqValues > MaxEvents /\ Init => NewestInv
BY NumberedNone DEF Init, NewestInv

(***************************************************************************)
(* Whatever was lost, doubled or overtaken before: when the listener reads *)
(* the newest packet, the merger holds what the hook holds afterwards.     *)
(* Numbers name packets as long as there are more of them than events.     *)
(***************************************************************************)
THEOREM HealedByNewest == SeqValues > MaxEvents /\ Spec => NewestHeals
<1>1. TypeOK /\ NewestInv /\ [Next]_vars =>
        [Receive /\ Newest(Head(inbox)) => network' = buttons]_vars
  <2> SUFFICES ASSUME TypeOK, NewestInv, Receive, Newest(Head(inbox))
               PROVE  network' = buttons
    OBVIOUS
  <2> DEFINE p == Head(inbox)
  <2>1. inbox \in Seq(Datagram) /\ inbox # <<>>
    BY DEF Receive, TypeOK
  <2>2. 1 \in DOMAIN inbox /\ p = inbox[1] /\ p \in Datagram /\ p.valid
    BY <2>1 DEF Newest
  <2>3. p.seq < seq /\ (p.seq + 1 = seq => p.buttons = buttons)
    BY <2>2 DEF NewestInv, Numbered
  <2>4. p \in Datagram /\ p.valid
    BY <2>2
  <2>5. p.seq \in Nat
    BY <2>4, NumberType
  <2>6. seq \in 0 .. SeqValues - 1 /\ (p.seq + 1) % SeqValues = seq
    BY DEF TypeOK, Newest
  <2> HIDE DEF p
  <2> DEFINE n == p.seq
  <2>7. n \in Nat /\ n < seq /\ seq \in 0 .. SeqValues - 1 /\ (n + 1) % SeqValues = seq
    BY <2>3, <2>5, <2>6
  <2> HIDE DEF n
  <2>8. n + 1 \in Nat /\ n + 1 < SeqValues
    BY <2>7, SeqAssumption
  <2>9. n + 1 = seq
    BY <2>7, <2>8, SeqAssumption
  <2>10. p.buttons = buttons
    BY <2>3, <2>9 DEF n
  <2>11. network' = Parsed(p).held
    BY <2>2 DEF Receive, Accumulate, p
  <2> QED
    BY <2>2, <2>10, <2>11, MoveType
<1> QED
  BY <1>1, TypeInit, TypeStep, NewestInit, NewestStep, PTL DEF Spec, NewestHeals
-----------------------------------------------------------------------------
(***************************************************************************)
(* What keeps MotionAccounted: the gap is a multiple of the values of the  *)
(* field, and zero as long as no step was too wide.                        *)
(***************************************************************************)
Gap == (wanted + extra) - (total + Motion(wire) + Motion(inbox) + lost)

Multiple(v) == \E k \in Int : v = k * Limit

GapInv == relative => Multiple(Gap) /\ (~wide => Gap = 0)

\* What the field makes of a difference.
LEMMA MultipleSum ==
  ASSUME NEW v \in Int, NEW w \in Int, Multiple(v), Multiple(w)
  PROVE  Multiple(v + w)
<1>1. PICK j \in Int : v = j * Limit
  BY DEF Multiple
<1>2. PICK k \in Int : w = k * Limit
  BY DEF Multiple
<1>3. Limit \in Int
  BY LimitAssumption
<1>4. j * Limit + k * Limit = (j + k) * Limit
  BY <1>3
<1>5. j + k \in Int
  OBVIOUS
<1> QED
  BY <1>1, <1>2, <1>4, <1>5 DEF Multiple

\* A multiple of Limit is 0 modulo Limit.
LEMMA MultipleMod ==
  ASSUME NEW v \in Int, Multiple(v)
  PROVE  v % Limit = 0
<1>1. PICK k \in Int : v = k * Limit
  BY DEF Multiple
<1>2. (k * Limit) % Limit = 0
  BY LimitAssumption
<1> QED
  BY <1>1, <1>2

\* The receiver reads what was packed, if it fits, and otherwise something that
\* differs from it by a multiple of Limit.
LEMMA DecodeEncode ==
  ASSUME NEW d \in Int
  PROVE  /\ Decode(Encode(d)) \in Int
         /\ Multiple(d - Decode(Encode(d)))
         /\ (Fits(d) => Decode(Encode(d)) = d)
<1> DEFINE u == d % Limit
           k == d \div Limit
<1>1. Limit \in Nat /\ Limit > 0
  BY LimitAssumption
<1>2. u \in 0 .. Limit - 1 /\ k \in Int /\ d = (k * Limit) + u
  BY <1>1
<1>3. Fits(d) => u = d \/ u = d + Limit
  <2> SUFFICES ASSUME Fits(d) PROVE u = d \/ u = d + Limit
    OBVIOUS
  <2>1. -Limit <= d /\ d < Limit
    BY <1>1 DEF Fits
  <2>2. CASE 0 <= d
    BY <1>1, <2>1, <2>2
  <2>3. CASE ~(0 <= d)
    BY <1>1, <2>1, <2>3
  <2> QED
    BY <2>2, <2>3
<1> HIDE DEF u, k
<1>4. Encode(d) = u
  BY DEF Encode, u
<1>5. CASE 2 * u >= Limit
  <2>1. Decode(u) = u - Limit
    BY <1>5 DEF Decode
  <2>2. d - (u - Limit) = (k + 1) * Limit /\ k + 1 \in Int
    <3>1. (k + 1) * Limit = k * Limit + Limit
      BY <1>1, <1>2
    <3> DEFINE m == k * Limit
    <3>2. m \in Int /\ d = m + u
      BY <1>1, <1>2
    <3> HIDE DEF m
    <3>3. d - (u - Limit) = m + Limit
      BY <1>1, <1>2, <3>2
    <3> QED
      BY <1>2, <3>1, <3>3 DEF m
  <2>3. Multiple(d - (u - Limit))
    BY <2>2 DEF Multiple
  <2>4. Fits(d) => u - Limit = d
    BY <1>1, <1>2, <1>3, <1>5 DEF Fits
  <2> QED
    BY <1>1, <1>2, <1>4, <2>1, <2>3, <2>4
<1>6. CASE ~(2 * u >= Limit)
  <2>1. Decode(u) = u
    BY <1>6 DEF Decode
  <2>2. d - u = k * Limit
    <3> DEFINE m == k * Limit
    <3>1. m \in Int /\ d = m + u
      BY <1>1, <1>2
    <3> HIDE DEF m
    <3>2. d - u = m
      BY <1>2, <3>1
    <3> QED
      BY <3>2 DEF m
  <2>3. Multiple(d - u)
    BY <1>2, <2>2 DEF Multiple
  <2>4. Fits(d) => u = d
    BY <1>1, <1>2, <1>3, <1>6 DEF Fits
  <2> QED
    BY <1>2, <1>4, <2>1, <2>3, <2>4
<1> QED
  BY <1>5, <1>6

\* Motion that moves from one place of the sum to another leaves the gap, and
\* so does motion that is doubled and counted as such.
LEMMA GapKept ==
  ASSUME TypeOK, TypeOK', GapInv, UNCHANGED <<relative, wanted, wide>>,
         NEW d \in Int, extra' = extra + d,
         total' + Motion(wire') + Motion(inbox') + lost'
           = (total + Motion(wire) + Motion(inbox) + lost) + d
  PROVE  GapInv'
<1> DEFINE a == total + Motion(wire) + Motion(inbox) + lost
           b == total' + Motion(wire') + Motion(inbox') + lost'
<1>1. a \in Int
  <2>1. Motion(wire) \in Int /\ Motion(inbox) \in Int /\ total \in Int /\ lost \in Int
    BY MotionType DEF TypeOK
  <2> QED
    BY <2>1
<1>2. b = a + d
  OBVIOUS
<1>3. Gap = (wanted + extra) - a /\ Gap' = (wanted' + extra') - b
  BY DEF Gap
<1> HIDE DEF a, b
<1>4. extra \in Int /\ wanted \in Int /\ wanted' = wanted /\ extra' = extra + d
  BY DEF TypeOK
<1>5. (wanted + (extra + d)) - (a + d) = (wanted + extra) - a
  BY <1>1, <1>4
<1>6. Gap' = Gap
  BY <1>2, <1>3, <1>4, <1>5
<1> QED
  BY <1>6 DEF GapInv

\* A packet is under way, or known to be lost.
LEMMA GapForward ==
  ASSUME TypeOK, NEW p \in Datagram, Forward(p)
  PROVE  Motion(wire') + lost' = Motion(wire) + lost + Parsed(p).move
<1>1. wire \in Seq(Datagram) /\ lost \in Int
  BY DEF TypeOK
<1>2. Motion(wire) \in Int /\ Parsed(p).move \in Int
  BY <1>1, MotionType, MoveType
<1>3. CASE wire' = Append(wire, p) /\ lost' = lost
  BY <1>1, <1>2, <1>3, MotionAppend
<1>4. CASE wire' = wire /\ lost' = lost + Parsed(p).move
  BY <1>1, <1>2, <1>4
<1> QED
  BY <1>3, <1>4 DEF Forward, Transmit

\* The motion of a packet is what the field makes of the difference.
LEMMA PacketMoves ==
  ASSUME NEW dx \in Int, NEW held
  PROVE  Parsed(Packet(dx, held)).move = Decode(Encode(dx))
BY DEF Parsed, Packet

\* The hook keeps GapInv.
LEMMA GapHook == TypeOK /\ TypeOK' /\ GapInv /\ Hook => GapInv'
<1> SUFFICES ASSUME TypeOK, TypeOK', GapInv, Hook PROVE GapInv'
  OBVIOUS
<1>1. /\ wanted \in Int /\ extra \in Int /\ total \in Int /\ lost \in Int
      /\ Motion(wire) \in Int /\ Motion(inbox) \in Int
      /\ lost' \in Int /\ Motion(wire') \in Int
  BY MotionType DEF TypeOK
<1>2. ASSUME NEW pt \in Point, InjectMove(pt) PROVE GapInv'
  <2> SUFFICES ASSUME relative' PROVE Multiple(Gap') /\ (~wide' => Gap' = 0)
    BY DEF GapInv
  <2> DEFINE dx == pt - cursor
             p == Packet(dx, buttons)
             m == Decode(Encode(dx))
  <2>1. relative /\ relative' = relative
    BY <1>2 DEF InjectMove, Forward
  <2>2. dx \in Int
    BY PointAssumption DEF TypeOK
  <2>3. wanted' = wanted + dx /\ (~wide' => ~wide /\ Fits(dx))
    BY <1>2 DEF InjectMove
  <2>4. extra' = extra /\ total' = total /\ inbox' = inbox
    BY <1>2 DEF InjectMove, merger
  <2>5. Forward(p)
    BY <1>2, <2>1 DEF InjectMove
  <2> HIDE DEF dx
  <2>6. m \in Int /\ Multiple(dx - m) /\ (Fits(dx) => m = dx)
    BY <2>2, DecodeEncode
  <2>7. p \in Datagram /\ Parsed(p).move = m
    <3>1. p \in Datagram
      BY <2>2, PacketType DEF TypeOK
    <3>2. Parsed(p).move = m
      BY <2>2, PacketMoves
    <3> QED
      BY <3>1, <3>2
  <2> HIDE DEF p, m
  <2>8. Motion(wire') + lost' = Motion(wire) + lost + m
    BY <2>5, <2>7, GapForward
  <2>9. Gap \in Int /\ Gap' = Gap + (dx - m)
    BY <1>1, <2>2, <2>3, <2>4, <2>6, <2>8 DEF Gap
  <2>10. Multiple(Gap) /\ (~wide => Gap = 0)
    BY <2>1 DEF GapInv
  <2>11. Multiple(Gap')
    <3>1. dx - m \in Int
      BY <2>2, <2>6
    <3> DEFINE e == dx - m
    <3> HIDE DEF e
    <3>2. e \in Int /\ Multiple(e) /\ Gap' = Gap + e
      BY <2>6, <2>9, <3>1 DEF e
    <3> QED
      BY <2>9, <2>10, <3>2, MultipleSum
  <2>12. ~wide' => Gap' = 0
    BY <2>2, <2>3, <2>6, <2>9, <2>10
  <2> QED
    BY <2>11, <2>12
<1>3. ASSUME NEW held, NEW b \in SUBSET Button, InjectButton(held, b) PROVE GapInv'
  <2> DEFINE p == Packet(0, b)
  <2>1. p \in Datagram
    BY ButtonPacketType
  <2>2. Fits(0) /\ 0 \in Int
    BY LimitAssumption DEF Fits
  <2>3. Parsed(p).move = 0
    <3>1. Parsed(p).move = Decode(Encode(0))
      BY PacketMoves
    <3> QED
      BY <2>2, <3>1, DecodeEncode
  <2> HIDE DEF p
  <2>4. Forward(p)
    BY <1>3 DEF InjectButton, p
  <2>5. Motion(wire') + lost' = Motion(wire) + lost + 0
    BY <2>1, <2>3, <2>4, GapForward
  <2>6. UNCHANGED <<relative, wanted, wide, extra, total, inbox>>
    BY <1>3, <2>4 DEF InjectButton, Forward, merger
  <2>7. total' + Motion(wire') + Motion(inbox') + lost'
           = (total + Motion(wire) + Motion(inbox) + lost) + 0
    BY <1>1, <2>5, <2>6
  <2>8. extra' = extra + 0
    BY <1>1, <2>6
  <2> QED
    BY <1>1, <2>6, <2>7, <2>8, GapKept
<1>4. ASSUME NEW b \in Button, Press(b) \/ Release(b) PROVE GapInv'
  <2>1. buttons \union {b} \in SUBSET Button /\ buttons \ {b} \in SUBSET Button
    BY DEF TypeOK
  <2> QED
    BY <1>3, <1>4, <2>1 DEF Press, Release
<1>5. ASSUME NEW pt \in Point, PhysicalMove(pt) PROVE GapInv'
  BY <1>5 DEF PhysicalMove, hook, channel, merger, sums, GapInv, Gap
<1> QED
  BY <1>2, <1>4, <1>5 DEF Hook

\* The network keeps GapInv.
LEMMA GapNetwork == TypeOK /\ TypeOK' /\ GapInv /\ Network => GapInv'
<1> SUFFICES ASSUME TypeOK, TypeOK', GapInv, Network PROVE GapInv'
  OBVIOUS
<1>1. /\ extra \in Int /\ total \in Int /\ lost \in Int
      /\ wire \in Seq(Datagram) /\ inbox \in Seq(Datagram)
      /\ Motion(wire) \in Int /\ Motion(inbox) \in Int
  BY MotionType DEF TypeOK
<1>0. 0 \in Int /\ (extra' = extra => extra' = extra + 0)
  BY <1>1
<1>2. ASSUME NEW i \in DOMAIN wire
      PROVE  /\ wire[i] \in Datagram /\ Parsed(wire[i]).move \in Int
             /\ Motion(RemoveAt(wire, i)) = Motion(wire) - Parsed(wire[i]).move
             /\ Motion(Append(wire, wire[i])) = Motion(wire) + Parsed(wire[i]).move
             /\ Motion(Append(inbox, wire[i])) = Motion(inbox) + Parsed(wire[i]).move
  <2>1. wire[i] \in Datagram /\ i \in 1 .. Len(wire)
    BY <1>1
  <2> QED
    BY <1>1, <2>1, MoveType, MotionRemoveAt, MotionAppend
<1>3. ASSUME NEW i \in DOMAIN wire, Arrive(i) PROVE GapInv'
  <2>1. /\ UNCHANGED <<relative, wanted, wide, total, extra>>
        /\ wire' = RemoveAt(wire, i)
    BY <1>3 DEF Arrive, hook, merger
  <2> DEFINE m == Parsed(wire[i]).move
  <2>2. CASE inbox' = Append(inbox, wire[i]) /\ lost' = lost
    <3>1. Motion(wire') = Motion(wire) - m /\ Motion(inbox') = Motion(inbox) + m
      BY <1>2, <2>1, <2>2
    <3>2. m \in Int
      BY <1>2
    <3> HIDE DEF m
    <3>3. total' + Motion(wire') + Motion(inbox') + lost'
             = (total + Motion(wire) + Motion(inbox) + lost) + 0
      BY <1>1, <2>1, <2>2, <3>1, <3>2
    <3> QED
      BY <1>0, <2>1, <3>3, GapKept
  <2>3. CASE lost' = lost + m /\ inbox' = inbox
    <3>1. Motion(wire') = Motion(wire) - m
      BY <1>2, <2>1
    <3>2. m \in Int
      BY <1>2
    <3> HIDE DEF m
    <3>3. total' + Motion(wire') + Motion(inbox') + lost'
             = (total + Motion(wire) + Motion(inbox) + lost) + 0
      BY <1>1, <2>1, <2>3, <3>1, <3>2
    <3> QED
      BY <1>0, <2>1, <3>3, GapKept
  <2> QED
    BY <1>3, <2>2, <2>3 DEF Arrive
<1>4. ASSUME NEW i \in DOMAIN wire, Lose(i) PROVE GapInv'
  <2> DEFINE m == Parsed(wire[i]).move
  <2>1. /\ UNCHANGED <<relative, wanted, wide, total, extra, inbox>>
        /\ wire' = RemoveAt(wire, i) /\ lost' = lost + m
    BY <1>4 DEF Lose, hook, merger
  <2>2. Motion(wire') = Motion(wire) - m /\ m \in Int
    BY <1>2, <2>1
  <2> HIDE DEF m
  <2>3. total' + Motion(wire') + Motion(inbox') + lost'
           = (total + Motion(wire) + Motion(inbox) + lost) + 0
    BY <1>1, <2>1, <2>2
  <2> QED
    BY <1>0, <2>1, <2>3, GapKept
<1>5. ASSUME NEW i \in DOMAIN wire, Duplicate(i) PROVE GapInv'
  <2> DEFINE m == Parsed(wire[i]).move
  <2>1. /\ UNCHANGED <<relative, wanted, wide, total, lost, inbox>>
        /\ wire' = Append(wire, wire[i]) /\ extra' = extra + m
    BY <1>5 DEF Duplicate, hook, merger
  <2>2. Motion(wire') = Motion(wire) + m /\ m \in Int
    BY <1>2, <2>1
  <2> HIDE DEF m
  <2>3. total' + Motion(wire') + Motion(inbox') + lost'
           = (total + Motion(wire) + Motion(inbox) + lost) + m
    BY <1>1, <2>1, <2>2
  <2> QED
    BY <2>1, <2>2, <2>3, GapKept
<1>6. CASE Stray
  <2>1. /\ UNCHANGED <<relative, wanted, wide, total, extra, lost, inbox>>
        /\ wire' = Append(wire, Junk)
    BY <1>6 DEF Stray, hook, merger, sums
  <2>2. Parsed(Junk).move = 0
    BY JunkType, MoveType DEF Junk
  <2>3. Motion(wire') = Motion(wire) + 0
    BY <1>1, <2>1, <2>2, JunkType, MotionAppend
  <2>4. total' + Motion(wire') + Motion(inbox') + lost'
           = (total + Motion(wire) + Motion(inbox) + lost) + 0
    BY <1>1, <2>1, <2>3
  <2> QED
    BY <1>0, <2>1, <2>4, GapKept
<1>7. CASE Deliver
  <2>1. 1 \in DOMAIN wire /\ Arrive(1)
    BY <1>1, <1>7 DEF Deliver
  <2> QED
    BY <1>3, <2>1
<1> QED
  BY <1>3, <1>4, <1>5, <1>6, <1>7 DEF Network, Overtake

\* No step breaks GapInv.
LEMMA GapStep == TypeOK /\ TypeOK' /\ GapInv /\ [Next]_vars => GapInv'
<1> SUFFICES ASSUME TypeOK, TypeOK', GapInv, [Next]_vars PROVE GapInv'
  OBVIOUS
<1>1. /\ extra \in Int /\ total \in Int /\ lost \in Int
      /\ wire \in Seq(Datagram) /\ inbox \in Seq(Datagram)
      /\ Motion(wire) \in Int /\ Motion(inbox) \in Int
  BY MotionType DEF TypeOK
<1>0. 0 \in Int /\ (extra' = extra => extra' = extra + 0)
  BY <1>1
<1>2. CASE Hook
  BY <1>2, GapHook
<1>3. CASE Network
  BY <1>3, GapNetwork
<1>4. CASE Receive
  <2> DEFINE p == Head(inbox)
             m == Parsed(p).move
  <2>1. /\ UNCHANGED <<relative, wanted, wide, lost, extra, wire>>
        /\ inbox' = Tail(inbox) /\ inbox # <<>>
    BY <1>4 DEF Receive, hook, sums
  <2>2. p \in Datagram
    BY <1>1, <2>1
  <2>3. m \in Int /\ (~p.valid => m = 0)
    BY <2>2, MoveType
  <2>4. total' = total + m
    BY <1>1, <1>4, <2>3 DEF Receive, Accumulate, merger
  <2>5. Motion(inbox') = Motion(inbox) - m
    BY <1>1, <2>1, MotionTail
  <2> HIDE DEF m, p
  <2>6. total' + Motion(wire') + Motion(inbox') + lost'
           = (total + Motion(wire) + Motion(inbox) + lost) + 0
    BY <1>1, <2>1, <2>3, <2>4, <2>5
  <2> QED
    BY <1>0, <2>1, <2>6, GapKept
<1>5. CASE ReceiveFails \/ LeaveLoop
  <2>1. /\ UNCHANGED <<relative, wanted, wide, total, extra, wire>>
        /\ inbox' = <<>> /\ lost' = lost + Motion(inbox)
    BY <1>5 DEF ReceiveFails, LeaveLoop, Cleanup, hook, merger
  <2>2. Motion(inbox') = 0
    BY <2>1, MotionNone
  <2>3. total' + Motion(wire') + Motion(inbox') + lost'
           = (total + Motion(wire) + Motion(inbox) + lost) + 0
    BY <1>1, <2>1, <2>2
  <2> QED
    BY <1>0, <2>1, <2>3, GapKept
<1>6. CASE Bind \/ BindFails \/ Loop \/ Timeout \/ Stop \/ Terminated \/ UNCHANGED vars
  <2>1. UNCHANGED <<hook, channel, merger, sums>>
    BY <1>6 DEF Bind, BindFails, Loop, Timeout, Stop, Terminated, vars
  <2> QED
    BY <2>1 DEF GapInv, Gap, hook, channel, merger, sums
<1> QED
  BY <1>2, <1>3, <1>4, <1>5, <1>6 DEF Next, Listener

\* At the start all sums are 0.
LEMMA GapInit == Init => GapInv
<1> SUFFICES ASSUME Init PROVE GapInv
  OBVIOUS
<1>1. Motion(wire) = 0 /\ Motion(inbox) = 0
  BY MotionNone DEF Init
<1>2. wanted = 0 /\ extra = 0 /\ total = 0 /\ lost = 0
  BY DEF Init
<1>3. Gap = 0
  BY <1>1, <1>2 DEF Gap
<1>4. 0 = 0 * Limit
  BY LimitAssumption
<1> QED
  BY <1>3, <1>4 DEF GapInv, Multiple

(***************************************************************************)
(* The motion asked for is in the merger, under way, lost or doubled: to   *)
(* the unit while every step fits the field, and modulo its values else.   *)
(***************************************************************************)
THEOREM MotionIsAccounted == Spec => []MotionAccounted
<1>1. TypeOK /\ GapInv => MotionAccounted
  <2> SUFFICES ASSUME TypeOK, GapInv, relative
               PROVE  Gap % Limit = 0 /\ (~wide => Gap = 0)
    BY DEF MotionAccounted, Gap
  <2>1. Gap \in Int
    BY MotionType DEF TypeOK, Gap
  <2> QED
    BY <2>1, MultipleMod DEF GapInv
<1> QED
  BY <1>1, TypeInit, TypeStep, GapInit, GapStep, PTL DEF Spec
-----------------------------------------------------------------------------
(***************************************************************************)
(* What keeps NetworkFollowsApp.  As long as every packet has arrived in   *)
(* order the mask of the hook is that of the application, and so is that   *)
(* of the last packet under way, or, when there is none, the merger's.     *)
(***************************************************************************)
NoPacket(q) == \A i \in DOMAIN q : ~q[i].valid

EndsWith(q, held) ==
  \E i \in DOMAIN q : /\ q[i].valid /\ q[i].buttons = held
                      /\ \A j \in DOMAIN q : j > i => ~q[j].valid

Settled ==
  \/ EndsWith(wire, appHeld)
  \/ /\ NoPacket(wire)
     /\ \/ EndsWith(inbox, appHeld)
        \/ NoPacket(inbox) /\ network = appHeld

CleanInv == clean => buttons = appHeld /\ Settled

\* The last packet of a queue, when something is appended or taken out.
LEMMA EndsAppendPacket ==
  ASSUME NEW q \in Seq(Datagram), NEW d \in Datagram, d.valid
  PROVE  EndsWith(Append(q, d), d.buttons)
<1>1. /\ DOMAIN Append(q, d) = 1 .. Len(q) + 1 /\ Len(q) \in Nat
      /\ Append(q, d)[Len(q) + 1] = d
  OBVIOUS
<1>2. /\ Len(q) + 1 \in DOMAIN Append(q, d)
      /\ \A j \in DOMAIN Append(q, d) : ~(j > Len(q) + 1)
  BY <1>1
<1> QED
  BY <1>1, <1>2 DEF EndsWith

\* A foreign datagram is not the last packet.
LEMMA EndsAppendJunk ==
  ASSUME NEW q \in Seq(Datagram), NEW d \in Datagram, ~d.valid, NEW held
  PROVE  /\ NoPacket(q) => NoPacket(Append(q, d))
         /\ EndsWith(q, held) => EndsWith(Append(q, d), held)
<1> DEFINE r == Append(q, d)
           n == Len(q)
<1>1. /\ DOMAIN r = 1 .. n + 1 /\ DOMAIN q = 1 .. n /\ n \in Nat
      /\ (\A k \in 1 .. n : r[k] = q[k]) /\ r[n + 1] = d
  OBVIOUS
<1> HIDE DEF r, n
<1>2. NoPacket(q) => NoPacket(r)
  <2> SUFFICES ASSUME NoPacket(q), NEW k \in 1 .. n + 1 PROVE ~r[k].valid
    BY <1>1 DEF NoPacket
  <2>1. CASE k = n + 1
    BY <1>1, <2>1
  <2>2. CASE k # n + 1
    <3>1. k \in 1 .. n
      BY <1>1, <2>2
    <3> QED
      BY <1>1, <3>1 DEF NoPacket
  <2> QED
    BY <2>1, <2>2
<1>3. EndsWith(q, held) => EndsWith(r, held)
  <2> SUFFICES ASSUME EndsWith(q, held) PROVE EndsWith(r, held)
    OBVIOUS
  <2>1. PICK i \in 1 .. n : /\ q[i].valid /\ q[i].buttons = held
                            /\ \A j \in 1 .. n : j > i => ~q[j].valid
    BY <1>1 DEF EndsWith
  <2>2. i \in 1 .. n + 1 /\ r[i].valid /\ r[i].buttons = held
    BY <1>1, <2>1
  <2>3. ASSUME NEW j \in 1 .. n + 1, j > i PROVE ~r[j].valid
    <3>1. CASE j = n + 1
      BY <1>1, <3>1
    <3>2. CASE j # n + 1
      <4>1. j \in 1 .. n
        BY <1>1, <3>2
      <4> QED
        BY <1>1, <2>1, <2>3, <4>1
    <3> QED
      BY <3>1, <3>2
  <2> QED
    BY <1>1, <2>2, <2>3 DEF EndsWith
<1> QED
  BY <1>2, <1>3 DEF r

\* Where the elements of a queue are once one is taken out.
LEMMA PlaceAfterRemoval ==
  ASSUME NEW q \in Seq(Datagram), NEW i \in 1 .. Len(q)
  PROVE  /\ DOMAIN RemoveAt(q, i) = 1 .. Len(q) - 1
         /\ \A k \in 1 .. Len(q) - 1 :
              \E j \in 1 .. Len(q) : /\ RemoveAt(q, i)[k] = q[j] /\ j # i
                                     /\ k = IF j < i THEN j ELSE j - 1
         /\ \A j \in 1 .. Len(q) \ {i} :
              \E k \in 1 .. Len(q) - 1 : /\ RemoveAt(q, i)[k] = q[j]
                                         /\ k = IF j < i THEN j ELSE j - 1
<1> DEFINE r == RemoveAt(q, i)
           n == Len(q)
<1>0. n \in Nat /\ i \in 1 .. n
  OBVIOUS
<1>1. /\ r \in Seq(Datagram) /\ Len(r) = n - 1
      /\ \A k \in 1 .. n - 1 : r[k] = IF k < i THEN q[k] ELSE q[k + 1]
  BY RemoveAtProperties
<1> HIDE DEF r, n
<1>2. DOMAIN r = 1 .. n - 1
  BY <1>0, <1>1
<1>3. ASSUME NEW k \in 1 .. n - 1
      PROVE  \E j \in 1 .. n : r[k] = q[j] /\ j # i /\ k = IF j < i THEN j ELSE j - 1
  <2>1. CASE k < i
    <3>1. k \in 1 .. n /\ r[k] = q[k] /\ k # i
      BY <1>0, <1>1, <2>1
    <3> QED
      BY <2>1, <3>1
  <2>2. CASE ~(k < i)
    <3>1. k + 1 \in 1 .. n /\ r[k] = q[k + 1] /\ k + 1 # i /\ ~(k + 1 < i) /\ k = (k + 1) - 1
      BY <1>0, <1>1, <2>2
    <3> QED
      BY <3>1
  <2> QED
    BY <2>1, <2>2
<1>4. ASSUME NEW j \in 1 .. n, j # i
      PROVE  \E k \in 1 .. n - 1 : r[k] = q[j] /\ k = IF j < i THEN j ELSE j - 1
  <2>1. CASE j < i
    <3>1. j \in 1 .. n - 1 /\ r[j] = q[j]
      BY <1>0, <1>1, <2>1
    <3> QED
      BY <2>1, <3>1
  <2>2. CASE ~(j < i)
    <3>1. j - 1 \in 1 .. n - 1 /\ ~(j - 1 < i) /\ (j - 1) + 1 = j
      BY <1>0, <1>1, <1>4, <2>2
    <3>2. r[j - 1] = q[j]
      BY <1>0, <1>1, <3>1
    <3> QED
      BY <2>2, <3>1, <3>2
  <2> QED
    BY <2>1, <2>2
<1> QED
  BY <1>2, <1>3, <1>4 DEF r, n

\* The last packet stays the last when another is taken out.
LEMMA EndsRemoveOther ==
  ASSUME NEW q \in Seq(Datagram), NEW i \in 1 .. Len(q), NEW held,
         NEW e \in 1 .. Len(q), e # i, q[e].valid, q[e].buttons = held,
         \A j \in 1 .. Len(q) : j > e => ~q[j].valid
  PROVE  EndsWith(RemoveAt(q, i), held)
<1> DEFINE r == RemoveAt(q, i)
           n == Len(q)
<1>1. /\ DOMAIN r = 1 .. n - 1
      /\ \A k \in 1 .. n - 1 :
           \E j \in 1 .. n : r[k] = q[j] /\ j # i /\ k = IF j < i THEN j ELSE j - 1
      /\ \A j \in 1 .. n \ {i} :
           \E k \in 1 .. n - 1 : r[k] = q[j] /\ k = IF j < i THEN j ELSE j - 1
  BY PlaceAfterRemoval
<1> HIDE DEF r
<1>2. PICK f \in 1 .. n - 1 : r[f] = q[e] /\ f = IF e < i THEN e ELSE e - 1
  BY <1>1
<1>3. ASSUME NEW k \in 1 .. n - 1, k > f PROVE ~r[k].valid
  <2>1. PICK j \in 1 .. n : r[k] = q[j] /\ j # i /\ k = IF j < i THEN j ELSE j - 1
    BY <1>1
  <2>2. j > e
    BY <1>2, <1>3, <2>1
  <2> QED
    BY <2>1, <2>2
<1>4. EndsWith(r, held)
  BY <1>1, <1>2, <1>3 DEF EndsWith
<1> QED
  BY <1>4 DEF r

\* Without its only packet a queue has none.
LEMMA NoPacketRemove ==
  ASSUME NEW q \in Seq(Datagram), NEW i \in 1 .. Len(q),
         \A j \in 1 .. Len(q) : j # i => ~q[j].valid
  PROVE  NoPacket(RemoveAt(q, i))
<1>1. /\ DOMAIN RemoveAt(q, i) = 1 .. Len(q) - 1
      /\ \A k \in 1 .. Len(q) - 1 : \E j \in 1 .. Len(q) : RemoveAt(q, i)[k] = q[j] /\ j # i
  BY PlaceAfterRemoval
<1> QED
  BY <1>1 DEF NoPacket

\* Taking out a foreign datagram changes nothing about the packets.
LEMMA EndsRemoveJunk ==
  ASSUME NEW q \in Seq(Datagram), NEW i \in 1 .. Len(q), ~q[i].valid, NEW held
  PROVE  /\ NoPacket(q) => NoPacket(RemoveAt(q, i))
         /\ EndsWith(q, held) => EndsWith(RemoveAt(q, i), held)
<1>1. DOMAIN q = 1 .. Len(q)
  OBVIOUS
<1>2. NoPacket(q) => NoPacket(RemoveAt(q, i))
  BY <1>1, NoPacketRemove DEF NoPacket
<1>3. EndsWith(q, held) => EndsWith(RemoveAt(q, i), held)
  <2> SUFFICES ASSUME EndsWith(q, held) PROVE EndsWith(RemoveAt(q, i), held)
    OBVIOUS
  <2>1. PICK e \in 1 .. Len(q) : /\ q[e].valid /\ q[e].buttons = held
                                 /\ \A j \in 1 .. Len(q) : j > e => ~q[j].valid
    BY <1>1 DEF EndsWith
  <2>2. e # i
    BY <2>1
  <2> QED
    BY <2>1, <2>2, EndsRemoveOther
<1> QED
  BY <1>2, <1>3

\* The first datagram was the last packet, or that is still in the queue.
LEMMA EndsRemoveFirst ==
  ASSUME NEW q \in Seq(Datagram), q # <<>>, NEW held, EndsWith(q, held)
  PROVE  \/ EndsWith(RemoveAt(q, 1), held)
         \/ q[1].valid /\ q[1].buttons = held /\ NoPacket(RemoveAt(q, 1))
<1>1. DOMAIN q = 1 .. Len(q) /\ 1 \in 1 .. Len(q)
  OBVIOUS
<1>2. PICK e \in 1 .. Len(q) : /\ q[e].valid /\ q[e].buttons = held
                               /\ \A j \in 1 .. Len(q) : j > e => ~q[j].valid
  BY <1>1 DEF EndsWith
<1>3. CASE e = 1
  <2>1. \A j \in 1 .. Len(q) : j # 1 => ~q[j].valid
    BY <1>2, <1>3
  <2> QED
    BY <1>1, <1>2, <1>3, <2>1, NoPacketRemove
<1>4. CASE e # 1
  BY <1>1, <1>2, <1>4, EndsRemoveOther
<1> QED
  BY <1>3, <1>4

\* The empty queue has no packet, so no last one.
LEMMA EmptyHasNoPacket == NoPacket(<<>>) /\ \A held : ~EndsWith(<<>>, held)
BY DEF NoPacket, EndsWith

\* A packet that is sent carries the mask of the application, and is the last.
LEMMA CleanHook == TypeOK /\ CleanInv /\ Hook => CleanInv'
<1> SUFFICES ASSUME TypeOK, CleanInv, Hook PROVE CleanInv'
  OBVIOUS
<1>1. ASSUME NEW p \in Datagram, p.valid, Forward(p), p.buttons = buttons',
             clean /\ buttons = appHeld => buttons' = appHeld', clean'
      PROVE  CleanInv'
  <2>1. wire' = Append(wire, p) /\ clean
    BY <1>1 DEF Forward, Transmit
  <2>2. buttons' = appHeld'
    BY <1>1, <2>1 DEF CleanInv
  <2>3. EndsWith(Append(wire, p), p.buttons)
    BY <1>1, EndsAppendPacket DEF TypeOK
  <2>4. EndsWith(wire', appHeld')
    BY <1>1, <2>1, <2>2, <2>3
  <2> QED
    BY <2>2, <2>4 DEF CleanInv, Settled
<1>2. ASSUME NEW pt \in Point, InjectMove(pt), clean' PROVE CleanInv'
  <2> DEFINE dx == IF relative THEN pt - cursor ELSE pt
             p == Packet(dx, buttons)
  <2>1. dx \in Int
    BY PointAssumption DEF TypeOK
  <2> HIDE DEF dx
  <2>2. p \in Datagram
    BY <2>1, PacketType DEF TypeOK
  <2>3. p.valid /\ p.buttons = buttons'
    BY <1>2 DEF Packet, InjectMove
  <2> HIDE DEF p
  <2>4. Forward(p) /\ buttons' = buttons /\ appHeld' = appHeld
    BY <1>2 DEF InjectMove, application, p, dx
  <2> QED
    BY <1>1, <1>2, <2>2, <2>3, <2>4
<1>3. ASSUME NEW held, NEW b \in SUBSET Button, InjectButton(held, b), clean',
             buttons = appHeld => b = held
      PROVE  CleanInv'
  <2> DEFINE p == Packet(0, b)
  <2>1. p \in Datagram
    BY ButtonPacketType
  <2>2. p.valid /\ p.buttons = buttons'
    BY <1>3 DEF Packet, InjectButton
  <2> HIDE DEF p
  <2>3. Forward(p) /\ buttons' = b /\ appHeld' = held
    BY <1>3 DEF InjectButton, p
  <2> QED
    BY <1>1, <1>3, <2>1, <2>2, <2>3
<1>4. ASSUME NEW b \in Button, Press(b) \/ Release(b), clean' PROVE CleanInv'
  <2>1. buttons \union {b} \in SUBSET Button /\ buttons \ {b} \in SUBSET Button
    BY DEF TypeOK
  <2>2. CASE InjectButton(appHeld \union {b}, buttons \union {b})
    BY <1>3, <1>4, <2>1, <2>2
  <2>3. CASE InjectButton(appHeld \ {b}, buttons \ {b})
    BY <1>3, <1>4, <2>1, <2>3
  <2> QED
    BY <1>4, <2>2, <2>3 DEF Press, Release
<1>5. ASSUME NEW pt \in Point, PhysicalMove(pt) PROVE CleanInv'
  BY <1>5 DEF PhysicalMove, hook, channel, merger, CleanInv, Settled
<1>6. ~clean' => CleanInv'
  BY DEF CleanInv
<1> QED
  BY <1>2, <1>4, <1>5, <1>6 DEF Hook

\* A packet that arrives in order stays the last, or was the only one under way.
LEMMA CleanNetwork == TypeOK /\ CleanInv /\ Network => CleanInv'
<1> SUFFICES ASSUME TypeOK, CleanInv, Network, clean' PROVE CleanInv'
  BY DEF CleanInv
<1>1. /\ wire \in Seq(Datagram) /\ inbox \in Seq(Datagram) /\ DOMAIN wire = 1 .. Len(wire)
  BY DEF TypeOK
<1>2. UNCHANGED <<buttons, appHeld, network>>
  BY DEF Network, Deliver, Stray, Overtake, Lose, Duplicate, Arrive, application, hook, merger
<1>3. ASSUME NEW i \in DOMAIN wire, Arrive(i) PROVE CleanInv'
  <2> DEFINE d == wire[i]
  <2>1. d \in Datagram /\ wire' = RemoveAt(wire, i) /\ i \in 1 .. Len(wire) /\ wire # <<>>
    BY <1>1, <1>3 DEF Arrive
  <2>2. CASE inbox' = Append(inbox, d) /\ clean' = (clean /\ i = 1)
    <3>1. clean /\ i = 1 /\ buttons = appHeld /\ Settled
      BY <2>2 DEF CleanInv
    <3>2. CASE EndsWith(wire, appHeld)
      <4>1. CASE EndsWith(wire', appHeld)
        BY <1>2, <3>1, <4>1 DEF CleanInv, Settled
      <4>2. CASE d.valid /\ d.buttons = appHeld /\ NoPacket(wire')
        <5>1. EndsWith(inbox', appHeld)
          BY <1>1, <2>1, <2>2, <4>2, EndsAppendPacket
        <5> QED
          BY <1>2, <3>1, <4>2, <5>1 DEF CleanInv, Settled
      <4> QED
        BY <1>1, <2>1, <3>1, <3>2, <4>1, <4>2, EndsRemoveFirst
    <3>3. CASE NoPacket(wire)
      <4>1. ~d.valid
        BY <3>3 DEF NoPacket
      <4> HIDE DEF d
      <4>2. ~wire[i].valid
        BY <4>1 DEF d
      <4>3. NoPacket(wire')
        BY <1>1, <2>1, <3>3, <4>2, EndsRemoveJunk
      <4>4. /\ NoPacket(inbox) => NoPacket(inbox')
            /\ EndsWith(inbox, appHeld) => EndsWith(inbox', appHeld)
        BY <1>1, <2>1, <2>2, <4>1, EndsAppendJunk
      <4>5. CASE EndsWith(wire, appHeld)
        BY <3>2, <4>5
      <4>6. CASE ~EndsWith(wire, appHeld)
        BY <1>2, <3>1, <4>3, <4>4, <4>6 DEF CleanInv, Settled
      <4> QED
        BY <4>5, <4>6
    <3> QED
      BY <3>1, <3>2, <3>3 DEF Settled
  <2>3. CASE inbox' = inbox /\ clean' = (clean /\ ~d.valid)
    <3>1. clean /\ ~wire[i].valid /\ buttons = appHeld /\ Settled
      BY <2>3 DEF CleanInv
    <3>2. /\ NoPacket(wire) => NoPacket(wire')
          /\ EndsWith(wire, appHeld) => EndsWith(wire', appHeld)
      BY <1>1, <2>1, <3>1, EndsRemoveJunk
    <3> QED
      BY <1>2, <2>3, <3>1, <3>2 DEF CleanInv, Settled
  <2> QED
    BY <1>3, <2>2, <2>3 DEF Arrive
<1>4. CASE Stray
  <2>1. wire' = Append(wire, Junk) /\ inbox' = inbox /\ clean
    BY <1>4 DEF Stray
  <2>2. ~Junk.valid
    BY DEF Junk
  <2>3. /\ NoPacket(wire) => NoPacket(wire')
        /\ EndsWith(wire, appHeld) => EndsWith(wire', appHeld)
    BY <1>1, <2>1, <2>2, JunkType, EndsAppendJunk
  <2> QED
    BY <1>2, <2>1, <2>3 DEF CleanInv, Settled
<1>5. CASE Deliver
  <2>1. 1 \in DOMAIN wire /\ Arrive(1)
    BY <1>1, <1>5 DEF Deliver
  <2> QED
    BY <1>3, <2>1
<1>6. ASSUME NEW i \in DOMAIN wire, Lose(i) \/ Duplicate(i) PROVE CleanInv'
  BY <1>6 DEF Lose, Duplicate, CleanInv
<1> QED
  BY <1>3, <1>4, <1>5, <1>6 DEF Network, Overtake

\* The packet that is read was the last, and is in the merger now, or was not.
LEMMA CleanReceive == TypeOK /\ CleanInv /\ Receive => CleanInv'
<1> SUFFICES ASSUME TypeOK, CleanInv, Receive, clean' PROVE CleanInv'
  BY DEF CleanInv
<1> DEFINE d == Head(inbox)
<1>1. /\ inbox \in Seq(Datagram) /\ inbox # <<>> /\ inbox' = Tail(inbox)
      /\ UNCHANGED <<buttons, appHeld, wire, clean>>
  BY DEF Receive, TypeOK, application, hook
<1>2. 1 \in 1 .. Len(inbox) /\ Tail(inbox) = RemoveAt(inbox, 1) /\ d = inbox[1]
  BY <1>1, TailIsRemoveAt
<1>3. d \in Datagram
  BY <1>1
<1>4. (d.valid => network' = d.buttons) /\ (~d.valid => network' = network)
  <2>1. d.valid => network' = Parsed(d).held
    BY DEF Receive, Accumulate
  <2>2. Parsed(d).held = d.buttons
    BY <1>3, MoveType
  <2>3. ~d.valid => network' = network
    BY DEF Receive, merger
  <2> QED
    BY <2>1, <2>2, <2>3
<1> HIDE DEF d
<1>5. clean /\ buttons = appHeld /\ Settled
  BY <1>1 DEF CleanInv
<1>6. CASE EndsWith(wire, appHeld)
  BY <1>1, <1>5, <1>6 DEF CleanInv, Settled
<1>7. CASE NoPacket(wire) /\ EndsWith(inbox, appHeld)
  <2>1. \/ EndsWith(inbox', appHeld)
        \/ inbox[1].valid /\ inbox[1].buttons = appHeld /\ NoPacket(inbox')
    BY <1>1, <1>2, <1>7, EndsRemoveFirst
  <2>2. CASE EndsWith(inbox', appHeld)
    BY <1>1, <1>5, <1>7, <2>2 DEF CleanInv, Settled
  <2>3. CASE inbox[1].valid /\ inbox[1].buttons = appHeld /\ NoPacket(inbox')
    <3>1. network' = appHeld
      BY <1>2, <1>4, <2>3
    <3> QED
      BY <1>1, <1>5, <1>7, <2>3, <3>1 DEF CleanInv, Settled
  <2> QED
    BY <2>1, <2>2, <2>3
<1>8. CASE NoPacket(wire) /\ NoPacket(inbox) /\ network = appHeld
  <2>1. ~inbox[1].valid
    BY <1>1, <1>2, <1>8 DEF NoPacket
  <2>2. NoPacket(inbox')
    BY <1>1, <1>2, <1>8, <2>1, EndsRemoveJunk
  <2>3. network' = appHeld
    BY <1>2, <1>4, <1>8, <2>1
  <2> QED
    BY <1>1, <1>5, <1>8, <2>2, <2>3 DEF CleanInv, Settled
<1> QED
  BY <1>5, <1>6, <1>7, <1>8 DEF Settled

\* No step breaks CleanInv.
LEMMA CleanStep == TypeOK /\ CleanInv /\ [Next]_vars => CleanInv'
<1> SUFFICES ASSUME TypeOK, CleanInv, [Next]_vars PROVE CleanInv'
  OBVIOUS
<1>1. CASE Hook
  BY <1>1, CleanHook
<1>2. CASE Network
  BY <1>2, CleanNetwork
<1>3. CASE Receive
  BY <1>3, CleanReceive
<1>4. CASE ReceiveFails \/ LeaveLoop
  <2>1. /\ UNCHANGED <<buttons, appHeld, network, wire>>
        /\ inbox' = <<>> /\ clean' = (clean /\ inbox = <<>>)
    BY <1>4 DEF ReceiveFails, LeaveLoop, Cleanup, application, hook, merger
  <2> QED
    BY <2>1 DEF CleanInv, Settled
<1>5. CASE Bind \/ BindFails \/ Loop \/ Timeout \/ Stop \/ Terminated \/ UNCHANGED vars
  <2>1. UNCHANGED <<application, hook, channel, merger, clean>>
    BY <1>5 DEF Bind, BindFails, Loop, Timeout, Stop, Terminated, vars
  <2> QED
    BY <2>1 DEF CleanInv, Settled, application, hook, channel, merger
<1> QED
  BY <1>1, <1>2, <1>3, <1>4, <1>5 DEF Next, Listener

\* At the start nothing is under way and no button is held.
LEMMA CleanInit == Init => CleanInv
BY EmptyHasNoPacket DEF Init, CleanInv, Settled

(***************************************************************************)
(* As long as every packet has arrived in order the merger holds, with     *)
(* none under way, exactly the buttons the application holds.              *)
(***************************************************************************)
THEOREM NetworkFollows == Spec => []NetworkFollowsApp
<1>1. CleanInv => NetworkFollowsApp
  BY EmptyHasNoPacket DEF CleanInv, Settled, NetworkFollowsApp
<1> QED
  BY <1>1, TypeInit, TypeStep, CleanInit, CleanStep, PTL DEF Spec
=============================================================================
