----------------------------- MODULE LaneTheorems -----------------------------
(***************************************************************************)
(* What the proofs about the rings need of Int32Lanes: a lane as the wrap   *)
(* of a counter that has moved n times from a seed, and the slots of such   *)
(* counters; and of the unread part of a history.                           *)
(***************************************************************************)
EXTENDS Int32Lanes, FiniteSetsExt, SequenceTheorems, TLAPS

\* The lane value n moves after the seed, or before it if n is negative.
LaneAt(seed, n) ==
    IF seed + n < 0 THEN seed + n + Modulus
    ELSE IF seed + n < Modulus THEN seed + n ELSE seed + n - Modulus

\* The constants' facts in the form the arithmetic below uses them.
LEMMA LaneConstants ==
    /\ Capacity \in Nat /\ Capacity >= 1
    /\ Modulus \in Nat /\ 2 * Capacity < Modulus
    /\ Half \in Nat /\ 2 * Half = Modulus
  BY LaneAssumption DEF Half

\* A lane that has moved less than half a wrap holds a lane value ...
LEMMA LaneAtType ==
    ASSUME NEW seed \in Lane, NEW n \in Int, 0 - Half < n, n < Half
    PROVE  LaneAt(seed, n) \in Lane
  BY LaneConstants DEF LaneAt, Lane

\* ... one more move is one Inc ...
LEMMA LaneAtInc ==
    ASSUME NEW seed \in Lane, NEW n \in Int, 0 - Half < n, n < Half
    PROVE  Inc(LaneAt(seed, n)) = LaneAt(seed, n + 1)
  BY LaneConstants DEF LaneAt, Lane, Inc

\* ... and one fewer one Dec.
LEMMA LaneAtDec ==
    ASSUME NEW seed \in Lane, NEW n \in Int, 0 - Half < n, n < Half
    PROVE  Dec(LaneAt(seed, n)) = LaneAt(seed, n - 1)
  BY LaneConstants DEF LaneAt, Lane, Dec

\* The signed difference of two lanes is the true difference of their counters.
LEMMA LaneAtDiff ==
    ASSUME NEW seed \in Lane, NEW a \in Int, NEW b \in Int,
           0 - Half < a, a < Half, 0 - Half < b, b < Half, a - b < Half, b - a < Half
    PROVE  SignedDiff(LaneAt(seed, a), LaneAt(seed, b)) = a - b
  BY LaneConstants DEF LaneAt, Lane, SignedDiff, AsInt32

\* Hence a lane value names one counter value of a history.
LEMMA LaneAtInjective ==
    ASSUME NEW seed \in Lane, NEW a \in Int, NEW b \in Int,
           0 - Half < a, a < Half, 0 - Half < b, b < Half, a - b < Half, b - a < Half,
           LaneAt(seed, a) = LaneAt(seed, b)
    PROVE  a = b
  BY LaneConstants DEF LaneAt, Lane

\* A lane is where its signed difference from the seed says it is.
LEMMA LaneIsAtDiff ==
    ASSUME NEW seed \in Lane, NEW x \in Lane
    PROVE  /\ SignedDiff(x, seed) \in 0 - Half .. Half - 1
           /\ x = LaneAt(seed, SignedDiff(x, seed))
  BY LaneConstants DEF LaneAt, Lane, SignedDiff, AsInt32

-------------------------------------------------------------------------------
(* Slots *)

\* Division by the capacity, as the prover needs it spelled out.
LEMMA SlotDivision ==
    ASSUME NEW i \in Nat
    PROVE  /\ Slot(i) \in Slots
           /\ i \div Capacity \in Nat
           /\ i = Capacity * (i \div Capacity) + Slot(i)
  BY LaneConstants DEF Slot, Slots

\* Distribution, for the prover's sake.
LEMMA Distribute == \A c, p, q \in Int : c * (p - q) = c * p - c * q
  OBVIOUS

\* What a product of the modulus leaves over is the residue.
LEMMA ModIs ==
    ASSUME NEW x \in Nat, NEW j \in Int, NEW r \in 0 .. Modulus - 1, x = Modulus * j + r
    PROVE  x % Modulus = r
<1>1. PICK q \in Int, m \in 0 .. Modulus - 1 : x = Modulus * q + m /\ x % Modulus = m
  <2>1. Modulus \in Nat \ {0}
    BY LaneConstants
  <2>2. x \div Modulus \in Int /\ x % Modulus \in 0 .. Modulus - 1
        /\ x = Modulus * (x \div Modulus) + (x % Modulus)
    BY <2>1
  <2> QED
    BY <2>2
<1>2. Modulus * (q - j) = Modulus * q - Modulus * j
  BY Distribute, LaneConstants
<1>3. Modulus * (q - j) = r - m
  <2>1. Modulus * q \in Int /\ Modulus * j \in Int
    BY LaneConstants
  <2> QED
    BY <1>1, <1>2, <2>1, LaneConstants
<1>4. q - j = 0
  BY <1>1, <1>3, LaneConstants
<1> QED
  BY <1>1, <1>3, <1>4, LaneConstants

\* Two numbers of one slot are a whole number of rings apart.
LEMMA SameSlotFarApart ==
    ASSUME NEW i \in Nat, NEW j \in Nat, i < j, Slot(i) = Slot(j)
    PROVE  j - i >= Capacity
<1>1. PICK p \in Nat, q \in Nat : i = Capacity * p + Slot(i) /\ j = Capacity * q + Slot(j)
  BY SlotDivision
<1>2. Slot(i) \in Nat
  BY SlotDivision, LaneConstants DEF Slots
<1>3. Capacity * (q - p) = Capacity * q - Capacity * p
  BY Distribute, LaneConstants
<1>4. Capacity * (q - p) = j - i
  BY <1>1, <1>2, <1>3, LaneConstants
<1>5. q - p >= 1
  BY <1>4, LaneConstants
<1> QED
  BY <1>4, <1>5, LaneConstants

\* A whole number of rings further lies the same slot.
LEMMA RingsKeepSlot ==
    ASSUME NEW i \in Nat, NEW k \in Nat
    PROVE  Slot(i + Capacity * k) = Slot(i)
<1> DEFINE j == i + Capacity * k
<1>0. j \in Nat /\ j = i + Capacity * k /\ Capacity * k \in Nat
  BY LaneConstants
<1> HIDE DEF j
<1>1. PICK q \in Nat, p \in Nat : i = Capacity * q + Slot(i) /\ j = Capacity * p + Slot(j)
  BY <1>0, SlotDivision
<1>2. Slot(i) \in 0 .. Capacity - 1 /\ Slot(j) \in 0 .. Capacity - 1
  BY <1>0, SlotDivision DEF Slots
<1>3. Capacity * (p - (q + k)) = Capacity * p - Capacity * (q + k)
  BY Distribute, LaneConstants
<1>4. Capacity * (q + k) = Capacity * q + Capacity * k
  BY LaneConstants
<1>5. Capacity * (p - (q + k)) = Slot(i) - Slot(j)
  <2>1. Capacity * p \in Nat /\ Capacity * q \in Nat /\ Slot(i) \in Nat /\ Slot(j) \in Nat
    BY <1>2, LaneConstants
  <2> QED
    BY <1>0, <1>1, <1>3, <1>4, <2>1
<1>6. p - (q + k) = 0
  BY <1>2, <1>5, LaneConstants
<1> QED
  BY <1>2, <1>5, <1>6, LaneConstants DEF j

\* Wrapping a lane does not move its slot: the ring's slots tile the lane.
LEMMA WrapKeepsSlot ==
    ASSUME NEW i \in Nat
    PROVE  Slot(i + Modulus) = Slot(i)
<1>1. /\ Modulus = Capacity * (Modulus \div Capacity) + Slot(Modulus)
      /\ Modulus \div Capacity \in Nat
  BY SlotDivision, LaneConstants
<1>2. Slot(Modulus) = 0
  BY LaneAssumption DEF Slot
<1> DEFINE K == Modulus \div Capacity
<1>3. Modulus = Capacity * K + 0 /\ K \in Nat
  BY <1>1, <1>2
<1> HIDE DEF K
<1>4. Modulus = Capacity * K
  BY <1>3, LaneConstants
<1>5. Slot(i + Capacity * K) = Slot(i)
  BY <1>3, RingsKeepSlot
<1> QED
  BY <1>4, <1>5

\* The slot of a lane, without the wrap.
LEMMA LaneAtSlot ==
    ASSUME NEW seed \in Lane, NEW n \in Int, 0 - Half < n, n < Half
    PROVE  Slot(LaneAt(seed, n)) = Slot(seed + n + Modulus)
<1>1. CASE seed + n < 0
  BY <1>1 DEF LaneAt
<1>2. CASE 0 <= seed + n /\ seed + n < Modulus
  <2>1. seed + n \in Nat /\ LaneAt(seed, n) = seed + n
    BY <1>2, LaneConstants DEF LaneAt, Lane
  <2> QED
    BY <2>1, WrapKeepsSlot
<1>3. CASE Modulus <= seed + n
  <2> DEFINE m == seed + n - Modulus
  <2>1. m \in Nat /\ LaneAt(seed, n) = m /\ m + Modulus \in Nat
        /\ seed + n + Modulus = m + Modulus + Modulus
    BY <1>3, LaneConstants DEF LaneAt, Lane
  <2> HIDE DEF m
  <2>2. Slot(m + Modulus) = Slot(m) /\ Slot(m + Modulus + Modulus) = Slot(m + Modulus)
    BY <2>1, WrapKeepsSlot
  <2> QED
    BY <2>1, <2>2
<1> QED
  BY <1>1, <1>2, <1>3, LaneConstants DEF Lane

\* A lap of the ring further is the same slot.
LEMMA LapKeepsSlot ==
    ASSUME NEW seed \in Lane, NEW n \in Int, 0 - Half < n - Capacity, n < Half
    PROVE  Slot(LaneAt(seed, n)) = Slot(LaneAt(seed, n - Capacity))
<1> DEFINE m == seed + (n - Capacity) + Modulus
<1>1. m \in Nat /\ seed + n + Modulus = m + Capacity * 1
  BY LaneConstants DEF Lane
<1>2. Slot(LaneAt(seed, n)) = Slot(seed + n + Modulus)
      /\ Slot(LaneAt(seed, n - Capacity)) = Slot(m)
  BY LaneAtSlot, LaneConstants
<1> HIDE DEF m
<1>3. Slot(m + Capacity * 1) = Slot(m)
  BY <1>1, RingsKeepSlot
<1> QED
  BY <1>1, <1>2, <1>3

\* Counters less than a ring apart use different slots.
LEMMA SlotsDiffer ==
    ASSUME NEW seed \in Lane, NEW a \in Int, NEW b \in Int,
           0 - Half < a, a < b, b < Half, b - a < Capacity
    PROVE  Slot(LaneAt(seed, a)) # Slot(LaneAt(seed, b))
<1> DEFINE i == seed + a + Modulus
           j == seed + b + Modulus
<1>1. i \in Nat /\ j \in Nat /\ i < j /\ j - i < Capacity
  BY LaneConstants DEF Lane
<1>2. Slot(LaneAt(seed, a)) = Slot(i) /\ Slot(LaneAt(seed, b)) = Slot(j)
  BY LaneAtSlot, LaneConstants
<1> HIDE DEF i, j
<1> QED
  BY <1>1, <1>2, SameSlotFarApart, LaneConstants

-------------------------------------------------------------------------------
(* The unread part of a history: what is left of it after its first f frames *)

Suffix(s, f) == SubSeq(s, f + 1, Len(s))

\* Its frames are those of the history, counted from the first unread one.
LEMMA SuffixElements ==
    ASSUME NEW S, NEW s \in Seq(S), NEW f \in 0 .. Len(s)
    PROVE  /\ Suffix(s, f) \in Seq(S)
           /\ Len(Suffix(s, f)) = Len(s) - f
           /\ \A i \in 1 .. Len(s) - f : Suffix(s, f)[i] = s[f + i]
           /\ f = Len(s) => Suffix(s, f) = <<>>
<1>1. Len(s) \in Nat
  BY LenProperties
<1>2. \A i \in f + 1 .. Len(s) : s[i] \in S
  BY <1>1, ElementOfSeq
<1>3. /\ SubSeq(s, f + 1, Len(s)) \in Seq(S)
      /\ Len(SubSeq(s, f + 1, Len(s)))
            = IF f + 1 <= Len(s) THEN Len(s) - (f + 1) + 1 ELSE 0
      /\ \A i \in 1 .. Len(s) - (f + 1) + 1 :
             SubSeq(s, f + 1, Len(s))[i] = s[f + 1 + i - 1]
  BY <1>1, <1>2, SubSeqProperties
<1>4. ASSUME NEW i \in 1 .. Len(s) - f
      PROVE  Suffix(s, f)[i] = s[f + i]
  <2>1. i \in 1 .. Len(s) - (f + 1) + 1 /\ f + 1 + i - 1 = f + i
    BY <1>1
  <2> QED
    BY <1>3, <2>1 DEF Suffix
<1>5. f = Len(s) => Suffix(s, f) = <<>>
  BY <1>1, SubSeqEmpty DEF Suffix
<1>6. Len(Suffix(s, f)) = Len(s) - f
  <2>1. CASE f + 1 <= Len(s)
    BY <1>1, <1>3, <2>1 DEF Suffix
  <2>2. CASE f = Len(s)
    BY <1>1, <1>3, <2>2 DEF Suffix
  <2> QED
    BY <1>1, <2>1, <2>2
<1> QED
  BY <1>3, <1>4, <1>5, <1>6 DEF Suffix

\* A frame appended to the history is appended to its unread part.
LEMMA SuffixAppend ==
    ASSUME NEW S, NEW s \in Seq(S), NEW f \in 0 .. Len(s), NEW e \in S
    PROVE  Suffix(Append(s, e), f) = Append(Suffix(s, f), e)
<1> DEFINE t == Append(s, e)
           q == Suffix(s, f)
<1>1. /\ Len(s) \in Nat /\ t \in Seq(S) /\ Len(t) = Len(s) + 1 /\ t[Len(s) + 1] = e
      /\ \A i \in 1 .. Len(s) : t[i] = s[i]
  BY AppendProperties, LenProperties
<1>2. /\ q \in Seq(S) /\ Len(q) = Len(s) - f
      /\ \A i \in 1 .. Len(s) - f : q[i] = s[f + i]
  BY SuffixElements
<1> HIDE DEF t, q
<1>3. f \in 0 .. Len(t)
  BY <1>1
<1>4. /\ Suffix(t, f) \in Seq(S) /\ Len(Suffix(t, f)) = Len(t) - f
      /\ \A i \in 1 .. Len(t) - f : Suffix(t, f)[i] = t[f + i]
  BY <1>1, <1>3, SuffixElements
<1>5. /\ Append(q, e) \in Seq(S) /\ Len(Append(q, e)) = Len(q) + 1
      /\ \A i \in 1 .. Len(q) : Append(q, e)[i] = q[i]
      /\ Append(q, e)[Len(q) + 1] = e
  BY <1>2, AppendProperties
<1>6. ASSUME NEW i \in 1 .. Len(s) - f + 1
      PROVE  Suffix(t, f)[i] = Append(q, e)[i]
  <2>1. Suffix(t, f)[i] = t[f + i]
    BY <1>1, <1>4
  <2>2. CASE i = Len(s) - f + 1
    <3>1. f + i = Len(s) + 1 /\ i = Len(q) + 1
      BY <1>1, <1>2, <2>2
    <3> QED
      BY <1>1, <1>5, <2>1, <3>1
  <2>3. CASE i \in 1 .. Len(s) - f
    <3>1. f + i \in 1 .. Len(s) /\ i \in 1 .. Len(q)
      BY <1>1, <1>2, <2>3
    <3> QED
      BY <1>1, <1>2, <1>5, <2>1, <2>3, <3>1
  <2>4. i = Len(s) - f + 1 \/ i \in 1 .. Len(s) - f
    BY <1>1
  <2> QED
    BY <2>2, <2>3, <2>4
<1>7. Len(Suffix(t, f)) = Len(s) - f + 1 /\ Len(Append(q, e)) = Len(s) - f + 1
  BY <1>1, <1>2, <1>4, <1>5
<1>8. Suffix(t, f) = Append(q, e)
  BY <1>4, <1>5, <1>6, <1>7, SeqEqual
<1> QED
  BY <1>8 DEF t, q

\* The oldest unread frame, and what stays when it is taken.
LEMMA SuffixHead ==
    ASSUME NEW S, NEW s \in Seq(S), NEW f \in 0 .. Len(s), f < Len(s)
    PROVE  /\ Suffix(s, f) # <<>>
           /\ Head(Suffix(s, f)) = s[f + 1]
           /\ Tail(Suffix(s, f)) = Suffix(s, f + 1)
<1>1. Len(s) \in Nat
  BY LenProperties
<1>2. f + 1 \in 1 .. Len(s) /\ Len(s) \in f + 1 .. Len(s)
  BY <1>1
<1>3. /\ Head(SubSeq(s, f + 1, Len(s))) = s[f + 1]
      /\ Tail(SubSeq(s, f + 1, Len(s))) = SubSeq(s, f + 1 + 1, Len(s))
  BY <1>2, HeadTailOfSubSeq
<1>4. Suffix(s, f) # <<>>
  BY <1>1, SuffixElements, EmptySeq
<1> QED
  BY <1>3, <1>4 DEF Suffix

\* A suffix of the unread part is a shorter unread part.
LEMMA SuffixOfSuffix ==
    ASSUME NEW S, NEW s \in Seq(S), NEW f \in 0 .. Len(s), NEW n \in 0 .. Len(s) - f
    PROVE  Suffix(Suffix(s, f), n) = Suffix(s, f + n)
<1> DEFINE q == Suffix(s, f)
<1>1. Len(s) \in Nat /\ f + n \in 0 .. Len(s)
  BY LenProperties
<1>2. /\ q \in Seq(S) /\ Len(q) = Len(s) - f
      /\ \A i \in 1 .. Len(s) - f : q[i] = s[f + i]
  BY SuffixElements
<1> HIDE DEF q
<1>3. n \in 0 .. Len(q)
  BY <1>1, <1>2
<1>4. /\ Suffix(q, n) \in Seq(S) /\ Len(Suffix(q, n)) = Len(q) - n
      /\ \A i \in 1 .. Len(q) - n : Suffix(q, n)[i] = q[n + i]
  BY SMTT(30), <1>2, <1>3, SuffixElements
<1>5. /\ Suffix(s, f + n) \in Seq(S) /\ Len(Suffix(s, f + n)) = Len(s) - (f + n)
      /\ \A i \in 1 .. Len(s) - (f + n) : Suffix(s, f + n)[i] = s[f + n + i]
  BY <1>1, SuffixElements
<1>6. ASSUME NEW i \in 1 .. Len(q) - n
      PROVE  Suffix(q, n)[i] = Suffix(s, f + n)[i]
  <2>1. n + i \in 1 .. Len(s) - f /\ i \in 1 .. Len(s) - (f + n) /\ f + (n + i) = f + n + i
    BY <1>1, <1>2
  <2> QED
    BY <1>2, <1>4, <1>5, <2>1
<1>7. Len(Suffix(q, n)) = Len(q) - n /\ Len(Suffix(s, f + n)) = Len(q) - n
  <2>1. Len(s) - (f + n) = (Len(s) - f) - n
    BY <1>1
  <2> QED
    BY <1>2, <1>4, <1>5, <2>1
<1>8. Suffix(q, n) = Suffix(s, f + n)
  BY <1>4, <1>5, <1>6, <1>7, SeqEqual
<1> QED
  BY <1>8 DEF q

-------------------------------------------------------------------------------
(* A history of frames <<producer, number>>: the newest number of a producer *)

NumbersIn(h, p) == {h[i][2] : i \in {j \in 1 .. Len(h) : h[j][1] = p}}
NewestIn(h, p) == Max({0} \cup NumbersIn(h, p))

\* Every producer has a newest frame, or none.
NewestExists(h, P) ==
    \A p \in P : \E m \in {0} \cup NumbersIn(h, p) :
        \A n \in {0} \cup NumbersIn(h, p) : m >= n

\* The largest number of a set is its Max.
LEMMA MaxIs ==
    ASSUME NEW S \in SUBSET Nat, NEW m \in S, \A n \in S : m >= n
    PROVE  Max(S) = m
<1>1. \A x \in S : (\A n \in S : x >= n) => x = m
  OBVIOUS
<1> QED
  BY <1>1 DEF Max

LEMMA NewestOfNone ==
    ASSUME NEW P
    PROVE  NewestExists(<<>>, P) /\ \A p \in P : NewestIn(<<>>, p) = 0
<1>1. \A p : {0} \cup NumbersIn(<<>>, p) = {0}
  BY DEF NumbersIn
<1>2. Max({0}) = 0
  BY MaxIs
<1>3. ASSUME NEW p \in P
      PROVE  /\ \E m \in {0} \cup NumbersIn(<<>>, p) :
                    \A n \in {0} \cup NumbersIn(<<>>, p) : m >= n
             /\ NewestIn(<<>>, p) = 0
  <2>1. {0} \cup NumbersIn(<<>>, p) = {0}
    BY <1>1
  <2>2. NewestIn(<<>>, p) = Max({0})
    BY <2>1 DEF NewestIn
  <2> QED
    BY <1>2, <2>1, <2>2
<1> QED
  BY <1>3 DEF NewestExists

\* An appended frame adds its number to its producer's, and to no other's.
LEMMA NumbersAppend ==
    ASSUME NEW P, NEW h \in Seq(P \X Nat), NEW p \in P, NEW n \in Nat, NEW q \in P
    PROVE  NumbersIn(Append(h, <<p, n>>), q)
               = NumbersIn(h, q) \cup (IF q = p THEN {n} ELSE {})
<1> DEFINE N == Len(h)
           g == Append(h, <<p, n>>)
           J == {j \in 1 .. N : h[j][1] = q}
<1>1. /\ N \in Nat /\ Len(g) = N + 1 /\ g[N + 1] = <<p, n>>
      /\ \A i \in 1 .. N : g[i] = h[i]
  OBVIOUS
<1> HIDE DEF N, g
<1>2. {j \in 1 .. N + 1 : g[j][1] = q} = J \cup (IF q = p THEN {N + 1} ELSE {})
  <2>1. \A j \in 1 .. N : j \in 1 .. N + 1 /\ j # N + 1
    BY <1>1
  <2>2. \A j \in 1 .. N + 1 : j \in 1 .. N \/ j = N + 1
    BY <1>1
  <2>3. N + 1 \in 1 .. N + 1 /\ g[N + 1][1] = p
    BY <1>1
  <2> QED
    BY <1>1, <2>1, <2>2, <2>3
<1>3. NumbersIn(g, q) = {g[i][2] : i \in J \cup (IF q = p THEN {N + 1} ELSE {})}
  BY <1>1, <1>2 DEF NumbersIn
<1>4. NumbersIn(h, q) = {h[i][2] : i \in J}
  BY DEF NumbersIn, N
<1>5. (\A i \in J : g[i][2] = h[i][2]) /\ g[N + 1][2] = n
  BY <1>1
<1> HIDE DEF J
<1>6. ASSUME q = p
      PROVE  NumbersIn(g, q) = NumbersIn(h, q) \cup {n}
  <2>1. NumbersIn(g, q) = {g[i][2] : i \in J \cup {N + 1}}
    BY <1>3, <1>6
  <2> QED
    BY <1>4, <1>5, <1>6, <2>1
<1>7. ASSUME q # p
      PROVE  NumbersIn(g, q) = NumbersIn(h, q)
  <2>1. NumbersIn(g, q) = {g[i][2] : i \in J}
    BY <1>3, <1>7
  <2> QED
    BY <1>4, <1>5, <1>7, <2>1
<1>8. NumbersIn(g, q) = NumbersIn(h, q) \cup (IF q = p THEN {n} ELSE {})
  BY <1>6, <1>7
<1> QED
  BY <1>8 DEF g

\* A frame newer than all of its producer's is the newest when it is appended.
LEMMA NewestAppend ==
    ASSUME NEW P, NEW h \in Seq(P \X Nat), NewestExists(h, P),
           NEW p \in P, NEW n \in Nat, n >= 1,
           \A i \in 1 .. Len(h) : h[i][1] = p => h[i][2] < n
    PROVE  /\ n > NewestIn(h, p)
           /\ NewestIn(Append(h, <<p, n>>), p) = n
           /\ \A q \in P \ {p} : NewestIn(Append(h, <<p, n>>), q) = NewestIn(h, q)
           /\ NewestExists(Append(h, <<p, n>>), P)
<1> DEFINE g == Append(h, <<p, n>>)
           S == {0} \cup NumbersIn(h, p)
           T == {0} \cup NumbersIn(g, p)
<1>1. /\ NumbersIn(g, p) = NumbersIn(h, p) \cup {n}
      /\ \A q \in P \ {p} : NumbersIn(g, q) = NumbersIn(h, q)
  <2>1. \A q \in P :
            NumbersIn(g, q) = NumbersIn(h, q) \cup (IF q = p THEN {n} ELSE {})
    BY NumbersAppend
  <2> QED
    BY <2>1
<1>2. \A i \in 1 .. Len(h) : h[i] \in P \X Nat
  OBVIOUS
<1>3. S \in SUBSET Nat /\ \A k \in S : k < n
  BY <1>2 DEF NumbersIn
<1>4. PICK m \in S : \A k \in S : m >= k
  BY DEF NewestExists
<1>5. NewestIn(h, p) = m
  <2>1. S = {0} \cup NumbersIn(h, p)
    OBVIOUS
  <2> HIDE DEF S
  <2>2. Max(S) = m
    BY <1>3, <1>4, MaxIs
  <2> QED
    BY <2>1, <2>2 DEF NewestIn
<1>6. T = S \cup {n}
  BY <1>1
<1>7. NewestIn(g, p) = Max(T)
  BY DEF NewestIn
<1>8. \A q \in P \ {p} : NewestIn(g, q) = NewestIn(h, q)
  BY <1>1 DEF NewestIn
<1> HIDE DEF S, T, g
<1>9. T \in SUBSET Nat /\ n \in T /\ \A k \in T : n >= k
  BY <1>3, <1>6
<1>10. NewestIn(g, p) = n
  BY <1>7, <1>9, MaxIs
<1>11. NewestExists(g, P)
  <2>1. \A q \in P \ {p} : \E k \in {0} \cup NumbersIn(g, q) :
            \A j \in {0} \cup NumbersIn(g, q) : k >= j
    BY <1>1 DEF NewestExists
  <2>2. \E k \in {0} \cup NumbersIn(g, p) : \A j \in {0} \cup NumbersIn(g, p) : k >= j
    BY <1>9 DEF T
  <2> QED
    BY <2>1, <2>2 DEF NewestExists
<1> QED
  BY <1>3, <1>4, <1>5, <1>8, <1>10, <1>11 DEF g
===============================================================================
