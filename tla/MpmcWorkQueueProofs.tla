------------------------- MODULE MpmcWorkQueueProofs -------------------------
(***************************************************************************)
(* Proofs about MpmcWorkQueue for every number of producers that           *)
(* opts.producerCount covers, any number of consumers, every capacity and  *)
(* seed, and every history shorter than half a wrap.  Lanes are counted    *)
(* from the seed (Count); the invariant says what a slot's stamp, the      *)
(* frontier and a held claim mean in the history of tickets.               *)
(***************************************************************************)
EXTENDS MpmcWorkQueue, LaneTheorems, FiniteSetTheorems

\* The tuples of variables are abbreviations only: every step may see through them.
USE DEF lanes, slots, counters, producerVars, consumerVars

\* opts.producerCount covers the threads that push, as its documentation demands.
ProducersAreCounted == Cardinality(Producers) <= ProducerCount

\* The lane of ticket number n of the history, and how far a lane has come in it.
LaneOf(n) == LaneAt(Seed, n)
Count(x) == SignedDiff(x, Seed)

Dequeued == Count(dequeueTicket)
AtTicket(p) == Count(at[p])
HeldTicket(c) == Count(held[c])
PeekedAt(c) == Count(cR[c])

\* Tickets a history can hold, and consumers that may claim past its end.
Bound == MaxFrames * Cardinality(Producers)
Crowd == Cardinality(Consumers)

\* Ticket t's frame was handed out; the tickets before the history all were.
Done(t) == t < 0 \/ (t < Len(claimed) /\ claimed[t + 1] \in Delivered)

\* All tickets below n are done.
Passed(n) == \A t \in 0 .. n - 1 : Done(t)

\* What the envelope leaves for the ring to hold.
Room == Capacity - Slack

Scanning == {"scan", "compare", "storeFrontier"}
Loaded == {"check", "claim"}
Trying == Scanning \cup {"loadTicket"} \cup Loaded
Peeking == {"peek", "claim"}

\* A producer's frames are claimed in the order of its offers.
ClaimsAreOffers ==
    /\ \A i \in 1 .. Len(claimed) : claimed[i][2] <= offered[claimed[i][1]]
    /\ \A i, j \in 1 .. Len(claimed) :
           i < j /\ claimed[i][1] = claimed[j][1] => claimed[i][2] < claimed[j][2]
    /\ \A p \in Producers : ppc[p] \in Trying =>
           /\ offered[p] >= 1
           /\ \A i \in 1 .. Len(claimed) : claimed[i][1] = p => claimed[i][2] < offered[p]

\* No more than a ring of tickets is ever under way, and the frontier and whatever
\* a scan has come to lie among tickets that are done.
TicketsFollowHistory ==
    /\ enqueueTicket = LaneOf(Len(claimed))
    /\ Passed(Len(claimed) - Capacity)
    /\ Count(frontier) \in 0 .. Len(claimed) /\ Passed(Count(frontier))
    /\ \A p \in Producers : ppc[p] \in Scanning =>
           AtTicket(p) \in 0 .. Len(claimed) /\ Passed(AtTicket(p))
    /\ tornGuarded = 0

\* A load of enqueueTicket is newer than the producer's own claims, and one that
\* passed the check saw that much room behind tickets that are done.
LoadsFollowClaims ==
    \A p \in Producers : ppc[p] \in Loaded =>
        /\ AtTicket(p) \in 0 .. Len(claimed)
        /\ \A i \in AtTicket(p) + 1 .. Len(claimed) : claimed[i][1] # p
        /\ ppc[p] = "claim" => Passed(AtTicket(p) + 1 - Room)

\* Hence a producer that has claimed twice saw that much room behind its first ticket.
PastTheLineOnce ==
    \A i, j \in 1 .. Len(claimed) :
        i < j /\ claimed[i][1] = claimed[j][1] => Passed(i + 1 - Room)

\* A producer that holds a ticket finds its slot free for it and keeps it so.
WriterHolds(p) ==
    /\ AtTicket(p) \in 0 .. Len(claimed) - 1 /\ ~Done(AtTicket(p))
    /\ claimed[AtTicket(p) + 1] = <<p, offered[p]>>
    /\ gen[Slot(at[p])] = at[p]
    /\ ppc[p] = "publish" => data[Slot(at[p])] = <<p, offered[p]>>

WritersHold == \A p \in Producers : Writing(p) => WriterHolds(p)

\* The ticket whose stamp a slot carries.
StampAt(t) == Count(gen[Slot(LaneOf(t))])

\* A slot carries the stamp of a ticket that is still to come at most, of a done
\* ticket's next lap at least, and of a ticket under way itself.
Stamped(t) ==
    /\ StampAt(t) \in 0 .. Bound + Capacity
    /\ t >= Len(claimed) => StampAt(t) <= t
    /\ Done(t) => StampAt(t) >= t + Capacity
    /\ t \in 0 .. Len(claimed) - 1 /\ ~Done(t) =>
           \/ StampAt(t) = t
           \/ StampAt(t) = t + 1 /\ data[Slot(LaneOf(t))] = claimed[t + 1]

StampsFollowHistory ==
    \A t \in 0 - Capacity .. Bound + Crowd : Stamped(t)

\* A held claim is its holder's alone, for a frame that was not handed out, newer
\* than all the holder was handed.
ConsumerHolds(c) ==
    /\ HeldTicket(c) \in 0 .. Dequeued - 1 /\ ~Done(HeldTicket(c))
    /\ \A q \in Consumers \ {c} : hasHeld[q] => HeldTicket(q) # HeldTicket(c)

ConsumersHold ==
    \A c \in Consumers :
        /\ hasHeld[c] => ConsumerHolds(c)
        /\ cpc[c] \in Peeking => ~hasHeld[c]
        /\ cpc[c] \notin Peeking \cup {"idle"} => hasHeld[c]
        /\ Reading(c) => HeldTicket(c) < Len(claimed) /\ gen[Slot(held[c])] = Inc(held[c])
        /\ cpc[c] = "free" => out[c] = claimed[HeldTicket(c) + 1]

\* What was handed out was claimed, by a ticket that was dequeued.
GotIsClaimed ==
    \A c \in Consumers : \A i \in 1 .. Len(got[c]) :
        \E t \in 0 .. Len(claimed) - 1 :
            /\ got[c][i] = claimed[t + 1]
            /\ t < Dequeued
            /\ hasHeld[c] => t < HeldTicket(c)

\* Consumers that will claim if they find n tickets enqueued, or did.
Armed(n) == {c \in Consumers : cpc[c] \in Peeking /\ PeekedAt(c) < n}

\* The fetch-adds of consumers that raced pass the end by no more than their number.
ClaimsAreFew ==
    /\ Dequeued \in Nat
    /\ \A n \in Len(claimed) .. Dequeued :
           Dequeued - n + Cardinality(Armed(n)) <= Crowd
    /\ \A c \in Consumers : cpc[c] \in Peeking =>
           /\ PeekedAt(c) \in 0 .. Dequeued
           /\ cpc[c] = "claim" => PeekedAt(c) < Len(claimed)

\* The inductive invariant, whatever the sign of the tickets.
IInv ==
    /\ TypeOK
    /\ ClaimsAreOffers
    /\ TicketsFollowHistory
    /\ LoadsFollowClaims
    /\ PastTheLineOnce
    /\ WritersHold
    /\ StampsFollowHistory
    /\ ConsumersHold
    /\ GotIsClaimed
    /\ ClaimsAreFew

\* The enqueue ticket that a consumer finds after close() is final.
ClosedIsFinal ==
    /\ closed => \A p \in Producers : ppc[p] \in {"idle", "write", "publish"}
    /\ \A c \in Consumers : cpc[c] = "loadFinal" => closed

\* No dequeue ticket is lost that may still name a frame.
ClaimsAreHeld ==
    \A t \in 0 .. Dequeued - 1 : t < Len(claimed) \/ ~closed =>
        Done(t) \/ \E c \in Consumers : hasHeld[c] /\ HeldTicket(c) = t


-------------------------------------------------------------------------------
(* Constants, lanes and slots *)

\* The constants' facts in the form the arithmetic below uses them.
LEMMA Constants ==
    /\ Capacity \in Nat /\ Capacity >= 2 /\ Modulus \in Nat
    /\ Slack \in Nat /\ Room \in Nat /\ Room >= 1 /\ Room = Capacity - Slack
    /\ Cardinality(Producers) \in Nat /\ IsFiniteSet(Producers)
    /\ Crowd \in Nat /\ IsFiniteSet(Consumers)
    /\ MaxFrames \in Nat /\ Bound \in Nat
    /\ Half \in Nat /\ Bound + Crowd + 2 * Capacity < Half /\ 2 * Half = Modulus
    /\ Seed \in Lane
<1>1. Cardinality(Producers) \in Nat /\ Crowd \in Nat
  BY WorkQueueAssumption, FS_CardinalityType DEF Crowd
<1>2. Bound \in Nat /\ 2 * (Bound + Crowd + 2 * Capacity) < Modulus
  BY <1>1, WorkQueueAssumption DEF Bound, Crowd
<1>3. Slack \in Nat /\ Slack < Capacity
  BY WorkQueueAssumption, LaneConstants DEF Slack
<1>4. Room \in Nat /\ Room >= 1 /\ Room = Capacity - Slack
  BY <1>3, LaneConstants DEF Room
<1>5. Seed \in Lane
  BY WorkQueueAssumption, LaneConstants DEF Lane
<1> QED
  BY <1>1, <1>2, <1>3, <1>4, <1>5, LaneConstants, WorkQueueAssumption

\* The counts a lane may come to in a history, a lap before and after included.
Counts == 0 - Capacity .. Bound + Crowd + Capacity

LEMMA CountType == \A x \in Lane : Count(x) \in Int /\ x = LaneOf(Count(x))
<1> SUFFICES ASSUME NEW x \in Lane
             PROVE  Count(x) \in Int /\ x = LaneOf(Count(x))
  OBVIOUS
<1>1. SignedDiff(x, Seed) \in 0 - Half .. Half - 1 /\ x = LaneAt(Seed, SignedDiff(x, Seed))
  BY Constants, LaneIsAtDiff
<1> QED
  BY <1>1, Constants DEF Count, LaneOf

LEMMA CountRange == Counts \subseteq 0 - Half + 1 .. Half - 1 /\ 0 \in Counts
  BY Constants DEF Counts

LEMMA CountOf == \A n \in Counts : LaneOf(n) \in Lane /\ Count(LaneOf(n)) = n
<1> SUFFICES ASSUME NEW n \in Counts
             PROVE  LaneOf(n) \in Lane /\ Count(LaneOf(n)) = n
  OBVIOUS
<1>1. /\ n \in Int /\ 0 - Half < n /\ n < Half /\ 0 - Half < 0 /\ 0 < Half
      /\ n - 0 < Half /\ 0 - n < Half /\ Seed \in Lane /\ n - 0 = n
  BY CountRange, Constants
<1>2. Seed = LaneAt(Seed, 0)
  BY Constants DEF LaneAt, Lane
<1>3. SignedDiff(LaneAt(Seed, n), LaneAt(Seed, 0)) = n - 0
  BY <1>1, LaneAtDiff
<1> QED
  BY <1>1, <1>2, <1>3, LaneAtType DEF LaneOf, Count

\* A lane's count tells which lane it is.
LEMMA SameCount == \A x, y \in Lane : Count(x) = Count(y) => x = y
<1> SUFFICES ASSUME NEW x \in Lane, NEW y \in Lane, Count(x) = Count(y)
             PROVE  x = y
  OBVIOUS
<1>1. x = LaneOf(Count(x)) /\ y = LaneOf(Count(y))
  BY CountType
<1> QED
  BY <1>1

LEMMA CountDiff ==
    ASSUME NEW x \in Lane, NEW y \in Lane, Count(x) \in Counts, Count(y) \in Counts
    PROVE  SignedDiff(x, y) = Count(x) - Count(y)
<1> DEFINE a == Count(x)
           b == Count(y)
<1>1. x = LaneAt(Seed, a) /\ y = LaneAt(Seed, b)
  BY CountType DEF LaneOf
<1>2. a \in Counts /\ b \in Counts
  OBVIOUS
<1> HIDE DEF a, b
<1>3. /\ a \in Int /\ b \in Int /\ 0 - Half < a /\ a < Half /\ 0 - Half < b /\ b < Half
      /\ a - b < Half /\ b - a < Half /\ Seed \in Lane
  BY <1>2, Constants DEF Counts
<1>4. SignedDiff(LaneAt(Seed, a), LaneAt(Seed, b)) = a - b
  BY <1>3, LaneAtDiff
<1> QED
  BY <1>1, <1>4 DEF a, b

LEMMA CountInc ==
    ASSUME NEW x \in Lane, Count(x) \in Counts, Count(x) + 1 \in Counts
    PROVE  Inc(x) \in Lane /\ Count(Inc(x)) = Count(x) + 1
<1> DEFINE a == Count(x)
<1>1. x = LaneAt(Seed, a) /\ a \in Counts /\ a + 1 \in Counts
  BY CountType DEF LaneOf
<1> HIDE DEF a
<1>2. a \in Int /\ 0 - Half < a /\ a < Half /\ Seed \in Lane
  BY <1>1, Constants DEF Counts
<1>3. Inc(x) = LaneOf(a + 1)
  BY <1>1, <1>2, LaneAtInc DEF LaneOf
<1> QED
  BY <1>1, <1>3, CountOf DEF a

LEMMA CountAdd ==
    ASSUME NEW x \in Lane, Count(x) \in Counts, Count(x) + Capacity \in Counts
    PROVE  Add(x, Capacity) \in Lane /\ Count(Add(x, Capacity)) = Count(x) + Capacity
<1> DEFINE a == Count(x)
<1>1. x = LaneAt(Seed, a) /\ a \in Counts /\ a + Capacity \in Counts
  BY CountType DEF LaneOf
<1> HIDE DEF a
<1>2. LaneAt(Seed, a + Capacity) \in 0 .. Modulus - 1
  BY <1>1, CountOf DEF LaneOf, Lane
<1>3. /\ a \in Int /\ 0 - Half < a /\ a + Capacity < Half
      /\ Seed \in 0 .. Modulus - 1 /\ x \in 0 .. Modulus - 1
  BY <1>1, Constants DEF Counts, Lane
<1>4. \/ x + Capacity = Modulus * 0 + LaneAt(Seed, a + Capacity)
      \/ x + Capacity = Modulus * 1 + LaneAt(Seed, a + Capacity)
  BY <1>1, <1>3, Constants DEF LaneAt
<1>5. Add(x, Capacity) = LaneAt(Seed, a + Capacity)
  <2>1. x + Capacity \in Nat
    BY <1>3, Constants
  <2> QED
    BY <1>2, <1>4, <2>1, ModIs DEF Add
<1> QED
  BY <1>1, <1>5, CountOf DEF LaneOf, a

LEMMA SlotType == \A x \in Lane : Slot(x) \in Slots
<1>1. \A x \in Lane : x \in Nat
  BY Constants DEF Lane
<1> QED
  BY <1>1, SlotDivision

\* A lap later is the same slot ...
LEMMA LapIsSlot ==
    ASSUME NEW n \in Counts, n + Capacity \in Counts
    PROVE  Slot(LaneOf(n + Capacity)) = Slot(LaneOf(n))
<1> DEFINE m == n + Capacity
<1>1. /\ m \in Int /\ m - Capacity = n /\ 0 - Half < m - Capacity /\ m < Half /\ Seed \in Lane
  BY Constants DEF Counts
<1> HIDE DEF m
<1>2. Slot(LaneAt(Seed, m)) = Slot(LaneAt(Seed, m - Capacity))
  BY <1>1, LapKeepsSlot
<1> QED
  BY <1>1, <1>2 DEF LaneOf, m

\* ... and tickets of one slot are a lap apart.
LEMMA SameSlot ==
    ASSUME NEW a \in Counts, NEW b \in Counts, Slot(LaneOf(a)) = Slot(LaneOf(b)), a # b
    PROVE  a - b >= Capacity \/ b - a >= Capacity
<1>1. /\ a \in Int /\ b \in Int /\ 0 - Half < a /\ a < Half /\ 0 - Half < b /\ b < Half
      /\ Seed \in Lane
  BY CountRange, Constants
<1>2. CASE a < b
  BY <1>1, <1>2, Constants, SlotsDiffer DEF LaneOf
<1>3. CASE b < a
  BY <1>1, <1>3, Constants, SlotsDiffer DEF LaneOf
<1> QED
  BY <1>1, <1>2, <1>3

-------------------------------------------------------------------------------
(* What the invariant says of the history, of a writer and of a holder *)

\* A frame that some consumer was handed.
Handed(f) == \E c \in Consumers : \E i \in 1 .. Len(got[c]) : got[c][i] = f

LEMMA DoneIs ==
    ASSUME TypeOK, NEW t \in Nat, t < Len(claimed)
    PROVE  Done(t) <=> Handed(claimed[t + 1])
<1>1. t + 1 \in 1 .. Len(claimed) /\ ~(t < 0)
  BY DEF TypeOK
<1>2. \A c \in Consumers :
          claimed[t + 1] \in Range(got[c])
              <=> \E i \in 1 .. Len(got[c]) : got[c][i] = claimed[t + 1]
  <2>1. \A c \in Consumers : DOMAIN got[c] = 1 .. Len(got[c])
    BY DEF TypeOK
  <2> QED
    BY <2>1 DEF Range
<1>3. Done(t) <=> claimed[t + 1] \in UNION {Range(got[c]) : c \in Consumers}
  BY <1>1 DEF Done, Delivered
<1> QED
  BY <1>2, <1>3 DEF Handed

\* No frame is claimed twice,
LEMMA DistinctFrames ==
    ASSUME TypeOK, ClaimsAreOffers,
           NEW i \in 1 .. Len(claimed), NEW j \in 1 .. Len(claimed), claimed[i] = claimed[j]
    PROVE  i = j
<1>1. claimed[i] \in Frames /\ Len(claimed) \in Nat
  BY DEF TypeOK
<1>2. claimed[i][2] \in Nat
  BY <1>1 DEF Frames
<1>3. ~(i < j) /\ ~(j < i)
  BY <1>2 DEF ClaimsAreOffers
<1>4. i \in Int /\ j \in Int
  BY <1>1
<1> QED
  BY <1>3, <1>4

\* A set that maps one-to-one into a finite one is no larger.
LEMMA OneToOne ==
    ASSUME NEW S, NEW T, IsFiniteSet(T), NEW f \in [S -> T],
           \A x, y \in S : f[x] = f[y] => x = y
    PROVE  Cardinality(S) <= Cardinality(T)
<1>1. f \in Injection(S, T)
  BY DEF Injection, IsInjective
<1> QED
  BY <1>1, FS_Injection

\* so the history is bounded by what is offered.
LEMMA ClaimsBounded ==
    ASSUME TypeOK, ClaimsAreOffers
    PROVE  Len(claimed) \in 0 .. Bound
<1> DEFINE S == 1 .. Len(claimed)
           f == [i \in S |-> claimed[i]]
<1>1. Len(claimed) \in Nat /\ \A i \in S : claimed[i] \in Frames
  BY DEF TypeOK
<1>2. f \in [S -> Frames]
  BY <1>1
<1>3. \A i, j \in S : f[i] = f[j] => i = j
  BY DistinctFrames
<1>4. IsFiniteSet(1 .. MaxFrames) /\ Cardinality(1 .. MaxFrames) = MaxFrames
  <2>1. MaxFrames \in Nat
    BY Constants
  <2>2. IF 1 > MaxFrames THEN MaxFrames = 0 ELSE MaxFrames - 1 + 1 = MaxFrames
    BY <2>1
  <2> QED
    BY <2>1, <2>2, FS_Interval
<1>5. IsFiniteSet(Frames) /\ Cardinality(Frames) = Cardinality(Producers) * MaxFrames
  BY <1>4, Constants, FS_Product DEF Frames
<1>6. Cardinality(S) <= Cardinality(Frames)
  <2> HIDE DEF f, S
  <2> QED
    BY <1>2, <1>3, <1>5, OneToOne
<1>7. Cardinality(S) = Len(claimed)
  <2>1. 1 \in Int /\ Len(claimed) \in Int /\ Len(claimed) \in Nat
    BY <1>1
  <2>2. Cardinality(1 .. Len(claimed)) = IF 1 > Len(claimed) THEN 0 ELSE Len(claimed) - 1 + 1
    BY <2>1, FS_Interval
  <2> QED
    BY <2>1, <2>2
<1>8. Cardinality(Producers) * MaxFrames = Bound
  BY Constants DEF Bound
<1> QED
  BY <1>1, <1>5, <1>6, <1>7, <1>8, Constants

\* How far the two dispensers and the frontier have come.
LEMMA Ranges ==
    ASSUME IInv
    PROVE  /\ Len(claimed) \in 0 .. Bound /\ Len(claimed) \in Counts
           /\ enqueueTicket \in Lane /\ enqueueTicket = LaneOf(Len(claimed))
           /\ Count(enqueueTicket) = Len(claimed)
           /\ dequeueTicket \in Lane /\ dequeueTicket = LaneOf(Dequeued)
           /\ Dequeued \in 0 .. Bound + Crowd /\ Dequeued \in Counts
           /\ frontier \in Lane /\ Count(frontier) \in 0 .. Len(claimed)
           /\ Count(frontier) \in Counts
<1>1. Len(claimed) \in 0 .. Bound
  BY ClaimsBounded DEF IInv
<1>2. enqueueTicket \in Lane /\ dequeueTicket \in Lane /\ frontier \in Lane
  BY DEF IInv, TypeOK
<1>3. enqueueTicket = LaneOf(Len(claimed)) /\ Count(frontier) \in 0 .. Len(claimed)
  BY DEF IInv, TicketsFollowHistory
<1>4. \A n \in 0 .. Bound : n \in Counts
  BY Constants DEF Counts
<1>5. Count(enqueueTicket) = Len(claimed)
  BY <1>1, <1>3, <1>4, CountOf
<1>6. dequeueTicket = LaneOf(Dequeued) /\ Dequeued \in Nat
  BY <1>2, CountType DEF Dequeued, IInv, ClaimsAreFew
<1>7. Dequeued <= Len(claimed) + Crowd
  <2>1. CASE Dequeued < Len(claimed)
    BY <1>1, <1>6, <2>1, Constants
  <2>2. CASE Dequeued >= Len(claimed)
    <3>1. Dequeued - Len(claimed) + Cardinality(Armed(Len(claimed))) <= Crowd
      BY <1>1, <1>6, <2>2 DEF IInv, ClaimsAreFew
    <3>2. Cardinality(Armed(Len(claimed))) \in Nat
      <4>1. Armed(Len(claimed)) \subseteq Consumers
        BY DEF Armed
      <4> QED
        BY <4>1, Constants, FS_Subset, FS_CardinalityType
    <3> QED
      BY <1>1, <1>6, <3>1, <3>2, Constants
  <2> QED
    BY <1>1, <1>6, <2>1, <2>2
<1>8. Dequeued \in 0 .. Bound + Crowd
  BY <1>1, <1>6, <1>7, Constants
<1>9. \A n \in 0 .. Bound + Crowd : n \in Counts
  BY Constants DEF Counts
<1>10. Count(frontier) \in 0 .. Bound
  <2>1. \A n \in 0 .. Len(claimed) : n \in 0 .. Bound
    BY <1>1, Constants
  <2> QED
    BY <1>3, <2>1
<1> QED
  BY <1>1, <1>2, <1>3, <1>4, <1>5, <1>6, <1>8, <1>9, <1>10

\* A ticket that is done was dequeued.
LEMMA DoneIsDequeued ==
    ASSUME IInv, NEW t \in Nat, t < Len(claimed), Done(t)
    PROVE  t < Dequeued
<1>1. PICK c \in Consumers : \E i \in 1 .. Len(got[c]) : got[c][i] = claimed[t + 1]
  BY DoneIs DEF IInv, Handed
<1>2. PICK i \in 1 .. Len(got[c]) : got[c][i] = claimed[t + 1]
  BY <1>1
<1>3. PICK u \in 0 .. Len(claimed) - 1 : got[c][i] = claimed[u + 1] /\ u < Dequeued
  BY DEF IInv, GotIsClaimed
<1>4. t + 1 \in 1 .. Len(claimed) /\ u + 1 \in 1 .. Len(claimed)
  BY Ranges
<1>5. t + 1 = u + 1
  BY <1>2, <1>3, <1>4, DistinctFrames DEF IInv
<1> QED
  BY <1>3, <1>5

\* The tickets under way are of one ring,
LEMMA Window ==
    ASSUME IInv, NEW t \in Int, t < Len(claimed), ~Done(t)
    PROVE  t \in 0 .. Bound /\ t \in Counts /\ t >= Len(claimed) - Capacity
<1>1. Len(claimed) \in 0 .. Bound /\ t >= 0
  BY Ranges DEF Done
<1>2. t >= Len(claimed) - Capacity
  <2>1. Passed(Len(claimed) - Capacity)
    BY DEF IInv, TicketsFollowHistory
  <2> QED
    BY <1>1, <2>1, Constants DEF Passed
<1>3. t \in 0 .. Bound
  BY <1>1, Constants
<1> QED
  BY <1>2, <1>3, Constants DEF Counts

\* so they have slots of their own.
LEMMA OneSlotEach ==
    ASSUME IInv, NEW t \in Int, NEW u \in Int, t < Len(claimed), u < Len(claimed),
           ~Done(t), ~Done(u), t # u
    PROVE  Slot(LaneOf(t)) # Slot(LaneOf(u))
<1>1. /\ t \in Counts /\ t >= Len(claimed) - Capacity
      /\ u \in Counts /\ u >= Len(claimed) - Capacity
  BY Window
<1>2. ~(t - u >= Capacity) /\ ~(u - t >= Capacity)
  BY <1>1, Ranges, Constants
<1> QED
  BY <1>1, <1>2, SameSlot

\* The stamp of a ticket's slot.
LEMMA StampType ==
    ASSUME TypeOK, NEW t \in Counts
    PROVE  /\ Slot(LaneOf(t)) \in Slots
           /\ gen[Slot(LaneOf(t))] \in Lane
           /\ gen[Slot(LaneOf(t))] = LaneOf(StampAt(t))
<1>1. Slot(LaneOf(t)) \in Slots
  BY CountOf, SlotType
<1>2. gen[Slot(LaneOf(t))] \in Lane
  BY <1>1 DEF TypeOK
<1> QED
  BY <1>1, <1>2, CountType DEF StampAt

\* A producer with a ticket.
LEMMA WriterHas ==
    ASSUME IInv, NEW p \in Producers, Writing(p)
    PROVE  /\ AtTicket(p) \in Int /\ AtTicket(p) >= 0 /\ AtTicket(p) < Len(claimed)
           /\ ~Done(AtTicket(p)) /\ AtTicket(p) \in Counts
           /\ at[p] \in Lane /\ at[p] = LaneOf(AtTicket(p)) /\ Slot(at[p]) \in Slots
           /\ claimed[AtTicket(p) + 1] = <<p, offered[p]>>
           /\ gen[Slot(at[p])] = at[p] /\ StampAt(AtTicket(p)) = AtTicket(p)
<1>1. WriterHolds(p)
  BY DEF IInv, WritersHold
<1>2. AtTicket(p) \in 0 .. Len(claimed) - 1
  BY <1>1 DEF WriterHolds
<1>3. AtTicket(p) \in Int /\ AtTicket(p) >= 0 /\ AtTicket(p) < Len(claimed)
  BY <1>2, Ranges
<1>4. at[p] \in Lane
  BY DEF IInv, TypeOK
<1>5. at[p] = LaneOf(AtTicket(p)) /\ Slot(at[p]) \in Slots
  BY <1>4, CountType, SlotType DEF AtTicket
<1>6. AtTicket(p) \in Counts
  BY <1>1, <1>3, Window DEF WriterHolds
<1> QED
  BY <1>1, <1>3, <1>4, <1>5, <1>6 DEF WriterHolds, StampAt, AtTicket

\* A consumer with a claim, and one that has found its frame.
LEMMA HolderHas ==
    ASSUME IInv, NEW c \in Consumers, hasHeld[c]
    PROVE  /\ HeldTicket(c) \in Int /\ HeldTicket(c) >= 0 /\ HeldTicket(c) < Dequeued
           /\ ~Done(HeldTicket(c)) /\ HeldTicket(c) \in Counts
           /\ held[c] \in Lane /\ held[c] = LaneOf(HeldTicket(c)) /\ Slot(held[c]) \in Slots
<1>1. ConsumerHolds(c)
  BY DEF IInv, ConsumersHold
<1>2. HeldTicket(c) \in 0 .. Dequeued - 1 /\ Dequeued \in 0 .. Bound + Crowd
  BY <1>1, Ranges DEF ConsumerHolds
<1>3. HeldTicket(c) \in Int /\ HeldTicket(c) >= 0 /\ HeldTicket(c) < Dequeued
  BY <1>2, Constants
<1>4. held[c] \in Lane
  BY DEF IInv, TypeOK
<1>5. held[c] = LaneOf(HeldTicket(c)) /\ Slot(held[c]) \in Slots
  BY <1>4, CountType, SlotType DEF HeldTicket
<1>6. HeldTicket(c) \in Counts
  BY <1>2, <1>3, Constants DEF Counts
<1> QED
  BY <1>1, <1>3, <1>4, <1>5, <1>6 DEF ConsumerHolds

LEMMA ReaderHas ==
    ASSUME IInv, NEW c \in Consumers, Reading(c)
    PROVE  /\ hasHeld[c] /\ HeldTicket(c) < Len(claimed)
           /\ gen[Slot(held[c])] = Inc(held[c])
           /\ StampAt(HeldTicket(c)) = HeldTicket(c) + 1
           /\ HeldTicket(c) + 1 \in Counts /\ Inc(held[c]) \in Lane
<1>1. hasHeld[c] /\ HeldTicket(c) < Len(claimed) /\ gen[Slot(held[c])] = Inc(held[c])
  BY DEF IInv, ConsumersHold, Reading, Peeking
<1>2. /\ HeldTicket(c) \in Int /\ HeldTicket(c) >= 0 /\ HeldTicket(c) \in Counts
      /\ held[c] \in Lane /\ held[c] = LaneOf(HeldTicket(c))
  BY <1>1, HolderHas
<1>3. HeldTicket(c) + 1 \in Counts
  <2>1. Len(claimed) \in 0 .. Bound
    BY Ranges
  <2>2. \A n \in Int : n >= 0 /\ n < Len(claimed) => n + 1 \in Counts
    BY <2>1, Constants DEF Counts
  <2> QED
    BY <1>1, <1>2, <2>2
<1>4. Inc(held[c]) \in Lane /\ Count(Inc(held[c])) = HeldTicket(c) + 1
  BY <1>2, <1>3, CountInc DEF HeldTicket
<1> QED
  BY <1>1, <1>2, <1>3, <1>4 DEF StampAt

-------------------------------------------------------------------------------
(* The initial states *)

\* Every ticket's slot is stamped free for the next ticket it will serve.
LEMMA InitStamps ==
    ASSUME Init, NEW t \in 0 - Capacity .. Bound + Crowd
    PROVE  StampAt(t) \in 0 .. Capacity - 1 /\ (t >= 0 => StampAt(t) <= t)
           /\ (t < 0 => StampAt(t) = t + Capacity)
<1>1. ASSUME NEW k \in Slots
      PROVE  StampAt(k) = k /\ Slot(LaneOf(k)) = Slot(Seed + k)
  <2>1. k \in Counts /\ k \in Nat /\ Seed \in 0 .. Half - 1 /\ Seed + k \in Nat
        /\ Seed + k < Modulus /\ ~(Seed + k < 0)
    BY Constants, WorkQueueAssumption DEF Slots, Counts
  <2>2. LaneOf(k) = Seed + k
    BY <2>1 DEF LaneOf, LaneAt
  <2>3. (Seed + k) % Modulus = Seed + k
    <3>1. Seed + k \in 0 .. Modulus - 1 /\ Seed + k = Modulus * 0 + (Seed + k)
      BY <2>1, Constants
    <3> QED
      BY <2>1, <3>1, ModIs
  <2>4. gen[Slot(LaneOf(k))] = LaneOf(k)
    BY <2>2, <2>3 DEF Init, Add
  <2> QED
    BY <2>1, <2>2, <2>4, CountOf DEF StampAt
<1>2. CASE t < 0
  <2>1. t \in Counts /\ t + Capacity \in Counts /\ t + Capacity \in Slots
    BY <1>2, Constants DEF Counts, Slots
  <2>2. StampAt(t) = StampAt(t + Capacity)
    BY <2>1, LapIsSlot DEF StampAt
  <2>3. StampAt(t) = t + Capacity
    BY <1>1, <2>1, <2>2
  <2> QED
    BY <1>2, <2>1, <2>3, Constants DEF Slots
<1>3. CASE t >= 0
  <2>1. t \in Nat /\ t \in Counts /\ 0 - Half < t /\ t < Half /\ Seed \in Lane /\ t \in Int
    BY <1>3, Constants DEF Counts
  <2>2. PICK q \in Nat : t = Capacity * q + Slot(t) /\ Slot(t) \in Slots
    BY <2>1, SlotDivision
  <2> DEFINE k == Slot(t)
  <2>3. k \in Slots /\ k \in 0 .. Capacity - 1 /\ t = Capacity * q + k
    BY <2>2 DEF Slots
  <2> HIDE DEF k
  <2>4. Slot(LaneOf(t)) = Slot(Seed + k)
    <3>1. Slot(LaneOf(t)) = Slot(Seed + t + Modulus)
      BY <2>1, LaneAtSlot DEF LaneOf
    <3>2. Seed + t \in Nat /\ Seed + k \in Nat /\ Capacity * q \in Nat
          /\ Seed + t = (Seed + k) + Capacity * q
      <4>1. Capacity * q \in Nat /\ Seed \in Nat /\ k \in Nat
        BY <2>3, Constants DEF Lane
      <4> QED
        BY <2>1, <2>3, <4>1
    <3>3. Slot(Seed + t + Modulus) = Slot(Seed + t)
      BY <3>2, WrapKeepsSlot
    <3>4. Slot((Seed + k) + Capacity * q) = Slot(Seed + k)
      BY <3>2, RingsKeepSlot
    <3> QED
      BY <3>1, <3>2, <3>3, <3>4
  <2>5. StampAt(t) = k
    BY <1>1, <2>3, <2>4 DEF StampAt
  <2>6. k <= t
    <3>1. Capacity * q \in Nat
      BY Constants
    <3> QED
      BY <2>1, <2>3, <3>1
  <2> QED
    BY <1>3, <2>3, <2>5, <2>6
<1> QED
  BY <1>2, <1>3, Constants

LEMMA InitIInv == Init => IInv
<1> SUFFICES ASSUME Init PROVE IInv
  OBVIOUS
<1>1. Seed \in Lane /\ Count(Seed) = 0 /\ Seed = LaneOf(0) /\ Len(claimed) = 0
  <2>1. Seed = LaneOf(0) /\ 0 \in Counts
    BY Constants DEF LaneOf, LaneAt, Lane, Counts
  <2> QED
    BY <2>1, CountOf, Constants DEF Init
<1>2. TypeOK
  <2>1. claimed \in Seq(Frames) /\ got \in [Consumers -> Seq(Frames)]
    BY DEF Init
  <2>2. gen \in [Slots -> Lane] /\ data \in [Slots -> Frames \cup {Nothing}]
    BY DEF Init
  <2>3. /\ enqueueTicket \in Lane /\ dequeueTicket \in Lane /\ frontier \in Lane
        /\ closed \in BOOLEAN /\ dropped \in Nat /\ stranded \in Nat /\ tornGuarded \in Nat
    BY <1>1 DEF Init
  <2>4. /\ ppc \in [Producers -> {"idle"}]
        /\ offered \in [Producers -> 0 .. MaxFrames]
        /\ at \in [Producers -> Lane] /\ scanned \in [Producers -> 0 .. Capacity]
    BY <1>1, Constants DEF Init
  <2>5. /\ cpc \in [Consumers -> {"idle"}] /\ cR \in [Consumers -> Lane]
        /\ held \in [Consumers -> Lane] /\ hasHeld \in [Consumers -> BOOLEAN]
        /\ out \in [Consumers -> Frames \cup {Nothing}]
    BY <1>1 DEF Init
  <2> QED
    BY <2>1, <2>2, <2>3, <2>4, <2>5 DEF TypeOK
<1>3. ClaimsAreOffers /\ LoadsFollowClaims /\ PastTheLineOnce /\ WritersHold
  BY <1>1 DEF Init, ClaimsAreOffers, LoadsFollowClaims, PastTheLineOnce, WritersHold,
     Trying, Scanning, Loaded, Writing
<1>4. TicketsFollowHistory
  BY <1>1, Constants DEF Init, TicketsFollowHistory, Passed, Scanning
<1>5. StampsFollowHistory
  <2>1. ASSUME NEW t \in 0 - Capacity .. Bound + Crowd
        PROVE  Stamped(t)
    <3>1. Done(t) => t < 0
      BY <1>1, Constants DEF Done
    <3>2. StampAt(t) \in 0 .. Capacity - 1 /\ (t >= 0 => StampAt(t) <= t)
          /\ (t < 0 => StampAt(t) = t + Capacity)
      BY InitStamps
    <3>3. /\ ~(t \in 0 .. Len(claimed) - 1)
          /\ t >= Len(claimed) => t >= 0
      BY <1>1
    <3>4. t \in Int
      BY Constants
    <3>5. StampAt(t) \in 0 .. Bound + Capacity
      <4>1. \A n \in 0 .. Capacity - 1 : n \in 0 .. Bound + Capacity
        BY Constants
      <4> QED
        BY <3>2, <4>1
    <3>6. Done(t) => StampAt(t) >= t + Capacity
      <4>1. t + Capacity \in Int /\ t + Capacity >= t + Capacity
        BY <3>4, Constants
      <4> QED
        BY <3>1, <3>2, <4>1
    <3> QED
      BY <3>2, <3>3, <3>5, <3>6 DEF Stamped
  <2> QED
    BY <2>1 DEF StampsFollowHistory
<1>6. ConsumersHold /\ GotIsClaimed
  BY DEF Init, ConsumersHold, GotIsClaimed, Reading, Peeking
<1>7. ClaimsAreFew
  <2>1. Dequeued = 0
    BY <1>1 DEF Init, Dequeued
  <2>2. Cardinality(Armed(0)) = 0
    <3>1. Armed(0) = {}
      BY DEF Init, Armed, Peeking
    <3> QED
      BY <3>1, FS_EmptySet
  <2>3. \A c \in Consumers : cpc[c] \notin Peeking
    BY DEF Init, Peeking
  <2>4. \A n \in Len(claimed) .. Dequeued : n = 0
    BY <1>1, <2>1
  <2> QED
    BY <2>1, <2>2, <2>3, <2>4, Constants DEF ClaimsAreFew
<1> QED
  BY <1>2, <1>3, <1>4, <1>5, <1>6, <1>7 DEF IInv

-------------------------------------------------------------------------------
(* A producer's steps before it has a ticket *)

LEMMA HistoryStays ==
    ASSUME UNCHANGED <<claimed, got>>
    PROVE  /\ \A t : Done(t)' <=> Done(t)
           /\ \A n : Passed(n)' <=> Passed(n)
  BY DEF Done, Delivered, Passed

LEMMA PassedBelow ==
    ASSUME NEW n \in Int, NEW m \in Int, n <= m, Passed(m)
    PROVE  Passed(n)
<1>1. \A t \in 0 .. n - 1 : t \in 0 .. m - 1
  OBVIOUS
<1> QED
  BY <1>1 DEF Passed

\* What such a step of p leaves alone, ...
QuietPush(p) ==
    /\ UNCHANGED <<enqueueTicket, dequeueTicket, closed, slots, stranded, tornGuarded,
                   consumerVars, claimed, got>>
    /\ \A q \in Producers \ {p} :
           ppc'[q] = ppc[q] /\ at'[q] = at[q] /\ offered'[q] = offered[q]
    /\ ~Writing(p) /\ ppc'[p] \notin {"write", "publish"}

\* ... what it offers, and where it has come to.
OffersOnce(p) ==
    \/ offered'[p] = offered[p] /\ (ppc'[p] \in Trying => ppc[p] \in Trying)
    \/ offered'[p] = offered[p] + 1

ComesTo(p, x) ==
    /\ ppc'[p] \in Scanning => Count(x) \in 0 .. Len(claimed) /\ Passed(Count(x))
    /\ ppc'[p] \in Loaded =>
           /\ Count(x) \in 0 .. Len(claimed)
           /\ \A i \in Count(x) + 1 .. Len(claimed) : claimed[i][1] # p
           /\ ppc'[p] = "claim" => Passed(Count(x) + 1 - Room)

LEMMA OffersKeep ==
    ASSUME IInv, NEW p \in Producers, QuietPush(p), OffersOnce(p), TypeOK'
    PROVE  ClaimsAreOffers'
<1>1. claimed' = claimed /\ \A i \in 1 .. Len(claimed) : claimed[i] \in Frames
  BY DEF QuietPush, IInv, TypeOK
<1>2. \A i \in 1 .. Len(claimed) : claimed[i][2] \in Nat /\ claimed[i][1] \in Producers
  BY <1>1 DEF Frames
<1>3. \A q \in Producers : offered[q] \in Nat /\ offered'[q] \in Nat
  BY Constants DEF IInv, TypeOK
<1>4. \A q \in Producers : offered'[q] >= offered[q]
  <2>1. offered'[p] >= offered[p]
    BY <1>3 DEF OffersOnce
  <2>2. \A q \in Producers \ {p} : offered'[q] = offered[q]
    BY DEF QuietPush
  <2> QED
    BY <1>3, <2>1, <2>2
<1>5. ASSUME NEW i \in 1 .. Len(claimed)
      PROVE  claimed[i][2] <= offered'[claimed[i][1]]
  <2>1. claimed[i][2] <= offered[claimed[i][1]]
    BY DEF IInv, ClaimsAreOffers
  <2> QED
    BY <1>2, <1>3, <1>4, <2>1
<1>6. ASSUME NEW q \in Producers, ppc'[q] \in Trying
      PROVE  /\ offered'[q] >= 1
             /\ \A i \in 1 .. Len(claimed) : claimed[i][1] = q => claimed[i][2] < offered'[q]
  <2>1. CASE ppc[q] \in Trying /\ offered'[q] = offered[q]
    BY <2>1 DEF IInv, ClaimsAreOffers
  <2>2. CASE q = p /\ offered'[p] = offered[p] + 1
    <3>1. offered'[q] >= 1
      BY <1>3, <2>2
    <3>2. ASSUME NEW i \in 1 .. Len(claimed), claimed[i][1] = q
          PROVE  claimed[i][2] < offered'[q]
      <4>1. claimed[i][2] <= offered[p]
        BY <2>2, <3>2 DEF IInv, ClaimsAreOffers
      <4> QED
        BY <1>2, <1>3, <2>2, <4>1
    <3> QED
      BY <3>1, <3>2
  <2> QED
    BY <1>6, <2>1, <2>2 DEF QuietPush, OffersOnce
<1>7. \A i, j \in 1 .. Len(claimed) :
          i < j /\ claimed[i][1] = claimed[j][1] => claimed[i][2] < claimed[j][2]
  BY DEF IInv, ClaimsAreOffers
<1> QED
  BY <1>1, <1>5, <1>6, <1>7 DEF ClaimsAreOffers

LEMMA QuietPushKeeps ==
    ASSUME IInv, NEW p \in Producers, QuietPush(p), OffersOnce(p), ComesTo(p, at'[p]),
           Count(frontier') \in 0 .. Len(claimed), Passed(Count(frontier')), TypeOK'
    PROVE  IInv'
<1>1. /\ enqueueTicket' = enqueueTicket /\ dequeueTicket' = dequeueTicket
      /\ gen' = gen /\ data' = data /\ tornGuarded' = tornGuarded
      /\ claimed' = claimed /\ got' = got
      /\ cpc' = cpc /\ cR' = cR /\ hasHeld' = hasHeld /\ held' = held /\ out' = out
  BY DEF QuietPush
<1>2. /\ \A t : Done(t)' <=> Done(t)
      /\ \A n : Passed(n)' <=> Passed(n)
  BY <1>1, HistoryStays
<1>3. \A q \in Producers \ {p} :
          ppc'[q] = ppc[q] /\ at'[q] = at[q] /\ offered'[q] = offered[q]
  BY DEF QuietPush
<1> DEFINE StillPassed(n) == \A t \in 0 .. n - 1 : Done(t)'
<1>11. \A n : Passed(n) => StillPassed(n)
  BY <1>2 DEF Passed
<1> HIDE DEF StillPassed
<1>4. ClaimsAreOffers'
  BY OffersKeep
<1>5. TicketsFollowHistory'
  <2>1. ASSUME NEW q \in Producers, ppc'[q] \in Scanning
        PROVE  Count(at'[q]) \in 0 .. Len(claimed) /\ Passed(Count(at'[q]))
    <3>1. CASE q = p
      BY <2>1, <3>1 DEF ComesTo
    <3>2. CASE q # p
      BY <1>3, <2>1, <3>2 DEF IInv, TicketsFollowHistory, AtTicket
    <3> QED
      BY <3>1, <3>2
  <2>2. Passed(Len(claimed) - Capacity) /\ enqueueTicket = LaneOf(Len(claimed))
        /\ tornGuarded = 0
    BY DEF IInv, TicketsFollowHistory
  <2>3. StillPassed(Len(claimed) - Capacity) /\ StillPassed(Count(frontier'))
        /\ \A q \in Producers : ppc'[q] \in Scanning => StillPassed(Count(at'[q]))
    BY <1>11, <2>1, <2>2
  <2> QED
    BY <1>1, <2>1, <2>2, <2>3 DEF StillPassed, TicketsFollowHistory, Passed, AtTicket
<1>6. LoadsFollowClaims'
  <2>1. ASSUME NEW q \in Producers, ppc'[q] \in Loaded
        PROVE  /\ Count(at'[q]) \in 0 .. Len(claimed)
               /\ \A i \in Count(at'[q]) + 1 .. Len(claimed) : claimed[i][1] # q
               /\ ppc'[q] = "claim" => StillPassed(Count(at'[q]) + 1 - Room)
    <3>1. CASE q = p
      BY <1>11, <2>1, <3>1 DEF ComesTo
    <3>2. CASE q # p
      BY <1>11, <1>3, <2>1, <3>2 DEF IInv, LoadsFollowClaims, AtTicket
    <3> QED
      BY <3>1, <3>2
  <2> QED
    BY <1>1, <2>1 DEF StillPassed, LoadsFollowClaims, AtTicket, Passed, Room, Slack
<1>7. PastTheLineOnce'
  <2>1. \A i, j \in 1 .. Len(claimed) :
            i < j /\ claimed[i][1] = claimed[j][1] => Passed(i + 1 - Room)'
    BY <1>2 DEF IInv, PastTheLineOnce
  <2> QED
    BY <1>1, <2>1 DEF PastTheLineOnce
<1>8. WritersHold'
  <2>1. ASSUME NEW q \in Producers, ppc'[q] \in {"write", "publish"}
        PROVE  q # p /\ WriterHolds(q)'
    <3>1. q # p
      BY <2>1 DEF QuietPush
    <3>2. WriterHolds(q) /\ ppc'[q] = ppc[q] /\ at'[q] = at[q] /\ offered'[q] = offered[q]
      BY <1>3, <2>1, <3>1 DEF IInv, WritersHold, Writing
    <3> QED
      BY <1>1, <3>1, <3>2 DEF WriterHolds, AtTicket, Done, Delivered
  <2> QED
    BY <2>1 DEF WritersHold, Writing
<1>9. StampsFollowHistory'
  <2>1. ASSUME NEW t \in 0 - Capacity .. Bound + Crowd
        PROVE  Stamped(t)'
    BY <1>1, <1>2 DEF IInv, StampsFollowHistory, Stamped, StampAt
  <2> QED
    BY <2>1 DEF StampsFollowHistory
<1>10. ConsumersHold' /\ GotIsClaimed' /\ ClaimsAreFew'
  <2>1. ASSUME NEW c \in Consumers, hasHeld[c]
        PROVE  ConsumerHolds(c)'
    <3>1. ConsumerHolds(c)
      BY <2>1 DEF IInv, ConsumersHold
    <3> QED
      BY <1>1, <3>1 DEF ConsumerHolds, HeldTicket, Dequeued, Done, Delivered
  <2>2. ConsumersHold'
    BY <1>1, <2>1 DEF IInv, ConsumersHold, Reading, HeldTicket
  <2> QED
    BY <1>1, <2>2 DEF IInv, GotIsClaimed, ClaimsAreFew, Armed, PeekedAt, Dequeued, HeldTicket
<1> QED
  BY <1>4, <1>5, <1>6, <1>7, <1>8, <1>9, <1>10 DEF IInv

LEMMA StartPushKeeps ==
    ASSUME IInv, NEW p \in Producers, StartPush(p)
    PROVE  IInv'
<1>1. /\ ppc[p] = "idle" /\ offered[p] \in 0 .. MaxFrames - 1
      /\ offered' = [offered EXCEPT ![p] = @ + 1] /\ at' = [at EXCEPT ![p] = frontier]
      /\ ppc' = [ppc EXCEPT ![p] = "scan"]
      /\ UNCHANGED <<lanes, slots, counters, scanned, consumerVars, claimed, got>>
  BY Constants DEF StartPush, After, IInv, TypeOK
<1>2. TypeOK'
  <2>1. offered[p] + 1 \in 0 .. MaxFrames
    BY <1>1, Constants
  <2> QED
    BY <1>1, <2>1 DEF IInv, TypeOK
<1>3. ppc'[p] = "scan" /\ at'[p] = frontier /\ offered'[p] = offered[p] + 1
  BY <1>1 DEF IInv, TypeOK
<1>4. QuietPush(p) /\ OffersOnce(p)
  BY <1>1, <1>3 DEF QuietPush, OffersOnce, Writing, IInv, TypeOK
<1>5. Count(frontier') \in 0 .. Len(claimed) /\ Passed(Count(frontier'))
  BY <1>1 DEF IInv, TicketsFollowHistory
<1>6. ComesTo(p, at'[p])
  BY <1>1, <1>3, <1>5 DEF ComesTo, Loaded
<1> QED
  BY <1>2, <1>4, <1>5, <1>6, QuietPushKeeps

\* A slot that its consumer has freed for the next lap is a done ticket's.
LEMMA FreedIsDone ==
    ASSUME IInv, NEW p \in Producers, ppc[p] = "scan", Freed(at[p])
    PROVE  AtTicket(p) + 1 \in 0 .. Len(claimed) /\ Passed(AtTicket(p) + 1)
           /\ Inc(at[p]) \in Lane /\ Count(Inc(at[p])) = AtTicket(p) + 1
<1> DEFINE a == AtTicket(p)
           g == gen[Slot(at[p])]
<1>1. a \in 0 .. Len(claimed) /\ Passed(a) /\ at[p] \in Lane
  BY DEF IInv, TypeOK, TicketsFollowHistory, Scanning
<1>2. a = Count(at[p]) /\ at[p] = LaneOf(a) /\ g = gen[Slot(at[p])]
  BY <1>1, CountType DEF AtTicket
<1>3. StampAt(a) = Count(g)
  BY <1>2 DEF StampAt
<1> HIDE DEF a, g
<1>4. /\ Len(claimed) \in 0 .. Bound /\ a \in 0 .. Bound /\ a \in Counts
      /\ a + Capacity \in Counts /\ a + 1 \in Counts /\ a \in 0 - Capacity .. Bound + Crowd
  <2>1. Len(claimed) \in 0 .. Bound
    BY Ranges
  <2>2. \A n \in 0 .. Len(claimed) : n \in 0 .. Bound
    BY <2>1, Constants
  <2>3. \A n \in 0 .. Bound :
            /\ n \in Counts /\ n + Capacity \in Counts /\ n + 1 \in Counts
            /\ n \in 0 - Capacity .. Bound + Crowd
    BY Constants DEF Counts
  <2> QED
    BY <1>1, <2>1, <2>2, <2>3
<1>5. Add(at[p], Capacity) \in Lane /\ Count(Add(at[p], Capacity)) = a + Capacity
      /\ Inc(at[p]) \in Lane /\ Count(Inc(at[p])) = a + 1
  BY <1>1, <1>2, <1>4, CountAdd, CountInc
<1>6. g \in Lane
  BY <1>2, <1>4, StampType DEF IInv
<1>7. Stamped(a)
  BY <1>4 DEF IInv, StampsFollowHistory
<1>8. Count(g) \in 0 .. Bound + Capacity /\ Count(g) \in Counts
  <2>1. Count(g) \in 0 .. Bound + Capacity
    BY <1>3, <1>7 DEF Stamped
  <2> QED
    BY <2>1, Constants DEF Counts
<1>9. Count(g) >= a + Capacity
  <2>1. SignedDiff(g, Add(at[p], Capacity)) = Count(g) - (a + Capacity)
    BY <1>4, <1>5, <1>6, <1>8, CountDiff
  <2>2. SignedDiff(g, Add(at[p], Capacity)) >= 0
    BY <1>2 DEF Freed
  <2> QED
    BY <1>4, <1>8, <2>1, <2>2, Constants
<1>10. a < Len(claimed)
  <2>0. Count(g) \in Nat /\ Len(claimed) \in Nat
    <3>1. \A i, j \in Int : i \in 0 .. j => i \in Nat
      OBVIOUS
    <3>2. Bound \in Int /\ Bound + Capacity \in Int
      BY Constants
    <3> QED
      BY <1>4, <1>8, <3>1, <3>2
  <2>1. PICK y \in Nat, N \in Nat : y = Count(g) /\ N = Len(claimed)
    BY <2>0
  <2>2. a \in Nat /\ Capacity \in Nat /\ Capacity >= 2 /\ y >= a + Capacity
    BY <1>4, <1>9, <2>1, Constants
  <2>3. a >= N => y <= a
    BY <1>3, <1>7, <2>1 DEF Stamped
  <2>4. a < N
    BY <2>1, <2>2, <2>3
  <2> QED
    BY <2>1, <2>4
<1>11. Done(a)
  <2>1. SUFFICES ASSUME ~Done(a) PROVE FALSE
    OBVIOUS
  <2>2. a \in 0 .. Len(claimed) - 1
    BY <1>4, <1>10
  <2>3. Count(g) = a \/ Count(g) = a + 1
    BY <1>3, <1>7, <2>1, <2>2 DEF Stamped
  <2> QED
    BY <1>4, <1>9, <2>3, Constants
<1>12. Passed(a + 1)
  <2>1. \A t \in 0 .. a + 1 - 1 : t \in 0 .. a - 1 \/ t = a
    BY <1>4
  <2> QED
    BY <1>1, <1>11, <2>1 DEF Passed
<1> QED
  BY <1>4, <1>5, <1>10, <1>12 DEF a

LEMMA ScanKeeps ==
    ASSUME IInv, NEW p \in Producers, Scan(p)
    PROVE  IInv'
<1>1. /\ ppc[p] = "scan" /\ offered' = offered
      /\ UNCHANGED <<lanes, slots, counters, consumerVars, claimed, got>>
      /\ \/ /\ scanned[p] < Capacity /\ Freed(at[p]) /\ at' = [at EXCEPT ![p] = Inc(@)]
            /\ scanned' = [scanned EXCEPT ![p] = @ + 1] /\ ppc' = ppc
         \/ /\ scanned' = [scanned EXCEPT ![p] = 0] /\ at' = at
            /\ \/ ppc' = [ppc EXCEPT ![p] = "loadTicket"]
               \/ ppc' = [ppc EXCEPT ![p] = "compare"]
  BY DEF Scan, After
<1>2. Count(frontier') \in 0 .. Len(claimed) /\ Passed(Count(frontier'))
  BY <1>1 DEF IInv, TicketsFollowHistory
<1>3. ppc[p] \in Trying /\ ~Writing(p) /\ ppc[p] \in Scanning
  BY <1>1 DEF Trying, Scanning, Writing
<1>4. CASE /\ scanned[p] < Capacity /\ Freed(at[p]) /\ at' = [at EXCEPT ![p] = Inc(@)]
           /\ scanned' = [scanned EXCEPT ![p] = @ + 1] /\ ppc' = ppc
  <2>1. /\ AtTicket(p) + 1 \in 0 .. Len(claimed) /\ Passed(AtTicket(p) + 1)
        /\ Inc(at[p]) \in Lane /\ Count(Inc(at[p])) = AtTicket(p) + 1
    BY <1>1, <1>4, FreedIsDone
  <2>2. TypeOK'
    <3>1. scanned[p] + 1 \in 0 .. Capacity
      BY <1>4, Constants DEF IInv, TypeOK
    <3> QED
      BY <1>1, <1>4, <2>1, <3>1 DEF IInv, TypeOK
  <2>3. at'[p] = Inc(at[p]) /\ ppc'[p] = "scan"
    BY <1>1, <1>4 DEF IInv, TypeOK
  <2>4. QuietPush(p) /\ OffersOnce(p)
    BY <1>1, <1>3, <1>4, <2>3 DEF QuietPush, OffersOnce, IInv, TypeOK
  <2>5. ComesTo(p, at'[p])
    BY <2>1, <2>3 DEF ComesTo, Loaded
  <2> QED
    BY <1>2, <2>2, <2>4, <2>5, QuietPushKeeps
<1>5. CASE /\ scanned' = [scanned EXCEPT ![p] = 0] /\ at' = at
           /\ \/ ppc' = [ppc EXCEPT ![p] = "loadTicket"]
              \/ ppc' = [ppc EXCEPT ![p] = "compare"]
  <2>1. TypeOK'
    <3>1. scanned' \in [Producers -> 0 .. Capacity]
      BY <1>5, Constants DEF IInv, TypeOK
    <3>2. ppc' \in [Producers -> {"idle", "scan", "compare", "storeFrontier",
                    "loadTicket", "check", "claim", "write", "publish"}]
      BY <1>5 DEF IInv, TypeOK
    <3> QED
      BY <1>1, <1>5, <3>1, <3>2 DEF IInv, TypeOK
  <2>2. ppc'[p] \in {"loadTicket", "compare"} /\ \A q \in Producers \ {p} : ppc'[q] = ppc[q]
    BY <1>5 DEF IInv, TypeOK
  <2>3. QuietPush(p) /\ OffersOnce(p)
    BY <1>1, <1>3, <1>5, <2>2 DEF QuietPush, OffersOnce
  <2>4. ComesTo(p, at'[p])
    BY <1>3, <1>5, <2>2 DEF ComesTo, Loaded, IInv, TicketsFollowHistory, AtTicket
  <2> QED
    BY <1>2, <2>1, <2>3, <2>4, QuietPushKeeps
<1> QED
  BY <1>1, <1>4, <1>5

LEMMA CompareFrontierKeeps ==
    ASSUME IInv, NEW p \in Producers, CompareFrontier(p)
    PROVE  IInv'
<1>1. /\ ppc[p] = "compare"
      /\ \/ ppc' = [ppc EXCEPT ![p] = "storeFrontier"]
         \/ ppc' = [ppc EXCEPT ![p] = "loadTicket"]
      /\ UNCHANGED <<lanes, slots, counters, offered, at, scanned, consumerVars, claimed, got>>
  BY DEF CompareFrontier, After
<1>2. Count(frontier') \in 0 .. Len(claimed) /\ Passed(Count(frontier'))
  BY <1>1 DEF IInv, TicketsFollowHistory
<1>3. TypeOK'
  BY <1>1 DEF IInv, TypeOK
<1>4. /\ ppc'[p] \in {"storeFrontier", "loadTicket"}
      /\ \A q \in Producers \ {p} : ppc'[q] = ppc[q]
  BY <1>1 DEF IInv, TypeOK
<1>5. QuietPush(p) /\ OffersOnce(p)
  BY <1>1, <1>4 DEF QuietPush, OffersOnce, Trying, Scanning, Writing
<1>6. ComesTo(p, at'[p])
  BY <1>1, <1>4 DEF ComesTo, Loaded, Scanning, IInv, TicketsFollowHistory, AtTicket
<1> QED
  BY <1>2, <1>3, <1>5, <1>6, QuietPushKeeps

\* The unguarded store may set the frontier back, to tickets that were passed before.
LEMMA StoreFrontierKeeps ==
    ASSUME IInv, NEW p \in Producers, StoreFrontier(p)
    PROVE  IInv'
<1>1. /\ ppc[p] = "storeFrontier" /\ frontier' = at[p]
      /\ ppc' = [ppc EXCEPT ![p] = "loadTicket"]
      /\ UNCHANGED <<enqueueTicket, dequeueTicket, closed, slots, counters, offered,
                     at, scanned, consumerVars, claimed, got>>
  BY DEF StoreFrontier, After
<1>2. Count(frontier') \in 0 .. Len(claimed) /\ Passed(Count(frontier'))
  BY <1>1 DEF IInv, TicketsFollowHistory, Scanning, AtTicket
<1>3. TypeOK'
  BY <1>1 DEF IInv, TypeOK
<1>4. ppc'[p] = "loadTicket" /\ \A q \in Producers \ {p} : ppc'[q] = ppc[q]
  BY <1>1 DEF IInv, TypeOK
<1>5. QuietPush(p) /\ OffersOnce(p)
  BY <1>1, <1>4 DEF QuietPush, OffersOnce, Trying, Scanning, Writing
<1>6. ComesTo(p, at'[p])
  BY <1>4 DEF ComesTo, Loaded, Scanning
<1> QED
  BY <1>2, <1>3, <1>5, <1>6, QuietPushKeeps

LEMMA LoadTicketKeeps ==
    ASSUME IInv, NEW p \in Producers, LoadTicket(p)
    PROVE  IInv'
<1>1. /\ ppc[p] = "loadTicket" /\ at' = [at EXCEPT ![p] = enqueueTicket]
      /\ ppc' = [ppc EXCEPT ![p] = "check"]
      /\ UNCHANGED <<lanes, slots, counters, offered, scanned, consumerVars, claimed, got>>
  BY DEF LoadTicket, After
<1>2. Count(frontier') \in 0 .. Len(claimed) /\ Passed(Count(frontier'))
  BY <1>1 DEF IInv, TicketsFollowHistory
<1>3. TypeOK'
  BY <1>1 DEF IInv, TypeOK
<1>4. /\ ppc'[p] = "check" /\ at'[p] = enqueueTicket
      /\ \A q \in Producers \ {p} : ppc'[q] = ppc[q] /\ at'[q] = at[q]
  BY <1>1 DEF IInv, TypeOK
<1>5. QuietPush(p) /\ OffersOnce(p)
  BY <1>1, <1>4 DEF QuietPush, OffersOnce, Trying, Writing
<1>6. ComesTo(p, at'[p])
  <2>1. Count(at'[p]) = Len(claimed) /\ Len(claimed) \in Nat
    BY <1>4, Ranges, Constants
  <2> QED
    BY <1>4, <2>1 DEF ComesTo, Scanning
<1> QED
  BY <1>2, <1>3, <1>5, <1>6, QuietPushKeeps

\* The check that passes has found that much room behind its load.
LEMMA CheckEnvelopeKeeps ==
    ASSUME IInv, NEW p \in Producers, CheckEnvelope(p)
    PROVE  IInv'
<1>1. /\ ppc[p] = "check" /\ dropped' \in Nat
      /\ \/ ppc' = [ppc EXCEPT ![p] = "idle"]
         \/ ~AtLimit(at[p]) /\ ppc' = [ppc EXCEPT ![p] = "claim"]
      /\ UNCHANGED <<lanes, slots, stranded, tornGuarded, offered, at, scanned,
                     consumerVars, claimed, got>>
  BY DEF CheckEnvelope, After, IInv, TypeOK
<1>2. Count(frontier') \in 0 .. Len(claimed) /\ Passed(Count(frontier'))
  BY <1>1 DEF IInv, TicketsFollowHistory
<1>3. TypeOK'
  BY <1>1 DEF IInv, TypeOK
<1>4. /\ ppc'[p] \in {"idle", "claim"} /\ (ppc'[p] = "claim" => ~AtLimit(at[p]))
      /\ \A q \in Producers \ {p} : ppc'[q] = ppc[q]
  BY <1>1 DEF IInv, TypeOK
<1>5. QuietPush(p) /\ OffersOnce(p)
  BY <1>1, <1>4 DEF QuietPush, OffersOnce, Trying, Loaded, Writing
<1>6. /\ Count(at[p]) \in 0 .. Len(claimed) /\ at[p] \in Lane
      /\ \A i \in Count(at[p]) + 1 .. Len(claimed) : claimed[i][1] # p
  BY <1>1 DEF IInv, LoadsFollowClaims, Loaded, AtTicket, TypeOK
<1>7. ~AtLimit(at[p]) => Passed(Count(at[p]) + 1 - Room)
  <2>1. PICK a \in Int, f \in Int : a = Count(at[p]) /\ f = Count(frontier)
    BY <1>6, Ranges
  <2>2. a \in Counts /\ f \in Counts /\ frontier \in Lane /\ Passed(f)
    <3>1. Len(claimed) \in 0 .. Bound /\ a \in 0 .. Len(claimed)
      BY <1>6, <2>1, Ranges
    <3>2. Passed(f)
      BY <2>1 DEF IInv, TicketsFollowHistory
    <3> QED
      BY <2>1, <3>1, <3>2, Ranges, Constants DEF Counts
  <2>3. SignedDiff(at[p], frontier) = a - f
    BY <1>6, <2>1, <2>2, CountDiff
  <2>4. ~AtLimit(at[p]) => a + 1 - Room <= f
    BY <2>1, <2>3, Constants DEF AtLimit
  <2>5. a + 1 - Room \in Int
    BY Constants
  <2>6. ~AtLimit(at[p]) => Passed(a + 1 - Room)
    BY <2>2, <2>4, <2>5, PassedBelow
  <2> QED
    BY <2>1, <2>6
<1>8. ComesTo(p, at'[p])
  BY <1>1, <1>4, <1>6, <1>7 DEF ComesTo, Scanning
<1> QED
  BY <1>2, <1>3, <1>5, <1>8, QuietPushKeeps

-------------------------------------------------------------------------------
(* The fetch-add of the enqueue ticket *)

\* A producer about to claim: tickets that saw less room than is left belong to
\* other producers, each to one, so the ring has room for one ticket more.
LEMMA RoomToClaim ==
    ASSUME IInv, ProducersAreCounted, NEW p \in Producers, ppc[p] = "claim"
    PROVE  Passed(Len(claimed) + 1 - Capacity)
<1> SUFFICES ASSUME NEW t \in 0 .. (Len(claimed) + 1 - Capacity) - 1, ~Done(t)
             PROVE  FALSE
  BY DEF Passed
<1>1. PICK N \in Nat, a \in Int :
          /\ N = Len(claimed) /\ a = AtTicket(p) /\ a \in 0 .. N
          /\ Passed(a + 1 - Room) /\ \A i \in a + 1 .. N : claimed[i][1] # p
  <2>1. AtTicket(p) \in 0 .. Len(claimed) /\ Len(claimed) \in Nat
    BY Ranges, Constants DEF IInv, LoadsFollowClaims, Loaded
  <2> QED
    BY <2>1 DEF IInv, LoadsFollowClaims, Loaded
<1>2. t \in Nat /\ t + Capacity <= N
  <2>1. t \in 0 .. (N + 1 - Capacity) - 1
    BY <1>1
  <2>2. Capacity \in Nat
    BY Constants
  <2> QED
    BY <2>1, <2>2
<1> DEFINE S == N - Slack .. N
           T == Producers \ {p}
           f == [i \in S |-> claimed[i][1]]
<1>3. ASSUME NEW n \in Int, t + Room <= n
      PROVE  ~Passed(n + 1 - Room)
  <2>1. t \in 0 .. (n + 1 - Room) - 1
    BY <1>2, <1>3, Constants
  <2> QED
    BY <2>1 DEF Passed
<1>4. a < t + Room
  <2>1. ~(t + Room <= a)
    BY <1>1, <1>3
  <2>2. a \in Int /\ t \in Int /\ Room \in Int
    BY <1>2, Constants
  <2> QED
    BY <2>1, <2>2
<1>5. \A i \in S : i \in Int /\ i \in a + 1 .. N /\ i \in 1 .. N /\ t + Room <= i
  BY <1>1, <1>2, <1>4, Constants
<1>6. f \in [S -> T]
  <2>1. \A i \in 1 .. N : claimed[i][1] \in Producers
    BY <1>1 DEF IInv, TypeOK, Frames
  <2> QED
    BY <1>1, <1>5, <2>1
<1>7. ASSUME NEW i \in S, NEW j \in S, f[i] = f[j], i < j
      PROVE  FALSE
  <2>1. Passed(i + 1 - Room)
    BY <1>1, <1>5, <1>7 DEF IInv, PastTheLineOnce
  <2> QED
    BY <1>3, <1>5, <2>1
<1>8. \A i, j \in S : f[i] = f[j] => i = j
  BY <1>5, <1>7
<1>9. IsFiniteSet(T) /\ Cardinality(T) = Cardinality(Producers) - 1
  BY Constants, FS_RemoveElement
<1>10. Cardinality(S) <= Cardinality(T)
  <2> HIDE DEF f, S, T
  <2> QED
    BY <1>6, <1>8, <1>9, OneToOne
<1>11. Cardinality(S) = Slack + 1
  <2>1. N - Slack \in Int /\ N \in Int /\ ~(N - Slack > N) /\ N - (N - Slack) + 1 = Slack + 1
    <3>1. Slack \in Nat
      BY Constants
    <3> QED
      BY <3>1
  <2>2. Cardinality(N - Slack .. N) = IF N - Slack > N THEN 0 ELSE N - (N - Slack) + 1
    BY <2>1, FS_Interval
  <2> QED
    BY <2>1, <2>2
<1>12. Cardinality(T) <= Slack
  BY <1>9, Constants, WorkQueueAssumption DEF ProducersAreCounted, Slack
<1> QED
  BY <1>9, <1>10, <1>11, <1>12, Constants

\* Hence the slot of the next ticket is stamped free for it,
LEMMA NextSlotIsFree ==
    ASSUME IInv, ProducersAreCounted, NEW p \in Producers, ppc[p] = "claim"
    PROVE  /\ StampAt(Len(claimed)) = Len(claimed)
           /\ gen[Slot(LaneOf(Len(claimed)))] = LaneOf(Len(claimed))
<1>1. PICK N \in Nat : N = Len(claimed) /\ N \in 0 .. Bound /\ N \in Counts
  BY Ranges, Constants
<1>2. /\ N - Capacity \in 0 - Capacity .. Bound + Crowd /\ N \in 0 - Capacity .. Bound + Crowd
      /\ N - Capacity \in Counts /\ N - Capacity \in Int /\ N - Capacity + Capacity = N
  BY <1>1, Constants DEF Counts
<1>3. Done(N - Capacity)
  <2>1. CASE N - Capacity < 0
    BY <2>1 DEF Done
  <2>2. CASE N - Capacity >= 0
    <3>1. N - Capacity \in 0 .. (N + 1 - Capacity) - 1
      BY <1>1, <2>2, Constants
    <3> QED
      BY <1>1, <3>1, RoomToClaim DEF Passed
  <2> QED
    BY <1>2, <2>1, <2>2
<1>4. StampAt(N - Capacity) >= N
  <2>1. StampAt(N - Capacity) >= N - Capacity + Capacity
    BY <1>2, <1>3 DEF IInv, StampsFollowHistory, Stamped
  <2> QED
    BY <1>2, <2>1
<1>5. StampAt(N) <= N /\ StampAt(N) \in 0 .. Bound + Capacity
  <2>1. Stamped(N)
    BY <1>2 DEF IInv, StampsFollowHistory
  <2> QED
    BY <1>1, <2>1 DEF Stamped
<1>6. StampAt(N - Capacity) = StampAt(N)
  <2>1. Slot(LaneOf(N - Capacity + Capacity)) = Slot(LaneOf(N - Capacity))
    BY <1>1, <1>2, LapIsSlot
  <2> QED
    BY <1>2, <2>1 DEF StampAt
<1>7. StampAt(N) = N
  BY <1>1, <1>4, <1>5, <1>6, Constants
<1>8. gen[Slot(LaneOf(N))] = LaneOf(StampAt(N))
  BY <1>1, StampType DEF IInv
<1> QED
  BY <1>1, <1>7, <1>8

\* and the history grows by a ticket that is not done.
LEMMA ClaimExtends ==
    ASSUME IInv, NEW p \in Producers, Claim(p)
    PROVE  /\ offered[p] \in 1 .. MaxFrames
           /\ claimed' \in Seq(Frames) /\ Len(claimed') = Len(claimed) + 1
           /\ claimed'[Len(claimed) + 1] = <<p, offered[p]>>
           /\ \A i \in 1 .. Len(claimed) : claimed'[i] = claimed[i]
           /\ \A t \in Int : t < Len(claimed) => (Done(t)' <=> Done(t))
           /\ \A t \in Int : t >= Len(claimed) => ~Done(t) /\ ~Done(t)'
           /\ \A n \in Int : Passed(n) => Passed(n)'
<1>1. /\ ppc[p] = "claim" /\ got' = got /\ offered' = offered
      /\ claimed' = Append(claimed, <<p, offered[p]>>)
  BY DEF Claim
<1>2. offered[p] \in 1 .. MaxFrames
  <2>1. offered[p] \in 0 .. MaxFrames
    BY DEF IInv, TypeOK
  <2>2. offered[p] >= 1
    BY <1>1 DEF IInv, ClaimsAreOffers, Trying, Loaded
  <2> QED
    BY <2>1, <2>2, Constants
<1>3. PICK N \in Nat : N = Len(claimed)
  BY DEF IInv, TypeOK
<1>4. /\ claimed' \in Seq(Frames) /\ Len(claimed') = N + 1
      /\ claimed'[N + 1] = <<p, offered[p]>>
      /\ \A i \in 1 .. N : claimed'[i] = claimed[i]
  <2>1. <<p, offered[p]>> \in Frames /\ claimed \in Seq(Frames)
    BY <1>2 DEF IInv, TypeOK, Frames
  <2> QED
    BY <1>1, <1>3, <2>1
<1> DEFINE H == UNION {Range(got[c]) : c \in Consumers}
<1>5. ASSUME NEW t \in Int
      PROVE  /\ Done(t) <=> t < 0 \/ (t < N /\ claimed[t + 1] \in H)
             /\ Done(t)' <=> t < 0 \/ (t < N + 1 /\ claimed'[t + 1] \in H)
  <2>1. t >= 0 /\ t < N => t + 1 \in 1 .. N
    OBVIOUS
  <2>2. t >= 0 /\ t < N + 1 => t + 1 \in 1 .. N + 1
    OBVIOUS
  <2>3. UNION {Range(got'[c]) : c \in Consumers} = H
    BY <1>1
  <2>4. Done(t) <=> t < 0 \/ (t < N /\ claimed[t + 1] \in H)
    BY <1>3, <2>1 DEF Done, Delivered
  <2>5. Done(t)' <=> t < 0 \/ (t < N + 1 /\ claimed'[t + 1] \in H)
    <3>1. Done(t)' <=> t < 0 \/ (t < N + 1 /\ claimed'[t + 1] \in Delivered')
      BY <1>4 DEF Done
    <3>2. Delivered' = {claimed'[i] : i \in 1 .. N + 1} \cap H
      BY <1>4, <2>3 DEF Delivered
    <3> HIDE DEF H
    <3>3. t >= 0 /\ t < N + 1 => claimed'[t + 1] \in {claimed'[i] : i \in 1 .. N + 1}
      BY <2>2
    <3> QED
      BY <3>1, <3>2, <3>3
  <2> QED
    BY <2>4, <2>5
<1>6. <<p, offered[p]>> \notin H
  <2>1. SUFFICES ASSUME NEW c \in Consumers, <<p, offered[p]>> \in Range(got[c])
                 PROVE  FALSE
    OBVIOUS
  <2>2. DOMAIN got[c] = 1 .. Len(got[c])
    BY DEF IInv, TypeOK
  <2>3. PICK i \in 1 .. Len(got[c]) : got[c][i] = <<p, offered[p]>>
    BY <2>1, <2>2 DEF Range
  <2>4. PICK t \in 0 .. N - 1 : got[c][i] = claimed[t + 1]
    BY <1>3 DEF IInv, GotIsClaimed
  <2>5. t + 1 \in 1 .. Len(claimed)
    BY <1>3
  <2>6. claimed[t + 1][1] = p /\ claimed[t + 1][2] = offered[p]
    BY <2>3, <2>4
  <2>7. claimed[t + 1][2] < offered[p]
    BY <1>1, <2>5, <2>6 DEF IInv, ClaimsAreOffers, Trying, Loaded
  <2> QED
    BY <1>2, <2>6, <2>7
<1> HIDE DEF H
<1>7. ASSUME NEW t \in Int, t < N
      PROVE  Done(t)' <=> Done(t)
  <2>1. t >= 0 => claimed'[t + 1] = claimed[t + 1]
    BY <1>3, <1>4, <1>7
  <2> QED
    BY <1>3, <1>5, <1>7, <2>1
<1>8. ASSUME NEW t \in Int, t >= N
      PROVE  ~Done(t) /\ ~Done(t)'
  <2>1. t = N => claimed'[t + 1] \notin H
    BY <1>4, <1>6
  <2> QED
    BY <1>3, <1>5, <1>8, <2>1
<1>9. ASSUME NEW n \in Int, Passed(n)
      PROVE  Passed(n)'
  <2>1. ASSUME NEW t \in 0 .. n - 1
        PROVE  Done(t)'
    <3>1. Done(t) /\ t \in Int
      BY <1>9, <2>1 DEF Passed
    <3> QED
      BY <1>3, <1>7, <1>8, <3>1
  <2> QED
    BY <2>1 DEF Passed
<1> QED
  BY <1>2, <1>3, <1>4, <1>7, <1>8, <1>9

LEMMA ClaimKeeps ==
    ASSUME IInv, ProducersAreCounted, NEW p \in Producers, Claim(p)
    PROVE  IInv'
<1>1. /\ ppc[p] = "claim" /\ ppc' = [ppc EXCEPT ![p] = "write"]
      /\ at' = [at EXCEPT ![p] = enqueueTicket] /\ enqueueTicket' = Inc(enqueueTicket)
      /\ UNCHANGED <<dequeueTicket, frontier, closed, slots, counters, offered,
                     scanned, consumerVars, got>>
  BY DEF Claim, After
<1>2. PICK N \in Nat : /\ N = Len(claimed) /\ N \in 0 .. Bound /\ N \in Counts
                       /\ enqueueTicket \in Lane /\ enqueueTicket = LaneOf(N)
                       /\ Count(enqueueTicket) = N
  BY Ranges, Constants
<1>3. /\ offered[p] \in 1 .. MaxFrames
      /\ claimed' \in Seq(Frames) /\ Len(claimed') = N + 1
      /\ claimed'[N + 1] = <<p, offered[p]>>
      /\ \A i \in 1 .. N : claimed'[i] = claimed[i]
      /\ \A t \in Int : t < N => (Done(t)' <=> Done(t))
      /\ \A t \in Int : t >= N => ~Done(t) /\ ~Done(t)'
      /\ \A n \in Int : Passed(n) => Passed(n)'
  BY <1>2, ClaimExtends
<1>4. enqueueTicket' \in Lane /\ enqueueTicket' = LaneOf(N + 1)
  <2>1. N + 1 \in Counts
    BY <1>2, Constants DEF Counts
  <2>2. Inc(enqueueTicket) \in Lane /\ Count(Inc(enqueueTicket)) = N + 1
    BY <1>2, <2>1, CountInc
  <2> QED
    BY <1>1, <2>2, CountType
<1>5. /\ ppc'[p] = "write" /\ at'[p] = enqueueTicket
      /\ \A q \in Producers \ {p} : ppc'[q] = ppc[q] /\ at'[q] = at[q]
  BY <1>1 DEF IInv, TypeOK
<1>6. \A i \in 1 .. N : claimed[i] \in Frames
  BY <1>2 DEF IInv, TypeOK
<1>7. TypeOK'
  BY <1>1, <1>2, <1>3, <1>4 DEF IInv, TypeOK
<1>8. ClaimsAreOffers'
  <2>1. ASSUME NEW i \in 1 .. N + 1
        PROVE  claimed'[i][2] <= offered[claimed'[i][1]]
    <3>1. CASE i = N + 1
      BY <1>3, <3>1, Constants
    <3>2. CASE i \in 1 .. N
      BY <1>2, <1>3, <3>2 DEF IInv, ClaimsAreOffers
    <3> QED
      BY <1>2, <3>1, <3>2
  <2>2. ASSUME NEW i \in 1 .. N + 1, NEW j \in 1 .. N + 1, i < j,
               claimed'[i][1] = claimed'[j][1]
        PROVE  claimed'[i][2] < claimed'[j][2]
    <3>1. i \in 1 .. N /\ claimed'[i] = claimed[i]
      BY <1>2, <1>3, <2>2
    <3>2. CASE j = N + 1
      <4>1. claimed'[j][1] = p /\ claimed'[j][2] = offered[p]
        BY <1>3, <3>2
      <4>2. claimed[i][1] = p
        BY <2>2, <3>1, <4>1
      <4>3. claimed[i][2] < offered[p]
        BY <1>1, <1>2, <3>1, <4>2 DEF IInv, ClaimsAreOffers, Trying, Loaded
      <4> QED
        BY <3>1, <4>1, <4>3
    <3>3. CASE j \in 1 .. N
      BY <1>2, <1>3, <2>2, <3>1, <3>3 DEF IInv, ClaimsAreOffers
    <3> QED
      BY <1>2, <3>2, <3>3
  <2>3. ASSUME NEW q \in Producers, ppc'[q] \in Trying,
               NEW i \in 1 .. N + 1, claimed'[i][1] = q
        PROVE  claimed'[i][2] < offered[q]
    <3>1. q # p /\ ppc[q] \in Trying
      BY <1>5, <2>3 DEF Trying, Scanning, Loaded
    <3>2. i # N + 1
      BY <1>3, <2>3, <3>1
    <3>3. i \in 1 .. N /\ claimed'[i] = claimed[i]
      BY <1>2, <1>3, <3>2
    <3> QED
      BY <1>2, <2>3, <3>1, <3>3 DEF IInv, ClaimsAreOffers
  <2>4. \A q \in Producers : ppc'[q] \in Trying => offered[q] >= 1
    BY <1>5 DEF IInv, ClaimsAreOffers, Trying, Scanning, Loaded
  <2> QED
    BY <1>1, <1>3, <2>1, <2>2, <2>3, <2>4 DEF ClaimsAreOffers
<1>9. TicketsFollowHistory'
  <2>1. Passed(N + 1 - Capacity)'
    <3>1. N + 1 - Capacity \in Int
      BY Constants
    <3> QED
      BY <1>1, <1>2, <1>3, <3>1, RoomToClaim
  <2>2. PICK f \in Int : f = Count(frontier) /\ f \in 0 .. N /\ Passed(f)
    BY <1>2 DEF IInv, TicketsFollowHistory
  <2>3. f = Count(frontier') /\ f \in 0 .. N + 1 /\ Passed(f)'
    BY <1>1, <1>3, <2>2
  <2>4. ASSUME NEW q \in Producers, ppc'[q] \in Scanning
        PROVE  \E a \in 0 .. N + 1 : a = Count(at'[q]) /\ Passed(a)'
    <3>1. q # p /\ ppc[q] \in Scanning /\ at'[q] = at[q]
      BY <1>5, <2>4 DEF Scanning
    <3>2. PICK a \in Int : a = Count(at[q]) /\ a \in 0 .. N /\ Passed(a)
      BY <1>2, <3>1 DEF IInv, TicketsFollowHistory, AtTicket
    <3>3. a \in 0 .. N + 1 /\ Passed(a)'
      BY <1>3, <3>2
    <3> QED
      BY <3>1, <3>2, <3>3
  <2>5. tornGuarded' = 0
    BY <1>1 DEF IInv, TicketsFollowHistory
  <2>6. \A q \in Producers : ppc'[q] \in Scanning =>
            Count(at'[q]) \in 0 .. N + 1 /\ \A t \in 0 .. Count(at'[q]) - 1 : Done(t)'
    BY <2>4 DEF Passed
  <2>7. \A t \in 0 .. (Len(claimed') - Capacity) - 1 : Done(t)'
    <3>1. Len(claimed') - Capacity = N + 1 - Capacity
      BY <1>3, Constants
    <3> QED
      BY <2>1, <3>1 DEF Passed
  <2>8. \A t \in 0 .. Count(frontier') - 1 : Done(t)'
    BY <2>3 DEF Passed
  <2>9. Count(frontier') \in 0 .. N + 1
    BY <2>3
  <2> QED
    BY <1>3, <1>4, <2>5, <2>6, <2>7, <2>8, <2>9 DEF TicketsFollowHistory, Passed, AtTicket
<1>10. LoadsFollowClaims'
  <2>1. ASSUME NEW q \in Producers, ppc'[q] \in Loaded
        PROVE  /\ Count(at'[q]) \in 0 .. N + 1
               /\ \A i \in Count(at'[q]) + 1 .. N + 1 : claimed'[i][1] # q
               /\ ppc'[q] = "claim" => \A t \in 0 .. (Count(at'[q]) + 1 - Room) - 1 : Done(t)'
    <3>1. q # p /\ ppc[q] = ppc'[q] /\ ppc[q] \in Loaded /\ at'[q] = at[q]
      BY <1>5, <2>1 DEF Loaded
    <3>2. PICK a \in Int : /\ a = Count(at[q]) /\ a \in 0 .. N
                           /\ \A i \in a + 1 .. N : claimed[i][1] # q
                           /\ ppc[q] = "claim" => Passed(a + 1 - Room)
      BY <1>2, <3>1 DEF IInv, LoadsFollowClaims, AtTicket
    <3>3. ASSUME NEW i \in a + 1 .. N + 1
          PROVE  claimed'[i][1] # q
      <4>1. CASE i = N + 1
        BY <1>3, <3>1, <4>1
      <4>2. CASE i # N + 1
        <5>1. i \in a + 1 .. N /\ i \in 1 .. N
          BY <3>2, <4>2
        <5> QED
          BY <1>3, <3>2, <5>1
      <4> QED
        BY <4>1, <4>2
    <3>4. a + 1 - Room \in Int
      BY Constants
    <3>5. ppc[q] = "claim" => Passed(a + 1 - Room)'
      BY <1>3, <3>2, <3>4
    <3>6. a \in 0 .. N + 1 /\ a = Count(at'[q])
      BY <3>1, <3>2
    <3> QED
      BY <3>1, <3>3, <3>5, <3>6 DEF Passed
  <2> QED
    BY <1>3, <2>1 DEF LoadsFollowClaims, AtTicket, Passed, Room, Slack
<1>11. PastTheLineOnce'
  <2>1. ASSUME NEW i \in 1 .. N + 1, NEW j \in 1 .. N + 1, i < j,
               claimed'[i][1] = claimed'[j][1]
        PROVE  Passed(i + 1 - Room)'
    <3>1. i \in 1 .. N /\ claimed'[i] = claimed[i] /\ i + 1 - Room \in Int
      BY <1>2, <1>3, <2>1, Constants
    <3>2. CASE j = N + 1
      <4>1. PICK a \in Int : /\ a = AtTicket(p) /\ a \in 0 .. N /\ Passed(a + 1 - Room)
                             /\ \A k \in a + 1 .. N : claimed[k][1] # p
        BY <1>1, <1>2 DEF IInv, LoadsFollowClaims, Loaded
      <4>2. claimed[i][1] = p
        BY <1>3, <2>1, <3>1, <3>2
      <4>3. i <= a
        BY <3>1, <4>1, <4>2
      <4>4. a + 1 - Room \in Int /\ i + 1 - Room <= a + 1 - Room
        BY <3>1, <4>3, Constants
      <4> QED
        BY <1>3, <3>1, <4>1, <4>4, PassedBelow
    <3>3. CASE j \in 1 .. N
      BY <1>2, <1>3, <2>1, <3>1, <3>3 DEF IInv, PastTheLineOnce
    <3> QED
      BY <1>2, <3>2, <3>3
  <2> QED
    BY <1>3, <2>1 DEF PastTheLineOnce
<1>12. WritersHold'
  <2>1. ASSUME NEW q \in Producers, ppc'[q] \in {"write", "publish"}
        PROVE  WriterHolds(q)'
    <3>1. CASE q = p
      <4>1. Count(at'[q]) = N /\ N \in 0 .. (N + 1) - 1 /\ ~Done(N)'
        BY <1>2, <1>3, <1>5, <3>1
      <4>2. gen'[Slot(at'[q])] = at'[q] /\ ppc'[q] # "publish"
        BY <1>1, <1>2, <1>5, <3>1, NextSlotIsFree
      <4>3. claimed'[N + 1] = <<q, offered'[q]>>
        BY <1>1, <1>3, <3>1
      <4>4. ~Done(Count(at[q]))' <=> ~Done(N)'
        BY <4>1 DEF Done
      <4> QED
        BY <1>3, <4>1, <4>2, <4>3, <4>4 DEF WriterHolds, AtTicket
    <3>2. CASE q # p
      <4>1. WriterHolds(q) /\ ppc'[q] = ppc[q] /\ at'[q] = at[q]
        BY <1>5, <2>1, <3>2 DEF IInv, WritersHold, Writing
      <4>2. PICK a \in Int : a = Count(at[q]) /\ a \in 0 .. N - 1 /\ ~Done(a)
        BY <1>2, <4>1 DEF WriterHolds, AtTicket
      <4>3. a \in 0 .. (N + 1) - 1 /\ ~Done(a)' /\ claimed'[a + 1] = claimed[a + 1]
            /\ Count(at'[q]) = a
        BY <1>2, <1>3, <4>1, <4>2
      <4>4. ~Done(Count(at[q]))' <=> ~Done(a)'
        BY <4>3 DEF Done
      <4> QED
        BY <1>1, <1>3, <4>1, <4>2, <4>3, <4>4 DEF WriterHolds, AtTicket
    <3> QED
      BY <3>1, <3>2
  <2> QED
    BY <2>1 DEF WritersHold, Writing
<1>13. StampsFollowHistory'
  <2>1. ASSUME NEW t \in 0 - Capacity .. Bound + Crowd
        PROVE  Stamped(t)'
    <3>1. t \in Int /\ Stamped(t)
      BY Constants DEF IInv, StampsFollowHistory
    <3>2. StampAt(t)' = StampAt(t) /\ data' = data
      BY <1>1 DEF StampAt
    <3>3. CASE t < N
      <4>1. t >= 0 => claimed'[t + 1] = claimed[t + 1]
        BY <1>2, <1>3, <3>1, <3>3
      <4>2. /\ (Done(t)' <=> Done(t)) /\ ~(t >= N + 1)
            /\ t \in 0 .. (N + 1) - 1 => t \in 0 .. N - 1
        BY <1>2, <1>3, <3>1, <3>3
      <4>3. t \in 0 .. N - 1 => t >= 0
        BY <3>1
      <4> QED
        BY <1>2, <1>3, <3>1, <3>2, <4>1, <4>2, <4>3 DEF Stamped
    <3>4. CASE t = N
      <4>1. StampAt(t) = t
        BY <1>1, <1>2, <3>4, NextSlotIsFree
      <4>2. ~Done(t)' /\ ~(t >= N + 1)
        BY <1>2, <1>3, <3>4
      <4> QED
        BY <1>3, <3>1, <3>2, <4>1, <4>2 DEF Stamped
    <3>5. CASE t > N
      <4>1. ~Done(t)' /\ t >= N /\ ~(t \in 0 .. (N + 1) - 1)
        BY <1>2, <1>3, <3>1, <3>5
      <4> QED
        BY <1>2, <1>3, <3>1, <3>2, <4>1 DEF Stamped
    <3> QED
      BY <1>2, <3>1, <3>3, <3>4, <3>5
  <2> QED
    BY <2>1 DEF StampsFollowHistory
<1>14. ConsumersHold'
  <2>1. ASSUME NEW c \in Consumers, hasHeld[c]
        PROVE  ConsumerHolds(c)'
    <3>1. ConsumerHolds(c)
      BY <2>1 DEF IInv, ConsumersHold
    <3>2. PICK h \in Int : h = Count(held[c]) /\ ~Done(h)
      BY <2>1, HolderHas DEF HeldTicket
    <3>3. ~Done(h)'
      BY <1>2, <1>3, <3>2
    <3>4. ~Done(Count(held[c]))'
      BY <1>1, <3>2, <3>3 DEF Done
    <3> QED
      BY <1>1, <3>1, <3>4 DEF ConsumerHolds, HeldTicket, Dequeued
  <2>2. ASSUME NEW c \in Consumers, Reading(c)
        PROVE  /\ Count(held[c]) < N + 1
               /\ cpc[c] = "free" => claimed'[Count(held[c]) + 1] = claimed[Count(held[c]) + 1]
    <3>1. PICK h \in Int : h = Count(held[c]) /\ h >= 0 /\ h < N
      BY <1>2, <2>2, ReaderHas, HolderHas DEF HeldTicket
    <3>2. h < N + 1 /\ claimed'[h + 1] = claimed[h + 1]
      BY <1>2, <1>3, <3>1
    <3> QED
      BY <3>1, <3>2
  <2> QED
    BY <1>1, <1>3, <2>1, <2>2 DEF IInv, ConsumersHold, Reading, HeldTicket
<1>15. GotIsClaimed'
  <2>1. ASSUME NEW c \in Consumers, NEW i \in 1 .. Len(got[c])
        PROVE  \E t \in 0 .. (N + 1) - 1 : /\ got[c][i] = claimed'[t + 1]
                                           /\ t < Dequeued
                                           /\ hasHeld[c] => t < HeldTicket(c)
    <3>1. PICK t \in 0 .. N - 1 : /\ got[c][i] = claimed[t + 1]
                                  /\ t < Dequeued
                                  /\ hasHeld[c] => t < HeldTicket(c)
      BY <1>2 DEF IInv, GotIsClaimed
    <3>2. t \in 0 .. (N + 1) - 1 /\ claimed'[t + 1] = claimed[t + 1]
      BY <1>2, <1>3
    <3> QED
      BY <3>1, <3>2
  <2> QED
    BY <1>1, <1>3, <2>1 DEF GotIsClaimed, Dequeued, HeldTicket
<1>16. ClaimsAreFew'
  <2>1. PICK D \in Nat : D = Count(dequeueTicket) /\ D = Count(dequeueTicket')
    BY <1>1 DEF IInv, ClaimsAreFew, Dequeued
  <2>2. \A n \in N + 1 .. D : n \in N .. D
    BY <1>2
  <2>3. \A n \in N .. D : D - n + Cardinality(Armed(n)) <= Crowd
    BY <1>2, <2>1 DEF IInv, ClaimsAreFew, Dequeued
  <2>4. \A n : Armed(n)' = Armed(n)
    BY <1>1 DEF Armed, PeekedAt
  <2>5. \A n \in N + 1 .. D : D - n + Cardinality(Armed(n)') <= Crowd
    BY <2>2, <2>3, <2>4
  <2>6. ASSUME NEW c \in Consumers, cpc[c] \in Peeking
        PROVE  Count(cR[c]) \in 0 .. D /\ (cpc[c] = "claim" => Count(cR[c]) < N + 1)
    <3>1. PICK k \in 0 .. D : k = Count(cR[c]) /\ (cpc[c] = "claim" => k < N)
      BY <1>2, <2>1, <2>6 DEF IInv, ClaimsAreFew, PeekedAt, Dequeued
    <3> QED
      BY <1>2, <3>1
  <2> QED
    BY <1>1, <1>3, <2>1, <2>5, <2>6 DEF ClaimsAreFew, PeekedAt, Dequeued, Crowd
<1> QED
  BY <1>7, <1>8, <1>9, <1>10, <1>11, <1>12, <1>13, <1>14, <1>15, <1>16 DEF IInv

-------------------------------------------------------------------------------
(* Steps of a producer that holds a ticket, and close *)

\* Two writers are in slots of their own, and so are a writer and a reader.
LEMMA WritersApart ==
    ASSUME IInv, NEW p \in Producers, NEW q \in Producers, p # q, Writing(p), Writing(q)
    PROVE  Slot(at[p]) # Slot(at[q])
<1>1. PICK a \in Int, b \in Int :
          /\ a = AtTicket(p) /\ b = AtTicket(q) /\ a < Len(claimed) /\ b < Len(claimed)
          /\ ~Done(a) /\ ~Done(b) /\ at[p] = LaneOf(a) /\ at[q] = LaneOf(b)
          /\ claimed[a + 1] = <<p, offered[p]>> /\ claimed[b + 1] = <<q, offered[q]>>
  BY WriterHas
<1>2. a # b
  BY <1>1
<1> QED
  BY <1>1, <1>2, OneSlotEach

LEMMA WriterAndReader ==
    ASSUME IInv, NEW p \in Producers, NEW c \in Consumers, Writing(p), Reading(c)
    PROVE  Slot(at[p]) # Slot(held[c])
<1>1. PICK a \in Int : /\ a = AtTicket(p) /\ a < Len(claimed) /\ ~Done(a)
                       /\ at[p] = LaneOf(a) /\ StampAt(a) = a
  BY WriterHas
<1>2. PICK h \in Int : /\ h = HeldTicket(c) /\ h < Len(claimed) /\ ~Done(h)
                       /\ held[c] = LaneOf(h) /\ StampAt(h) = h + 1
  BY ReaderHas, HolderHas
<1>3. a # h
  BY <1>1, <1>2
<1> QED
  BY <1>1, <1>2, <1>3, OneSlotEach

\* What stays when only the slots, or closed, change and a producer's push goes on.
AllButSlots(p) ==
    /\ UNCHANGED <<enqueueTicket, dequeueTicket, frontier, stranded, tornGuarded, dropped,
                   offered, at, scanned, consumerVars, claimed, got>>
    /\ \A q \in Producers \ {p} : ppc'[q] = ppc[q]
    /\ Writing(p) /\ ppc'[p] \in {"publish", "idle"}

LEMMA AllButSlotsKeeps ==
    ASSUME IInv, NEW p \in Producers, AllButSlots(p)
    PROVE  /\ ClaimsAreOffers' /\ TicketsFollowHistory' /\ LoadsFollowClaims'
           /\ PastTheLineOnce' /\ GotIsClaimed' /\ ClaimsAreFew'
           /\ \A t : Done(t)' <=> Done(t)
           /\ \A c \in Consumers : hasHeld[c] => ConsumerHolds(c)'
<1>1. /\ enqueueTicket' = enqueueTicket /\ dequeueTicket' = dequeueTicket
      /\ frontier' = frontier /\ tornGuarded' = tornGuarded /\ offered' = offered /\ at' = at
      /\ claimed' = claimed /\ got' = got
      /\ cpc' = cpc /\ cR' = cR /\ hasHeld' = hasHeld /\ held' = held
  BY DEF AllButSlots
<1>2. /\ \A t : Done(t)' <=> Done(t)
      /\ \A n : Passed(n)' <=> Passed(n)
  BY <1>1, HistoryStays
<1>3. \A q \in Producers : /\ ppc'[q] \in Trying => ppc[q] \in Trying /\ ppc'[q] = ppc[q]
                           /\ ppc'[q] \in Scanning => ppc[q] \in Scanning
                           /\ ppc'[q] \in Loaded => ppc[q] \in Loaded
  BY DEF AllButSlots, Writing, Trying, Scanning, Loaded
<1>4. \A q \in Producers : ppc'[q] = "claim" => ppc[q] = "claim"
  BY DEF AllButSlots
<1>5. ClaimsAreOffers'
  BY <1>1, <1>3 DEF IInv, ClaimsAreOffers
<1>6. TicketsFollowHistory'
  BY <1>1, <1>3 DEF IInv, TicketsFollowHistory, Passed, Done, Delivered, AtTicket
<1>7. LoadsFollowClaims'
  <2>1. ASSUME NEW q \in Producers, ppc'[q] \in Loaded
        PROVE  /\ Count(at[q]) \in 0 .. Len(claimed)
               /\ \A i \in Count(at[q]) + 1 .. Len(claimed) : claimed[i][1] # q
               /\ ppc'[q] = "claim" => \A t \in 0 .. (Count(at[q]) + 1 - Room) - 1 : Done(t)'
    <3>1. ppc[q] \in Loaded /\ (ppc'[q] = "claim" => ppc[q] = "claim")
      BY <1>3, <1>4, <2>1
    <3>2. PICK a \in Int : /\ a = Count(at[q]) /\ a \in 0 .. Len(claimed)
                           /\ \A i \in a + 1 .. Len(claimed) : claimed[i][1] # q
                           /\ ppc[q] = "claim" => Passed(a + 1 - Room)
      BY <3>1, Ranges DEF IInv, LoadsFollowClaims, AtTicket
    <3>3. ppc[q] = "claim" => \A t \in 0 .. (a + 1 - Room) - 1 : Done(t)'
      BY <1>2, <3>2 DEF Passed
    <3> QED
      BY <3>1, <3>2, <3>3
  <2> QED
    BY <1>1, <2>1 DEF LoadsFollowClaims, AtTicket, Passed, Room, Slack
<1>8. PastTheLineOnce'
  <2>1. \A i, j \in 1 .. Len(claimed) :
            i < j /\ claimed[i][1] = claimed[j][1] => Passed(i + 1 - Room)'
    BY <1>2 DEF IInv, PastTheLineOnce
  <2> QED
    BY <1>1, <2>1 DEF PastTheLineOnce
<1>9. GotIsClaimed' /\ ClaimsAreFew'
  BY <1>1 DEF IInv, GotIsClaimed, ClaimsAreFew, Armed, PeekedAt, Dequeued, HeldTicket
<1>10. ASSUME NEW c \in Consumers, hasHeld[c]
       PROVE  ConsumerHolds(c)'
  <2>1. ConsumerHolds(c)
    BY <1>10 DEF IInv, ConsumersHold
  <2> QED
    BY <1>1, <2>1 DEF ConsumerHolds, HeldTicket, Dequeued, Done, Delivered
<1> QED
  BY <1>2, <1>5, <1>6, <1>7, <1>8, <1>9, <1>10

LEMMA WriteKeeps ==
    ASSUME IInv, NEW p \in Producers, Write(p)
    PROVE  IInv'
<1>1. /\ ppc[p] = "write" /\ ppc' = [ppc EXCEPT ![p] = "publish"]
      /\ data' = [data EXCEPT ![Slot(at[p])] = <<p, offered[p]>>]
      /\ UNCHANGED <<lanes, gen, counters, offered, at, scanned, consumerVars, claimed, got>>
  BY DEF Write, After
<1>2. Writing(p)
  BY <1>1 DEF Writing
<1>3. PICK a \in Int : /\ a = AtTicket(p) /\ a >= 0 /\ a < Len(claimed) /\ ~Done(a)
                       /\ at[p] = LaneOf(a) /\ Slot(at[p]) \in Slots
                       /\ claimed[a + 1] = <<p, offered[p]>> /\ StampAt(a) = a
  BY <1>2, WriterHas
<1>4. ppc'[p] = "publish" /\ \A q \in Producers \ {p} : ppc'[q] = ppc[q]
  BY <1>1 DEF IInv, TypeOK
<1>5. AllButSlots(p)
  BY <1>1, <1>2, <1>4 DEF AllButSlots
<1>6. TypeOK'
  <2>1. <<p, offered[p]>> \in Frames
    <3>1. a + 1 \in 1 .. Len(claimed)
      BY <1>3, Ranges
    <3>2. claimed[a + 1] \in Frames
      BY <3>1 DEF IInv, TypeOK
    <3> QED
      BY <1>3, <3>2
  <2> QED
    BY <1>1, <1>3, <2>1 DEF IInv, TypeOK
<1>7. \A s \in Slots : s # Slot(at[p]) => data'[s] = data[s]
  BY <1>1 DEF IInv, TypeOK
<1>8. data'[Slot(at[p])] = <<p, offered[p]>>
  BY <1>1, <1>3 DEF IInv, TypeOK
<1>9. WritersHold'
  <2>1. ASSUME NEW q \in Producers, ppc'[q] \in {"write", "publish"}
        PROVE  WriterHolds(q)'
    <3>1. Writing(q)
      BY <1>2, <1>4, <2>1 DEF Writing
    <3>2. WriterHolds(q)
      BY <3>1 DEF IInv, WritersHold
    <3>3. ppc'[q] = "publish" => data'[Slot(at[q])] = <<q, offered[q]>>
      <4>1. CASE q = p
        BY <1>8, <4>1
      <4>2. CASE q # p
        <5>1. Slot(at[q]) # Slot(at[p]) /\ Slot(at[q]) \in Slots
          BY <1>2, <3>1, <4>2, WritersApart, WriterHas
        <5> QED
          BY <1>4, <1>7, <3>2, <4>2, <5>1 DEF WriterHolds
      <4> QED
        BY <4>1, <4>2
    <3> QED
      BY <1>1, <3>2, <3>3 DEF WriterHolds, AtTicket, Done, Delivered
  <2> QED
    BY <2>1 DEF WritersHold, Writing
<1>10. StampsFollowHistory'
  <2>1. ASSUME NEW t \in 0 - Capacity .. Bound + Crowd
        PROVE  Stamped(t)'
    <3>1. Stamped(t) /\ t \in Int
      BY Constants DEF IInv, StampsFollowHistory
    <3>2. ASSUME t \in 0 .. Len(claimed) - 1, ~Done(t), StampAt(t) = t + 1
          PROVE  data'[Slot(LaneOf(t))] = data[Slot(LaneOf(t))]
      <4>1. t < Len(claimed) /\ t # a
        BY <1>3, <3>1, <3>2, Ranges
      <4>2. t \in Counts
        BY <3>1, <3>2, <4>1, Window
      <4>3. Slot(LaneOf(t)) # Slot(at[p])
        BY <1>3, <3>1, <3>2, <4>1, OneSlotEach
      <4>4. Slot(LaneOf(t)) \in Slots
        BY <4>2, StampType DEF IInv
      <4> QED
        BY <1>7, <4>3, <4>4
    <3>3. StampAt(t)' = StampAt(t) /\ (Done(t)' <=> Done(t)) /\ claimed' = claimed
      BY <1>1 DEF StampAt, Done, Delivered
    <3> QED
      BY <3>1, <3>2, <3>3 DEF Stamped
  <2> QED
    BY <2>1 DEF StampsFollowHistory
<1>11. ConsumersHold'
  <2>1. \A c \in Consumers : hasHeld[c] => ConsumerHolds(c)'
    BY <1>5, AllButSlotsKeeps
  <2> QED
    BY <1>1, <2>1 DEF IInv, ConsumersHold, Reading, HeldTicket
<1> QED
  BY <1>5, <1>6, <1>9, <1>10, <1>11, AllButSlotsKeeps DEF IInv

LEMMA PublishKeeps ==
    ASSUME IInv, NEW p \in Producers, Publish(p)
    PROVE  IInv'
<1>1. /\ ppc[p] = "publish" /\ ppc' = [ppc EXCEPT ![p] = "idle"]
      /\ gen' = [gen EXCEPT ![Slot(at[p])] = Inc(at[p])]
      /\ UNCHANGED <<lanes, data, counters, offered, at, scanned, consumerVars, claimed, got>>
  BY DEF Publish, After
<1>2. Writing(p)
  BY <1>1 DEF Writing
<1>3. PICK a \in Int : /\ a = AtTicket(p) /\ a >= 0 /\ a < Len(claimed) /\ ~Done(a)
                       /\ at[p] = LaneOf(a) /\ Slot(at[p]) \in Slots /\ a \in Counts
                       /\ claimed[a + 1] = <<p, offered[p]>> /\ StampAt(a) = a
                       /\ at[p] \in Lane /\ Count(at[p]) = a
  BY <1>2, WriterHas DEF AtTicket
<1>4. ppc'[p] = "idle" /\ \A q \in Producers \ {p} : ppc'[q] = ppc[q]
  BY <1>1 DEF IInv, TypeOK
<1>5. AllButSlots(p)
  BY <1>1, <1>2, <1>4 DEF AllButSlots
<1>6. Inc(at[p]) \in Lane /\ Count(Inc(at[p])) = a + 1 /\ a + 1 \in 0 .. Bound
  <2>1. Len(claimed) \in 0 .. Bound
    BY Ranges
  <2>2. a + 1 \in 0 .. Bound
    BY <1>3, <2>1, Constants
  <2>3. a + 1 \in Counts
    BY <2>2, Constants DEF Counts
  <2> QED
    BY <1>3, <2>2, <2>3, CountInc
<1>7. TypeOK'
  BY <1>1, <1>3, <1>6 DEF IInv, TypeOK
<1>8. /\ \A s \in Slots : s # Slot(at[p]) => gen'[s] = gen[s]
      /\ gen'[Slot(at[p])] = Inc(at[p])
  BY <1>1, <1>3 DEF IInv, TypeOK
<1>9. WritersHold'
  <2>1. ASSUME NEW q \in Producers, ppc'[q] \in {"write", "publish"}
        PROVE  WriterHolds(q)'
    <3>1. Writing(q) /\ q # p /\ ppc'[q] = ppc[q]
      BY <1>4, <2>1 DEF Writing
    <3>2. WriterHolds(q)
      BY <3>1 DEF IInv, WritersHold
    <3>3. Slot(at[q]) # Slot(at[p]) /\ Slot(at[q]) \in Slots
      BY <1>2, <3>1, WritersApart, WriterHas
    <3> QED
      BY <1>1, <1>8, <3>1, <3>2, <3>3 DEF WriterHolds, AtTicket, Done, Delivered
  <2> QED
    BY <2>1 DEF WritersHold, Writing
<1>10. StampsFollowHistory'
  <2>1. ASSUME NEW t \in 0 - Capacity .. Bound + Crowd
        PROVE  Stamped(t)'
    <3>1. Stamped(t) /\ t \in Int /\ t \in Counts
      BY Constants DEF IInv, StampsFollowHistory, Counts
    <3>2. (Done(t)' <=> Done(t)) /\ claimed' = claimed /\ data' = data
      BY <1>1 DEF Done, Delivered
    <3>3. Slot(LaneOf(t)) \in Slots
      BY <3>1, StampType DEF IInv
    <3>4. CASE Slot(LaneOf(t)) # Slot(at[p])
      <4>1. StampAt(t)' = StampAt(t)
        <5>1. gen'[Slot(LaneOf(t))] = gen[Slot(LaneOf(t))]
          BY <1>8, <3>3, <3>4
        <5> QED
          BY <5>1 DEF StampAt
      <4> QED
        BY <3>1, <3>2, <4>1 DEF Stamped
    <3>5. CASE Slot(LaneOf(t)) = Slot(at[p])
      <4>1. StampAt(t)' = a + 1
        <5>1. Count(gen'[Slot(LaneOf(t))]) = a + 1
          BY <1>6, <1>8, <3>5
        <5> QED
          BY <5>1 DEF StampAt
      <4>2. StampAt(t) = a
        BY <1>3, <3>5 DEF StampAt
      <4>3. PICK N \in Nat : N = Len(claimed)
        BY Ranges, Constants
      <4>4. CASE t = a
        <5>1. data[Slot(LaneOf(t))] = claimed[t + 1]
          <6>1. WriterHolds(p)
            BY <1>2 DEF IInv, WritersHold
          <6> QED
            BY <1>1, <1>3, <4>4, <6>1 DEF WriterHolds
        <5>2. a + 1 \in 0 .. Bound + Capacity /\ ~(t >= N) /\ ~Done(t)
          BY <1>3, <1>6, <4>3, <4>4, Constants
        <5> QED
          BY <3>2, <4>1, <4>3, <4>4, <5>1, <5>2 DEF Stamped
      <4>5. CASE t # a
        <5>1. t - a >= Capacity \/ a - t >= Capacity
          BY <1>3, <3>1, <3>5, <4>5, SameSlot
        <5>2. t >= N => a + 1 <= t
          BY <1>3, <3>1, <4>3
        <5>3. Done(t) => a + 1 >= t + Capacity
          <6>1. Done(t) => a >= t + Capacity
            BY <3>1, <4>2 DEF Stamped
          <6> QED
            BY <1>3, <3>1, <6>1, Constants
        <5>4. ~(t \in 0 .. N - 1 /\ ~Done(t))
          <6>1. ASSUME t \in 0 .. N - 1, ~Done(t)
                PROVE  FALSE
            <7>1. t < Len(claimed)
              BY <4>3, <6>1
            <7> QED
              BY <1>3, <3>1, <3>5, <4>5, <6>1, <7>1, OneSlotEach
          <6> QED
            BY <6>1
        <5>5. a + 1 \in 0 .. Bound + Capacity
          BY <1>6, Constants
        <5> QED
          BY <3>2, <4>1, <4>3, <5>2, <5>3, <5>4, <5>5 DEF Stamped
      <4> QED
        BY <4>4, <4>5
    <3> QED
      BY <3>4, <3>5
  <2> QED
    BY <2>1 DEF StampsFollowHistory
<1>11. ConsumersHold'
  <2>1. \A c \in Consumers : hasHeld[c] => ConsumerHolds(c)'
    BY <1>5, AllButSlotsKeeps
  <2>2. ASSUME NEW c \in Consumers, Reading(c)
        PROVE  gen'[Slot(held[c])] = gen[Slot(held[c])]
    <3>1. Slot(held[c]) # Slot(at[p]) /\ Slot(held[c]) \in Slots
      BY <1>2, <2>2, WriterAndReader, ReaderHas, HolderHas
    <3> QED
      BY <1>8, <3>1
  <2> QED
    BY <1>1, <2>1, <2>2 DEF IInv, ConsumersHold, Reading, HeldTicket
<1> QED
  BY <1>5, <1>7, <1>9, <1>10, <1>11, AllButSlotsKeeps DEF IInv

LEMMA CloseKeeps ==
    ASSUME IInv, Close
    PROVE  IInv'
<1>1. /\ closed' = TRUE
      /\ UNCHANGED <<enqueueTicket, dequeueTicket, frontier, slots, counters,
                     producerVars, consumerVars, claimed, got>>
  BY DEF Close
<1>2. TypeOK'
  BY <1>1 DEF IInv, TypeOK
<1>3. ClaimsAreOffers' /\ TicketsFollowHistory' /\ LoadsFollowClaims' /\ PastTheLineOnce'
  BY <1>1, SMTT(30) DEF IInv, ClaimsAreOffers, TicketsFollowHistory, LoadsFollowClaims, PastTheLineOnce,
     Passed, Done, Delivered, AtTicket, Room, Slack
<1>4. WritersHold'
  BY <1>1, ZenonT(40) DEF IInv, WritersHold, WriterHolds, Writing, Done, Delivered, AtTicket
<1>5. StampsFollowHistory'
  BY <1>1 DEF IInv, StampsFollowHistory, Stamped, StampAt, Done, Delivered
<1>6. ConsumersHold' /\ GotIsClaimed' /\ ClaimsAreFew'
  BY <1>1 DEF IInv, ConsumersHold, ConsumerHolds, Reading, GotIsClaimed, ClaimsAreFew, Armed,
     PeekedAt, Dequeued, HeldTicket, Done, Delivered
<1> QED
  BY <1>2, <1>3, <1>4, <1>5, <1>6 DEF IInv

-------------------------------------------------------------------------------
(* A consumer's steps that neither claim a ticket nor free a slot *)

\* What such a step of c leaves alone, ...
QuietPull(c) ==
    /\ UNCHANGED <<lanes, slots, producerVars, held, claimed, got>>
    /\ tornGuarded' = tornGuarded
    /\ \A q \in Consumers \ {c} :
           cpc'[q] = cpc[q] /\ cR'[q] = cR[q] /\ hasHeld'[q] = hasHeld[q] /\ out'[q] = out[q]

\* ... and what it knows of the ticket it holds, or is about to claim.
KnowsHeld(c) ==
    /\ hasHeld'[c] => hasHeld[c]
    /\ cpc'[c] \in Peeking => ~hasHeld'[c]
    /\ cpc'[c] \notin Peeking \cup {"idle"} => hasHeld'[c]
    /\ cpc'[c] \in {"read", "free"} =>
           HeldTicket(c) < Len(claimed) /\ gen[Slot(held[c])] = Inc(held[c])
    /\ cpc'[c] = "free" => out'[c] = claimed[HeldTicket(c) + 1]

KnowsPeeked(c) ==
    cpc'[c] \in Peeking =>
        \/ cpc'[c] = "peek" /\ cR'[c] = dequeueTicket
        \/ /\ cpc[c] \in Peeking /\ cR'[c] = cR[c]
           /\ cpc'[c] = "claim" => PeekedAt(c) < Len(claimed)

LEMMA QuietPullKeeps ==
    ASSUME IInv, NEW c \in Consumers, QuietPull(c), KnowsHeld(c), KnowsPeeked(c), TypeOK'
    PROVE  IInv'
<1>1. /\ enqueueTicket' = enqueueTicket /\ dequeueTicket' = dequeueTicket
      /\ frontier' = frontier /\ gen' = gen /\ data' = data /\ tornGuarded' = tornGuarded
      /\ ppc' = ppc /\ offered' = offered /\ at' = at /\ held' = held
      /\ claimed' = claimed /\ got' = got
  BY DEF QuietPull
<1>2. ClaimsAreOffers' /\ TicketsFollowHistory' /\ LoadsFollowClaims' /\ PastTheLineOnce'
  BY <1>1 DEF IInv, ClaimsAreOffers, TicketsFollowHistory, LoadsFollowClaims, PastTheLineOnce,
     Passed, Done, Delivered, AtTicket, Room, Slack
<1>3. WritersHold'
  BY <1>1, ZenonT(40) DEF IInv, WritersHold, WriterHolds, Writing, Done, Delivered, AtTicket
<1>4. StampsFollowHistory'
  BY <1>1 DEF IInv, StampsFollowHistory, Stamped, StampAt, Done, Delivered
<1>5. \A q \in Consumers : q = c \/ (cpc'[q] = cpc[q] /\ cR'[q] = cR[q]
                                     /\ hasHeld'[q] = hasHeld[q] /\ out'[q] = out[q])
  BY DEF QuietPull
<1>6. \A q \in Consumers : hasHeld'[q] => hasHeld[q]
  BY <1>5 DEF KnowsHeld
<1>7. ConsumersHold'
  <2>1. ASSUME NEW q \in Consumers, hasHeld'[q]
        PROVE  ConsumerHolds(q)'
    <3>1. ConsumerHolds(q)
      BY <1>6, <2>1 DEF IInv, ConsumersHold
    <3> QED
      BY <1>1, <1>6, <3>1 DEF ConsumerHolds, HeldTicket, Dequeued, Done, Delivered
  <2>2. ASSUME NEW q \in Consumers
        PROVE  /\ cpc'[q] \in Peeking => ~hasHeld'[q]
               /\ cpc'[q] \notin Peeking \cup {"idle"} => hasHeld'[q]
               /\ cpc'[q] \in {"read", "free"} =>
                      Count(held[q]) < Len(claimed) /\ gen[Slot(held[q])] = Inc(held[q])
               /\ cpc'[q] = "free" => out'[q] = claimed[Count(held[q]) + 1]
    <3>1. CASE q = c
      BY <3>1 DEF KnowsHeld, HeldTicket
    <3>2. CASE q # c
      BY <1>5, <3>2 DEF IInv, ConsumersHold, Reading, HeldTicket
    <3> QED
      BY <3>1, <3>2
  <2> QED
    BY <1>1, <2>1, <2>2 DEF ConsumersHold, Reading, HeldTicket
<1>8. GotIsClaimed'
  <2>1. ASSUME NEW q \in Consumers, NEW i \in 1 .. Len(got[q])
        PROVE  \E t \in 0 .. Len(claimed) - 1 : /\ got[q][i] = claimed[t + 1]
                                                /\ t < Dequeued
                                                /\ hasHeld'[q] => t < HeldTicket(q)
    BY <1>6 DEF IInv, GotIsClaimed
  <2> QED
    BY <1>1, <2>1 DEF GotIsClaimed, Dequeued, HeldTicket
<1>9. ClaimsAreFew'
  <2>1. PICK D \in Nat : D = Dequeued /\ D = Count(dequeueTicket)
    BY DEF IInv, ClaimsAreFew, Dequeued
  <2>2. PICK N \in Nat : N = Len(claimed)
    BY Ranges, Constants
  <2>3. ASSUME NEW q \in Consumers, cpc'[q] \in Peeking
        PROVE  /\ Count(cR'[q]) \in 0 .. D
               /\ cpc'[q] = "claim" => Count(cR'[q]) < N
               /\ Count(cR'[q]) = D \/ (cpc[q] \in Peeking /\ cR'[q] = cR[q])
    <3>1. CASE cpc[q] \in Peeking /\ cR'[q] = cR[q]
                /\ (cpc'[q] = "claim" => PeekedAt(q) < Len(claimed))
      BY <2>1, <2>2, <3>1 DEF IInv, ClaimsAreFew, PeekedAt
    <3>2. CASE cpc'[q] = "peek" /\ cR'[q] = dequeueTicket
      BY <2>1, <3>2
    <3> QED
      BY <1>5, <2>3, <3>1, <3>2 DEF KnowsPeeked, IInv, ClaimsAreFew
  <2>4. ASSUME NEW n \in N .. D
        PROVE  D - n + Cardinality(Armed(n)') <= Crowd
    <3>1. D - n + Cardinality(Armed(n)) <= Crowd
      BY <2>1, <2>2 DEF IInv, ClaimsAreFew
    <3>2. Armed(n)' \subseteq Armed(n) /\ Armed(n) \subseteq Consumers
      <4>1. \A q \in Consumers :
                cpc'[q] \in Peeking /\ Count(cR'[q]) < n
                    => cpc[q] \in Peeking /\ Count(cR[q]) < n
        BY <2>3
      <4> QED
        BY <4>1 DEF Armed, PeekedAt
    <3>3. IsFiniteSet(Armed(n)) /\ Cardinality(Armed(n)) \in Nat
      BY <3>2, Constants, FS_Subset, FS_CardinalityType
    <3>4. Cardinality(Armed(n)') <= Cardinality(Armed(n)) /\ Cardinality(Armed(n)') \in Nat
      BY <3>2, <3>3, FS_Subset, FS_CardinalityType
    <3> QED
      BY <2>1, <2>2, <3>1, <3>3, <3>4, Constants
  <2> QED
    BY <1>1, <2>1, <2>2, <2>3, <2>4 DEF ClaimsAreFew, PeekedAt, Dequeued, Crowd
<1> QED
  BY <1>2, <1>3, <1>4, <1>7, <1>8, <1>9 DEF IInv

LEMMA StartPullKeeps ==
    ASSUME IInv, NEW c \in Consumers, StartPull(c)
    PROVE  IInv'
<1>1. /\ cpc[c] = "idle"
      /\ \/ hasHeld[c] /\ cpc' = [cpc EXCEPT ![c] = "loadGen"] /\ cR' = cR
         \/ /\ ~hasHeld[c] /\ cpc' = [cpc EXCEPT ![c] = "peek"]
            /\ cR' = [cR EXCEPT ![c] = dequeueTicket]
      /\ UNCHANGED <<lanes, slots, counters, producerVars, hasHeld, held, out,
                     claimed, got>>
  BY DEF StartPull, After
<1>2. /\ \/ cpc'[c] = "loadGen" /\ hasHeld[c]
         \/ cpc'[c] = "peek" /\ ~hasHeld[c] /\ cR'[c] = dequeueTicket
      /\ \A q \in Consumers \ {c} : cpc'[q] = cpc[q] /\ cR'[q] = cR[q]
  BY <1>1 DEF IInv, TypeOK
<1>3. TypeOK'
  <2>1. cR' \in [Consumers -> Lane]
    BY <1>1 DEF IInv, TypeOK
  <2>2. cpc' \in [Consumers -> {"idle", "peek", "claim", "loadGen", "read", "free",
                    "loadClosed", "loadFinal"}]
    BY <1>1 DEF IInv, TypeOK
  <2> QED
    BY <1>1, <2>1, <2>2 DEF IInv, TypeOK
<1>4. QuietPull(c)
  BY <1>1, <1>2 DEF QuietPull
<1>5. KnowsHeld(c) /\ KnowsPeeked(c)
  BY <1>1, <1>2 DEF KnowsHeld, KnowsPeeked, Peeking
<1> QED
  BY <1>3, <1>4, <1>5, QuietPullKeeps

LEMMA PeekKeeps ==
    ASSUME IInv, NEW c \in Consumers, Peek(c)
    PROVE  IInv'
<1>1. /\ cpc[c] = "peek"
      /\ \/ cpc' = [cpc EXCEPT ![c] = "idle"]
         \/ ~(SignedDiff(enqueueTicket, cR[c]) <= 0) /\ cpc' = [cpc EXCEPT ![c] = "claim"]
      /\ UNCHANGED <<lanes, slots, counters, producerVars, cR, hasHeld, held, out,
                     claimed, got>>
  BY DEF Peek, After
<1>2. /\ \/ cpc'[c] = "idle"
         \/ cpc'[c] = "claim" /\ ~(SignedDiff(enqueueTicket, cR[c]) <= 0)
      /\ \A q \in Consumers \ {c} : cpc'[q] = cpc[q]
  BY <1>1 DEF IInv, TypeOK
<1>3. TypeOK'
  BY <1>1 DEF IInv, TypeOK
<1>4. QuietPull(c)
  BY <1>1, <1>2 DEF QuietPull
<1>5. cpc[c] \in Peeking /\ ~hasHeld[c]
  BY <1>1 DEF IInv, ConsumersHold, Peeking
<1>6. KnowsHeld(c)
  BY <1>1, <1>2, <1>5 DEF KnowsHeld, Peeking
<1>7. ~(SignedDiff(enqueueTicket, cR[c]) <= 0) => PeekedAt(c) < Len(claimed)
  <2>1. PICK k \in Nat : k = PeekedAt(c) /\ k = Count(cR[c]) /\ k \in 0 .. Dequeued
    BY <1>5, Ranges, Constants DEF IInv, ClaimsAreFew, PeekedAt
  <2>2. k \in Counts /\ cR[c] \in Lane
    BY <2>1, Ranges, Constants DEF Counts, IInv, TypeOK
  <2>3. SignedDiff(enqueueTicket, cR[c]) = Len(claimed) - k
    BY <2>1, <2>2, CountDiff, Ranges
  <2>4. Len(claimed) \in Nat
    BY Ranges, Constants
  <2> QED
    BY <2>1, <2>3, <2>4
<1>8. KnowsPeeked(c)
  BY <1>1, <1>2, <1>5, <1>7 DEF KnowsPeeked
<1> QED
  BY <1>3, <1>4, <1>6, <1>8, QuietPullKeeps

\* The stamp of a held ticket: its frame is there, or is not there yet.
LEMMA StampOfHeld ==
    ASSUME IInv, NEW c \in Consumers, hasHeld[c]
    PROVE  LET d == SignedDiff(gen[Slot(held[c])], Inc(held[c]))
           IN  /\ d \in Int /\ d <= 0
               /\ d = 0 => HeldTicket(c) < Len(claimed) /\ gen[Slot(held[c])] = Inc(held[c])
<1>1. PICK h \in Int : /\ h = HeldTicket(c) /\ h = Count(held[c]) /\ h >= 0 /\ h < Dequeued
                       /\ ~Done(h) /\ h \in Counts
                       /\ held[c] \in Lane /\ held[c] = LaneOf(h) /\ Slot(held[c]) \in Slots
  BY HolderHas DEF HeldTicket
<1>2. PICK N \in Nat, D \in Nat : N = Len(claimed) /\ N \in 0 .. Bound
                                  /\ D = Dequeued /\ D \in 0 .. Bound + Crowd
  BY Ranges, Constants
<1>3. h + 1 \in Counts /\ h \in 0 - Capacity .. Bound + Crowd
  BY <1>1, <1>2, Constants DEF Counts
<1>4. Inc(held[c]) \in Lane /\ Count(Inc(held[c])) = h + 1
  BY <1>1, <1>3, CountInc
<1>5. PICK g \in Lane : g = gen[Slot(held[c])] /\ Count(g) = StampAt(h)
  BY <1>1, StampType DEF IInv, StampAt
<1>6. Stamped(h)
  BY <1>3 DEF IInv, StampsFollowHistory
<1>7. Count(g) \in 0 .. Bound + Capacity /\ Count(g) \in Counts
  <2>1. Count(g) \in 0 .. Bound + Capacity
    BY <1>5, <1>6 DEF Stamped
  <2> QED
    BY <2>1, Constants DEF Counts
<1>8. Count(g) <= h + 1 /\ (Count(g) = h + 1 => h < N)
  <2>1. CASE h >= N
    <3>1. Count(g) <= h
      BY <1>2, <1>5, <1>6, <2>1 DEF Stamped
    <3> QED
      BY <1>1, <1>7, <3>1, Constants
  <2>2. CASE h < N
    <3>1. h \in 0 .. Len(claimed) - 1
      BY <1>1, <1>2, <2>2
    <3>2. Count(g) = h \/ Count(g) = h + 1
      BY <1>1, <1>5, <1>6, <3>1 DEF Stamped
    <3> QED
      BY <1>1, <2>2, <3>2
  <2> QED
    BY <1>1, <1>2, <2>1, <2>2
<1>9. SignedDiff(g, Inc(held[c])) = Count(g) - (h + 1)
  BY <1>3, <1>4, <1>7, CountDiff
<1>10. Count(g) = h + 1 => g = Inc(held[c])
  BY <1>4, SameCount
<1>11. Count(g) \in Int
  BY <1>7, Constants
<1> DEFINE d == SignedDiff(g, Inc(held[c]))
<1>12. PICK y \in Int : y = Count(g) /\ d = y - (h + 1) /\ y <= h + 1
  BY <1>8, <1>9, <1>11
<1> HIDE DEF d
<1>13. d \in Int /\ d <= 0 /\ (d = 0 => Count(g) = h + 1)
  <2>1. h \in Int /\ y \in Int
    BY <1>1
  <2> QED
    BY <1>12, <2>1
<1>14. d = 0 => HeldTicket(c) < Len(claimed) /\ g = Inc(held[c])
  BY <1>1, <1>2, <1>8, <1>10, <1>13
<1> QED
  BY <1>5, <1>13, <1>14 DEF d

LEMMA LoadStampKeeps ==
    ASSUME IInv, NEW c \in Consumers, LoadStamp(c)
    PROVE  IInv'
<1>1. cpc[c] = "loadGen" /\ hasHeld[c]
  BY DEF LoadStamp, IInv, ConsumersHold, Peeking
<1> DEFINE d == SignedDiff(gen[Slot(held[c])], Inc(held[c]))
<1>2. /\ d \in Int /\ d <= 0
      /\ d = 0 => HeldTicket(c) < Len(claimed) /\ gen[Slot(held[c])] = Inc(held[c])
  BY <1>1, StampOfHeld
<1>3. /\ \/ d = 0 /\ cpc' = [cpc EXCEPT ![c] = "read"] /\ hasHeld' = hasHeld
            /\ tornGuarded' = tornGuarded
         \/ d > 0
         \/ cpc' = [cpc EXCEPT ![c] = "loadClosed"] /\ hasHeld' = hasHeld
            /\ tornGuarded' = tornGuarded
      /\ UNCHANGED <<lanes, slots, dropped, stranded, producerVars, cR, held, out,
                     claimed, got>>
  BY DEF LoadStamp, After, Holds
<1> HIDE DEF d
<1>4. ~(d > 0)
  BY <1>2
<1>5. /\ hasHeld' = hasHeld /\ tornGuarded' = tornGuarded
      /\ \/ d = 0 /\ cpc' = [cpc EXCEPT ![c] = "read"]
         \/ cpc' = [cpc EXCEPT ![c] = "loadClosed"]
      /\ (d = 0 /\ cpc'[c] = "read") \/ cpc'[c] = "loadClosed"
      /\ \A q \in Consumers \ {c} : cpc'[q] = cpc[q]
  BY <1>3, <1>4 DEF IInv, TypeOK
<1>6. TypeOK'
  BY <1>3, <1>5 DEF IInv, TypeOK
<1>7. QuietPull(c)
  BY <1>3, <1>5 DEF QuietPull
<1>8. KnowsHeld(c) /\ KnowsPeeked(c)
  BY <1>1, <1>2, <1>5 DEF KnowsHeld, KnowsPeeked, Peeking
<1> QED
  BY <1>6, <1>7, <1>8, QuietPullKeeps

\* A frame that is read is the one the held ticket was claimed for.
LEMMA ReadKeeps ==
    ASSUME IInv, NEW c \in Consumers, Read(c)
    PROVE  IInv'
<1>1. /\ cpc[c] = "read" /\ cpc' = [cpc EXCEPT ![c] = "free"]
      /\ out' = [out EXCEPT ![c] = data[Slot(held[c])]]
      /\ UNCHANGED <<lanes, slots, counters, producerVars, cR, hasHeld, held, claimed, got>>
  BY DEF Read, After
<1>2. Reading(c) /\ hasHeld[c]
  BY <1>1, ReaderHas DEF Reading
<1>3. PICK h \in Int : /\ h = HeldTicket(c) /\ h >= 0 /\ h < Len(claimed) /\ ~Done(h)
                       /\ held[c] = LaneOf(h) /\ h \in Counts /\ StampAt(h) = h + 1
                       /\ gen[Slot(held[c])] = Inc(held[c]) /\ Slot(held[c]) \in Slots
  BY <1>2, ReaderHas, HolderHas
<1>4. data[Slot(held[c])] = claimed[h + 1]
  <2>1. h \in 0 - Capacity .. Bound + Crowd /\ h \in 0 .. Len(claimed) - 1
    BY <1>3, Ranges, Constants DEF Counts
  <2>2. Stamped(h)
    BY <2>1 DEF IInv, StampsFollowHistory
  <2>3. h + 1 # h
    BY <1>3
  <2> QED
    BY <1>3, <2>1, <2>2, <2>3 DEF Stamped
<1>5. /\ cpc'[c] = "free" /\ out'[c] = data[Slot(held[c])]
      /\ \A q \in Consumers \ {c} : cpc'[q] = cpc[q] /\ out'[q] = out[q]
  BY <1>1 DEF IInv, TypeOK
<1>6. TypeOK'
  <2>1. out' \in [Consumers -> Frames \cup {Nothing}]
    BY <1>1, <1>3 DEF IInv, TypeOK
  <2> QED
    BY <1>1, <2>1 DEF IInv, TypeOK
<1>7. QuietPull(c)
  BY <1>1, <1>5 DEF QuietPull
<1>8. KnowsHeld(c) /\ KnowsPeeked(c)
  BY <1>1, <1>2, <1>3, <1>4, <1>5 DEF KnowsHeld, KnowsPeeked, Peeking
<1> QED
  BY <1>6, <1>7, <1>8, QuietPullKeeps

LEMMA LoadClosedKeeps ==
    ASSUME IInv, NEW c \in Consumers, LoadClosed(c)
    PROVE  IInv'
<1>1. /\ cpc[c] = "loadClosed"
      /\ \/ cpc' = [cpc EXCEPT ![c] = "loadFinal"]
         \/ cpc' = [cpc EXCEPT ![c] = "idle"]
      /\ UNCHANGED <<lanes, slots, counters, producerVars, cR, hasHeld, held, out,
                     claimed, got>>
  BY DEF LoadClosed, After
<1>2. cpc'[c] \in {"loadFinal", "idle"} /\ \A q \in Consumers \ {c} : cpc'[q] = cpc[q]
  BY <1>1 DEF IInv, TypeOK
<1>3. TypeOK'
  BY <1>1 DEF IInv, TypeOK
<1>4. QuietPull(c) /\ hasHeld[c]
  BY <1>1, <1>2 DEF QuietPull, IInv, ConsumersHold, Peeking
<1>5. KnowsHeld(c) /\ KnowsPeeked(c)
  BY <1>1, <1>2, <1>4 DEF KnowsHeld, KnowsPeeked, Peeking
<1> QED
  BY <1>3, <1>4, <1>5, QuietPullKeeps

LEMMA LoadFinalKeeps ==
    ASSUME IInv, NEW c \in Consumers, LoadFinal(c)
    PROVE  IInv'
<1>1. /\ cpc[c] = "loadFinal" /\ cpc' = [cpc EXCEPT ![c] = "idle"] /\ stranded' \in Nat
      /\ hasHeld' = [hasHeld EXCEPT ![c] = FALSE] \/ hasHeld' = hasHeld
      /\ UNCHANGED <<lanes, slots, dropped, tornGuarded, producerVars, cR, held, out,
                     claimed, got>>
  BY DEF LoadFinal, After, Release, IInv, TypeOK
<1>2. /\ cpc'[c] = "idle" /\ (hasHeld'[c] => hasHeld[c])
      /\ \A q \in Consumers \ {c} : cpc'[q] = cpc[q] /\ hasHeld'[q] = hasHeld[q]
  <2>1. hasHeld[c] /\ hasHeld \in [Consumers -> BOOLEAN]
    BY <1>1 DEF IInv, ConsumersHold, Peeking, TypeOK
  <2> QED
    BY <1>1, <2>1 DEF IInv, TypeOK
<1>3. TypeOK'
  <2>1. hasHeld' \in [Consumers -> BOOLEAN]
    BY <1>1 DEF IInv, TypeOK
  <2> QED
    BY <1>1, <2>1 DEF IInv, TypeOK
<1>4. QuietPull(c)
  BY <1>1, <1>2 DEF QuietPull
<1>5. KnowsHeld(c) /\ KnowsPeeked(c)
  BY <1>2 DEF KnowsHeld, KnowsPeeked, Peeking
<1> QED
  BY <1>3, <1>4, <1>5, QuietPullKeeps

-------------------------------------------------------------------------------
(* A consumer claims the next ticket *)

\* The ticket a consumer draws was not handed out, and nobody else holds it.
LEMMA ClaimNextKeeps ==
    ASSUME IInv, NEW c \in Consumers, ClaimNext(c)
    PROVE  IInv'
<1>1. /\ cpc[c] = "claim" /\ dequeueTicket' = Inc(dequeueTicket)
      /\ \/ cpc' = [cpc EXCEPT ![c] = "idle"] /\ hasHeld' = hasHeld /\ held' = held
         \/ /\ cpc' = [cpc EXCEPT ![c] = "loadGen"]
            /\ hasHeld' = [hasHeld EXCEPT ![c] = TRUE]
            /\ held' = [held EXCEPT ![c] = dequeueTicket]
      /\ UNCHANGED <<enqueueTicket, frontier, closed, slots, counters, producerVars,
                     cR, out, claimed, got>>
  BY DEF ClaimNext, After, ClaimedTicket
<1>2. PICK N \in Nat, D \in Nat :
          /\ N = Len(claimed) /\ N \in 0 .. Bound
          /\ D = Count(dequeueTicket) /\ D = Dequeued /\ D \in 0 .. Bound + Crowd
          /\ dequeueTicket \in Lane
  BY Ranges, Constants DEF Dequeued
<1>3. D \in Counts /\ D + 1 \in Counts
  BY <1>2, Constants DEF Counts
<1>4. dequeueTicket' \in Lane /\ Count(dequeueTicket') = D + 1
  BY <1>1, <1>2, <1>3, CountInc
<1>5. ~hasHeld[c]
  BY <1>1 DEF IInv, ConsumersHold, Peeking
<1>6. /\ \/ cpc'[c] = "idle" /\ ~hasHeld'[c]
         \/ cpc'[c] = "loadGen" /\ hasHeld'[c] /\ held'[c] = dequeueTicket
      /\ \A q \in Consumers \ {c} :
             cpc'[q] = cpc[q] /\ hasHeld'[q] = hasHeld[q] /\ held'[q] = held[q]
  BY <1>1, <1>5 DEF IInv, TypeOK
<1>7. TypeOK'
  <2>1. hasHeld' \in [Consumers -> BOOLEAN]
    BY <1>1 DEF IInv, TypeOK
  <2>2. held' \in [Consumers -> Lane]
    BY <1>1, <1>2 DEF IInv, TypeOK
  <2>3. cpc' \in [Consumers -> {"idle", "peek", "claim", "loadGen", "read", "free",
                    "loadClosed", "loadFinal"}]
    BY <1>1 DEF IInv, TypeOK
  <2> QED
    BY <1>1, <1>4, <2>1, <2>2, <2>3 DEF IInv, TypeOK
<1>8. /\ enqueueTicket' = enqueueTicket /\ frontier' = frontier
      /\ gen' = gen /\ data' = data /\ tornGuarded' = tornGuarded
      /\ ppc' = ppc /\ offered' = offered /\ at' = at /\ cR' = cR /\ out' = out
      /\ claimed' = claimed /\ got' = got
  BY <1>1
<1>9. ClaimsAreOffers' /\ TicketsFollowHistory' /\ LoadsFollowClaims' /\ PastTheLineOnce'
  BY <1>8 DEF IInv, ClaimsAreOffers, TicketsFollowHistory, LoadsFollowClaims, PastTheLineOnce,
     Passed, Done, Delivered, AtTicket, Room, Slack
<1>10. WritersHold'
  BY <1>8, ZenonT(40) DEF IInv, WritersHold, WriterHolds, Writing, Done, Delivered, AtTicket
<1>11. StampsFollowHistory'
  BY <1>8 DEF IInv, StampsFollowHistory, Stamped, StampAt, Done, Delivered
<1>12. ~Done(D)
  <2>1. CASE D >= N
    BY <1>2, <2>1 DEF Done
  <2>2. CASE D < N
    BY <1>2, <2>2, DoneIsDequeued
  <2> QED
    BY <1>2, <2>1, <2>2
<1>13. \A q \in Consumers \ {c} : hasHeld[q] =>
           /\ Count(held[q]) \in 0 .. D - 1 /\ ~Done(Count(held[q]))
           /\ \A r \in Consumers \ {q} : hasHeld[r] => Count(held[r]) # Count(held[q])
  BY <1>2 DEF IInv, ConsumersHold, ConsumerHolds, HeldTicket
<1>14. ConsumersHold'
  <2>1. ASSUME NEW q \in Consumers, hasHeld'[q]
        PROVE  /\ Count(held'[q]) \in 0 .. (D + 1) - 1 /\ ~Done(Count(held'[q]))
               /\ \A r \in Consumers \ {q} : hasHeld'[r] => Count(held'[r]) # Count(held'[q])
    <3>1. CASE q = c
      <4>1. Count(held'[c]) = D
        BY <1>2, <1>6, <2>1, <3>1
      <4>2. ASSUME NEW r \in Consumers \ {c}, hasHeld'[r]
            PROVE  Count(held'[r]) # D
        <5>1. Count(held'[r]) \in 0 .. D - 1
          BY <1>6, <1>13, <4>2
        <5> QED
          BY <1>2, <5>1
      <4> QED
        BY <1>2, <1>12, <3>1, <4>1, <4>2
    <3>2. CASE q # c
      <4>1. PICK k \in 0 .. D - 1 : k = Count(held'[q]) /\ ~Done(k)
        BY <1>6, <1>13, <2>1, <3>2
      <4>2. ASSUME NEW r \in Consumers \ {q}, hasHeld'[r]
            PROVE  Count(held'[r]) # k
        <5>1. CASE r = c
          <6>1. Count(held'[r]) = D
            BY <1>2, <1>6, <4>2, <5>1
          <6> QED
            BY <1>2, <4>1, <6>1
        <5>2. CASE r # c
          BY <1>6, <1>13, <2>1, <3>2, <4>1, <4>2, <5>2
        <5> QED
          BY <5>1, <5>2
      <4>3. k \in 0 .. (D + 1) - 1
        BY <1>2, <4>1
      <4> QED
        BY <4>1, <4>2, <4>3
    <3> QED
      BY <3>1, <3>2
  <2>2. ASSUME NEW q \in Consumers, hasHeld'[q]
        PROVE  ConsumerHolds(q)'
    <3>1. PICK k : k = Count(held'[q]) /\ ~Done(k)
      BY <2>1, <2>2
    <3>2. ~Done(Count(held[q]))'
      BY <1>8, <3>1 DEF Done, Delivered
    <3> QED
      BY <1>4, <2>1, <2>2, <3>2 DEF ConsumerHolds, HeldTicket, Dequeued
  <2>3. ASSUME NEW q \in Consumers
        PROVE  /\ cpc'[q] \in Peeking => ~hasHeld'[q]
               /\ cpc'[q] \notin Peeking \cup {"idle"} => hasHeld'[q]
               /\ cpc'[q] \in {"read", "free"} =>
                      Count(held'[q]) < N /\ gen[Slot(held'[q])] = Inc(held'[q])
               /\ cpc'[q] = "free" => out[q] = claimed[Count(held'[q]) + 1]
    <3>1. CASE q = c
      BY <1>6, <3>1 DEF Peeking
    <3>2. CASE q # c
      BY <1>2, <1>6, <3>2 DEF IInv, ConsumersHold, Reading, HeldTicket
    <3> QED
      BY <3>1, <3>2
  <2> QED
    BY <1>2, <1>8, <2>2, <2>3 DEF ConsumersHold, Reading, HeldTicket
<1>15. GotIsClaimed'
  <2>1. ASSUME NEW q \in Consumers, NEW i \in 1 .. Len(got[q])
        PROVE  \E t \in 0 .. N - 1 : /\ got[q][i] = claimed[t + 1]
                                     /\ t < D + 1
                                     /\ hasHeld'[q] => t < Count(held'[q])
    <3>1. PICK t \in 0 .. N - 1 : /\ got[q][i] = claimed[t + 1]
                                  /\ t < D
                                  /\ hasHeld[q] => t < Count(held[q])
      BY <1>2 DEF IInv, GotIsClaimed, HeldTicket
    <3>2. t < D + 1
      BY <1>2, <3>1
    <3>3. hasHeld'[q] => t < Count(held'[q])
      BY <1>2, <1>6, <3>1
    <3> QED
      BY <3>1, <3>2, <3>3
  <2> QED
    BY <1>2, <1>4, <1>8, <2>1 DEF GotIsClaimed, Dequeued, HeldTicket
<1>16. ClaimsAreFew'
  <2>1. PICK k \in Int : k = Count(cR[c]) /\ k < N
    <3>1. PeekedAt(c) \in 0 .. Dequeued /\ PeekedAt(c) < Len(claimed)
      BY <1>1 DEF IInv, ClaimsAreFew, Peeking
    <3> QED
      BY <1>2, <3>1 DEF PeekedAt
  <2>2. ASSUME NEW n \in N .. D + 1
        PROVE  (D + 1) - n + Cardinality(Armed(n)') <= Crowd
    <3> DEFINE B == {q \in Consumers : cpc'[q] \in Peeking /\ Count(cR[q]) < n}
    <3>1. Armed(n)' = B
      BY <1>8 DEF Armed, PeekedAt
    <3>2. B = Armed(n) \ {c}
      BY <1>6 DEF Armed, PeekedAt, Peeking
    <3>3. c \in Armed(n)
      BY <1>1, <1>2, <2>1, <2>2 DEF Armed, PeekedAt, Peeking
    <3>4. Armed(n) \subseteq Consumers
      BY DEF Armed
    <3> HIDE DEF B
    <3>5. PICK A \in Nat : /\ A = Cardinality(Armed(n)) /\ A <= Crowd
                           /\ Cardinality(B) = A - 1
      <4>1. IsFiniteSet(Armed(n)) /\ Cardinality(Armed(n)) <= Crowd
            /\ Cardinality(Armed(n)) \in Nat
        BY <3>4, Constants, FS_Subset, FS_CardinalityType DEF Crowd
      <4>2. Cardinality(Armed(n) \ {c}) = Cardinality(Armed(n)) - 1
        BY <3>3, <4>1, FS_RemoveElement
      <4> QED
        BY <3>2, <4>1, <4>2
    <3>6. CASE n = D + 1
      BY <1>2, <3>1, <3>5, <3>6, Constants
    <3>7. CASE n # D + 1
      <4>1. n \in N .. D
        BY <1>2, <3>7
      <4>2. D - n + A <= Crowd
        BY <1>2, <3>5, <4>1 DEF IInv, ClaimsAreFew
      <4> QED
        BY <1>2, <3>1, <3>5, <4>1, <4>2, Constants
    <3> QED
      BY <3>6, <3>7
  <2>3. ASSUME NEW q \in Consumers, cpc'[q] \in Peeking
        PROVE  Count(cR[q]) \in 0 .. D + 1 /\ (cpc'[q] = "claim" => Count(cR[q]) < N)
    <3>1. q # c /\ cpc'[q] = cpc[q]
      BY <1>6, <2>3 DEF Peeking
    <3>2. PICK m \in 0 .. D : m = Count(cR[q]) /\ (cpc[q] = "claim" => m < N)
      BY <1>2, <2>3, <3>1 DEF IInv, ClaimsAreFew, PeekedAt
    <3> QED
      BY <1>2, <3>1, <3>2
  <2>4. D + 1 \in Nat
    BY <1>2
  <2> QED
    BY <1>2, <1>4, <1>8, <2>2, <2>3, <2>4 DEF ClaimsAreFew, PeekedAt, Dequeued, Crowd
<1> QED
  BY <1>7, <1>9, <1>10, <1>11, <1>14, <1>15, <1>16 DEF IInv

-------------------------------------------------------------------------------
(* A consumer frees its slot, and the frame is delivered *)

HandedOut == UNION {Range(got[q]) : q \in Consumers}

LEMMA Delivers ==
    ASSUME IInv, NEW c \in Consumers, FreeSlot(c)
    PROVE  LET h == HeldTicket(c) IN
           /\ out[c] = claimed[h + 1] /\ out[c] \in Frames
           /\ got' = [got EXCEPT ![c] = Append(@, out[c])]
           /\ \A t \in Int : Done(t)' <=> (Done(t) \/ t = h)
           /\ \A n \in Int : Passed(n) => Passed(n)'
           /\ HandedOut' = HandedOut \cup {out[c]}
<1>1. /\ cpc[c] = "free" /\ claimed' = claimed
      /\ got' = [got EXCEPT ![c] = Append(got[c], out[c])]
  BY DEF FreeSlot
<1>2. Reading(c)
  BY <1>1 DEF Reading
<1>3. PICK h \in Int, N \in Nat : /\ h = HeldTicket(c) /\ N = Len(claimed)
                                  /\ h >= 0 /\ h < N /\ ~Done(h)
  BY <1>2, ReaderHas, HolderHas, Ranges, Constants
<1>4. out[c] = claimed[h + 1] /\ h + 1 \in 1 .. Len(claimed)
  BY <1>1, <1>3 DEF IInv, ConsumersHold
<1>5. out[c] \in Frames
  BY <1>4 DEF IInv, TypeOK
<1>6. HandedOut' = HandedOut \cup {out[c]}
  <2>1. got[c] \in Seq(Frames) /\ got'[c] = Append(got[c], out[c])
    BY <1>1 DEF IInv, TypeOK
  <2>2. Range(got'[c]) = Range(got[c]) \cup {out[c]}
    <3>1. PICK s \in Seq(Frames), e \in Frames : s = got[c] /\ e = out[c]
      BY <1>5, <2>1
    <3>2. /\ DOMAIN s = 1 .. Len(s) /\ Len(s) \in Nat
          /\ DOMAIN Append(s, e) = 1 .. Len(s) + 1
          /\ Append(s, e)[Len(s) + 1] = e
          /\ \A i \in 1 .. Len(s) : Append(s, e)[i] = s[i]
      OBVIOUS
    <3>3. \A i \in 1 .. Len(s) + 1 : i \in 1 .. Len(s) \/ i = Len(s) + 1
      BY <3>2
    <3>4. Len(s) + 1 \in 1 .. Len(s) + 1 /\ \A i \in 1 .. Len(s) : i \in 1 .. Len(s) + 1
      BY <3>2
    <3>5. {Append(s, e)[i] : i \in 1 .. Len(s) + 1} = {s[i] : i \in 1 .. Len(s)} \cup {e}
      BY <3>2, <3>3, <3>4
    <3> QED
      BY <2>1, <3>1, <3>2, <3>5 DEF Range
  <2>3. \A q \in Consumers \ {c} : got'[q] = got[q]
    BY <1>1 DEF IInv, TypeOK
  <2> QED
    BY <2>2, <2>3 DEF HandedOut
<1>7. ASSUME NEW t \in Int
      PROVE  Done(t)' <=> (Done(t) \/ t = h)
  <2>1. CASE t \in 0 .. N - 1
    <3>1. t + 1 \in 1 .. Len(claimed) /\ ~(t < 0) /\ t < Len(claimed)
      BY <1>3, <2>1
    <3>2. Done(t) <=> claimed[t + 1] \in HandedOut
      BY <3>1 DEF Done, Delivered, HandedOut
    <3>3. Done(t)' <=> claimed[t + 1] \in HandedOut'
      BY <1>1, <3>1 DEF Done, Delivered, HandedOut
    <3>4. claimed[t + 1] = out[c] => t + 1 = h + 1
      BY <1>4, <3>1, DistinctFrames DEF IInv
    <3>5. t + 1 = h + 1 => t = h
      BY <1>3
    <3> QED
      BY <1>4, <1>6, <3>2, <3>3, <3>4, <3>5
  <2>2. CASE t \notin 0 .. N - 1
    <3>1. (t < 0 \/ ~(t < N)) /\ t # h
      BY <1>3, <2>2
    <3> QED
      BY <1>1, <1>3, <3>1 DEF Done
  <2> QED
    BY <2>1, <2>2
<1>8. ASSUME NEW n \in Int, Passed(n)
      PROVE  Passed(n)'
  BY <1>7, <1>8 DEF Passed
<1> QED
  BY <1>1, <1>3, <1>4, <1>5, <1>6, <1>7, <1>8

\* The slot's stamp goes a lap ahead of the ticket, every other stamp stays.
LEMMA FreeStamps ==
    ASSUME IInv, NEW c \in Consumers, FreeSlot(c),
           NEW t \in 0 - Capacity .. Bound + Crowd
    PROVE  Stamped(t)'
<1>1. /\ cpc[c] = "free" /\ gen' = [gen EXCEPT ![Slot(held[c])] = Add(held[c], Capacity)]
      /\ claimed' = claimed /\ data' = data
  BY DEF FreeSlot
<1>2. Reading(c)
  BY <1>1 DEF Reading
<1>3. PICK h \in Int, N \in Nat :
          /\ h = HeldTicket(c) /\ h = Count(held[c]) /\ N = Len(claimed) /\ N \in 0 .. Bound
          /\ h >= 0 /\ h < N /\ ~Done(h) /\ h \in Counts /\ h >= N - Capacity
          /\ held[c] \in Lane /\ held[c] = LaneOf(h) /\ Slot(held[c]) \in Slots
  BY <1>2, ReaderHas, HolderHas, Ranges, Constants, Window DEF HeldTicket
<1>4. /\ t \in Int /\ t \in Counts /\ t >= 0 - Capacity /\ t <= Bound + Crowd
      /\ h + Capacity \in Counts /\ h + Capacity \in 0 .. Bound + Capacity
  BY <1>3, Constants DEF Counts
<1>5. Count(Add(held[c], Capacity)) = h + Capacity
  BY <1>3, <1>4, CountAdd
<1>6. Done(t)' <=> (Done(t) \/ t = h)
  BY <1>3, <1>4, Delivers
<1>7. gen \in [Slots -> Lane] /\ Stamped(t) /\ Slot(LaneOf(t)) \in Slots
  BY <1>4, StampType DEF IInv, TypeOK, StampsFollowHistory
<1>8. CASE Slot(LaneOf(t)) # Slot(held[c])
  <2>1. StampAt(t)' = StampAt(t)
    BY <1>1, <1>3, <1>7, <1>8 DEF StampAt
  <2>2. t # h
    BY <1>3, <1>8
  <2> QED
    BY <1>1, <1>6, <1>7, <2>1, <2>2 DEF Stamped
<1>9. CASE Slot(LaneOf(t)) = Slot(held[c])
  <2>1. StampAt(t)' = h + Capacity
    BY <1>1, <1>3, <1>5, <1>7, <1>9 DEF StampAt
  <2>2. t = h \/ t - h >= Capacity \/ h - t >= Capacity
    BY <1>3, <1>4, <1>9, SameSlot
  <2>3. t >= N => h + Capacity <= t
    BY <1>3, <1>4, <2>2, Constants
  <2>4. Done(t)' => h + Capacity >= t + Capacity
    <3>1. CASE t > h
      <4>1. t >= N /\ t # h /\ ~(t < 0)
        BY <1>3, <1>4, <2>2, <3>1, Constants
      <4>2. ~Done(t)
        BY <1>3, <1>4, <4>1 DEF Done
      <4> QED
        BY <1>6, <4>1, <4>2
    <3>2. CASE t <= h
      BY <1>3, <1>4, <3>2, Constants
    <3> QED
      BY <1>3, <1>4, <3>1, <3>2
  <2>5. t \in 0 .. N - 1 => Done(t)'
    <3>1. CASE t = h
      BY <1>6, <3>1
    <3>2. CASE t # h /\ t < N
      <4>1. Done(t)
        BY <1>3, <1>4, <1>9, <3>2, OneSlotEach
      <4> QED
        BY <1>6, <4>1
    <3> QED
      BY <1>3, <1>4, <3>1, <3>2
  <2> QED
    BY <1>1, <1>3, <1>4, <2>1, <2>3, <2>4, <2>5 DEF Stamped
<1> QED
  BY <1>8, <1>9

LEMMA FreeSlotKeeps ==
    ASSUME IInv, NEW c \in Consumers, FreeSlot(c)
    PROVE  IInv'
<1>1. /\ cpc[c] = "free" /\ cpc' = [cpc EXCEPT ![c] = "idle"]
      /\ gen' = [gen EXCEPT ![Slot(held[c])] = Add(held[c], Capacity)]
      /\ hasHeld' = [hasHeld EXCEPT ![c] = FALSE]
      /\ UNCHANGED <<lanes, data, counters, producerVars, cR, held, out, claimed>>
  BY DEF FreeSlot, After, Release
<1>2. Reading(c) /\ hasHeld[c]
  BY <1>1, ReaderHas DEF Reading
<1>3. PICK h \in Int, N \in Nat :
          /\ h = HeldTicket(c) /\ h = Count(held[c]) /\ N = Len(claimed) /\ N \in 0 .. Bound
          /\ h >= 0 /\ h < N /\ ~Done(h) /\ h \in Counts /\ h < Dequeued
          /\ held[c] \in Lane /\ held[c] = LaneOf(h) /\ Slot(held[c]) \in Slots
  BY <1>2, ReaderHas, HolderHas, Ranges, Constants DEF HeldTicket
<1>4. /\ out[c] = claimed[h + 1] /\ out[c] \in Frames
      /\ got' = [got EXCEPT ![c] = Append(got[c], out[c])]
      /\ \A t \in Int : Done(t)' <=> (Done(t) \/ t = h)
      /\ \A n \in Int : Passed(n) => Passed(n)'
  BY <1>3, Delivers
<1>5. Add(held[c], Capacity) \in Lane
  <2>1. h + Capacity \in Counts
    BY <1>3, Constants DEF Counts
  <2> QED
    BY <1>3, <2>1, CountAdd
<1>6. /\ cpc'[c] = "idle" /\ ~hasHeld'[c]
      /\ \A q \in Consumers \ {c} : cpc'[q] = cpc[q] /\ hasHeld'[q] = hasHeld[q]
                                    /\ got'[q] = got[q]
      /\ got'[c] = Append(got[c], out[c])
      /\ \A s \in Slots \ {Slot(held[c])} : gen'[s] = gen[s]
  BY <1>1, <1>4 DEF IInv, TypeOK
<1>7. /\ enqueueTicket' = enqueueTicket /\ dequeueTicket' = dequeueTicket
      /\ frontier' = frontier /\ tornGuarded' = tornGuarded /\ data' = data
      /\ ppc' = ppc /\ offered' = offered /\ at' = at
      /\ cR' = cR /\ held' = held /\ out' = out /\ claimed' = claimed
  BY <1>1
<1> DEFINE StillPassed(n) == \A t \in 0 .. n - 1 : Done(t)'
<1>8. \A n \in Int : Passed(n) => StillPassed(n)
  BY <1>4 DEF Passed
<1> HIDE DEF StillPassed
<1>9. TypeOK'
  <2>1. gen' \in [Slots -> Lane]
    BY <1>1, <1>5 DEF IInv, TypeOK
  <2>2. got' \in [Consumers -> Seq(Frames)]
    BY <1>4 DEF IInv, TypeOK
  <2>3. hasHeld' \in [Consumers -> BOOLEAN]
    BY <1>1 DEF IInv, TypeOK
  <2>4. cpc' \in [Consumers -> {"idle", "peek", "claim", "loadGen", "read", "free",
                    "loadClosed", "loadFinal"}]
    BY <1>1 DEF IInv, TypeOK
  <2> QED
    BY <1>1, <2>1, <2>2, <2>3, <2>4 DEF IInv, TypeOK
<1>10. ClaimsAreOffers'
  BY <1>7 DEF IInv, ClaimsAreOffers
<1>11. TicketsFollowHistory'
  <2>1. Passed(N - Capacity) /\ N - Capacity \in Int
    BY <1>3, Constants DEF IInv, TicketsFollowHistory
  <2>2. Count(frontier) \in 0 .. N /\ Passed(Count(frontier)) /\ enqueueTicket = LaneOf(N)
        /\ tornGuarded = 0
    BY <1>3 DEF IInv, TicketsFollowHistory
  <2>3. \A q \in Producers : ppc[q] \in Scanning =>
            Count(at[q]) \in 0 .. N /\ Passed(Count(at[q]))
    BY <1>3 DEF IInv, TicketsFollowHistory, AtTicket
  <2>4. \A k \in 0 .. N : k \in Int
    OBVIOUS
  <2>5. StillPassed(N - Capacity) /\ StillPassed(Count(frontier))
    BY <1>8, <2>1, <2>2, <2>4
  <2>6. \A q \in Producers : ppc[q] \in Scanning =>
            Count(at[q]) \in 0 .. N /\ StillPassed(Count(at[q]))
    BY <1>8, <2>3, <2>4
  <2> QED
    BY <1>3, <1>7, <2>2, <2>5, <2>6 DEF StillPassed, TicketsFollowHistory, Passed, AtTicket
<1>12. LoadsFollowClaims'
  <2>1. ASSUME NEW q \in Producers, ppc[q] \in Loaded
        PROVE  /\ Count(at[q]) \in 0 .. N
               /\ \A i \in Count(at[q]) + 1 .. N : claimed[i][1] # q
               /\ ppc[q] = "claim" => StillPassed(Count(at[q]) + 1 - Room)
    <3>1. PICK a \in Int : /\ a = Count(at[q]) /\ a \in 0 .. N
                           /\ \A i \in a + 1 .. N : claimed[i][1] # q
                           /\ ppc[q] = "claim" => Passed(a + 1 - Room)
      BY <1>3, <2>1 DEF IInv, LoadsFollowClaims, AtTicket
    <3>2. a + 1 - Room \in Int
      BY Constants
    <3> QED
      BY <1>8, <3>1, <3>2
  <2> QED
    BY <1>3, <1>7, <2>1 DEF StillPassed, LoadsFollowClaims, AtTicket, Passed, Room, Slack
<1>13. PastTheLineOnce'
  <2>1. ASSUME NEW i \in 1 .. N, NEW j \in 1 .. N, i < j, claimed[i][1] = claimed[j][1]
        PROVE  StillPassed(i + 1 - Room)
    <3>1. Passed(i + 1 - Room) /\ i + 1 - Room \in Int
      BY <1>3, <2>1, Constants DEF IInv, PastTheLineOnce
    <3> QED
      BY <1>8, <3>1
  <2> QED
    BY <1>3, <1>7, <2>1 DEF StillPassed, PastTheLineOnce, Passed, Room, Slack
<1>14. WritersHold'
  <2>1. ASSUME NEW q \in Producers, Writing(q)
        PROVE  WriterHolds(q)'
    <3>1. WriterHolds(q)
      BY <2>1 DEF IInv, WritersHold
    <3>2. PICK a \in Int : /\ a = Count(at[q]) /\ a = AtTicket(q) /\ ~Done(a)
                           /\ at[q] = LaneOf(a) /\ Slot(at[q]) \in Slots
      BY <2>1, WriterHas DEF AtTicket
    <3>3. Slot(at[q]) # Slot(held[c])
      BY <1>2, <2>1, WriterAndReader
    <3>4. a # h
      BY <1>3, <3>2, <3>3
    <3>5. ~Done(a)'
      BY <1>4, <3>2, <3>4
    <3>6. ~Done(Count(at[q]))' <=> ~Done(a)'
      BY <1>7, <3>2 DEF Done
    <3>7. gen'[Slot(at[q])] = gen[Slot(at[q])]
      BY <1>6, <3>2, <3>3
    <3> QED
      BY <1>7, <3>1, <3>5, <3>6, <3>7 DEF WriterHolds, AtTicket
  <2> QED
    BY <1>7, <2>1 DEF WritersHold, Writing
<1>15. StampsFollowHistory'
  BY FreeStamps DEF StampsFollowHistory
<1>16. ConsumersHold'
  <2>1. ASSUME NEW q \in Consumers \ {c}, hasHeld[q]
        PROVE  ConsumerHolds(q)'
    <3>1. ConsumerHolds(q)
      BY <2>1 DEF IInv, ConsumersHold
    <3>2. PICK k \in Int : k = Count(held[q]) /\ ~Done(k) /\ k = HeldTicket(q)
      BY <2>1, HolderHas DEF HeldTicket
    <3>3. k # h
      BY <1>2, <1>3, <2>1, <3>1, <3>2 DEF ConsumerHolds
    <3>4. ~Done(k)'
      BY <1>4, <3>2, <3>3
    <3>5. ~Done(Count(held[q]))'
      BY <1>7, <3>2, <3>4 DEF Done
    <3>6. \A r \in Consumers : hasHeld'[r] => hasHeld[r]
      BY <1>6
    <3> QED
      BY <1>7, <3>1, <3>5, <3>6 DEF ConsumerHolds, HeldTicket, Dequeued
  <2>2. ASSUME NEW q \in Consumers \ {c}, Reading(q)
        PROVE  gen'[Slot(held[q])] = gen[Slot(held[q])]
    <3>1. PICK k \in Int : /\ k = HeldTicket(q) /\ k < N /\ ~Done(k)
                           /\ held[q] = LaneOf(k) /\ Slot(held[q]) \in Slots
      BY <1>3, <2>2, ReaderHas, HolderHas
    <3>2. hasHeld[q] /\ ConsumerHolds(q)
      BY <2>2, ReaderHas DEF IInv, ConsumersHold
    <3>3. k # h
      BY <1>2, <1>3, <2>2, <3>1, <3>2 DEF ConsumerHolds
    <3>4. Slot(held[q]) # Slot(held[c])
      BY <1>3, <3>1, <3>3, OneSlotEach
    <3> QED
      BY <1>6, <3>1, <3>4
  <2>3. ASSUME NEW q \in Consumers
        PROVE  /\ cpc'[q] \in Peeking => ~hasHeld'[q]
               /\ cpc'[q] \notin Peeking \cup {"idle"} => hasHeld'[q]
               /\ cpc'[q] \in {"read", "free"} =>
                      Count(held[q]) < N /\ gen'[Slot(held[q])] = Inc(held[q])
               /\ cpc'[q] = "free" => out[q] = claimed[Count(held[q]) + 1]
    <3>1. CASE q = c
      BY <1>6, <3>1 DEF Peeking
    <3>2. CASE q # c
      BY <1>3, <1>6, <2>2, <3>2 DEF IInv, ConsumersHold, Reading, HeldTicket
    <3> QED
      BY <3>1, <3>2
  <2>4. \A q \in Consumers : hasHeld'[q] => q # c /\ hasHeld[q]
    BY <1>6
  <2> QED
    BY <1>3, <1>7, <2>1, <2>3, <2>4 DEF ConsumersHold, Reading, HeldTicket
<1>17. GotIsClaimed'
  <2>1. ASSUME NEW q \in Consumers, NEW i \in 1 .. Len(got'[q])
        PROVE  \E t \in 0 .. N - 1 : /\ got'[q][i] = claimed[t + 1]
                                     /\ t < Dequeued
                                     /\ hasHeld'[q] => t < HeldTicket(q)
    <3>1. got[c] \in Seq(Frames)
      BY DEF IInv, TypeOK
    <3>2. CASE q = c /\ i = Len(got[c]) + 1
      <4>1. got'[q][i] = out[c]
        BY <1>4, <1>6, <3>1, <3>2
      <4>2. h \in 0 .. N - 1
        BY <1>3
      <4> QED
        BY <1>3, <1>4, <1>6, <3>2, <4>1, <4>2
    <3>3. CASE i \in 1 .. Len(got[q]) /\ got'[q][i] = got[q][i]
      BY <1>3, <1>6, <3>3 DEF IInv, GotIsClaimed
    <3>4. q = c => \/ i = Len(got[c]) + 1
                   \/ i \in 1 .. Len(got[q]) /\ got'[q][i] = got[q][i]
      <4>1. PICK s \in Seq(Frames), e \in Frames : s = got[c] /\ e = out[c]
        BY <1>4, <3>1
      <4>2. /\ Len(Append(s, e)) = Len(s) + 1 /\ Len(s) \in Nat
            /\ \A k \in 1 .. Len(s) : Append(s, e)[k] = s[k]
        OBVIOUS
      <4>3. q = c => i \in 1 .. Len(Append(s, e))
        BY <1>6, <2>1, <4>1
      <4>4. q = c => i \in 1 .. Len(s) + 1
        BY <4>2, <4>3
      <4>5. \A k \in 1 .. Len(s) + 1 : k = Len(s) + 1 \/ k \in 1 .. Len(s)
        BY <4>2
      <4> QED
        BY <1>6, <4>1, <4>2, <4>4, <4>5
    <3> QED
      BY <1>6, <2>1, <3>2, <3>3, <3>4
  <2> QED
    BY <1>3, <1>7, <2>1 DEF GotIsClaimed, Dequeued, HeldTicket
<1>18. ClaimsAreFew'
  <2>1. \A q \in Consumers : (cpc'[q] \in Peeking <=> cpc[q] \in Peeking)
                             /\ (cpc'[q] = "claim" => cpc[q] = "claim")
    BY <1>1, <1>6 DEF Peeking
  <2>2. \A n : Armed(n)' = Armed(n)
    BY <1>7, <2>1 DEF Armed, PeekedAt
  <2> QED
    BY <1>7, <2>1, <2>2 DEF IInv, ClaimsAreFew, PeekedAt, Dequeued, Crowd
<1> QED
  BY <1>9, <1>10, <1>11, <1>12, <1>13, <1>14, <1>15, <1>16, <1>17, <1>18 DEF IInv

-------------------------------------------------------------------------------
(* The invariant, and what it says *)

LEMMA NextIInv ==
    ASSUME ProducersAreCounted
    PROVE  IInv /\ [Next]_vars => IInv'
<1> SUFFICES ASSUME IInv, [Next]_vars
             PROVE  IInv'
  OBVIOUS
<1>1. ASSUME NEW p \in Producers, StartPush(p)
      PROVE  IInv'
  BY <1>1, StartPushKeeps
<1>2. ASSUME NEW p \in Producers, InPush(p)
      PROVE  IInv'
  BY <1>2, ScanKeeps, CompareFrontierKeeps, StoreFrontierKeeps, LoadTicketKeeps,
     CheckEnvelopeKeeps, ClaimKeeps, WriteKeeps, PublishKeeps DEF InPush
<1>3. CASE Close
  BY <1>3, CloseKeeps
<1>4. ASSUME NEW c \in Consumers, Pull(c)
      PROVE  IInv'
  BY <1>4, StartPullKeeps, PeekKeeps, ClaimNextKeeps, LoadStampKeeps, ReadKeeps,
     FreeSlotKeeps, LoadClosedKeeps, LoadFinalKeeps DEF Pull
<1>5. CASE UNCHANGED vars
  <2>1. /\ enqueueTicket' = enqueueTicket /\ dequeueTicket' = dequeueTicket
        /\ frontier' = frontier /\ gen' = gen /\ data' = data /\ closed' = closed
        /\ dropped' = dropped /\ stranded' = stranded /\ tornGuarded' = tornGuarded
        /\ ppc' = ppc /\ offered' = offered /\ at' = at /\ scanned' = scanned
        /\ cpc' = cpc /\ cR' = cR /\ hasHeld' = hasHeld /\ held' = held /\ out' = out
        /\ claimed' = claimed /\ got' = got
    BY <1>5 DEF vars
  <2>2. TypeOK'
    BY <2>1 DEF IInv, TypeOK
  <2>3. ClaimsAreOffers' /\ TicketsFollowHistory' /\ LoadsFollowClaims' /\ PastTheLineOnce'
    BY <2>1 DEF IInv, ClaimsAreOffers, TicketsFollowHistory, LoadsFollowClaims,
       PastTheLineOnce, Passed, Done, Delivered, AtTicket, Room, Slack
  <2>4. WritersHold'
    BY <2>1, ZenonT(40) DEF IInv, WritersHold, WriterHolds, Writing, Done, Delivered, AtTicket
  <2>5. StampsFollowHistory'
    BY <2>1 DEF IInv, StampsFollowHistory, Stamped, StampAt, Done, Delivered
  <2>6. ConsumersHold'
    BY <2>1 DEF IInv, ConsumersHold, ConsumerHolds, Reading, Dequeued, HeldTicket, Done,
       Delivered
  <2>7. GotIsClaimed' /\ ClaimsAreFew'
    BY <2>1 DEF IInv, GotIsClaimed, ClaimsAreFew, Armed, PeekedAt, Dequeued, HeldTicket
  <2> QED
    BY <2>2, <2>3, <2>4, <2>5, <2>6, <2>7 DEF IInv
<1> QED
  BY <1>1, <1>2, <1>3, <1>4, <1>5 DEF Next

LEMMA Invariance ==
    ASSUME ProducersAreCounted
    PROVE  Spec => []IInv
<1>1. Init => IInv
  BY InitIInv
<1>2. IInv /\ [Next]_vars => IInv'
  BY NextIInv
<1> QED
  BY <1>1, <1>2, PTL DEF Spec

\* The lanes, stamps, held claims and locals keep their types: no count of the
\* competing threads leaves its lane.
THEOREM TypeCorrect ==
    ASSUME ProducersAreCounted
    PROVE  Spec => []TypeOK
<1>1. IInv => TypeOK
  BY DEF IInv
<1> QED
  BY <1>1, Invariance, PTL

\* A producer that claimed a ticket under the envelope (push, MpmcWorkQueue.ts) is in
\* its slot with nobody else, and no consumer finds its slot reused.
THEOREM SlotsStayExclusive ==
    ASSUME ProducersAreCounted
    PROVE  Spec => []SlotsAreExclusive
<1>1. IInv => SlotsAreExclusive
  <2> SUFFICES ASSUME IInv
               PROVE  SlotsAreExclusive
    OBVIOUS
  <2>1. \A p \in Producers : Writing(p) => gen[Slot(at[p])] = at[p]
    BY DEF IInv, WritersHold, WriterHolds
  <2>2. \A c \in Consumers : Reading(c) => gen[Slot(held[c])] = Inc(held[c])
    BY DEF IInv, ConsumersHold
  <2>3. tornGuarded = 0
    BY DEF IInv, TicketsFollowHistory
  <2> QED
    BY <2>1, <2>2, <2>3 DEF SlotsAreExclusive
<1> QED
  BY <1>1, Invariance, PTL

\* advanceFrontier stores the frontier without a guard, yet never past a ticket
\* whose frame was not handed out.
THEOREM FrontierStaysBehind ==
    ASSUME ProducersAreCounted
    PROVE  Spec => []FrontierIsDelivered
<1>1. IInv => FrontierIsDelivered
  <2> SUFFICES ASSUME IInv, NEW i \in 1 .. Len(claimed), SignedDiff(frontier, Seed) >= i
               PROVE  claimed[i] \in Delivered
    BY DEF FrontierIsDelivered
  <2>1. PICK f \in Int : f = SignedDiff(frontier, Seed) /\ f \in 0 .. Len(claimed) /\ Passed(f)
    <3>1. Count(frontier) \in 0 .. Len(claimed) /\ Passed(Count(frontier))
      BY DEF IInv, TicketsFollowHistory
    <3> QED
      BY <3>1 DEF Count
  <2>2. i - 1 \in 0 .. f - 1 /\ ~(i - 1 < 0) /\ (i - 1) + 1 = i
    BY <2>1
  <2>3. Done(i - 1)
    BY <2>1, <2>2 DEF Passed
  <2> QED
    BY <2>2, <2>3 DEF Done
<1> QED
  BY <1>1, Invariance, PTL

-------------------------------------------------------------------------------
(* The queue is a pool *)

PoolNow == {claimed[i] : i \in 1 .. Len(claimed)} \ Delivered
NewestOf == [p \in Producers |-> NewestIn(claimed, p)]
HasNewest == NewestExists(claimed, Producers)

LEMMA PoolIs ==
    /\ PoolNow = {claimed[i] : i \in 1 .. Len(claimed)} \ HandedOut
    /\ PoolNow' = {claimed'[i] : i \in 1 .. Len(claimed')} \ HandedOut'
<1>1. PoolNow = {claimed[i] : i \in 1 .. Len(claimed)} \ HandedOut
  BY DEF PoolNow, Delivered, HandedOut
<1>2. PoolNow' = {claimed'[i] : i \in 1 .. Len(claimed')} \ HandedOut'
  BY DEF PoolNow, Delivered, HandedOut
<1> QED
  BY <1>1, <1>2

\* The frames in the pool have tickets of one ring, and a producer about to claim
\* finds room for one more.
LEMMA PoolHasRoom ==
    ASSUME IInv, ProducersAreCounted, NEW p \in Producers, ppc[p] = "claim"
    PROVE  Cardinality(PoolNow) < Capacity
<1>1. PICK N \in Nat : N = Len(claimed) /\ Passed(N + 1 - Capacity)
  <2>1. Len(claimed) \in Nat
    BY Ranges, Constants
  <2> QED
    BY <2>1, RoomToClaim
<1> DEFINE S == N + 1 - Capacity .. N - 1
           f == [x \in PoolNow |-> CHOOSE t \in S : claimed[t + 1] = x]
<1>2. ASSUME NEW x \in PoolNow
      PROVE  \E t \in S : claimed[t + 1] = x
  <2>1. PICK i \in 1 .. N : claimed[i] = x
    BY <1>1 DEF PoolNow
  <2>2. i - 1 \in Int /\ ~(i - 1 < 0) /\ (i - 1) + 1 = i /\ i - 1 < N
    BY <1>1
  <2>3. ~Done(i - 1)
    BY <2>1, <2>2 DEF Done, PoolNow
  <2>4. i - 1 \notin 0 .. (N + 1 - Capacity) - 1
    BY <1>1, <2>3 DEF Passed
  <2>5. i - 1 \in S
    BY <1>1, <2>2, <2>4, Constants
  <2> QED
    BY <2>1, <2>2, <2>5
<1>3. f \in [PoolNow -> S]
  BY <1>2
<1>4. ASSUME NEW x \in PoolNow, NEW y \in PoolNow, f[x] = f[y]
      PROVE  x = y
  BY <1>2, <1>4
<1>5. IsFiniteSet(S) /\ Cardinality(S) = Capacity - 1
  <2>1. N + 1 - Capacity \in Int /\ N - 1 \in Int /\ ~(N + 1 - Capacity > N - 1)
        /\ (N - 1) - (N + 1 - Capacity) + 1 = Capacity - 1
    BY <1>1, Constants
  <2>2. IsFiniteSet(S) /\ Cardinality(N + 1 - Capacity .. N - 1)
            = IF N + 1 - Capacity > N - 1 THEN 0 ELSE (N - 1) - (N + 1 - Capacity) + 1
    BY <2>1, FS_Interval
  <2> QED
    BY <2>1, <2>2
<1>6. Cardinality(PoolNow) <= Cardinality(S) /\ IsFiniteSet(PoolNow)
  <2> HIDE DEF f, S
  <2>1. f \in Injection(PoolNow, S)
    BY <1>3, <1>4 DEF Injection, IsInjective
  <2> QED
    BY <1>5, <2>1, FS_Injection
<1> QED
  BY <1>5, <1>6, Constants, FS_CardinalityType

\* The pool counts its frames as the queue does.
LEMMA SameCardinality == \A S : Pool!Cardinality(S) = Cardinality(S)
  BY DEF Pool!Cardinality, Cardinality

\* The fetch-add of the enqueue ticket puts a frame into the pool,
LEMMA ClaimPuts ==
    ASSUME IInv, HasNewest, ProducersAreCounted, NEW p \in Producers, Claim(p)
    PROVE  /\ offered[p] \in 1 .. MaxFrames /\ Cardinality(PoolNow) < Capacity
           /\ offered[p] > NewestOf[p] /\ HasNewest'
           /\ PoolNow' = PoolNow \cup {<<p, offered[p]>>}
           /\ NewestOf' = [NewestOf EXCEPT ![p] = offered[p]]
           /\ got' = got
<1> DEFINE e == <<p, offered[p]>>
<1>1. PICK N \in Nat :
          /\ N = Len(claimed) /\ offered[p] \in 1 .. MaxFrames
          /\ Len(claimed') = N + 1 /\ claimed'[N + 1] = e
          /\ \A i \in 1 .. N : claimed'[i] = claimed[i]
          /\ ~Done(N)'
  <2>1. PICK N \in Nat : N = Len(claimed)
    BY Ranges, Constants
  <2>2. ~Done(N)'
    <3>1. N \in Int /\ N >= Len(claimed)
      BY <2>1
    <3> QED
      BY <3>1, ClaimExtends
  <2>3. /\ offered[p] \in 1 .. MaxFrames
        /\ Len(claimed') = N + 1 /\ claimed'[N + 1] = e
        /\ \A i \in 1 .. N : claimed'[i] = claimed[i]
    BY <2>1, ClaimExtends
  <2> QED
    BY <2>1, <2>2, <2>3
<1>2. /\ ppc[p] = "claim" /\ got' = got /\ claimed' = Append(claimed, <<p, offered[p]>>)
  BY DEF Claim
<1>3. Cardinality(PoolNow) < Capacity
  BY <1>2, PoolHasRoom
<1>4. {claimed'[i] : i \in 1 .. N + 1} = {claimed[i] : i \in 1 .. N} \cup {e}
  <2>1. \A i \in 1 .. N + 1 : i \in 1 .. N \/ i = N + 1
    OBVIOUS
  <2>2. N + 1 \in 1 .. N + 1 /\ \A i \in 1 .. N : i \in 1 .. N + 1
    OBVIOUS
  <2> QED
    BY <1>1, <2>1, <2>2
<1>5. HandedOut' = HandedOut
  BY <1>2 DEF HandedOut
<1>6. e \notin HandedOut
  <2>1. e \notin Delivered'
    BY <1>1 DEF Done
  <2>2. e \in {claimed'[i] : i \in 1 .. Len(claimed')}
    BY <1>1, <1>4
  <2>3. Delivered' = {claimed'[i] : i \in 1 .. Len(claimed')} \cap HandedOut'
    BY DEF Delivered, HandedOut
  <2> QED
    BY <1>5, <2>1, <2>2, <2>3
<1>7. PoolNow' = PoolNow \cup {e}
  BY <1>1, <1>4, <1>5, <1>6, PoolIs
<1>8. claimed \in Seq(Producers \X Nat)
  <2>1. claimed \in Seq(Producers \X (1 .. MaxFrames))
    BY DEF IInv, TypeOK, Frames
  <2> QED
    BY <2>1
<1>9. \A i \in 1 .. Len(claimed) : claimed[i][1] = p => claimed[i][2] < offered[p]
  BY <1>2 DEF IInv, ClaimsAreOffers, Trying, Loaded
<1>10. offered[p] \in Nat /\ offered[p] >= 1
  BY SMTT(30), <1>1, Constants
<1>11. /\ offered[p] > NewestIn(claimed, p)
       /\ NewestIn(Append(claimed, <<p, offered[p]>>), p) = offered[p]
       /\ \A q \in Producers \ {p} :
              NewestIn(Append(claimed, <<p, offered[p]>>), q) = NewestIn(claimed, q)
       /\ NewestExists(Append(claimed, <<p, offered[p]>>), Producers)
  BY <1>8, <1>9, <1>10, NewestAppend DEF HasNewest
<1>12. HasNewest'
  <2>1. NewestExists(claimed', Producers)
    BY <1>2, <1>11
  <2> QED
    BY <2>1 DEF HasNewest, NewestExists, NumbersIn
<1>13. NewestOf' = [q \in Producers |-> NewestIn(claimed', q)]
  BY DEF NewestOf, NewestIn, NumbersIn
<1>14. \A q \in Producers :
           NewestIn(claimed', q) = IF q = p THEN offered[p] ELSE NewestOf[q]
  BY <1>2, <1>11 DEF NewestOf
<1>15. NewestOf' = [NewestOf EXCEPT ![p] = offered[p]]
  BY <1>13, <1>14 DEF NewestOf
<1>16. offered[p] > NewestOf[p]
  BY <1>11 DEF NewestOf
<1> QED
  BY <1>1, <1>2, <1>3, <1>7, <1>12, <1>15, <1>16

\* and the store that frees a slot takes one out, newer than all its producer's
\* that this consumer was handed.
LEMMA FreeTakes ==
    ASSUME IInv, NEW c \in Consumers, FreeSlot(c)
    PROVE  /\ out[c] \in PoolNow
           /\ \A i \in 1 .. Len(got[c]) :
                  got[c][i][1] = out[c][1] => got[c][i][2] < out[c][2]
           /\ PoolNow' = PoolNow \ {out[c]}
           /\ got' = [got EXCEPT ![c] = Append(@, out[c])]
           /\ claimed' = claimed
<1>1. cpc[c] = "free" /\ claimed' = claimed
  BY DEF FreeSlot
<1>2. Reading(c) /\ hasHeld[c]
  BY <1>1, ReaderHas DEF Reading
<1>3. PICK h \in Int, N \in Nat : /\ h = HeldTicket(c) /\ N = Len(claimed)
                                  /\ h >= 0 /\ h < N /\ ~Done(h)
  BY <1>2, ReaderHas, HolderHas, Ranges, Constants
<1>4. /\ out[c] = claimed[h + 1] /\ HandedOut' = HandedOut \cup {out[c]}
      /\ got' = [got EXCEPT ![c] = Append(@, out[c])]
  BY <1>3, Delivers
<1>5. h + 1 \in 1 .. N
  BY <1>3
<1>6. out[c] \in PoolNow
  BY <1>3, <1>4, <1>5 DEF Done, PoolNow
<1>7. ASSUME NEW i \in 1 .. Len(got[c]), got[c][i][1] = out[c][1]
      PROVE  got[c][i][2] < out[c][2]
  <2>1. PICK t \in 0 .. N - 1 : got[c][i] = claimed[t + 1] /\ t < h
    BY <1>2, <1>3 DEF IInv, GotIsClaimed
  <2>2. t + 1 \in 1 .. Len(claimed) /\ h + 1 \in 1 .. Len(claimed) /\ t + 1 < h + 1
    BY <1>3, <2>1
  <2> QED
    BY <1>4, <1>7, <2>1, <2>2 DEF IInv, ClaimsAreOffers
<1>8. PoolNow' = PoolNow \ {out[c]}
  BY <1>1, <1>4, PoolIs
<1> QED
  BY <1>1, <1>4, <1>6, <1>7, <1>8

\* Every other step leaves the pool as it is.
LEMMA PoolStays ==
    ASSUME UNCHANGED <<claimed, got>>
    PROVE  PoolNow' = PoolNow /\ NewestOf' = NewestOf /\ (HasNewest => HasNewest')
<1>1. HasNewest => HasNewest'
  <2>1. claimed' = claimed
    OBVIOUS
  <2>2. HasNewest => NewestExists(claimed', Producers)
    BY <2>1 DEF HasNewest
  <2> QED
    BY <2>2 DEF HasNewest, NewestExists, NumbersIn
<1>2. PoolNow' = PoolNow
  BY DEF PoolNow, Delivered
<1>3. NewestOf' = NewestOf
  BY DEF NewestOf, NewestIn, NumbersIn
<1> QED
  BY <1>1, <1>2, <1>3

LEMMA StepSimulates ==
    ASSUME IInv, HasNewest, ProducersAreCounted, [Next]_vars
    PROVE  HasNewest' /\ [Pool!Next]_<<PoolNow, got, NewestOf>>
<1>1. CASE \E p \in Producers : Claim(p)
  <2>1. PICK p \in Producers : Claim(p)
    BY <1>1
  <2>2. Pool!Cardinality(PoolNow) < Capacity
    BY <2>1, ClaimPuts, SameCardinality
  <2>3. PICK n \in 1 .. MaxFrames : n = offered[p] /\ HasNewest'
    BY <2>1, ClaimPuts
  <2>4. Pool!Put(p, n)
    BY <2>1, <2>2, <2>3, ClaimPuts
       DEF Pool!Put, PoolNow, NewestOf, NewestIn, NumbersIn, NumbersOf
  <2>5. Pool!Next
    BY <2>4 DEF Pool!Next
  <2> QED
    BY <2>3, <2>5
<1>2. CASE \E c \in Consumers : FreeSlot(c)
  <2>1. PICK c \in Consumers : FreeSlot(c)
    BY <1>2
  <2>2. HasNewest' /\ NewestOf' = NewestOf
    <3>1. claimed' = claimed
      BY <2>1, FreeTakes
    <3>2. NewestOf' = NewestOf
      BY <3>1 DEF NewestOf, NewestIn, NumbersIn
    <3>3. HasNewest'
      <4>1. NewestExists(claimed, Producers)
        BY DEF HasNewest
      <4>2. NewestExists(claimed', Producers)
        BY <3>1, <4>1
      <4> QED
        BY <4>2 DEF HasNewest, NewestExists, NumbersIn
    <3> QED
      BY <3>2, <3>3
  <2>3. PICK frame \in PoolNow : frame = out[c]
    BY <2>1, FreeTakes
  <2>4. Pool!Take(c, frame)
    BY <2>1, <2>2, <2>3, FreeTakes
       DEF Pool!Take, PoolNow, NewestOf, NewestIn, NumbersIn, NumbersOf
  <2>5. Pool!Next
    BY <2>3, <2>4 DEF Pool!Next, PoolNow
  <2> QED
    BY <2>2, <2>5
<1>3. CASE UNCHANGED <<claimed, got>>
  BY <1>3, PoolStays
<1>4. \/ \E p \in Producers : Claim(p)
      \/ \E c \in Consumers : FreeSlot(c)
      \/ UNCHANGED <<claimed, got>>
  <2>1. CASE \E p \in Producers : StartPush(p) \/ InPush(p)
    BY <2>1 DEF InPush, StartPush, Scan, CompareFrontier, StoreFrontier, LoadTicket,
       CheckEnvelope, Write, Publish
  <2>2. CASE \E c \in Consumers : Pull(c)
    BY <2>2 DEF Pull, StartPull, Peek, ClaimNext, LoadStamp, Read, LoadClosed, LoadFinal
  <2>3. CASE Close \/ UNCHANGED vars
    BY <2>3 DEF Close, vars
  <2> QED
    BY <2>1, <2>2, <2>3 DEF Next
<1> QED
  BY <1>1, <1>2, <1>3, <1>4

LEMMA InitSimulates == Init => HasNewest /\ Pool!Init
<1> SUFFICES ASSUME Init PROVE HasNewest /\ Pool!Init
  OBVIOUS
<1>1. claimed = <<>> /\ got = [c \in Consumers |-> <<>>] /\ Len(claimed) = 0
  BY DEF Init
<1>2. PoolNow = {}
  BY <1>1 DEF PoolNow
<1>3. HasNewest
  BY <1>1, NewestOfNone DEF HasNewest
<1>4. \A p \in Producers : Max({0} \cup NumbersOf(p)) = 0
  BY <1>1, NewestOfNone DEF NewestIn, NumbersIn, NumbersOf
<1>5. [p \in Producers |-> Max({0} \cup NumbersOf(p))] = [p \in Producers |-> 0]
  BY <1>4
<1> QED
  BY <1>1, <1>2, <1>3, <1>5 DEF Pool!Init, PoolNow

\* Every behaviour of the queue is one of the work pool: however pushes and pulls
\* interleave, a frame accepted goes to one consumer at most, no more than CAPACITY
\* are in the queue, and a consumer sees a producer's frames in their order.
THEOREM RefinesWorkPool ==
    ASSUME ProducersAreCounted
    PROVE  Spec => ImplementsWorkPool
<1>1. Init => IInv /\ HasNewest
  BY InitIInv, InitSimulates
<1>2. IInv /\ HasNewest /\ [Next]_vars
          => IInv' /\ HasNewest' /\ [Pool!Next]_<<PoolNow, got, NewestOf>>
  BY NextIInv, StepSimulates
<1>3. Init => Pool!Init
  BY InitSimulates
<1> QED
  BY <1>1, <1>2, <1>3, PTL
     DEF Spec, ImplementsWorkPool, Pool!Spec, PoolNow, NewestOf,
        NewestIn, NumbersIn, NumbersOf

-------------------------------------------------------------------------------
(* After close(): no claim that may name a frame is lost *)

\* pull takes a ticket of the upper half of its lane for "empty" and loses it; the
\* history stays below that.
TicketsStayPositive == Seed + Bound + Crowd <= Half

DrainInv == IInv /\ ClosedIsFinal /\ ClaimsAreHeld

LEMMA ClosedStaysFinal ==
    ASSUME IInv, ClosedIsFinal, [Next]_vars
    PROVE  ClosedIsFinal'
<1>1. (closed => closed') /\ closed \in BOOLEAN /\ closed' \in BOOLEAN
  <2>1. closed \in BOOLEAN
    BY DEF IInv, TypeOK
  <2>2. closed' = closed \/ closed' = TRUE
    BY DEF Next, vars, StartPush, InPush, Scan, CompareFrontier, StoreFrontier, LoadTicket,
       CheckEnvelope, Claim, Write, Publish, Close, Pull, StartPull, Peek, ClaimNext,
       LoadStamp, Read, FreeSlot, LoadClosed, LoadFinal
  <2> QED
    BY <2>1, <2>2
<1> DEFINE Quiet == {"idle", "write", "publish"}
<1>2. ASSUME NEW p \in Producers, closed'
      PROVE  ppc'[p] \in Quiet
  <2>1. CASE Close
    BY <2>1 DEF Close
  <2>2. CASE \E q \in Producers : StartPush(q) \/ InPush(q)
    <3>1. closed' = closed
      BY <2>2 DEF StartPush, InPush, Scan, CompareFrontier, StoreFrontier, LoadTicket,
         CheckEnvelope, Claim, Write, Publish
    <3>2. \A q \in Producers : ppc[q] \in Quiet
      BY <1>2, <3>1 DEF ClosedIsFinal
    <3>3. PICK q \in Producers : StartPush(q) \/ InPush(q)
      BY <2>2
    <3>4. Write(q) \/ Publish(q)
      BY <1>2, <3>1, <3>2, <3>3 DEF StartPush, InPush, Scan, CompareFrontier, StoreFrontier,
         LoadTicket, CheckEnvelope, Claim
    <3>5. ppc \in [Producers -> {"idle", "scan", "compare", "storeFrontier",
                    "loadTicket", "check", "claim", "write", "publish"}]
      BY DEF IInv, TypeOK
    <3>6. ppc' = [ppc EXCEPT ![q] = "publish"] \/ ppc' = [ppc EXCEPT ![q] = "idle"]
      BY <3>4 DEF Write, Publish, After
    <3> QED
      BY <3>2, <3>5, <3>6
  <2>3. CASE (\E c \in Consumers : Pull(c)) \/ UNCHANGED vars
    <3>1. closed' = closed /\ ppc' = ppc
      BY <2>3 DEF vars, Pull, StartPull, Peek, ClaimNext, LoadStamp, Read, FreeSlot,
         LoadClosed, LoadFinal
    <3> QED
      BY <1>2, <3>1 DEF ClosedIsFinal
  <2> QED
    BY <2>1, <2>2, <2>3 DEF Next
<1>3. ASSUME NEW c \in Consumers, cpc'[c] = "loadFinal"
      PROVE  closed'
  <2>1. CASE cpc[c] = "loadFinal"
    BY <1>1, <2>1 DEF ClosedIsFinal
  <2>2. CASE cpc[c] # "loadFinal"
    <3>1. cpc \in [Consumers -> {"idle", "peek", "claim", "loadGen", "read", "free",
                    "loadClosed", "loadFinal"}]
      BY DEF IInv, TypeOK
    <3>2. cpc' # cpc
      BY <1>3, <2>2
    <3>3. PICK q \in Consumers : Pull(q)
      BY <3>2 DEF Next, vars, StartPush, InPush, Scan, CompareFrontier, StoreFrontier,
         LoadTicket, CheckEnvelope, Claim, Write, Publish, Close
    <3>4. PICK s : cpc' = [cpc EXCEPT ![q] = s]
                   /\ (s = "loadFinal" => closed /\ closed' = closed)
      <4>1. CASE LoadClosed(q)
        <5>1. /\ closed => cpc' = [cpc EXCEPT ![q] = "loadFinal"] /\ closed' = closed
              /\ ~closed => cpc' = [cpc EXCEPT ![q] = "idle"]
          BY <4>1 DEF LoadClosed, After
        <5>2. "idle" # "loadFinal"
          OBVIOUS
        <5> QED
          BY <5>1, <5>2
      <4>2. CASE LoadStamp(q)
        BY <4>2 DEF LoadStamp, After
      <4>3. CASE StartPull(q) \/ Peek(q)
        BY <4>3 DEF StartPull, Peek, After
      <4>4. CASE ClaimNext(q) \/ Read(q)
        BY <4>4 DEF ClaimNext, Read, After
      <4>5. CASE FreeSlot(q) \/ LoadFinal(q)
        BY <4>5 DEF FreeSlot, LoadFinal, After
      <4> QED
        BY <3>3, <4>1, <4>2, <4>3, <4>4, <4>5 DEF Pull
    <3> QED
      BY <1>3, <2>2, <3>1, <3>4
  <2> QED
    BY <2>1, <2>2
<1> QED
  BY <1>2, <1>3 DEF ClosedIsFinal

\* A claim stays held, or its frame is handed out.
LEMMA HeldStays ==
    ASSUME ClaimsAreHeld, UNCHANGED <<dequeueTicket, claimed, got>>, closed => closed',
           \A c \in Consumers : hasHeld[c] => hasHeld'[c] /\ held'[c] = held[c]
    PROVE  ClaimsAreHeld'
<1> SUFFICES ASSUME NEW t \in 0 .. Dequeued - 1, t < Len(claimed) \/ ~closed, ~Done(t)
             PROVE  \E c \in Consumers : hasHeld'[c] /\ Count(held'[c]) = t
  BY DEF ClaimsAreHeld, Dequeued, HeldTicket, Done, Delivered
<1>1. PICK c \in Consumers : hasHeld[c] /\ HeldTicket(c) = t
  BY DEF ClaimsAreHeld
<1> QED
  BY <1>1 DEF HeldTicket

\* LoadFinal's test: a held ticket that no producer has claimed.
LEMMA StrandedIsPast ==
    ASSUME IInv, NEW c \in Consumers, hasHeld[c], Stranded(c)
    PROVE  HeldTicket(c) >= Len(claimed)
<1>1. PICK h \in Int, N \in Nat : /\ h = HeldTicket(c) /\ h = Count(held[c])
                                  /\ h \in Counts /\ held[c] \in Lane /\ N = Len(claimed)
                                  /\ N \in Counts /\ N = Count(enqueueTicket)
                                  /\ enqueueTicket \in Lane
  BY HolderHas, Ranges, Constants DEF HeldTicket
<1>2. SignedDiff(held[c], enqueueTicket) = h - N
  BY <1>1, CountDiff
<1> QED
  BY <1>1, <1>2 DEF Stranded

LEMMA ClaimsStayHeld ==
    ASSUME IInv, ProducersAreCounted, TicketsStayPositive, ClosedIsFinal, ClaimsAreHeld,
           [Next]_vars
    PROVE  ClaimsAreHeld'
<1>1. ASSUME NEW p \in Producers, Claim(p)
      PROVE  ClaimsAreHeld'
  <2>1. /\ ppc[p] = "claim" /\ UNCHANGED <<dequeueTicket, closed, hasHeld, held>>
    BY <1>1 DEF Claim
  <2>2. ~closed
    BY <2>1 DEF ClosedIsFinal
  <2>3. PICK D \in Nat : D = Dequeued
    BY Ranges, Constants
  <2>4. ASSUME NEW t \in 0 .. D - 1, ~Done(t)'
        PROVE  \E c \in Consumers : hasHeld[c] /\ HeldTicket(c) = t
    <3>1. t \in Int /\ t \in 0 .. Dequeued - 1
      BY <2>3
    <3>2. ~Done(t)
      <4>1. CASE t < Len(claimed)
        BY <1>1, <2>4, <3>1, <4>1, ClaimExtends
      <4>2. CASE ~(t < Len(claimed))
        <5>1. Len(claimed) \in Nat
          BY Ranges, Constants
        <5>2. t >= Len(claimed)
          BY <3>1, <4>2, <5>1
        <5> QED
          BY <1>1, <3>1, <5>2, ClaimExtends
      <4> QED
        BY <4>1, <4>2
    <3> QED
      BY <2>2, <3>1, <3>2 DEF ClaimsAreHeld
  <2> QED
    BY <2>1, <2>3, <2>4 DEF ClaimsAreHeld, Dequeued, HeldTicket
<1>2. ASSUME NEW c \in Consumers, ClaimNext(c)
      PROVE  ClaimsAreHeld'
  <2>1. PICK D \in Nat : /\ D = Dequeued /\ D = Count(dequeueTicket) /\ D \in Counts
                         /\ D \in 0 .. Bound + Crowd /\ dequeueTicket = LaneOf(D)
    BY Ranges, Constants DEF Dequeued
  <2>2. D < Bound + Crowd
    <3>1. PICK k \in Int, N \in Nat : /\ k = PeekedAt(c) /\ k < N /\ N = Len(claimed)
                                      /\ N \in 0 .. Bound
      <4>1. PeekedAt(c) \in 0 .. Dequeued /\ PeekedAt(c) < Len(claimed)
        BY <1>2 DEF ClaimNext, IInv, ClaimsAreFew, Peeking
      <4> QED
        BY <2>1, <4>1, Ranges, Constants
    <3>2. CASE D < N
      BY <3>1, <3>2, Constants, <2>1, FS_EmptySet, FS_CardinalityType DEF Crowd
    <3>3. CASE D >= N
      <4>1. D - N + Cardinality(Armed(N)) <= Crowd
        BY <2>1, <3>1, <3>3 DEF IInv, ClaimsAreFew
      <4>2. c \in Armed(N) /\ Armed(N) \subseteq Consumers
        BY <1>2, <3>1 DEF Armed, ClaimNext, Peeking
      <4>3. IsFiniteSet(Armed(N))
        BY <4>2, Constants, FS_Subset
      <4>4. Cardinality(Armed(N)) \in Nat /\ Cardinality(Armed(N)) # 0
        BY <4>2, <4>3, FS_CardinalityType, FS_EmptySet
      <4> QED
        BY <2>1, <3>1, <3>3, <4>1, <4>4, Constants
    <3> QED
      BY <2>1, <3>1, <3>2, <3>3
  <2>3. ~(AsInt32(dequeueTicket) < 0)
    <3>1. Seed + D < Half /\ Seed \in Nat /\ Seed + D >= 0
      BY <2>1, <2>2, Constants DEF TicketsStayPositive, Lane
    <3>2. dequeueTicket = Seed + D
      BY <2>1, <3>1, Constants DEF LaneOf, LaneAt
    <3> QED
      BY <2>1, <3>1, <3>2, Constants DEF AsInt32
  <2>4. /\ cpc[c] = "claim" /\ dequeueTicket' = Inc(dequeueTicket)
        /\ hasHeld' = [hasHeld EXCEPT ![c] = TRUE]
        /\ held' = [held EXCEPT ![c] = dequeueTicket]
        /\ UNCHANGED <<claimed, got, closed>>
    BY <1>2, <2>3 DEF ClaimNext, ClaimedTicket
  <2>5. ~hasHeld[c]
    BY <2>4 DEF IInv, ConsumersHold, Peeking
  <2>6. /\ hasHeld'[c] /\ held'[c] = dequeueTicket
        /\ \A q \in Consumers : hasHeld[q] => hasHeld'[q] /\ held'[q] = held[q]
    BY <2>4, <2>5 DEF IInv, TypeOK
  <2>7. Count(dequeueTicket') = D + 1
    <3>1. D + 1 \in Counts /\ dequeueTicket \in Lane
      BY <2>1, Constants DEF Counts, IInv, TypeOK
    <3> QED
      BY <2>1, <2>4, <3>1, CountInc
  <2>8. ASSUME NEW t \in 0 .. (D + 1) - 1, t < Len(claimed) \/ ~closed, ~Done(t)
        PROVE  \E q \in Consumers : hasHeld'[q] /\ Count(held'[q]) = t
    <3>1. CASE t = D
      BY <2>1, <2>6, <3>1
    <3>2. CASE t # D
      <4>1. t \in 0 .. D - 1
        BY <2>1, <3>2
      <4>2. PICK q \in Consumers : hasHeld[q] /\ HeldTicket(q) = t
        BY <2>1, <2>8, <4>1 DEF ClaimsAreHeld
      <4> QED
        BY <2>6, <4>2 DEF HeldTicket
    <3> QED
      BY <3>1, <3>2
  <2>9. \A t : Done(t)' <=> Done(t)
    BY <2>4, HistoryStays
  <2> QED
    BY <2>4, <2>7, <2>8, <2>9 DEF ClaimsAreHeld, Dequeued, HeldTicket
<1>3. ASSUME NEW c \in Consumers, FreeSlot(c)
      PROVE  ClaimsAreHeld'
  <2>1. /\ UNCHANGED <<claimed, closed, dequeueTicket, held>>
        /\ hasHeld' = [hasHeld EXCEPT ![c] = FALSE]
    BY <1>3 DEF FreeSlot, Release
  <2>2. \A q \in Consumers \ {c} : hasHeld'[q] = hasHeld[q]
    BY <2>1 DEF IInv, TypeOK
  <2>3. PICK D \in Nat : D = Dequeued
    BY Ranges, Constants
  <2>4. ASSUME NEW t \in 0 .. D - 1, t < Len(claimed) \/ ~closed, ~Done(t)'
        PROVE  \E q \in Consumers : hasHeld'[q] /\ HeldTicket(q) = t
    <3>1. ~Done(t) /\ t # HeldTicket(c)
      <4>1. t \in Int
        OBVIOUS
      <4> QED
        BY <1>3, <2>4, <4>1, Delivers
    <3>2. PICK q \in Consumers : hasHeld[q] /\ HeldTicket(q) = t
      BY <2>3, <2>4, <3>1 DEF ClaimsAreHeld
    <3> QED
      BY <2>2, <3>1, <3>2
  <2> QED
    BY <2>1, <2>3, <2>4 DEF ClaimsAreHeld, Dequeued, HeldTicket
<1>4. ASSUME NEW c \in Consumers, LoadFinal(c)
      PROVE  ClaimsAreHeld'
  <2>1. /\ cpc[c] = "loadFinal" /\ UNCHANGED <<claimed, got, closed, dequeueTicket, held>>
        /\ \/ Stranded(c) /\ hasHeld' = [hasHeld EXCEPT ![c] = FALSE]
           \/ hasHeld' = hasHeld
    BY <1>4 DEF LoadFinal, Release
  <2>2. CASE hasHeld' = hasHeld
    BY <2>1, <2>2, HeldStays
  <2>3. CASE Stranded(c) /\ hasHeld' = [hasHeld EXCEPT ![c] = FALSE]
    <3>1. closed /\ hasHeld[c]
      BY <2>1 DEF ClosedIsFinal, IInv, ConsumersHold, Peeking
    <3>2. HeldTicket(c) >= Len(claimed)
      BY <2>3, <3>1, StrandedIsPast
    <3>3. \A q \in Consumers \ {c} : hasHeld'[q] = hasHeld[q]
      BY <2>3 DEF IInv, TypeOK
    <3>4. ASSUME NEW t \in 0 .. Dequeued - 1, t < Len(claimed), ~Done(t)
          PROVE  \E q \in Consumers : hasHeld'[q] /\ HeldTicket(q) = t
      <4>1. PICK q \in Consumers : hasHeld[q] /\ HeldTicket(q) = t
        BY <3>4 DEF ClaimsAreHeld
      <4>2. q # c
        <5>1. PICK h \in Int, N \in Nat : h = HeldTicket(c) /\ N = Len(claimed)
          BY <3>1, HolderHas, Ranges, Constants
        <5>2. ~(h < N)
          BY <3>2, <5>1
        <5> QED
          BY <3>4, <4>1, <5>1, <5>2
      <4> QED
        BY <3>3, <4>1, <4>2
    <3>5. \A t : Done(t)' <=> Done(t)
      BY <2>1, HistoryStays
    <3> QED
      BY <2>1, <3>1, <3>4, <3>5 DEF ClaimsAreHeld, Dequeued, HeldTicket
  <2> QED
    BY <2>1, <2>2, <2>3
<1>5. CASE /\ UNCHANGED <<dequeueTicket, claimed, got, hasHeld, held>>
           /\ closed => closed'
  BY <1>5, HeldStays
<1>6. ASSUME NEW p \in Producers, StartPush(p) \/ InPush(p)
      PROVE  ClaimsAreHeld'
  BY <1>1, <1>5, <1>6 DEF StartPush, InPush, Scan, CompareFrontier, StoreFrontier,
     LoadTicket, CheckEnvelope, Write, Publish
<1>7. ASSUME NEW c \in Consumers, Pull(c)
      PROVE  ClaimsAreHeld'
  <2>1. CASE LoadStamp(c)
    <3>1. hasHeld[c]
      BY <2>1 DEF LoadStamp, IInv, ConsumersHold, Peeking
    <3>2. ~(SignedDiff(gen[Slot(held[c])], Inc(held[c])) > 0)
      <4> DEFINE d == SignedDiff(gen[Slot(held[c])], Inc(held[c]))
      <4>1. d \in Int /\ d <= 0
        BY <3>1, StampOfHeld
      <4> HIDE DEF d
      <4>2. ~(d > 0)
        BY <4>1
      <4> QED
        BY <4>2 DEF d
    <3>3. UNCHANGED <<dequeueTicket, claimed, got, hasHeld, held, closed>>
      BY <2>1, <3>2 DEF LoadStamp, Holds
    <3> QED
      BY <1>5, <3>3
  <2>2. CASE StartPull(c) \/ Peek(c) \/ Read(c) \/ LoadClosed(c)
    BY <1>5, <2>2 DEF StartPull, Peek, Read, LoadClosed
  <2> QED
    BY <1>2, <1>3, <1>4, <1>7, <2>1, <2>2 DEF Pull
<1>8. CASE Close \/ UNCHANGED vars
  BY <1>5, <1>8 DEF Close, vars
<1> QED
  BY <1>6, <1>7, <1>8 DEF Next

\* Nothing is closed and nothing claimed at first.
LEMMA DrainInvInit == Init => DrainInv
<1> SUFFICES ASSUME Init PROVE ClosedIsFinal /\ ClaimsAreHeld
  BY InitIInv DEF DrainInv
<1>1. ClosedIsFinal
  BY DEF Init, ClosedIsFinal
<1>2. Dequeued = 0
  <2>1. dequeueTicket = LaneOf(0)
    BY Constants DEF Init, LaneOf, LaneAt, Lane
  <2> QED
    BY <2>1, CountRange, CountOf DEF Dequeued
<1> QED
  BY <1>1, <1>2 DEF ClaimsAreHeld

\* Every step leaves closed and the claims as they must be.
LEMMA DrainInvNext ==
    ASSUME ProducersAreCounted, TicketsStayPositive
    PROVE  DrainInv /\ [Next]_vars => DrainInv'
  BY NextIInv, ClosedStaysFinal, ClaimsStayHeld DEF DrainInv

\* Once every consumer reports isDrained, every frame that was claimed has been
\* handed out: no strand that LoadFinal released held one.
THEOREM DrainedIsDelivered ==
    ASSUME ProducersAreCounted, TicketsStayPositive, Consumers # {}
    PROVE  Spec => []DrainedMeansDelivered
<1>1. DrainInv /\ [Next]_vars => DrainInv'
  BY DrainInvNext
<1>2. DrainInv => DrainedMeansDelivered
  <2> SUFFICES ASSUME DrainInv, \A c \in Consumers : Drained(c), NEW i \in 1 .. Len(claimed)
               PROVE  claimed[i] \in Delivered
    BY DEF DrainedMeansDelivered
  <2>1. PICK N \in Nat, D \in Nat : /\ N = Len(claimed) /\ D = Dequeued /\ N \in Counts
                                    /\ D \in Counts /\ N = Count(enqueueTicket)
                                    /\ D = Count(dequeueTicket)
                                    /\ enqueueTicket \in Lane /\ dequeueTicket \in Lane
    BY Ranges, Constants DEF Dequeued, DrainInv
  <2>2. SignedDiff(enqueueTicket, dequeueTicket) = N - D
    BY <2>1, CountDiff
  <2>3. N <= D
    <3>1. SignedDiff(enqueueTicket, dequeueTicket) <= 0
      BY DEF Drained
    <3> QED
      BY <2>1, <2>2, <3>1
  <2>4. i - 1 \in 0 .. D - 1 /\ i - 1 < Len(claimed) /\ ~(i - 1 < 0) /\ (i - 1) + 1 = i
    BY <2>1, <2>3
  <2>5. Done(i - 1)
    BY <2>1, <2>4 DEF DrainInv, ClaimsAreHeld, Drained
  <2> QED
    BY <2>4, <2>5 DEF Done
<1> QED
  BY <1>1, <1>2, DrainInvInit, PTL DEF Spec

\* The class comment's promise of the held claim: a frame that was claimed is waiting to
\* be dequeued, or a consumer holds its ticket, or it was handed out.  Once tickets reach
\* the upper half of their lane that is no longer so, which TicketsStayPositive excludes.
THEOREM NothingIsOrphaned ==
    ASSUME ProducersAreCounted, TicketsStayPositive
    PROVE  Spec => []NeverOrphaned
<1>1. DrainInv /\ [Next]_vars => DrainInv'
  BY DrainInvNext
<1>2. DrainInv => NeverOrphaned
  <2> SUFFICES ASSUME DrainInv, NEW i \in 1 .. Len(claimed), claimed[i] \notin Delivered,
                      ~(SignedDiff(dequeueTicket, Seed) < i)
               PROVE  \E c \in Consumers : hasHeld[c] /\ held[c] = Add(Seed, i - 1)
    BY DEF NeverOrphaned
  <2>1. PICK N \in 0 .. Bound, D \in Nat :
            N = Len(claimed) /\ D = Dequeued /\ D = SignedDiff(dequeueTicket, Seed)
    BY Ranges, Constants DEF Dequeued, Count, DrainInv
  <2>2. i - 1 \in 0 .. D - 1 /\ i - 1 < Len(claimed) /\ i - 1 \in 0 .. Bound /\ (i - 1) + 1 = i
    BY <2>1, Constants
  <2>3. ~Done(i - 1)
    BY <2>2 DEF Done
  <2>4. PICK c \in Consumers : hasHeld[c] /\ HeldTicket(c) = i - 1
    BY <2>1, <2>2, <2>3 DEF DrainInv, ClaimsAreHeld
  <2>5. held[c] = LaneOf(i - 1)
    BY <2>4, HolderHas DEF DrainInv
  <2>6. LaneOf(i - 1) = Add(Seed, i - 1)
    <3>1. PICK t \in 0 .. Bound : t = i - 1
      BY <2>2
    <3>2. LaneOf(t) \in 0 .. Modulus - 1 /\ Seed + t \in Nat
      <4>1. t \in Counts
        BY Constants DEF Counts
      <4> QED
        BY <4>1, CountOf, Constants DEF Lane
    <3>3. PICK x \in Nat, r \in 0 .. Modulus - 1 : x = Seed + t /\ r = LaneOf(t)
      BY <3>2
    <3>4. x = Modulus * 0 + r \/ x = Modulus * 1 + r
      BY <3>3, Constants DEF LaneOf, LaneAt, Lane
    <3>5. x % Modulus = r
      BY <3>4, ModIs
    <3> QED
      BY <3>1, <3>3, <3>5 DEF Add
  <2> QED
    BY <2>4, <2>5, <2>6
<1> QED
  BY <1>1, <1>2, DrainInvInit, PTL DEF Spec

-------------------------------------------------------------------------------
(* Strands: claims that raced past the end *)

\* Whoever claims the last ticket enqueued does not race for the next, so that a race
\* past the end is one of fewer than all.
RacersAreFew ==
    /\ Len(claimed) = 0 => Dequeued = 0
    /\ \A n \in Len(claimed) .. Dequeued :
           n >= 1 => Dequeued - n + Cardinality(Armed(n)) < Crowd

\* Who holds a ticket past the end, and how many have been claimed.
Stranding == {c \in Consumers : hasHeld[c] /\ HeldTicket(c) >= Len(claimed)}
Excess == IF Dequeued >= Len(claimed) THEN Dequeued - Len(claimed) ELSE 0

\* A strand is counted after close() only, and once for a ticket past the end.
StrandsAreRaced ==
    /\ ~closed => stranded = 0
    /\ closed => stranded + Cardinality(Stranding) <= Excess

StrandInv == IInv /\ ClosedIsFinal /\ RacersAreFew /\ StrandsAreRaced

\* The sets that are counted are sets of consumers, so they are finite.
LEMMA ArmedAreFinite ==
    ASSUME NEW n
    PROVE  /\ IsFiniteSet(Armed(n)) /\ Cardinality(Armed(n)) \in Nat
           /\ Cardinality(Armed(n)) <= Crowd
<1>1. Armed(n) \subseteq Consumers
  BY DEF Armed
<1> QED
  BY <1>1, Constants, FS_Subset, FS_CardinalityType DEF Crowd

\* So is the set of consumers that hold a ticket past the end.
LEMMA StrandingIsFinite == IsFiniteSet(Stranding) /\ Cardinality(Stranding) \in Nat
<1>1. Stranding \subseteq Consumers
  BY DEF Stranding
<1> QED
  BY <1>1, Constants, FS_Subset, FS_CardinalityType

\* A consumer that looks at the dequeue ticket now races for none before it.
LEMMA RacersStay ==
    ASSUME IInv, IInv', RacersAreFew, dequeueTicket' = dequeueTicket,
           Len(claimed) <= Len(claimed)',
           \A q \in Consumers : cpc'[q] \in Peeking =>
               \/ cR'[q] = dequeueTicket
               \/ cpc[q] \in Peeking /\ cR'[q] = cR[q]
    PROVE  RacersAreFew'
<1>1. PICK D \in Nat, N \in Nat, M \in Nat :
          /\ D = Dequeued /\ D = Count(dequeueTicket) /\ D = Dequeued'
          /\ N = Len(claimed) /\ M = Len(claimed)' /\ N <= M
  <2>1. Len(claimed) \in Nat /\ Len(claimed)' \in Nat
    BY DEF IInv, TypeOK
  <2>2. Dequeued \in Nat /\ Dequeued = Count(dequeueTicket) /\ Dequeued' = Dequeued
    BY DEF IInv, ClaimsAreFew, Dequeued
  <2> QED
    BY <2>1, <2>2
<1>2. ASSUME NEW n \in M .. D, n >= 1
      PROVE  D - n + Cardinality(Armed(n)') < Crowd
  <2>1. Armed(n)' \subseteq Armed(n)
    <3>1. ASSUME NEW q \in Consumers, cpc'[q] \in Peeking, Count(cR'[q]) < n
          PROVE  cpc[q] \in Peeking /\ Count(cR[q]) < n
      <4>1. cR'[q] # dequeueTicket
        <5>1. ~(D < n)
          BY <1>2
        <5> QED
          BY <1>1, <3>1, <5>1
      <4>2. cpc[q] \in Peeking /\ cR'[q] = cR[q]
        BY <3>1, <4>1
      <4> QED
        BY <3>1, <4>2
    <3> QED
      BY <3>1 DEF Armed, PeekedAt
  <2>2. Cardinality(Armed(n)') <= Cardinality(Armed(n)) /\ Cardinality(Armed(n)') \in Nat
    BY <2>1, ArmedAreFinite, FS_Subset, FS_CardinalityType
  <2>3. D - n + Cardinality(Armed(n)) < Crowd
    BY <1>1, <1>2 DEF RacersAreFew
  <2> QED
    BY <1>1, <2>2, <2>3, ArmedAreFinite, Constants
<1>3. M = 0 => D = 0
  BY <1>1 DEF RacersAreFew
<1> QED
  BY <1>1, <1>2, <1>3 DEF RacersAreFew, Crowd

\* The fetch-add: its consumer races no more, for any ticket.
LEMMA ClaimNextRaces ==
    ASSUME IInv, IInv', RacersAreFew, NEW c \in Consumers, ClaimNext(c)
    PROVE  RacersAreFew'
<1>1. /\ cpc[c] = "claim" /\ dequeueTicket' = Inc(dequeueTicket) /\ cR' = cR
      /\ claimed' = claimed
      /\ cpc' = [cpc EXCEPT ![c] = "idle"] \/ cpc' = [cpc EXCEPT ![c] = "loadGen"]
  BY DEF ClaimNext, After
<1>2. cpc'[c] \notin Peeking /\ \A q \in Consumers \ {c} : cpc'[q] = cpc[q]
  BY <1>1 DEF Peeking, IInv, TypeOK
<1>3. PICK D \in Nat, N \in Nat :
          D = Dequeued /\ N = Len(claimed) /\ D + 1 = Dequeued' /\ N = Len(claimed)'
  <2>1. PICK D \in Nat, N \in Nat :
            /\ D = Dequeued /\ D = Count(dequeueTicket) /\ D \in 0 .. Bound + Crowd
            /\ D \in Counts /\ dequeueTicket \in Lane /\ N = Len(claimed)
    BY Ranges, Constants DEF Dequeued
  <2>2. D + 1 \in Counts
    BY <2>1, Constants DEF Counts
  <2> QED
    BY <1>1, <2>1, <2>2, CountInc DEF Dequeued
<1>4. PICK k \in Nat : k = PeekedAt(c) /\ k < N
  BY <1>1, <1>3 DEF IInv, ClaimsAreFew, Peeking
<1>5. ASSUME NEW n \in N .. D + 1, n >= 1
      PROVE  (D + 1) - n + Cardinality(Armed(n)') < Crowd
  <2>1. Armed(n)' = Armed(n) \ {c}
    BY <1>1, <1>2 DEF Armed, PeekedAt
  <2>2. c \in Armed(n)
    BY <1>1, <1>4 DEF Armed, Peeking
  <2>3. PICK A \in Nat : /\ A = Cardinality(Armed(n)) /\ A <= Crowd
                         /\ Cardinality(Armed(n)') = A - 1
    <3>1. /\ IsFiniteSet(Armed(n)) /\ Cardinality(Armed(n)) \in Nat
          /\ Cardinality(Armed(n)) <= Crowd
      BY ArmedAreFinite
    <3>2. Cardinality(Armed(n) \ {c}) = Cardinality(Armed(n)) - 1
      BY <2>2, <3>1, FS_RemoveElement
    <3> QED
      BY <2>1, <3>1, <3>2
  <2>4. CASE n = D + 1
    <3>1. (D + 1) - n = 0 /\ A - 1 < Crowd
      BY <2>3, <2>4, Constants
    <3> QED
      BY <2>3, <3>1
  <2>5. CASE n # D + 1
    <3>1. n \in N .. D
      BY <2>5
    <3>2. D - n + A < Crowd
      BY <1>3, <1>5, <2>3, <3>1 DEF RacersAreFew
    <3> QED
      BY <2>3, <3>1, <3>2, Constants
  <2> QED
    BY <2>4, <2>5
<1>6. N # 0
  BY <1>4
<1> QED
  BY <1>3, <1>5, <1>6 DEF RacersAreFew, Crowd


\* Every step keeps the races few.
LEMMA RacersStayFew ==
    ASSUME IInv, IInv', RacersAreFew, [Next]_vars
    PROVE  RacersAreFew'
<1>1. ASSUME NEW p \in Producers, StartPush(p) \/ InPush(p)
      PROVE  RacersAreFew'
  <2>1. dequeueTicket' = dequeueTicket /\ cpc' = cpc /\ cR' = cR
    BY <1>1 DEF StartPush, InPush, Scan, CompareFrontier, StoreFrontier, LoadTicket,
       CheckEnvelope, Claim, Write, Publish
  <2>2. Len(claimed) <= Len(claimed)'
    <3>1. Len(claimed) \in Nat
      BY Ranges, Constants
    <3>2. CASE Claim(p)
      BY <3>1, <3>2, ClaimExtends
    <3>3. CASE ~Claim(p)
      <4>1. claimed' = claimed
        BY <1>1, <3>3 DEF StartPush, InPush, Scan, CompareFrontier, StoreFrontier,
           LoadTicket, CheckEnvelope, Write, Publish
      <4> QED
        BY <3>1, <4>1
    <3> QED
      BY <3>2, <3>3
  <2> QED
    BY <2>1, <2>2, RacersStay
<1>2. ASSUME NEW c \in Consumers, Pull(c), ~ClaimNext(c)
      PROVE  RacersAreFew'
  <2>1. dequeueTicket' = dequeueTicket /\ claimed' = claimed
    BY <1>2 DEF Pull, StartPull, Peek, LoadStamp, Read, FreeSlot, LoadClosed, LoadFinal
  <2>2. \A q \in Consumers \ {c} : cpc'[q] = cpc[q] /\ cR'[q] = cR[q]
    <3>1. \E s : cpc' = [cpc EXCEPT ![c] = s]
      BY <1>2 DEF Pull, StartPull, Peek, LoadStamp, Read, FreeSlot, LoadClosed, LoadFinal,
         After
    <3>2. cR' = cR \/ cR' = [cR EXCEPT ![c] = dequeueTicket]
      BY <1>2 DEF Pull, StartPull, Peek, LoadStamp, Read, FreeSlot, LoadClosed, LoadFinal
    <3> QED
      BY <3>1, <3>2 DEF IInv, TypeOK
  <2>3. cpc'[c] \in Peeking =>
            cR'[c] = dequeueTicket \/ (cpc[c] \in Peeking /\ cR'[c] = cR[c])
    <3>1. c \in DOMAIN cpc /\ c \in DOMAIN cR
      BY DEF IInv, TypeOK
    <3>2. CASE StartPull(c)
      BY <3>1, <3>2 DEF StartPull, After, Peeking
    <3>3. CASE Peek(c)
      BY <3>3 DEF Peek, Peeking
    <3>4. CASE LoadStamp(c) \/ Read(c) \/ FreeSlot(c) \/ LoadClosed(c) \/ LoadFinal(c)
      BY <3>1, <3>4 DEF LoadStamp, Read, FreeSlot, LoadClosed, LoadFinal, After, Peeking
    <3> QED
      BY <1>2, <3>2, <3>3, <3>4 DEF Pull
  <2>4. Len(claimed) \in Nat
    BY Ranges, Constants
  <2> QED
    BY <2>1, <2>2, <2>3, <2>4, RacersStay
<1>3. CASE Close \/ UNCHANGED vars
  <2>1. UNCHANGED <<dequeueTicket, claimed, cpc, cR>> /\ Len(claimed) \in Nat
    BY <1>3, Ranges, Constants DEF Close, vars
  <2> QED
    BY <2>1, RacersStay
<1> QED
  BY <1>1, <1>2, <1>3, ClaimNextRaces DEF Next

\* Tickets held past the end are different ones of those claimed.
LEMMA StrandingFits ==
    ASSUME IInv
    PROVE  Cardinality(Stranding) <= Excess /\ Excess \in Nat
<1>1. PICK D \in Nat, N \in Nat : D = Dequeued /\ N = Len(claimed)
  BY Ranges, Constants
<1> DEFINE f == [c \in Stranding |-> HeldTicket(c)]
<1>2. \A c \in Stranding : HeldTicket(c) \in N .. D - 1
  BY <1>1, HolderHas DEF Stranding
<1>3. \A c, q \in Stranding : HeldTicket(c) = HeldTicket(q) => c = q
  BY DEF Stranding, IInv, ConsumersHold, ConsumerHolds
<1>4. f \in Injection(Stranding, N .. D - 1)
  BY <1>2, <1>3 DEF Injection, IsInjective
<1>5. IsFiniteSet(N .. D - 1)
      /\ Cardinality(N .. D - 1) = IF N > D - 1 THEN 0 ELSE (D - 1) - N + 1
  <2>1. N \in Int /\ D - 1 \in Int
    OBVIOUS
  <2> QED
    BY <2>1, FS_Interval
<1>6. Cardinality(Stranding) <= Cardinality(N .. D - 1)
  BY <1>4, <1>5, FS_Injection
<1> QED
  BY <1>1, <1>5, <1>6, StrandingIsFinite DEF Excess

\* Steps that let go of claims at most.
LEMMA StrandsStay ==
    ASSUME IInv, StrandsAreRaced, UNCHANGED <<dequeueTicket, claimed, stranded, closed>>,
           \A c \in Consumers : hasHeld'[c] => hasHeld[c] /\ held'[c] = held[c]
    PROVE  StrandsAreRaced'
<1>1. Stranding' \subseteq Stranding
  BY DEF Stranding, HeldTicket
<1>2. Cardinality(Stranding') <= Cardinality(Stranding) /\ Cardinality(Stranding') \in Nat
  BY <1>1, StrandingIsFinite, FS_Subset, FS_CardinalityType
<1>3. Excess' = Excess
  BY DEF Excess, Dequeued
<1>4. stranded \in Nat /\ Excess \in Nat
  BY StrandingFits DEF IInv, TypeOK
<1>5. closed => stranded + Cardinality(Stranding') <= Excess
  BY <1>2, <1>4, StrandingIsFinite DEF StrandsAreRaced
<1>6. stranded' = stranded /\ closed' = closed
  OBVIOUS
<1>7. ~closed => stranded = 0
  BY DEF StrandsAreRaced
<1> QED
  BY <1>3, <1>5, <1>6, <1>7 DEF StrandsAreRaced

\* A claim past the end is one more strand to come, and one more ticket past the end.
LEMMA ClaimNextStrands ==
    ASSUME IInv, StrandsAreRaced, NEW c \in Consumers, ClaimNext(c)
    PROVE  StrandsAreRaced'
<1>1. /\ cpc[c] = "claim" /\ dequeueTicket' = Inc(dequeueTicket)
      /\ UNCHANGED <<claimed, closed, stranded>>
      /\ \/ UNCHANGED <<hasHeld, held>>
         \/ /\ hasHeld' = [hasHeld EXCEPT ![c] = TRUE]
            /\ held' = [held EXCEPT ![c] = dequeueTicket]
  BY DEF ClaimNext, ClaimedTicket
<1>2. PICK D \in Nat, N \in Nat :
          /\ D = Dequeued /\ D = Count(dequeueTicket) /\ N = Len(claimed)
          /\ D + 1 = Dequeued' /\ N = Len(claimed)'
  <2>1. PICK D \in Nat, N \in Nat :
            /\ D = Dequeued /\ D = Count(dequeueTicket) /\ D \in 0 .. Bound + Crowd
            /\ D \in Counts /\ dequeueTicket \in Lane /\ N = Len(claimed)
    BY Ranges, Constants DEF Dequeued
  <2>2. D + 1 \in Counts
    BY <2>1, Constants DEF Counts
  <2> QED
    BY <1>1, <2>1, <2>2, CountInc DEF Dequeued
<1>3. \A q \in Consumers : hasHeld'[q] =>
          \/ hasHeld[q] /\ held'[q] = held[q]
          \/ q = c /\ held'[q] = dequeueTicket
  BY <1>1 DEF IInv, TypeOK
<1>4. PICK n \in Nat, m \in Nat :
          /\ n = Cardinality(Stranding) /\ m = Cardinality(Stranding')
          /\ (D >= N) => (m <= n + 1)
          /\ ~(D >= N) => (m <= n)
  <2>1. Stranding' \subseteq (IF D >= N THEN Stranding \cup {c} ELSE Stranding)
    <3>1. ASSUME NEW q \in Stranding'
          PROVE  q \in Stranding \/ (q = c /\ D >= N)
      <4>1. q \in Consumers /\ hasHeld'[q] /\ Count(held'[q]) >= N
        BY <1>2 DEF Stranding, HeldTicket
      <4>2. CASE hasHeld[q] /\ held'[q] = held[q]
        BY <1>2, <4>1, <4>2 DEF Stranding, HeldTicket
      <4>3. CASE q = c /\ held'[q] = dequeueTicket
        BY <1>2, <4>1, <4>3
      <4> QED
        BY <1>3, <4>1, <4>2, <4>3
    <3> QED
      BY <3>1
  <2>2. IsFiniteSet(Stranding') /\ Cardinality(Stranding') \in Nat
        /\ Cardinality(Stranding') <= (IF D >= N THEN Cardinality(Stranding) + 1
                                       ELSE Cardinality(Stranding))
    <3>1. CASE D >= N
      <4>1. /\ IsFiniteSet(Stranding \cup {c})
            /\ Cardinality(Stranding \cup {c}) <= Cardinality(Stranding) + 1
            /\ Cardinality(Stranding \cup {c}) \in Nat
        BY StrandingIsFinite, FS_AddElement, FS_CardinalityType
      <4>2. Stranding' \in SUBSET (Stranding \cup {c})
        BY <2>1, <3>1
      <4>3. /\ IsFiniteSet(Stranding')
            /\ Cardinality(Stranding') <= Cardinality(Stranding \cup {c})
        BY <4>1, <4>2, FS_Subset
      <4> QED
        BY <3>1, <4>1, <4>3, StrandingIsFinite, FS_CardinalityType
    <3>2. CASE ~(D >= N)
      <4>1. Stranding' \in SUBSET Stranding
        BY <2>1, <3>2
      <4> QED
        BY <3>2, <4>1, StrandingIsFinite, FS_Subset, FS_CardinalityType
    <3> QED
      BY <3>1, <3>2
  <2> QED
    BY <2>2, StrandingIsFinite
<1>5. PICK s \in Nat, e \in Nat, f \in Nat :
          /\ s = stranded /\ e = Excess /\ f = Excess'
          /\ (D >= N) => (e = D - N)
          /\ (D >= N) => (f = D + 1 - N)
          /\ ~(D >= N) => (e = 0)
  <2>1. stranded \in Nat
    BY DEF IInv, TypeOK
  <2>2. Excess \in Nat /\ Excess' \in Nat /\ (D >= N => Excess = D - N /\ Excess' = D + 1 - N)
        /\ (~(D >= N) => Excess = 0)
    BY <1>2 DEF Excess
  <2> QED
    BY <2>1, <2>2
<1>6. closed => s + m <= f
  <2>1. closed => s + n <= e
    BY <1>4, <1>5 DEF StrandsAreRaced
  <2>2. s + n <= e => s + m <= f
    <3>1. CASE D >= N
      <4>1. m <= n + 1
        BY <1>4, <3>1
      <4>2. e = D - N
        BY <1>5, <3>1
      <4>3. f = D + 1 - N
        BY <1>5, <3>1
      <4> QED
        BY <4>1, <4>2, <4>3
    <3>2. CASE ~(D >= N)
      <4>1. m <= n
        BY <1>4, <3>2
      <4>2. e = 0
        BY <1>5, <3>2
      <4> QED
        BY <4>1, <4>2
    <3> QED
      BY <3>1, <3>2
  <2> QED
    BY <2>1, <2>2
<1>7. ~closed => s = 0
  BY <1>5 DEF StrandsAreRaced
<1> QED
  BY <1>1, <1>4, <1>5, <1>6, <1>7 DEF StrandsAreRaced

\* A strand that is released is counted: after close(), and past the end.
LEMMA LoadFinalStrands ==
    ASSUME IInv, ClosedIsFinal, StrandsAreRaced, NEW c \in Consumers, LoadFinal(c)
    PROVE  StrandsAreRaced'
<1>1. /\ cpc[c] = "loadFinal" /\ UNCHANGED <<claimed, closed, dequeueTicket, held>>
      /\ \/ /\ Stranded(c) /\ hasHeld' = [hasHeld EXCEPT ![c] = FALSE]
            /\ stranded' = stranded + 1
         \/ UNCHANGED <<hasHeld, stranded>>
  BY DEF LoadFinal, Release
<1>2. closed /\ hasHeld[c]
  BY <1>1 DEF ClosedIsFinal, IInv, ConsumersHold, Peeking
<1>3. CASE UNCHANGED <<hasHeld, stranded>>
  BY <1>1, <1>3, StrandsStay
<1>4. CASE /\ Stranded(c) /\ hasHeld' = [hasHeld EXCEPT ![c] = FALSE]
           /\ stranded' = stranded + 1
  <2>1. HeldTicket(c) >= Len(claimed)
    BY <1>2, <1>4, StrandedIsPast
  <2>2. c \in Stranding /\ Stranding' = Stranding \ {c}
    <3>1. c \in Stranding
      BY <1>2, <2>1 DEF Stranding
    <3>2. \A q \in Consumers : hasHeld'[q] <=> hasHeld[q] /\ q # c
      BY <1>2, <1>4 DEF IInv, TypeOK
    <3> QED
      BY <1>1, <3>1, <3>2 DEF Stranding, HeldTicket
  <2>3. Cardinality(Stranding') = Cardinality(Stranding) - 1
    BY <2>2, StrandingIsFinite, FS_RemoveElement
  <2>4. Excess' = Excess /\ stranded \in Nat /\ Excess \in Nat
    BY <1>1, StrandingFits DEF Excess, Dequeued, IInv, TypeOK
  <2>5. stranded + Cardinality(Stranding) <= Excess
    BY <1>2 DEF StrandsAreRaced
  <2>6. stranded' + Cardinality(Stranding') <= Excess'
    BY <1>4, <2>3, <2>4, <2>5, StrandingIsFinite
  <2> QED
    BY <1>1, <1>2, <2>6 DEF StrandsAreRaced
<1> QED
  BY <1>1, <1>3, <1>4

\* Every step keeps the strands within the race.
LEMMA StrandsStayRaced ==
    ASSUME IInv, ClosedIsFinal, StrandsAreRaced, [Next]_vars
    PROVE  StrandsAreRaced'
<1>1. ASSUME NEW p \in Producers, Claim(p)
      PROVE  StrandsAreRaced'
  <2>1. ~closed /\ UNCHANGED <<closed, stranded>>
    BY <1>1 DEF Claim, ClosedIsFinal
  <2> QED
    BY <2>1 DEF StrandsAreRaced
<1>2. ASSUME NEW p \in Producers, StartPush(p) \/ InPush(p), ~Claim(p)
      PROVE  StrandsAreRaced'
  <2>1. UNCHANGED <<dequeueTicket, claimed, stranded, closed, hasHeld, held>>
    BY <1>2 DEF StartPush, InPush, Scan, CompareFrontier, StoreFrontier, LoadTicket,
       CheckEnvelope, Write, Publish
  <2> QED
    BY <2>1, StrandsStay
<1>3. CASE Close
  <2>1. /\ UNCHANGED <<dequeueTicket, claimed, stranded, hasHeld, held>>
        /\ ~closed /\ closed' = TRUE
    BY <1>3 DEF Close
  <2>2. stranded = 0
    BY <2>1 DEF StrandsAreRaced
  <2>3. Stranding' = Stranding /\ Excess' = Excess
    BY <2>1 DEF Stranding, Excess, HeldTicket, Dequeued
  <2>4. 0 + Cardinality(Stranding) <= Excess
    BY StrandingFits, StrandingIsFinite
  <2> QED
    BY <2>1, <2>2, <2>3, <2>4 DEF StrandsAreRaced
<1>4. ASSUME NEW c \in Consumers, StartPull(c) \/ Peek(c) \/ Read(c) \/ LoadClosed(c)
      PROVE  StrandsAreRaced'
  <2>1. UNCHANGED <<dequeueTicket, claimed, stranded, closed, hasHeld, held>>
    BY <1>4 DEF StartPull, Peek, Read, LoadClosed
  <2> QED
    BY <2>1, StrandsStay
<1>5. ASSUME NEW c \in Consumers, LoadStamp(c) \/ FreeSlot(c)
      PROVE  StrandsAreRaced'
  <2>1. /\ UNCHANGED <<dequeueTicket, claimed, stranded, closed, held>>
        /\ hasHeld' = hasHeld \/ hasHeld' = [hasHeld EXCEPT ![c] = FALSE]
    BY <1>5 DEF LoadStamp, FreeSlot, Release, Holds
  <2>2. \A q \in Consumers : hasHeld'[q] => hasHeld[q]
    BY <2>1 DEF IInv, TypeOK
  <2> QED
    BY <2>1, <2>2, StrandsStay
<1>6. CASE UNCHANGED vars
  <2>1. UNCHANGED <<dequeueTicket, claimed, stranded, closed, hasHeld, held>>
    BY <1>6 DEF vars
  <2> QED
    BY <2>1, StrandsStay
<1> QED
  BY <1>1, <1>2, <1>3, <1>4, <1>5, <1>6, ClaimNextStrands, LoadFinalStrands DEF Next, Pull

\* strandedClaims() is bounded by "< consumerCount", as its comment has it, however
\* the consumers race for the last tickets.
THEOREM StrandsAreFew ==
    ASSUME ProducersAreCounted, Consumers # {}
    PROVE  Spec => []FewStrands
<1>1. Init => StrandInv
  <2> SUFFICES ASSUME Init PROVE RacersAreFew /\ StrandsAreRaced /\ ClosedIsFinal
    BY InitIInv DEF StrandInv
  <2>1. Dequeued = 0 /\ Len(claimed) = 0
    <3>1. dequeueTicket = LaneOf(0)
      BY Constants DEF Init, LaneOf, LaneAt, Lane
    <3> QED
      BY <3>1, CountRange, CountOf DEF Dequeued, Init
  <2> QED
    BY <2>1 DEF Init, RacersAreFew, StrandsAreRaced, ClosedIsFinal
<1>2. StrandInv /\ [Next]_vars => StrandInv'
  <2> SUFFICES ASSUME StrandInv, [Next]_vars PROVE StrandInv'
    OBVIOUS
  <2>1. IInv /\ IInv'
    BY NextIInv DEF StrandInv
  <2> QED
    BY <2>1, ClosedStaysFinal, RacersStayFew, StrandsStayRaced DEF StrandInv
<1>3. StrandInv => FewStrands
  <2> SUFFICES ASSUME StrandInv PROVE stranded < Crowd
    BY DEF FewStrands, Crowd
  <2>1. PICK D \in Nat, N \in Nat, s \in Nat, n \in Nat, e \in Nat :
            /\ D = Dequeued /\ N = Len(claimed) /\ s = stranded
            /\ n = Cardinality(Stranding) /\ e = Excess
    <3>1. IInv
      BY DEF StrandInv
    <3>2. Dequeued \in Nat /\ Len(claimed) \in Nat
      BY <3>1, Ranges, Constants
    <3>3. stranded \in Nat
      BY <3>1 DEF IInv, TypeOK
    <3>4. Cardinality(Stranding) \in Nat /\ Excess \in Nat
      BY <3>1, StrandingIsFinite, StrandingFits
    <3> QED
      BY <3>2, <3>3, <3>4
  <2>2. s = 0 \/ s <= e
    <3>1. closed => s + n <= e
      BY <2>1 DEF StrandInv, StrandsAreRaced
    <3>2. ~closed => s = 0
      BY <2>1 DEF StrandInv, StrandsAreRaced
    <3> QED
      BY <3>1, <3>2
  <2>3. Crowd \in Nat /\ Crowd >= 1
    BY Constants, FS_EmptySet, FS_CardinalityType DEF Crowd
  <2>4. e = 0 \/ e < Crowd
    <3>1. CASE D > N
      <4>1. N >= 1
        BY <2>1, <3>1 DEF StrandInv, RacersAreFew
      <4>2. D - N + Cardinality(Armed(N)) < Crowd
        BY <2>1, <3>1, <4>1 DEF StrandInv, RacersAreFew
      <4>3. e = D - N
        BY <2>1, <3>1 DEF Excess
      <4> QED
        BY <2>3, <4>2, <4>3, ArmedAreFinite
    <3>2. CASE ~(D > N)
      BY <2>1, <3>2 DEF Excess
    <3> QED
      BY <3>1, <3>2
  <2> QED
    BY <2>1, <2>2, <2>3, <2>4
<1> QED
  BY <1>1, <1>2, <1>3, PTL DEF Spec
===============================================================================
