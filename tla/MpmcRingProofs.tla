---------------------------- MODULE MpmcRingProofs ----------------------------
(***************************************************************************)
(* Proofs about MpmcRing for every number of producers that opts            *)
(* .producerCount covers, every capacity, seed and set of mortal producers, *)
(* and every history shorter than half a wrap.  Lanes are related to the    *)
(* history's unwrapped tickets (LaneOf); the envelope follows from counting *)
(* the producers that may still hold a check made below the line.           *)
(* The last section, on what is lost, holds for any number of producers.    *)
(***************************************************************************)
EXTENDS MpmcRing, LaneTheorems, FiniteSetTheorems

\* The tuples of variables are abbreviations only: every step may see through them.
USE DEF lanes, payload, counters, producerVars, consumerVars

\* The lane of ticket number n of the history, which may be one before it.
LaneOf(n) == LaneAt(Seed, n)

\* opts.producerCount covers the threads that push, as its documentation demands.
ProducersAreCounted == Cardinality(Producers) <= ProducerCount

\* A producer inside a push: before its ticket, and with one.
Trying == {"check", "claim"}
Writing == {"writeLo", "writeHi", "publish"}

\* From this frame of the history on, frames are refused.
Line == Len(got) + Capacity - Slack

LanesFollowHistory ==
    /\ enqueueTicket = LaneOf(Len(claimed)) /\ dequeuePos = LaneOf(Len(got))
    /\ Len(got) <= Len(claimed) /\ Len(claimed) - Len(got) <= Capacity
    /\ overrunLost = 0 /\ torn = 0

\* A producer's frames are claimed in the order of its offers.
ClaimsAreOffers ==
    /\ \A i \in 1 .. Len(claimed) : claimed[i][2] <= offered[claimed[i][1]]
    /\ \A i, j \in 1 .. Len(claimed) :
           i < j /\ claimed[i][1] = claimed[j][1] => claimed[i][2] < claimed[j][2]
    /\ \A p \in Producers : ppc[p] \in Trying =>
           /\ offered[p] >= 1
           /\ \A i \in 1 .. Len(claimed) : claimed[i][1] = p => claimed[i][2] < offered[p]

\* A load of enqueueTicket is newer than the producer's own claims, and one that
\* passed the check lay below the line.
LoadsFollowClaims ==
    \A p \in Producers : ppc[p] \in Trying =>
        \E k \in 0 .. Len(claimed) :
            /\ pW[p] = LaneOf(k)
            /\ \A i \in k + 1 .. Len(claimed) : claimed[i][1] # p
            /\ ppc[p] = "claim" => k < Line

\* Hence no producer has two frames past the line.
PastTheLineOnce ==
    \A i, j \in Line .. Len(claimed) :
        i >= 1 /\ j >= 1 /\ i # j => claimed[i][1] # claimed[j][1]

\* The ticket a producer writes under is its newest frame, in flight, and its slot
\* still carries the stamp of the lap before.
Holds(p, t) ==
    /\ ticket[p] = LaneOf(t)
    /\ claimed[t + 1] = <<p, offered[p]>>
    /\ gen[Slot(ticket[p])] = LaneOf(t - Capacity)

TicketsHeld ==
    \A p \in Producers : ppc[p] \in Writing =>
        \E t \in Len(got) .. Len(claimed) - 1 : Holds(p, t)

PayloadsWritten ==
    \A p \in Producers :
        /\ ppc[p] \in {"writeHi", "publish"} => lo[Slot(ticket[p])] = <<p, offered[p]>>
        /\ ppc[p] = "publish" => hi[Slot(ticket[p])] = <<p, offered[p]>>

\* Ticket t is published, or its slot waits for it.
Published(t) ==
    /\ t < Len(claimed)
    /\ gen[Slot(LaneOf(t))] = LaneOf(t)
    /\ lo[Slot(LaneOf(t))] = claimed[t + 1]
    /\ hi[Slot(LaneOf(t))] = claimed[t + 1]

StampsFollowHistory ==
    \A t \in Len(got) .. Len(got) + Capacity - 1 :
        Published(t) \/ gen[Slot(LaneOf(t))] = LaneOf(t - Capacity)

\* A claimed frame that is not there yet has a producer that is still to publish it,
\* or has died in its push.
Owns(p, t) == ppc[p] \in Writing \cup {"dead"} /\ ticket[p] = LaneOf(t)

GapsAreOwned ==
    \A t \in Len(got) .. Len(claimed) - 1 :
        Published(t) \/ \E p \in Producers : Owns(p, t)

ConsumerFollowsHistory ==
    /\ cpc # "idle" => D = dequeuePos
    /\ cpc \in {"readLo", "readHi", "advance"} => Published(Len(got))
    /\ cpc \in {"readHi", "advance"} => outLo = claimed[Len(got) + 1]
    /\ cpc = "advance" => outHi = claimed[Len(got) + 1]

\* The inductive invariant.
IInv ==
    /\ TypeOK
    /\ LanesFollowHistory
    /\ ClaimsAreOffers
    /\ LoadsFollowClaims
    /\ PastTheLineOnce
    /\ TicketsHeld
    /\ PayloadsWritten
    /\ StampsFollowHistory
    /\ GapsAreOwned
    /\ ConsumerFollowsHistory

-------------------------------------------------------------------------------
(* Constants, lanes and slots *)

\* Tickets a history can hold.
Bound == MaxFrames * Cardinality(Producers)

\* The constants' facts in the form the arithmetic below uses them.
LEMMA Constants ==
    /\ Capacity \in Nat /\ Capacity >= 1 /\ Modulus \in Nat
    /\ Slack \in Nat /\ Slack < Capacity
    /\ Cardinality(Producers) \in Nat /\ IsFiniteSet(Producers)
    /\ MaxFrames \in Nat /\ Bound \in Nat
    /\ Half \in Nat /\ Bound + Capacity < Half /\ 2 * Half = Modulus
    /\ Seed \in Lane
<1>1. Cardinality(Producers) \in Nat
  BY MpmcAssumption, FS_CardinalityType
<1>2. Bound \in Nat /\ 2 * (Bound + Capacity) < Modulus
  BY <1>1, MpmcAssumption DEF Bound
<1>3. Slack \in Nat /\ Slack < Capacity
  BY MpmcAssumption, LaneAssumption DEF Slack
<1> QED
  BY <1>1, <1>2, <1>3, LaneConstants, MpmcAssumption

\* Ticket numbers in the range LaneTheorems speaks of.
Tickets == 0 - Capacity .. Bound + Capacity

LEMMA LaneOfType == \A n \in Tickets : LaneOf(n) \in Lane
  BY Constants, LaneAtType DEF LaneOf, Tickets

LEMMA LaneOfInc == \A n \in Tickets : Inc(LaneOf(n)) = LaneOf(n + 1)
  BY Constants, LaneAtInc DEF LaneOf, Tickets

LEMMA LaneOfDiff ==
    \A a, b \in Tickets :
        a - b <= Bound + Capacity /\ b - a <= Bound + Capacity =>
            SignedDiff(LaneOf(a), LaneOf(b)) = a - b
<1> SUFFICES ASSUME NEW a \in Tickets, NEW b \in Tickets,
                    a - b <= Bound + Capacity, b - a <= Bound + Capacity
             PROVE  SignedDiff(LaneOf(a), LaneOf(b)) = a - b
  OBVIOUS
<1>1. /\ 0 - Half < a /\ a < Half /\ 0 - Half < b /\ b < Half
      /\ a - b < Half /\ b - a < Half /\ a \in Int /\ b \in Int /\ Seed \in Lane
  BY Constants DEF Tickets
<1> QED
  BY <1>1, LaneAtDiff DEF LaneOf

\* A lap earlier is another lane value in the same slot ...
LEMMA LapBefore ==
    ASSUME NEW n \in 0 .. Bound + Capacity
    PROVE  /\ LaneOf(n - Capacity) # LaneOf(n)
           /\ Slot(LaneOf(n - Capacity)) = Slot(LaneOf(n))
           /\ Slot(LaneOf(n)) \in Slots
<1>1. /\ n \in Int /\ n - Capacity \in Int /\ 0 - Half < n - Capacity /\ n < Half
      /\ 0 - Half < n /\ n - Capacity < Half /\ Seed \in Lane
      /\ n - (n - Capacity) < Half /\ (n - Capacity) - n < Half
  BY Constants
<1>2. LaneAt(Seed, n - Capacity) # LaneAt(Seed, n)
  <2>1. LaneAt(Seed, n - Capacity) = LaneAt(Seed, n) => n - Capacity = n
    BY <1>1, LaneAtInjective
  <2> QED
    BY <2>1, Constants
<1>3. Slot(LaneAt(Seed, n)) = Slot(LaneAt(Seed, n - Capacity))
  BY <1>1, LapKeepsSlot
<1>4. LaneAt(Seed, n) \in Nat
  BY <1>1, LaneAtType, LaneConstants DEF Lane
<1>5. Slot(LaneAt(Seed, n)) \in Slots
  BY <1>4, SlotDivision
<1> QED
  BY <1>2, <1>3, <1>5 DEF LaneOf

\* ... and less than a lap is another slot.
LEMMA LessThanALap ==
    ASSUME NEW a \in 0 .. Bound + Capacity, NEW b \in 0 .. Bound + Capacity, a # b,
           a - b < Capacity, b - a < Capacity
    PROVE  Slot(LaneOf(a)) # Slot(LaneOf(b))
<1>1. /\ a \in Int /\ b \in Int /\ 0 - Half < a /\ a < Half /\ 0 - Half < b /\ b < Half
      /\ Seed \in Lane
  BY Constants
<1>2. CASE a < b
  BY <1>1, <1>2, SlotsDiffer DEF LaneOf
<1>3. CASE b < a
  BY <1>1, <1>3, SlotsDiffer DEF LaneOf
<1> QED
  BY <1>1, <1>2, <1>3

-------------------------------------------------------------------------------
(* What the invariant says of the history, of a producer and of the head *)

\* A set that maps one-to-one into a finite one is no larger.
LEMMA OneToOne ==
    ASSUME NEW S, NEW T, IsFiniteSet(T), NEW f \in [S -> T],
           \A x, y \in S : f[x] = f[y] => x = y
    PROVE  Cardinality(S) <= Cardinality(T)
<1>1. f \in Injection(S, T)
  BY DEF Injection, IsInjective
<1> QED
  BY <1>1, FS_Injection

\* No frame is claimed twice, so the history is bounded by what is offered.
LEMMA ClaimsBounded ==
    ASSUME TypeOK, ClaimsAreOffers
    PROVE  Len(claimed) \in 0 .. Bound
<1> DEFINE S == 1 .. Len(claimed)
           T == Producers \X (1 .. MaxFrames)
           f == [i \in S |-> claimed[i]]
<1>1. Len(claimed) \in Nat /\ \A i \in S : claimed[i] \in T
  BY DEF TypeOK
<1>2. f \in [S -> T]
  BY <1>1
<1>3. ASSUME NEW i \in S, NEW j \in S, f[i] = f[j]
      PROVE  i = j
  <2>1. claimed[i] = claimed[j] /\ claimed[i] \in T /\ i \in Nat /\ j \in Nat
    BY <1>1, <1>3
  <2>2. i \in Nat /\ j \in Nat /\ claimed[i][2] \in Nat
    BY <2>1
  <2>3. ASSUME NEW m \in S, NEW n \in S, m < n, claimed[m] = claimed[n], claimed[m][2] \in Nat
        PROVE  FALSE
    <3>1. claimed[m][2] < claimed[n][2]
      BY <2>3 DEF ClaimsAreOffers
    <3> QED
      BY <2>3, <3>1
  <2> HIDE DEF f, S, T
  <2>4. ~(i < j) /\ ~(j < i)
    <3>1. i \in S /\ j \in S /\ claimed[i] = claimed[j]
      BY <2>1
    <3>2. ~(i < j)
      BY <2>2, <2>3, <3>1
    <3> QED
      BY <2>2, <2>3, <3>1, <3>2
  <2> QED
    BY <2>2, <2>4
<1>5. IsFiniteSet(1 .. MaxFrames) /\ Cardinality(1 .. MaxFrames) = MaxFrames
  BY Constants, FS_Interval
<1>6. IsFiniteSet(T) /\ Cardinality(T) = Cardinality(Producers) * MaxFrames
  BY <1>5, Constants, FS_Product
<1>7. Cardinality(S) <= Cardinality(T)
  <2> HIDE DEF f, S, T
  <2> QED
    BY <1>2, <1>3, <1>6, OneToOne
<1>8. Cardinality(S) = Len(claimed)
  <2>1. 1 \in Int /\ Len(claimed) \in Int /\ Len(claimed) \in Nat
    BY <1>1
  <2>2. Cardinality(1 .. Len(claimed)) = IF 1 > Len(claimed) THEN 0 ELSE Len(claimed) - 1 + 1
    BY <2>1, FS_Interval
  <2> QED
    BY <2>1, <2>2
<1>9. Cardinality(Producers) * MaxFrames = Bound
  BY Constants DEF Bound
<1> QED
  BY <1>1, <1>6, <1>7, <1>8, <1>9, Constants

\* The counters of the history, and what the lanes' difference says of them.
LEMMA Counters ==
    ASSUME IInv
    PROVE  /\ Len(claimed) \in 0 .. Bound /\ Len(got) \in 0 .. Len(claimed)
           /\ Len(claimed) - Len(got) \in 0 .. Capacity
           /\ enqueueTicket = LaneOf(Len(claimed)) /\ dequeuePos = LaneOf(Len(got))
           /\ InFlight = Len(claimed) - Len(got)
<1>1. /\ Len(claimed) \in 0 .. Bound /\ Len(got) \in Nat
      /\ Len(got) <= Len(claimed) /\ Len(claimed) - Len(got) <= Capacity
      /\ enqueueTicket = LaneOf(Len(claimed)) /\ dequeuePos = LaneOf(Len(got))
  BY ClaimsBounded DEF IInv, TypeOK, LanesFollowHistory
<1>2. Len(claimed) \in Tickets /\ Len(got) \in Tickets
  BY <1>1, Constants DEF Tickets
<1>3. SignedDiff(LaneOf(Len(claimed)), LaneOf(Len(got))) = Len(claimed) - Len(got)
  BY <1>1, <1>2, Constants, LaneOfDiff
<1> QED
  BY <1>1, <1>3, Constants DEF InFlight

\* A producer with a ticket: it is in the window, not published, and its slot is
\* no other ticket's of the window.
LEMMA HeldTicket ==
    ASSUME IInv, NEW p \in Producers, ppc[p] \in Writing
    PROVE  \E t \in Len(got) .. Len(claimed) - 1 :
               /\ Holds(p, t) /\ ~Published(t)
               /\ t \in 0 .. Bound + Capacity /\ Slot(ticket[p]) \in Slots
               /\ \A u \in Len(got) .. Len(got) + Capacity - 1 :
                      u # t => Slot(LaneOf(u)) # Slot(ticket[p])
<1>1. PICK t \in Len(got) .. Len(claimed) - 1 : Holds(p, t)
  BY DEF IInv, TicketsHeld
<1>2. /\ Len(claimed) \in 0 .. Bound /\ Len(got) \in 0 .. Len(claimed)
      /\ Len(claimed) - Len(got) <= Capacity /\ t \in 0 .. Bound + Capacity
  BY <1>1, Counters, Constants
<1>3. ~Published(t) /\ Slot(ticket[p]) \in Slots
  BY <1>1, <1>2, LapBefore DEF Holds, Published
<1>4. ASSUME NEW u \in Len(got) .. Len(got) + Capacity - 1, u # t
      PROVE  Slot(LaneOf(u)) # Slot(LaneOf(t))
  <2>1. u \in 0 .. Bound + Capacity /\ u - t < Capacity /\ t - u < Capacity
    BY <1>1, <1>2, Constants
  <2> QED
    BY <1>2, <1>4, <2>1, LessThanALap
<1> QED
  BY <1>1, <1>2, <1>3, <1>4 DEF Holds

\* Two producers with tickets write different slots.
LEMMA WritersApart ==
    ASSUME IInv, NEW p \in Producers, NEW q \in Producers, p # q,
           ppc[p] \in Writing, ppc[q] \in Writing
    PROVE  Slot(ticket[p]) # Slot(ticket[q])
<1>1. PICK t \in Len(got) .. Len(claimed) - 1 :
          /\ Holds(p, t)
          /\ \A u \in Len(got) .. Len(got) + Capacity - 1 :
                 u # t => Slot(LaneOf(u)) # Slot(ticket[p])
  BY HeldTicket
<1>2. PICK u \in Len(got) .. Len(claimed) - 1 : Holds(q, u)
  BY DEF IInv, TicketsHeld
<1>3. u # t
  BY <1>1, <1>2 DEF Holds
<1>4. u \in Len(got) .. Len(got) + Capacity - 1
  BY <1>2, Counters, Constants
<1> QED
  BY <1>1, <1>2, <1>3, <1>4 DEF Holds

\* A producer about to claim: the producers of the frames past the line are all
\* others, each there once, so there is room for one more frame.
LEMMA RoomToClaim ==
    ASSUME IInv, ProducersAreCounted, NEW p \in Producers, ppc[p] = "claim"
    PROVE  Len(claimed) - Len(got) < Capacity
<1> DEFINE S == Line .. Len(claimed)
           T == Producers \ {p}
           f == [i \in S |-> claimed[i][1]]
<1>1. PICK k \in 0 .. Len(claimed) :
          k < Line /\ \A i \in k + 1 .. Len(claimed) : claimed[i][1] # p
  BY DEF IInv, LoadsFollowClaims, Trying
<1>2. /\ Len(claimed) \in Nat /\ Len(got) \in Nat /\ Line \in Nat /\ Line >= 1
      /\ Line = Len(got) + Capacity - Slack
  BY Counters, Constants DEF Line
<1>3. \A i \in S : i \in k + 1 .. Len(claimed) /\ i \in 1 .. Len(claimed)
  BY <1>1, <1>2
<1>4. f \in [S -> T]
  BY <1>1, <1>3 DEF IInv, TypeOK
<1>5. ASSUME NEW i \in S, NEW j \in S, f[i] = f[j]
      PROVE  i = j
  BY <1>2, <1>5 DEF IInv, PastTheLineOnce
<1>7. IsFiniteSet(T) /\ Cardinality(T) = Cardinality(Producers) - 1
  BY Constants, FS_RemoveElement
<1>8. Cardinality(S) <= Cardinality(T)
  <2> HIDE DEF f, S, T
  <2> QED
    BY <1>4, <1>5, <1>7, OneToOne
<1>9. Cardinality(S) = IF Line > Len(claimed) THEN 0 ELSE Len(claimed) - Line + 1
  <2>1. Line \in Int /\ Len(claimed) \in Int
    BY <1>2
  <2> QED
    BY <2>1, FS_Interval
<1>10. Cardinality(T) <= Slack
  BY <1>7, Constants, MpmcAssumption DEF ProducersAreCounted, Slack
<1>11. CASE Line > Len(claimed)
  BY <1>2, <1>11, Constants
<1>12. CASE Line <= Len(claimed)
  <2>1. Len(claimed) - Line + 1 <= Slack
    BY <1>2, <1>7, <1>8, <1>9, <1>10, <1>12, Constants
  <2> QED
    BY <1>2, <2>1, Constants
<1> QED
  BY <1>2, <1>11, <1>12

-------------------------------------------------------------------------------
(* The initial states *)

\* Init writes the stamps of the lap before with %.
LEMMA StampBefore ==
    ASSUME NEW n \in 0 - Capacity .. 0
    PROVE  (Seed + n) % Modulus = LaneOf(n)
<1>1. Seed \in 0 .. Modulus - 1 /\ Modulus \in Nat /\ Capacity < Modulus
  BY Constants DEF Lane
<1>2. CASE Seed + n < 0
  <2>1. Seed + n \in Int /\ 0 - Modulus < Seed + n
    BY <1>1, Constants
  <2>2. (Seed + n) % Modulus = Seed + n + Modulus
    BY <1>1, <1>2, <2>1
  <2> QED
    BY <1>2, <2>2 DEF LaneOf, LaneAt
<1>3. CASE 0 <= Seed + n
  <2>1. Seed + n \in 0 .. Modulus - 1
    BY <1>1, <1>3, Constants
  <2>2. (Seed + n) % Modulus = Seed + n
    BY <1>1, <2>1
  <2> QED
    BY <1>1, <1>3, <2>1, <2>2 DEF LaneOf, LaneAt
<1> QED
  BY <1>1, <1>2, <1>3, Constants

LEMMA InitIInv == Init => IInv
<1> SUFFICES ASSUME Init PROVE IInv
  OBVIOUS
<1>1. Seed \in Lane /\ Seed = LaneOf(0)
  BY Constants DEF LaneOf, LaneAt, Lane
<1>2. TypeOK
  BY <1>1, Constants DEF Init, TypeOK, FrameOrNothing, Nothing
<1>3. LanesFollowHistory /\ ClaimsAreOffers /\ LoadsFollowClaims
  BY <1>1, Constants DEF Init, LanesFollowHistory, ClaimsAreOffers, LoadsFollowClaims, Trying
<1>4. PastTheLineOnce /\ TicketsHeld /\ PayloadsWritten /\ ConsumerFollowsHistory
  BY Constants DEF Init, PastTheLineOnce, TicketsHeld, PayloadsWritten,
     ConsumerFollowsHistory, Line, Writing
<1>5. StampsFollowHistory
  <2>1. ASSUME NEW t \in 0 .. Capacity - 1
        PROVE  gen[Slot(LaneOf(t))] = LaneOf(t - Capacity)
    <3>1. /\ t \in Slots /\ t \in Int /\ Seed + t \in Nat /\ 0 - Half < t /\ t < Half
          /\ t - Capacity \in 0 - Capacity .. 0 /\ Seed + t - Capacity = Seed + (t - Capacity)
      BY Constants DEF Slots, Lane
    <3>2. gen[Slot(Seed + t)] = (Seed + t - Capacity) % Modulus
      BY <3>1 DEF Init
    <3>3. Slot(LaneOf(t)) = Slot(Seed + t)
      BY <1>1, <3>1, LaneAtSlot, WrapKeepsSlot DEF LaneOf
    <3> QED
      BY <3>1, <3>2, <3>3, StampBefore
  <2> QED
    BY <2>1, Constants DEF Init, StampsFollowHistory
<1>6. GapsAreOwned
  BY Constants DEF Init, GapsAreOwned
<1> QED
  BY <1>2, <1>3, <1>4, <1>5, <1>6 DEF IInv

-------------------------------------------------------------------------------
(* A producer's steps *)

LEMMA StartPushKeeps ==
    ASSUME IInv, NEW p \in Producers, StartPush(p)
    PROVE  IInv'
<1>1. /\ ppc[p] = "idle" /\ offered[p] \in 0 .. MaxFrames - 1
      /\ offered' = [offered EXCEPT ![p] = @ + 1]
      /\ pW' = [pW EXCEPT ![p] = enqueueTicket] /\ ppc' = [ppc EXCEPT ![p] = "check"]
      /\ UNCHANGED <<lanes, payload, counters, ticket, consumerVars, claimed, got>>
  BY Constants DEF StartPush, IInv, TypeOK
<1>2. TypeOK'
  <2>1. offered[p] + 1 \in 0 .. MaxFrames
    BY <1>1, Constants
  <2> QED
    BY <1>1, <2>1 DEF IInv, TypeOK
<1>3. LanesFollowHistory' /\ PastTheLineOnce' /\ StampsFollowHistory'
      /\ ConsumerFollowsHistory'
  BY <1>1 DEF IInv, LanesFollowHistory, PastTheLineOnce, StampsFollowHistory, Published,
     ConsumerFollowsHistory, Line
<1>4. \A q \in Producers :
          /\ offered[q] \in Nat /\ offered'[q] \in Nat
          /\ offered'[q] >= offered[q] /\ (q # p => offered'[q] = offered[q])
  <2>1. \A q \in Producers :
            offered[q] \in Nat /\ offered'[q] = IF q = p THEN offered[q] + 1 ELSE offered[q]
    BY <1>1, Constants DEF IInv, TypeOK
  <2> QED
    BY <2>1
<1>5. ClaimsAreOffers'
  <2>1. \A i \in 1 .. Len(claimed) : claimed[i][2] \in Nat /\ claimed[i][1] \in Producers
    BY DEF IInv, TypeOK
  <2>2. ASSUME NEW q \in Producers, ppc'[q] \in Trying,
               NEW i \in 1 .. Len(claimed), claimed[i][1] = q
        PROVE  claimed[i][2] < offered'[q]
    <3>1. CASE q = p
      <4>1. claimed[i][2] <= offered[p]
        BY <2>2, <3>1 DEF IInv, ClaimsAreOffers
      <4>2. offered[p] \in Nat /\ offered'[p] = offered[p] + 1
        BY <1>1, <1>4 DEF IInv, TypeOK
      <4> QED
        BY <2>1, <3>1, <4>1, <4>2
    <3>2. CASE q # p
      BY <1>1, <1>4, <2>2, <3>2 DEF IInv, ClaimsAreOffers, TypeOK
    <3> QED
      BY <3>1, <3>2
  <2>3. ASSUME NEW i \in 1 .. Len(claimed)
        PROVE  claimed[i][2] <= offered'[claimed[i][1]]
    <3>1. claimed[i][2] <= offered[claimed[i][1]]
      BY DEF IInv, ClaimsAreOffers
    <3> QED
      BY <1>4, <2>1, <3>1
  <2>4. ASSUME NEW q \in Producers, ppc'[q] \in Trying
        PROVE  offered'[q] >= 1
    <3>1. CASE q = p
      BY <1>1, <3>1 DEF IInv, TypeOK
    <3>2. CASE q # p
      BY <1>1, <1>4, <2>4, <3>2 DEF IInv, ClaimsAreOffers, TypeOK
    <3> QED
      BY <3>1, <3>2
  <2> QED
    BY <1>1, <2>2, <2>3, <2>4 DEF IInv, ClaimsAreOffers
<1>6. LoadsFollowClaims'
  <2>1. ASSUME NEW q \in Producers, ppc'[q] \in Trying
        PROVE  \E k \in 0 .. Len(claimed) :
                  /\ pW'[q] = LaneOf(k)
                  /\ \A i \in k + 1 .. Len(claimed) : claimed[i][1] # q
                  /\ ppc'[q] = "claim" => k < Line
    <3>1. CASE q = p
      <4>1. Len(claimed) \in 0 .. Len(claimed) /\ pW'[q] = LaneOf(Len(claimed))
        BY <1>1, <3>1, Counters DEF IInv, TypeOK
      <4>2. ppc'[q] = "check"
        BY <1>1, <3>1 DEF IInv, TypeOK
      <4> QED
        BY <4>1, <4>2
    <3>2. CASE q # p
      BY <1>1, <2>1, <3>2 DEF IInv, LoadsFollowClaims, TypeOK
    <3> QED
      BY <3>1, <3>2
  <2> QED
    BY <1>1, <2>1 DEF LoadsFollowClaims, Line
<1>7. TicketsHeld' /\ PayloadsWritten'
  <2>1. ASSUME NEW q \in Producers, ppc'[q] \in Writing
        PROVE  q # p /\ ppc[q] = ppc'[q] /\ offered'[q] = offered[q]
    BY <1>1, <1>4, <2>1 DEF IInv, TypeOK, Writing
  <2> QED
    BY <1>1, <2>1, ZenonT(40) DEF IInv, TicketsHeld, PayloadsWritten, Holds, Writing
<1>8. GapsAreOwned'
  <2>1. \A q \in Producers : ppc[q] \in Writing \cup {"dead"} => ppc'[q] = ppc[q]
    BY <1>1 DEF IInv, TypeOK, Writing
  <2> QED
    BY <1>1, <2>1 DEF IInv, GapsAreOwned, Owns, Published
<1> QED
  BY <1>2, <1>3, <1>5, <1>6, <1>7, <1>8 DEF IInv

\* The check that passes has seen a count below the line.
LEMMA CheckEnvelopeKeeps ==
    ASSUME IInv, NEW p \in Producers, CheckEnvelope(p)
    PROVE  IInv'
<1>1. /\ ppc[p] = "check" /\ \/ AtLimit(pW[p]) /\ ppc' = [ppc EXCEPT ![p] = "idle"]
                             \/ ~AtLimit(pW[p]) /\ ppc' = [ppc EXCEPT ![p] = "claim"]
      /\ dropped' \in Nat
      /\ UNCHANGED <<lanes, payload, overrunLost, torn, pW, ticket, offered,
                     consumerVars, claimed, got>>
  BY DEF CheckEnvelope, IInv, TypeOK
<1>2. /\ \A q \in Producers \ {p} : ppc'[q] = ppc[q]
      /\ ppc'[p] \in {"idle", "claim"} /\ (ppc'[p] = "claim" => ~AtLimit(pW[p]))
  BY <1>1 DEF IInv, TypeOK
<1>3. TypeOK'
  BY <1>1 DEF IInv, TypeOK
<1>4. LanesFollowHistory' /\ PastTheLineOnce' /\ StampsFollowHistory'
      /\ ConsumerFollowsHistory'
  BY <1>1 DEF IInv, LanesFollowHistory, PastTheLineOnce, StampsFollowHistory, Published,
     ConsumerFollowsHistory, Line
<1>5. ClaimsAreOffers'
  BY <1>1, <1>2 DEF IInv, ClaimsAreOffers, Trying
<1>6. LoadsFollowClaims'
  <2>1. PICK k \in 0 .. Len(claimed) :
            pW[p] = LaneOf(k) /\ \A i \in k + 1 .. Len(claimed) : claimed[i][1] # p
    BY <1>1 DEF IInv, LoadsFollowClaims, Trying
  <2>2. ~AtLimit(pW[p]) => k < Line
    <3>1. /\ Len(claimed) \in 0 .. Bound /\ Len(got) \in 0 .. Bound /\ k \in Tickets
          /\ Len(got) \in Tickets /\ k - Len(got) <= Bound + Capacity
          /\ Len(got) - k <= Bound + Capacity /\ dequeuePos = LaneOf(Len(got))
      BY <2>1, Counters, Constants DEF Tickets
    <3>2. SignedDiff(pW[p], dequeuePos) = k - Len(got)
      BY <2>1, <3>1, LaneOfDiff
    <3> QED
      BY <3>1, <3>2, Constants DEF AtLimit, Line
  <2>3. ASSUME NEW q \in Producers, ppc'[q] \in Trying
        PROVE  \E j \in 0 .. Len(claimed) :
                  /\ pW[q] = LaneOf(j)
                  /\ \A i \in j + 1 .. Len(claimed) : claimed[i][1] # q
                  /\ ppc'[q] = "claim" => j < Line
    <3>1. CASE q = p
      BY <1>2, <2>1, <2>2, <3>1
    <3>2. CASE q # p
      BY <1>2, <2>3, <3>2 DEF IInv, LoadsFollowClaims
    <3> QED
      BY <3>1, <3>2
  <2> QED
    BY <1>1, <2>3 DEF LoadsFollowClaims, Line
<1>7. TicketsHeld' /\ PayloadsWritten'
  BY <1>1, <1>2 DEF IInv, TicketsHeld, PayloadsWritten, Holds, Writing
<1>8. GapsAreOwned'
  <2>1. \A q \in Producers : ppc[q] \in Writing \cup {"dead"} => ppc'[q] = ppc[q]
    BY <1>1, <1>2 DEF Writing
  <2> QED
    BY <1>1, <2>1 DEF IInv, GapsAreOwned, Owns, Published
<1> QED
  BY <1>3, <1>4, <1>5, <1>6, <1>7, <1>8 DEF IInv

\* The claim extends the history by a frame of p, the only one past the line it has.
LEMMA ClaimKeeps ==
    ASSUME IInv, ProducersAreCounted, NEW p \in Producers, Claim(p)
    PROVE  IInv'
<1> DEFINE e == <<p, offered[p]>>
           N == Len(claimed)
<1>1. /\ ppc[p] = "claim" /\ ppc' = [ppc EXCEPT ![p] = "writeLo"]
      /\ ticket' = [ticket EXCEPT ![p] = enqueueTicket]
      /\ enqueueTicket' = Inc(enqueueTicket) /\ claimed' = Append(claimed, e)
      /\ UNCHANGED <<dequeuePos, gen, payload, counters, pW, offered, consumerVars, got>>
  BY DEF Claim
<1>2. /\ N \in 0 .. Bound /\ Len(got) \in 0 .. N /\ N - Len(got) \in 0 .. Capacity - 1
      /\ enqueueTicket = LaneOf(N) /\ N \in Tickets
  BY <1>1, Counters, RoomToClaim, Constants DEF Tickets
<1>3. offered[p] \in 1 .. MaxFrames
  <2>1. offered[p] \in 0 .. MaxFrames
    BY DEF IInv, TypeOK
  <2>2. offered[p] >= 1
    BY <1>1 DEF IInv, ClaimsAreOffers, Trying
  <2> QED
    BY <2>1, <2>2, Constants
<1>4. /\ Len(claimed') = N + 1 /\ claimed'[N + 1] = e
      /\ \A i \in 1 .. N : claimed'[i] = claimed[i]
      /\ claimed' \in Seq(Producers \X (1 .. MaxFrames))
  BY <1>1, <1>3 DEF IInv, TypeOK
<1>5. enqueueTicket' = LaneOf(N + 1) /\ enqueueTicket' \in Lane
  BY <1>1, <1>2, LaneOfInc, LaneOfType, Constants DEF Tickets
<1>6. /\ ppc'[p] = "writeLo" /\ ticket'[p] = LaneOf(N)
      /\ \A q \in Producers \ {p} : ppc'[q] = ppc[q] /\ ticket'[q] = ticket[q]
  BY <1>1, <1>2 DEF IInv, TypeOK
<1> HIDE DEF e, N
<1>7. TypeOK'
  <2>1. enqueueTicket \in Lane
    BY DEF IInv, TypeOK
  <2> QED
    BY <1>1, <1>4, <1>5, <2>1 DEF IInv, TypeOK
<1>8. LanesFollowHistory'
  BY <1>1, <1>2, <1>4, <1>5, Constants DEF IInv, LanesFollowHistory
<1>9. \A i \in 1 .. N : claimed[i] \in Producers \X (1 .. MaxFrames)
  BY DEF IInv, TypeOK, N
<1>10. ClaimsAreOffers'
  <2>1. ASSUME NEW i \in 1 .. N + 1
        PROVE  claimed'[i][2] <= offered[claimed'[i][1]]
    <3>1. CASE i = N + 1
      BY <1>3, <1>4, <3>1 DEF e
    <3>2. CASE i \in 1 .. N
      BY <1>4, <3>2 DEF IInv, ClaimsAreOffers, N
    <3> QED
      BY <1>2, <3>1, <3>2
  <2>2. ASSUME NEW i \in 1 .. N + 1, NEW j \in 1 .. N + 1, i < j,
               claimed'[i][1] = claimed'[j][1]
        PROVE  claimed'[i][2] < claimed'[j][2]
    <3>1. i \in 1 .. N /\ claimed'[i] = claimed[i]
      BY <1>2, <1>4, <2>2
    <3>2. CASE j = N + 1
      <4>1. claimed'[j][1] = p /\ claimed'[j][2] = offered[p]
        BY <1>4, <3>2 DEF e
      <4>2. claimed[i][1] = p
        BY <2>2, <3>1, <4>1
      <4>3. claimed[i][2] < offered[p]
        BY <1>1, <3>1, <4>2 DEF IInv, ClaimsAreOffers, Trying, N
      <4> QED
        BY <3>1, <4>1, <4>3
    <3>3. CASE j \in 1 .. N
      BY <1>4, <2>2, <3>1, <3>3 DEF IInv, ClaimsAreOffers, N
    <3> QED
      BY <1>2, <3>2, <3>3
  <2>3. ASSUME NEW q \in Producers, ppc'[q] \in Trying,
               NEW i \in 1 .. N + 1, claimed'[i][1] = q
        PROVE  claimed'[i][2] < offered[q]
    <3>1. q # p /\ ppc[q] \in Trying
      BY <1>6, <2>3 DEF Trying
    <3>2. i \in 1 .. N /\ claimed'[i] = claimed[i]
      <4>1. i # N + 1
        BY <1>4, <2>3, <3>1 DEF e
      <4> QED
        BY <1>2, <1>4, <4>1
    <3> QED
      BY <2>3, <3>1, <3>2 DEF IInv, ClaimsAreOffers, N
  <2>4. \A q \in Producers : ppc'[q] \in Trying => offered[q] >= 1
    BY <1>6 DEF IInv, ClaimsAreOffers, Trying
  <2> QED
    BY <1>1, <1>4, <2>1, <2>2, <2>3, <2>4 DEF ClaimsAreOffers
<1>11. LoadsFollowClaims'
  <2>1. ASSUME NEW q \in Producers, ppc'[q] \in Trying
        PROVE  \E k \in 0 .. N + 1 :
                  /\ pW[q] = LaneOf(k)
                  /\ \A i \in k + 1 .. N + 1 : claimed'[i][1] # q
                  /\ ppc'[q] = "claim" => k < Line
    <3>1. q # p /\ ppc'[q] = ppc[q]
      BY <1>6, <2>1 DEF Trying
    <3>2. PICK k \in 0 .. N :
              /\ pW[q] = LaneOf(k)
              /\ \A i \in k + 1 .. N : claimed[i][1] # q
              /\ ppc[q] = "claim" => k < Line
      BY <2>1, <3>1 DEF IInv, LoadsFollowClaims, N
    <3>3. ASSUME NEW i \in k + 1 .. N + 1
          PROVE  claimed'[i][1] # q
      <4>1. CASE i = N + 1
        BY <1>4, <3>1, <4>1 DEF e
      <4>2. CASE i \in k + 1 .. N
        <5>1. i \in 1 .. N
          BY <1>2, <3>2, <4>2
        <5> QED
          BY <1>4, <3>2, <4>2, <5>1
      <4> QED
        BY <1>2, <3>2, <4>1, <4>2
    <3> QED
      BY <1>2, <3>1, <3>2, <3>3
  <2> QED
    BY <1>1, <1>4, <2>1, ZenonT(40) DEF LoadsFollowClaims, Line
<1>12. PastTheLineOnce'
  <2>1. PICK k \in 0 .. N : k < Line /\ \A i \in k + 1 .. N : claimed[i][1] # p
    BY <1>1 DEF IInv, LoadsFollowClaims, Trying, N
  <2>2. Line \in Nat /\ Line >= 1
    BY <1>2, Constants DEF Line
  <2>3. ASSUME NEW i \in Line .. N + 1, NEW j \in Line .. N + 1, i < j
        PROVE  claimed'[i][1] # claimed'[j][1]
    <3>1. i \in Line .. N /\ i \in 1 .. N /\ i \in k + 1 .. N /\ claimed'[i] = claimed[i]
      BY <1>2, <1>4, <2>1, <2>2, <2>3
    <3>2. CASE j = N + 1
      BY <1>4, <2>1, <3>1, <3>2 DEF e
    <3>3. CASE j \in Line .. N
      <4>1. j \in 1 .. N /\ i >= 1 /\ j >= 1 /\ i # j
        BY <1>2, <2>2, <2>3, <3>1, <3>3
      <4> QED
        BY <1>4, <3>1, <3>3, <4>1 DEF IInv, PastTheLineOnce, N
    <3> QED
      BY <1>2, <2>2, <3>2, <3>3
  <2>4. \A i, j \in Line .. N + 1 :
            i >= 1 /\ j >= 1 /\ i # j => claimed'[i][1] # claimed'[j][1]
    BY <1>2, <2>2, <2>3
  <2> QED
    BY <1>1, <1>4, <2>4 DEF PastTheLineOnce, Line
<1>13. TicketsHeld'
  <2>1. ASSUME NEW q \in Producers, ppc'[q] \in Writing
        PROVE  \E t \in Len(got) .. N :
                  /\ ticket'[q] = LaneOf(t)
                  /\ claimed'[t + 1] = <<q, offered[q]>>
                  /\ gen[Slot(ticket'[q])] = LaneOf(t - Capacity)
    <3>1. CASE q = p
      <4>1. N \in Len(got) .. Len(got) + Capacity - 1 /\ ~Published(N)
        BY <1>2, Constants DEF Published, N
      <4>2. gen[Slot(LaneOf(N))] = LaneOf(N - Capacity)
        BY <4>1 DEF IInv, StampsFollowHistory
      <4>3. N \in Len(got) .. N
        BY <1>2
      <4> QED
        BY <1>4, <1>6, <3>1, <4>2, <4>3 DEF e
    <3>2. CASE q # p
      <4>1. PICK t \in Len(got) .. N - 1 : Holds(q, t)
        BY <1>6, <2>1, <3>2 DEF IInv, TicketsHeld, N
      <4>2. t \in Len(got) .. N /\ t + 1 \in 1 .. N
        BY <1>2, <4>1
      <4> QED
        BY <1>4, <1>6, <3>2, <4>1, <4>2 DEF Holds
    <3> QED
      BY <3>1, <3>2
  <2>2. Len(claimed') - 1 = N
    BY <1>2, <1>4
  <2> QED
    BY <1>1, <2>1, <2>2 DEF TicketsHeld, Holds
<1>14. PayloadsWritten'
  BY <1>1, <1>6 DEF IInv, PayloadsWritten
<1>15. ASSUME NEW t \in 0 .. Bound + Capacity, Published(t)
       PROVE  Published(t)'
  <2>1. t < N /\ t + 1 \in 1 .. N
    BY <1>2, <1>15 DEF Published, N
  <2> QED
    BY <1>1, <1>2, <1>4, <1>15, <2>1 DEF Published
<1>16. StampsFollowHistory'
  <2>1. \A t \in Len(got) .. Len(got) + Capacity - 1 : t \in 0 .. Bound + Capacity
    BY <1>2, Constants
  <2> QED
    BY <1>1, <1>15, <2>1 DEF IInv, StampsFollowHistory
<1>17. ConsumerFollowsHistory'
  <2>1. Len(got) \in 0 .. Bound + Capacity
    BY <1>2, Constants
  <2>2. Published(Len(got)) =>
            Published(Len(got))' /\ claimed'[Len(got) + 1] = claimed[Len(got) + 1]
    BY <1>1, <1>2, <1>4, <1>15, <2>1 DEF Published, N
  <2> QED
    BY <1>1, <2>2 DEF IInv, ConsumerFollowsHistory
<1>18. GapsAreOwned'
  <2>1. ASSUME NEW t \in Len(got) .. N
        PROVE  Published(t)' \/ \E q \in Producers : Owns(q, t)'
    <3>1. CASE t = N
      BY <1>6, <3>1 DEF Owns, Writing
    <3>2. CASE t # N
      <4>1. t \in Len(got) .. N - 1 /\ t \in 0 .. Bound + Capacity
        BY <1>2, <3>2, Constants
      <4>2. CASE Published(t)
        BY <1>15, <4>1, <4>2
      <4>3. CASE \E q \in Producers : Owns(q, t)
        BY <1>1, <1>6, <4>3 DEF Owns, Writing
      <4> QED
        BY <4>1, <4>2, <4>3 DEF IInv, GapsAreOwned, N
    <3> QED
      BY <3>1, <3>2
  <2>2. Len(claimed') - 1 = N
    BY <1>2, <1>4
  <2> QED
    BY <1>1, <2>1, <2>2 DEF GapsAreOwned
<1> QED
  BY <1>1, <1>7, <1>8, <1>10, <1>11, <1>12, <1>13, <1>14, <1>16, <1>17, <1>18 DEF IInv

\* A payload half goes to a slot whose stamp is a lap old, so no published frame
\* changes; and to no other producer's slot.
LEMMA WriteKeeps ==
    ASSUME IInv, NEW p \in Producers, WriteLo(p) \/ WriteHi(p)
    PROVE  IInv'
<1> DEFINE e == <<p, offered[p]>>
           s == Slot(ticket[p])
<1>1. /\ ppc[p] \in Writing
      /\ UNCHANGED <<lanes, counters, pW, ticket, offered, consumerVars, claimed, got>>
      /\ \/ /\ WriteLo(p) /\ ppc[p] = "writeLo" /\ ppc' = [ppc EXCEPT ![p] = "writeHi"]
            /\ lo' = [lo EXCEPT ![s] = e] /\ hi' = hi
         \/ /\ WriteHi(p) /\ ppc[p] = "writeHi" /\ ppc' = [ppc EXCEPT ![p] = "publish"]
            /\ hi' = [hi EXCEPT ![s] = e] /\ lo' = lo
  BY DEF WriteLo, WriteHi, Writing
<1>2. PICK t \in Len(got) .. Len(claimed) - 1 :
          /\ Holds(p, t) /\ ~Published(t) /\ s \in Slots
          /\ \A u \in Len(got) .. Len(got) + Capacity - 1 : u # t => Slot(LaneOf(u)) # s
  BY <1>1, HeldTicket
<1>3. e \in FrameOrNothing
  <2>1. t + 1 \in 1 .. Len(claimed)
    BY <1>2, Counters
  <2>2. claimed[t + 1] \in Producers \X (1 .. MaxFrames)
    BY <2>1 DEF IInv, TypeOK
  <2> QED
    BY <1>2, <2>2 DEF Holds, FrameOrNothing
<1>4. \A q \in Producers : q # p /\ ppc[q] \in Writing => Slot(ticket[q]) # s
  BY <1>1, WritersApart
<1>5. \A q \in Producers \ {p} : ppc'[q] = ppc[q]
  BY <1>1 DEF IInv, TypeOK
<1>6. ppc'[p] \in {"writeHi", "publish"} /\ lo'[s] = e /\ (ppc'[p] = "publish" => hi'[s] = e)
  <2>1. CASE WriteLo(p)
    BY <1>1, <1>2, <2>1 DEF IInv, TypeOK, WriteLo
  <2>2. CASE WriteHi(p)
    BY <1>1, <1>2, <2>2 DEF IInv, TypeOK, PayloadsWritten, WriteHi
  <2> QED
    BY <1>1, <2>1, <2>2
<1>7. \A i \in Slots \ {s} : lo'[i] = lo[i] /\ hi'[i] = hi[i]
  BY <1>1 DEF IInv, TypeOK
<1> HIDE DEF e, s
<1>8. TypeOK'
  BY <1>1, <1>3, ZenonT(40) DEF IInv, TypeOK
<1>9. LanesFollowHistory' /\ PastTheLineOnce'
  BY <1>1 DEF IInv, LanesFollowHistory, PastTheLineOnce, Line
<1>10. ClaimsAreOffers' /\ LoadsFollowClaims'
  <2>1. \A q \in Producers : ppc'[q] \in Trying => ppc[q] = ppc'[q]
    BY <1>5, <1>6 DEF Trying
  <2> QED
    BY <1>1, <2>1 DEF IInv, ClaimsAreOffers, LoadsFollowClaims, Line, Trying
<1>11. TicketsHeld'
  <2>1. \A q \in Producers : ppc'[q] \in Writing => ppc[q] \in Writing
    BY <1>1, <1>5
  <2> QED
    BY <1>1, <2>1 DEF IInv, TicketsHeld, Holds
<1>12. PayloadsWritten'
  <2>1. ASSUME NEW q \in Producers, q # p, ppc'[q] \in {"writeHi", "publish"}
        PROVE  /\ lo'[Slot(ticket[q])] = lo[Slot(ticket[q])]
               /\ hi'[Slot(ticket[q])] = hi[Slot(ticket[q])]
    <3>1. ppc[q] \in Writing
      BY <1>5, <2>1 DEF Writing
    <3>2. Slot(ticket[q]) \in Slots /\ Slot(ticket[q]) # s
      BY <1>4, <2>1, <3>1, HeldTicket
    <3> QED
      BY <1>7, <3>2
  <2>2. ASSUME NEW q \in Producers
        PROVE  /\ ppc'[q] \in {"writeHi", "publish"} =>
                      lo'[Slot(ticket[q])] = <<q, offered[q]>>
               /\ ppc'[q] = "publish" => hi'[Slot(ticket[q])] = <<q, offered[q]>>
    <3>1. CASE q = p
      BY <1>6, <3>1 DEF e, s
    <3>2. CASE q # p
      BY <1>5, <2>1, <3>2 DEF IInv, PayloadsWritten
    <3> QED
      BY <3>1, <3>2
  <2> QED
    BY <1>1, <2>2 DEF PayloadsWritten
<1>13. ASSUME NEW u \in Len(got) .. Len(got) + Capacity - 1, Published(u)
       PROVE  Published(u)'
  <2>1. u # t
    BY <1>2, <1>13
  <2>2. Slot(LaneOf(u)) # s /\ Slot(LaneOf(u)) \in Slots
    <3>1. u \in 0 .. Bound + Capacity
      BY Counters, Constants
    <3> QED
      BY <1>2, <2>1, <3>1, LapBefore
  <2> QED
    BY <1>1, <1>7, <1>13, <2>2 DEF Published
<1>14. StampsFollowHistory' /\ ConsumerFollowsHistory'
  <2>1. Len(got) \in Len(got) .. Len(got) + Capacity - 1
    BY Counters, Constants
  <2> QED
    BY <1>1, <1>13, <2>1 DEF IInv, StampsFollowHistory, ConsumerFollowsHistory
<1>15. GapsAreOwned'
  <2>1. ASSUME NEW u \in Len(got) .. Len(claimed) - 1
        PROVE  Published(u)' \/ \E q \in Producers : Owns(q, u)'
    <3>1. u \in Len(got) .. Len(got) + Capacity - 1
      BY Counters, Constants
    <3>2. CASE Published(u)
      BY <1>13, <3>1, <3>2
    <3>3. CASE \E q \in Producers : Owns(q, u)
      BY <1>1, <1>5, <1>6, <3>3 DEF Owns, Writing
    <3> QED
      BY <3>2, <3>3 DEF IInv, GapsAreOwned
  <2> QED
    BY <1>1, <2>1 DEF GapsAreOwned
<1> QED
  BY <1>8, <1>9, <1>10, <1>11, <1>12, <1>14, <1>15 DEF IInv

\* The stamp makes one ticket's frame ready and moves no other slot.
LEMMA PublishKeeps ==
    ASSUME IInv, NEW p \in Producers, Publish(p)
    PROVE  IInv'
<1> DEFINE s == Slot(ticket[p])
<1>1. /\ ppc[p] = "publish" /\ ppc' = [ppc EXCEPT ![p] = "idle"]
      /\ gen' = [gen EXCEPT ![s] = ticket[p]]
      /\ UNCHANGED <<enqueueTicket, dequeuePos, payload, counters, pW, ticket,
                     offered, consumerVars, claimed, got>>
  BY DEF Publish
<1>2. PICK t \in Len(got) .. Len(claimed) - 1 :
          /\ Holds(p, t) /\ ~Published(t) /\ s \in Slots /\ t \in 0 .. Bound + Capacity
          /\ \A u \in Len(got) .. Len(got) + Capacity - 1 : u # t => Slot(LaneOf(u)) # s
  BY <1>1, HeldTicket DEF Writing
<1>3. \A q \in Producers : q # p /\ ppc[q] \in Writing => Slot(ticket[q]) # s
  BY <1>1, WritersApart DEF Writing
<1>4. ppc'[p] = "idle" /\ \A q \in Producers \ {p} : ppc'[q] = ppc[q]
  BY <1>1 DEF IInv, TypeOK
<1>5. gen'[s] = LaneOf(t) /\ \A i \in Slots \ {s} : gen'[i] = gen[i]
  BY <1>1, <1>2 DEF IInv, TypeOK, Holds
<1>6. lo[s] = claimed[t + 1] /\ hi[s] = claimed[t + 1] /\ s = Slot(LaneOf(t))
  BY <1>1, <1>2 DEF IInv, PayloadsWritten, Holds
<1> HIDE DEF s
<1>7. TypeOK'
  <2>1. ticket[p] \in Lane
    BY DEF IInv, TypeOK
  <2> QED
    BY <1>1, <2>1 DEF IInv, TypeOK
<1>8. LanesFollowHistory' /\ PastTheLineOnce'
  BY <1>1 DEF IInv, LanesFollowHistory, PastTheLineOnce, Line
<1>9. ClaimsAreOffers' /\ LoadsFollowClaims'
  <2>1. \A q \in Producers : ppc'[q] \in Trying => ppc[q] = ppc'[q]
    BY <1>4 DEF Trying
  <2> QED
    BY <1>1, <2>1 DEF IInv, ClaimsAreOffers, LoadsFollowClaims, Line, Trying
<1>10. ASSUME NEW q \in Producers, ppc'[q] \in Writing
       PROVE  q # p /\ ppc[q] = ppc'[q] /\ gen'[Slot(ticket[q])] = gen[Slot(ticket[q])]
  <2>1. q # p /\ ppc[q] = ppc'[q]
    BY <1>4, <1>10 DEF Writing
  <2>2. Slot(ticket[q]) \in Slots /\ Slot(ticket[q]) # s
    BY <1>3, <1>10, <2>1, HeldTicket
  <2> QED
    BY <1>5, <2>1, <2>2
<1>11. TicketsHeld'
  <2>1. ASSUME NEW q \in Producers, ppc'[q] \in Writing
        PROVE  \E u \in Len(got) .. Len(claimed) - 1 :
                  /\ ticket[q] = LaneOf(u)
                  /\ claimed[u + 1] = <<q, offered[q]>>
                  /\ gen'[Slot(ticket[q])] = LaneOf(u - Capacity)
    BY <1>10, <2>1 DEF IInv, TicketsHeld, Holds
  <2> QED
    BY <1>1, <2>1 DEF TicketsHeld, Holds
<1>12. PayloadsWritten'
  <2>1. \A q \in Producers : ppc'[q] \in Writing => ppc[q] = ppc'[q]
    BY <1>10
  <2> QED
    BY <1>1, <2>1 DEF IInv, PayloadsWritten, Writing
<1>13. ASSUME NEW u \in Len(got) .. Len(got) + Capacity - 1, u # t
       PROVE  gen'[Slot(LaneOf(u))] = gen[Slot(LaneOf(u))]
  <2>1. u \in 0 .. Bound + Capacity
    BY Counters, Constants
  <2> QED
    BY <1>2, <1>5, <1>13, <2>1, LapBefore
<1>14. Published(t)'
  <2>1. t < Len(claimed)
    BY <1>2, Counters
  <2> QED
    BY <1>1, <1>5, <1>6, <2>1 DEF Published
<1>15. StampsFollowHistory'
  <2>1. ASSUME NEW u \in Len(got) .. Len(got) + Capacity - 1
        PROVE  Published(u)' \/ gen'[Slot(LaneOf(u))] = LaneOf(u - Capacity)
    <3>1. CASE u = t
      BY <1>14, <3>1
    <3>2. CASE u # t
      BY <1>1, <1>13, <3>2 DEF IInv, StampsFollowHistory, Published
    <3> QED
      BY <3>1, <3>2
  <2> QED
    BY <1>1, <2>1 DEF StampsFollowHistory
<1>16. ConsumerFollowsHistory'
  <2>1. Len(got) \in Len(got) .. Len(got) + Capacity - 1
    BY Counters, Constants
  <2>2. ASSUME NEW u \in Len(got) .. Len(got) + Capacity - 1, Published(u)
        PROVE  Published(u)'
    <3>1. u # t
      BY <1>2, <2>2
    <3> QED
      BY <1>1, <1>13, <2>2, <3>1 DEF Published
  <2>3. Len(got)' = Len(got)
    BY <1>1
  <2> QED
    BY <1>1, <2>1, <2>2, <2>3 DEF IInv, ConsumerFollowsHistory
<1>17. GapsAreOwned'
  <2>1. ASSUME NEW u \in Len(got) .. Len(claimed) - 1
        PROVE  Published(u)' \/ \E q \in Producers : Owns(q, u)'
    <3>1. u \in Len(got) .. Len(got) + Capacity - 1
      BY Counters, Constants
    <3>2. CASE u = t
      BY <1>14, <3>2
    <3>3. CASE u # t /\ Published(u)
      BY <1>1, <1>13, <3>1, <3>3 DEF Published
    <3>4. CASE u # t /\ \E q \in Producers : Owns(q, u)
      <4>1. PICK q \in Producers : Owns(q, u)
        BY <3>4
      <4>2. u \in Tickets /\ t \in Tickets /\ LaneOf(u) # LaneOf(t)
        <5>1. u \in Tickets /\ t \in Tickets /\ u - t <= Bound + Capacity
              /\ t - u <= Bound + Capacity /\ u \in Int /\ t \in Int
          BY <1>2, Counters, Constants DEF Tickets
        <5>2. t - t <= Bound + Capacity /\ t - t = 0 /\ u - t # 0
          BY <3>4, <5>1, Constants
        <5> QED
          BY <5>1, <5>2, LaneOfDiff
      <4>3. q # p
        BY <1>2, <4>1, <4>2 DEF Owns, Holds
      <4> QED
        BY <1>1, <1>4, <4>1, <4>3 DEF Owns
    <3> QED
      BY <3>2, <3>3, <3>4 DEF IInv, GapsAreOwned
  <2> QED
    BY <1>1, <2>1 DEF GapsAreOwned
<1> QED
  BY <1>7, <1>8, <1>9, <1>11, <1>12, <1>15, <1>16, <1>17 DEF IInv

LEMMA TerminateKeeps ==
    ASSUME IInv, NEW p \in Producers, Terminate(p)
    PROVE  IInv'
<1>1. /\ ppc' = [ppc EXCEPT ![p] = "dead"]
      /\ UNCHANGED <<lanes, payload, counters, pW, ticket, offered, consumerVars,
                     claimed, got>>
  BY DEF Terminate
<1>2. \A q \in Producers :
          ppc'[q] \in Trying \cup Writing => ppc[q] = ppc'[q]
  BY <1>1 DEF IInv, TypeOK, Trying, Writing
<1>3. TypeOK'
  BY <1>1 DEF IInv, TypeOK
<1>4. LanesFollowHistory' /\ PastTheLineOnce' /\ StampsFollowHistory'
      /\ ConsumerFollowsHistory'
  BY <1>1 DEF IInv, LanesFollowHistory, PastTheLineOnce, StampsFollowHistory, Published,
     ConsumerFollowsHistory, Line
<1>5. ClaimsAreOffers' /\ LoadsFollowClaims'
  BY <1>1, <1>2 DEF IInv, ClaimsAreOffers, LoadsFollowClaims, Line, Trying
<1>6. TicketsHeld' /\ PayloadsWritten'
  BY <1>1, <1>2 DEF IInv, TicketsHeld, PayloadsWritten, Holds, Writing
<1>7. GapsAreOwned'
  <2>1. \A q \in Producers : ppc[q] \in Writing \cup {"dead"} =>
            ppc'[q] \in Writing \cup {"dead"}
    BY <1>1 DEF IInv, TypeOK
  <2> QED
    BY <1>1, <2>1 DEF IInv, GapsAreOwned, Owns, Published
<1> QED
  BY <1>3, <1>4, <1>5, <1>6, <1>7 DEF IInv

-------------------------------------------------------------------------------
(* The consumer's steps *)

\* The head's stamp is its ticket's or a lap older, so a frame is never found
\* overwritten.
LEMMA HeadStamp ==
    ASSUME IInv, cpc = "loadGen"
    PROVE  /\ SignedDiff(gen[Slot(D)], D) <= 0
           /\ SignedDiff(gen[Slot(D)], D) = 0 => Published(Len(got))
           /\ D = LaneOf(Len(got)) /\ D = dequeuePos
<1>1. D = LaneOf(Len(got)) /\ D = dequeuePos
  BY Counters DEF IInv, ConsumerFollowsHistory
<1>2. /\ Len(got) \in Tickets /\ Len(got) - Capacity \in Tickets
      /\ Len(got) \in Len(got) .. Len(got) + Capacity - 1
  BY Counters, Constants DEF Tickets
<1>3. CASE Published(Len(got))
  <2>1. gen[Slot(D)] = LaneOf(Len(got))
    BY <1>1, <1>3 DEF Published
  <2>2. Len(got) - Len(got) <= Bound + Capacity /\ Len(got) - Len(got) = 0
    BY <1>2, Constants DEF Tickets
  <2>3. SignedDiff(gen[Slot(D)], D) = 0
    BY <1>1, <1>2, <2>1, <2>2, LaneOfDiff
  <2> QED
    BY <1>1, <1>3, <2>3
<1>4. CASE ~Published(Len(got))
  <2>1. gen[Slot(D)] = LaneOf(Len(got) - Capacity)
    BY <1>1, <1>2, <1>4 DEF IInv, StampsFollowHistory
  <2>2. /\ (Len(got) - Capacity) - Len(got) <= Bound + Capacity
        /\ Len(got) - (Len(got) - Capacity) <= Bound + Capacity
        /\ (Len(got) - Capacity) - Len(got) = 0 - Capacity
    BY Counters, Constants
  <2>3. SignedDiff(gen[Slot(D)], D) = 0 - Capacity
    BY <1>1, <1>2, <2>1, <2>2, LaneOfDiff
  <2> QED
    BY <1>1, <2>3, Constants
<1> QED
  BY <1>3, <1>4

\* A pull up to the load of the head's stamp leaves the rings' state alone.
LEMMA PullKeeps ==
    ASSUME IInv, StartPull \/ LoadTicket \/ LoadGeneration
    PROVE  IInv'
<1>1. /\ UNCHANGED <<lanes, payload, counters, producerVars, outLo, outHi, claimed, got>>
      /\ D' = dequeuePos /\ W' \in Lane
      /\ cpc' \in {"loadTicket", "loadGen", "readLo", "idle"}
      /\ cpc' = "readLo" => Published(Len(got))
  <2>1. CASE StartPull
    BY <2>1 DEF StartPull, IInv, TypeOK
  <2>2. CASE LoadTicket
    <3>1. cpc = "loadTicket" /\ D = dequeuePos
      BY <2>2 DEF LoadTicket, IInv, ConsumerFollowsHistory
    <3>2. SignedDiff(enqueueTicket, D) <= Capacity /\ ~(SignedDiff(enqueueTicket, D) > Capacity)
      BY <3>1, Counters, Constants DEF InFlight
    <3> QED
      BY <2>2, <3>1, <3>2 DEF LoadTicket, IInv, TypeOK
  <2>3. CASE LoadGeneration
    <3>1. cpc = "loadGen" /\ SignedDiff(gen[Slot(D)], D) \in Int
      <4>1. gen[Slot(D)] \in Lane /\ D \in Lane
        <5>1. Slot(D) \in Slots
          BY SlotDivision, LaneConstants DEF IInv, TypeOK, Lane
        <5> QED
          BY <5>1 DEF IInv, TypeOK
      <4> QED
        BY <2>3, <4>1, LaneConstants DEF LoadGeneration, SignedDiff, AsInt32, Lane
    <3>2. ~(SignedDiff(gen[Slot(D)], D) > 0) /\ D = dequeuePos
          /\ (SignedDiff(gen[Slot(D)], D) = 0 => Published(Len(got)))
      BY <3>1, HeadStamp
    <3> QED
      BY <2>3, <3>2 DEF LoadGeneration, AfterGap, IInv, TypeOK
  <2> QED
    BY <2>1, <2>2, <2>3
<1>2. TypeOK'
  BY <1>1 DEF IInv, TypeOK
<1>3. LanesFollowHistory' /\ PastTheLineOnce' /\ ClaimsAreOffers' /\ LoadsFollowClaims'
  BY <1>1 DEF IInv, LanesFollowHistory, PastTheLineOnce, ClaimsAreOffers,
     LoadsFollowClaims, Line
<1>4. TicketsHeld' /\ PayloadsWritten' /\ StampsFollowHistory' /\ GapsAreOwned'
  BY <1>1 DEF IInv, TicketsHeld, Holds, PayloadsWritten, StampsFollowHistory, Published,
     GapsAreOwned, Owns
<1>5. ConsumerFollowsHistory'
  BY <1>1 DEF ConsumerFollowsHistory, Published
<1> QED
  BY <1>2, <1>3, <1>4, <1>5 DEF IInv

\* The halves are read from a published slot.
LEMMA ReadKeeps ==
    ASSUME IInv, ReadLo \/ ReadHi
    PROVE  IInv'
<1>1. /\ cpc \in {"readLo", "readHi"} /\ cpc' \in {"readHi", "advance"}
      /\ UNCHANGED <<lanes, payload, counters, producerVars, D, W, claimed, got>>
      /\ \/ cpc = "readLo" /\ cpc' = "readHi" /\ outLo' = lo[Slot(D)] /\ outHi' = outHi
         \/ cpc = "readHi" /\ cpc' = "advance" /\ outHi' = hi[Slot(D)] /\ outLo' = outLo
  BY DEF ReadLo, ReadHi
<1>2. Published(Len(got)) /\ D = LaneOf(Len(got)) /\ D = dequeuePos
  BY <1>1, Counters DEF IInv, ConsumerFollowsHistory
<1>3. lo[Slot(D)] = claimed[Len(got) + 1] /\ hi[Slot(D)] = claimed[Len(got) + 1]
  BY <1>2 DEF Published
<1>4. claimed[Len(got) + 1] \in FrameOrNothing
  <2>1. Len(got) + 1 \in 1 .. Len(claimed)
    BY <1>2, Counters DEF Published
  <2> QED
    BY <2>1 DEF IInv, TypeOK, FrameOrNothing
<1>5. TypeOK'
  BY <1>1, <1>3, <1>4 DEF IInv, TypeOK
<1>6. LanesFollowHistory' /\ PastTheLineOnce' /\ ClaimsAreOffers' /\ LoadsFollowClaims'
  BY <1>1 DEF IInv, LanesFollowHistory, PastTheLineOnce, ClaimsAreOffers,
     LoadsFollowClaims, Line
<1>7. TicketsHeld' /\ PayloadsWritten' /\ StampsFollowHistory' /\ GapsAreOwned'
  BY <1>1 DEF IInv, TicketsHeld, Holds, PayloadsWritten, StampsFollowHistory, Published,
     GapsAreOwned, Owns
<1>8. ConsumerFollowsHistory'
  <2>1. outLo' = claimed[Len(got) + 1] /\ (cpc' = "advance" => outHi' = claimed[Len(got) + 1])
    BY <1>1, <1>3 DEF IInv, ConsumerFollowsHistory
  <2> QED
    BY <1>1, <1>2, <2>1 DEF ConsumerFollowsHistory, Published
<1> QED
  BY <1>5, <1>6, <1>7, <1>8 DEF IInv

\* dequeuePos passes a published frame; its slot now waits for the ticket a lap on.
LEMMA AdvanceKeeps ==
    ASSUME IInv, Advance
    PROVE  IInv'
<1> DEFINE G == Len(got)
<1>1. /\ cpc = "advance" /\ cpc' = "idle" /\ dequeuePos' = Inc(D)
      /\ got' = Append(got, IF outLo = outHi THEN outLo ELSE Nothing)
      /\ UNCHANGED <<enqueueTicket, gen, payload, counters, producerVars, D, W,
                     outLo, outHi, claimed>>
  BY DEF Advance
<1>2. /\ Published(G) /\ D = LaneOf(G) /\ G \in 0 .. Len(claimed) - 1
      /\ Len(claimed) \in 0 .. Bound /\ Len(claimed) - G <= Capacity /\ G \in Tickets
      /\ G \in 0 .. Bound + Capacity
  BY <1>1, Counters, Constants DEF IInv, ConsumerFollowsHistory, Published, Tickets
<1>3. /\ got' \in Seq(FrameOrNothing) /\ Len(got') = G + 1
      /\ dequeuePos' = LaneOf(G + 1) /\ dequeuePos' \in Lane
  <2>1. dequeuePos' = LaneOf(G + 1) /\ G + 1 \in Tickets
    <3>1. G + 1 \in Tickets
      BY <1>2, Constants DEF Tickets
    <3> QED
      BY <1>1, <1>2, <3>1, LaneOfInc
  <2>2. dequeuePos' \in Lane
    BY <2>1, LaneOfType
  <2> QED
    BY <1>1, <2>1, <2>2 DEF IInv, TypeOK, FrameOrNothing, Nothing
<1> HIDE DEF G
<1>4. TypeOK'
  BY <1>1, <1>3 DEF IInv, TypeOK
<1>5. LanesFollowHistory'
  BY <1>1, <1>2, <1>3, Constants DEF IInv, LanesFollowHistory
<1>6. Line' = Line + 1 /\ Line \in Nat /\ Line = G + Capacity - Slack
  BY <1>2, <1>3, Constants DEF Line, G
<1>7. ClaimsAreOffers' /\ PayloadsWritten'
  BY <1>1 DEF IInv, ClaimsAreOffers, PayloadsWritten
<1>8. LoadsFollowClaims'
  <2>1. \A k \in 0 .. Len(claimed) : k < Line => k < Line'
    BY <1>2, <1>6
  <2> QED
    BY <1>1, <2>1 DEF IInv, LoadsFollowClaims
<1>9. PastTheLineOnce'
  <2>1. Line' .. Len(claimed) \subseteq Line .. Len(claimed)
    BY <1>2, <1>6
  <2> QED
    BY <1>1, <2>1 DEF IInv, PastTheLineOnce
<1>10. TicketsHeld'
  <2>1. ASSUME NEW p \in Producers, ppc[p] \in Writing
        PROVE  \E t \in G + 1 .. Len(claimed) - 1 : Holds(p, t)
    <3>1. PICK t \in G .. Len(claimed) - 1 : Holds(p, t) /\ ~Published(t)
      BY <2>1, HeldTicket DEF G
    <3>2. t # G
      BY <1>2, <3>1
    <3>3. t \in G + 1 .. Len(claimed) - 1
      BY <1>2, <3>1, <3>2
    <3> QED
      BY <3>1, <3>3
  <2> QED
    BY <1>1, <1>3, <2>1 DEF TicketsHeld, Holds
<1>11. StampsFollowHistory'
  <2>1. ASSUME NEW t \in G + 1 .. G + 1 + Capacity - 1
        PROVE  Published(t) \/ gen[Slot(LaneOf(t))] = LaneOf(t - Capacity)
    <3>1. CASE t = G + Capacity
      <4>1. t \in 0 .. Bound + Capacity /\ t - Capacity = G
        BY <1>2, <3>1, Constants
      <4>2. Slot(LaneOf(G)) = Slot(LaneOf(t))
        BY <4>1, LapBefore
      <4> QED
        BY <1>2, <4>1, <4>2 DEF Published
    <3>2. CASE t \in G .. G + Capacity - 1
      BY <3>2 DEF IInv, StampsFollowHistory, G
    <3> QED
      BY <1>2, <3>1, <3>2, Constants
  <2> QED
    BY <1>1, <1>3, <2>1 DEF StampsFollowHistory, Published
<1>12. ConsumerFollowsHistory'
  BY <1>1 DEF ConsumerFollowsHistory
<1>13. GapsAreOwned'
  <2>1. G + 1 .. Len(claimed) - 1 \subseteq Len(got) .. Len(claimed) - 1
    BY <1>2 DEF G
  <2> QED
    BY <1>1, <1>3, <2>1 DEF IInv, GapsAreOwned, Owns, Published
<1> QED
  BY <1>4, <1>5, <1>7, <1>8, <1>9, <1>10, <1>11, <1>12, <1>13 DEF IInv

-------------------------------------------------------------------------------
(* Every step preserves the invariant *)

LEMMA NextIInv ==
    ASSUME IInv, ProducersAreCounted, [Next]_vars
    PROVE  IInv'
<1>1. CASE \E p \in Producers : StartPush(p) \/ InPush(p) \/ Terminate(p)
  BY <1>1, StartPushKeeps, CheckEnvelopeKeeps, ClaimKeeps, WriteKeeps, PublishKeeps,
     TerminateKeeps DEF InPush
<1>2. CASE Pull
  BY <1>2, PullKeeps, ReadKeeps, AdvanceKeeps DEF Pull
<1>3. CASE UNCHANGED vars
  <2>1. TypeOK' /\ LanesFollowHistory' /\ ClaimsAreOffers' /\ LoadsFollowClaims'
        /\ PastTheLineOnce'
    BY <1>3 DEF vars, IInv, TypeOK, LanesFollowHistory, ClaimsAreOffers,
       LoadsFollowClaims, PastTheLineOnce, Line
  <2>2. TicketsHeld' /\ PayloadsWritten' /\ StampsFollowHistory' /\ GapsAreOwned'
        /\ ConsumerFollowsHistory'
    BY <1>3 DEF vars, IInv, TicketsHeld, Holds, PayloadsWritten, StampsFollowHistory,
       Published, GapsAreOwned, Owns, ConsumerFollowsHistory
  <2> QED
    BY <2>1, <2>2 DEF IInv
<1> QED
  BY <1>1, <1>2, <1>3 DEF Next

LEMMA Invariance ==
    ASSUME ProducersAreCounted
    PROVE  Spec => []IInv
<1>1. IInv /\ [Next]_vars => IInv'
  BY NextIInv
<1> QED
  BY <1>1, InitIInv, PTL DEF Spec

\* Every lane, local and history variable keeps its type.
THEOREM TypeCorrect ==
    ASSUME ProducersAreCounted
    PROVE  Spec => []TypeOK
<1>1. IInv => TypeOK
  BY DEF IInv
<1> QED
  BY <1>1, Invariance, PTL

\* SLACK makes up for check and fetch-add being two steps, for any number of
\* producers up to producerCount: no more than a ring is ever in flight, so the
\* overload net and the torn-frame skip never fire.
THEOREM SlackSuffices ==
    ASSUME ProducersAreCounted
    PROVE  Spec => []EnvelopeHolds
<1>1. IInv => EnvelopeHolds
  BY Counters DEF IInv, LanesFollowHistory, EnvelopeHolds
<1> QED
  BY <1>1, Invariance, PTL

\* A producer that holds a ticket is alone in its slot: its frame is in the window
\* the consumer has not passed, and no other producer holds a ticket of the slot.
THEOREM WritersAreAlone ==
    ASSUME ProducersAreCounted
    PROVE  Spec => []SlotIsMine
<1>1. ASSUME IInv PROVE SlotIsMine
  <2>1. ASSUME NEW p \in Producers, ppc[p] \in Writing
        PROVE  SignedDiff(ticket[p], dequeuePos) \in 0 .. Capacity - 1
    <3>1. PICK t \in Len(got) .. Len(claimed) - 1 : Holds(p, t)
      BY <1>1, <2>1 DEF IInv, TicketsHeld
    <3>2. /\ t \in Tickets /\ Len(got) \in Tickets /\ t - Len(got) \in 0 .. Capacity - 1
          /\ t - Len(got) <= Bound + Capacity /\ Len(got) - t <= Bound + Capacity
          /\ dequeuePos = LaneOf(Len(got))
      BY <1>1, <3>1, Counters, Constants DEF Tickets
    <3>3. SignedDiff(LaneOf(t), LaneOf(Len(got))) = t - Len(got)
      BY <3>2, LaneOfDiff
    <3> QED
      BY <3>1, <3>2, <3>3 DEF Holds
  <2> QED
    BY <1>1, <2>1, WritersApart DEF SlotIsMine, Writing
<1>2. IInv => SlotIsMine
  BY <1>1
<1> QED
  BY <1>2, Invariance, PTL

\* A pull hands out whole frames, in ticket order: no reader ever sees a slot whose
\* payload a producer is still writing.
THEOREM PullsAreWhole ==
    ASSUME ProducersAreCounted
    PROVE  Spec => []DeliversWholeFrame
<1>1. IInv => DeliversWholeFrame
  BY Counters DEF IInv, ConsumerFollowsHistory, DeliversWholeFrame, Published
<1> QED
  BY <1>1, Invariance, PTL

\* A full ring whose producers are all between pushes has its head committed: the
\* producers cannot all be refused while every pull rides a gap.
THEOREM RingNeverWedges ==
    ASSUME ProducersAreCounted
    PROVE  Spec => []NoWedge
<1>1. ASSUME IInv, \A p \in Producers : ppc[p] = "idle", InFlight = Capacity
      PROVE  SignedDiff(gen[Slot(dequeuePos)], dequeuePos) >= 0
  <2>1. Len(got) \in Len(got) .. Len(claimed) - 1 /\ dequeuePos = LaneOf(Len(got))
    BY <1>1, Counters, Constants
  <2>2. Published(Len(got))
    BY <1>1, <2>1 DEF IInv, GapsAreOwned, Owns, Writing
  <2>3. Len(got) \in Tickets /\ Len(got) - Len(got) <= Bound + Capacity
        /\ Len(got) - Len(got) = 0
    BY <1>1, Counters, Constants DEF Tickets
  <2>4. SignedDiff(LaneOf(Len(got)), LaneOf(Len(got))) = 0
    BY <2>3, LaneOfDiff
  <2> QED
    BY <2>1, <2>2, <2>4 DEF Published
<1>2. IInv => NoWedge
  BY <1>1 DEF NoWedge
<1> QED
  BY <1>2, Invariance, PTL

-------------------------------------------------------------------------------
(* The ring is one FIFO of all its producers *)

Queue == Suffix(claimed, Len(got))
NewestOf == [p \in Producers |-> NewestIn(claimed, p)]
HasNewest == NewestExists(claimed, Producers)

\* A claim's frame is its producer's newest.
LEMMA ClaimIsNewest ==
    ASSUME IInv, HasNewest, NEW p \in Producers, Claim(p)
    PROVE  /\ offered[p] \in 1 .. MaxFrames
           /\ offered[p] > NewestOf[p] /\ HasNewest'
           /\ NewestOf' = [NewestOf EXCEPT ![p] = offered[p]]
<1>1. offered[p] \in 1 .. MaxFrames
  <2>1. offered[p] \in 0 .. MaxFrames
    BY DEF IInv, TypeOK
  <2>2. offered[p] >= 1
    BY DEF IInv, ClaimsAreOffers, Trying, Claim
  <2> QED
    BY <2>1, <2>2, Constants
<1>2. claimed \in Seq(Producers \X Nat)
  <2>1. claimed \in Seq(Producers \X (1 .. MaxFrames))
    BY DEF IInv, TypeOK
  <2> QED
    BY <2>1
<1>3. \A i \in 1 .. Len(claimed) : claimed[i][1] = p => claimed[i][2] < offered[p]
  BY DEF IInv, ClaimsAreOffers, Trying, Claim
<1>4. offered[p] \in Nat /\ offered[p] >= 1
  BY <1>1, Constants
<1>5. /\ offered[p] > NewestIn(claimed, p)
      /\ NewestIn(Append(claimed, <<p, offered[p]>>), p) = offered[p]
      /\ \A q \in Producers \ {p} :
             NewestIn(Append(claimed, <<p, offered[p]>>), q) = NewestIn(claimed, q)
      /\ NewestExists(Append(claimed, <<p, offered[p]>>), Producers)
  BY <1>2, <1>3, <1>4, NewestAppend DEF HasNewest
<1>6. claimed' = Append(claimed, <<p, offered[p]>>)
  BY DEF Claim
<1>7. HasNewest'
  <2>1. NewestExists(claimed', Producers)
    BY <1>5, <1>6
  <2> QED
    BY <2>1 DEF HasNewest, NewestExists, NumbersIn
<1>8. NewestOf' = [q \in Producers |-> NewestIn(claimed', q)]
  BY DEF NewestOf, NewestIn, NumbersIn
<1>9. \A q \in Producers :
          NewestIn(claimed', q) = IF q = p THEN offered[p] ELSE NewestOf[q]
  BY <1>5, <1>6 DEF NewestOf
<1> QED
  BY <1>1, <1>5, <1>7, <1>8, <1>9 DEF NewestOf

\* The queue is as long as what is in flight.
LEMMA QueueLength ==
    ASSUME IInv
    PROVE  /\ claimed \in Seq(Producers \X (1 .. MaxFrames))
           /\ Len(got) \in 0 .. Len(claimed)
           /\ Len(Queue) = Len(claimed) - Len(got)
<1>1. claimed \in Seq(Producers \X (1 .. MaxFrames)) /\ Len(got) \in 0 .. Len(claimed)
  BY Counters DEF IInv, TypeOK
<1> QED
  BY <1>1, SuffixElements DEF Queue

\* The fetch-add accepts a frame,
LEMMA ClaimAccepts ==
    ASSUME IInv, HasNewest, ProducersAreCounted, NEW p \in Producers, Claim(p)
    PROVE  /\ offered[p] \in 1 .. MaxFrames
           /\ Len(Queue) < Capacity /\ offered[p] > NewestOf[p]
           /\ Queue' = Append(Queue, <<p, offered[p]>>)
           /\ NewestOf' = [NewestOf EXCEPT ![p] = offered[p]]
           /\ got' = got /\ dropped' = dropped
<1>1. offered[p] \in 1 .. MaxFrames
  BY ClaimIsNewest
<1>2. offered[p] > NewestOf[p] /\ NewestOf' = [NewestOf EXCEPT ![p] = offered[p]]
  BY ClaimIsNewest
<1>3. Len(Queue) < Capacity
  BY QueueLength, RoomToClaim DEF Claim
<1>4. <<p, offered[p]>> \in Producers \X (1 .. MaxFrames)
  BY <1>1
<1>5. claimed' = Append(claimed, <<p, offered[p]>>) /\ got' = got /\ dropped' = dropped
  BY DEF Claim
<1>6. Queue' = Append(Queue, <<p, offered[p]>>)
  <2>1. Suffix(Append(claimed, <<p, offered[p]>>), Len(got))
            = Append(Suffix(claimed, Len(got)), <<p, offered[p]>>)
    BY <1>4, QueueLength, SuffixAppend
  <2>2. Queue' = Suffix(claimed', Len(got'))
    BY DEF Queue, Suffix
  <2> QED
    BY <1>5, <2>1, <2>2 DEF Queue
<1> QED
  BY <1>1, <1>2, <1>3, <1>5, <1>6

\* the load of dequeuePos that finds the envelope reached refuses one,
LEMMA RefusalIsJustified ==
    ASSUME IInv, NEW p \in Producers, CheckEnvelope(p), AtLimit(pW[p])
    PROVE  Len(Queue) >= Capacity - Slack
<1>1. PICK k \in 0 .. Len(claimed) : pW[p] = LaneOf(k)
  BY DEF IInv, LoadsFollowClaims, CheckEnvelope, Trying
<1>2. /\ k \in Tickets /\ Len(got) \in Tickets /\ k - Len(got) <= Bound + Capacity
      /\ Len(got) - k <= Bound + Capacity /\ dequeuePos = LaneOf(Len(got))
      /\ k - Len(got) <= Len(claimed) - Len(got) /\ k - Len(got) \in Int
      /\ Len(claimed) - Len(got) \in Int
  BY <1>1, Counters, Constants DEF Tickets
<1>3. SignedDiff(pW[p], dequeuePos) = k - Len(got)
  BY <1>1, <1>2, LaneOfDiff
<1> QED
  BY <1>2, <1>3, QueueLength, Constants DEF AtLimit

\* and the store of dequeuePos delivers the oldest.
LEMMA AdvanceDelivers ==
    ASSUME IInv, Advance
    PROVE  /\ Queue # <<>> /\ got' = Append(got, Head(Queue)) /\ Queue' = Tail(Queue)
           /\ claimed' = claimed /\ dropped' = dropped
<1>1. /\ Len(got) < Len(claimed)
      /\ outLo = claimed[Len(got) + 1] /\ outHi = claimed[Len(got) + 1]
  BY DEF Advance, IInv, ConsumerFollowsHistory, Published
<1>2. /\ Suffix(claimed, Len(got)) # <<>>
      /\ Head(Suffix(claimed, Len(got))) = claimed[Len(got) + 1]
      /\ Tail(Suffix(claimed, Len(got))) = Suffix(claimed, Len(got) + 1)
  BY <1>1, QueueLength, SuffixHead
<1>3. /\ got' = Append(got, claimed[Len(got) + 1]) /\ claimed' = claimed
      /\ dropped' = dropped
  BY <1>1 DEF Advance
<1>4. Len(got') = Len(got) + 1
  BY <1>3 DEF IInv, TypeOK
<1>5. Queue' = Suffix(claimed', Len(got'))
  BY DEF Queue, Suffix
<1> QED
  BY <1>2, <1>3, <1>4, <1>5 DEF Queue

\* Every other step leaves the FIFO as it is.
LEMMA QueueStays ==
    ASSUME UNCHANGED <<claimed, got>>
    PROVE  Queue' = Queue /\ NewestOf' = NewestOf /\ (HasNewest => HasNewest')
<1>1. HasNewest => HasNewest'
  BY SMTT(30) DEF HasNewest, NewestExists, NumbersIn
<1>2. Queue' = Queue
  BY DEF Queue, Suffix
<1>3. NewestOf' = NewestOf
  BY DEF NewestOf, NewestIn, NumbersIn
<1> QED
  BY <1>1, <1>2, <1>3

LEMMA StepSimulates ==
    ASSUME IInv, HasNewest, ProducersAreCounted, [Next]_vars
    PROVE  HasNewest' /\ [Fifo!Next]_<<Queue, got, NewestOf, dropped>>
<1>1. CASE \E p \in Producers : Claim(p)
  <2>1. PICK p \in Producers : Claim(p)
    BY <1>1
  <2>2. Fifo!Accept(p, offered[p]) /\ offered[p] \in 1 .. MaxFrames
    BY <2>1, ClaimAccepts DEF Fifo!Accept, Queue, Suffix, NewestOf,
        NewestIn, NumbersIn, NumbersOf
  <2> QED
    BY <2>1, <2>2, ClaimIsNewest DEF Fifo!Next
<1>2. CASE \E p \in Producers : CheckEnvelope(p)
  <2>1. PICK p \in Producers : CheckEnvelope(p)
    BY <1>2
  <2>2. claimed' = claimed /\ got' = got
    BY <2>1 DEF CheckEnvelope
  <2>3. Queue' = Queue /\ NewestOf' = NewestOf /\ HasNewest'
    BY <2>2, QueueStays
  <2>4. CASE AtLimit(pW[p])
    <3>1. dropped' = dropped + 1
      BY <2>1, <2>4 DEF CheckEnvelope
    <3>2. Fifo!Refuse
      BY <2>1, <2>2, <2>3, <2>4, <3>1, RefusalIsJustified
         DEF Fifo!Refuse, Queue, Suffix, NewestOf,
        NewestIn, NumbersIn, NumbersOf
    <3> QED
      BY <2>3, <3>2 DEF Fifo!Next
  <2>5. CASE ~AtLimit(pW[p])
    BY <2>1, <2>2, <2>3, <2>5 DEF CheckEnvelope
  <2> QED
    BY <2>4, <2>5
<1>3. CASE Advance
  <2>1. Fifo!Deliver /\ HasNewest'
    <3>1. HasNewest' /\ NewestOf' = NewestOf
      <4>1. claimed' = claimed
        BY <1>3, AdvanceDelivers
      <4> QED
        BY <4>1 DEF NewestOf, HasNewest, NewestExists, NewestIn, NumbersIn
    <3> QED
      BY <1>3, <3>1, AdvanceDelivers DEF Fifo!Deliver, Queue, Suffix, NewestOf,
        NewestIn, NumbersIn, NumbersOf
  <2> QED
    BY <2>1 DEF Fifo!Next
<1>4. CASE UNCHANGED <<claimed, got, dropped>>
  BY <1>4, QueueStays
<1>5. \/ \E p \in Producers : Claim(p) \/ CheckEnvelope(p)
      \/ Advance
      \/ UNCHANGED <<claimed, got, dropped>>
  <2>1. CASE \E p \in Producers : StartPush(p) \/ InPush(p) \/ Terminate(p)
    BY <2>1 DEF InPush, StartPush, WriteLo, WriteHi, Publish, Terminate
  <2>2. CASE Pull
    BY <2>2 DEF Pull, StartPull, LoadTicket, LoadGeneration, ReadLo, ReadHi
  <2>3. CASE UNCHANGED vars
    BY <2>3 DEF vars
  <2> QED
    BY <2>1, <2>2, <2>3 DEF Next
<1> QED
  BY <1>1, <1>2, <1>3, <1>4, <1>5

LEMMA InitSimulates == Init => HasNewest /\ Fifo!Init
<1> SUFFICES ASSUME Init PROVE HasNewest /\ Fifo!Init
  OBVIOUS
<1>1. claimed = <<>> /\ got = <<>> /\ dropped = 0 /\ Len(claimed) = 0 /\ Len(got) = 0
  BY DEF Init
<1>2. SubSeq(claimed, Len(got) + 1, Len(claimed)) = <<>>
  BY <1>1, SubSeqEmpty
<1>3. HasNewest
  BY <1>1, NewestOfNone DEF HasNewest
<1>4. \A p \in Producers : Max({0} \cup NumbersOf(p)) = 0
  BY <1>1, NewestOfNone DEF NewestIn, NumbersIn, NumbersOf
<1>5. [p \in Producers |-> Max({0} \cup NumbersOf(p))] = [p \in Producers |-> 0]
  BY <1>4
<1> QED
  BY <1>1, <1>2, <1>3, <1>5 DEF Fifo!Init

\* Every behaviour of the ring is one of the fan-in FIFO: however the producers'
\* checks, fetch-adds, writes and stamps interleave with the pulls, and whichever
\* producers die, no frame accepted is lost, repeated, torn or reordered.
THEOREM RefinesFanInFifo ==
    ASSUME ProducersAreCounted
    PROVE  Spec => ImplementsFanInFifo
<1>1. Init => IInv /\ HasNewest
  BY InitIInv, InitSimulates
<1>2. IInv /\ HasNewest /\ [Next]_vars
          => IInv' /\ HasNewest' /\ [Fifo!Next]_<<Queue, got, NewestOf, dropped>>
  BY NextIInv, StepSimulates
<1>3. Init => Fifo!Init
  BY InitSimulates
<1> QED
  BY <1>1, <1>2, <1>3, PTL
     DEF Spec, ImplementsFanInFifo, Fifo!Spec, Queue, Suffix, NewestOf,
        NewestIn, NumbersIn, NumbersOf
-------------------------------------------------------------------------------
(***************************************************************************)
(* The overload net, with no assumption on the number of producers: what   *)
(* the consumer does not get it counts.                                    *)
(***************************************************************************)

\* What the consumer has passed, delivered or counted as lost.
Passed == Len(got) + overrunLost

\* Who writes holds a ticket of the history.
ClaimsCarryTickets ==
    /\ enqueueTicket = LaneOf(Len(claimed))
    /\ \A p \in Producers : ppc[p] \in Writing =>
           /\ offered[p] >= 1
           /\ \E t \in 0 .. Len(claimed) - 1 : ticket[p] = LaneOf(t)

\* Every stamp is a ticket claimed, or one of the lap before the first.
StampsAreTickets ==
    \A s \in Slots : \E t \in 0 - Capacity .. Len(claimed) - 1 : gen[s] = LaneOf(t)

\* The lane between pulls, and the local copy in one, stand at what is passed.
PassedIsCounted ==
    /\ Passed <= Len(claimed)
    /\ cpc = "idle" => dequeuePos = LaneOf(Passed)
    /\ cpc # "idle" => D = LaneOf(Passed)
    /\ cpc \in {"readLo", "readHi", "advance"} => Passed < Len(claimed)

\* The inductive invariant of an overloaded ring.
LossInv ==
    /\ TypeOK
    /\ ClaimsAreOffers
    /\ ClaimsCarryTickets
    /\ StampsAreTickets
    /\ PassedIsCounted

\* Capacity tickets in a row meet every slot.
LEMMA EverySlot == \A s \in Slots : \E i \in Slots : s = Slot(Seed + i)
<1> SUFFICES ASSUME NEW s \in Slots PROVE \E i \in Slots : s = Slot(Seed + i)
  OBVIOUS
<1>1. /\ Seed \in Nat /\ s \in Nat /\ s < Capacity /\ Capacity \in Nat
      /\ Slot(Seed) \in Nat /\ Slot(Seed) < Capacity
      /\ Seed \div Capacity \in Nat /\ Seed = Capacity * (Seed \div Capacity) + Slot(Seed)
  <2>1. Seed \in Nat /\ s \in Nat /\ s < Capacity /\ Capacity \in Nat
    BY Constants DEF Lane, Slots
  <2>2. /\ Slot(Seed) \in Slots /\ Seed \div Capacity \in Nat
        /\ Seed = Capacity * (Seed \div Capacity) + Slot(Seed)
    BY <2>1, SlotDivision
  <2> QED
    BY <2>1, <2>2 DEF Slots
<1>2. PICK r \in Nat, k \in Nat : r = Slot(Seed) /\ k = Seed \div Capacity /\ r < Capacity
  BY <1>1
<1>3. Seed = Capacity * k + r
  BY <1>1, <1>2
<1>4. Slot(s) = s
  BY <1>1 DEF Slot
<1>5. CASE s >= r
  <2>1. s - r \in Slots /\ Seed + (s - r) = s + Capacity * k
    <3>1. Capacity * k \in Int
      BY <1>1
    <3> QED
      BY <1>1, <1>2, <1>3, <1>5, <3>1 DEF Slots
  <2> QED
    <3>1. Slot(s + Capacity * k) = Slot(s)
      BY <1>1, <1>2, RingsKeepSlot
    <3> QED
      BY <1>4, <2>1, <3>1
<1>6. CASE s < r
  <2>1. Capacity * (k + 1) = Capacity * k + Capacity /\ Capacity * k \in Int
    BY <1>1
  <2>2. s - r + Capacity \in Slots /\ Seed + (s - r + Capacity) = s + Capacity * (k + 1)
    BY <1>1, <1>2, <1>3, <1>6, <2>1 DEF Slots
  <2> QED
    <3>1. k + 1 \in Nat
      BY <1>2
    <3>2. Slot(s + Capacity * (k + 1)) = Slot(s)
      BY <1>1, <3>1, RingsKeepSlot
    <3> QED
      BY <1>4, <2>2, <3>2
<1> QED
  BY <1>1, <1>2, <1>5, <1>6

\* Nothing is lost at first.
LEMMA LossInit == Init => LossInv
<1> SUFFICES ASSUME Init PROVE LossInv
  OBVIOUS
<1>1. IInv /\ Len(got) = 0 /\ Len(claimed) = 0 /\ overrunLost = 0
  BY InitIInv DEF Init
<1>2. TypeOK /\ ClaimsAreOffers
  BY <1>1 DEF IInv
<1>3. ClaimsCarryTickets
  BY <1>1 DEF Init, IInv, LanesFollowHistory, ClaimsCarryTickets, Writing
<1>4. PassedIsCounted
  BY <1>1 DEF Init, IInv, LanesFollowHistory, PassedIsCounted, Passed
<1>5. StampsAreTickets
  <2>1. ASSUME NEW s \in Slots
        PROVE  \E t \in 0 - Capacity .. 0 - 1 : gen[s] = LaneOf(t)
    <3>1. PICK i \in Slots : s = Slot(Seed + i)
      BY EverySlot
    <3>2. i \in 0 .. Capacity - 1 /\ gen[s] = (Seed + i - Capacity) % Modulus
      BY <3>1 DEF Init, Slots
    <3>3. i - Capacity \in 0 - Capacity .. 0 - 1 /\ Seed + i - Capacity = Seed + (i - Capacity)
      BY <3>2, Constants DEF Lane
    <3>4. (Seed + (i - Capacity)) % Modulus = LaneOf(i - Capacity)
      BY <3>3, Constants, StampBefore
    <3> QED
      BY <3>2, <3>3, <3>4
  <2> QED
    BY <1>1, <2>1, Constants DEF StampsAreTickets
<1> QED
  BY <1>2, <1>3, <1>4, <1>5 DEF LossInv

\* The counters this invariant speaks of are those of tickets.
LEMMA LossCounters ==
    ASSUME LossInv
    PROVE  /\ Len(claimed) \in 0 .. Bound /\ Len(got) \in Nat /\ overrunLost \in Nat
           /\ Passed \in 0 .. Len(claimed)
           /\ Len(claimed) \in Tickets /\ Passed \in Tickets
<1>1. Len(claimed) \in 0 .. Bound
  BY ClaimsBounded DEF LossInv
<1>2. Len(got) \in Nat /\ overrunLost \in Nat /\ Passed <= Len(claimed)
  BY DEF LossInv, TypeOK, PassedIsCounted
<1>3. Passed \in 0 .. Len(claimed)
  BY <1>1, <1>2 DEF Passed
<1> QED
  BY <1>1, <1>2, <1>3, Constants DEF Tickets

\* Before its ticket a producer touches nothing of this.
LEMMA LossPush ==
    ASSUME LossInv, NEW p \in Producers, StartPush(p) \/ CheckEnvelope(p)
    PROVE  LossInv'
<1>1. /\ UNCHANGED <<lanes, payload, overrunLost, torn, ticket, consumerVars, claimed, got>>
      /\ dropped' \in {dropped, dropped + 1}
      /\ pW' \in {pW, [pW EXCEPT ![p] = enqueueTicket]}
  BY DEF StartPush, CheckEnvelope
<1>2. \/ /\ offered[p] < MaxFrames /\ offered' = [offered EXCEPT ![p] = @ + 1]
         /\ ppc' = [ppc EXCEPT ![p] = "check"]
      \/ /\ ppc[p] = "check" /\ offered' = offered
         /\ ppc' \in {[ppc EXCEPT ![p] = "idle"], [ppc EXCEPT ![p] = "claim"]}
  BY DEF StartPush, CheckEnvelope
<1>3. TypeOK'
  <2>1. offered' \in [Producers -> 0 .. MaxFrames]
    <3>1. offered \in [Producers -> 0 .. MaxFrames] /\ MaxFrames \in Nat
      BY Constants DEF LossInv, TypeOK
    <3> QED
      BY <1>2, <3>1
  <2>2. /\ ppc' \in [Producers -> {"idle", "check", "claim", "writeLo", "writeHi",
                                   "publish", "dead"}]
        /\ pW' \in [Producers -> Lane] /\ dropped' \in Nat
    <3>1. ppc' \in [Producers -> {"idle", "check", "claim", "writeLo", "writeHi",
                                  "publish", "dead"}]
      BY <1>2 DEF LossInv, TypeOK
    <3>2. pW' \in [Producers -> Lane]
      BY <1>1 DEF LossInv, TypeOK
    <3>3. dropped' \in Nat
      BY <1>1 DEF LossInv, TypeOK
    <3> QED
      BY <3>1, <3>2, <3>3
  <2> QED
    BY <1>1, <2>1, <2>2 DEF LossInv, TypeOK
<1>4. ClaimsAreOffers'
  <2>1. /\ claimed \in Seq(Producers \X (1 .. MaxFrames)) /\ Len(claimed) \in Nat
        /\ offered \in [Producers -> 0 .. MaxFrames] /\ MaxFrames \in Nat
        /\ ppc \in [Producers -> {"idle", "check", "claim", "writeLo", "writeHi",
                                  "publish", "dead"}]
    BY Constants DEF LossInv, TypeOK
  <2>2. \A i \in 1 .. Len(claimed) : claimed[i][1] \in Producers /\ claimed[i][2] \in 1 .. MaxFrames
    BY <2>1
  <2>3. ClaimsAreOffers
    BY DEF LossInv
  <2>4. \A i \in 1 .. Len(claimed) : claimed[i][2] <= offered'[claimed[i][1]]
    <3>1. \A q \in Producers : offered'[q] \in Nat /\ offered[q] <= offered'[q]
      <4>1. \A q \in Producers : offered[q] \in Nat /\ offered'[q] \in {offered[q], offered[q] + 1}
        BY <1>2, <2>1
      <4> QED
        BY <4>1
    <3>2. \A i \in 1 .. Len(claimed) : claimed[i][2] <= offered[claimed[i][1]]
      BY <2>3 DEF ClaimsAreOffers
    <3> QED
      BY <2>1, <2>2, <3>1, <3>2
  <2>5. ASSUME NEW q \in Producers, ppc'[q] \in Trying
        PROVE  /\ offered'[q] >= 1
               /\ \A i \in 1 .. Len(claimed) : claimed[i][1] = q => claimed[i][2] < offered'[q]
    <3>1. CASE ppc[q] \in Trying /\ offered'[q] = offered[q]
      BY <2>3, <3>1 DEF ClaimsAreOffers
    <3>2. CASE q = p /\ offered'[q] = offered[q] + 1
      BY <2>1, <2>2, <2>3, <3>2 DEF ClaimsAreOffers
    <3> QED
      BY <1>2, <2>1, <2>5, <3>1, <3>2 DEF Trying
  <2> QED
    BY <1>1, <2>3, <2>4, <2>5 DEF ClaimsAreOffers
<1>5. ClaimsCarryTickets'
  <2>1. \A q \in Producers : ppc'[q] \in Writing =>
            ppc[q] \in Writing /\ offered'[q] = offered[q]
    BY <1>2 DEF LossInv, TypeOK, Writing
  <2> QED
    BY <1>1, <2>1 DEF LossInv, ClaimsCarryTickets
<1>6. StampsAreTickets' /\ PassedIsCounted'
  BY <1>1 DEF LossInv, StampsAreTickets, PassedIsCounted, Passed
<1> QED
  BY <1>3, <1>4, <1>5, <1>6 DEF LossInv

\* A claim is the next ticket, and the newest offer of its producer.
LEMMA LossClaim ==
    ASSUME LossInv, NEW p \in Producers, Claim(p)
    PROVE  LossInv'
<1> DEFINE e == <<p, offered[p]>>
           N == Len(claimed)
<1>1. /\ ppc[p] = "claim" /\ ppc' = [ppc EXCEPT ![p] = "writeLo"]
      /\ ticket' = [ticket EXCEPT ![p] = enqueueTicket]
      /\ enqueueTicket' = Inc(enqueueTicket) /\ claimed' = Append(claimed, e)
      /\ UNCHANGED <<dequeuePos, gen, payload, counters, pW, offered, consumerVars, got>>
  BY DEF Claim
<1>2. /\ N \in 0 .. Bound /\ N \in Tickets /\ enqueueTicket = LaneOf(N)
      /\ Passed \in 0 .. N
  BY LossCounters DEF LossInv, ClaimsCarryTickets
<1>3. offered[p] \in 1 .. MaxFrames
  <2>1. offered[p] \in 0 .. MaxFrames
    BY DEF LossInv, TypeOK
  <2>2. offered[p] >= 1
    BY <1>1 DEF LossInv, ClaimsAreOffers, Trying
  <2> QED
    BY <2>1, <2>2, Constants
<1>4. /\ Len(claimed') = N + 1 /\ claimed'[N + 1] = e
      /\ \A i \in 1 .. N : claimed'[i] = claimed[i]
      /\ claimed' \in Seq(Producers \X (1 .. MaxFrames))
  BY <1>1, <1>3 DEF LossInv, TypeOK
<1>5. enqueueTicket' = LaneOf(N + 1) /\ enqueueTicket' \in Lane
  <2>1. N + 1 \in Tickets
    BY <1>2, Constants DEF Tickets
  <2> QED
    BY <1>1, <1>2, <2>1, LaneOfInc, LaneOfType
<1>6. /\ ppc'[p] = "writeLo" /\ ticket'[p] = LaneOf(N)
      /\ \A q \in Producers \ {p} : ppc'[q] = ppc[q] /\ ticket'[q] = ticket[q]
  BY <1>1, <1>2 DEF LossInv, TypeOK
<1>7. \A i \in 1 .. N : claimed[i] \in Producers \X (1 .. MaxFrames)
  BY DEF LossInv, TypeOK
<1>8. e[1] = p /\ e[2] = offered[p]
  OBVIOUS
<1> HIDE DEF e, N
<1>9. TypeOK'
  <2>1. enqueueTicket \in Lane
    BY DEF LossInv, TypeOK
  <2> QED
    BY <1>1, <1>4, <1>5, <2>1 DEF LossInv, TypeOK
<1>10. ClaimsAreOffers'
  <2>1. ClaimsAreOffers /\ N \in Nat /\ N = Len(claimed)
    BY <1>2 DEF LossInv, N
  <2>2. offered' = offered /\ \A i \in 1 .. N + 1 : i \in 1 .. N \/ i = N + 1
    BY <1>1, <2>1
  <2>3. \A i \in 1 .. N : claimed[i][1] = p => claimed[i][2] < offered[p]
    BY <1>1, <2>1 DEF ClaimsAreOffers, Trying
  <2>4. \A i \in 1 .. N + 1 : claimed'[i][2] <= offered[claimed'[i][1]]
    BY <1>3, <1>4, <1>8, <2>1, <2>2 DEF ClaimsAreOffers
  <2>5. ASSUME NEW i \in 1 .. N + 1, NEW j \in 1 .. N + 1, i < j,
               claimed'[i][1] = claimed'[j][1]
        PROVE  claimed'[i][2] < claimed'[j][2]
    <3>1. i \in 1 .. N
      BY <2>1, <2>5
    <3>2. CASE j \in 1 .. N
      BY <1>4, <2>1, <2>5, <3>1, <3>2 DEF ClaimsAreOffers
    <3>3. CASE j = N + 1
      BY <1>4, <1>8, <2>3, <2>5, <3>1, <3>3
    <3> QED
      BY <2>2, <3>2, <3>3
  <2>6. ASSUME NEW q \in Producers, ppc'[q] \in Trying
        PROVE  /\ offered[q] >= 1
               /\ \A i \in 1 .. N + 1 : claimed'[i][1] = q => claimed'[i][2] < offered[q]
    <3>1. q # p /\ ppc[q] \in Trying
      BY <1>6, <2>6 DEF Trying
    <3> QED
      BY <1>4, <1>8, <2>1, <2>2, <3>1 DEF ClaimsAreOffers
  <2> QED
    BY <1>4, <2>2, <2>4, <2>5, <2>6 DEF ClaimsAreOffers
<1>11. ClaimsCarryTickets'
  <2>1. N \in 0 .. (N + 1) - 1 /\ \A t \in 0 .. N - 1 : t \in 0 .. (N + 1) - 1
    BY <1>2
  <2>2. \A q \in Producers \ {p} : ppc[q] \in Writing =>
            offered[q] >= 1 /\ \E t \in 0 .. N - 1 : ticket[q] = LaneOf(t)
    BY DEF LossInv, ClaimsCarryTickets, N
  <2>3. offered' = offered /\ offered[p] >= 1
    BY <1>1, <1>3, Constants
  <2> QED
    BY <1>4, <1>5, <1>6, <2>1, <2>2, <2>3 DEF ClaimsCarryTickets
<1>12. StampsAreTickets'
  <2>1. \A t \in 0 - Capacity .. N - 1 : t \in 0 - Capacity .. (N + 1) - 1
    BY <1>2, Constants
  <2> QED
    BY <1>1, <1>4, <2>1 DEF LossInv, StampsAreTickets, N
<1>13. PassedIsCounted'
  <2>1. Passed' = Passed
    BY <1>1 DEF Passed
  <2>2. Passed <= N + 1 /\ (Passed < N => Passed < N + 1)
    BY <1>2
  <2>3. PassedIsCounted
    BY DEF LossInv
  <2> QED
    BY <1>1, <1>4, <2>1, <2>2, <2>3 DEF PassedIsCounted, N
<1> QED
  BY <1>9, <1>10, <1>11, <1>12, <1>13 DEF LossInv

\* A slot is written under a ticket that is held.
LEMMA LossWrite ==
    ASSUME LossInv, NEW p \in Producers, WriteLo(p) \/ WriteHi(p) \/ Terminate(p)
    PROVE  LossInv'
<1>1. /\ UNCHANGED <<lanes, counters, pW, ticket, offered, consumerVars, claimed, got>>
      /\ \/ ppc[p] \in Writing /\ ppc' = [ppc EXCEPT ![p] = "writeHi"]
         \/ ppc[p] \in Writing /\ ppc' = [ppc EXCEPT ![p] = "publish"]
         \/ ppc' = [ppc EXCEPT ![p] = "dead"]
  BY DEF WriteLo, WriteHi, Terminate, Writing
<1>2. TypeOK'
  <2>1. lo' \in [Slots -> FrameOrNothing] /\ hi' \in [Slots -> FrameOrNothing]
    <3>1. CASE Terminate(p)
      BY <3>1 DEF Terminate, LossInv, TypeOK
    <3>2. CASE WriteLo(p) \/ WriteHi(p)
      <4>1. offered[p] \in 1 .. MaxFrames
        <5>1. ppc[p] \in Writing
          BY <3>2 DEF WriteLo, WriteHi, Writing
        <5>2. offered[p] \in 0 .. MaxFrames /\ offered[p] >= 1
          BY <5>1 DEF LossInv, TypeOK, ClaimsCarryTickets
        <5> QED
          BY <5>2, Constants
      <4>2. <<p, offered[p]>> \in FrameOrNothing
        BY <4>1 DEF FrameOrNothing
      <4>3. lo' = lo \/ lo' = [lo EXCEPT ![Slot(ticket[p])] = <<p, offered[p]>>]
        BY <3>2 DEF WriteLo, WriteHi
      <4>4. hi' = hi \/ hi' = [hi EXCEPT ![Slot(ticket[p])] = <<p, offered[p]>>]
        BY <3>2 DEF WriteLo, WriteHi
      <4> QED
        BY <4>2, <4>3, <4>4 DEF LossInv, TypeOK
    <3> QED
      BY <3>1, <3>2
  <2> QED
    BY <1>1, <2>1 DEF LossInv, TypeOK
<1>3. ClaimsAreOffers'
  BY <1>1 DEF LossInv, TypeOK, ClaimsAreOffers, Trying
<1>4. ClaimsCarryTickets'
  BY <1>1 DEF LossInv, TypeOK, ClaimsCarryTickets, Writing
<1>5. StampsAreTickets' /\ PassedIsCounted'
  BY <1>1 DEF LossInv, StampsAreTickets, PassedIsCounted, Passed
<1> QED
  BY <1>2, <1>3, <1>4, <1>5 DEF LossInv
\* The stamp published is the ticket held, wherever it lands.
LEMMA LossPublish ==
    ASSUME LossInv, NEW p \in Producers, Publish(p)
    PROVE  LossInv'
<1>1. /\ ppc[p] = "publish" /\ ppc' = [ppc EXCEPT ![p] = "idle"]
      /\ gen' = [gen EXCEPT ![Slot(ticket[p])] = ticket[p]]
      /\ UNCHANGED <<enqueueTicket, dequeuePos, payload, counters, pW, ticket,
                     offered, consumerVars, claimed, got>>
  BY DEF Publish
<1>2. TypeOK'
  <2>1. ticket[p] \in Lane
    BY DEF LossInv, TypeOK
  <2> QED
    BY <1>1, <2>1 DEF LossInv, TypeOK
<1>3. ClaimsAreOffers'
  BY <1>1 DEF LossInv, TypeOK, ClaimsAreOffers, Trying
<1>4. ClaimsCarryTickets'
  BY <1>1 DEF LossInv, TypeOK, ClaimsCarryTickets, Writing
<1>5. StampsAreTickets'
  <2>1. PICK t \in 0 .. Len(claimed) - 1 : ticket[p] = LaneOf(t)
    BY <1>1 DEF LossInv, ClaimsCarryTickets, Writing
  <2>2. t \in 0 - Capacity .. Len(claimed) - 1
    BY <2>1, Constants, LossCounters
  <2>3. \A s \in Slots : gen'[s] \in {gen[s], ticket[p]}
    BY <1>1 DEF LossInv, TypeOK
  <2> QED
    BY <1>1, <2>1, <2>2, <2>3 DEF LossInv, StampsAreTickets
<1>6. PassedIsCounted'
  BY <1>1 DEF LossInv, PassedIsCounted, Passed
<1> QED
  BY <1>2, <1>3, <1>4, <1>5, <1>6 DEF LossInv

\* The consumer's steps leave the claims alone.
LEMMA LossConsumer ==
    ASSUME LossInv, TypeOK', PassedIsCounted',
           UNCHANGED <<enqueueTicket, gen, producerVars, claimed>>
    PROVE  LossInv'
<1>1. ClaimsAreOffers' /\ ClaimsCarryTickets' /\ StampsAreTickets'
  BY DEF LossInv, ClaimsAreOffers, ClaimsCarryTickets, StampsAreTickets
<1> QED
  BY <1>1 DEF LossInv

\* What LoadTicket writes with %, a lap before the ticket it has seen.
LEMMA LiveWindow ==
    ASSUME NEW n \in Capacity .. Bound
    PROVE  (LaneOf(n) - Capacity) % Modulus = LaneOf(n - Capacity)
<1>1. /\ Modulus \in Nat /\ Capacity \in Nat /\ Capacity < Modulus
      /\ Seed \in 0 .. Modulus - 1 /\ n < Modulus /\ n \in Nat /\ n - Capacity \in 0 .. n
  BY Constants DEF Lane
<1>2. LaneOf(n) = IF Seed + n < Modulus THEN Seed + n ELSE Seed + n - Modulus
  BY <1>1 DEF LaneOf, LaneAt
<1>3. LaneOf(n - Capacity) = IF Seed + (n - Capacity) < Modulus THEN Seed + (n - Capacity)
                             ELSE Seed + (n - Capacity) - Modulus
  BY <1>1 DEF LaneOf, LaneAt
<1>4. CASE LaneOf(n) - Capacity < 0
  <2>1. LaneOf(n) - Capacity \in Int /\ 0 - Modulus < LaneOf(n) - Capacity
    BY <1>1, <1>2
  <2>2. (LaneOf(n) - Capacity) % Modulus = LaneOf(n) - Capacity + Modulus
    BY <1>1, <1>4, <2>1
  <2> QED
    BY <1>1, <1>2, <1>3, <1>4, <2>2
<1>5. CASE LaneOf(n) - Capacity >= 0
  <2>1. LaneOf(n) - Capacity \in 0 .. Modulus - 1
    BY <1>1, <1>2, <1>5
  <2>2. (LaneOf(n) - Capacity) % Modulus = LaneOf(n) - Capacity
    BY <1>1, <2>1
  <2> QED
    BY <1>1, <1>2, <1>3, <1>5, <2>2
<1> QED
  BY <1>1, <1>2, <1>4, <1>5

\* The overload net passes over just what is not live any more.
LEMMA LossLoad ==
    ASSUME LossInv, LoadTicket
    PROVE  LossInv'
<1>1. /\ cpc = "loadTicket" /\ cpc' = "loadGen" /\ W' = enqueueTicket
      /\ UNCHANGED <<lanes, payload, dropped, torn, producerVars, outLo, outHi, claimed, got>>
  BY DEF LoadTicket
<1>2. /\ D = LaneOf(Passed) /\ enqueueTicket = LaneOf(Len(claimed))
  BY <1>1 DEF LossInv, PassedIsCounted, ClaimsCarryTickets
<1>3. PICK c \in 0 .. Bound, m \in 0 .. Bound :
          /\ c = Len(claimed) /\ m = Passed /\ m <= c /\ c \in Tickets /\ m \in Tickets
  BY LossCounters, Constants
<1>4. c - m <= Bound + Capacity /\ m - c <= Bound + Capacity
  BY <1>3, Constants
<1>5. SignedDiff(enqueueTicket, D) = c - m
  BY <1>2, <1>3, <1>4, LaneOfDiff
<1>6. CASE SignedDiff(enqueueTicket, D) > Capacity
  <2>1. /\ D' = (enqueueTicket - Capacity) % Modulus
        /\ overrunLost' = overrunLost + (c - m - Capacity)
    BY <1>5, <1>6, Constants DEF LoadTicket, Missed
  <2>2. c - m > Capacity /\ c - Capacity \in 0 .. c - 1
    BY <1>3, <1>5, <1>6, Constants
  <2>3. D' = LaneOf(c - Capacity)
    <3>1. c \in Capacity .. Bound
      BY <1>3, <2>2, Constants
    <3> QED
      BY <1>2, <1>3, <2>1, <3>1, LiveWindow
  <2>4. overrunLost' \in Nat /\ Passed' = c - Capacity
    <3>1. PICK g \in Nat, o \in Nat : g = Len(got) /\ o = overrunLost
      BY LossCounters
    <3>2. m = g + o
      BY <1>3, <3>1 DEF Passed
    <3>3. o + (c - m - Capacity) \in Nat /\ g + (o + (c - m - Capacity)) = c - Capacity
      BY <1>3, <2>2, <3>2, Constants
    <3> QED
      BY <1>1, <2>1, <3>1, <3>3 DEF Passed
  <2>5. D' \in Lane
    <3>1. c - Capacity \in Tickets
      BY <1>3, <2>2, Constants DEF Tickets
    <3> QED
      BY <2>3, <3>1, LaneOfType
  <2>6. TypeOK'
    BY <1>1, <2>4, <2>5 DEF LossInv, TypeOK
  <2>7. PassedIsCounted'
    BY <1>1, <1>3, <2>2, <2>3, <2>4, Constants DEF PassedIsCounted
  <2> QED
    BY <1>1, <2>6, <2>7, LossConsumer
<1>7. CASE SignedDiff(enqueueTicket, D) <= Capacity
  <2>1. D' = D /\ overrunLost' = overrunLost
    BY <1>3, <1>5, <1>7, Constants DEF LoadTicket
  <2>2. TypeOK'
    BY <1>1, <2>1 DEF LossInv, TypeOK
  <2>3. PassedIsCounted'
    BY <1>1, <1>2, <2>1 DEF LossInv, PassedIsCounted, Passed
  <2> QED
    BY <1>1, <2>2, <2>3, LossConsumer
<1> QED
  BY <1>3, <1>5, <1>6, <1>7, Constants

\* A stamp at or past the head is a claimed ticket's, and so is the head.
LEMMA LossStamp ==
    ASSUME LossInv, LoadGeneration
    PROVE  LossInv'
<1>1. /\ cpc = "loadGen"
      /\ UNCHANGED <<enqueueTicket, gen, payload, dropped, producerVars, D, W, outLo, outHi,
                     claimed, got>>
  BY DEF LoadGeneration
<1>2. D = LaneOf(Passed) /\ D \in Lane
  BY <1>1 DEF LossInv, PassedIsCounted, TypeOK
<1>3. PICK c \in 0 .. Bound, m \in 0 .. Bound :
          /\ c = Len(claimed) /\ m = Passed /\ m <= c /\ m \in Tickets
  BY LossCounters, Constants
<1>4. PICK t \in 0 - Capacity .. c - 1 : gen[Slot(D)] = LaneOf(t)
  <2>1. Slot(D) \in Slots
    BY <1>2, SlotDivision, Constants DEF Lane
  <2> QED
    BY <1>3, <2>1 DEF LossInv, StampsAreTickets
<1>5. SignedDiff(gen[Slot(D)], D) = t - m
  <2>1. t \in Tickets /\ t - m <= Bound + Capacity /\ m - t <= Bound + Capacity
    BY <1>3, <1>4, Constants DEF Tickets
  <2> QED
    BY <1>2, <1>3, <1>4, <2>1, LaneOfDiff
<1>6. t \in Int /\ m \in Int /\ (t - m >= 0 => m < c)
  BY <1>3, <1>4, Constants
<1>7. CASE t - m = 0
  <2>1. cpc' = "readLo" /\ UNCHANGED <<dequeuePos, overrunLost, torn>>
    BY <1>5, <1>7 DEF LoadGeneration
  <2>2. TypeOK'
    BY <1>1, <2>1 DEF LossInv, TypeOK
  <2>3. PassedIsCounted'
    BY <1>1, <1>2, <1>3, <1>6, <1>7, <2>1 DEF LossInv, PassedIsCounted, Passed
  <2> QED
    BY <1>1, <2>2, <2>3, LossConsumer
<1>8. CASE t - m > 0
  <2>1. /\ cpc' = "idle" /\ dequeuePos' = Inc(D) /\ overrunLost' = overrunLost + 1
        /\ torn' = torn + 1
    BY <1>5, <1>6, <1>8 DEF LoadGeneration
  <2>2. dequeuePos' = LaneOf(m + 1) /\ dequeuePos' \in Lane /\ m + 1 <= c
    <3>1. m + 1 \in Tickets
      BY <1>3, <1>6, <1>8, Constants DEF Tickets
    <3> QED
      BY <1>2, <1>3, <1>6, <1>8, <2>1, <3>1, LaneOfInc, LaneOfType
  <2>3. Passed' = m + 1 /\ overrunLost' \in Nat
    <3>1. PICK g \in Nat, o \in Nat : g = Len(got) /\ o = overrunLost
      BY LossCounters
    <3>2. m = g + o /\ g + (o + 1) = (g + o) + 1
      BY <1>3, <3>1 DEF Passed
    <3> QED
      BY <1>1, <2>1, <3>1, <3>2 DEF Passed
  <2>4. TypeOK'
    BY <1>1, <2>1, <2>2, <2>3 DEF LossInv, TypeOK
  <2>5. PassedIsCounted'
    BY <1>1, <1>3, <2>1, <2>2, <2>3 DEF PassedIsCounted
  <2> QED
    BY <1>1, <2>4, <2>5, LossConsumer
<1>9. CASE t - m < 0
  <2>1. cpc' = "idle" /\ dequeuePos' = D /\ UNCHANGED <<overrunLost, torn>>
    BY <1>5, <1>6, <1>9 DEF LoadGeneration, AfterGap
  <2>2. TypeOK'
    BY <1>1, <1>2, <2>1 DEF LossInv, TypeOK
  <2>3. PassedIsCounted'
    BY <1>1, <1>2, <2>1 DEF LossInv, PassedIsCounted, Passed
  <2> QED
    BY <1>1, <2>2, <2>3, LossConsumer
<1> QED
  BY <1>6, <1>7, <1>8, <1>9

\* The other steps of a pull; a frame handed out is one passed.
LEMMA LossReads ==
    ASSUME LossInv, StartPull \/ ReadLo \/ ReadHi \/ Advance
    PROVE  LossInv'
<1>1. UNCHANGED <<enqueueTicket, gen, payload, counters, producerVars, claimed, W>>
  BY DEF StartPull, ReadLo, ReadHi, Advance
<1>2. PICK c \in 0 .. Bound, m \in 0 .. Bound :
          /\ c = Len(claimed) /\ m = Passed /\ m <= c /\ m \in Tickets
  BY LossCounters, Constants
<1>3. CASE StartPull
  <2>1. TypeOK' /\ PassedIsCounted'
    BY <1>3 DEF StartPull, LossInv, TypeOK, PassedIsCounted, Passed
  <2> QED
    BY <1>1, <2>1, LossConsumer
<1>4. CASE ReadLo \/ ReadHi
  <2>1. D \in Lane /\ Slot(D) \in Slots
    BY SlotDivision, Constants DEF LossInv, TypeOK, Lane
  <2>2. TypeOK'
    BY <1>4, <2>1 DEF ReadLo, ReadHi, LossInv, TypeOK
  <2>3. PassedIsCounted'
    BY <1>4 DEF ReadLo, ReadHi, LossInv, PassedIsCounted, Passed
  <2> QED
    BY <1>1, <2>2, <2>3, LossConsumer
<1>5. CASE Advance
  <2>1. /\ cpc = "advance" /\ cpc' = "idle" /\ dequeuePos' = Inc(D) /\ UNCHANGED <<D, outLo, outHi>>
        /\ got' = Append(got, IF outLo = outHi THEN outLo ELSE Nothing)
    BY <1>5 DEF Advance
  <2>2. D = LaneOf(m) /\ m < c
    BY <1>2, <2>1 DEF LossInv, PassedIsCounted
  <2>3. dequeuePos' = LaneOf(m + 1) /\ dequeuePos' \in Lane /\ m + 1 <= c
    <3>1. m + 1 \in Tickets
      BY <1>2, <2>2, Constants DEF Tickets
    <3> QED
      BY <1>2, <2>1, <2>2, <3>1, LaneOfInc, LaneOfType
  <2>4. got' \in Seq(FrameOrNothing) /\ Len(got') = Len(got) + 1
    <3>1. /\ got \in Seq(FrameOrNothing)
          /\ (IF outLo = outHi THEN outLo ELSE Nothing) \in FrameOrNothing
      BY DEF LossInv, TypeOK, FrameOrNothing
    <3> QED
      BY <2>1, <3>1
  <2>5. Passed' = m + 1
    <3>1. PICK g \in Nat, o \in Nat : g = Len(got) /\ o = overrunLost
      BY LossCounters
    <3>2. m = g + o /\ (g + 1) + o = (g + o) + 1
      BY <1>2, <3>1 DEF Passed
    <3> QED
      BY <1>1, <2>4, <3>1, <3>2 DEF Passed
  <2>6. TypeOK'
    BY <1>1, <2>1, <2>3, <2>4 DEF LossInv, TypeOK
  <2>7. PassedIsCounted'
    BY <1>1, <1>2, <2>1, <2>3, <2>5 DEF PassedIsCounted
  <2> QED
    BY <1>1, <2>6, <2>7, LossConsumer
<1> QED
  BY <1>3, <1>4, <1>5

\* The overload net counts what it passes over, also of a ring whose producers
\* outnumber producerCount, so that the envelope does not hold and it fires.
THEOREM OverloadIsCounted == Spec => []LossIsCounted
<1>1. LossInv /\ [Next]_vars => LossInv'
  <2> SUFFICES ASSUME LossInv, [Next]_vars PROVE LossInv'
    OBVIOUS
  <2>1. CASE \E p \in Producers : StartPush(p) \/ InPush(p) \/ Terminate(p)
    BY <2>1, LossPush, LossClaim, LossWrite, LossPublish DEF InPush
  <2>2. CASE Pull
    BY <2>2, LossLoad, LossStamp, LossReads DEF Pull
  <2>3. CASE UNCHANGED vars
    <3>1. TypeOK' /\ PassedIsCounted'
      BY <2>3 DEF vars, LossInv, TypeOK, PassedIsCounted, Passed
    <3> QED
      BY <2>3, <3>1, LossConsumer DEF vars
  <2> QED
    BY <2>1, <2>2, <2>3 DEF Next
<1>2. LossInv => LossIsCounted
  <2> SUFFICES ASSUME LossInv, cpc = "idle" PROVE SignedDiff(dequeuePos, Seed) = Passed
    BY DEF LossIsCounted, Passed
  <2>1. dequeuePos = LaneOf(Passed) /\ Passed \in 0 .. Bound
    BY LossCounters, Constants DEF LossInv, PassedIsCounted
  <2>2. Seed = LaneOf(0)
    BY Constants DEF LaneOf, LaneAt, Lane
  <2>3. Passed \in Tickets /\ 0 \in Tickets /\ Passed - 0 <= Bound + Capacity
        /\ 0 - Passed <= Bound + Capacity
    BY <2>1, Constants DEF Tickets
  <2>4. SignedDiff(LaneOf(Passed), LaneOf(0)) = Passed - 0
    BY <2>3, LaneOfDiff
  <2> QED
    BY <2>1, <2>2, <2>4
<1> QED
  BY <1>1, <1>2, LossInit, PTL DEF Spec
===============================================================================
