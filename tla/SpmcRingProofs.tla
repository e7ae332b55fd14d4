---------------------------- MODULE SpmcRingProofs ----------------------------
(***************************************************************************)
(* Proofs about SpmcRing for every number of consumers, capacity and seed   *)
(* and every history whose doubled tickets stay below half a wrap.  Cursors *)
(* and stamps are related to the history's unwrapped frame numbers (LaneOf, *)
(* StampOf).  What is counted holds in every build; that a frame is whole   *)
(* needs the build that keeps plain accesses in order.                      *)
(***************************************************************************)
EXTENDS SpmcRing, LaneTheorems

\* The tuples of variables are abbreviations only: every step may see through them.
USE DEF slots, cursors, producerVars, call, consumerVars

\* The lane of frame n, counted from 0, and the stamp that is k past the first
\* frame's Complete: frame n is complete at 2 * n and being written at 2 * n + 1.
LaneOf(n) == LaneAt(Seed, n)
DoubleSeed == (2 * Seed) % Modulus
StampOf(k) == LaneAt(DoubleSeed, k)

\* Frames writeTicket counts: it is one behind between Complete and its own store.
Advanced == IF ppc = "advance" THEN published - 1 ELSE published

\* Frames consumer c has dealt with, those its pull jumped over included.
Reached(c) == Len(got[c]) + dropped[c]

\* The slot of the frame in progress is stamped Busy.
BusyStored == ppc = "write" /\ "busy" \notin left

ProducerFollowsHistory ==
    /\ writeTicket = LaneOf(Advanced)
    /\ pushing = IF ppc = "write" THEN published + 1 ELSE published
    /\ ppc = "advance" => published >= 1

\* The slot of frame n carries n's stamp until frame n + Capacity takes it over.
Stamped(n, k) ==
    /\ gen[Slot(LaneOf(n))] = StampOf(k)
    /\ n + Capacity > published => k = 2 * n
    /\ n + Capacity = published => k = IF BusyStored THEN 2 * published + 1 ELSE 2 * n
    /\ n + Capacity < published => k >= 2 * (n + Capacity)

StampsFollowHistory ==
    \A n \in 0 - Capacity .. published - 1 :
        \E k \in 2 * n .. 2 * pushing : Stamped(n, k)

\* A cursor counts what its consumer has dealt with, and what a pull has jumped over
\* or found overwritten the producer has lapped.
CursorFollows(c) ==
    /\ dequeuePos[c] = LaneOf(passed[c])
    /\ passed[c] <= Reached(c) /\ Reached(c) <= published
    /\ cpc[c] = "idle" => passed[c] = Reached(c)
    /\ cpc[c] # "idle" =>
           /\ D[c] = LaneOf(Reached(c))
           /\ passed[c] < Reached(c) => Reached(c) + Capacity <= published
    /\ cpc[c] = "read" =>
           /\ Reached(c) < published /\ seq1[c] = StampOf(2 * Reached(c))
           /\ "seq2" \notin unread[c] /\ Overwritten(c) =>
                  Reached(c) + Capacity <= published

CursorsFollowHistory == \A c \in Consumers : CursorFollows(c)

\* The inductive invariant of what is counted, in every build.
IInv ==
    /\ TypeOK
    /\ ProducerFollowsHistory
    /\ StampsFollowHistory
    /\ CursorsFollowHistory

-------------------------------------------------------------------------------
(* Constants, lanes, stamps and slots *)

\* The constants' facts in the form the arithmetic below uses them.
LEMMA Constants ==
    /\ Capacity \in Nat /\ Capacity >= 1 /\ Modulus \in Nat /\ MaxFrames \in Nat
    /\ Half \in Nat /\ 2 * Half = Modulus /\ 2 * (MaxFrames + Capacity) < Half
    /\ Seed \in Lane
  BY LaneConstants, SpmcAssumption

LEMMA DoubleSeedType ==
    /\ DoubleSeed \in Lane
    /\ DoubleSeed = IF 2 * Seed < Modulus THEN 2 * Seed ELSE 2 * Seed - Modulus
<1>1. CASE 2 * Seed < Modulus
  <2>1. 2 * Seed \in 0 .. Modulus - 1 /\ 2 * Seed = Modulus * 0 + 2 * Seed
    BY <1>1, Constants DEF Lane
  <2> QED
    BY <1>1, <2>1, ModIs, Constants DEF DoubleSeed, Lane
<1>2. CASE 2 * Seed >= Modulus
  <2>1. 2 * Seed - Modulus \in 0 .. Modulus - 1
        /\ 2 * Seed = Modulus * 1 + (2 * Seed - Modulus)
    BY <1>2, Constants DEF Lane
  <2> QED
    BY <1>2, <2>1, ModIs, Constants DEF DoubleSeed, Lane
<1> QED
  BY <1>1, <1>2, Constants DEF Lane

\* Frame numbers, the ones before the history included, and their stamps.
Numbers == 0 - Capacity .. MaxFrames
Stamps == 0 - 2 * Capacity .. 2 * MaxFrames

LEMMA LaneOfType == \A n \in Numbers : LaneOf(n) \in Lane
  BY Constants, LaneAtType DEF LaneOf, Numbers

LEMMA LaneOfInc == \A n \in Numbers : Inc(LaneOf(n)) = LaneOf(n + 1)
  BY Constants, LaneAtInc DEF LaneOf, Numbers

LEMMA LaneOfDiff == \A a, b \in Numbers : SignedDiff(LaneOf(a), LaneOf(b)) = a - b
<1> SUFFICES ASSUME NEW a \in Numbers, NEW b \in Numbers
             PROVE  SignedDiff(LaneOf(a), LaneOf(b)) = a - b
  OBVIOUS
<1>1. /\ 0 - Half < a /\ a < Half /\ 0 - Half < b /\ b < Half
      /\ a - b < Half /\ b - a < Half /\ a \in Int /\ b \in Int /\ Seed \in Lane
  BY Constants DEF Numbers
<1> QED
  BY <1>1, LaneAtDiff DEF LaneOf

LEMMA StampType == \A k \in Stamps : StampOf(k) \in Lane
  BY Constants, LaneAtType, DoubleSeedType DEF StampOf, Stamps

LEMMA StampDiff == \A a, b \in Stamps : SignedDiff(StampOf(a), StampOf(b)) = a - b
<1> SUFFICES ASSUME NEW a \in Stamps, NEW b \in Stamps
             PROVE  SignedDiff(StampOf(a), StampOf(b)) = a - b
  OBVIOUS
<1>1. /\ 0 - Half < a /\ a < Half /\ 0 - Half < b /\ b < Half
      /\ a - b < Half /\ b - a < Half /\ a \in Int /\ b \in Int
  BY Constants DEF Stamps
<1> QED
  BY <1>1, LaneAtDiff, DoubleSeedType DEF StampOf

LEMMA StampInjective == \A a, b \in Stamps : StampOf(a) = StampOf(b) => a = b
<1> SUFFICES ASSUME NEW a \in Stamps, NEW b \in Stamps, StampOf(a) = StampOf(b)
             PROVE  a = b
  OBVIOUS
<1>1. SignedDiff(StampOf(a), StampOf(b)) = a - b /\ SignedDiff(StampOf(b), StampOf(b)) = b - b
  BY StampDiff
<1> QED
  BY <1>1 DEF Stamps

\* Complete and Busy double the lane, wrap included.
LEMMA CompleteIs == \A n \in Numbers : Complete(LaneOf(n)) = StampOf(2 * n)
<1> SUFFICES ASSUME NEW n \in Numbers PROVE Complete(LaneOf(n)) = StampOf(2 * n)
  OBVIOUS
<1>1. 2 * n \in Stamps /\ StampOf(2 * n) \in 0 .. Modulus - 1 /\ n \in Int
  BY StampType, Constants DEF Numbers, Stamps, Lane
<1>2. \/ 2 * LaneOf(n) = Modulus * 0 + StampOf(2 * n)
      \/ 2 * LaneOf(n) = Modulus * 1 + StampOf(2 * n)
  BY <1>1, DoubleSeedType, Constants DEF LaneOf, StampOf, LaneAt, Numbers, Lane
<1>3. 2 * LaneOf(n) \in Nat
  BY LaneOfType, Constants DEF Lane
<1> QED
  BY <1>1, <1>2, <1>3, ModIs DEF Complete

LEMMA BusyIs == \A n \in 0 .. MaxFrames - 1 : Busy(LaneOf(n)) = StampOf(2 * n + 1)
<1> SUFFICES ASSUME NEW n \in 0 .. MaxFrames - 1 PROVE Busy(LaneOf(n)) = StampOf(2 * n + 1)
  OBVIOUS
<1>1. 2 * n + 1 \in Stamps /\ StampOf(2 * n + 1) \in 0 .. Modulus - 1 /\ n \in Numbers
  BY StampType, Constants DEF Numbers, Stamps, Lane
<1>2. \/ 2 * LaneOf(n) + 1 = Modulus * 0 + StampOf(2 * n + 1)
      \/ 2 * LaneOf(n) + 1 = Modulus * 1 + StampOf(2 * n + 1)
  BY <1>1, DoubleSeedType, Constants DEF LaneOf, StampOf, LaneAt, Numbers, Lane
<1>3. 2 * LaneOf(n) + 1 \in Nat
  BY <1>1, LaneOfType, Constants DEF Lane
<1> QED
  BY <1>1, <1>2, <1>3, ModIs DEF Busy

\* A lap on lies the same slot, less than a lap another.
LEMMA LapIsSlot ==
    ASSUME NEW n \in Numbers
    PROVE  /\ Slot(LaneOf(n)) \in Slots
           /\ n + Capacity \in Numbers => Slot(LaneOf(n + Capacity)) = Slot(LaneOf(n))
<1>1. n \in Int /\ Seed \in Lane /\ n + Capacity \in Int /\ (n + Capacity) - Capacity = n
  BY Constants DEF Numbers
<1>2. LaneAt(Seed, n) \in Nat
  BY LaneOfType, LaneConstants DEF LaneOf, Lane
<1>3. Slot(LaneAt(Seed, n)) \in Slots
  BY <1>2, SlotDivision
<1>4. ASSUME n + Capacity \in Numbers
      PROVE  Slot(LaneAt(Seed, n + Capacity)) = Slot(LaneAt(Seed, n))
  <2>1. 0 - Half < (n + Capacity) - Capacity /\ n + Capacity < Half
    BY <1>4, Constants DEF Numbers
  <2>2. Slot(LaneAt(Seed, n + Capacity)) = Slot(LaneAt(Seed, (n + Capacity) - Capacity))
    BY <1>1, <2>1, LapKeepsSlot
  <2> QED
    BY <1>1, <2>2
<1> QED
  BY <1>3, <1>4 DEF LaneOf

LEMMA LessThanALap ==
    ASSUME NEW a \in Numbers, NEW b \in Numbers, a # b, a - b < Capacity, b - a < Capacity
    PROVE  Slot(LaneOf(a)) # Slot(LaneOf(b))
<1>1. /\ a \in Int /\ b \in Int /\ 0 - Half < a /\ a < Half /\ 0 - Half < b /\ b < Half
      /\ Seed \in Lane
  BY Constants DEF Numbers
<1>2. CASE a < b
  BY <1>1, <1>2, SlotsDiffer DEF LaneOf
<1>3. CASE b < a
  BY <1>1, <1>3, SlotsDiffer DEF LaneOf
<1> QED
  BY <1>1, <1>2, <1>3

-------------------------------------------------------------------------------
(* What the invariant says of the producer's slot and of a consumer's gate *)

\* The history's counters are in the range the lane lemmas speak of.
LEMMA Counters ==
    ASSUME IInv
    PROVE  /\ published \in 0 .. MaxFrames /\ pushing \in published .. MaxFrames
           /\ ppc = "write" => pushing = published + 1 /\ published \in 0 .. MaxFrames - 1
           /\ ppc # "write" => pushing = published
           /\ Advanced \in 0 .. published /\ writeTicket = LaneOf(Advanced)
           /\ ppc # "advance" => writeTicket = LaneOf(published)
           /\ published \in Numbers /\ Advanced \in Numbers
<1>1. published \in 0 .. MaxFrames /\ pushing \in 0 .. MaxFrames /\ MaxFrames \in Nat
  BY Constants DEF IInv, TypeOK
<1>2. /\ pushing = IF ppc = "write" THEN published + 1 ELSE published
      /\ writeTicket = LaneOf(Advanced) /\ (ppc = "advance" => published >= 1)
  BY DEF IInv, ProducerFollowsHistory
<1>3. Advanced \in 0 .. published /\ (ppc # "advance" => Advanced = published)
  BY <1>1, <1>2 DEF Advanced
<1> QED
  BY <1>1, <1>2, <1>3, Constants DEF Numbers

LEMMA Cursors ==
    ASSUME IInv, NEW c \in Consumers
    PROVE  /\ CursorFollows(c)
           /\ passed[c] \in 0 .. MaxFrames /\ Reached(c) \in 0 .. published
           /\ passed[c] \in Numbers /\ Reached(c) \in Numbers
           /\ passed[c] <= Reached(c)
           /\ got[c] \in Seq(0 .. MaxFrames) /\ dropped[c] \in Nat
<1>1. CursorFollows(c)
  BY DEF IInv, CursorsFollowHistory
<1>2. /\ passed[c] \in Nat /\ got[c] \in Seq(0 .. MaxFrames) /\ dropped[c] \in Nat
  BY DEF IInv, TypeOK
<1>3. Reached(c) \in Nat
  BY <1>2 DEF Reached
<1> QED
  BY <1>1, <1>2, <1>3, Counters, Constants DEF CursorFollows, Numbers

\* The slot the producer writes next is the one of the frame a lap before.
LEMMA NextSlot ==
    ASSUME IInv
    PROVE  /\ published - Capacity \in 0 - Capacity .. published - 1
           /\ Slot(LaneOf(published)) = Slot(LaneOf(published - Capacity))
           /\ Slot(LaneOf(published)) \in Slots
           /\ gen[Slot(LaneOf(published))] =
                  IF BusyStored THEN StampOf(2 * published + 1)
                  ELSE StampOf(2 * (published - Capacity))
<1> DEFINE n == published - Capacity
<1>1. /\ n \in 0 - Capacity .. published - 1 /\ n \in Numbers /\ n + Capacity = published
      /\ published \in Numbers
  BY Counters, Constants DEF Numbers
<1>2. PICK k \in 2 * n .. 2 * pushing : Stamped(n, k)
  BY <1>1 DEF IInv, StampsFollowHistory
<1> HIDE DEF n
<1>3. Slot(LaneOf(published)) = Slot(LaneOf(n))
  BY <1>1, LapIsSlot
<1>4. gen[Slot(LaneOf(n))] = IF BusyStored THEN StampOf(2 * published + 1) ELSE StampOf(2 * n)
  BY <1>1, <1>2 DEF Stamped
<1> QED
  BY <1>1, <1>3, <1>4, LapIsSlot DEF n

\* The gate opens on the frame wanted, and skips only a frame the producer has lapped.
LEMMA GateSays ==
    ASSUME IInv, NEW c \in Consumers, cpc[c] = "loadGen"
    PROVE  LET g == Gate(gen[Slot(D[c])], D[c])
           IN  /\ g \in Int
               /\ g = 0 => Reached(c) < published /\ gen[Slot(D[c])] = StampOf(2 * Reached(c))
               /\ g >= 2 => Reached(c) + Capacity <= published
<1> DEFINE d == Reached(c)
           g == Gate(gen[Slot(D[c])], D[c])
<1>1. D[c] = LaneOf(d) /\ d \in 0 .. published /\ d \in Numbers
  BY Cursors DEF CursorFollows
<1>2. Complete(D[c]) = StampOf(2 * d) /\ 2 * d \in Stamps
  BY <1>1, CompleteIs, Constants DEF Numbers, Stamps
<1>3. CASE d < published
  <2>1. d \in 0 - Capacity .. published - 1 /\ pushing <= MaxFrames /\ pushing \in Nat
    BY <1>1, <1>3, Counters, Constants
  <2>2. PICK k \in 2 * d .. 2 * pushing : Stamped(d, k)
    BY <2>1 DEF IInv, StampsFollowHistory
  <2>3. k \in Stamps
    BY <1>1, <2>1, Constants DEF Stamps
  <2>4. gen[Slot(D[c])] = StampOf(k)
    BY <1>1, <2>2 DEF Stamped
  <2>5. g = k - 2 * d
    BY <1>2, <2>3, <2>4, StampDiff DEF Gate
  <2>6. k # 2 * d => d + Capacity <= published
    BY <1>1, <2>2, Counters, Constants DEF Stamped
  <2> QED
    BY <1>1, <1>3, <2>1, <2>4, <2>5, <2>6
<1>4. CASE d = published
  <2>1. /\ 2 * published + 1 \in Stamps \/ ~BusyStored
        /\ 2 * (published - Capacity) \in Stamps
    BY Counters, Constants DEF Stamps, BusyStored
  <2>2. CASE BusyStored
    <3>1. g = (2 * published + 1) - 2 * published
      BY <1>1, <1>2, <1>4, <2>1, <2>2, NextSlot, StampDiff DEF Gate
    <3> QED
      BY <3>1, Counters
  <2>3. CASE ~BusyStored
    <3>1. g = 2 * (published - Capacity) - 2 * published
      BY <1>1, <1>2, <1>4, <2>1, <2>3, NextSlot, StampDiff DEF Gate
    <3> QED
      BY <3>1, Counters, Constants
  <2> QED
    BY <2>2, <2>3
<1> QED
  BY <1>1, <1>3, <1>4, Counters

-------------------------------------------------------------------------------
(* The initial states *)

LEMMA InitIInv == Init => IInv
<1> SUFFICES ASSUME Init PROVE IInv
  OBVIOUS
<1>1. Seed = LaneOf(0) /\ Seed \in Lane /\ 0 \in Lane
  BY Constants DEF LaneOf, LaneAt, Lane
<1>2. TypeOK
  BY <1>1, Constants DEF Init, TypeOK, Nothing
<1>3. ProducerFollowsHistory
  BY <1>1 DEF Init, ProducerFollowsHistory, Advanced
<1>4. StampsFollowHistory
  <2>1. ASSUME NEW n \in 0 - Capacity .. 0 - 1
        PROVE  gen[Slot(LaneOf(n))] = StampOf(2 * n)
    <3> DEFINE i == n + Capacity
               x == Seed + i + Modulus - Capacity
    <3>1. /\ n \in Numbers /\ n + Capacity \in Slots
          /\ Seed + (n + Capacity) \in Nat /\ n \in Int
          /\ n + Capacity \in Int /\ 0 - Half < n + Capacity /\ n + Capacity < Half
      <4>1. n \in Int /\ n + Capacity \in 0 .. Capacity - 1 /\ n + Capacity \in Int
        BY Constants
      <4>2. 0 - Half < n + Capacity /\ n + Capacity < Half
        BY <4>1, Constants
      <4>3. n \in Numbers
        BY <4>1, Constants DEF Numbers
      <4>4. Seed \in Nat
        BY Constants DEF Lane
      <4> QED
        BY <4>1, <4>2, <4>3, <4>4 DEF Slots
    <3>2. Slot(LaneOf(n)) = Slot(Seed + i)
      <4>1. Slot(LaneOf(n)) = Slot(LaneOf(n + Capacity))
        <5>1. (n + Capacity) - Capacity = n /\ 0 - Half < (n + Capacity) - Capacity
          BY <3>1, Constants DEF Numbers
        <5>2. Slot(LaneAt(Seed, n + Capacity)) = Slot(LaneAt(Seed, (n + Capacity) - Capacity))
          BY <1>1, <3>1, <5>1, LapKeepsSlot
        <5> QED
          BY <5>1, <5>2 DEF LaneOf
      <4>2. Slot(LaneOf(n + Capacity)) = Slot(Seed + (n + Capacity) + Modulus)
        BY <1>1, <3>1, LaneAtSlot DEF LaneOf
      <4> QED
        BY <3>1, <4>1, <4>2, WrapKeepsSlot
    <3>3. gen[Slot(Seed + i)] = (2 * x) % Modulus
      BY <3>1 DEF Init, Complete
    <3>4. 2 * n \in Stamps /\ StampOf(2 * n) \in 0 .. Modulus - 1 /\ 2 * x \in Nat
      BY <3>1, StampType, Constants DEF Numbers, Stamps, Lane
    <3>5. \E j \in 1 .. 4 : 2 * x = Modulus * j + StampOf(2 * n)
      <4>1. \/ 2 * x = Modulus * 1 + StampOf(2 * n)
            \/ 2 * x = Modulus * 2 + StampOf(2 * n)
            \/ 2 * x = Modulus * 3 + StampOf(2 * n)
            \/ 2 * x = Modulus * 4 + StampOf(2 * n)
        BY <3>1, DoubleSeedType, Constants DEF StampOf, LaneAt, Numbers, Lane
      <4> QED
        BY <4>1
    <3> HIDE DEF x
    <3>6. (2 * x) % Modulus = StampOf(2 * n)
      BY <3>4, <3>5, ModIs
    <3> QED
      BY <3>2, <3>3, <3>6
  <2>2. ASSUME NEW n \in 0 - Capacity .. 0 - 1
        PROVE  2 * n \in 2 * n .. 2 * 0 /\ Stamped(n, 2 * n)
    BY <2>1, Constants DEF Stamped, Init, BusyStored
  <2> QED
    BY <2>2 DEF Init, StampsFollowHistory
<1>5. CursorsFollowHistory
  BY <1>1, EmptySeq DEF Init, CursorsFollowHistory, CursorFollows, Reached
<1> QED
  BY <1>2, <1>3, <1>4, <1>5 DEF IInv

-------------------------------------------------------------------------------
(* The producer's steps *)

\* A step that leaves the consumers alone and publishes nothing back keeps cursors.
LEMMA CursorsStay ==
    ASSUME IInv, UNCHANGED consumerVars, published' \in {published, published + 1}
    PROVE  CursorsFollowHistory'
<1>1. \A c \in Consumers : Reached(c)' = Reached(c) /\ (Overwritten(c)' <=> Overwritten(c))
  BY DEF Reached, Overwritten
<1>2. \A c \in Consumers : Reached(c) \in Nat /\ CursorFollows(c)
  BY Cursors, Counters
<1>3. published \in Nat /\ published' >= published
  BY Counters
<1>4. ASSUME NEW c \in Consumers PROVE CursorFollows(c)'
  BY <1>1, <1>2, <1>3, Constants DEF CursorFollows
<1> QED
  BY <1>4 DEF CursorsFollowHistory

\* Doubling keeps the order, for the prover's sake.
LEMMA Doubled == \A i, m \in Nat, k \in Int : i <= m /\ k <= 2 * i => k <= 2 * m
  OBVIOUS

\* The accesses of a push before Complete, in any order the build may choose.
LEMMA WriteKeeps ==
    ASSUME IInv, StartPush \/ WriteLo \/ WriteHi \/ AdvanceTicket
    PROVE  IInv'
<1>1. /\ UNCHANGED <<gen, published, consumerVars>>
      /\ (ppc' = "write" /\ "busy" \notin left') <=> BusyStored
      /\ pushing' >= pushing
  BY Counters DEF StartPush, WriteLo, WriteHi, AdvanceTicket, BusyStored, IInv, TypeOK
<1>2. TypeOK'
  <2>1. /\ Slot(writeTicket) \in Slots /\ pushing \in 0 .. MaxFrames
        /\ Inc(writeTicket) \in Lane
    <3>1. writeTicket \in Lane /\ writeTicket \in Nat
      BY Constants DEF IInv, TypeOK, Lane
    <3>2. Inc(writeTicket) \in Lane
      BY <3>1, Constants DEF Inc, Lane
    <3> QED
      BY <3>1, <3>2, SlotDivision DEF IInv, TypeOK
  <2>2. CASE StartPush
    BY <2>2, Constants DEF StartPush, IInv, TypeOK
  <2>3. CASE WriteLo
    BY <2>1, <2>3 DEF WriteLo, IInv, TypeOK
  <2>4. CASE WriteHi
    BY <2>1, <2>4 DEF WriteHi, IInv, TypeOK
  <2>5. CASE AdvanceTicket
    BY <2>1, <2>5 DEF AdvanceTicket, IInv, TypeOK
  <2> QED
    BY <2>2, <2>3, <2>4, <2>5
<1>3. ProducerFollowsHistory'
  <2>1. CASE StartPush
    BY <2>1, Counters DEF StartPush, ProducerFollowsHistory, Advanced
  <2>2. CASE WriteLo \/ WriteHi
    BY <2>2 DEF WriteLo, WriteHi, IInv, ProducerFollowsHistory, Advanced
  <2>3. CASE AdvanceTicket
    <3>1. Advanced = published - 1 /\ published - 1 \in Numbers /\ (published - 1) + 1 = published
      BY <2>3, Counters, Constants DEF AdvanceTicket, Advanced, Numbers
    <3>2. writeTicket' = LaneOf(published)
      BY <2>3, <3>1, Counters, LaneOfInc DEF AdvanceTicket
    <3> QED
      BY <2>3, <3>2, Counters DEF AdvanceTicket, ProducerFollowsHistory, Advanced
  <2> QED
    BY <2>1, <2>2, <2>3
<1>4. StampsFollowHistory'
  <2>1. ASSUME NEW n \in 0 - Capacity .. published - 1
        PROVE  \E k \in 2 * n .. 2 * pushing' : Stamped(n, k)'
    <3>1. PICK k \in 2 * n .. 2 * pushing : Stamped(n, k)
      BY DEF IInv, StampsFollowHistory
    <3>2. k \in 2 * n .. 2 * pushing'
      <4>1. pushing \in Nat /\ pushing' \in Nat /\ n \in Int /\ pushing' >= pushing
        BY <1>1, <1>2, Constants DEF IInv, TypeOK
      <4>2. PICK m \in Nat, i \in Nat : m = pushing' /\ i = pushing /\ i <= m
        BY <4>1
      <4>3. k \in Int /\ 2 * n <= k /\ k <= 2 * i
        BY <3>1, <4>1, <4>2
      <4>4. k <= 2 * m
        BY <4>2, <4>3, Doubled
      <4>5. k \in 2 * n .. 2 * m
        BY <4>1, <4>3, <4>4
      <4> QED
        BY <4>2, <4>5
    <3>3. Stamped(n, k)'
      BY <1>1, <3>1 DEF Stamped, BusyStored
    <3> QED
      BY <3>2, <3>3
  <2> QED
    BY <1>1, <2>1 DEF StampsFollowHistory
<1>5. CursorsFollowHistory'
  BY <1>1, CursorsStay
<1> QED
  BY <1>2, <1>3, <1>4, <1>5 DEF IInv

\* Busy takes the slot of the frame a lap before from it.
LEMMA StoreBusyKeeps ==
    ASSUME IInv, StoreBusy
    PROVE  IInv'
<1> DEFINE s == Slot(LaneOf(published))
<1>1. /\ ppc = "write" /\ ppc' = "write" /\ "busy" \in left /\ left' = left \ {"busy"}
      /\ gen' = [gen EXCEPT ![s] = StampOf(2 * published + 1)]
      /\ UNCHANGED <<writeTicket, lo, hi, pushing, published, consumerVars>>
  BY Counters, BusyIs DEF StoreBusy
<1>2. /\ published \in 0 .. MaxFrames - 1 /\ pushing = published + 1 /\ s \in Slots
      /\ published \in Numbers
  BY <1>1, Counters, NextSlot
<1>3. StampOf(2 * published + 1) \in Lane
  BY <1>2, StampType, Constants DEF Stamps
<1>4. gen'[s] = StampOf(2 * published + 1) /\ \A i \in Slots \ {s} : gen'[i] = gen[i]
  BY <1>1, <1>2 DEF IInv, TypeOK
<1>5. BusyStored'
  BY <1>1 DEF BusyStored
<1> HIDE DEF s
<1>6. TypeOK'
  BY <1>1, <1>3 DEF IInv, TypeOK
<1>7. ProducerFollowsHistory'
  BY <1>1 DEF IInv, ProducerFollowsHistory, Advanced
<1>8. StampsFollowHistory'
  <2>1. ASSUME NEW n \in 0 - Capacity .. published - 1
        PROVE  \E k \in 2 * n .. 2 * pushing : Stamped(n, k)'
    <3>1. PICK k \in 2 * n .. 2 * pushing : Stamped(n, k)
      BY DEF IInv, StampsFollowHistory
    <3>2. n \in Numbers /\ n \in Int /\ n < published /\ Slot(LaneOf(n)) \in Slots
      BY <1>2, LapIsSlot, Constants DEF Numbers
    <3>3. CASE Slot(LaneOf(n)) = s
      <4>1. n + Capacity <= published
        BY <1>2, <3>2, <3>3, LessThanALap, Constants DEF s
      <4>2. PICK m \in Int : m = 2 * published + 1
        BY <1>2
      <4>3. m \in 2 * n .. 2 * pushing
        BY <1>2, <3>2, <4>2
      <4>4. Stamped(n, m)'
        BY <1>1, <1>2, <1>4, <1>5, <3>2, <3>3, <4>1, <4>2, Constants DEF Stamped
      <4> QED
        BY <4>3, <4>4
    <3>4. CASE Slot(LaneOf(n)) # s
      <4>1. n + Capacity # published
        BY <1>2, <3>2, <3>4, LapIsSlot DEF s
      <4>2. Stamped(n, k)'
        BY <1>1, <1>4, <3>1, <3>2, <3>4, <4>1 DEF Stamped
      <4> QED
        BY <4>2
    <3> QED
      BY <3>3, <3>4
  <2> QED
    BY <1>1, <2>1 DEF StampsFollowHistory
<1>9. CursorsFollowHistory'
  BY <1>1, CursorsStay
<1> QED
  BY <1>6, <1>7, <1>8, <1>9 DEF IInv

\* Complete makes the frame the newest published one.
LEMMA StoreCompleteKeeps ==
    ASSUME IInv, StoreComplete
    PROVE  IInv'
<1> DEFINE s == Slot(LaneOf(published))
<1>1. /\ ppc = "write" /\ ppc' = "advance" /\ left = {} /\ published' = published + 1
      /\ gen' = [gen EXCEPT ![s] = StampOf(2 * published)]
      /\ UNCHANGED <<writeTicket, lo, hi, left, pushing, consumerVars>>
  BY Counters, CompleteIs DEF StoreComplete
<1>2. /\ published \in 0 .. MaxFrames - 1 /\ pushing = published + 1 /\ s \in Slots
      /\ published \in Numbers /\ published' \in 0 .. MaxFrames
  BY <1>1, Counters, NextSlot, Constants
<1>3. StampOf(2 * published) \in Lane
  BY <1>2, StampType, Constants DEF Stamps
<1>4. gen'[s] = StampOf(2 * published) /\ \A i \in Slots \ {s} : gen'[i] = gen[i]
  BY <1>1, <1>2 DEF IInv, TypeOK
<1>5. ~BusyStored' /\ BusyStored
  BY <1>1 DEF BusyStored
<1> HIDE DEF s
<1>6. TypeOK'
  BY <1>1, <1>2, <1>3 DEF IInv, TypeOK
<1>7. ProducerFollowsHistory'
  BY <1>1, <1>2 DEF IInv, ProducerFollowsHistory, Advanced
<1>8. StampsFollowHistory'
  <2>1. ASSUME NEW n \in 0 - Capacity .. published
        PROVE  \E k \in 2 * n .. 2 * pushing : Stamped(n, k)'
    <3>1. n \in Numbers /\ n \in Int /\ Slot(LaneOf(n)) \in Slots
      BY <1>2, LapIsSlot, Constants DEF Numbers
    <3>2. CASE Slot(LaneOf(n)) = s
      <4>1. n = published \/ n + Capacity <= published
        BY <1>2, <3>1, <3>2, LessThanALap, Constants DEF s
      <4>2. PICK m \in Int : m = 2 * published
        BY <1>2
      <4>3. m \in 2 * n .. 2 * pushing
        BY <1>2, <3>1, <4>2
      <4>4. gen'[Slot(LaneOf(n))] = StampOf(m)
        BY <1>4, <3>2, <4>2
      <4>5. Stamped(n, m)'
        BY <1>1, <1>2, <1>5, <3>1, <4>1, <4>2, <4>4, Constants DEF Stamped
      <4> QED
        BY <4>3, <4>5
    <3>3. CASE Slot(LaneOf(n)) # s
      <4>1. n + Capacity # published /\ n # published
        BY <1>2, <3>1, <3>3, LapIsSlot DEF s
      <4>2. n \in 0 - Capacity .. published - 1
        BY <1>2, <3>1, <4>1
      <4>3. PICK k \in 2 * n .. 2 * pushing : Stamped(n, k)
        BY <4>2 DEF IInv, StampsFollowHistory
      <4>4. gen'[Slot(LaneOf(n))] = StampOf(k)
        BY <1>4, <3>1, <3>3, <4>3 DEF Stamped
      <4>5. /\ n + Capacity > published => k = 2 * n
            /\ n + Capacity < published => k >= 2 * (n + Capacity)
        BY <4>3 DEF Stamped
      <4>6. /\ published \in Nat /\ Capacity \in Nat /\ n \in Int /\ k \in Int
            /\ published' = published + 1 /\ ~BusyStored'
        BY <1>1, <1>2, <1>5, <3>1, Constants
      <4>7. Stamped(n, k)'
        BY <4>1, <4>4, <4>5, <4>6 DEF Stamped
      <4> QED
        BY <4>7
    <3> QED
      BY <3>2, <3>3
  <2>2. published' - 1 = published
    BY <1>1, <1>2
  <2> QED
    BY <1>1, <2>1, <2>2 DEF StampsFollowHistory
<1>9. CursorsFollowHistory'
  BY <1>1, CursorsStay
<1> QED
  BY <1>6, <1>7, <1>8, <1>9 DEF IInv

-------------------------------------------------------------------------------
(* A consumer's steps *)

\* A consumer touches nothing of the producer's and nothing of another consumer's.
LEMMA OthersStay ==
    ASSUME IInv, UNCHANGED producerVars, TypeOK', NEW c \in Consumers, CursorFollows(c)',
           \A q \in Consumers \ {c} :
               /\ dequeuePos'[q] = dequeuePos[q] /\ passed'[q] = passed[q]
               /\ got'[q] = got[q] /\ dropped'[q] = dropped[q] /\ cpc'[q] = cpc[q]
               /\ D'[q] = D[q] /\ seq1'[q] = seq1[q] /\ seq2'[q] = seq2[q]
               /\ unread'[q] = unread[q]
    PROVE  IInv'
<1>1. ProducerFollowsHistory' /\ StampsFollowHistory'
  BY DEF IInv, ProducerFollowsHistory, StampsFollowHistory, Advanced, Stamped, BusyStored
<1>2. ASSUME NEW q \in Consumers, q # c PROVE CursorFollows(q)'
  BY <1>2, Cursors DEF CursorFollows, Reached, Overwritten
<1> QED
  BY <1>1, <1>2 DEF IInv, CursorsFollowHistory

\* The overload net jumps to the oldest frame of the live window.
LEMMA StartPullKeeps ==
    ASSUME IInv, NEW c \in Consumers, StartPull(c)
    PROVE  IInv'
<1> DEFINE A == Advanced
<1>1. /\ cpc[c] = "idle" /\ cpc' = [cpc EXCEPT ![c] = "loadGen"]
      /\ UNCHANGED <<producerVars, dequeuePos, tornGuarded, seq1, seq2, unread,
                     outLo, outHi, passed, got>>
  BY DEF StartPull
<1>2. /\ writeTicket = LaneOf(A) /\ A \in 0 .. published /\ A \in Numbers
      /\ dequeuePos[c] = LaneOf(passed[c]) /\ passed[c] = Reached(c)
      /\ passed[c] \in Numbers /\ passed[c] \in Nat /\ Reached(c) <= published
  BY <1>1, Counters, Cursors DEF CursorFollows
<1>3. SignedDiff(writeTicket, dequeuePos[c]) = A - passed[c]
  BY <1>2, LaneOfDiff
<1> HIDE DEF A
<1>4. got[c] \in Seq(0 .. MaxFrames) /\ dropped[c] \in Nat
  BY Cursors
<1>5. CASE A - passed[c] > Capacity
  <2>1. /\ D' = [D EXCEPT ![c] = (writeTicket + Modulus - Capacity) % Modulus]
        /\ dropped' = [dropped EXCEPT ![c] = @ + (A - passed[c] - Capacity)]
    BY <1>3, <1>5, Constants, <1>2 DEF StartPull, Missed
  <2>2. (writeTicket + Modulus - Capacity) % Modulus = LaneOf(A - Capacity)
        /\ LaneOf(A - Capacity) \in Lane
    <3>1. A - Capacity \in Numbers /\ LaneOf(A - Capacity) \in 0 .. Modulus - 1 /\ A \in Nat
      BY <1>2, <1>5, Constants, LaneOfType DEF Numbers, Lane
    <3>2. \/ writeTicket + Modulus - Capacity = Modulus * 0 + LaneOf(A - Capacity)
          \/ writeTicket + Modulus - Capacity = Modulus * 1 + LaneOf(A - Capacity)
      BY <1>2, <3>1, Constants DEF LaneOf, LaneAt, Lane, Numbers
    <3>3. writeTicket + Modulus - Capacity \in Nat
      BY <1>2, LaneOfType, Constants DEF Lane
    <3> QED
      BY <3>1, <3>2, <3>3, ModIs DEF Lane
  <2>3. A - passed[c] - Capacity \in Nat
    BY <1>2, <1>5, Constants
  <2>4. TypeOK'
    <3>1. D' = [D EXCEPT ![c] = LaneOf(A - Capacity)] /\ D \in [Consumers -> Lane]
      BY <2>1, <2>2 DEF IInv, TypeOK
    <3>2. D' \in [Consumers -> Lane]
      BY <2>2, <3>1
    <3>3. dropped[c] + (A - passed[c] - Capacity) \in Nat
      BY <1>4, <2>3
    <3>4. dropped' \in [Consumers -> Nat]
      BY <2>1, <3>3 DEF IInv, TypeOK
    <3> QED
      BY <1>1, <3>2, <3>4 DEF IInv, TypeOK
  <2>5. /\ dropped'[c] = dropped[c] + (A - passed[c] - Capacity) /\ got'[c] = got[c]
        /\ D'[c] = LaneOf(A - Capacity) /\ cpc'[c] = "loadGen"
    BY <1>1, <2>1, <2>2 DEF IInv, TypeOK
  <2>6. Reached(c)' = A - Capacity /\ A - Capacity \in Nat /\ passed[c] < A - Capacity
    <3>1. Reached(c)' = Reached(c) + (A - passed[c] - Capacity)
      BY <1>4, <2>3, <2>5 DEF Reached
    <3> QED
      BY <1>2, <1>5, <3>1, Constants
  <2>7. CursorFollows(c)'
    <3>1. passed'[c] = passed[c] /\ published' = published /\ dequeuePos'[c] = dequeuePos[c]
      BY <1>1
    <3>2. (A - Capacity) + Capacity <= published /\ A - Capacity <= published
          /\ passed[c] <= A - Capacity
      BY <1>2, <2>6, Counters, Constants
    <3> QED
      BY <1>2, <2>5, <2>6, <3>1, <3>2 DEF CursorFollows
  <2>8. \A q \in Consumers \ {c} :
            D'[q] = D[q] /\ dropped'[q] = dropped[q] /\ cpc'[q] = cpc[q]
    BY <1>1, <2>1 DEF IInv, TypeOK
  <2> QED
    BY <1>1, <2>4, <2>7, <2>8, OthersStay
<1>6. CASE ~(A - passed[c] > Capacity)
  <2>1. D' = [D EXCEPT ![c] = dequeuePos[c]] /\ dropped' = dropped
    BY <1>3, <1>6 DEF StartPull
  <2>2. TypeOK'
    BY <1>1, <2>1 DEF IInv, TypeOK
  <2>3. D'[c] = LaneOf(passed[c]) /\ cpc'[c] = "loadGen" /\ Reached(c)' = Reached(c)
    BY <1>1, <1>2, <2>1 DEF IInv, TypeOK, Reached
  <2>4. CursorFollows(c)'
    BY <1>1, <1>2, <2>3 DEF CursorFollows
  <2>5. \A q \in Consumers \ {c} :
            D'[q] = D[q] /\ dropped'[q] = dropped[q] /\ cpc'[q] = cpc[q]
    BY <1>1, <2>1 DEF IInv, TypeOK
  <2> QED
    BY <1>1, <2>2, <2>4, <2>5, OthersStay
<1> QED
  BY <1>5, <1>6

\* Where a pull that moves the cursor to frame n leaves it.
LEMMA CursorMoves ==
    ASSUME IInv, NEW c \in Consumers, NEW n \in Numbers, MoveCursor(c, LaneOf(n)),
           n >= passed[c]
    PROVE  /\ dequeuePos' \in [Consumers -> Lane] /\ passed' \in [Consumers -> Nat]
           /\ dequeuePos'[c] = LaneOf(n) /\ passed'[c] = n
           /\ passed' = [passed EXCEPT ![c] = n]
           /\ \A q \in Consumers \ {c} :
                  dequeuePos'[q] = dequeuePos[q] /\ passed'[q] = passed[q]
<1>1. /\ dequeuePos[c] = LaneOf(passed[c]) /\ passed[c] \in Numbers /\ passed[c] \in Nat
      /\ n \in Nat
  BY Cursors, Constants DEF CursorFollows, Numbers
<1>2. SignedDiff(LaneOf(n), dequeuePos[c]) = n - passed[c]
  BY <1>1, LaneOfDiff
<1>3. passed[c] + SignedDiff(LaneOf(n), dequeuePos[c]) = n
  BY <1>1, <1>2
<1>4. /\ passed' = [passed EXCEPT ![c] = n] /\ dequeuePos' = [dequeuePos EXCEPT ![c] = LaneOf(n)]
      /\ LaneOf(n) \in Lane
  BY <1>3, LaneOfType DEF MoveCursor
<1> QED
  BY <1>1, <1>4 DEF IInv, TypeOK

\* The frame after the one a pull is at.
LEMMA NextFrame ==
    ASSUME IInv, NEW c \in Consumers, cpc[c] # "idle", Reached(c) < published
    PROVE  /\ Inc(D[c]) = LaneOf(Reached(c) + 1) /\ Reached(c) + 1 \in Numbers
           /\ Reached(c) + 1 >= passed[c]
<1>1. D[c] = LaneOf(Reached(c)) /\ Reached(c) \in Numbers /\ Reached(c) \in Nat
  BY Cursors, Counters DEF CursorFollows
<1>2. Inc(D[c]) = LaneOf(Reached(c) + 1)
  BY <1>1, LaneOfInc
<1> QED
  BY <1>1, <1>2, Cursors, Counters, Constants DEF Numbers

LEMMA LoadSeq1Keeps ==
    ASSUME IInv, NEW c \in Consumers, LoadSeq1(c)
    PROVE  IInv'
<1> DEFINE g == Gate(gen[Slot(D[c])], D[c])
           d == Reached(c)
<1>1. /\ cpc[c] = "loadGen"
      /\ UNCHANGED <<producerVars, tornGuarded, D, seq2, outLo, outHi, got>>
  BY DEF LoadSeq1
<1>2. /\ g \in Int /\ (g = 0 => d < published /\ gen[Slot(D[c])] = StampOf(2 * d))
      /\ (g >= 2 => d + Capacity <= published)
  BY <1>1, GateSays
<1>3. /\ D[c] = LaneOf(d) /\ d \in 0 .. published /\ d \in Numbers /\ published \in Nat
      /\ passed[c] <= d /\ dequeuePos[c] = LaneOf(passed[c])
      /\ passed[c] < d => d + Capacity <= published
  BY <1>1, Cursors, Counters DEF CursorFollows
<1>4. gen[Slot(D[c])] \in Lane
  <2>1. D[c] \in Nat
    BY Constants DEF IInv, TypeOK, Lane
  <2> QED
    BY <2>1, SlotDivision DEF IInv, TypeOK
<1>5. CASE g = 0
  <2>1. /\ seq1' = [seq1 EXCEPT ![c] = gen[Slot(D[c])]]
        /\ unread' = [unread EXCEPT ![c] = {"lo", "hi", "seq2"}]
        /\ cpc' = [cpc EXCEPT ![c] = "read"] /\ UNCHANGED <<dequeuePos, passed, dropped>>
    BY <1>2, <1>5 DEF LoadSeq1
  <2>2. TypeOK'
    BY <1>1, <1>4, <2>1 DEF IInv, TypeOK
  <2>3. /\ seq1'[c] = StampOf(2 * d) /\ unread'[c] = {"lo", "hi", "seq2"}
        /\ cpc'[c] = "read" /\ Reached(c)' = d
    BY <1>1, <1>2, <1>5, <2>1 DEF IInv, TypeOK, Reached
  <2> HIDE DEF g, d
  <2>4. CursorFollows(c)'
    BY <1>1, <1>2, <1>3, <1>5, <2>1, <2>3 DEF CursorFollows
  <2>5. \A q \in Consumers \ {c} :
            seq1'[q] = seq1[q] /\ unread'[q] = unread[q] /\ cpc'[q] = cpc[q]
    BY <2>1 DEF IInv, TypeOK
  <2> QED
    BY <1>1, <2>1, <2>2, <2>4, <2>5, OthersStay
<1>6. CASE g >= 2
  <2>1. /\ dropped' = [dropped EXCEPT ![c] = @ + 1] /\ MoveCursor(c, Inc(D[c]))
        /\ cpc' = [cpc EXCEPT ![c] = "idle"] /\ UNCHANGED <<seq1, unread>>
    BY <1>2, <1>6 DEF LoadSeq1
  <2>2. d < published
    BY <1>2, <1>3, <1>6, Constants
  <2>3. Inc(D[c]) = LaneOf(d + 1) /\ d + 1 \in Numbers /\ d + 1 >= passed[c]
    BY <1>1, <2>2, NextFrame
  <2>4. /\ dequeuePos' \in [Consumers -> Lane] /\ passed' \in [Consumers -> Nat]
        /\ dequeuePos'[c] = LaneOf(d + 1) /\ passed'[c] = d + 1
        /\ \A q \in Consumers \ {c} :
               dequeuePos'[q] = dequeuePos[q] /\ passed'[q] = passed[q]
    BY <2>1, <2>3, CursorMoves
  <2>5. TypeOK'
    <3>1. dropped[c] + 1 \in Nat
      BY Cursors
    <3> QED
      BY <1>1, <2>1, <2>4, <3>1 DEF IInv, TypeOK
  <2>6. cpc'[c] = "idle" /\ Reached(c)' = d + 1
    BY <1>1, <2>1, Cursors DEF IInv, TypeOK, Reached
  <2> HIDE DEF g, d
  <2>7. CursorFollows(c)'
    BY <1>1, <1>3, <2>2, <2>4, <2>6 DEF CursorFollows
  <2>8. \A q \in Consumers \ {c} : dropped'[q] = dropped[q] /\ cpc'[q] = cpc[q]
    BY <2>1 DEF IInv, TypeOK
  <2> QED
    BY <1>1, <2>1, <2>4, <2>5, <2>7, <2>8, OthersStay
<1>7. CASE g < 2 /\ g # 0
  <2>1. /\ MoveCursor(c, D[c]) /\ cpc' = [cpc EXCEPT ![c] = "idle"]
        /\ UNCHANGED <<seq1, unread, dropped>>
    BY <1>2, <1>7 DEF LoadSeq1
  <2>2. /\ dequeuePos' \in [Consumers -> Lane] /\ passed' \in [Consumers -> Nat]
        /\ dequeuePos'[c] = LaneOf(d) /\ passed'[c] = d
        /\ \A q \in Consumers \ {c} :
               dequeuePos'[q] = dequeuePos[q] /\ passed'[q] = passed[q]
    BY <1>3, <2>1, CursorMoves
  <2>3. TypeOK'
    BY <1>1, <2>1, <2>2 DEF IInv, TypeOK
  <2>4. cpc'[c] = "idle" /\ Reached(c)' = d
    BY <1>1, <2>1 DEF IInv, TypeOK, Reached
  <2> HIDE DEF g, d
  <2>5. CursorFollows(c)'
    BY <1>1, <1>3, <2>2, <2>4 DEF CursorFollows
  <2>6. \A q \in Consumers \ {c} : cpc'[q] = cpc[q]
    BY <2>1 DEF IInv, TypeOK
  <2> QED
    BY <1>1, <2>1, <2>2, <2>3, <2>5, <2>6, OthersStay
<1> QED
  BY <1>2, <1>5, <1>6, <1>7

\* The slot of the frame being read, and what a changed stamp says of it.
LEMMA ReadSlot ==
    ASSUME IInv, NEW c \in Consumers, cpc[c] = "read"
    PROVE  /\ Slot(D[c]) \in Slots /\ D[c] = LaneOf(Reached(c))
           /\ gen[Slot(D[c])] # seq1[c] => Reached(c) + Capacity <= published
<1> DEFINE d == Reached(c)
<1>1. /\ D[c] = LaneOf(d) /\ d \in 0 .. published - 1 /\ d \in Numbers
      /\ seq1[c] = StampOf(2 * d)
  BY Cursors, Counters DEF CursorFollows
<1>2. d \in 0 - Capacity .. published - 1 /\ published \in Nat
  BY <1>1, Counters, Constants
<1>3. PICK k \in 2 * d .. 2 * pushing : Stamped(d, k)
  BY <1>2 DEF IInv, StampsFollowHistory
<1> HIDE DEF d
<1>4. gen[Slot(D[c])] # seq1[c] => k # 2 * d
  BY <1>1, <1>3 DEF Stamped
<1>5. k # 2 * d => d + Capacity <= published
  BY <1>1, <1>2, <1>3, Constants DEF Stamped
<1> QED
  BY <1>1, <1>4, <1>5, LapIsSlot DEF d

LEMMA ReadKeeps ==
    ASSUME IInv, NEW c \in Consumers, ReadLo(c) \/ ReadHi(c) \/ LoadSeq2(c)
    PROVE  IInv'
<1>1. /\ cpc[c] = "read"
      /\ UNCHANGED <<producerVars, cursors, cpc, D, seq1, passed, got>>
      /\ \/ /\ ReadLo(c) \/ ReadHi(c)
            /\ UNCHANGED seq2
            /\ \E x \in {"lo", "hi"} : unread' = [unread EXCEPT ![c] = @ \ {x}]
         \/ /\ LoadSeq2(c) /\ seq2' = [seq2 EXCEPT ![c] = gen[Slot(D[c])]]
            /\ unread' = [unread EXCEPT ![c] = @ \ {"seq2"}] /\ UNCHANGED <<outLo, outHi>>
  BY DEF ReadLo, ReadHi, LoadSeq2
<1>2. /\ Slot(D[c]) \in Slots
      /\ gen[Slot(D[c])] # seq1[c] => Reached(c) + Capacity <= published
  BY <1>1, ReadSlot
<1>3. /\ lo[Slot(D[c])] \in 0 .. MaxFrames /\ hi[Slot(D[c])] \in 0 .. MaxFrames
      /\ gen[Slot(D[c])] \in Lane
  BY <1>2 DEF IInv, TypeOK
<1>4. TypeOK'
  <2>1. CASE ReadLo(c)
    BY <1>3, <2>1 DEF ReadLo, IInv, TypeOK
  <2>2. CASE ReadHi(c)
    BY <1>3, <2>2 DEF ReadHi, IInv, TypeOK
  <2>3. CASE LoadSeq2(c)
    BY <1>3, <2>3 DEF LoadSeq2, IInv, TypeOK
  <2> QED
    BY <2>1, <2>2, <2>3
<1>5. "seq2" \notin unread'[c] /\ seq2'[c] # seq1[c] => Reached(c) + Capacity <= published
  <2>1. CASE LoadSeq2(c)
    BY <1>2, <2>1 DEF LoadSeq2, IInv, TypeOK
  <2>2. CASE UNCHANGED seq2 /\ \E x \in {"lo", "hi"} : unread' = [unread EXCEPT ![c] = @ \ {x}]
    <3>1. "seq2" \notin unread'[c] => "seq2" \notin unread[c]
      BY <2>2 DEF IInv, TypeOK
    <3> QED
      BY <1>1, <2>2, <3>1, Cursors DEF CursorFollows, Overwritten
  <2> QED
    BY <1>1, <2>1, <2>2
<1>6. CursorFollows(c)'
  BY <1>1, <1>5, Cursors DEF CursorFollows, Reached, Overwritten
<1>7. \A q \in Consumers \ {c} : seq2'[q] = seq2[q] /\ unread'[q] = unread[q]
  BY <1>1 DEF IInv, TypeOK
<1> QED
  BY <1>1, <1>4, <1>6, <1>7, OthersStay

\* The cursor passes the frame, delivered or discarded.
LEMMA FinishPullKeeps ==
    ASSUME IInv, NEW c \in Consumers, FinishPull(c)
    PROVE  IInv'
<1> DEFINE d == Reached(c)
<1>1. /\ cpc[c] = "read" /\ cpc' = [cpc EXCEPT ![c] = "idle"] /\ MoveCursor(c, Inc(D[c]))
      /\ UNCHANGED <<producerVars, call>>
  BY DEF FinishPull
<1>2. /\ d \in Nat /\ d < published /\ published \in Nat
      /\ Inc(D[c]) = LaneOf(d + 1) /\ d + 1 \in Numbers /\ d + 1 >= passed[c]
  BY <1>1, Cursors, Counters, NextFrame DEF CursorFollows
<1>3. /\ dequeuePos' \in [Consumers -> Lane] /\ passed' \in [Consumers -> Nat]
      /\ dequeuePos'[c] = LaneOf(d + 1) /\ passed'[c] = d + 1
      /\ \A q \in Consumers \ {c} :
             dequeuePos'[q] = dequeuePos[q] /\ passed'[q] = passed[q]
  BY <1>1, <1>2, CursorMoves
<1>4. got[c] \in Seq(0 .. MaxFrames) /\ dropped[c] \in Nat /\ outLo[c] \in 0 .. MaxFrames
  BY Cursors DEF IInv, TypeOK
<1>5. /\ got' \in [Consumers -> Seq(0 .. MaxFrames)] /\ dropped' \in [Consumers -> Nat]
      /\ tornGuarded' \in [Consumers -> Nat]
      /\ \A q \in Consumers \ {c} : got'[q] = got[q] /\ dropped'[q] = dropped[q]
      /\ Len(got'[c]) + dropped'[c] = d + 1
  <2>1. CASE Overwritten(c)
    <3>1. /\ dropped' = [dropped EXCEPT ![c] = @ + 1] /\ got' = got
          /\ tornGuarded' = [tornGuarded EXCEPT ![c] = @ + 1]
      BY <2>1 DEF FinishPull
    <3>2. dropped[c] + 1 \in Nat /\ tornGuarded[c] + 1 \in Nat
          /\ Len(got[c]) + (dropped[c] + 1) = d + 1
      BY <1>4 DEF IInv, TypeOK, Reached
    <3> QED
      BY <3>1, <3>2 DEF IInv, TypeOK
  <2>2. CASE ~Overwritten(c)
    <3>1. got' = [got EXCEPT ![c] = Append(@, outLo[c])] /\ UNCHANGED <<dropped, tornGuarded>>
      BY <2>2 DEF FinishPull
    <3>2. /\ Append(got[c], outLo[c]) \in Seq(0 .. MaxFrames)
          /\ Len(Append(got[c], outLo[c])) + dropped[c] = d + 1
      BY <1>4 DEF Reached
    <3> QED
      BY <3>1, <3>2 DEF IInv, TypeOK
  <2> QED
    BY <2>1, <2>2
<1>6. TypeOK'
  BY <1>1, <1>3, <1>5 DEF IInv, TypeOK
<1>7. cpc'[c] = "idle" /\ Reached(c)' = d + 1 /\ \A q \in Consumers \ {c} : cpc'[q] = cpc[q]
  BY <1>1, <1>5 DEF IInv, TypeOK, Reached
<1> HIDE DEF d
<1>8. CursorFollows(c)'
  BY <1>1, <1>2, <1>3, <1>7 DEF CursorFollows
<1> QED
  BY <1>1, <1>3, <1>5, <1>6, <1>7, <1>8, OthersStay

-------------------------------------------------------------------------------
(* Every step preserves the invariant *)

LEMMA NextIInv ==
    ASSUME IInv, [Next]_vars
    PROVE  IInv'
<1>1. CASE StartPush \/ InPush
  BY <1>1, WriteKeeps, StoreBusyKeeps, StoreCompleteKeeps DEF InPush
<1>2. CASE \E c \in Consumers : Pull(c)
  BY <1>2, StartPullKeeps, LoadSeq1Keeps, ReadKeeps, FinishPullKeeps DEF Pull
<1>3. CASE UNCHANGED vars
  <2>1. TypeOK' /\ ProducerFollowsHistory' /\ StampsFollowHistory'
    BY <1>3 DEF vars, IInv, TypeOK, ProducerFollowsHistory, StampsFollowHistory, Advanced,
       Stamped, BusyStored
  <2>2. CursorsFollowHistory'
    BY <1>3, CursorsStay DEF vars
  <2> QED
    BY <2>1, <2>2 DEF IInv
<1> QED
  BY <1>1, <1>2, <1>3 DEF Next

LEMMA Invariance == Spec => []IInv
<1>1. IInv /\ [Next]_vars => IInv'
  BY NextIInv
<1> QED
  BY <1>1, InitIInv, PTL DEF Spec

\* Every lane, stamp, cursor and local keeps its type.
THEOREM TypeCorrect == Spec => []TypeOK
<1>1. IInv => TypeOK
  BY DEF IInv
<1> QED
  BY <1>1, Invariance, PTL

\* In every build, each consumer's counters account for every ticket its cursor has
\* passed: delivered, or in dropped, once, however often the producer laps it.
THEOREM EveryLossIsCounted == Spec => []LossIsCounted
<1>1. ASSUME IInv, NEW c \in Consumers, cpc[c] = "idle"
      PROVE  /\ passed[c] = Len(got[c]) + dropped[c]
             /\ SignedDiff(dequeuePos[c], Seed) = passed[c]
  <2>1. passed[c] = Reached(c) /\ dequeuePos[c] = LaneOf(passed[c]) /\ passed[c] \in Numbers
    BY <1>1, Cursors DEF CursorFollows
  <2>2. Seed = LaneOf(0) /\ 0 \in Numbers
    BY Constants DEF LaneOf, LaneAt, Lane, Numbers
  <2>3. SignedDiff(dequeuePos[c], LaneOf(0)) = passed[c] - 0
    BY <2>1, <2>2, LaneOfDiff
  <2> QED
    BY <2>1, <2>2, <2>3 DEF Reached, Numbers
<1>2. IInv => LossIsCounted
  BY <1>1 DEF LossIsCounted
<1> QED
  BY <1>2, Invariance, PTL

-------------------------------------------------------------------------------
(* The payload: builds that keep a call's plain accesses in order *)

\* The halves of frame n are what the producer wrote.
Whole(n) == lo[Slot(LaneOf(n))] = n + 1 /\ hi[Slot(LaneOf(n))] = n + 1

\* With plain accesses in order: a push stamps Busy, then writes the halves in turn,
\* and a slot keeps its frame until the stamp says that the producer is back.
PayloadFollowsHistory ==
    /\ ppc = "write" =>
           /\ "busy" \in left => "lo" \in left
           /\ "lo" \in left => "hi" \in left
           /\ "lo" \notin left => lo[Slot(LaneOf(published))] = published + 1
           /\ "hi" \notin left => hi[Slot(LaneOf(published))] = published + 1
    /\ \A n \in 0 .. published - 1 :
           (n + Capacity > published \/ (n + Capacity = published /\ ~BusyStored))
               => Whole(n)

\* The stamp has not changed since the pull's first load of it, or had not at its second.
StandsStill(c) ==
    IF "seq2" \in unread[c] THEN gen[Slot(D[c])] = seq1[c] ELSE ~Overwritten(c)

\* What a pull has read while the slot's stamp stands still is the frame it is after.
ReadFollows(c) ==
    cpc[c] = "read" =>
        /\ "lo" \in unread[c] => "hi" \in unread[c]
        /\ "hi" \in unread[c] => "seq2" \in unread[c]
        /\ StandsStill(c) =>
              /\ "lo" \notin unread[c] => outLo[c] = Reached(c) + 1
              /\ "hi" \notin unread[c] => outHi[c] = Reached(c) + 1

ReadsFollowHistory == \A c \in Consumers : ReadFollows(c)

\* The inductive invariant of what is delivered.
WholeInv == IInv /\ PayloadFollowsHistory /\ ReadsFollowHistory

\* A slot that carries a frame's stamp carries the frame.
LEMMA StampMeansWhole ==
    ASSUME IInv, PayloadFollowsHistory, NEW n \in 0 .. published - 1,
           gen[Slot(LaneOf(n))] = StampOf(2 * n)
    PROVE  Whole(n)
<1>1. /\ n \in 0 - Capacity .. published - 1 /\ n \in Int /\ published \in Nat
      /\ pushing \in Nat /\ pushing <= MaxFrames /\ published <= MaxFrames
  BY Counters, Constants
<1>2. PICK k \in 2 * n .. 2 * pushing : Stamped(n, k)
  BY <1>1 DEF IInv, StampsFollowHistory
<1>3. k \in Stamps /\ 2 * n \in Stamps
  BY <1>1, Constants DEF Stamps
<1>4. k = 2 * n
  BY <1>2, <1>3, StampInjective DEF Stamped
<1>5. n + Capacity >= published
  BY <1>1, <1>2, <1>4, Constants DEF Stamped
<1>6. n + Capacity = published => ~BusyStored
  BY <1>1, <1>2, <1>4, Constants DEF Stamped
<1> QED
  BY <1>1, <1>5, <1>6, Constants DEF PayloadFollowsHistory

LEMMA InitWhole == Init => PayloadFollowsHistory /\ ReadsFollowHistory
  BY DEF Init, PayloadFollowsHistory, ReadsFollowHistory, ReadFollows

\* What the accesses of a push before Complete do to the payload.
LEMMA WriteKeepsWhole ==
    ASSUME WholeInv, PlainInOrder, StartPush \/ StoreBusy \/ WriteLo \/ WriteHi
    PROVE  PayloadFollowsHistory'
<1> DEFINE s == Slot(LaneOf(published))
<1>1. /\ s \in Slots /\ published \in Nat /\ published \in Numbers
      /\ published \in 0 .. MaxFrames
  BY NextSlot, Counters DEF WholeInv
<1>2. /\ lo \in [Slots -> 0 .. MaxFrames] /\ hi \in [Slots -> 0 .. MaxFrames]
  BY DEF WholeInv, IInv, TypeOK
<1>3. /\ published' = published /\ writeTicket' = writeTicket /\ ppc' = "write"
      /\ BusyStored => BusyStored'
  BY DEF StartPush, StoreBusy, WriteLo, WriteHi, BusyStored
<1>4. ASSUME NEW n \in 0 .. published - 1, n + Capacity >= published,
             n + Capacity = published => ~BusyStored'
      PROVE  Whole(n)'
  <2>1. Whole(n) /\ n \in Numbers /\ n \in Int /\ n # published /\ n + Capacity \in Int
    BY <1>1, <1>3, <1>4, Constants DEF WholeInv, PayloadFollowsHistory, Numbers
  <2>2. CASE StartPush \/ StoreBusy
    BY <2>1, <2>2 DEF StartPush, StoreBusy, Whole
  <2>3. CASE WriteLo \/ WriteHi
    <3>1. ppc = "write" /\ writeTicket = LaneOf(published) /\ BusyStored
      BY <2>3, Counters DEF WriteLo, WriteHi, BusyStored, WholeInv, PayloadFollowsHistory
    <3>2. n + Capacity # published
      BY <1>3, <1>4, <3>1
    <3>3. Slot(LaneOf(n)) # s
      BY <1>1, <1>4, <2>1, <3>2, LessThanALap, Constants
    <3>4. lo'[Slot(LaneOf(n))] = lo[Slot(LaneOf(n))]
          /\ hi'[Slot(LaneOf(n))] = hi[Slot(LaneOf(n))]
      BY <1>2, <2>1, <2>3, <3>1, <3>3, LapIsSlot DEF WriteLo, WriteHi
    <3> QED
      BY <2>1, <3>4 DEF Whole
  <2> QED
    BY <2>2, <2>3
<1>5. /\ "busy" \in left' => "lo" \in left'
      /\ "lo" \in left' => "hi" \in left'
      /\ "lo" \notin left' => lo'[s] = published + 1
      /\ "hi" \notin left' => hi'[s] = published + 1
  <2>1. CASE StartPush
    BY <2>1 DEF StartPush
  <2>2. ASSUME ~StartPush
        PROVE  /\ ppc = "write" /\ writeTicket = LaneOf(published) /\ pushing = published + 1
               /\ "busy" \in left => "lo" \in left
               /\ "lo" \in left => "hi" \in left
               /\ "lo" \notin left => lo[s] = published + 1
               /\ "hi" \notin left => hi[s] = published + 1
    BY <2>2, Counters DEF StoreBusy, WriteLo, WriteHi, WholeInv, PayloadFollowsHistory
  <2>3. CASE StoreBusy
    BY <2>1, <2>2, <2>3 DEF StoreBusy
  <2>4. CASE WriteLo
    <3>1. "busy" \notin left /\ left' = left \ {"lo"} /\ lo'[s] = published + 1 /\ hi' = hi
      BY <1>1, <1>2, <2>1, <2>2, <2>4 DEF WriteLo
    <3> QED
      BY <2>1, <2>2, <2>4, <3>1
  <2>5. CASE WriteHi
    <3>1. "busy" \notin left /\ "lo" \notin left /\ left' = left \ {"hi"}
          /\ hi'[s] = published + 1 /\ lo' = lo
      BY <1>1, <1>2, <2>1, <2>2, <2>5 DEF WriteHi
    <3> QED
      BY <2>1, <2>2, <2>5, <3>1
  <2> QED
    BY <2>1, <2>3, <2>4, <2>5
<1>6. ASSUME NEW n \in 0 .. published' - 1,
             n + Capacity > published' \/ (n + Capacity = published' /\ ~BusyStored')
      PROVE  Whole(n)'
  BY <1>1, <1>3, <1>4, <1>6, Constants
<1> QED
  BY <1>3, <1>5, <1>6 DEF PayloadFollowsHistory

\* Complete publishes the frame just written, whole.
LEMMA CompleteKeepsWhole ==
    ASSUME WholeInv, StoreComplete
    PROVE  PayloadFollowsHistory'
<1>1. /\ published \in Nat /\ published' = published + 1 /\ ppc = "write" /\ ppc' = "advance"
      /\ left = {} /\ BusyStored /\ lo' = lo /\ hi' = hi
  BY Counters DEF StoreComplete, WholeInv, BusyStored
<1>2. Whole(published)
  BY <1>1 DEF WholeInv, PayloadFollowsHistory, Whole
<1>3. ASSUME NEW n \in 0 .. published, n + Capacity >= published + 1
      PROVE  Whole(n)
  <2>1. CASE n = published
    BY <1>2, <2>1
  <2>2. CASE n # published
    <3>1. n \in 0 .. published - 1 /\ n + Capacity > published
      BY <1>1, <1>3, <2>2, Constants
    <3> QED
      BY <3>1 DEF WholeInv, PayloadFollowsHistory
  <2> QED
    BY <2>1, <2>2
<1>4. ASSUME NEW n \in 0 .. published' - 1,
             n + Capacity > published' \/ (n + Capacity = published' /\ ~BusyStored')
      PROVE  Whole(n)'
  <2>1. n \in 0 .. published /\ n + Capacity >= published + 1
    BY <1>1, <1>4, Constants
  <2>2. Whole(n)
    BY <1>3, <2>1
  <2> QED
    BY <1>1, <2>2 DEF Whole
<1> QED
  BY <1>1, <1>4 DEF PayloadFollowsHistory

\* The producer never puts back a stamp that a pull is reading under.
LEMMA ProducerKeepsReads ==
    ASSUME WholeInv, StartPush \/ InPush
    PROVE  ReadsFollowHistory'
<1> SUFFICES ASSUME NEW c \in Consumers, cpc[c] = "read", StandsStill(c)' PROVE StandsStill(c)
  <2>1. UNCHANGED consumerVars
    BY DEF StartPush, InPush, StoreBusy, WriteLo, WriteHi, StoreComplete, AdvanceTicket
  <2> QED
    BY <2>1 DEF WholeInv, ReadsFollowHistory, ReadFollows, Reached
<1>1. UNCHANGED consumerVars
  BY DEF StartPush, InPush, StoreBusy, WriteLo, WriteHi, StoreComplete, AdvanceTicket
<1>2. IInv
  BY DEF WholeInv
<1>3. /\ seq1[c] = StampOf(2 * Reached(c)) /\ Reached(c) \in 0 .. published - 1
      /\ 2 * Reached(c) \in Stamps /\ Slot(D[c]) \in Slots
  BY <1>2, Cursors, Counters, ReadSlot, Constants, SMTT(30) DEF CursorFollows, Stamps
<1>4. CASE StoreBusy \/ StoreComplete
  <2>1. /\ published \in 0 .. MaxFrames - 1 /\ writeTicket = LaneOf(published)
        /\ published \in Numbers
    BY <1>2, <1>4, Counters DEF StoreBusy, StoreComplete
  <2>2. PICK x \in Int : /\ x \in {2 * published, 2 * published + 1}
                         /\ gen' = [gen EXCEPT ![Slot(writeTicket)] = StampOf(x)]
    BY <1>4, <2>1, BusyIs, CompleteIs DEF StoreBusy, StoreComplete
  <2>3. x \in Stamps /\ x # 2 * Reached(c)
    BY <1>3, <2>1, <2>2, Constants DEF Stamps
  <2>4. StampOf(x) # seq1[c]
    BY <1>3, <2>3, StampInjective
  <2>5. gen'[Slot(D[c])] = seq1[c] => gen[Slot(D[c])] = seq1[c]
    BY <1>2, <1>3, <2>2, <2>4 DEF IInv, TypeOK
  <2> QED
    BY <1>1, <2>5 DEF StandsStill, Overwritten
<1>5. CASE ~(StoreBusy \/ StoreComplete)
  <2>1. gen' = gen
    BY <1>5 DEF StartPush, InPush, WriteLo, WriteHi, AdvanceTicket
  <2> QED
    BY <1>1, <2>1 DEF StandsStill, Overwritten
<1> QED
  BY <1>4, <1>5

\* A pull that has read nothing, or is over, has nothing to answer for; another
\* consumer's pull stays as it is.
LEMMA PullKeepsReads ==
    ASSUME WholeInv, PlainInOrder, NEW c \in Consumers, Pull(c)
    PROVE  ReadsFollowHistory'
<1>1. IInv /\ PayloadFollowsHistory /\ UNCHANGED producerVars
  BY DEF WholeInv, Pull, StartPull, LoadSeq1, ReadLo, ReadHi, LoadSeq2, FinishPull
<1>2. ASSUME NEW q \in Consumers, q # c PROVE ReadFollows(q)'
  <2>1. /\ got'[q] = got[q] /\ dropped'[q] = dropped[q] /\ cpc'[q] = cpc[q]
        /\ D'[q] = D[q] /\ seq1'[q] = seq1[q] /\ seq2'[q] = seq2[q]
        /\ unread'[q] = unread[q] /\ outLo'[q] = outLo[q] /\ outHi'[q] = outHi[q]
    <3>1. CASE StartPull(c)
      BY <1>2, <3>1 DEF StartPull, WholeInv, IInv, TypeOK
    <3>2. CASE LoadSeq1(c)
      BY <1>2, <3>2 DEF LoadSeq1, WholeInv, IInv, TypeOK
    <3>3. CASE ReadLo(c) \/ ReadHi(c) \/ LoadSeq2(c)
      BY <1>2, <3>3 DEF ReadLo, ReadHi, LoadSeq2, WholeInv, IInv, TypeOK
    <3>4. CASE FinishPull(c)
      BY <1>2, <3>4 DEF FinishPull, WholeInv, IInv, TypeOK
    <3> QED
      BY <3>1, <3>2, <3>3, <3>4 DEF Pull
  <2> QED
    BY <1>1, <2>1 DEF WholeInv, ReadsFollowHistory, ReadFollows, StandsStill, Overwritten,
       Reached
<1>3. ReadFollows(c)'
  <2>1. CASE StartPull(c) \/ FinishPull(c)
    BY <2>1 DEF StartPull, FinishPull, ReadFollows, WholeInv, IInv, TypeOK
  <2>2. CASE LoadSeq1(c)
    <3>1. cpc'[c] = "read" => unread'[c] = {"lo", "hi", "seq2"}
      BY <2>2 DEF LoadSeq1, WholeInv, IInv, TypeOK
    <3> QED
      BY <3>1 DEF ReadFollows
  <2>3. CASE ReadLo(c) \/ ReadHi(c) \/ LoadSeq2(c)
    <3> DEFINE d == Reached(c)
               s == Slot(D[c])
    <3>1. /\ cpc[c] = "read" /\ D[c] = LaneOf(d) /\ d \in 0 .. published - 1
          /\ seq1[c] = StampOf(2 * d) /\ s = Slot(LaneOf(d))
          /\ UNCHANGED <<producerVars, cursors, cpc, D, seq1, passed, got>>
      BY <1>1, <2>3, Cursors, Counters DEF CursorFollows, ReadLo, ReadHi, LoadSeq2
    <3>2. gen[s] = seq1[c] => lo[s] = d + 1 /\ hi[s] = d + 1
      BY <1>1, <3>1, StampMeansWhole DEF Whole
    <3>3. Reached(c)' = d
      BY <3>1 DEF Reached
    <3>4. ReadFollows(c)
      BY DEF WholeInv, ReadsFollowHistory
    <3> HIDE DEF d, s
    <3>5. CASE ReadLo(c)
      <4>1. /\ outLo'[c] = lo[s] /\ unread'[c] = unread[c] \ {"lo"}
            /\ outHi' = outHi /\ seq2' = seq2 /\ "lo" \in unread[c]
        BY <3>5 DEF ReadLo, WholeInv, IInv, TypeOK, s
      <4> QED
        BY <3>1, <3>2, <3>3, <3>4, <4>1 DEF ReadFollows, StandsStill, Overwritten, s
    <3>6. CASE ReadHi(c)
      <4>1. /\ outHi'[c] = hi[s] /\ unread'[c] = unread[c] \ {"hi"}
            /\ outLo' = outLo /\ seq2' = seq2 /\ "hi" \in unread[c] /\ "lo" \notin unread[c]
        BY <3>6 DEF ReadHi, WholeInv, IInv, TypeOK, s
      <4> QED
        BY <3>1, <3>2, <3>3, <3>4, <4>1 DEF ReadFollows, StandsStill, Overwritten, s, d
    <3>7. CASE LoadSeq2(c)
      <4>1. /\ seq2'[c] = gen[s] /\ unread'[c] = {} /\ unread[c] = {"seq2"}
            /\ outLo' = outLo /\ outHi' = outHi
        BY <3>7 DEF LoadSeq2, WholeInv, IInv, TypeOK, s
      <4> QED
        BY <3>1, <3>2, <3>3, <3>4, <4>1 DEF ReadFollows, StandsStill, Overwritten, s, d
    <3> QED
      BY <2>3, <3>5, <3>6, <3>7
  <2> QED
    BY <2>1, <2>2, <2>3 DEF Pull
<1> QED
  BY <1>2, <1>3 DEF ReadsFollowHistory

LEMMA NextWhole ==
    ASSUME WholeInv, PlainInOrder, [Next]_vars
    PROVE  WholeInv'
<1>1. IInv'
  BY NextIInv DEF WholeInv
<1>2. CASE StartPush \/ InPush
  <2>1. ASSUME AdvanceTicket PROVE PayloadFollowsHistory'
    <3>1. UNCHANGED <<slots, published>> /\ ppc' = "idle" /\ ppc = "advance"
      BY <2>1 DEF AdvanceTicket
    <3>2. ~BusyStored /\ ~BusyStored' /\ \A n \in 0 .. published - 1 : Whole(n)' <=> Whole(n)
      BY <3>1 DEF BusyStored, Whole
    <3> QED
      BY <3>1, <3>2 DEF WholeInv, PayloadFollowsHistory
  <2>2. PayloadFollowsHistory'
    BY <1>2, <2>1, WriteKeepsWhole, CompleteKeepsWhole DEF InPush
  <2> QED
    BY <1>1, <1>2, <2>2, ProducerKeepsReads DEF WholeInv
<1>3. ASSUME NEW c \in Consumers, Pull(c) PROVE WholeInv'
  <2>1. UNCHANGED producerVars
    BY <1>3 DEF Pull, StartPull, LoadSeq1, ReadLo, ReadHi, LoadSeq2, FinishPull
  <2>2. PayloadFollowsHistory'
    BY <2>1 DEF WholeInv, PayloadFollowsHistory, Whole, BusyStored
  <2> QED
    BY <1>1, <1>3, <2>2, PullKeepsReads DEF WholeInv
<1>4. CASE UNCHANGED vars
  BY <1>1, <1>4 DEF vars, WholeInv, PayloadFollowsHistory, Whole, BusyStored,
     ReadsFollowHistory, ReadFollows, StandsStill, Overwritten, Reached
<1> QED
  BY <1>2, <1>3, <1>4 DEF Next

LEMMA WholeInvariance ==
    ASSUME PlainInOrder
    PROVE  Spec => []WholeInv
<1>1. WholeInv /\ [Next]_vars => WholeInv'
  BY NextWhole
<1>2. Init => WholeInv
  BY InitIInv, InitWhole DEF WholeInv
<1> QED
  BY <1>1, <1>2, PTL DEF Spec

\* In a build that keeps plain accesses in order, a pull that passes the re-read has
\* both halves of exactly the frame it is after, wherever the producer lapped it.
THEOREM FramesAreWhole ==
    ASSUME PlainInOrder
    PROVE  Spec => []NeverTorn
<1>1. ASSUME WholeInv, NEW c \in Consumers, cpc[c] = "read", unread[c] = {}, ~Overwritten(c)
      PROVE  outLo[c] = Wanted(c) /\ outHi[c] = Wanted(c)
  <2>1. /\ D[c] = LaneOf(Reached(c)) /\ dequeuePos[c] = LaneOf(passed[c])
        /\ Reached(c) \in Numbers /\ passed[c] \in Numbers
    BY <1>1, Cursors DEF WholeInv, CursorFollows
  <2>2. SignedDiff(D[c], dequeuePos[c]) = Reached(c) - passed[c]
    BY <2>1, LaneOfDiff
  <2>3. Wanted(c) = Reached(c) + 1
    BY <2>1, <2>2, Constants DEF Wanted, Numbers
  <2> QED
    BY <1>1, <2>3 DEF WholeInv, ReadsFollowHistory, ReadFollows, StandsStill
<1>2. WholeInv => NeverTorn
  BY <1>1 DEF NeverTorn
<1> QED
  BY <1>2, WholeInvariance, PTL

-------------------------------------------------------------------------------
(* The broadcast log *)

LEMMA InitSimulates == Init => Log!Init
  BY DEF Init, Log!Init

\* The cursor's move past lapped frames, or to where it is.
LEMMA MoveSimulates ==
    ASSUME IInv, NEW c \in Consumers, NEW n \in Numbers, MoveCursor(c, LaneOf(n)),
           n >= passed[c], n <= MaxFrames, n > passed[c] => n + Capacity <= published + 1,
           UNCHANGED <<published, got>>
    PROVE  [Log!Next]_<<published, passed, got>>
<1>1. passed' = [passed EXCEPT ![c] = n]
  BY CursorMoves
<1>2. passed[c] \in 0 .. MaxFrames /\ n \in Int /\ passed \in [Consumers -> Nat]
  BY Cursors, Constants DEF Numbers, IInv, TypeOK
<1>3. CASE n = passed[c]
  <2>1. passed' = passed
    BY <1>1, <1>2, <1>3
  <2> QED
    BY <2>1
<1>4. CASE n # passed[c]
  <2> DEFINE k == n - passed[c]
  <2>1. k \in 1 .. MaxFrames /\ passed[c] + k = n /\ n + Capacity <= published + 1
    BY <1>2, <1>4, Constants
  <2> HIDE DEF k
  <2>2. Log!PassOver(c, k)
    BY <1>1, <2>1 DEF Log!PassOver, Log!Lapped
  <2> QED
    BY <2>1, <2>2 DEF Log!Next
<1> QED
  BY <1>3, <1>4

LEMMA FinishSimulates ==
    ASSUME WholeInv, NEW c \in Consumers, FinishPull(c)
    PROVE  [Log!Next]_<<published, passed, got>>
<1> DEFINE d == Reached(c)
<1>1. /\ cpc[c] = "read" /\ unread[c] = {} /\ MoveCursor(c, Inc(D[c])) /\ published' = published
  BY DEF FinishPull
<1>2. IInv /\ ReadFollows(c)
  BY DEF WholeInv, ReadsFollowHistory
<1>3. /\ d \in Nat /\ d < published /\ published \in 0 .. MaxFrames
      /\ passed[c] < d => d + Capacity <= published
      /\ passed[c] \in 0 .. MaxFrames /\ passed[c] <= d
      /\ Overwritten(c) => d + Capacity <= published
      /\ Inc(D[c]) = LaneOf(d + 1) /\ d + 1 \in Numbers /\ d + 1 >= passed[c]
  BY <1>1, <1>2, Cursors, Counters, NextFrame DEF CursorFollows
<1>4. passed' = [passed EXCEPT ![c] = d + 1]
  BY <1>1, <1>2, <1>3, CursorMoves
<1>5. CASE Overwritten(c)
  <2>1. got' = got
    BY <1>5 DEF FinishPull
  <2> HIDE DEF d
  <2>2. d + 1 <= MaxFrames /\ (d + 1) + Capacity <= published + 1
    BY <1>3, <1>5, Constants
  <2> QED
    BY <1>1, <1>2, <1>3, <2>1, <2>2, MoveSimulates
<1>6. CASE ~Overwritten(c)
  <2>1. outLo[c] = d + 1
    BY <1>1, <1>2, <1>6 DEF ReadFollows, StandsStill
  <2>2. got' = [got EXCEPT ![c] = Append(@, d + 1)]
    BY <1>6, <2>1 DEF FinishPull
  <2> DEFINE k == d - passed[c]
  <2> HIDE DEF d
  <2>3. k \in 0 .. MaxFrames /\ passed[c] + k = d /\ passed[c] + k + 1 = d + 1
        /\ (k > 0 => d + Capacity <= published + 1)
    BY <1>3, Constants
  <2> HIDE DEF k
  <2>4. Log!Read(c, k)
    BY <1>1, <1>3, <1>4, <2>2, <2>3 DEF Log!Read, Log!Lapped
  <2> QED
    BY <2>3, <2>4 DEF Log!Next
<1> QED
  BY <1>5, <1>6

LEMMA StepSimulates ==
    ASSUME WholeInv, [Next]_vars
    PROVE  [Log!Next]_<<published, passed, got>>
<1>1. CASE StartPush \/ InPush
  <2>1. CASE StoreComplete
    BY <2>1 DEF StoreComplete, Log!Next, Log!Extend
  <2>2. CASE ~StoreComplete
    BY <1>1, <2>2 DEF StartPush, InPush, StoreBusy, WriteLo, WriteHi, AdvanceTicket
  <2> QED
    BY <2>1, <2>2
<1>2. ASSUME NEW c \in Consumers, StartPull(c) \/ ReadLo(c) \/ ReadHi(c) \/ LoadSeq2(c)
      PROVE  UNCHANGED <<published, passed, got>>
  BY <1>2 DEF StartPull, ReadLo, ReadHi, LoadSeq2
<1>3. ASSUME NEW c \in Consumers, LoadSeq1(c)
      PROVE  [Log!Next]_<<published, passed, got>>
  <2> DEFINE g == Gate(gen[Slot(D[c])], D[c])
             d == Reached(c)
  <2>1. IInv /\ cpc[c] = "loadGen" /\ UNCHANGED <<published, got>>
    BY <1>3 DEF LoadSeq1, WholeInv
  <2>2. /\ g \in Int /\ (g >= 2 => d + Capacity <= published)
        /\ D[c] = LaneOf(d) /\ d \in 0 .. published /\ d \in Numbers
        /\ passed[c] <= d /\ published \in 0 .. MaxFrames
        /\ passed[c] < d => d + Capacity <= published
    BY <2>1, GateSays, Cursors, Counters DEF CursorFollows
  <2>3. CASE g = 0
    BY <1>3, <2>1, <2>2, <2>3 DEF LoadSeq1
  <2>4. CASE g >= 2
    <3>1. MoveCursor(c, Inc(D[c]))
      BY <1>3, <2>2, <2>4 DEF LoadSeq1
    <3>2. d < published
      BY <2>2, <2>4, Constants
    <3>3. Inc(D[c]) = LaneOf(d + 1) /\ d + 1 \in Numbers /\ d + 1 >= passed[c]
      BY <2>1, <3>2, NextFrame
    <3> HIDE DEF g, d
    <3>4. d + 1 <= MaxFrames /\ (d + 1) + Capacity <= published + 1
      BY <2>2, <2>4, <3>2, Constants
    <3> QED
      BY <2>1, <3>1, <3>3, <3>4, MoveSimulates
  <2>5. CASE g < 2 /\ g # 0
    <3>1. MoveCursor(c, LaneOf(d))
      BY <1>3, <2>2, <2>5 DEF LoadSeq1
    <3> HIDE DEF g, d
    <3>2. d <= MaxFrames /\ (d > passed[c] => d + Capacity <= published + 1)
      <4>1. passed[c] \in Nat
        BY DEF WholeInv, IInv, TypeOK
      <4> QED
        BY <2>2, <4>1, Constants
    <3> QED
      BY <2>1, <2>2, <3>1, <3>2, MoveSimulates
  <2> QED
    BY <2>2, <2>3, <2>4, <2>5
<1>4. ASSUME NEW c \in Consumers, FinishPull(c)
      PROVE  [Log!Next]_<<published, passed, got>>
  BY <1>4, FinishSimulates
<1>5. CASE UNCHANGED vars
  BY <1>5 DEF vars
<1> QED
  BY <1>1, <1>2, <1>3, <1>4, <1>5 DEF Next, Pull

\* In a build that keeps plain accesses in order, the ring is a broadcast log: each
\* consumer gets the frames in order, whole, and misses lapped frames only, and none
\* has any effect on the producer or on another consumer.
THEOREM RefinesBroadcastLog ==
    ASSUME PlainInOrder
    PROVE  Spec => ImplementsBroadcastLog
<1>1. WholeInv /\ [Next]_vars => [Log!Next]_<<published, passed, got>>
  BY StepSimulates
<1> QED
  BY <1>1, InitSimulates, WholeInvariance, PTL DEF Spec, ImplementsBroadcastLog, Log!Spec
===============================================================================
