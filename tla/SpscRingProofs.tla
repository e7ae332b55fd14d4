---------------------------- MODULE SpscRingProofs ----------------------------
(***************************************************************************)
(* Proofs about SpscRing for every capacity, policy, notify mode, seed and  *)
(* history shorter than half a wrap of the index lanes.  The lanes are      *)
(* related to the history's unwrapped counters (LaneOf), a live frame's     *)
(* slot is shown to be written by nobody, and a consumer's snapshot of      *)
(* read_index is shown to be worth something exactly while the lane still   *)
(* holds it, which is what the compareExchange tests.                       *)
(***************************************************************************)
EXTENDS SpscRing, LaneTheorems

\* The tuples of variables are abbreviations only: every step may see through them.
USE DEF lanes, payload, parking, sabVars, pCall, pCounts, producerVars, cCall, cResult,
    consumerVars, historyVars, Policy

\* A lane of this ring that has moved n times.
LaneOf(n) == LaneAt(Seed, n)

Pulling == {"loadWrite", "readLo", "readHi", "commit"}
Snapped == {"readLo", "readHi", "commit"}
Opened == {"evict", "evictReload", "recheck", "writeLo", "writeHi", "publish"}
Waiting == {"waitLoad", "announce", "park", "parked"}

\* Number, in the history, of the frame a pull is about to take.
Taken == freed + SignedDiff(Beyond, cRead)

LanesFollowHistory ==
    /\ writeIdx = LaneOf(Len(sent))
    /\ readIdx = LaneOf(freed)
    /\ Unread \in 0 .. Capacity

OffersBoundHistory ==
    /\ Len(sent) <= offered
    /\ ppc \in Opened => Len(sent) < offered
    /\ ppc \in Waiting /\ pOp # "waitForSpace" => Len(sent) < offered
    /\ ppc = "recheck" => pOp # "waitForSpace"

ProducerHasRoom ==
    /\ ppc = "evict" => pAttempt = 0 /\ Len(sent) >= Capacity
                        /\ pRead = LaneOf(Len(sent) - Capacity)
    /\ ppc = "evictReload" => pAttempt = 0 /\ Unread < Capacity
    /\ ppc \in {"evict", "evictReload"} => OverrunAware
    /\ ppc \in {"writeLo", "writeHi", "publish"} => Unread < Capacity

SlotsHoldHistory ==
    /\ \A n \in freed + 1 .. Len(sent) :
           /\ lo[Slot(LaneOf(n - 1))] = sent[n]
           /\ hi[Slot(LaneOf(n - 1))] = sent[n]
    /\ ppc \in {"writeHi", "publish"} => lo[Slot(writeIdx)] = offered
    /\ ppc = "publish" => hi[Slot(writeIdx)] = offered

SnapshotIsOld ==
    /\ cpc \in Pulling => \E k \in 0 .. freed : cRead = LaneOf(k)
    /\ cpc \in Pulling /\ ~OverrunAware => cRead = readIdx

SnapshotIsGood ==
    cpc \in Snapped /\ cRead = readIdx =>
        \E m \in freed + 1 .. Len(sent) : cWrite = LaneOf(m)

ReadIsWhole ==
    /\ cpc \in {"readHi", "commit"} /\ cRead = readIdx => outLo = sent[Taken]
    /\ cpc = "commit" /\ cRead = readIdx => outHi = sent[Taken]

TriesBounded ==
    cpc \in Pulling \cup {"loadRead"} => cAttempt <= Capacity /\ cOp \in PullOps

\* The inductive invariant.
IInv ==
    /\ TypeOK
    /\ LanesFollowHistory
    /\ OffersBoundHistory
    /\ ProducerHasRoom
    /\ SlotsHoldHistory
    /\ SnapshotIsOld
    /\ SnapshotIsGood
    /\ ReadIsWhole
    /\ TriesBounded
    /\ SampleInRange

-------------------------------------------------------------------------------
(* Lanes and slots *)

\* The constants' facts in the form the arithmetic below uses them.
LEMMA Constants ==
    /\ Capacity \in Nat /\ Capacity >= 1
    /\ Modulus \in Nat /\ 2 * Capacity < Modulus /\ 2 * MaxFrames < Modulus
    /\ MaxFrames \in Nat
    /\ Half \in Nat /\ 2 * Half = Modulus
    /\ Seed \in 0 .. Modulus - 1
  BY LaneAssumption, SpscAssumption DEF Lane, Half

\* The counters of a history stay in the range LaneTheorems speaks of.
LEMMA LaneOfType == \A n \in 0 .. MaxFrames : LaneOf(n) \in Lane
  BY Constants, LaneAtType DEF LaneOf, Lane

LEMMA LaneOfInc == \A n \in 0 .. MaxFrames : Inc(LaneOf(n)) = LaneOf(n + 1)
  BY Constants, LaneAtInc DEF LaneOf, Lane

LEMMA LaneOfDec == \A n \in 1 .. MaxFrames : Dec(LaneOf(n)) = LaneOf(n - 1)
  BY Constants, LaneAtDec DEF LaneOf, Lane

LEMMA LaneOfDiff ==
    \A a, b \in 0 .. MaxFrames : SignedDiff(LaneOf(a), LaneOf(b)) = a - b
<1> TAKE a, b \in 0 .. MaxFrames
<1>1. /\ 0 - Half < a /\ a < Half /\ 0 - Half < b /\ b < Half
      /\ a - b < Half /\ b - a < Half /\ a \in Int /\ b \in Int /\ Seed \in Lane
  BY Constants DEF Lane
<1> QED
  BY <1>1, LaneAtDiff DEF LaneOf

LEMMA LaneOfInjective ==
    \A a, b \in 0 .. MaxFrames : LaneOf(a) = LaneOf(b) => a = b
  BY Constants, LaneAtInjective DEF LaneOf, Lane

LEMMA LaneSlotsDiffer ==
    ASSUME NEW a \in 0 .. MaxFrames, NEW b \in 0 .. MaxFrames,
           a < b, b - a < Capacity
    PROVE  Slot(LaneOf(a)) # Slot(LaneOf(b))
  BY Constants, SlotsDiffer DEF LaneOf, Lane

-------------------------------------------------------------------------------
(* What the invariant says of the two threads' snapshots *)

\* The history's counters stay in the range the lane lemmas speak of, and the
\* producer's capacity check is one about the frames really unread.
LEMMA Counters ==
    ASSUME IInv
    PROVE  /\ Len(sent) \in 0 .. MaxFrames /\ freed \in 0 .. Len(sent)
           /\ freed \in 0 .. MaxFrames
           /\ SignedDiff(writeIdx, readIdx) = Unread
           /\ Full(writeIdx, readIdx) <=> Unread = Capacity
<1>1. Len(sent) \in 0 .. MaxFrames /\ freed \in 0 .. Len(sent) /\ freed \in 0 .. MaxFrames
  BY Constants DEF IInv, TypeOK, LanesFollowHistory, OffersBoundHistory, Unread,
     FrameOrTorn
<1>2. SignedDiff(writeIdx, readIdx) = Unread
  BY <1>1, LaneOfDiff DEF IInv, LanesFollowHistory, Unread
<1> QED
  BY <1>1, <1>2, Constants DEF Full, IInv, LanesFollowHistory, Unread

\* A snapshot that read_index still matches points at unread frames: the frame
\* wanted is in its slot and the new read_index is inside the history.
LEMMA GoodSnapshot ==
    ASSUME IInv, cpc \in Snapped, cRead = readIdx
    PROVE  /\ Taken \in freed + 1 .. Len(sent)
           /\ Wanted = LaneOf(Taken - 1) /\ Beyond = LaneOf(Taken)
           /\ SignedDiff(Wanted, cRead) = Taken - 1 - freed
           /\ SignedDiff(cWrite, cRead) \in 0 .. Capacity
<1>1. PICK m \in freed + 1 .. Len(sent) : cWrite = LaneOf(m)
  BY DEF IInv, SnapshotIsGood
<1>2. /\ freed \in 0 .. MaxFrames /\ m \in 1 .. MaxFrames /\ freed + 1 \in 1 .. MaxFrames
      /\ m - 1 \in 0 .. MaxFrames /\ m <= Len(sent) /\ freed < m /\ Len(sent) \in Nat
      /\ Len(sent) - freed <= Capacity
  BY Counters, Constants, <1>1 DEF IInv, LanesFollowHistory, Unread
<1>3. cRead = LaneOf(freed)
  BY DEF IInv, LanesFollowHistory
<1>4. SignedDiff(cWrite, cRead) = m - freed
  BY <1>1, <1>2, <1>3, LaneOfDiff
<1>5. CASE cOp = "pullLatest"
  <2>1. Beyond = LaneOf(m) /\ Wanted = LaneOf(m - 1)
    BY <1>1, <1>2, <1>5, LaneOfDec DEF Beyond, Wanted
  <2>2. SignedDiff(Beyond, cRead) = m - freed /\ SignedDiff(Wanted, cRead) = m - 1 - freed
    BY <1>2, <1>3, <2>1, LaneOfDiff
  <2>3. Taken = m
    BY <1>2, <2>2 DEF Taken
  <2> QED
    BY <1>2, <1>4, <2>1, <2>2, <2>3, Constants
<1>6. CASE cOp # "pullLatest"
  <2>1. Beyond = LaneOf(freed + 1) /\ Wanted = LaneOf(freed)
    BY <1>2, <1>3, <1>6, LaneOfInc DEF Beyond, Wanted
  <2>2. SignedDiff(Beyond, cRead) = 1 /\ SignedDiff(Wanted, cRead) = 0
    BY <1>2, <1>3, <2>1, LaneOfDiff
  <2>3. Taken = freed + 1
    BY <1>2, <2>2 DEF Taken
  <2> QED
    BY <1>2, <1>4, <2>1, <2>2, <2>3, Constants
<1> QED
  BY <1>5, <1>6

\* The slot the producer writes is no unread frame's slot.
LEMMA WriteSlotIsFree ==
    ASSUME IInv, ppc \in {"writeLo", "writeHi", "publish"}
    PROVE  /\ Slot(writeIdx) \in Slots
           /\ \A n \in freed + 1 .. Len(sent) : Slot(LaneOf(n - 1)) # Slot(writeIdx)
<1>1. Slot(writeIdx) \in Slots
  BY SlotDivision, Constants DEF IInv, TypeOK, Lane
<1>2. ASSUME NEW n \in freed + 1 .. Len(sent)
      PROVE  Slot(LaneOf(n - 1)) # Slot(writeIdx)
  <2>1. /\ n - 1 \in 0 .. MaxFrames /\ Len(sent) \in 0 .. MaxFrames
        /\ n - 1 < Len(sent) /\ Len(sent) - (n - 1) < Capacity
    BY Counters, Constants DEF IInv, ProducerHasRoom, LanesFollowHistory, Unread
  <2> QED
    BY <2>1, LaneSlotsDiffer DEF IInv, LanesFollowHistory
<1> QED
  BY <1>1, <1>2

-------------------------------------------------------------------------------
(* Preservation, the four steps that move a lane or a payload half first *)

\* The slot a pull reads is a slot.
LEMMA WantedSlot == TypeOK => Slot(Wanted) \in Slots
<1>1. TypeOK => Wanted \in Nat
  BY Constants DEF TypeOK, Wanted, Dec, Lane
<1> QED
  BY <1>1, SlotDivision

\* Whatever a racing pull copies out of a slot is a frame or a stale half of one.
LEMMA ReadLoType == TypeOK /\ ReadLo => TypeOK'
<1> SUFFICES ASSUME TypeOK, ReadLo PROVE TypeOK'
  OBVIOUS
<1>1. lo[Slot(Wanted)] \in FrameOrTorn
  BY WantedSlot DEF TypeOK
<1> QED
  BY <1>1 DEF TypeOK, ReadLo, ConsumerPcs

LEMMA ReadHiType == TypeOK /\ ReadHi => TypeOK'
<1> SUFFICES ASSUME TypeOK, ReadHi PROVE TypeOK'
  OBVIOUS
<1>1. hi[Slot(Wanted)] \in FrameOrTorn
  BY WantedSlot DEF TypeOK
<1> QED
  BY <1>1 DEF TypeOK, ReadHi, ConsumerPcs

\* StartPush that chooses to evict has seen the true read_index of a full ring.
LEMMA StartPushKeepsRoom ==
    ASSUME IInv, NEW op \in {"push", "beginPush"}, StartPush(op)
    PROVE  ProducerHasRoom'
<1>1. /\ Len(sent) \in Nat /\ freed \in Nat /\ readIdx = LaneOf(freed)
      /\ Unread <= Capacity
      /\ Full(writeIdx, readIdx) <=> Unread = Capacity
  BY Counters DEF IInv, LanesFollowHistory
<1>2. sent' = sent /\ freed' = freed /\ pRead' = readIdx /\ pAttempt' = 0 /\ opts' = opts
  BY DEF StartPush
<1>3. ppc' = "evict" => /\ Len(sent) >= Capacity /\ pRead' = LaneOf(Len(sent) - Capacity)
                        /\ OverrunAware
  <2>1. ppc' = "evict" => Unread = Capacity /\ OverrunAware
    BY <1>1 DEF StartPush, OverrunAware, Full
  <2>2. Unread = Capacity => Len(sent) >= Capacity /\ Len(sent) - Capacity = freed
    BY <1>1, Constants DEF Unread
  <2> QED
    BY <1>1, <1>2, <2>1, <2>2
<1>4. ppc' \notin {"evictReload", "writeHi", "publish"}
  BY DEF StartPush
<1>5. ppc' = "writeLo" => Unread < Capacity
  BY <1>1, Counters, Constants DEF StartPush, Full, Unread
<1> QED
  BY <1>2, <1>3, <1>4, <1>5 DEF ProducerHasRoom, OverrunAware, Unread

LEMMA EvictOldestKeeps ==
    ASSUME IInv, EvictOldest
    PROVE  IInv'
<1> USE Constants DEF IInv
<1>1. /\ Len(sent) \in 0 .. MaxFrames /\ freed \in 0 .. Len(sent) /\ freed \in 0 .. MaxFrames
      /\ Unread \in 0 .. Capacity /\ readIdx = LaneOf(freed) /\ writeIdx = LaneOf(Len(sent))
      /\ Len(sent) >= Capacity /\ pRead = LaneOf(Len(sent) - Capacity)
      /\ OverrunAware /\ pAttempt = 0 /\ Len(sent) - Capacity \in 0 .. MaxFrames
  BY Counters DEF LanesFollowHistory, ProducerHasRoom, EvictOldest
<1>2. readIdx = pRead <=> Unread = Capacity
  <2>1. readIdx = pRead <=> freed = Len(sent) - Capacity
    BY <1>1, LaneOfInjective
  <2> QED
    BY <1>1, <2>1 DEF Unread
<1>3. CASE readIdx = pRead
  <2>1. /\ freed' = freed + 1 /\ readIdx' = LaneOf(freed + 1) /\ freed + 1 \in 0 .. MaxFrames
        /\ freed + 1 <= Len(sent) /\ Unread = Capacity /\ Unread' = Capacity - 1
        /\ readIdx' \in Lane /\ pRead' = readIdx' /\ ppc' = "writeLo" /\ ppc = "evict"
    BY <1>1, <1>2, <1>3, LaneOfInc, LaneOfType DEF EvictOldest, Unread
  <2>2. UNCHANGED <<opts, writeIdx, lo, hi, spaceFlag, dataFlag, asleep, pOp, pAttempt,
     pTimedOut,
                    offered, pushed, cpc, cOp, cRead, cWrite, cAttempt, cCount, outLo,
                       outHi,
                    sample, skipped, sent, got>> /\ dropped' = dropped + 1
    BY <1>3 DEF EvictOldest
  <2>3. cpc \in Pulling => cRead # readIdx'
    BY <1>1, <2>1, LaneOfInjective DEF SnapshotIsOld
  <2>4. TypeOK'
    BY <2>1, <2>2 DEF TypeOK, ProducerPcs
  <2>5. LanesFollowHistory' /\ OffersBoundHistory' /\ ProducerHasRoom'
    BY <1>1, <2>1, <2>2 DEF LanesFollowHistory, OffersBoundHistory, ProducerHasRoom,
       Opened,
       Waiting, Unread, OverrunAware
  <2>6. SlotsHoldHistory'
    BY <1>1, <2>1, <2>2 DEF SlotsHoldHistory
  <2>7. SnapshotIsOld'
    BY <1>1, <2>1, <2>2 DEF SnapshotIsOld, OverrunAware
  <2>8. SnapshotIsGood' /\ ReadIsWhole'
    BY <2>2, <2>3 DEF SnapshotIsGood, ReadIsWhole, Pulling, Snapped
  <2>9. TriesBounded' /\ SampleInRange'
    BY <2>2 DEF TriesBounded, SampleInRange
  <2> QED
    BY <2>4, <2>5, <2>6, <2>7, <2>8, <2>9
<1>4. CASE readIdx # pRead
  <2>1. Unread < Capacity
    BY <1>1, <1>2, <1>4
  <2>2. /\ UNCHANGED <<opts, sabVars, pCall, pCounts, consumerVars, historyVars>>
        /\ ppc' = "evictReload" /\ ppc = "evict"
    BY <1>4 DEF EvictOldest
  <2>3. TypeOK'
    BY <2>2 DEF TypeOK, ProducerPcs
  <2>4. LanesFollowHistory' /\ OffersBoundHistory' /\ ProducerHasRoom'
    BY <1>1, <2>1, <2>2 DEF LanesFollowHistory, OffersBoundHistory, ProducerHasRoom,
       Opened, Waiting, Unread, OverrunAware
  <2>5. SlotsHoldHistory' /\ SnapshotIsOld' /\ SnapshotIsGood' /\ ReadIsWhole'
    BY <2>2 DEF SlotsHoldHistory, SnapshotIsOld, SnapshotIsGood, ReadIsWhole, Taken,
       Wanted, Beyond, OverrunAware
  <2>6. TriesBounded' /\ SampleInRange'
    BY <2>2 DEF TriesBounded, SampleInRange
  <2> QED
    BY <2>3, <2>4, <2>5, <2>6
<1> QED
  BY <1>3, <1>4

LEMMA PublishKeeps ==
    ASSUME IInv, Publish
    PROVE  IInv'
<1> USE Constants DEF IInv
<1>1. /\ Len(sent) \in 0 .. MaxFrames /\ freed \in 0 .. Len(sent) /\ Unread \in 0 .. Capacity - 1
      /\ writeIdx = LaneOf(Len(sent)) /\ readIdx = LaneOf(freed)
      /\ offered \in 1 .. MaxFrames /\ Len(sent) < offered /\ ppc = "publish"
      /\ sent \in Seq(1 .. MaxFrames)
  BY Counters DEF LanesFollowHistory, ProducerHasRoom, OffersBoundHistory, Opened, TypeOK,
     FrameOrTorn, Publish
<1>2. /\ UNCHANGED <<opts, readIdx, lo, hi, spaceFlag, dataFlag, asleep, pOp, pRead, pAttempt,
                     pTimedOut, offered, pushed, dropped, cpc, cOp, cRead, cWrite,
                        cAttempt,
                     cCount, outLo, outHi, sample, skipped, freed, got>>
      /\ ppc' = "notify" /\ sent' = Append(sent, offered)
  BY DEF Publish
<1>3. /\ sent' \in Seq(1 .. MaxFrames) /\ Len(sent') = Len(sent) + 1
      /\ sent'[Len(sent) + 1] = offered
      /\ \A n \in 1 .. Len(sent) : sent'[n] = sent[n]
  BY <1>1, <1>2
<1>4. writeIdx' = LaneOf(Len(sent) + 1) /\ writeIdx' \in Lane
  BY <1>1, LaneOfInc, LaneOfType DEF Publish
<1>5. TypeOK'
  BY <1>2, <1>3, <1>4 DEF TypeOK, ProducerPcs
<1>6. LanesFollowHistory' /\ OffersBoundHistory' /\ ProducerHasRoom'
  BY <1>1, <1>2, <1>3, <1>4 DEF LanesFollowHistory, OffersBoundHistory, ProducerHasRoom,
     Opened, Waiting, Unread, OverrunAware
<1>7. SlotsHoldHistory'
  <2>1. ASSUME NEW n \in freed + 1 .. Len(sent) + 1
        PROVE  lo[Slot(LaneOf(n - 1))] = sent'[n] /\ hi[Slot(LaneOf(n - 1))] = sent'[n]
    <3>1. CASE n \in freed + 1 .. Len(sent)
      BY <1>1, <1>3, <3>1 DEF SlotsHoldHistory
    <3>2. CASE n = Len(sent) + 1
      <4>1. LaneOf(n - 1) = writeIdx
        BY <1>1, <3>2
      <4> QED
        BY <1>1, <1>3, <3>2, <4>1 DEF SlotsHoldHistory
    <3> QED
      BY <1>1, <3>1, <3>2
  <2> QED
    BY <1>2, <1>3, <2>1 DEF SlotsHoldHistory
<1>8. SnapshotIsOld' /\ SnapshotIsGood'
  BY <1>1, <1>2, <1>3 DEF SnapshotIsOld, SnapshotIsGood, OverrunAware
<1>9. ReadIsWhole'
  <2>1. ASSUME cpc \in Snapped, cRead = readIdx
        PROVE  sent'[Taken] = sent[Taken]
    <3>1. Taken \in 1 .. Len(sent)
      BY <1>1, <2>1, GoodSnapshot
    <3> QED
      BY <1>3, <3>1
  <2>2. Taken' = Taken
    BY <1>2 DEF Taken, Beyond
  <2> HIDE DEF IInv
  <2> QED
    BY <1>2, <2>1, <2>2 DEF IInv, ReadIsWhole, Snapped
<1>10. TriesBounded' /\ SampleInRange'
  BY <1>2 DEF TriesBounded, SampleInRange
<1> QED
  BY <1>5, <1>6, <1>7, <1>8, <1>9, <1>10

LEMMA CommitPullKeeps ==
    ASSUME IInv, CommitPull
    PROVE  IInv'
<1> USE Constants DEF IInv
<1>1. cpc = "commit" /\ cRead = readIdx
  BY DEF CommitPull, Commits, SnapshotIsOld, Pulling
<1>2. /\ Taken \in freed + 1 .. Len(sent) /\ Beyond = LaneOf(Taken)
      /\ SignedDiff(Wanted, cRead) \in Int /\ SignedDiff(cWrite, cRead) \in 0 .. Capacity
  BY <1>1, GoodSnapshot, Counters DEF Snapped
<1>3. /\ Len(sent) \in 0 .. MaxFrames /\ freed \in 0 .. Len(sent)
      /\ Unread \in 0 .. Capacity /\ writeIdx = LaneOf(Len(sent)) /\ cOp \in PullOps
  BY <1>1, Counters DEF LanesFollowHistory, TriesBounded, Pulling
<1>4. /\ UNCHANGED <<opts, writeIdx, payload, parking, producerVars, cOp, cRead, cWrite, outLo,
                     outHi, sent>>
      /\ readIdx' = LaneOf(Taken) /\ freed' = Taken /\ cAttempt' = 0
      /\ cpc' \in {"loadRead", "notify"} /\ cCount' = cCount + 1
      /\ sample' = SignedDiff(cWrite, cRead)
      /\ skipped' = skipped + SignedDiff(Wanted, cRead)
  BY <1>2 DEF CommitPull, Taken
<1>5. Unread' \in 0 .. Capacity /\ Unread' < Unread
  BY <1>2, <1>3, <1>4 DEF Unread
<1>6. TypeOK'
  <2>1. readIdx' \in Lane /\ freed' \in Nat
    BY <1>2, <1>3, <1>4, LaneOfType
  <2>2. got' \in Seq(FrameOrTorn)
    BY DEF CommitPull, TypeOK, Torn, FrameOrTorn
  <2>3. cpc' \in ConsumerPcs /\ cCount' \in Nat /\ sample' \in Int /\ skipped' \in Int
    BY <1>2, <1>4 DEF TypeOK, ConsumerPcs
  <2> QED
    BY <1>4, <2>1, <2>2, <2>3 DEF TypeOK
<1>7. LanesFollowHistory' /\ OffersBoundHistory'
  BY <1>3, <1>4, <1>5 DEF LanesFollowHistory, OffersBoundHistory, Unread, TypeOK
<1>8. ProducerHasRoom'
  BY <1>3, <1>4, <1>5 DEF ProducerHasRoom, Unread, OverrunAware
<1>9. SlotsHoldHistory'
  BY <1>2, <1>3, <1>4 DEF SlotsHoldHistory
<1>10. SnapshotIsOld' /\ SnapshotIsGood' /\ ReadIsWhole'
  BY <1>4 DEF SnapshotIsOld, SnapshotIsGood, ReadIsWhole, Pulling, Snapped
<1>11. TriesBounded' /\ SampleInRange'
  BY <1>2, <1>3, <1>4 DEF TriesBounded, SampleInRange
<1> QED
  BY <1>6, <1>7, <1>8, <1>9, <1>10, <1>11

-------------------------------------------------------------------------------
(* Every step preserves the invariant *)

LEMMA InitIInv == Init => IInv
<1> USE Constants DEF Init
<1> SUFFICES ASSUME Init PROVE IInv
  OBVIOUS
<1>1. LaneOf(0) = Seed
  BY Constants DEF LaneOf, LaneAt
<1>2. TypeOK
  <2>1. Seed \in Lane /\ Torn \in FrameOrTorn
    BY DEF Lane, Torn, FrameOrTorn
  <2>2. lo \in [Slots -> FrameOrTorn] /\ hi \in [Slots -> FrameOrTorn]
    BY <2>1
  <2>3. sent \in Seq(1 .. MaxFrames) /\ got \in Seq(FrameOrTorn) /\ offered \in FrameOrTorn
    BY DEF FrameOrTorn
  <2>4. asleep \subseteq {"producer", "consumer"} /\ spaceFlag \in BOOLEAN
        /\ dataFlag \in BOOLEAN /\ pTimedOut \in BOOLEAN
    OBVIOUS
  <2>5. ppc \in ProducerPcs /\ cpc \in ConsumerPcs /\ cOp \in PullOps /\ pOp = "push"
    BY DEF ProducerPcs, ConsumerPcs, PullOps
  <2>6. pAttempt \in 0 .. Capacity + 1 /\ cAttempt \in 0 .. Capacity + 1
    OBVIOUS
  <2> QED
    BY <2>1, <2>2, <2>3, <2>4, <2>5, <2>6 DEF TypeOK
<1>3. LanesFollowHistory /\ OffersBoundHistory /\ ProducerHasRoom
  BY <1>1 DEF LanesFollowHistory, OffersBoundHistory, ProducerHasRoom, Opened, Waiting,
     Unread
<1>4. SlotsHoldHistory /\ SnapshotIsOld /\ SnapshotIsGood /\ ReadIsWhole
  BY DEF SlotsHoldHistory, SnapshotIsOld, SnapshotIsGood, ReadIsWhole, Pulling, Snapped
<1> QED
  BY <1>2, <1>3, <1>4 DEF IInv, TriesBounded, SampleInRange, Pulling

LEMMA NextIInv == IInv /\ [Next]_vars => IInv'
<1> SUFFICES ASSUME IInv, [Next]_vars PROVE IInv'
  OBVIOUS
<1> USE Constants DEF IInv, TypeOK, LanesFollowHistory, OffersBoundHistory,
   ProducerHasRoom, SlotsHoldHistory, SnapshotIsOld, SnapshotIsGood, ReadIsWhole,
   TriesBounded, SampleInRange, Opened, Waiting, Pulling, Snapped, PullOps,
   ProducerPcs, ConsumerPcs, FrameOrTorn, Unread, Taken, Wanted, Beyond, OverrunAware,
   AfterWait, AfterLastFrame
<1>1. ASSUME NEW op \in {"push", "beginPush"}, StartPush(op) PROVE IInv'
  <2>1. TypeOK'
    <3>1. offered' \in FrameOrTorn /\ pRead' \in Lane /\ dropped' \in Nat
      BY <1>1 DEF StartPush
    <3>2. ppc' \in ProducerPcs /\ pAttempt' \in 0 .. Capacity + 1
      BY <1>1 DEF StartPush
    <3> QED
      BY <1>1, <3>1, <3>2 DEF StartPush
  <2>2. LanesFollowHistory'
    BY <1>1, Counters DEF StartPush
  <2>3. OffersBoundHistory'
    BY <1>1, Counters DEF StartPush
  <2>4. ProducerHasRoom'
    BY <1>1, StartPushKeepsRoom
  <2>5. SlotsHoldHistory'
    BY <1>1, Counters DEF StartPush
  <2>6. SnapshotIsOld'
    BY <1>1, Counters DEF StartPush
  <2>7. SnapshotIsGood'
    BY <1>1, Counters DEF StartPush
  <2>8. ReadIsWhole'
    BY <1>1, Counters DEF StartPush
  <2>9. TriesBounded'
    BY <1>1, Counters DEF StartPush
  <2>10. SampleInRange'
    BY <1>1, Counters DEF StartPush
  <2> HIDE DEF TypeOK, LanesFollowHistory, OffersBoundHistory, ProducerHasRoom,
     SlotsHoldHistory, SnapshotIsOld, SnapshotIsGood, ReadIsWhole, TriesBounded,
        SampleInRange
  <2> QED
    BY <2>1, <2>2, <2>3, <2>4, <2>5, <2>6, <2>7, <2>8, <2>9, <2>10
<1>2. ASSUME NEW op \in PullOps, StartPull(op) PROVE IInv'
  BY <1>2 DEF StartPull
<1>3. CASE EvictOldest
  BY <1>3, EvictOldestKeeps
<1>4. CASE ReloadAfterLostCas
  <2>1. TypeOK'
    BY <1>4, Counters DEF ReloadAfterLostCas
  <2>2. LanesFollowHistory'
    BY <1>4, Counters DEF ReloadAfterLostCas
  <2>3. OffersBoundHistory'
    BY <1>4, Counters DEF ReloadAfterLostCas
  <2>4. ProducerHasRoom'
    BY <1>4, Counters DEF ReloadAfterLostCas
  <2>5. SlotsHoldHistory'
    BY <1>4, Counters DEF ReloadAfterLostCas
  <2>6. SnapshotIsOld'
    BY <1>4, Counters DEF ReloadAfterLostCas
  <2>7. SnapshotIsGood'
    BY <1>4, Counters DEF ReloadAfterLostCas
  <2>8. ReadIsWhole'
    BY <1>4, Counters DEF ReloadAfterLostCas
  <2>9. TriesBounded'
    BY <1>4, Counters DEF ReloadAfterLostCas
  <2>10. SampleInRange'
    BY <1>4, Counters DEF ReloadAfterLostCas
  <2> HIDE DEF TypeOK, LanesFollowHistory, OffersBoundHistory, ProducerHasRoom,
     SlotsHoldHistory, SnapshotIsOld, SnapshotIsGood, ReadIsWhole, TriesBounded,
        SampleInRange
  <2> QED
    BY <2>1, <2>2, <2>3, <2>4, <2>5, <2>6, <2>7, <2>8, <2>9, <2>10
<1>5. CASE WriteLo
  <2>1. TypeOK'
    BY <1>5, Counters, WriteSlotIsFree, SMTT(30) DEF WriteLo
  <2>2. LanesFollowHistory'
    BY <1>5, Counters, WriteSlotIsFree DEF WriteLo
  <2>3. OffersBoundHistory'
    BY <1>5, Counters, WriteSlotIsFree DEF WriteLo
  <2>4. ProducerHasRoom'
    BY <1>5, Counters, WriteSlotIsFree DEF WriteLo
  <2>5. SlotsHoldHistory'
    BY <1>5, Counters, WriteSlotIsFree, SMTT(30) DEF WriteLo
  <2>6. SnapshotIsOld'
    BY <1>5, Counters, WriteSlotIsFree DEF WriteLo
  <2>7. SnapshotIsGood'
    BY <1>5, Counters, WriteSlotIsFree DEF WriteLo
  <2>8. ReadIsWhole'
    BY <1>5, Counters, WriteSlotIsFree DEF WriteLo
  <2>9. TriesBounded'
    BY <1>5, Counters, WriteSlotIsFree DEF WriteLo
  <2>10. SampleInRange'
    BY <1>5, Counters, WriteSlotIsFree DEF WriteLo
  <2> HIDE DEF TypeOK, LanesFollowHistory, OffersBoundHistory, ProducerHasRoom,
     SlotsHoldHistory, SnapshotIsOld, SnapshotIsGood, ReadIsWhole, TriesBounded,
        SampleInRange
  <2> QED
    BY <2>1, <2>2, <2>3, <2>4, <2>5, <2>6, <2>7, <2>8, <2>9, <2>10
<1>6. CASE WriteHi
  <2>1. TypeOK'
    BY <1>6, Counters, WriteSlotIsFree DEF WriteHi
  <2>2. LanesFollowHistory'
    BY <1>6, Counters, WriteSlotIsFree DEF WriteHi
  <2>3. OffersBoundHistory'
    BY <1>6, Counters, WriteSlotIsFree DEF WriteHi
  <2>4. ProducerHasRoom'
    BY <1>6, Counters, WriteSlotIsFree DEF WriteHi
  <2>5. SlotsHoldHistory'
    BY <1>6, Counters, WriteSlotIsFree DEF WriteHi
  <2>6. SnapshotIsOld'
    BY <1>6, Counters, WriteSlotIsFree DEF WriteHi
  <2>7. SnapshotIsGood'
    BY <1>6, Counters, WriteSlotIsFree DEF WriteHi
  <2>8. ReadIsWhole'
    BY <1>6, Counters, WriteSlotIsFree DEF WriteHi
  <2>9. TriesBounded'
    BY <1>6, Counters, WriteSlotIsFree DEF WriteHi
  <2>10. SampleInRange'
    BY <1>6, Counters, WriteSlotIsFree DEF WriteHi
  <2> HIDE DEF TypeOK, LanesFollowHistory, OffersBoundHistory, ProducerHasRoom,
     SlotsHoldHistory, SnapshotIsOld, SnapshotIsGood, ReadIsWhole, TriesBounded,
        SampleInRange
  <2> QED
    BY <2>1, <2>2, <2>3, <2>4, <2>5, <2>6, <2>7, <2>8, <2>9, <2>10
<1>7. CASE Publish
  BY <1>7, PublishKeeps
<1>8. CASE NotifyConsumer
  BY <1>8 DEF NotifyConsumer
<1>9. CASE ProducerSeesFlag
  BY <1>9 DEF ProducerSeesFlag
<1>10. CASE WaitLoadRead
  BY <1>10 DEF WaitLoadRead
<1>11. CASE AnnounceSpaceWait
  BY <1>11 DEF AnnounceSpaceWait
<1>12. CASE ParkProducer
  <2>1. TypeOK'
    BY <1>12, ZenonT(40) DEF ParkProducer
  <2>2. LanesFollowHistory'
    BY <1>12 DEF ParkProducer
  <2>3. OffersBoundHistory'
    BY <1>12 DEF ParkProducer
  <2>4. ProducerHasRoom'
    BY <1>12 DEF ParkProducer
  <2>5. SlotsHoldHistory'
    BY <1>12 DEF ParkProducer
  <2>6. SnapshotIsOld'
    BY <1>12 DEF ParkProducer
  <2>7. SnapshotIsGood'
    BY <1>12 DEF ParkProducer
  <2>8. ReadIsWhole'
    BY <1>12 DEF ParkProducer
  <2>9. TriesBounded'
    BY <1>12 DEF ParkProducer
  <2>10. SampleInRange'
    BY <1>12 DEF ParkProducer
  <2> HIDE DEF TypeOK, LanesFollowHistory, OffersBoundHistory, ProducerHasRoom,
     SlotsHoldHistory, SnapshotIsOld, SnapshotIsGood, ReadIsWhole, TriesBounded,
        SampleInRange
  <2> QED
    BY <2>1, <2>2, <2>3, <2>4, <2>5, <2>6, <2>7, <2>8, <2>9, <2>10
<1>13. CASE ProducerResumes
  <2>1. TypeOK'
    BY <1>13, ZenonT(40) DEF ProducerResumes
  <2>2. LanesFollowHistory'
    BY <1>13 DEF ProducerResumes
  <2>3. OffersBoundHistory'
    BY <1>13 DEF ProducerResumes
  <2>4. ProducerHasRoom'
    BY <1>13 DEF ProducerResumes
  <2>5. SlotsHoldHistory'
    BY <1>13 DEF ProducerResumes
  <2>6. SnapshotIsOld'
    BY <1>13 DEF ProducerResumes
  <2>7. SnapshotIsGood'
    BY <1>13 DEF ProducerResumes
  <2>8. ReadIsWhole'
    BY <1>13 DEF ProducerResumes
  <2>9. TriesBounded'
    BY <1>13 DEF ProducerResumes
  <2>10. SampleInRange'
    BY <1>13 DEF ProducerResumes
  <2> HIDE DEF TypeOK, LanesFollowHistory, OffersBoundHistory, ProducerHasRoom,
     SlotsHoldHistory, SnapshotIsOld, SnapshotIsGood, ReadIsWhole, TriesBounded,
        SampleInRange
  <2> QED
    BY <2>1, <2>2, <2>3, <2>4, <2>5, <2>6, <2>7, <2>8, <2>9, <2>10
<1>14. CASE RecheckAfterWait
  <2>1. TypeOK'
    BY <1>14, Counters DEF RecheckAfterWait
  <2>2. LanesFollowHistory'
    BY <1>14, Counters DEF RecheckAfterWait
  <2>3. OffersBoundHistory'
    BY <1>14, Counters DEF RecheckAfterWait
  <2>4. ProducerHasRoom'
    BY <1>14, Counters DEF RecheckAfterWait
  <2>5. SlotsHoldHistory'
    BY <1>14, Counters DEF RecheckAfterWait
  <2>6. SnapshotIsOld'
    BY <1>14, Counters DEF RecheckAfterWait
  <2>7. SnapshotIsGood'
    BY <1>14, Counters DEF RecheckAfterWait
  <2>8. ReadIsWhole'
    BY <1>14, Counters DEF RecheckAfterWait
  <2>9. TriesBounded'
    BY <1>14, Counters DEF RecheckAfterWait
  <2>10. SampleInRange'
    BY <1>14, Counters DEF RecheckAfterWait
  <2> HIDE DEF TypeOK, LanesFollowHistory, OffersBoundHistory, ProducerHasRoom,
     SlotsHoldHistory, SnapshotIsOld, SnapshotIsGood, ReadIsWhole, TriesBounded,
        SampleInRange
  <2> QED
    BY <2>1, <2>2, <2>3, <2>4, <2>5, <2>6, <2>7, <2>8, <2>9, <2>10
<1>15. CASE LoadRead
  BY <1>15 DEF LoadRead
<1>16. CASE LoadWrite
  <2>1. TypeOK'
    BY <1>16, Counters DEF LoadWrite
  <2>2. LanesFollowHistory'
    BY <1>16, Counters DEF LoadWrite
  <2>3. OffersBoundHistory'
    BY <1>16, Counters DEF LoadWrite
  <2>4. ProducerHasRoom'
    BY <1>16, Counters DEF LoadWrite
  <2>5. SlotsHoldHistory'
    BY <1>16, Counters DEF LoadWrite
  <2>6. SnapshotIsOld'
    BY <1>16, Counters DEF LoadWrite
  <2>7. SnapshotIsGood'
    BY <1>16, Counters DEF LoadWrite
  <2>8. ReadIsWhole'
    BY <1>16, Counters DEF LoadWrite
  <2>9. TriesBounded'
    BY <1>16, Counters DEF LoadWrite
  <2>10. SampleInRange'
    BY <1>16, Counters DEF LoadWrite
  <2> HIDE DEF TypeOK, LanesFollowHistory, OffersBoundHistory, ProducerHasRoom,
     SlotsHoldHistory, SnapshotIsOld, SnapshotIsGood, ReadIsWhole, TriesBounded,
        SampleInRange
  <2> QED
    BY <2>1, <2>2, <2>3, <2>4, <2>5, <2>6, <2>7, <2>8, <2>9, <2>10
<1>17. CASE ReadLo
  <2>1. TypeOK'
    BY <1>17, ReadLoType
  <2>2. LanesFollowHistory'
    BY <1>17, Counters, GoodSnapshot DEF ReadLo
  <2>3. OffersBoundHistory'
    BY <1>17, Counters, GoodSnapshot DEF ReadLo
  <2>4. ProducerHasRoom'
    BY <1>17, Counters, GoodSnapshot DEF ReadLo
  <2>5. SlotsHoldHistory'
    BY <1>17, Counters, GoodSnapshot DEF ReadLo
  <2>6. SnapshotIsOld'
    BY <1>17, Counters, GoodSnapshot DEF ReadLo
  <2>7. SnapshotIsGood'
    BY <1>17, Counters, GoodSnapshot DEF ReadLo
  <2>8. ReadIsWhole'
    BY <1>17, Counters, GoodSnapshot DEF ReadLo
  <2>9. TriesBounded'
    BY <1>17, Counters, GoodSnapshot DEF ReadLo
  <2>10. SampleInRange'
    BY <1>17, Counters, GoodSnapshot DEF ReadLo
  <2> HIDE DEF TypeOK, LanesFollowHistory, OffersBoundHistory, ProducerHasRoom,
     SlotsHoldHistory, SnapshotIsOld, SnapshotIsGood, ReadIsWhole, TriesBounded,
        SampleInRange
  <2> QED
    BY <2>1, <2>2, <2>3, <2>4, <2>5, <2>6, <2>7, <2>8, <2>9, <2>10
<1>18. CASE ReadHi
  <2>1. TypeOK'
    BY <1>18, ReadHiType
  <2>2. LanesFollowHistory'
    BY <1>18, Counters, GoodSnapshot DEF ReadHi
  <2>3. OffersBoundHistory'
    BY <1>18, Counters, GoodSnapshot DEF ReadHi
  <2>4. ProducerHasRoom'
    BY <1>18, Counters, GoodSnapshot DEF ReadHi
  <2>5. SlotsHoldHistory'
    BY <1>18, Counters, GoodSnapshot DEF ReadHi
  <2>6. SnapshotIsOld'
    BY <1>18, Counters, GoodSnapshot DEF ReadHi
  <2>7. SnapshotIsGood'
    BY <1>18, Counters, GoodSnapshot DEF ReadHi
  <2>8. ReadIsWhole'
    BY <1>18, Counters, GoodSnapshot DEF ReadHi
  <2>9. TriesBounded'
    BY <1>18, Counters, GoodSnapshot DEF ReadHi
  <2>10. SampleInRange'
    BY <1>18, Counters, GoodSnapshot DEF ReadHi
  <2> HIDE DEF TypeOK, LanesFollowHistory, OffersBoundHistory, ProducerHasRoom,
     SlotsHoldHistory, SnapshotIsOld, SnapshotIsGood, ReadIsWhole, TriesBounded,
        SampleInRange
  <2> QED
    BY <2>1, <2>2, <2>3, <2>4, <2>5, <2>6, <2>7, <2>8, <2>9, <2>10
<1>19. CASE CommitPull
  BY <1>19, CommitPullKeeps
<1>20. CASE OverrunRetry
  BY <1>20 DEF OverrunRetry
<1>21. CASE DrainLimit
  BY <1>21 DEF DrainLimit
<1>22. CASE NotifyProducer
  BY <1>22 DEF NotifyProducer
<1>23. CASE ConsumerSeesFlag
  BY <1>23 DEF ConsumerSeesFlag
<1>24. CASE WaitLoadWrite
  BY <1>24 DEF WaitLoadWrite
<1>25. CASE AnnounceDataWait
  BY <1>25 DEF AnnounceDataWait
<1>26. CASE ParkConsumer
  BY <1>26 DEF ParkConsumer
<1>27. CASE ConsumerResumes
  <2>1. TypeOK'
    BY <1>27, ZenonT(40) DEF ConsumerResumes
  <2>2. LanesFollowHistory'
    BY <1>27 DEF ConsumerResumes
  <2>3. OffersBoundHistory'
    BY <1>27 DEF ConsumerResumes
  <2>4. ProducerHasRoom'
    BY <1>27 DEF ConsumerResumes
  <2>5. SlotsHoldHistory'
    BY <1>27 DEF ConsumerResumes
  <2>6. SnapshotIsOld'
    BY <1>27 DEF ConsumerResumes
  <2>7. SnapshotIsGood'
    BY <1>27 DEF ConsumerResumes
  <2>8. ReadIsWhole'
    BY <1>27 DEF ConsumerResumes
  <2>9. TriesBounded'
    BY <1>27 DEF ConsumerResumes
  <2>10. SampleInRange'
    BY <1>27 DEF ConsumerResumes
  <2> HIDE DEF TypeOK, LanesFollowHistory, OffersBoundHistory, ProducerHasRoom,
     SlotsHoldHistory, SnapshotIsOld, SnapshotIsGood, ReadIsWhole, TriesBounded,
        SampleInRange
  <2> QED
    BY <2>1, <2>2, <2>3, <2>4, <2>5, <2>6, <2>7, <2>8, <2>9, <2>10
<1>28. CASE StartWaitForSpace
  BY <1>28 DEF StartWaitForSpace
<1>29. CASE AbortPush
  BY <1>29 DEF AbortPush
<1>30. CASE ProducerTimesOut
  BY <1>30 DEF ProducerTimesOut
<1>31. CASE StartWaitForData
  BY <1>31 DEF StartWaitForData
<1>32. CASE DrainThrows
  BY <1>32 DEF DrainThrows
<1>33. CASE ConsumerTimesOut
  BY <1>33 DEF ConsumerTimesOut
<1>34. CASE UNCHANGED vars
  BY <1>34 DEF vars
<1> QED
  BY <1>1, <1>2, <1>3, <1>4, <1>5, <1>6, <1>7, <1>8, <1>9, <1>10, <1>11, <1>12, <1>13,
     <1>14, <1>15, <1>16, <1>17, <1>18, <1>19, <1>20, <1>21, <1>22, <1>23, <1>24,
        <1>25, <1>26, <1>27, <1>28, <1>29, <1>30, <1>31, <1>32, <1>33, <1>34 DEF Next,
           ProducerStep, ConsumerStep, Choice

-------------------------------------------------------------------------------
(* The theorems *)

\* The inductive invariant holds in every behaviour.
THEOREM Invariance == Spec => []IInv
  BY InitIInv, NextIInv, PTL DEF Spec

\* Lanes, payload halves, flags and both threads' locals keep their types.
THEOREM TypeCorrect == Spec => []TypeOK
<1>1. IInv => TypeOK
  BY DEF IInv
<1> QED
  BY <1>1, Invariance, PTL

\* push, beginPush and a woken blocked push write only slots no unread frame
\* lives in, for every policy and interleaving.
THEOREM NoOverwrite == Spec => []WritesOnlyFreeSlots
<1>1. IInv => WritesOnlyFreeSlots
  <2> SUFFICES ASSUME IInv, ppc \in {"writeLo", "writeHi", "publish"}
               PROVE  Unread \in 0 .. Capacity - 1
    BY DEF WritesOnlyFreeSlots
  <2> QED
    BY Constants DEF IInv, ProducerHasRoom, LanesFollowHistory
<1> QED
  BY <1>1, Invariance, PTL

\* A pull that succeeds delivers one whole frame, the one its commit takes,
\* however the producer's evictions and writes interleaved with its reads.
THEOREM NoTornFrame == Spec => []PullsWholeFrame
<1>1. IInv => PullsWholeFrame
  <2> SUFFICES ASSUME IInv, cpc = "commit", Commits
               PROVE  Taken \in 1 .. Len(sent) /\ outLo = sent[Taken] /\ outHi = sent[Taken]
    BY DEF PullsWholeFrame, Taken
  <2>1. cRead = readIdx
    BY DEF IInv, SnapshotIsOld, Commits, Pulling
  <2>2. Taken \in freed + 1 .. Len(sent) /\ freed \in 0 .. Len(sent)
    BY <2>1, GoodSnapshot, Counters DEF Snapped
  <2> QED
    BY <2>1, <2>2, Constants DEF IInv, ReadIsWhole, TypeOK
<1> QED
  BY <1>1, Invariance, PTL

\* The flow controller is never fed an occupancy outside the ring.
THEOREM FlowSampleInRing == Spec => []SampleInRange
<1>1. IInv => SampleInRange
  BY DEF IInv
<1> QED
  BY <1>1, Invariance, PTL

\* _dropOldest never comes to a second eviction attempt, so neither its retry
\* bound nor its defensive return with a full ring is reached.
THEOREM EvictionNeedsOneTry == Spec => []EvictionSettles
<1>1. IInv => EvictionSettles
  BY DEF IInv, ProducerHasRoom, EvictionSettles
<1> QED
  BY <1>1, Invariance, PTL

-------------------------------------------------------------------------------
(* Frames carry the numbers they were offered under *)

\* The last frame accepted, and the newest the reader has seen.
Newest == IF sent = <<>> THEN 0 ELSE Last(sent)
Horizon == IF Seen = 0 THEN 0 ELSE sent[Seen]

\* A producer inside a push that may still publish.
Pushing == ppc \in Opened \/ (ppc \in Waiting /\ pOp # "waitForSpace")

\* A push in progress offers a frame newer than any published.
NumberedAsOffered ==
    /\ Newest \in 0 .. offered
    /\ Pushing => Newest < offered

\* Nothing is offered yet.
LEMMA InitNumbered == Init => NumberedAsOffered
  BY DEF Init, NumberedAsOffered, Newest, Pushing, Opened, Waiting

\* Steps that leave the history's frames and the producer alone.
LEMMA OthersNumbered ==
    NumberedAsOffered /\ UNCHANGED <<sent, offered, ppc, pOp>> => NumberedAsOffered'
  BY DEF NumberedAsOffered, Newest, Pushing

\* The frame published becomes the newest.
LEMMA PublishNewest ==
    ASSUME IInv, Publish
    PROVE  Newest' = offered
<1>1. sent \in Seq(1 .. MaxFrames) /\ offered \in 1 .. MaxFrames
  BY Constants, Counters DEF IInv, TypeOK, OffersBoundHistory, Publish, Opened, FrameOrTorn
<1>2. sent' = Append(sent, offered)
  BY DEF Publish
<1> QED
  BY <1>1, <1>2, AppendProperties DEF Newest, Last

\* Offers are numbered upwards and published at most once.
LEMMA NextNumbered == IInv /\ NumberedAsOffered /\ [Next]_vars => NumberedAsOffered'
<1> SUFFICES ASSUME IInv, NumberedAsOffered, [Next]_vars PROVE NumberedAsOffered'
  OBVIOUS
<1>0. offered \in Nat
  BY Constants DEF IInv, TypeOK, FrameOrTorn
<1>1. ASSUME NEW op \in {"push", "beginPush"}, StartPush(op) PROVE NumberedAsOffered'
  <2>1. Newest' = Newest /\ offered' = offered + 1
    BY <1>1 DEF StartPush, Newest
  <2> QED
    BY <1>0, <2>1 DEF NumberedAsOffered
<1>2. CASE Publish
  <2>1. Newest' = offered /\ offered' = offered /\ ~Pushing'
    BY <1>2, PublishNewest DEF Publish, Pushing, Opened, Waiting
  <2> QED
    BY <1>0, <2>1 DEF NumberedAsOffered
<1>3. CASE UNCHANGED <<sent, offered, ppc, pOp>>
  BY <1>3, OthersNumbered
<1>4. CASE sent' = sent /\ offered' = offered /\ (Pushing' => Pushing)
  BY <1>4 DEF NumberedAsOffered, Newest
<1>5. CASE ProducerStep
  <2>1. CASE WaitLoadRead
    BY <1>4, <2>1 DEF WaitLoadRead, AfterWait, Pushing, Opened, Waiting
  <2>2. CASE ProducerResumes
    BY <1>4, <2>2 DEF ProducerResumes, AfterWait, Pushing, Opened, Waiting
  <2>3. CASE EvictOldest \/ ReloadAfterLostCas \/ WriteLo \/ WriteHi \/ NotifyConsumer
             \/ ProducerSeesFlag \/ AnnounceSpaceWait \/ ParkProducer \/ RecheckAfterWait
    BY <1>4, <2>3 DEF EvictOldest, ReloadAfterLostCas, WriteLo, WriteHi, NotifyConsumer,
       ProducerSeesFlag, AnnounceSpaceWait, ParkProducer, RecheckAfterWait,
       Pushing, Opened, Waiting
  <2> QED
    BY <1>2, <1>5, <2>1, <2>2, <2>3 DEF ProducerStep
<1>6. CASE ConsumerStep
  BY <1>3, <1>6 DEF ConsumerStep, LoadRead, LoadWrite, ReadLo, ReadHi, CommitPull,
     OverrunRetry, DrainLimit, NotifyProducer, ConsumerSeesFlag, WaitLoadWrite,
     AnnounceDataWait, ParkConsumer, ConsumerResumes
<1>7. CASE Choice
  <2>1. CASE StartWaitForSpace \/ AbortPush \/ ProducerTimesOut
    BY <1>4, <2>1 DEF StartWaitForSpace, AbortPush, ProducerTimesOut, Pushing, Opened,
       Waiting
  <2>2. CASE (\E op \in PullOps : StartPull(op)) \/ StartWaitForData \/ DrainThrows
             \/ ConsumerTimesOut
    BY <1>3, <2>2 DEF StartPull, StartWaitForData, DrainThrows, ConsumerTimesOut
  <2> QED
    BY <1>1, <1>7, <2>1, <2>2 DEF Choice
<1>8. CASE UNCHANGED vars
  BY <1>3, <1>8 DEF vars
<1> QED
  BY <1>5, <1>6, <1>7, <1>8 DEF Next

-------------------------------------------------------------------------------
(* The ring implements the lossy FIFO *)

\* The frames still unread.
Queue == Suffix(sent, freed)

\* What the reader has seen is a prefix of the history.
LookIsOld == \E m \in 0 .. Len(sent) : cWrite = LaneOf(m)

\* Seen recovers that prefix from the lanes: they are less than half a wrap apart.
LEMMA SeenIs ==
    ASSUME IInv, NEW m \in 0 .. Len(sent), cWrite = LaneOf(m)
    PROVE  Seen = m
<1>1. Len(sent) \in 0 .. MaxFrames /\ m \in 0 .. MaxFrames
  BY Counters, Constants
<1>2. SignedDiff(writeIdx, cWrite) = Len(sent) - m
  BY <1>1, LaneOfDiff DEF IInv, LanesFollowHistory
<1> QED
  BY <1>1, <1>2 DEF Seen

\* Both lanes start at the seed.
LEMMA InitLook == Init => LookIsOld
<1> SUFFICES ASSUME Init PROVE LookIsOld
  OBVIOUS
<1>1. Len(sent) = 0 /\ cWrite = Seed
  BY EmptySeq DEF Init
<1>2. LaneOf(0) = Seed /\ 0 \in 0 .. Len(sent)
  BY <1>1, Constants DEF LaneOf, LaneAt
<1> QED
  BY <1>1, <1>2 DEF LookIsOld

\* Looking sees the whole history, and the history only grows.
LEMMA NextLook == IInv /\ LookIsOld /\ [Next]_vars => LookIsOld'
<1> SUFFICES ASSUME IInv, LookIsOld, [Next]_vars PROVE LookIsOld'
  OBVIOUS
<1>0. Len(sent) \in Nat /\ sent \in Seq(1 .. MaxFrames)
  BY Counters DEF IInv, TypeOK
<1>1. CASE UNCHANGED <<sent, cWrite>>
  BY <1>1 DEF LookIsOld
<1>2. CASE Publish
  <2>1. offered \in 1 .. MaxFrames
    BY <1>0, <1>2, Constants DEF IInv, TypeOK, OffersBoundHistory, Publish, Opened, FrameOrTorn
  <2>2. Len(sent') = Len(sent) + 1 /\ cWrite' = cWrite
    BY <1>0, <1>2, <2>1, AppendProperties DEF Publish
  <2> QED
    BY <1>0, <2>2 DEF LookIsOld
<1>3. CASE LoadWrite \/ WaitLoadWrite
  <2>1. cWrite' = LaneOf(Len(sent)) /\ sent' = sent
    BY <1>3 DEF LoadWrite, WaitLoadWrite, IInv, LanesFollowHistory
  <2> QED
    BY <1>0, <2>1 DEF LookIsOld
<1>4. CASE ProducerStep
  BY <1>1, <1>2, <1>4 DEF ProducerStep, EvictOldest, ReloadAfterLostCas, WriteLo, WriteHi,
     NotifyConsumer, ProducerSeesFlag, WaitLoadRead, AnnounceSpaceWait, ParkProducer,
     ProducerResumes, RecheckAfterWait
<1>5. CASE ConsumerStep
  BY <1>1, <1>3, <1>5 DEF ConsumerStep, LoadRead, ReadLo, ReadHi, CommitPull,
     OverrunRetry, DrainLimit, NotifyProducer, ConsumerSeesFlag,
     AnnounceDataWait, ParkConsumer, ConsumerResumes
<1>6. CASE Choice
  BY <1>1, <1>6 DEF Choice, StartPush, StartWaitForSpace, AbortPush, ProducerTimesOut,
     StartPull, StartWaitForData, DrainThrows, ConsumerTimesOut
<1>7. CASE UNCHANGED vars
  BY <1>1, <1>7 DEF vars
<1> QED
  BY <1>4, <1>5, <1>6, <1>7 DEF Next


\* Publish is Put: the frame is newer than any before it, and the queue has room.
LEMMA PublishPuts ==
    ASSUME IInv, NumberedAsOffered, LookIsOld, Publish, IInv'
    PROVE  Fifo!Put(offered) /\ offered \in 1 .. MaxFrames
<1>1. /\ sent \in Seq(1 .. MaxFrames) /\ freed \in 0 .. Len(sent)
      /\ offered \in 1 .. MaxFrames /\ Unread < Capacity /\ Newest < offered
      /\ Len(sent) \in 0 .. MaxFrames /\ Len(sent') \in 0 .. MaxFrames
  BY Counters, Constants DEF IInv, TypeOK, OffersBoundHistory, Publish, Opened,
     FrameOrTorn, ProducerHasRoom, NumberedAsOffered, Pushing
<1>2. UNCHANGED <<freed, opts, got, dropped, cWrite>> /\ sent' = Append(sent, offered)
  BY DEF Publish
<1>3. Queue' = Append(Queue, offered)
  BY <1>1, <1>2, SuffixAppend DEF Queue
<1>4. Newest' = offered
  BY PublishNewest
<1>5. Len(Queue) < Capacity
  BY <1>1, SuffixElements DEF Queue, Unread
<1>6. Horizon' = Horizon
  <2>1. PICK m \in 0 .. Len(sent) : cWrite = LaneOf(m)
    BY DEF LookIsOld
  <2>2. /\ Len(sent') = Len(sent) + 1
        /\ \A i \in 1 .. Len(sent) : sent'[i] = sent[i]
    BY <1>1, <1>2, AppendProperties
  <2>3. Seen = m
    BY <2>1, SeenIs
  <2>4. Seen' = m
    <3>1. writeIdx' = LaneOf(Len(sent'))
      BY DEF IInv, LanesFollowHistory
    <3>2. m \in 0 .. MaxFrames
      BY <1>1, Constants
    <3>3. SignedDiff(writeIdx', cWrite') = Len(sent') - m
      BY <1>1, <1>2, <2>1, <3>1, <3>2, LaneOfDiff
    <3> QED
      BY <1>1, <3>3 DEF Seen
  <2>5. CASE m = 0
    BY <2>3, <2>4, <2>5 DEF Horizon
  <2>6. CASE m # 0
    BY <1>1, <2>2, <2>3, <2>4, <2>6 DEF Horizon
  <2> QED
    BY <2>5, <2>6
<1> QED
  BY <1>1, <1>2, <1>3, <1>4, <1>5, <1>6 DEF Fifo!Put, Queue, Suffix, Newest, Horizon

\* A won eviction drops the oldest frame of a full queue; a lost one drops nothing.
LEMMA EvictOldestDrops ==
    ASSUME IInv, EvictOldest
    PROVE  Fifo!DropOldest \/ UNCHANGED <<opts, sent, freed, got, dropped, writeIdx, cWrite>>
<1>1. CASE readIdx # pRead
  BY <1>1 DEF EvictOldest
<1>2. CASE readIdx = pRead
  <2>1. /\ Len(sent) \in 0 .. MaxFrames /\ freed \in 0 .. Len(sent) /\ freed \in 0 .. MaxFrames
        /\ readIdx = LaneOf(freed) /\ Len(sent) >= Capacity /\ OverrunAware
        /\ pRead = LaneOf(Len(sent) - Capacity) /\ Len(sent) - Capacity \in 0 .. MaxFrames
        /\ sent \in Seq(1 .. MaxFrames)
    BY Counters, Constants DEF EvictOldest, IInv, TypeOK, LanesFollowHistory, ProducerHasRoom
  <2>2. freed = Len(sent) - Capacity
    BY <1>2, <2>1, LaneOfInjective
  <2>3. /\ freed' = freed + 1 /\ dropped' = dropped + 1
        /\ UNCHANGED <<opts, sent, got, writeIdx, cWrite>>
    BY <1>2 DEF EvictOldest
  <2>4. freed < Len(sent) /\ Len(sent) - freed = Capacity /\ freed + 1 + 1 = freed + 2
    BY <2>1, <2>2, Constants
  <2>5. Len(Queue) = Capacity /\ Queue' = Tail(Queue)
    BY <2>1, <2>3, <2>4, SuffixElements, SuffixHead DEF Queue
  <2>6. Newest' = Newest /\ Horizon' = Horizon
    BY <2>3 DEF Newest, Horizon, Seen
  <2> QED
    BY <2>1, <2>3, <2>5, <2>6 DEF Fifo!DropOldest, Queue, Suffix, OverrunAware, Newest, Horizon
<1> QED
  BY <1>1, <1>2

\* A push that finds the ring full drops its frame only under drop-newest.
LEMMA StartPushDrops ==
    ASSUME IInv, NEW op \in {"push", "beginPush"}, StartPush(op)
    PROVE  Fifo!DropNewest \/ UNCHANGED <<opts, sent, freed, got, dropped, writeIdx, cWrite>>
<1>1. UNCHANGED <<opts, sent, freed, got, writeIdx, cWrite>>
  BY DEF StartPush
<1>2. CASE dropped' = dropped
  BY <1>1, <1>2
<1>3. CASE dropped' # dropped
  <2>1. Policy = "drop-newest" /\ Full(writeIdx, readIdx) /\ dropped' = dropped + 1
    BY <1>3 DEF StartPush
  <2>2. sent \in Seq(1 .. MaxFrames) /\ freed \in 0 .. Len(sent) /\ Unread = Capacity
    BY <2>1, Counters DEF IInv, TypeOK
  <2>3. Len(Queue) = Capacity
    BY <2>2, SuffixElements DEF Queue, Unread
  <2>4. Newest' = Newest /\ Horizon' = Horizon /\ Queue' = Queue
    BY <1>1 DEF Newest, Horizon, Seen, Queue
  <2> QED
    BY <1>1, <2>1, <2>3, <2>4 DEF Fifo!DropNewest, Queue, Suffix, Newest, Horizon
<1> QED
  BY <1>2, <1>3

\* The load of write_index shows the reader the newest frame.
LEMMA LoadWriteLooks ==
    ASSUME IInv, LoadWrite \/ WaitLoadWrite
    PROVE  Fifo!Look
<1>1. UNCHANGED <<opts, sent, freed, got, dropped, writeIdx>> /\ cWrite' = writeIdx
  BY DEF LoadWrite, WaitLoadWrite
<1>2. /\ Len(sent) \in 0 .. MaxFrames /\ sent \in Seq(1 .. MaxFrames)
      /\ writeIdx = LaneOf(Len(sent))
  BY Counters DEF IInv, TypeOK, LanesFollowHistory
<1>3. SignedDiff(writeIdx, writeIdx) = 0
  BY <1>2, LaneOfDiff
<1>4. Seen' = Len(sent)
  BY <1>1, <1>2, <1>3 DEF Seen
<1>5. Horizon' = Newest
  BY <1>1, <1>2, <1>4, EmptySeq DEF Horizon, Newest, Last
<1>6. Queue' = Queue /\ Newest' = Newest
  BY <1>1 DEF Queue, Newest
<1> QED
  BY <1>1, <1>5, <1>6 DEF Fifo!Look, Queue, Suffix, Newest, Horizon

\* A pull commits by taking the head of the queue, a pullLatest the newest frame
\* its reader had seen.
LEMMA CommitPullTakes ==
    ASSUME IInv, CommitPull
    PROVE  Fifo!Take \/ Fifo!TakeLatest
<1>1. cpc \in Snapped /\ cRead = readIdx
  BY DEF CommitPull, Commits, IInv, SnapshotIsOld, Pulling, Snapped
<1>2. /\ Taken \in freed + 1 .. Len(sent) /\ freed \in 0 .. Len(sent)
      /\ Len(sent) \in 0 .. MaxFrames /\ Beyond = LaneOf(Taken)
      /\ outLo = sent[Taken] /\ outHi = sent[Taken] /\ sent \in Seq(1 .. MaxFrames)
  BY <1>1, GoodSnapshot, Counters DEF IInv, ReadIsWhole, CommitPull, TypeOK
<1>3. /\ freed' = Taken /\ UNCHANGED <<opts, sent, dropped, writeIdx, cWrite>>
      /\ got' = Append(got, sent[Taken])
  BY <1>2 DEF CommitPull, Taken
<1>4. Newest' = Newest /\ Horizon' = Horizon /\ Queue' = Suffix(sent, Taken)
  BY <1>3 DEF Newest, Horizon, Seen, Queue
<1>5. CASE cOp = "pullLatest"
  <2>1. cWrite = LaneOf(Taken)
    BY <1>2, <1>5 DEF Beyond
  <2>2. Horizon = sent[Taken]
    BY <1>2, <2>1, SeenIs DEF Horizon
  <2> DEFINE n == Taken - freed
  <2>3. n \in 1 .. Len(sent) - freed /\ freed + n = Taken
    BY <1>2
  <2>4. Len(Queue) = Len(sent) - freed /\ Queue[n] = sent[Taken]
    BY <1>2, <2>3, SuffixElements DEF Queue
  <2>5. Suffix(Queue, n) = Suffix(sent, Taken)
    BY <1>2, <2>3, SuffixOfSuffix DEF Queue
  <2> QED
    BY <1>3, <1>4, <2>2, <2>3, <2>4, <2>5 DEF Fifo!TakeLatest, Queue, Suffix, Newest, Horizon
<1>6. CASE cOp # "pullLatest"
  <2>1. Taken = freed + 1
    <3>1. /\ freed \in 0 .. MaxFrames /\ freed + 1 \in 0 .. MaxFrames /\ cRead = LaneOf(freed)
      BY <1>1, <1>2, Constants DEF IInv, LanesFollowHistory
    <3>2. Beyond = LaneOf(freed + 1)
      BY <1>6, <3>1, LaneOfInc DEF Beyond
    <3>3. SignedDiff(Beyond, cRead) = (freed + 1) - freed
      BY <3>1, <3>2, LaneOfDiff
    <3> QED
      BY <3>1, <3>3 DEF Taken
  <2>2. freed < Len(sent)
    BY <1>2
  <2>3. /\ Queue # <<>> /\ Head(Queue) = sent[Taken]
        /\ Tail(Queue) = Suffix(sent, Taken)
    BY <1>2, <2>1, <2>2, SuffixHead DEF Queue
  <2> QED
    BY <1>3, <1>4, <2>3 DEF Fifo!Take, Queue, Suffix, Newest, Horizon
<1> QED
  BY <1>5, <1>6

\* The invariant the simulation needs beyond IInv.
FifoInv == IInv /\ NumberedAsOffered /\ LookIsOld

\* Every step of the two threads is a step of the lossy FIFO or leaves it alone.
LEMMA StepSimulates ==
    ASSUME FifoInv, IInv', [Next]_vars
    PROVE  [Fifo!Next]_<<Policy, Queue, got, Newest, Horizon, dropped>>
<1>1. ASSUME UNCHANGED <<opts, sent, freed, got, dropped, writeIdx, cWrite>>
      PROVE  UNCHANGED <<Policy, Queue, got, Newest, Horizon, dropped>>
  BY <1>1 DEF Queue, Newest, Horizon, Seen
<1>2. CASE ProducerStep
  <2>1. CASE Publish
    BY <2>1, PublishPuts DEF FifoInv, Fifo!Next
  <2>2. CASE EvictOldest
    BY <1>1, <2>2, EvictOldestDrops DEF FifoInv, Fifo!Next
  <2>3. CASE ReloadAfterLostCas \/ WriteLo \/ WriteHi \/ NotifyConsumer \/ ProducerSeesFlag
             \/ WaitLoadRead \/ AnnounceSpaceWait \/ ParkProducer \/ ProducerResumes
             \/ RecheckAfterWait
    BY <1>1, <2>3 DEF ReloadAfterLostCas, WriteLo, WriteHi, NotifyConsumer,
       ProducerSeesFlag, WaitLoadRead, AnnounceSpaceWait, ParkProducer, ProducerResumes,
       RecheckAfterWait
  <2> QED
    BY <1>2, <2>1, <2>2, <2>3 DEF ProducerStep
<1>3. CASE ConsumerStep
  <2>1. CASE CommitPull
    BY <2>1, CommitPullTakes DEF FifoInv, Fifo!Next
  <2>2. CASE LoadWrite \/ WaitLoadWrite
    BY <2>2, LoadWriteLooks DEF FifoInv, Fifo!Next
  <2>3. CASE LoadRead \/ ReadLo \/ ReadHi \/ OverrunRetry \/ DrainLimit \/ NotifyProducer
             \/ ConsumerSeesFlag \/ AnnounceDataWait \/ ParkConsumer \/ ConsumerResumes
    BY <1>1, <2>3 DEF LoadRead, ReadLo, ReadHi, OverrunRetry, DrainLimit, NotifyProducer,
       ConsumerSeesFlag, AnnounceDataWait, ParkConsumer, ConsumerResumes
  <2> QED
    BY <1>3, <2>1, <2>2, <2>3 DEF ConsumerStep
<1>4. CASE Choice
  <2>1. ASSUME NEW op \in {"push", "beginPush"}, StartPush(op)
        PROVE  Fifo!DropNewest \/ UNCHANGED <<Policy, Queue, got, Newest, Horizon, dropped>>
    BY <1>1, <2>1, StartPushDrops DEF FifoInv
  <2>2. CASE StartWaitForSpace \/ AbortPush \/ ProducerTimesOut \/ StartWaitForData
             \/ DrainThrows \/ ConsumerTimesOut \/ \E op \in PullOps : StartPull(op)
    BY <1>1, <2>2 DEF StartWaitForSpace, AbortPush, ProducerTimesOut, StartWaitForData,
       DrainThrows, ConsumerTimesOut, StartPull
  <2> QED
    BY <1>4, <2>1, <2>2 DEF Choice, Fifo!Next
<1>5. CASE UNCHANGED vars
  BY <1>1, <1>5 DEF vars
<1> QED
  BY <1>2, <1>3, <1>4, <1>5 DEF Next

\* The ring starts as an empty FIFO, whatever the seed.
LEMMA InitSimulates == Init => Fifo!Init
<1> SUFFICES ASSUME Init PROVE Fifo!Init
  OBVIOUS
<1>1. opts.policy \in {"reject", "drop-newest", "drop-oldest", "block"}
  BY SpscAssumption DEF Init
<1>2. /\ sent = <<>> /\ freed = 0 /\ got = <<>> /\ dropped = 0
      /\ cWrite = writeIdx /\ writeIdx = Seed /\ Len(sent) = 0
  BY EmptySeq DEF Init
<1>3. SubSeq(sent, freed + 1, Len(sent)) = <<>>
  BY <1>2, SubSeqEmpty
<1>4. Seen = 0
  BY <1>2, Constants DEF Seen, SignedDiff, AsInt32
<1> QED
  BY <1>1, <1>2, <1>3, <1>4 DEF Fifo!Init

\* Every behaviour of the ring is one of the lossy FIFO, under every policy: no
\* interleaving of push, eviction, pull and pullLatest loses, repeats or reorders a
\* frame, and a pullLatest hands out the newest frame its load of write_index saw.
THEOREM RefinesLossyFifo == Spec => ImplementsLossyFifo
<1>1. Init => FifoInv
  BY InitIInv, InitNumbered, InitLook DEF FifoInv
<1>2. FifoInv /\ [Next]_vars => FifoInv'
  BY NextIInv, NextNumbered, NextLook DEF FifoInv
<1>3. FifoInv /\ FifoInv' /\ [Next]_vars
          => [Fifo!Next]_<<Policy, Queue, got, Newest, Horizon, dropped>>
  BY StepSimulates DEF FifoInv
<1> QED
  BY <1>1, <1>2, <1>3, InitSimulates, PTL
     DEF Spec, ImplementsLossyFifo, Fifo!Spec, Queue, Suffix, Newest, Horizon

-------------------------------------------------------------------------------
(* Waiting and waking *)

\* A consumer on its way to the notify it owes for what it has consumed.
ConsumerOwes ==
    \/ cpc \in {"notify", "wake"}
    \/ cOp = "drain" /\ cCount > 0
       /\ cpc \in {"loadRead", "loadWrite", "readLo", "readHi", "commit"}

\* Who sleeps is parked in a wait, and has announced it where the waker looks.
SleepersAnnounced ==
    /\ "producer" \in asleep => ppc = "parked"
    /\ "consumer" \in asleep => cpc = "parked"
    /\ NotifyMode = "waiter-flag" /\ ppc \in {"park", "parked"} => spaceFlag
    /\ NotifyMode = "waiter-flag" /\ cpc \in {"park", "parked"} => dataFlag

\* Who waits has seen its reason to wait: a full ring, an empty one.
WaitersHadReason ==
    /\ ppc \in {"announce", "park", "parked"} => Full(writeIdx, pRead)
    /\ cpc \in {"announce", "park", "parked"} => \E k \in 0 .. freed : cWrite = LaneOf(k)
    /\ cpc = "waitLoad" => \E k \in 0 .. freed : cRead = LaneOf(k)

WakeInv == SleepersAnnounced /\ WaitersHadReason /\ NoLostWake

\* Nobody waits at first.
LEMMA InitWake == Init => WakeInv
  BY DEF Init, WakeInv, SleepersAnnounced, WaitersHadReason, NoLostWake

\* The producer's steps: the lane it moves is one the consumer may sleep on.
LEMMA ProducerWakes ==
    ASSUME IInv, WakeInv, ProducerStep PROVE WakeInv'
<1> USE DEF WakeInv, SleepersAnnounced, WaitersHadReason, NoLostWake, Unread
<1>1. /\ freed \in Nat /\ readIdx = LaneOf(freed) /\ NotifyMode \in {"always", "waiter-flag"}
      /\ spaceFlag \in BOOLEAN /\ dataFlag \in BOOLEAN
  BY SpscAssumption DEF IInv, TypeOK, LanesFollowHistory, NotifyMode
<1>2. CASE EvictOldest
  BY <1>1, <1>2 DEF EvictOldest, NotifyMode, HoleyBuffers
<1>3. CASE ReloadAfterLostCas \/ WriteLo \/ WriteHi
  BY <1>3 DEF ReloadAfterLostCas, WriteLo, WriteHi, NotifyMode, HoleyBuffers
<1>4. CASE Publish
  BY <1>4 DEF Publish, NotifyMode, HoleyBuffers
<1>5. CASE NotifyConsumer \/ ProducerSeesFlag
  BY <1>1, <1>5 DEF NotifyConsumer, ProducerSeesFlag, NotifyMode, HoleyBuffers
<1>6. CASE WaitLoadRead \/ RecheckAfterWait
  BY <1>6 DEF WaitLoadRead, RecheckAfterWait, AfterWait, NotifyMode, HoleyBuffers
<1>7. CASE AnnounceSpaceWait \/ ParkProducer \/ ProducerResumes
  BY <1>7 DEF AnnounceSpaceWait, ParkProducer, ProducerResumes, AfterWait, NotifyMode,
     HoleyBuffers
<1> QED
  BY <1>2, <1>3, <1>4, <1>5, <1>6, <1>7 DEF ProducerStep

\* The consumer's steps: it owes a notify from the commit on, through all it does
\* before it returns.
LEMMA ConsumerWakes ==
    ASSUME IInv, WakeInv, ConsumerStep PROVE WakeInv'
<1> USE DEF WakeInv, SleepersAnnounced, WaitersHadReason, NoLostWake, NotifyMode,
   HoleyBuffers, AfterLastFrame
<1>1. /\ freed \in Nat /\ cCount \in Nat /\ opts.notify \in {"always", "waiter-flag"}
      /\ spaceFlag \in BOOLEAN /\ dataFlag \in BOOLEAN
  BY SpscAssumption DEF IInv, TypeOK
<1>2. CASE LoadRead \/ LoadWrite \/ ReadLo \/ ReadHi \/ OverrunRetry \/ DrainLimit
  BY <1>1, <1>2 DEF LoadRead, LoadWrite, ReadLo, ReadHi, OverrunRetry, DrainLimit
<1>3. CASE CommitPull
  <2>1. freed' \in Nat /\ freed <= freed'
    <3>1. cRead = readIdx
      BY <1>3 DEF CommitPull, Commits, IInv, SnapshotIsOld, Pulling
    <3>2. Taken \in freed + 1 .. Len(sent)
      BY <1>3, <3>1, GoodSnapshot DEF CommitPull, Snapped
    <3> QED
      BY <1>1, <1>3, <3>2, Counters DEF CommitPull, Taken
  <2> QED
    BY <1>1, <1>3, <2>1 DEF CommitPull
<1>4. CASE NotifyProducer \/ ConsumerSeesFlag
  BY <1>1, <1>4 DEF NotifyProducer, ConsumerSeesFlag
<1>5. CASE WaitLoadWrite
  BY <1>1, <1>5 DEF WaitLoadWrite
<1>6. CASE AnnounceDataWait \/ ParkConsumer \/ ConsumerResumes
  BY <1>1, <1>6 DEF AnnounceDataWait, ParkConsumer, ConsumerResumes
<1> QED
  BY <1>2, <1>3, <1>4, <1>5, <1>6 DEF ConsumerStep

\* What the application decides, and waits that time out.
LEMMA ChoiceWakes ==
    ASSUME IInv, WakeInv, Choice PROVE WakeInv'
<1> USE DEF WakeInv, SleepersAnnounced, WaitersHadReason, NoLostWake, NotifyMode,
   HoleyBuffers
<1>1. freed \in Nat /\ readIdx = LaneOf(freed)
  BY DEF IInv, TypeOK, LanesFollowHistory
<1>2. ASSUME NEW op \in {"push", "beginPush"}, StartPush(op) PROVE WakeInv'
  BY <1>2 DEF StartPush
<1>3. ASSUME NEW op \in PullOps, StartPull(op) PROVE WakeInv'
  BY <1>3 DEF StartPull
<1>4. CASE StartWaitForSpace \/ AbortPush \/ ProducerTimesOut
  BY <1>4 DEF StartWaitForSpace, AbortPush, ProducerTimesOut
<1>5. CASE StartWaitForData
  BY <1>1, <1>5 DEF StartWaitForData
<1>6. CASE DrainThrows \/ ConsumerTimesOut
  BY <1>6 DEF DrainThrows, ConsumerTimesOut
<1> QED
  BY <1>2, <1>3, <1>4, <1>5, <1>6 DEF Choice

\* Every step keeps the promise to wake.
LEMMA NextWake == IInv /\ WakeInv /\ [Next]_vars => WakeInv'
<1> SUFFICES ASSUME IInv, WakeInv, [Next]_vars PROVE WakeInv'
  OBVIOUS
<1>1. CASE UNCHANGED vars
  BY <1>1 DEF vars, WakeInv, SleepersAnnounced, WaitersHadReason, NoLostWake, NotifyMode,
     HoleyBuffers, Full
<1> QED
  BY <1>1, ProducerWakes, ConsumerWakes, ChoiceWakes DEF Next

\* No wake is lost, in either notify mode and under every policy: a sleeper whose lane
\* has moved is owed a notify by the thread that moved it.
THEOREM WakesArePromised == Spec => []NoLostWake
<1>1. Init => WakeInv
  BY InitWake
<1>2. WakeInv => NoLostWake
  BY DEF WakeInv
<1> QED
  BY <1>1, <1>2, InitIInv, NextIInv, NextWake, PTL DEF Spec

\* waitForSpace and waitForData cannot wait for each other, unless a drain threw on its
\* way to the notify it owed.
THEOREM NoCrossedWaits == Spec => [](NeverBothAsleep \/ HoleyBuffers)
<1>1. IInv /\ WakeInv => NeverBothAsleep \/ HoleyBuffers
  <2> SUFFICES ASSUME IInv, WakeInv, ~NeverBothAsleep, ~HoleyBuffers PROVE FALSE
    OBVIOUS
  <2>1. ppc = "parked" /\ cpc = "parked" /\ readIdx = pRead /\ writeIdx = cWrite
    BY DEF WakeInv, SleepersAnnounced, NoLostWake, NeverBothAsleep
  <2>2. Unread = Capacity
    BY <2>1, Counters DEF WakeInv, WaitersHadReason
  <2>3. PICK k \in 0 .. freed : writeIdx = LaneOf(k)
    BY <2>1 DEF WakeInv, WaitersHadReason
  <2>4. k = Len(sent)
    <3>1. writeIdx = LaneOf(Len(sent)) /\ Len(sent) \in 0 .. MaxFrames /\ k \in 0 .. MaxFrames
      BY <2>3, Counters, Constants DEF IInv, LanesFollowHistory
    <3> QED
      BY <2>3, <3>1, LaneOfInjective
  <2> QED
    BY <2>2, <2>3, <2>4, Counters, Constants DEF Unread
<1> QED
  BY <1>1, InitIInv, NextIInv, InitWake, NextWake, PTL DEF Spec

-------------------------------------------------------------------------------
(* Counting *)

\* read_index has moved once for every frame handed out, skipped or evicted,
\* write_index once for every frame counted and the one about to be.
Ledger ==
    /\ freed = Len(got) + skipped + (IF OverrunAware THEN dropped ELSE 0)
    /\ Len(sent) = pushed + (IF ppc \in {"notify", "wake"} THEN 1 ELSE 0)

\* All counts start at zero.
LEMMA InitLedger == Init => Ledger
  BY DEF Init, Ledger

\* A commit moves read_index over the frames it skipped and the one it hands out.
LEMMA CommitPullBooks ==
    ASSUME IInv, CommitPull
    PROVE  /\ \E n \in Nat : freed' = freed + n + 1 /\ skipped' = skipped + n
           /\ Len(got') = Len(got) + 1
<1>1. cRead = readIdx
  BY DEF CommitPull, Commits, IInv, SnapshotIsOld, Pulling
<1>2. Taken \in freed + 1 .. Len(sent) /\ SignedDiff(Wanted, cRead) = Taken - 1 - freed
  BY <1>1, GoodSnapshot DEF CommitPull, Snapped
<1>3. freed' = Taken /\ skipped' = skipped + (Taken - 1 - freed)
  BY <1>2 DEF CommitPull, Taken
<1>4. Len(got') = Len(got) + 1 /\ freed \in Nat /\ skipped \in Int /\ Len(sent) \in Nat
  <2>1. got \in Seq(FrameOrTorn) /\ (IF outLo = outHi THEN outLo ELSE Torn) \in FrameOrTorn
    BY Constants DEF IInv, TypeOK, Torn, FrameOrTorn
  <2> QED
    BY <2>1 DEF CommitPull, IInv, TypeOK
<1>5. Taken - 1 - freed \in Nat /\ Taken = freed + (Taken - 1 - freed) + 1
  BY <1>2, <1>4
<1> QED
  BY <1>3, <1>4, <1>5

\* Every step books what it moves.
LEMMA NextLedger == IInv /\ Ledger /\ [Next]_vars => Ledger'
<1> SUFFICES ASSUME IInv, Ledger, [Next]_vars PROVE Ledger'
  OBVIOUS
<1> USE DEF Ledger, OverrunAware
<1>1. /\ Len(sent) \in Nat /\ Len(got) \in Nat /\ pushed \in Nat /\ dropped \in Nat
      /\ freed \in Nat /\ skipped \in Int
  BY DEF IInv, TypeOK
<1>2. CASE UNCHANGED <<opts, sent, pushed, dropped, skipped, freed, got>>
           /\ (ppc \in {"notify", "wake"} <=> ppc' \in {"notify", "wake"})
  BY <1>2
<1>3. CASE EvictOldest
  <2>1. OverrunAware /\ ppc = "evict" /\ ppc' \notin {"notify", "wake"}
    BY <1>3 DEF EvictOldest, IInv, ProducerHasRoom
  <2> QED
    BY <1>1, <1>3, <2>1 DEF EvictOldest
<1>4. CASE Publish
  <2>1. Len(sent') = Len(sent) + 1
    BY <1>4, Counters DEF Publish, IInv, TypeOK
  <2> QED
    BY <1>1, <1>4, <2>1 DEF Publish
<1>5. CASE NotifyConsumer
  BY <1>1, <1>5 DEF NotifyConsumer
<1>6. CASE CommitPull
  <2>1. UNCHANGED <<opts, sent, pushed, dropped, ppc>>
    BY <1>6 DEF CommitPull
  <2>2. UNCHANGED OverrunAware
    BY <2>1
  <2>3. PICK n \in Nat : freed' = freed + n + 1 /\ skipped' = skipped + n
    BY <1>6, CommitPullBooks
  <2>4. Len(got') = Len(got) + 1
    BY <1>6, CommitPullBooks
  <2>5. PICK d \in Nat : d = IF OverrunAware THEN dropped ELSE 0
    BY <1>1
  <2> HIDE DEF OverrunAware
  <2>6. freed = Len(got) + skipped + d
    BY <2>5
  <2>7. freed' = Len(got') + skipped' + d
    <3> HIDE DEF Ledger
    <3> QED
      BY <1>1, <2>3, <2>4, <2>6
  <2> QED
    BY <2>1, <2>2, <2>5, <2>7
<1>7. ASSUME NEW op \in {"push", "beginPush"}, StartPush(op) PROVE Ledger'
  <2>1. UNCHANGED <<opts, sent, pushed, skipped, freed, got>>
        /\ ppc \notin {"notify", "wake"} /\ ppc' \notin {"notify", "wake"}
    BY <1>7 DEF StartPush
  <2>2. dropped' = dropped \/ ~OverrunAware
    BY <1>7 DEF StartPush
  <2> QED
    BY <1>1, <2>1, <2>2
<1>8. CASE ProducerStep
  <2>1. CASE ReloadAfterLostCas \/ WriteLo \/ WriteHi \/ ProducerSeesFlag \/ WaitLoadRead
             \/ AnnounceSpaceWait \/ ParkProducer \/ ProducerResumes \/ RecheckAfterWait
    BY <1>2, <2>1 DEF ReloadAfterLostCas, WriteLo, WriteHi, ProducerSeesFlag, WaitLoadRead,
       AnnounceSpaceWait, ParkProducer, ProducerResumes, RecheckAfterWait, AfterWait
  <2> QED
    BY <1>3, <1>4, <1>5, <1>8, <2>1 DEF ProducerStep
<1>9. CASE ConsumerStep
  <2>1. CASE LoadRead \/ LoadWrite \/ ReadLo \/ ReadHi \/ OverrunRetry \/ DrainLimit
             \/ NotifyProducer \/ ConsumerSeesFlag \/ WaitLoadWrite \/ AnnounceDataWait
             \/ ParkConsumer \/ ConsumerResumes
    BY <1>2, <2>1 DEF LoadRead, LoadWrite, ReadLo, ReadHi, OverrunRetry, DrainLimit,
       NotifyProducer, ConsumerSeesFlag, WaitLoadWrite, AnnounceDataWait, ParkConsumer,
       ConsumerResumes
  <2> QED
    BY <1>6, <1>9, <2>1 DEF ConsumerStep
<1>10. CASE Choice
  <2>1. CASE StartWaitForSpace \/ AbortPush \/ ProducerTimesOut \/ StartWaitForData
             \/ DrainThrows \/ ConsumerTimesOut \/ \E op \in PullOps : StartPull(op)
    BY <1>2, <2>1 DEF StartWaitForSpace, AbortPush, ProducerTimesOut, StartWaitForData,
       DrainThrows, ConsumerTimesOut, StartPull
  <2> QED
    BY <1>7, <1>10, <2>1 DEF Choice
<1>11. CASE UNCHANGED vars
  BY <1>2, <1>11 DEF vars
<1> QED
  BY <1>8, <1>9, <1>10, <1>11 DEF Next

\* The counters of the two threads account for every frame, evicted and skipped ones
\* included, whichever operations were mixed.
THEOREM CountersBalance == Spec => []Conservation
<1>1. IInv /\ Ledger => Conservation
  BY Counters DEF Ledger, Conservation, Unread, IInv, TypeOK
<1> QED
  BY <1>1, InitIInv, NextIInv, InitLedger, NextLedger, PTL DEF Spec
===============================================================================
