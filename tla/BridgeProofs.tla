----------------------------- MODULE BridgeProofs -----------------------------
(***************************************************************************)
(* Theorems about the bridge: the readback of staging buffers that feeds it    *)
(* (GpuReadback), the published lanes of the clock (PllLanes), the loop that   *)
(* estimates it (ConsumerClockRecovery), the entry points that pull           *)
(* (BridgePulls) and the replay of recorded control events                    *)
(* (TimelineRecorder).  Each part stands by itself.                           *)
(***************************************************************************)
EXTENDS GpuReadback, PllLanes, ConsumerClockRecovery, BridgePulls, TimelineRecorder,
        LaneTheorems, FiniteSetTheorems, SequenceTheorems, WellFoundedInduction

(***************************************************************************)
(* GpuReadback, for every number of staging slots, set of fields and regions,  *)
(* and combination of options.                                               *)
(*                                                                         *)
(* pollCompleted is a fold of _drainSlot over the slots, of any number.  What *)
(* it does is proved by counting up: the least-number principle of the         *)
(* library (WFMin with NatLessThanWellFounded) gives an induction over sets    *)
(* of numbers, which gives the fold its meaning as a run, one state of the     *)
(* source per slot, and carries what each drain keeps along that run.         *)
(***************************************************************************)

-------------------------------------------------------------------------------
(* Counting up *)

LEMMA LeastOf ==
    ASSUME NEW T, T \subseteq Nat, T # {}
    PROVE  \E x \in T : \A y \in T : x <= y
<1> DEFINE Less == OpToRel(<, Nat)
<1>1. IsWellFoundedOn(Less, Nat)
  BY NatLessThanWellFounded
<1>2. \A x, y \in Nat : <<y, x>> \in Less <=> y < x
  BY DEF OpToRel
<1> HIDE DEF Less
<1>3. PICK x \in T : \A y \in T : ~ (<<y, x>> \in Less)
  BY <1>1, WFMin
<1>4. ASSUME NEW y \in T PROVE x <= y
  <2>1. x \in Nat /\ y \in Nat
    BY <1>3
  <2>2. ~(y < x)
    BY <1>2, <1>3, <2>1
  <2> QED
    BY <2>1, <2>2
<1> QED
  BY <1>4

\* Induction, over a set of numbers.
LEMMA CountUp ==
    ASSUME NEW T, 0 \in T, \A n \in Nat : n \in T => n + 1 \in T
    PROVE  Nat \subseteq T
<1> DEFINE Missing == Nat \ T
<1>1. SUFFICES ASSUME Missing # {} PROVE FALSE
  OBVIOUS
<1>2. Missing \subseteq Nat
  OBVIOUS
<1>3. \A x : x \in Missing <=> x \in Nat /\ x \notin T
  OBVIOUS
<1> HIDE DEF Missing
<1>4. PICK x \in Missing : \A y \in Missing : x <= y
  BY <1>1, <1>2, LeastOf
<1>5. x \in Nat /\ x # 0
  BY <1>3, <1>4
<1>6. x - 1 \in Nat /\ x - 1 \notin Missing /\ (x - 1) + 1 = x
  BY <1>4, <1>5
<1>7. x - 1 \in T
  BY <1>3, <1>6
<1> QED
  BY <1>3, <1>4, <1>6, <1>7

\* A set of numbers up to n has a greatest one.
LEMMA GreatestOf ==
    ASSUME NEW n \in Nat, NEW S, S \subseteq 1 .. n, S # {}
    PROVE  Max(S) \in S /\ \A y \in S : Max(S) >= y
<1> DEFINE T == {n - y : y \in S}
<1>1. T \subseteq Nat /\ T # {}
  <2>1. \A y \in S : n - y \in Nat
    OBVIOUS
  <2> QED
    BY <2>1
<1>2. \A y \in S : n - y \in T
  OBVIOUS
<1>3. \A t \in T : \E y \in S : t = n - y
  OBVIOUS
<1> HIDE DEF T
<1>4. PICK t \in T : \A u \in T : t <= u
  BY <1>1, LeastOf
<1>5. PICK x \in S : t = n - x
  BY <1>3
<1>6. \A y \in S : x >= y
  BY <1>2, <1>4, <1>5
<1> QED
  BY <1>6 DEF Max

LEMMA GreatestUpTo ==
    ASSUME NEW n \in Nat
    PROVE  1 .. n + 1 # {} /\ Max(1 .. n + 1) = n + 1 /\ (1 .. n + 1) \ {n + 1} = 1 .. n
<1>1. 1 .. n + 1 # {} /\ n + 1 \in Nat /\ n + 1 \in 1 .. n + 1
  OBVIOUS
<1>2. Max(1 .. n + 1) \in 1 .. n + 1 /\ Max(1 .. n + 1) >= n + 1
  BY <1>1, GreatestOf
<1>3. Max(1 .. n + 1) = n + 1
  BY <1>2
<1> QED
  BY <1>1, <1>3

-------------------------------------------------------------------------------
(* pollCompleted, a slot at a time *)

Folded(fates) == FoldLeft(LAMBDA s, i : Drain(s, i, fates[i]), Now, [i \in SlotIds |-> i])

\* What the fold makes of a set of slots: the greatest of them is drained last.
After(fates, iter, S) ==
    IF S = {} THEN Now ELSE Drain(iter[S \ {Max(S)}], Max(S), fates[Max(S)])

LEMMA FoldIsDefined ==
    ASSUME NEW fates
    PROVE  \E iter : /\ iter = [S \in SUBSET SlotIds |-> After(fates, iter, S)]
                     /\ Folded(fates) = iter[SlotIds]
<1> DEFINE Good(g, n) == \A S \in SUBSET (1 .. n) : g[S] = After(fates, g, S)
           T == {n \in Nat : \E g : Good(g, n)}
           InOrder == [i \in SlotIds |-> i]
           Exact(iter) == iter = [S \in SUBSET DOMAIN InOrder |->
                                    IF S = {} THEN Now
                                    ELSE Drain(iter[S \ {Max(S)}], InOrder[Max(S)],
                                               fates[InOrder[Max(S)]])]
<1>1. 0 \in T
  <2> DEFINE g == [S \in {{}} |-> Now]
  <2>1. \A S \in SUBSET (1 .. 0) : S = {}
    OBVIOUS
  <2>2. Good(g, 0)
    BY <2>1 DEF After
  <2> QED
    BY <2>2
<1>2. ASSUME NEW n \in Nat, n \in T PROVE n + 1 \in T
  <2>1. PICK g : Good(g, n)
    BY <1>2
  <2> DEFINE h == [S \in SUBSET (1 .. n + 1) |-> After(fates, g, S)]
  <2>2. ASSUME NEW S \in SUBSET (1 .. n + 1) PROVE h[S] = After(fates, h, S)
    <3>1. CASE S = {}
      BY <3>1 DEF After
    <3>2. CASE S # {}
      <4>1. n + 1 \in Nat /\ S \subseteq 1 .. n + 1
        OBVIOUS
      <4>2. Max(S) \in S /\ \A y \in S : Max(S) >= y
        BY <3>2, <4>1, GreatestOf
      <4>3. ASSUME NEW y \in S \ {Max(S)} PROVE y \in 1 .. n
        <5>1. y \in 1 .. n + 1 /\ Max(S) \in 1 .. n + 1 /\ y <= Max(S) /\ y # Max(S)
          BY <4>1, <4>2
        <5> QED
          BY <5>1
      <4>4. S \ {Max(S)} \in SUBSET (1 .. n) /\ S \ {Max(S)} \in SUBSET (1 .. n + 1)
        BY <4>1, <4>3
      <4>5. h[S \ {Max(S)}] = g[S \ {Max(S)}]
        BY <2>1, <4>4
      <4> QED
        BY <3>2, <4>5 DEF After
    <3> QED
      BY <3>1, <3>2
  <2> HIDE DEF h
  <2>3. \A S \in SUBSET (1 .. n + 1) : h[S] = After(fates, h, S)
    BY <2>2
  <2>4. n + 1 \in Nat
    OBVIOUS
  <2>5. Good(h, n + 1)
    BY <2>3
  <2> HIDE DEF Good
  <2> QED
    BY <2>4, <2>5
<1>3. SlotCount \in T
  <2> HIDE DEF T
  <2>1. SlotCount \in Nat
    BY GpuReadbackAssumption
  <2> QED
    BY <1>1, <1>2, <2>1, CountUp
<1>4. PICK g : Good(g, SlotCount)
  BY <1>3
<1> DEFINE f == [S \in SUBSET SlotIds |-> g[S]]
<1>5. \A S \in SUBSET SlotIds : S # {} => Max(S) \in SlotIds
  <2>1. SlotCount \in Nat
    BY GpuReadbackAssumption
  <2> QED
    BY <2>1, GreatestOf DEF SlotIds
<1>6. f = [S \in SUBSET SlotIds |-> After(fates, f, S)]
  <2>1. ASSUME NEW S \in SUBSET SlotIds PROVE g[S] = After(fates, f, S)
    <3>1. g[S] = After(fates, g, S)
      BY <1>4 DEF SlotIds
    <3>2. f[S \ {Max(S)}] = g[S \ {Max(S)}]
      OBVIOUS
    <3> QED
      BY <3>1, <3>2 DEF After
  <2> QED
    BY <2>1
<1> HIDE DEF f
<1>7. ASSUME NEW k, k = [S \in SUBSET SlotIds |-> After(fates, k, S)] \/ Exact(k)
      PROVE  k = [S \in SUBSET SlotIds |-> After(fates, k, S)] /\ Exact(k)
  <2>1. DOMAIN InOrder = SlotIds
    OBVIOUS
  <2>2. ASSUME NEW S \in SUBSET SlotIds
        PROVE  After(fates, k, S) =
                   (IF S = {} THEN Now
                    ELSE Drain(k[S \ {Max(S)}], InOrder[Max(S)], fates[InOrder[Max(S)]]))
    <3>1. CASE S = {}
      BY <3>1 DEF After
    <3>2. CASE S # {}
      <4>1. InOrder[Max(S)] = Max(S)
        BY <1>5, <3>2
      <4> HIDE DEF InOrder
      <4> QED
        BY <3>2, <4>1 DEF After
    <3> QED
      BY <3>1, <3>2
  <2> QED
    BY <1>7, <2>1, <2>2
<1>8. Exact(f)
  BY <1>6, <1>7
<1> DEFINE it == CHOOSE iter : Exact(iter)
<1>9. Folded(fates) = it[DOMAIN InOrder]
  BY DEF Folded, FoldLeft, MapThenFoldSet
<1>10. Exact(it)
  BY <1>8
<1> HIDE DEF it
<1>11. it = [S \in SUBSET SlotIds |-> After(fates, it, S)]
  <2> HIDE DEF Exact
  <2> QED
    BY <1>7, <1>10
<1> QED
  BY <1>9, <1>11

\* The same as a run of drains, in slot order.
LEMMA PollIsARun ==
    ASSUME NEW fates
    PROVE  \E run : /\ run[0] = Now /\ run[SlotCount] = Folded(fates)
                    /\ \A n \in 0 .. SlotCount - 1 :
                           run[n + 1] = Drain(run[n], n + 1, fates[n + 1])
<1>1. PICK iter : /\ iter = [S \in SUBSET SlotIds |-> After(fates, iter, S)]
                  /\ Folded(fates) = iter[SlotIds]
  BY FoldIsDefined
<1>2. SlotCount \in Nat
  BY GpuReadbackAssumption
<1> DEFINE run == [n \in 0 .. SlotCount |-> iter[1 .. n]]
<1>3. run[0] = Now
  <2>1. 1 .. 0 = {} /\ 0 \in 0 .. SlotCount
    BY <1>2
  <2>2. iter[{}] = After(fates, iter, {})
    BY <1>1
  <2> QED
    BY <2>1, <2>2 DEF After
<1>4. run[SlotCount] = Folded(fates)
  BY <1>1, <1>2 DEF SlotIds
<1>5. ASSUME NEW n \in 0 .. SlotCount - 1
      PROVE  run[n + 1] = Drain(run[n], n + 1, fates[n + 1])
  <2>1. n \in Nat /\ n \in 0 .. SlotCount /\ n + 1 \in 0 .. SlotCount
    BY <1>2
  <2>2. 1 .. n + 1 \subseteq SlotIds
    BY <1>2 DEF SlotIds
  <2>3. iter[1 .. n + 1] = After(fates, iter, 1 .. n + 1)
    BY <1>1, <2>2
  <2>4. After(fates, iter, 1 .. n + 1) = Drain(iter[1 .. n], n + 1, fates[n + 1])
    BY <2>1, GreatestUpTo DEF After
  <2>5. run[n] = iter[1 .. n] /\ run[n + 1] = iter[1 .. n + 1]
    BY <2>1
  <2> QED
    BY <2>3, <2>4, <2>5
<1> HIDE DEF run
<1> QED
  BY <1>3, <1>4, <1>5

-------------------------------------------------------------------------------
(***************************************************************************)
(* What holds in between: the slots that the promises of mapAsync speak of    *)
(* are theirs alone, a slot in use holds a readback, and every readback is      *)
(* pushed, dropped, coalesced or in a slot.  Drain is about the source's state   *)
(* as a record, and so are the parts of the invariant.                       *)
(***************************************************************************)

Serials == 0 .. MaxSchedules
SlotType == [state : {"idle", "scheduled", "in-flight"}, scheduledAt : Serials,
             region : SUBSET Fields, mapped : BOOLEAN, failed : BOOLEAN, readback : Serials]
FrameType == [readback : 1 .. MaxSchedules, frame : [Fields -> Serials],
              expected : [Fields -> Serials]]

Sound(s) ==
    /\ s = [slots |-> s.slots, image |-> s.image, dropped |-> s.dropped,
            destroyed |-> s.destroyed, published |-> s.published, newest |-> s.newest,
            touched |-> s.touched]
    /\ s.slots \in [SlotIds -> SlotType]
    /\ s.image \in Images
    /\ s.dropped \in Nat /\ s.destroyed \in BOOLEAN /\ s.touched \in BOOLEAN
    /\ s.published \in Seq(FrameType)
    /\ s.newest \in [Fields -> Serials]
    /\ \A i \in SlotIds : s.slots[i].state # "idle" => s.slots[i].readback # 0

IdleIn(s) == {i \in SlotIds : s.slots[i].state = "idle"}
Spent(s) == Len(s.published) + s.dropped + (SlotCount - Cardinality(IdleIn(s)))

\* A drain recycles slots that are ready, and no others.
OnlyRecycles(s, t) ==
    \A i \in SlotIds : \/ t.slots[i] = s.slots[i]
                       \/ Ready(s.slots[i]) /\ t.slots[i] = Recycled(s.slots[i])

\* The invariant.
Owned(s, promises) ==
    \A i \in SlotIds :
        /\ promises[i] # "none" => s.slots[i].state = "in-flight" /\ ~s.slots[i].mapped
        /\ s.slots[i].state = "in-flight" /\ promises[i] = "none" =>
               s.slots[i].mapped /\ (AutoDrain => s.destroyed)

PromiseType == [SlotIds -> {"none", "pending", "fulfilled", "rejected"}]

Keeps(s) == PacingMode = "adaptive" => IdleIn(s) # {}

SourceInv ==
    /\ opts \in Options
    /\ Sound(Now)
    /\ promise \in PromiseType
    /\ scheduleSerial \in Serials /\ coalesced \in Nat
    /\ Owned(Now, promise)
    /\ scheduleSerial = Spent(Now) + coalesced
    /\ Keeps(Now)

LEMMA RecycledType ==
    ASSUME NEW slot \in SlotType
    PROVE  /\ Recycled(slot) \in SlotType
           /\ Recycled(slot).state = "idle" /\ Recycled(slot).readback = slot.readback
<1>1. 0 \in Serials
  BY GpuReadbackAssumption DEF Serials
<1>2. Recycled(slot) \in SlotType
  BY <1>1 DEF Recycled, SlotType
<1>3. Recycled(slot).state = "idle" /\ Recycled(slot).readback = slot.readback
  BY DEF Recycled, SlotType
<1> QED
  BY <1>2, <1>3

LEMMA MergedType ==
    ASSUME NEW old \in Images, NEW slot \in SlotType, NEW fate
    PROVE  /\ Merged(old, slot, fate) \in Images
           /\ Frame(Merged(old, slot, fate), slot) \in [Fields -> Serials]
<1>1. slot.readback \in Serials /\ 0 \in Serials
  BY GpuReadbackAssumption DEF SlotType, Serials
<1>2. Merged(old, slot, fate) = NoImage \/ Merged(old, slot, fate) \in [Fields -> Serials]
  <2>1. CASE old = NoImage
    BY <1>1, <2>1 DEF Merged
  <2>2. CASE old # NoImage
    <3>1. old \in [Fields -> Serials]
      BY <2>2 DEF Images, Serials
    <3> QED
      BY <1>1, <2>2, <3>1 DEF Merged
  <2> QED
    BY <2>1, <2>2
<1>3. Frame(Merged(old, slot, fate), slot) \in [Fields -> Serials]
  BY <1>1, <1>2 DEF Frame
<1> QED
  BY <1>2, <1>3 DEF Images, Serials

\* Recycling a slot that is in use makes one more idle.
LEMMA IdleGrows ==
    ASSUME NEW s, NEW t, NEW i \in SlotIds, s.slots[i].state # "idle",
           t.slots[i].state = "idle",
           \A j \in SlotIds \ {i} : t.slots[j] = s.slots[j]
    PROVE  /\ Cardinality(IdleIn(t)) = Cardinality(IdleIn(s)) + 1
           /\ Cardinality(IdleIn(s)) \in Nat /\ IdleIn(t) # {}
<1>1. IsFiniteSet(SlotIds)
  <2>1. 1 \in Int /\ SlotCount \in Int
    BY GpuReadbackAssumption
  <2> QED
    BY <2>1, FS_Interval DEF SlotIds
<1>2. IsFiniteSet(IdleIn(s))
  BY <1>1, FS_Subset DEF IdleIn
<1>3. i \notin IdleIn(s) /\ IdleIn(t) = IdleIn(s) \cup {i}
  BY DEF IdleIn
<1> QED
  BY <1>2, <1>3, FS_AddElement, FS_CardinalityType

\* _drainSlot, of one slot: nothing is made of a slot that is not ready; one that is
\* comes back idle, its readback dropped or pushed.
LEMMA DrainKeeps ==
    ASSUME NEW s, Sound(s), NEW i \in SlotIds, NEW fate, NEW t, t = Drain(s, i, fate)
    PROVE  /\ Sound(t) /\ Spent(t) = Spent(s) /\ OnlyRecycles(s, t)
           /\ s.destroyed => t.destroyed
           /\ Ready(s.slots[i]) => t.slots[i] = Recycled(s.slots[i])
           /\ \A j \in SlotIds \ {i} : t.slots[j] = s.slots[j]
<1> DEFINE slot == s.slots[i]
           freed == [s.slots EXCEPT ![i] = Recycled(slot)]
           merged == Merged(s.image, slot, fate)
           looked == [f \in Fields |-> IF /\ Looks(s, slot, fate) /\ f \in slot.region
                                        /\ slot.readback > s.newest[f]
                                     THEN slot.readback ELSE s.newest[f]]
           handedOn == [readback |-> slot.readback, frame |-> Frame(merged, slot),
                      expected |-> looked]
           Source(image1, dropped1, destroyed1, published1, newest1, touched1) ==
               [slots |-> freed, image |-> image1, dropped |-> dropped1,
                destroyed |-> destroyed1, published |-> published1,
                newest |-> newest1, touched |-> touched1]
<1>1. CASE ~Ready(slot)
  <2>1. t = s
    BY <1>1 DEF Drain
  <2> QED
    BY <1>1, <2>1 DEF OnlyRecycles
<1>2. CASE Ready(slot)
  <2>1. s = [slots |-> s.slots, image |-> s.image, dropped |-> s.dropped,
             destroyed |-> s.destroyed, published |-> s.published, newest |-> s.newest,
             touched |-> s.touched]
    BY DEF Sound
  <2>2. \E ended \in BOOLEAN, touch \in BOOLEAN :
            /\ s.destroyed => ended
            /\ \/ t = Source(s.image, s.dropped + 1, ended, s.published, s.newest, touch)
               \/ t = Source(merged, s.dropped, ended, Append(s.published, handedOn), looked, touch)
               \/ t = Source(merged, s.dropped + 1, ended, s.published, looked, touch)
    <3>1. s.destroyed \in BOOLEAN /\ s.touched \in BOOLEAN
      BY DEF Sound
    <3>2. CASE slot.failed
      <4>1. t = Source(s.image, s.dropped + 1, s.destroyed, s.published, s.newest, s.touched)
        BY <1>2, <2>1, <3>2 DEF Drain
      <4> QED
        BY <3>1, <4>1
    <3>3. CASE ~slot.failed /\ s.destroyed
      <4>1. t = Source(s.image, s.dropped + 1, s.destroyed, s.published, s.newest, TRUE)
        BY <1>2, <2>1, <3>3 DEF Drain
      <4> QED
        BY <3>1, <4>1
    <3>4. CASE ~slot.failed /\ ~s.destroyed /\ fate = "taken"
      <4>1. t = Source(merged, s.dropped, s.destroyed, Append(s.published, handedOn), looked,
                       s.touched)
        BY <1>2, <2>1, <3>4 DEF Drain
      <4> QED
        BY <3>1, <4>1
    <3>5. CASE ~slot.failed /\ ~s.destroyed /\ fate # "taken"
      <4>1. t = Source(merged, s.dropped + 1, fate = "throws, destroyed", s.published, looked,
                       s.touched)
        BY <1>2, <2>1, <3>5 DEF Drain
      <4>2. (fate = "throws, destroyed") \in BOOLEAN
        OBVIOUS
      <4> QED
        BY <3>1, <3>5, <4>1, <4>2
    <3> QED
      BY <3>2, <3>3, <3>4, <3>5
  <2>3. /\ slot \in SlotType /\ s.image \in Images /\ s.dropped \in Nat
        /\ s.destroyed \in BOOLEAN /\ s.touched \in BOOLEAN
        /\ s.published \in Seq(FrameType) /\ s.newest \in [Fields -> Serials]
        /\ slot.state # "idle" /\ slot.readback # 0
    BY <1>2 DEF Sound, Ready
  <2>4. /\ freed \in [SlotIds -> SlotType] /\ freed[i] = Recycled(slot)
        /\ \A j \in SlotIds \ {i} : freed[j] = s.slots[j]
        /\ \A j \in SlotIds : freed[j].state # "idle" => freed[j].readback # 0
    BY <2>3, RecycledType DEF Sound
  <2>5. merged \in Images /\ Frame(merged, slot) \in [Fields -> Serials]
    BY <2>3, MergedType
  <2>6. looked \in [Fields -> Serials] /\ slot.readback \in 1 .. MaxSchedules
    BY <2>3, GpuReadbackAssumption DEF SlotType, Serials
  <2>7. handedOn \in FrameType
    BY <2>5, <2>6 DEF FrameType
  <2>8. Recycled(slot).state = "idle"
    BY <2>3, RecycledType
  <2> HIDE DEF slot, freed, merged, looked, handedOn
  <2>9. PICK ended \in BOOLEAN, touch \in BOOLEAN :
            /\ s.destroyed => ended
            /\ \/ t = Source(s.image, s.dropped + 1, ended, s.published, s.newest, touch)
               \/ t = Source(merged, s.dropped, ended, Append(s.published, handedOn), looked, touch)
               \/ t = Source(merged, s.dropped + 1, ended, s.published, looked, touch)
    BY <2>2
  <2>10. \E im \in Images, ne \in [Fields -> Serials], pu \in Seq(FrameType), dr \in Nat :
            /\ t = Source(im, dr, ended, pu, ne, touch)
            /\ Len(pu) + dr = Len(s.published) + s.dropped + 1
    <3>1. /\ Append(s.published, handedOn) \in Seq(FrameType)
          /\ Len(Append(s.published, handedOn)) = Len(s.published) + 1
          /\ Len(s.published) \in Nat /\ s.dropped \in Nat
      BY <2>3, <2>7
    <3>2. /\ s.dropped + 1 \in Nat
          /\ Len(s.published) + (s.dropped + 1) = Len(s.published) + s.dropped + 1
          /\ Len(Append(s.published, handedOn)) + s.dropped = Len(s.published) + s.dropped + 1
      BY <3>1
    <3> HIDE DEF Source
    <3>3. CASE t = Source(s.image, s.dropped + 1, ended, s.published, s.newest, touch)
      BY <2>3, <3>2, <3>3
    <3>4. CASE t = Source(merged, s.dropped, ended, Append(s.published, handedOn), looked, touch)
      BY <2>3, <2>5, <2>6, <3>1, <3>2, <3>4
    <3>5. CASE t = Source(merged, s.dropped + 1, ended, s.published, looked, touch)
      BY <2>3, <2>5, <2>6, <3>2, <3>5
    <3> QED
      BY <2>9, <3>3, <3>4, <3>5
  <2>11. /\ t.slots = freed
         /\ t = [slots |-> t.slots, image |-> t.image, dropped |-> t.dropped,
                 destroyed |-> t.destroyed, published |-> t.published, newest |-> t.newest,
                 touched |-> t.touched]
         /\ s.destroyed => t.destroyed
         /\ t.image \in Images /\ t.newest \in [Fields -> Serials]
         /\ t.dropped \in Nat /\ t.destroyed \in BOOLEAN /\ t.touched \in BOOLEAN
         /\ t.published \in Seq(FrameType)
         /\ Len(t.published) + t.dropped = Len(s.published) + s.dropped + 1
         /\ Len(t.published) \in Nat
    <3>1. PICK im \in Images, ne \in [Fields -> Serials], pu \in Seq(FrameType), dr \in Nat :
              /\ t = Source(im, dr, ended, pu, ne, touch)
              /\ Len(pu) + dr = Len(s.published) + s.dropped + 1
      BY <2>10
    <3>2. /\ t.slots = freed /\ t.image = im /\ t.dropped = dr /\ t.destroyed = ended
          /\ t.published = pu /\ t.newest = ne /\ t.touched = touch
      BY <3>1
    <3>3. t = [slots |-> t.slots, image |-> t.image, dropped |-> t.dropped,
               destroyed |-> t.destroyed, published |-> t.published, newest |-> t.newest,
               touched |-> t.touched]
      BY <3>1
    <3>4. Len(pu) \in Nat
      OBVIOUS
    <3> HIDE DEF Source
    <3> QED
      BY <2>9, <3>1, <3>2, <3>3, <3>4
  <2>12. Sound(t)
    BY <2>4, <2>11 DEF Sound
  <2>13. /\ Cardinality(IdleIn(t)) = Cardinality(IdleIn(s)) + 1
         /\ Cardinality(IdleIn(s)) \in Nat
    <3>1. /\ s.slots[i].state # "idle" /\ t.slots[i].state = "idle"
          /\ \A j \in SlotIds \ {i} : t.slots[j] = s.slots[j]
      BY <2>3, <2>4, <2>8, <2>11 DEF slot
    <3> QED
      BY <3>1, IdleGrows
  <2>14. Spent(t) = Spent(s)
    <3>1. PICK c \in Nat : c = Cardinality(IdleIn(s)) /\ Cardinality(IdleIn(t)) = c + 1
      BY <2>13
    <3>2. SlotCount \in Nat /\ Len(s.published) \in Nat
      BY <2>3, GpuReadbackAssumption
    <3> QED
      BY <2>3, <2>11, <3>1, <3>2 DEF Spent
  <2>15. OnlyRecycles(s, t)
    BY <1>2, <2>4, <2>11 DEF OnlyRecycles, slot
  <2> QED
    BY <2>4, <2>11, <2>12, <2>14, <2>15 DEF slot
<1> QED
  BY <1>1, <1>2

LEMMA RecyclesTwice ==
    ASSUME NEW s, NEW t, NEW u, Sound(s), OnlyRecycles(s, t), OnlyRecycles(t, u)
    PROVE  OnlyRecycles(s, u)
<1>1. ASSUME NEW i \in SlotIds
      PROVE  \/ u.slots[i] = s.slots[i]
             \/ Ready(s.slots[i]) /\ u.slots[i] = Recycled(s.slots[i])
  <2>1. Recycled(s.slots[i]).state = "idle"
    BY RecycledType DEF Sound
  <2>2. ~Ready(Recycled(s.slots[i]))
    BY <2>1 DEF Ready
  <2> QED
    BY <2>2 DEF OnlyRecycles
<1> QED
  BY <1>1 DEF OnlyRecycles

\* pollCompleted keeps what each of its drains keeps.
LEMMA PollKeeps ==
    ASSUME Sound(Now), NEW fates, NEW t, t = Folded(fates)
    PROVE  /\ Sound(t) /\ Spent(t) = Spent(Now) /\ OnlyRecycles(Now, t)
           /\ destroyed => t.destroyed
<1>1. PICK run : /\ run[0] = Now /\ run[SlotCount] = Folded(fates)
                 /\ \A n \in 0 .. SlotCount - 1 :
                        run[n + 1] = Drain(run[n], n + 1, fates[n + 1])
  BY PollIsARun
<1>2. SlotCount \in Nat
  BY GpuReadbackAssumption
<1> DEFINE Kept(n) == /\ Sound(run[n]) /\ Spent(run[n]) = Spent(Now)
                      /\ OnlyRecycles(Now, run[n])
                      /\ destroyed => run[n].destroyed
           T == {n \in Nat : n <= SlotCount => Kept(n)}
<1>3. 0 \in T
  <2>1. OnlyRecycles(Now, Now)
    BY DEF OnlyRecycles
  <2>2. Now.destroyed = destroyed
    BY DEF Now
  <2> QED
    BY <1>1, <2>1, <2>2
<1>4. ASSUME NEW n \in Nat, n \in T PROVE n + 1 \in T
  <2>1. CASE n + 1 <= SlotCount
    <3>1. n \in 0 .. SlotCount - 1 /\ n + 1 \in SlotIds /\ n <= SlotCount
      BY <1>2, <2>1 DEF SlotIds
    <3>2. Kept(n)
      BY <1>4, <3>1
    <3>3. run[n + 1] = Drain(run[n], n + 1, fates[n + 1])
      BY <1>1, <3>1
    <3>4. /\ Sound(run[n + 1]) /\ Spent(run[n + 1]) = Spent(run[n])
          /\ OnlyRecycles(run[n], run[n + 1])
          /\ run[n].destroyed => run[n + 1].destroyed
      BY <3>1, <3>2, <3>3, DrainKeeps
    <3>5. OnlyRecycles(Now, run[n + 1])
      BY <3>2, <3>4, RecyclesTwice
    <3> QED
      BY <3>2, <3>4, <3>5
  <2>2. CASE ~(n + 1 <= SlotCount)
    BY <2>2
  <2> QED
    BY <2>1, <2>2
<1>5. SlotCount \in T
  <2> HIDE DEF T
  <2> QED
    BY <1>2, <1>3, <1>4, CountUp
<1> QED
  BY <1>1, <1>2, <1>5

LEMMA NowFields ==
    /\ Now.slots = slots /\ Now.image = image /\ Now.dropped = dropped
    /\ Now.destroyed = destroyed /\ Now.published = published /\ Now.newest = newest
    /\ Now.touched = touched
    /\ IdleIn(Now) = InState("idle")
BY DEF Now, IdleIn, InState

LEMMA SlotsAreFinite ==
    ASSUME NEW s
    PROVE  /\ SlotCount \in Nat \ {0, 1} /\ IsFiniteSet(SlotIds)
           /\ IsFiniteSet(IdleIn(s)) /\ Cardinality(IdleIn(s)) \in 0 .. SlotCount
<1>1. SlotCount \in Nat \ {0, 1} /\ 1 \in Int /\ SlotCount \in Int
  BY GpuReadbackAssumption
<1>2. IsFiniteSet(SlotIds) /\ Cardinality(SlotIds) = SlotCount
  BY <1>1, FS_Interval DEF SlotIds
<1>3. IsFiniteSet(IdleIn(s)) /\ Cardinality(IdleIn(s)) <= SlotCount
  BY <1>2, FS_Subset DEF IdleIn
<1>4. Cardinality(IdleIn(s)) \in Nat
  BY <1>3, FS_CardinalityType
<1> QED
  BY <1>1, <1>2, <1>3, <1>4

\* A call or a job that leaves the source in a good state leaves the invariant.
LEMMA BecomeKeeps ==
    ASSUME SourceInv, NEW t, Sound(t), Spent(t) = Spent(Now), NEW promises \in PromiseType,
           Owned(t, promises), Keeps(t), Become(t, promises)
    PROVE  SourceInv'
<1>1. Now' = t
  BY DEF Become, Now, Sound
<1>2. /\ opts' = opts /\ scheduleSerial' = scheduleSerial /\ coalesced' = coalesced
      /\ promise' = [i \in SlotIds |-> IF t.destroyed /\ promises[i] = "pending"
                                       THEN "rejected" ELSE promises[i]]
  BY DEF Become
<1>3. promise' \in PromiseType
  BY <1>2 DEF PromiseType
<1>4. Sound(Now')
  BY <1>1
<1>5. Spent(Now') = Spent(Now)
  BY <1>1
<1>6. Keeps(Now)'
  BY <1>1, <1>2 DEF Keeps, PacingMode
<1>7. Owned(Now, promise)'
  <2>1. \A i \in SlotIds : promise'[i] = "none" <=> promises[i] = "none"
    BY <1>2 DEF PromiseType
  <2> QED
    BY <1>1, <1>2, <2>1 DEF Owned, AutoDrain
<1>8. SourceInv
  OBVIOUS
<1> QED
  BY <1>2, <1>3, <1>4, <1>5, <1>6, <1>7 DEF SourceInv

LEMMA RecyclingKeeps ==
    ASSUME NEW s, NEW t, Sound(s), OnlyRecycles(s, t), Keeps(s)
    PROVE  Keeps(t)
<1>1. \A i \in SlotIds : Recycled(s.slots[i]).state = "idle"
  BY RecycledType DEF Sound
<1>2. IdleIn(s) \subseteq IdleIn(t)
  BY <1>1 DEF IdleIn, OnlyRecycles
<1> QED
  BY <1>2 DEF Keeps

LEMMA PollStep ==
    ASSUME SourceInv, Poll
    PROVE  SourceInv'
<1>1. PICK fates \in [ReadySlots -> Fates] : Become(Folded(fates), promise)
  BY DEF Poll, Folded
<1>2. PICK t : t = Folded(fates)
  OBVIOUS
<1>3. /\ Sound(t) /\ Spent(t) = Spent(Now) /\ OnlyRecycles(Now, t)
      /\ ~destroyed
  BY <1>2, PollKeeps DEF SourceInv, Poll
<1>4. Owned(t, promise)
  <2>1. ASSUME NEW i \in SlotIds
        PROVE  /\ promise[i] # "none" => t.slots[i].state = "in-flight" /\ ~t.slots[i].mapped
               /\ t.slots[i].state = "in-flight" /\ promise[i] = "none" =>
                      t.slots[i].mapped /\ (AutoDrain => t.destroyed)
    <3>1. Recycled(slots[i]).state = "idle"
      BY RecycledType, NowFields DEF SourceInv, Sound
    <3>2. \/ t.slots[i] = slots[i]
          \/ Ready(slots[i]) /\ t.slots[i] = Recycled(slots[i])
      BY <1>3, NowFields DEF OnlyRecycles
    <3>3. /\ promise[i] # "none" => slots[i].state = "in-flight" /\ ~slots[i].mapped
          /\ slots[i].state = "in-flight" /\ promise[i] = "none" =>
                 slots[i].mapped /\ ~AutoDrain
      BY <1>3, NowFields DEF SourceInv, Owned
    <3>4. CASE t.slots[i] = slots[i]
      BY <3>3, <3>4
    <3>5. CASE Ready(slots[i]) /\ t.slots[i] = Recycled(slots[i])
      BY <3>1, <3>3, <3>5 DEF Ready
    <3> QED
      BY <3>2, <3>4, <3>5
  <2> QED
    BY <2>1 DEF Owned
<1>5. Keeps(t)
  BY <1>3, RecyclingKeeps DEF SourceInv
<1>6. promise \in PromiseType /\ Become(t, promise)
  BY <1>1, <1>2 DEF SourceInv
<1> QED
  BY <1>3, <1>4, <1>5, <1>6, BecomeKeeps

\* The job of a settled promise marks its slot mapped, and may drain it.
LEMMA JobKeeps ==
    ASSUME SourceInv, NEW i \in SlotIds, promise[i] # "none",
           NEW s, Sound(s), s.slots[i].state = "in-flight", s.slots[i].mapped,
           \A j \in SlotIds \ {i} : s.slots[j] = slots[j],
           s.published = published, s.dropped = dropped, destroyed => s.destroyed,
           NEW fate, NEW t, t = AutoDrainSlot(s, i, fate), Become(t, Done(i))
    PROVE  SourceInv'
<1>1. slots[i].state = "in-flight"
  BY NowFields DEF SourceInv, Owned
<1>2. IdleIn(s) = IdleIn(Now) /\ Spent(s) = Spent(Now)
  BY <1>1, NowFields DEF IdleIn, Spent
<1>3. Keeps(s)
  BY <1>2 DEF SourceInv, Keeps
<1>4. /\ Sound(t) /\ Spent(t) = Spent(s) /\ OnlyRecycles(s, t)
      /\ s.destroyed => t.destroyed
      /\ \A j \in SlotIds \ {i} : t.slots[j] = s.slots[j]
      /\ AutoDrain /\ ~s.destroyed => t.slots[i].state = "idle"
      /\ ~(AutoDrain /\ ~s.destroyed) => t = s
  <2>1. CASE AutoDrain /\ ~s.destroyed
    <3>1. t = Drain(s, i, fate) /\ Ready(s.slots[i])
      BY <2>1 DEF AutoDrainSlot, Ready
    <3>2. Recycled(s.slots[i]).state = "idle"
      BY RecycledType DEF Sound
    <3> QED
      BY <2>1, <3>1, <3>2, DrainKeeps
  <2>2. CASE ~(AutoDrain /\ ~s.destroyed)
    <3>1. t = s
      BY <2>2 DEF AutoDrainSlot
    <3> QED
      BY <2>2, <3>1 DEF OnlyRecycles
  <2> QED
    BY <2>1, <2>2
<1>5. /\ Done(i) \in PromiseType /\ Done(i)[i] = "none"
      /\ \A j \in SlotIds \ {i} : Done(i)[j] = promise[j]
  BY DEF SourceInv, PromiseType, Done
<1>6. Owned(t, Done(i))
  <2>1. ASSUME NEW j \in SlotIds \ {i}
        PROVE  /\ Done(i)[j] # "none" => t.slots[j].state = "in-flight" /\ ~t.slots[j].mapped
               /\ t.slots[j].state = "in-flight" /\ Done(i)[j] = "none" =>
                      t.slots[j].mapped /\ (AutoDrain => t.destroyed)
    <3>1. t.slots[j] = slots[j] /\ Done(i)[j] = promise[j] /\ (destroyed => t.destroyed)
      BY <1>4, <1>5
    <3> QED
      BY <3>1, NowFields DEF SourceInv, Owned
  <2>2. t.slots[i].state = "in-flight" => t.slots[i].mapped /\ (AutoDrain => t.destroyed)
    BY <1>4
  <2> QED
    BY <1>5, <2>1, <2>2 DEF Owned
<1>7. Keeps(t)
  BY <1>3, <1>4, RecyclingKeeps
<1>8. Spent(t) = Spent(Now)
  BY <1>2, <1>4
<1> QED
  BY <1>4, <1>5, <1>6, <1>7, <1>8, BecomeKeeps

\* A job marks one slot, and nothing else in it.
LEMMA MarkedSlot ==
    ASSUME NEW slot \in SlotType
    PROVE  /\ [slot EXCEPT !.mapped = TRUE] \in SlotType
           /\ [slot EXCEPT !.mapped = TRUE].state = slot.state
           /\ [slot EXCEPT !.mapped = TRUE].readback = slot.readback
           /\ [slot EXCEPT !.mapped = TRUE].mapped
           /\ [slot EXCEPT !.failed = TRUE] \in SlotType
           /\ [slot EXCEPT !.failed = TRUE].state = slot.state
           /\ [slot EXCEPT !.failed = TRUE].readback = slot.readback
           /\ [slot EXCEPT !.failed = TRUE].mapped = slot.mapped
BY DEF SlotType

\* A failed map is reported to onError, which may answer with destroy().
Answered(i, answer) == [Failed(i) EXCEPT !.destroyed = @ \/ answer]

\* What the job of a settled promise makes of the source before it drains.
LEMMA MappedIsSound ==
    ASSUME SourceInv, NEW i \in SlotIds, promise[i] # "none", NEW answer \in BOOLEAN,
           NEW s, s = Mapped(i) \/ s = Answered(i, answer)
    PROVE  /\ Sound(s)
           /\ s.slots[i].state = "in-flight" /\ s.slots[i].mapped
           /\ \A j \in SlotIds \ {i} : s.slots[j] = slots[j]
           /\ s.published = published /\ s.dropped = dropped
           /\ s.image = image /\ s.newest = newest
           /\ s.slots[i].readback = slots[i].readback
           /\ destroyed => s.destroyed
<1> DEFINE Marked(m) ==
               /\ Sound(m)
               /\ m.slots[i].state = "in-flight" /\ m.slots[i].mapped
               /\ \A j \in SlotIds \ {i} : m.slots[j] = slots[j]
               /\ m.published = published /\ m.dropped = dropped
               /\ m.image = image /\ m.newest = newest
               /\ m.slots[i].readback = slots[i].readback
               /\ destroyed => m.destroyed
<1>1. slots[i].state = "in-flight" /\ Sound(Now)
  BY NowFields DEF SourceInv, Owned
<1>2. PICK n : n = Now
  OBVIOUS
<1>3. PICK m : m = [n EXCEPT !.slots[i].mapped = TRUE]
  OBVIOUS
<1>4. m = Mapped(i)
  BY <1>2, <1>3 DEF Mapped
<1>5. Marked(m)
  <2>1. /\ m = [slots |-> m.slots, image |-> m.image, dropped |-> m.dropped,
                destroyed |-> m.destroyed, published |-> m.published, newest |-> m.newest,
                touched |-> m.touched]
        /\ m.slots = [n.slots EXCEPT ![i].mapped = TRUE]
        /\ m.image = n.image /\ m.dropped = n.dropped /\ m.destroyed = n.destroyed
        /\ m.published = n.published /\ m.newest = n.newest /\ m.touched = n.touched
    BY <1>1, <1>2, <1>3 DEF Sound
  <2>2. PICK all \in [SlotIds -> SlotType] : all = n.slots
    BY <1>1, <1>2 DEF Sound
  <2>3. /\ m.slots \in [SlotIds -> SlotType]
        /\ m.slots[i].state = all[i].state /\ m.slots[i].mapped
        /\ m.slots[i].readback = all[i].readback
        /\ \A j \in SlotIds \ {i} : m.slots[j] = all[j]
    <3>1. PICK slot \in SlotType : slot = all[i]
      OBVIOUS
    <3>2. PICK one : one = [slot EXCEPT !.mapped = TRUE]
      OBVIOUS
    <3>3. m.slots = [all EXCEPT ![i] = one]
      BY <2>1, <2>2, <3>1, <3>2
    <3>4. one \in SlotType /\ one.state = slot.state /\ one.readback = slot.readback
      BY <3>2, MarkedSlot
    <3>5. one.mapped
      BY <3>2, MarkedSlot
    <3> QED
      BY <3>1, <3>3, <3>4, <3>5
  <2>4. /\ n.slots = slots /\ n.published = published /\ n.dropped = dropped
        /\ n.destroyed = destroyed /\ n.image = image /\ n.newest = newest
    BY <1>2, NowFields
  <2>5. \A j \in SlotIds : m.slots[j].state # "idle" => m.slots[j].readback # 0
    BY <1>1, <1>2, <2>2, <2>3 DEF Sound
  <2>6. Sound(m)
    BY <1>1, <1>2, <2>1, <2>3, <2>5 DEF Sound
  <2> QED
    BY <1>1, <2>1, <2>2, <2>3, <2>4, <2>6
<1>6. PICK b : b = [m EXCEPT !.slots[i].failed = TRUE]
  OBVIOUS
<1>7. b = Failed(i)
  BY <1>4, <1>6 DEF Failed
<1>8. Marked(b)
  <2>1. /\ b = [slots |-> b.slots, image |-> b.image, dropped |-> b.dropped,
                destroyed |-> b.destroyed, published |-> b.published, newest |-> b.newest,
                touched |-> b.touched]
        /\ b.slots = [m.slots EXCEPT ![i].failed = TRUE]
        /\ b.image = m.image /\ b.dropped = m.dropped /\ b.destroyed = m.destroyed
        /\ b.published = m.published /\ b.newest = m.newest /\ b.touched = m.touched
    BY <1>5, <1>6 DEF Sound
  <2>2. PICK all \in [SlotIds -> SlotType] : all = m.slots
    BY <1>5 DEF Sound
  <2>3. /\ b.slots \in [SlotIds -> SlotType]
        /\ b.slots[i].state = all[i].state /\ b.slots[i].mapped
        /\ b.slots[i].readback = all[i].readback
        /\ \A j \in SlotIds \ {i} : b.slots[j] = all[j]
    <3>1. PICK slot \in SlotType : slot = all[i]
      OBVIOUS
    <3>2. PICK one : one = [slot EXCEPT !.failed = TRUE]
      OBVIOUS
    <3>3. b.slots = [all EXCEPT ![i] = one]
      BY <2>1, <2>2, <3>1, <3>2
    <3>4. one \in SlotType /\ one.state = slot.state /\ one.readback = slot.readback
      BY <3>2, MarkedSlot
    <3>5. one.mapped = slot.mapped /\ all[i].mapped
      BY <1>5, <2>2, <3>2, MarkedSlot
    <3> QED
      BY <3>1, <3>3, <3>4, <3>5
  <2>4. \A j \in SlotIds : b.slots[j].state # "idle" => b.slots[j].readback # 0
    BY <1>5, <2>2, <2>3 DEF Sound
  <2>5. Sound(b)
    BY <1>5, <2>1, <2>3, <2>4 DEF Sound
  <2> QED
    BY <1>5, <2>1, <2>2, <2>3, <2>5
<1>9. PICK e : e = [b EXCEPT !.destroyed = @ \/ answer]
  OBVIOUS
<1>10. Marked(e)
  <2>1. /\ e = [slots |-> e.slots, image |-> e.image, dropped |-> e.dropped,
                destroyed |-> e.destroyed, published |-> e.published, newest |-> e.newest,
                touched |-> e.touched]
        /\ e.slots = b.slots
        /\ e.image = b.image /\ e.dropped = b.dropped
        /\ e.published = b.published /\ e.newest = b.newest /\ e.touched = b.touched
        /\ e.destroyed \in BOOLEAN /\ (b.destroyed => e.destroyed)
    BY <1>8, <1>9 DEF Sound
  <2>2. Sound(e)
    BY <1>8, <2>1 DEF Sound
  <2> QED
    BY <1>8, <2>1, <2>2
<1>11. s = m \/ s = e
  BY <1>4, <1>7, <1>9 DEF Answered
<1> QED
  BY <1>5, <1>10, <1>11

LEMMA JobStep ==
    ASSUME SourceInv, NEW i \in SlotIds, Job(i)
    PROVE  SourceInv'
<1>1. CASE OnFulfilled(i)
  <2>1. PICK fate \in Fates : Become(AutoDrainSlot(Mapped(i), i, fate), Done(i))
    BY <1>1 DEF OnFulfilled
  <2>2. promise[i] # "none" /\ TRUE \in BOOLEAN
    BY <1>1 DEF OnFulfilled
  <2>3. PICK s : s = Mapped(i)
    OBVIOUS
  <2>4. PICK t : t = AutoDrainSlot(s, i, fate)
    OBVIOUS
  <2>5. /\ Sound(s) /\ s.slots[i].state = "in-flight" /\ s.slots[i].mapped
        /\ \A j \in SlotIds \ {i} : s.slots[j] = slots[j]
        /\ s.published = published /\ s.dropped = dropped
        /\ destroyed => s.destroyed
    <3>1. s = Mapped(i) \/ s = Answered(i, TRUE)
      BY <2>3
    <3> QED
      BY <2>2, <3>1, MappedIsSound, ZenonT(40)
  <2>6. Become(t, Done(i))
    BY <2>1, <2>3, <2>4
  <2> QED
    BY <2>2, <2>4, <2>5, <2>6, JobKeeps
<1>2. CASE OnRejected(i)
  <2>1. PICK answer \in BOOLEAN :
            Become(AutoDrainSlot(Answered(i, answer), i, "taken"), Done(i))
    BY <1>2 DEF OnRejected, Answered
  <2>2. promise[i] # "none"
    BY <1>2 DEF OnRejected
  <2>3. PICK s : s = Answered(i, answer)
    OBVIOUS
  <2>4. PICK t : t = AutoDrainSlot(s, i, "taken")
    OBVIOUS
  <2>5. s = Mapped(i) \/ s = Answered(i, answer)
    BY <2>3
  <2>6. /\ Sound(s) /\ s.slots[i].state = "in-flight" /\ s.slots[i].mapped
        /\ \A j \in SlotIds \ {i} : s.slots[j] = slots[j]
        /\ s.published = published /\ s.dropped = dropped
        /\ destroyed => s.destroyed
    BY <2>2, <2>5, MappedIsSound
  <2>7. Become(t, Done(i))
    BY <2>1, <2>3, <2>4
  <2> QED
    BY <2>2, <2>4, <2>6, <2>7, JobKeeps
<1> QED
  BY <1>1, <1>2 DEF Job

LEMMA DestroyStep ==
    ASSUME SourceInv, Destroy
    PROVE  SourceInv'
<1>1. PICK t : t = [Now EXCEPT !.destroyed = TRUE]
  OBVIOUS
<1>2. t = [slots |-> slots, image |-> image, dropped |-> dropped, destroyed |-> TRUE,
           published |-> published, newest |-> newest, touched |-> touched]
  BY <1>1 DEF Now
<1>3. Sound(t)
  BY <1>2, NowFields DEF SourceInv, Sound
<1>4. IdleIn(t) = IdleIn(Now) /\ Spent(t) = Spent(Now)
  BY <1>2, NowFields DEF IdleIn, Spent
<1>5. Keeps(t)
  BY <1>4 DEF SourceInv, Keeps
<1>6. Owned(t, promise)
  BY <1>2, NowFields DEF SourceInv, Owned
<1>7. promise \in PromiseType /\ Become(t, promise)
  BY <1>1 DEF SourceInv, Destroy
<1> QED
  BY <1>3, <1>4, <1>5, <1>6, <1>7, BecomeKeeps

\* The GPU settles a promise that is out: it stays out until its job runs.
LEMMA SettleStep ==
    ASSUME SourceInv, NEW i \in SlotIds, Settle(i)
    PROVE  SourceInv'
<1>1. PICK result \in {"fulfilled", "rejected"} : promise' = [promise EXCEPT ![i] = result]
  BY DEF Settle
<1>2. /\ promise[i] = "pending" /\ promise \in PromiseType
      /\ UNCHANGED <<opts, slots, scheduleSerial, coalesced, outcome>>
  BY DEF Settle, SourceInv
<1>3. promise' \in PromiseType /\ \A j \in SlotIds : promise'[j] = "none" <=> promise[j] = "none"
  BY <1>1, <1>2 DEF PromiseType
<1>4. Now' = Now
  BY <1>2 DEF Now, outcome
<1>5. Owned(Now, promise)'
  BY <1>2, <1>3, <1>4 DEF SourceInv, Owned, AutoDrain
<1>6. Keeps(Now)'
  BY <1>2, <1>4 DEF SourceInv, Keeps, PacingMode
<1>7. Sound(Now') /\ Spent(Now') = Spent(Now)
  BY <1>4 DEF SourceInv
<1> QED
  BY <1>2, <1>3, <1>5, <1>6, <1>7 DEF SourceInv

LEMMA FlushStep ==
    ASSUME SourceInv, Flush
    PROVE  SourceInv'
<1>1. /\ slots' = [i \in SlotIds |->
                     IF slots[i].state = "scheduled"
                     THEN [slots[i] EXCEPT !.state = "in-flight", !.scheduledAt = 0,
                                           !.mapped = FALSE]
                     ELSE slots[i]]
      /\ promise' = [i \in SlotIds |->
                       IF slots[i].state = "scheduled" THEN "pending" ELSE promise[i]]
      /\ UNCHANGED <<opts, scheduleSerial, coalesced, outcome>>
  BY DEF Flush
<1>2. /\ slots \in [SlotIds -> SlotType] /\ promise \in PromiseType
      /\ \A j \in SlotIds : slots[j].state # "idle" => slots[j].readback # 0
  BY NowFields DEF SourceInv, Sound
<1>3. 0 \in Serials
  BY GpuReadbackAssumption DEF Serials
<1>4. ASSUME NEW i \in SlotIds
      PROVE  /\ slots[i].state # "scheduled" => slots'[i] = slots[i] /\ promise'[i] = promise[i]
             /\ slots[i].state = "scheduled" =>
                    /\ slots'[i].state = "in-flight" /\ ~slots'[i].mapped
                    /\ promise'[i] = "pending" /\ slots'[i].readback = slots[i].readback
             /\ slots'[i] \in SlotType
  <2>1. CASE slots[i].state = "scheduled"
    <3>1. slots'[i] = [slots[i] EXCEPT !.state = "in-flight", !.scheduledAt = 0,
                                       !.mapped = FALSE]
      BY <1>1, <2>1
    <3>2. PICK slot \in SlotType : slot = slots[i]
      BY <1>2
    <3>3. slots'[i] = [slot EXCEPT !.state = "in-flight", !.scheduledAt = 0, !.mapped = FALSE]
      BY <3>1, <3>2
    <3>4. slots'[i] \in SlotType
      BY <1>3, <3>3 DEF SlotType
    <3>5. /\ slots'[i].state = "in-flight" /\ ~slots'[i].mapped
          /\ slots'[i].readback = slot.readback
      BY <3>3 DEF SlotType
    <3> QED
      BY <1>1, <2>1, <3>2, <3>4, <3>5
  <2>2. CASE slots[i].state # "scheduled"
    BY <1>1, <1>2, <2>2
  <2> QED
    BY <2>1, <2>2
<1>5. slots' \in [SlotIds -> SlotType] /\ promise' \in PromiseType
  BY <1>1, <1>2, <1>4 DEF PromiseType
<1>6. /\ image' = image /\ dropped' = dropped /\ destroyed' = destroyed /\ opts' = opts
      /\ published' = published /\ newest' = newest /\ touched' = touched
      /\ scheduleSerial' = scheduleSerial /\ coalesced' = coalesced
  BY <1>1 DEF outcome
<1>7. Sound(Now')
  <2>1. \A j \in SlotIds : slots'[j].state # "idle" => slots'[j].readback # 0
    BY <1>2, <1>4
  <2> QED
    BY <1>5, <1>6, <2>1, NowFields DEF SourceInv, Sound, Now
<1>8. IdleIn(Now') = IdleIn(Now)
  BY <1>4 DEF IdleIn, Now
<1>9. Spent(Now') = Spent(Now)
  BY <1>6, <1>8 DEF Spent, Now
<1>10. Owned(Now, promise)'
  BY <1>4, <1>6, NowFields DEF SourceInv, Owned, Now, AutoDrain
<1>11. Keeps(Now)'
  BY <1>6, <1>8 DEF SourceInv, Keeps, PacingMode
<1> QED
  BY <1>5, <1>6, <1>7, <1>9, <1>10, <1>11 DEF SourceInv

\* A readback that is encoded takes a free slot, and adaptive pacing does not let it
\* have the last; or it takes over a slot that was to read, and that one is coalesced.
LEMMA ScheduleStep ==
    ASSUME SourceInv, NEW region \in Regions, Schedule(region)
    PROVE  SourceInv'
<1>1. PICK i \in SlotIds :
          /\ Encode(i, region)
          /\ \/ slots[i].state = "idle" /\ coalesced' = coalesced
             \/ /\ slots[i].state = "scheduled" /\ InState("idle") = {}
                /\ coalesced' = coalesced + 1
  BY DEF Schedule, InState
<1>2. /\ scheduleSerial < MaxSchedules /\ ~Declines
      /\ opts' = opts /\ promise' = promise /\ UNCHANGED outcome
  BY DEF Schedule
<1>3. /\ slots \in [SlotIds -> SlotType] /\ promise \in PromiseType
      /\ \A j \in SlotIds : slots[j].state # "idle" => slots[j].readback # 0
      /\ scheduleSerial \in Serials /\ coalesced \in Nat /\ Owned(Now, promise)
  BY NowFields DEF SourceInv, Sound
<1>4. scheduleSerial \in Nat /\ scheduleSerial + 1 \in Serials /\ region \in SUBSET Fields
  BY <1>2, <1>3, GpuReadbackAssumption DEF Serials
<1>5. PICK slot \in SlotType : slot = slots[i]
  BY <1>3
<1>6. PICK one : one = [slot EXCEPT !.state = "scheduled", !.scheduledAt = scheduleSerial + 1,
                                    !.region = region, !.readback = scheduleSerial + 1]
  OBVIOUS
<1>7. slots' = [slots EXCEPT ![i] = one] /\ scheduleSerial' = scheduleSerial + 1
  BY <1>1, <1>5, <1>6 DEF Encode
<1>8. one \in SlotType
  BY <1>4, <1>6 DEF SlotType
<1>9. one.state = "scheduled" /\ one.readback = scheduleSerial + 1
  BY <1>6 DEF SlotType
<1>10. /\ slots' \in [SlotIds -> SlotType] /\ slots'[i] = one
       /\ \A j \in SlotIds \ {i} : slots'[j] = slots[j]
  BY <1>3, <1>7, <1>8
<1>11. /\ image' = image /\ dropped' = dropped /\ destroyed' = destroyed
       /\ published' = published /\ newest' = newest /\ touched' = touched
  BY <1>2 DEF outcome
<1>12. Sound(Now')
  <2>1. \A j \in SlotIds : slots'[j].state # "idle" => slots'[j].readback # 0
    BY <1>3, <1>4, <1>9, <1>10
  <2> QED
    BY <1>10, <1>11, <2>1, NowFields DEF SourceInv, Sound, Now
<1>13. Owned(Now, promise)'
  <2>1. promise[i] = "none"
    BY <1>1, <1>3, NowFields DEF Owned
  <2>2. ASSUME NEW j \in SlotIds \ {i}
        PROVE  /\ promise[j] # "none" => slots'[j].state = "in-flight" /\ ~slots'[j].mapped
               /\ slots'[j].state = "in-flight" /\ promise[j] = "none" =>
                      slots'[j].mapped /\ (AutoDrain => destroyed)
    BY <1>3, <1>10, NowFields DEF Owned
  <2>3. Now'.slots = slots' /\ Now'.destroyed = destroyed /\ (AutoDrain <=> AutoDrain')
    BY <1>2, <1>11 DEF Now, AutoDrain
  <2> QED
    BY <1>2, <1>9, <1>10, <2>1, <2>2, <2>3 DEF Owned
<1>14. PICK n : n = Now'
  OBVIOUS
<1>15. n.slots = slots' /\ n.published = published /\ n.dropped = dropped
  BY <1>11, <1>14 DEF Now
<1>16. /\ Len(published) \in Nat /\ dropped \in Nat /\ SlotCount \in Nat \ {0, 1}
       /\ scheduleSerial = Spent(Now) + coalesced
  <2>1. published \in Seq(FrameType) /\ dropped \in Nat
    BY NowFields DEF SourceInv, Sound
  <2> QED
    BY <2>1, SlotsAreFinite DEF SourceInv
<1>17. PICK c \in Nat : c = Cardinality(IdleIn(Now))
  BY SlotsAreFinite
<1>18. Spent(Now) = Len(published) + dropped + (SlotCount - c)
  BY <1>17, NowFields DEF Spent
<1>19. Spent(n) = Len(published) + dropped + (SlotCount - Cardinality(IdleIn(n)))
  BY <1>15 DEF Spent
<1>20. scheduleSerial' = Spent(n) + coalesced' /\ coalesced' \in Nat /\ Keeps(n)
  <2>1. CASE slots[i].state = "idle" /\ coalesced' = coalesced
    <3>1. c = Cardinality(IdleIn(n)) + 1 /\ Cardinality(IdleIn(n)) \in Nat
      <4>1. /\ n.slots[i].state # "idle" /\ Now.slots[i].state = "idle"
            /\ \A j \in SlotIds \ {i} : Now.slots[j] = n.slots[j]
        BY <1>9, <1>10, <1>15, <2>1, NowFields, SMTT(30)
      <4> QED
        BY <1>17, <4>1, IdleGrows
    <3>2. PICK d \in Nat : d = Cardinality(IdleIn(n)) /\ c = d + 1
      BY <3>1
    <3>3. Spent(n) = Spent(Now) + 1
      BY <1>16, <1>18, <1>19, <3>2, SMTT(30)
    <3>4. Spent(Now) \in Int
      BY <1>16, <1>18
    <3>5. ASSUME PacingMode = "adaptive" PROVE IdleIn(n) # {}
      <4>1. ~ (SlotCount - c >= SlotCount - 1)
        BY <1>2, <1>17, <3>5, NowFields DEF Declines, InFlight
      <4>2. d # 0
        BY <1>16, <3>2, <4>1
      <4> QED
        BY <3>2, <4>2, FS_EmptySet
    <3> QED
      BY <1>3, <1>7, <1>16, <2>1, <3>3, <3>4, <3>5 DEF Keeps
  <2>2. CASE /\ slots[i].state = "scheduled" /\ InState("idle") = {}
             /\ coalesced' = coalesced + 1
    <3>1. IdleIn(n) = IdleIn(Now)
      BY <1>9, <1>10, <1>15, <2>2, NowFields DEF IdleIn
    <3>2. Spent(n) = Spent(Now) /\ Spent(Now) \in Int
      BY <1>16, <1>17, <1>18, <1>19, <3>1
    <3>3. Keeps(n)
      BY <3>1 DEF SourceInv, Keeps
    <3> QED
      BY <1>3, <1>7, <1>16, <2>2, <3>2, <3>3
  <2> QED
    BY <1>1, <2>1, <2>2
<1>21. Keeps(Now)'
  BY <1>2, <1>14, <1>20 DEF Keeps, PacingMode
<1> QED
  BY <1>2, <1>3, <1>4, <1>7, <1>12, <1>13, <1>14, <1>20, <1>21 DEF SourceInv

LEMMA SourceStarts ==
    ASSUME Init
    PROVE  SourceInv
<1>1. /\ opts \in Options /\ 0 \in Serials
      /\ slots = [i \in SlotIds |->
                    [state |-> "idle", scheduledAt |-> 0, region |-> Fields,
                     mapped |-> FALSE, failed |-> FALSE, readback |-> 0]]
      /\ promise = [i \in SlotIds |-> "none"]
      /\ scheduleSerial = 0 /\ dropped = 0 /\ coalesced = 0 /\ destroyed = FALSE
      /\ published = <<>> /\ newest = Zeros /\ touched = FALSE
  BY GpuReadbackAssumption DEF Init, Serials
<1>2. image \in Images
  BY GpuReadbackAssumption DEF Init, Images, Zeros
<1>3. /\ slots \in [SlotIds -> SlotType] /\ \A i \in SlotIds : slots[i].state = "idle"
  BY <1>1 DEF SlotType
<1>4. newest \in [Fields -> Serials] /\ published \in Seq(FrameType) /\ Len(published) = 0
  BY <1>1 DEF Zeros
<1>5. Sound(Now)
  <2>1. dropped \in Nat /\ destroyed \in BOOLEAN /\ touched \in BOOLEAN
    BY <1>1
  <2> QED
    BY <1>2, <1>3, <1>4, <2>1, NowFields DEF Sound, Now
<1>6. promise \in PromiseType /\ Owned(Now, promise)
  BY <1>1, <1>3, NowFields DEF PromiseType, Owned
<1>7. IdleIn(Now) = SlotIds
  BY <1>3, NowFields DEF IdleIn
<1>8. SlotCount \in Nat \ {0, 1} /\ Cardinality(SlotIds) = SlotCount
  BY GpuReadbackAssumption, FS_Interval DEF SlotIds
<1>9. scheduleSerial = Spent(Now) + coalesced
  BY <1>1, <1>4, <1>7, <1>8, NowFields DEF Spent
<1>10. Keeps(Now)
  <2>1. 1 \in SlotIds
    BY <1>8 DEF SlotIds
  <2> QED
    BY <1>7, <2>1 DEF Keeps
<1> QED
  BY <1>1, <1>5, <1>6, <1>9, <1>10 DEF SourceInv

LEMMA SourceSteps ==
    ASSUME SourceInv, [Next]_vars
    PROVE  SourceInv'
<1>1. CASE Next
  BY <1>1, ScheduleStep, FlushStep, PollStep, DestroyStep, SettleStep, JobStep DEF Next
<1>2. CASE UNCHANGED vars
  <2>1. /\ opts' = opts /\ slots' = slots /\ promise' = promise /\ image' = image
        /\ scheduleSerial' = scheduleSerial /\ dropped' = dropped /\ coalesced' = coalesced
        /\ destroyed' = destroyed /\ published' = published /\ newest' = newest
        /\ touched' = touched
    BY <1>2 DEF vars, host, outcome
  <2>2. Now' = Now
    BY <2>1 DEF Now
  <2>3. Sound(Now') /\ Spent(Now') = Spent(Now) /\ IdleIn(Now') = IdleIn(Now)
    BY <2>2 DEF SourceInv
  <2>4. Owned(Now, promise)' /\ Keeps(Now)'
    BY <2>1, <2>2 DEF SourceInv, Owned, Keeps, PacingMode, AutoDrain
  <2> QED
    BY <2>1, <2>3, <2>4 DEF SourceInv
<1> QED
  BY <1>1, <1>2

\* The invariant, of every history.
LEMMA SourceStays == Spec => []SourceInv
<1>1. Init => SourceInv
  BY SourceStarts
<1>2. SourceInv /\ [Next]_vars => SourceInv'
  BY SourceSteps
<1> QED
  BY <1>1, <1>2, PTL DEF Spec

-------------------------------------------------------------------------------
(* Theorems *)

LEMMA TypesFollow ==
    ASSUME SourceInv
    PROVE  TypeOK /\ EveryReadbackIsAccounted
<1>1. PICK c \in 0 .. SlotCount : c = Cardinality(IdleIn(Now))
  BY SlotsAreFinite
<1>2. published \in Seq(FrameType) /\ dropped \in Nat
  BY NowFields DEF SourceInv, Sound
<1>3. /\ Len(published) \in Nat /\ dropped \in Nat /\ coalesced \in Nat
      /\ SlotCount \in Nat /\ MaxSchedules \in Nat /\ scheduleSerial \in 0 .. MaxSchedules
  BY <1>2, GpuReadbackAssumption DEF SourceInv, Serials
<1>4. scheduleSerial = Len(published) + dropped + (SlotCount - c) + coalesced
  BY <1>1, NowFields DEF SourceInv, Spent
<1>5. dropped \in 0 .. MaxSchedules /\ coalesced \in 0 .. MaxSchedules
  BY <1>1, <1>3, <1>4
<1>6. InFlight = SlotCount - c
  BY <1>1, NowFields DEF InFlight
<1>7. EveryReadbackIsAccounted
  BY <1>1, <1>3, <1>4, <1>6 DEF EveryReadbackIsAccounted
<1>8. TypeOK
  BY <1>3, <1>5, NowFields
  DEF SourceInv, Sound, TypeOK, SlotType, FrameType, PromiseType, Serials
<1> QED
  BY <1>7, <1>8

\* The staging slots, their promises and the source's counters have their types:
\* neither the dropped nor the coalesced readbacks outnumber those scheduled.
THEOREM TypeCorrect == Spec => []TypeOK
<1>1. SourceInv => TypeOK
  BY TypesFollow
<1> QED
  BY <1>1, SourceStays, PTL

\* However maps fail, decoders throw and polls and jobs compete for a slot, each
\* readback is pushed, dropped or coalesced once, or a slot still holds it.
THEOREM ReadbacksAreAccounted == Spec => []EveryReadbackIsAccounted
<1>1. SourceInv => EveryReadbackIsAccounted
  BY TypesFollow
<1> QED
  BY <1>1, SourceStays, PTL

\* A slot that takes part in mapAsync is one whose promise is out or whose result
\* awaits a poll: no job ever finds its slot reused, and none is left in-flight
\* with nothing to come for it while the source lives.
THEOREM SlotsAreOwned == Spec => []JobsOwnTheirSlots
<1>1. SourceInv => JobsOwnTheirSlots
  BY NowFields DEF SourceInv, Owned, JobsOwnTheirSlots
<1> QED
  BY <1>1, SourceStays, PTL

\* Adaptive pacing keeps one staging slot free.
THEOREM OneSlotStaysFree == Spec => []KeepsOneFree
<1>1. SourceInv => KeepsOneFree
  BY NowFields DEF SourceInv, Keeps, KeepsOneFree
<1> QED
  BY <1>1, SourceStays, PTL

\* Marking a slot as settled reads no buffer.
LEMMA MarkedUntouched ==
    ASSUME SourceInv, NEW i \in SlotIds, promise[i] # "none", NEW answer \in BOOLEAN
    PROVE  /\ Sound(Mapped(i)) /\ Mapped(i).touched = touched
           /\ Sound(Answered(i, answer)) /\ Answered(i, answer).touched = touched
<1>1. Sound(Mapped(i)) /\ Sound(Answered(i, answer))
  BY MappedIsSound
<1>2. Mapped(i).touched = touched
  BY DEF Mapped, Now
<1>3. [Failed(i) EXCEPT !.destroyed = @ \/ answer].touched = touched
  BY DEF Failed, Mapped, Now
<1> QED
  BY <1>1, <1>2, <1>3 DEF Answered

\* With autoDrain no slot is ready while the source lives, so that no poll drains one,
\* and a job drains only while it lives.
LEMMA UntouchedStep ==
    SourceInv /\ DestroyedIsUntouched /\ [Next]_vars => DestroyedIsUntouched'
<1> SUFFICES ASSUME SourceInv, DestroyedIsUntouched, [Next]_vars, AutoDrain'
             PROVE  ~touched'
  BY DEF DestroyedIsUntouched
<1>1. UNCHANGED opts
  BY DEF Next, Schedule, Flush, Settle, Poll, Job, OnFulfilled, OnRejected, Destroy, Become, vars
<1>2. AutoDrain /\ ~touched
  BY <1>1 DEF DestroyedIsUntouched, AutoDrain
<1>3. CASE UNCHANGED touched
  BY <1>2, <1>3
<1>4. CASE Poll
  <2>1. PICK i \in SlotIds : Ready(slots[i])
    BY <1>4 DEF Poll, ReadySlots
  <2>2. ~destroyed /\ Owned(Now, promise)
    BY <1>4 DEF Poll, SourceInv
  <2> QED
    BY <1>2, <2>1, <2>2, NowFields DEF Owned, Ready
<1>5. ASSUME NEW s, Sound(s), s.touched = touched, NEW i, NEW fate,
             NEW t, t = AutoDrainSlot(s, i, fate)
      PROVE  t.touched = touched
  <2>1. s = [slots |-> s.slots, image |-> s.image, dropped |-> s.dropped,
             destroyed |-> s.destroyed, published |-> s.published, newest |-> s.newest,
             touched |-> s.touched]
    BY <1>5 DEF Sound
  <2>2. CASE ~AutoDrain \/ s.destroyed
    BY <1>5, <2>2 DEF AutoDrainSlot
  <2>3. CASE ~s.destroyed
    <3>1. \A slot, dropped1 : [s EXCEPT !.slots[i] = slot, !.dropped = dropped1].touched = touched
      BY <1>5, <2>1
    <3>2. \A slot, image1, newest1, published1, dropped1, destroyed1 :
              LET r == [s EXCEPT !.slots[i] = slot, !.image = image1, !.newest = newest1]
              IN  /\ [r EXCEPT !.published = Append(@, published1)].touched = touched
                  /\ [r EXCEPT !.dropped = dropped1, !.destroyed = destroyed1].touched = touched
      BY <1>5, <2>1
    <3> QED
      BY <1>2, <1>5, <2>3, <3>1, <3>2 DEF AutoDrainSlot, Drain
  <2> QED
    BY <2>2, <2>3, <1>5 DEF Sound
<1>6. ASSUME NEW i \in SlotIds, Job(i) PROVE ~touched'
  <2>1. CASE OnFulfilled(i)
    <3>1. PICK fate \in Fates : Become(AutoDrainSlot(Mapped(i), i, fate), Done(i))
      BY <2>1 DEF OnFulfilled
    <3>2. Sound(Mapped(i)) /\ Mapped(i).touched = touched
      BY <2>1, MarkedUntouched DEF OnFulfilled
    <3>3. touched' = AutoDrainSlot(Mapped(i), i, fate).touched
      BY <3>1 DEF Become
    <3> QED
      BY <1>2, <1>5, <3>2, <3>3
  <2>2. CASE OnRejected(i)
    <3>1. PICK answer \in BOOLEAN :
              Become(AutoDrainSlot(Answered(i, answer), i, "taken"), Done(i))
      BY <2>2 DEF OnRejected, Answered
    <3>2. Sound(Answered(i, answer)) /\ Answered(i, answer).touched = touched
      BY <2>2, MarkedUntouched DEF OnRejected
    <3>3. touched' = AutoDrainSlot(Answered(i, answer), i, "taken").touched
      BY <3>1 DEF Become
    <3> QED
      BY <1>2, <1>5, <3>2, <3>3
  <2> QED
    BY <1>6, <2>1, <2>2 DEF Job
<1>7. CASE Destroy
  BY <1>2, <1>7 DEF Destroy, Become, Now
<1> QED
  BY <1>3, <1>4, <1>6, <1>7 DEF Next, Schedule, Flush, Settle, outcome, vars

\* In microtask mode no staging buffer is read after destroy(), for any number of
\* slots and whatever polls, jobs and answers to errors come in whatever order.
THEOREM DestroyedStaysUntouched == Spec => []DestroyedIsUntouched
<1>1. Init => DestroyedIsUntouched
  BY DEF Init, DestroyedIsUntouched
<1> QED
  BY <1>1, SourceStays, UntouchedStep, PTL DEF Spec

-------------------------------------------------------------------------------
(***************************************************************************)
(* Adaptive pacing on two slots: one readback is in use at a time, and it is    *)
(* later than all that was published.  If there was an image from the start, it *)
(* is later than all that the image has merged.                              *)
(***************************************************************************)

\* What holds of the source's state under adaptive pacing.
AllFresh(s) ==
    /\ SeededImage => s.image = s.newest
    /\ \A field \in Fields : s.newest[field] <= scheduleSerial
    /\ \A n \in 1 .. Len(s.published) :
           /\ SeededImage => s.published[n].frame = s.published[n].expected
           /\ s.published[n].readback <= scheduleSerial
           /\ \A m \in 1 .. n - 1 : s.published[m].readback < s.published[n].readback
    /\ \A i \in SlotIds : s.slots[i].state # "idle" =>
           /\ s.slots[i].readback <= scheduleSerial
           /\ \A field \in Fields : s.newest[field] < s.slots[i].readback
           /\ \A n \in 1 .. Len(s.published) : s.published[n].readback < s.slots[i].readback
           /\ \A j \in SlotIds \ {i} : s.slots[j].state = "idle"

PacedInv == SourceInv /\ (PacingMode = "adaptive" => AllFresh(Now))

\* Recycling slots unread, and marking them, is no matter.
LEMMA FreshUnread ==
    ASSUME NEW s, NEW t, AllFresh(s), t.image = s.image, t.newest = s.newest,
           t.published = s.published,
           \A i \in SlotIds : t.slots[i].state # "idle" =>
               s.slots[i].state # "idle" /\ t.slots[i].readback = s.slots[i].readback
    PROVE  AllFresh(t)
<1>1. \A i \in SlotIds : s.slots[i].state = "idle" => t.slots[i].state = "idle"
  OBVIOUS
<1>2. ASSUME NEW i \in SlotIds, t.slots[i].state # "idle"
      PROVE  /\ t.slots[i].readback <= scheduleSerial
             /\ \A field \in Fields : t.newest[field] < t.slots[i].readback
             /\ \A n \in 1 .. Len(t.published) : t.published[n].readback < t.slots[i].readback
             /\ \A j \in SlotIds \ {i} : t.slots[j].state = "idle"
  BY <1>1, <1>2 DEF AllFresh
<1>3. /\ SeededImage => t.image = t.newest
      /\ \A field \in Fields : t.newest[field] <= scheduleSerial
      /\ \A n \in 1 .. Len(t.published) :
             /\ SeededImage => t.published[n].frame = t.published[n].expected
             /\ t.published[n].readback <= scheduleSerial
             /\ \A m \in 1 .. n - 1 : t.published[m].readback < t.published[n].readback
  BY DEF AllFresh
<1> QED
  BY <1>2, <1>3 DEF AllFresh

\* The image after the drain of the one slot in use is the newest of each field,
\* and so is the frame that is pushed.
LEMMA DrainFresh ==
    ASSUME NEW s, Sound(s), AllFresh(s), NEW i \in SlotIds, NEW fate, NEW t,
           t = Drain(s, i, fate), scheduleSerial \in Nat
    PROVE  AllFresh(t)
<1> DEFINE slot == s.slots[i]
           merged == Merged(s.image, slot, fate)
           looked == [f \in Fields |-> IF /\ Looks(s, slot, fate) /\ f \in slot.region
                                        /\ slot.readback > s.newest[f]
                                     THEN slot.readback ELSE s.newest[f]]
           handedOn == [readback |-> slot.readback, frame |-> Frame(merged, slot),
                      expected |-> looked]
<1>1. Sound(t) /\ (\A j \in SlotIds \ {i} : t.slots[j] = s.slots[j])
  BY DrainKeeps
<1>2. CASE ~Ready(slot)
  <2>1. t = s
    BY <1>2 DEF Drain
  <2> QED
    BY <2>1
<1>3. CASE Ready(slot)
  <2>1. t.slots[i].state = "idle"
    <3>1. t.slots[i] = Recycled(slot)
      BY <1>3, DrainKeeps
    <3>2. slot \in SlotType
      BY DEF Sound
    <3> HIDE DEF slot
    <3> QED
      BY <3>1, <3>2, RecycledType
  <2>2. slot.state # "idle" /\ slot \in SlotType
    BY <1>3 DEF Ready, Sound
  <2>3. \A j \in SlotIds : t.slots[j].state = "idle"
    BY <1>1, <2>1, <2>2 DEF AllFresh
  <2>4. CASE slot.failed \/ s.destroyed
    <3>1. t.image = s.image /\ t.newest = s.newest /\ t.published = s.published
      BY <1>3, <2>4 DEF Drain, Sound
    <3> QED
      BY <2>3, <3>1, FreshUnread
  <2>5. CASE ~slot.failed /\ ~s.destroyed
    <3>1. /\ s.newest \in [Fields -> Serials] /\ (SeededImage => s.image = s.newest)
          /\ slot.readback \in Serials /\ slot.readback <= scheduleSerial
          /\ \A field \in Fields : s.newest[field] < slot.readback
          /\ \A n \in 1 .. Len(s.published) : s.published[n].readback < slot.readback
      BY <2>2 DEF Sound, AllFresh, SlotType
    <3>2. ASSUME SeededImage PROVE looked = merged /\ Frame(merged, slot) = merged
      <4>1. s.image = s.newest
        BY <3>1, <3>2
      <4>2. DOMAIN s.image = Fields /\ Fields # {} /\ DOMAIN NoImage = {}
        BY <3>1, <4>1, GpuReadbackAssumption DEF NoImage
      <4>3. s.image # NoImage
        BY <4>2
      <4>4. merged = [f \in Fields |-> IF f \in slot.region THEN slot.readback
                                       ELSE s.newest[f]]
        BY <4>1, <4>3 DEF Merged
      <4>5. Looks(s, slot, fate)
        BY <4>3 DEF Looks
      <4>6. looked = merged
        BY <3>1, <4>4, <4>5 DEF Serials
      <4>7. DOMAIN merged = Fields
        BY <4>4
      <4>8. Frame(merged, slot) = merged
        BY <4>2, <4>7 DEF Frame
      <4> QED
        BY <4>6, <4>8
    <3>3. \A field \in Fields : looked[field] <= scheduleSerial
      <4>1. ASSUME NEW field \in Fields
            PROVE  /\ looked[field] = slot.readback \/ looked[field] = s.newest[field]
                   /\ s.newest[field] <= scheduleSerial
        BY DEF AllFresh
      <4> QED
        BY <3>1, <4>1
    <3> HIDE DEF merged, looked
    <3>4. /\ SeededImage => handedOn.frame = handedOn.expected
          /\ handedOn.readback = slot.readback
      BY <3>2
    <3>5. t.image = merged /\ t.newest = looked
      BY <1>3, <2>5 DEF Drain, Sound, merged, looked
    <3> HIDE DEF handedOn
    <3>6. t.published = s.published \/ t.published = Append(s.published, handedOn)
      BY <1>3, <2>5 DEF Drain, Sound, merged, looked, handedOn
    <3>7. ASSUME NEW n \in 1 .. Len(t.published)
           PROVE  /\ SeededImage => t.published[n].frame = t.published[n].expected
                  /\ t.published[n].readback <= scheduleSerial
                  /\ \A m \in 1 .. n - 1 : t.published[m].readback < t.published[n].readback
      <4>1. CASE t.published = s.published
        BY <3>7, <4>1 DEF AllFresh
      <4>2. CASE t.published = Append(s.published, handedOn)
        <5>1. s.published \in Seq(FrameType) /\ Len(s.published) \in Nat
          BY DEF Sound
        <5>2. /\ Len(t.published) = Len(s.published) + 1
              /\ t.published[Len(s.published) + 1] = handedOn
              /\ \A k \in 1 .. Len(s.published) : t.published[k] = s.published[k]
          BY <4>2, <5>1
        <5>3. CASE n = Len(s.published) + 1
          <6>1. \A m \in 1 .. n - 1 : t.published[m].readback < slot.readback
            BY <3>1, <5>1, <5>2, <5>3
          <6> QED
            BY <3>1, <3>4, <5>2, <5>3, <6>1
        <5>4. CASE n # Len(s.published) + 1
          <6>1. n \in 1 .. Len(s.published) /\ 1 .. n - 1 \subseteq 1 .. Len(s.published)
            BY <3>7, <5>1, <5>2, <5>4
          <6>2. /\ SeededImage => s.published[n].frame = s.published[n].expected
                /\ s.published[n].readback <= scheduleSerial
                /\ \A m \in 1 .. n - 1 : s.published[m].readback < s.published[n].readback
            BY <6>1 DEF AllFresh
          <6> QED
            BY <5>2, <6>1, <6>2
        <5> QED
          BY <5>3, <5>4
      <4> QED
        BY <3>6, <4>1, <4>2
    <3> QED
      BY <2>3, <3>2, <3>3, <3>5, <3>7 DEF AllFresh
  <2> QED
    BY <2>4, <2>5
<1> QED
  BY <1>2, <1>3

LEMMA BecomeFresh ==
    ASSUME SourceInv, NEW t, Sound(t), AllFresh(t), NEW promises, Become(t, promises)
    PROVE  AllFresh(Now)'
<1>1. Now' = t
  BY DEF Become, Now, Sound
<1>2. scheduleSerial' = scheduleSerial /\ (SeededImage <=> SeededImage')
  BY DEF Become, SeededImage
<1> QED
  BY <1>1, <1>2 DEF AllFresh

LEMMA PollFresh ==
    ASSUME SourceInv, AllFresh(Now), Poll
    PROVE  AllFresh(Now)'
<1>1. PICK fates \in [ReadySlots -> Fates] : Become(Folded(fates), promise)
  BY DEF Poll, Folded
<1>2. PICK run : /\ run[0] = Now /\ run[SlotCount] = Folded(fates)
                 /\ \A n \in 0 .. SlotCount - 1 :
                        run[n + 1] = Drain(run[n], n + 1, fates[n + 1])
  BY PollIsARun
<1>3. SlotCount \in Nat /\ scheduleSerial \in Nat
  BY GpuReadbackAssumption DEF SourceInv, Serials
<1> DEFINE T == {n \in Nat : n <= SlotCount => Sound(run[n]) /\ AllFresh(run[n])}
<1>4. 0 \in T
  BY <1>2 DEF SourceInv
<1>5. ASSUME NEW n \in Nat, n \in T PROVE n + 1 \in T
  <2>1. CASE n + 1 <= SlotCount
    <3>1. n \in 0 .. SlotCount - 1 /\ n + 1 \in SlotIds /\ n <= SlotCount
      BY <1>3, <2>1 DEF SlotIds
    <3>2. Sound(run[n]) /\ AllFresh(run[n])
      BY <1>5, <3>1
    <3>3. run[n + 1] = Drain(run[n], n + 1, fates[n + 1])
      BY <1>2, <3>1
    <3>4. Sound(run[n + 1])
      BY <3>1, <3>2, <3>3, DrainKeeps
    <3>5. AllFresh(run[n + 1])
      BY <1>3, <3>1, <3>2, <3>3, DrainFresh
    <3> QED
      BY <3>4, <3>5
  <2>2. CASE ~(n + 1 <= SlotCount)
    BY <2>2
  <2> QED
    BY <2>1, <2>2
<1>6. SlotCount \in T
  <2> HIDE DEF T
  <2> QED
    BY <1>3, <1>4, <1>5, CountUp
<1>7. PICK t : t = Folded(fates) /\ Sound(t) /\ AllFresh(t)
  BY <1>2, <1>3, <1>6
<1> QED
  BY <1>1, <1>7, BecomeFresh

LEMMA JobFresh ==
    ASSUME SourceInv, AllFresh(Now), NEW i \in SlotIds, Job(i)
    PROVE  AllFresh(Now)'
<1>1. \E s, fate, answer :
          /\ answer \in BOOLEAN
          /\ s = Mapped(i) \/ s = Answered(i, answer)
          /\ Become(AutoDrainSlot(s, i, fate), Done(i))
  <2>1. CASE OnFulfilled(i)
    <3>1. PICK fate \in Fates : Become(AutoDrainSlot(Mapped(i), i, fate), Done(i))
      BY <2>1 DEF OnFulfilled
    <3>2. TRUE \in BOOLEAN
      OBVIOUS
    <3> QED
      BY <3>1, <3>2
  <2>2. CASE OnRejected(i)
    <3>1. PICK answer \in BOOLEAN :
              Become(AutoDrainSlot(Answered(i, answer), i, "taken"),
                     Done(i))
      BY <2>2 DEF OnRejected, Answered
    <3> QED
      BY <3>1
  <2> QED
    BY <2>1, <2>2 DEF Job
<1>2. PICK s, fate, answer :
          /\ answer \in BOOLEAN
          /\ s = Mapped(i) \/ s = Answered(i, answer)
          /\ Become(AutoDrainSlot(s, i, fate), Done(i))
  BY <1>1
<1>3. promise[i] # "none"
  BY DEF Job, OnFulfilled, OnRejected
<1>4. /\ Sound(s) /\ s.published = published
      /\ s.image = image /\ s.newest = newest /\ s.slots[i].readback = slots[i].readback
      /\ \A j \in SlotIds \ {i} : s.slots[j] = slots[j]
  BY <1>2, <1>3, MappedIsSound
<1>5. slots[i].state = "in-flight"
  BY <1>3, NowFields DEF SourceInv, Owned
<1>6. AllFresh(s)
  BY <1>4, <1>5, NowFields, FreshUnread
<1>7. scheduleSerial \in Nat
  BY GpuReadbackAssumption DEF SourceInv, Serials
<1>8. PICK t : t = AutoDrainSlot(s, i, fate)
  OBVIOUS
<1>9. Sound(t) /\ AllFresh(t)
  <2>1. CASE t = Drain(s, i, fate)
    BY <1>4, <1>6, <1>7, <2>1, DrainKeeps, DrainFresh
  <2>2. CASE t = s
    BY <1>4, <1>6, <2>2
  <2> QED
    BY <1>8, <2>1, <2>2 DEF AutoDrainSlot
<1>10. Become(t, Done(i))
  BY <1>2, <1>8
<1> QED
  BY <1>9, <1>10, BecomeFresh

\* With one slot of two free, the other is the only one in use.
LEMMA OneInUse ==
    ASSUME NEW s, SlotCount = 2, IdleIn(s) # {}, NEW i \in SlotIds,
           s.slots[i].state # "idle"
    PROVE  \A j \in SlotIds \ {i} : s.slots[j].state = "idle"
<1>1. SlotIds = {1, 2}
  BY DEF SlotIds
<1> QED
  BY <1>1 DEF IdleIn

LEMMA ScheduleFresh ==
    ASSUME SlotCount = 2, SourceInv, AllFresh(Now), PacingMode = "adaptive",
           NEW region \in Regions, Schedule(region)
    PROVE  AllFresh(Now)'
<1>1. PICK i \in SlotIds : Encode(i, region) /\ slots[i].state = "idle"
  BY NowFields DEF Schedule, InState, SourceInv, Keeps
<1>2. /\ image' = image /\ published' = published /\ newest' = newest
      /\ scheduleSerial' = scheduleSerial + 1 /\ opts' = opts
  BY <1>1 DEF Schedule, Encode, outcome
<1>3. PICK slot \in SlotType : slot = slots[i]
  BY NowFields DEF SourceInv, Sound
<1>4. PICK one : one = [slot EXCEPT !.state = "scheduled", !.scheduledAt = scheduleSerial + 1,
                                    !.region = region, !.readback = scheduleSerial + 1]
  OBVIOUS
<1>5. slots' = [slots EXCEPT ![i] = one]
  BY <1>1, <1>3, <1>4 DEF Encode
<1>6. one.state = "scheduled" /\ one.readback = scheduleSerial + 1
  BY <1>4 DEF SlotType
<1>7. slots'[i] = one
  BY <1>5, NowFields DEF SourceInv, Sound
<1>8. PICK t : t = Now'
  OBVIOUS
<1>9. t.image = image /\ t.published = published /\ t.newest = newest /\ t.slots = slots'
  BY <1>2, <1>8 DEF Now
<1>10. \A j \in SlotIds \ {i} : t.slots[j].state = "idle"
  <2>1. SourceInv'
    BY ScheduleStep
  <2>2. IdleIn(t) # {}
    BY <1>8, <2>1 DEF SourceInv, Keeps, PacingMode, Schedule
  <2>3. t.slots[i].state # "idle"
    BY <1>6, <1>7, <1>9
  <2> QED
    BY <2>2, <2>3, OneInUse
<1>11. scheduleSerial \in Nat /\ newest \in [Fields -> Serials]
  BY NowFields, GpuReadbackAssumption DEF SourceInv, Sound, Serials
<1>12. PICK serial \in Nat : serial = scheduleSerial
  BY <1>11
<1>13. /\ SeededImage => image = newest
       /\ \A field \in Fields : newest[field] \in Nat /\ newest[field] <= serial
       /\ \A n \in 1 .. Len(published) :
              /\ SeededImage => published[n].frame = published[n].expected
              /\ published[n].readback <= serial
              /\ \A m \in 1 .. n - 1 : published[m].readback < published[n].readback
  <2>1. \A field \in Fields : newest[field] \in Nat
    BY <1>11, GpuReadbackAssumption DEF Serials
  <2>2. Now.image = image /\ Now.newest = newest /\ Now.published = published
    BY NowFields
  <2> QED
    BY <1>12, <2>1, <2>2 DEF AllFresh
<1>14. \A n \in 1 .. Len(published) : published[n].readback \in Nat
  <2>1. published \in Seq(FrameType)
    BY NowFields DEF SourceInv, Sound
  <2>2. \A n \in 1 .. Len(published) : published[n] \in FrameType
    BY <2>1
  <2> QED
    BY <2>2, GpuReadbackAssumption DEF FrameType
<1>15. /\ \A field \in Fields : newest[field] < serial + 1
       /\ \A n \in 1 .. Len(published) : published[n].readback < serial + 1
  BY <1>13, <1>14
<1>16. scheduleSerial' = serial + 1 /\ (SeededImage <=> SeededImage')
  BY <1>2, <1>12 DEF SeededImage
<1>17. /\ SeededImage => t.image = t.newest
       /\ \A field \in Fields : t.newest[field] <= serial + 1
       /\ \A n \in 1 .. Len(t.published) :
              /\ SeededImage => t.published[n].frame = t.published[n].expected
              /\ t.published[n].readback <= serial + 1
              /\ \A m \in 1 .. n - 1 : t.published[m].readback < t.published[n].readback
  BY <1>9, <1>13, <1>14
<1>18. t.slots[i].readback = serial + 1
  BY <1>6, <1>7, <1>9, <1>12
<1>19. ASSUME NEW j \in SlotIds, t.slots[j].state # "idle"
       PROVE  /\ t.slots[j].readback <= serial + 1
              /\ \A field \in Fields : t.newest[field] < t.slots[j].readback
              /\ \A n \in 1 .. Len(t.published) : t.published[n].readback < t.slots[j].readback
              /\ \A k \in SlotIds \ {j} : t.slots[k].state = "idle"
  <2>1. j = i
    BY <1>10, <1>19
  <2> QED
    BY <1>9, <1>10, <1>15, <1>18, <2>1
<1> QED
  BY <1>8, <1>16, <1>17, <1>19 DEF AllFresh

LEMMA PacedStarts ==
    ASSUME Init
    PROVE  PacedInv
<1>1. SourceInv
  BY SourceStarts
<1>2. ASSUME PacingMode = "adaptive" PROVE AllFresh(Now)
  <2>1. /\ SeededImage => image = newest
        /\ newest = Zeros /\ published = <<>> /\ scheduleSerial = 0
    BY DEF Init
  <2>2. \A i \in SlotIds : slots[i].state = "idle"
    BY DEF Init
  <2>3. Len(published) = 0 /\ \A field \in Fields : newest[field] <= scheduleSerial
    BY <2>1 DEF Zeros
  <2> QED
    BY <2>1, <2>2, <2>3, NowFields DEF AllFresh
<1> QED
  BY <1>1, <1>2 DEF PacedInv

LEMMA PacedSteps ==
    ASSUME SlotCount = 2, PacedInv, [Next]_vars
    PROVE  PacedInv'
<1>1. SourceInv /\ SourceInv'
  BY SourceSteps DEF PacedInv
<1>2. opts' = opts
  BY DEF Next, vars, Schedule, Flush, Poll, Destroy, Settle, Job, OnFulfilled, OnRejected, Become
<1>3. SUFFICES ASSUME PacingMode = "adaptive", AllFresh(Now) PROVE AllFresh(Now)'
  BY <1>1, <1>2 DEF PacedInv, PacingMode
<1>4. ASSUME UNCHANGED <<scheduleSerial, outcome>>,
             \A i \in SlotIds : slots'[i].state # "idle" =>
                 slots[i].state # "idle" /\ slots'[i].readback = slots[i].readback
      PROVE  AllFresh(Now)'
  <2>1. PICK t : t = Now'
    OBVIOUS
  <2>2. t.image = image /\ t.newest = newest /\ t.published = published /\ t.slots = slots'
    BY <1>4, <2>1 DEF Now, outcome
  <2>3. AllFresh(t)
    BY <1>3, <1>4, <2>2, NowFields, FreshUnread
  <2> QED
    BY <1>2, <1>4, <2>1, <2>3 DEF AllFresh, SeededImage
<1>5. ASSUME NEW region \in Regions, Schedule(region) PROVE AllFresh(Now)'
  BY <1>1, <1>3, <1>5, ScheduleFresh
<1>6. CASE Flush
  <2>1. /\ slots' = [i \in SlotIds |->
                       IF slots[i].state = "scheduled"
                       THEN [slots[i] EXCEPT !.state = "in-flight", !.scheduledAt = 0,
                                             !.mapped = FALSE]
                       ELSE slots[i]]
        /\ UNCHANGED <<scheduleSerial, outcome>>
    BY <1>6 DEF Flush
  <2>2. ASSUME NEW i \in SlotIds
        PROVE  slots'[i].state # "idle" =>
                   slots[i].state # "idle" /\ slots'[i].readback = slots[i].readback
    <3>1. PICK slot \in SlotType : slot = slots[i]
      BY <1>1, NowFields DEF SourceInv, Sound
    <3>2. PICK one : one = [slot EXCEPT !.state = "in-flight", !.scheduledAt = 0,
                                        !.mapped = FALSE]
      OBVIOUS
    <3>3. one.readback = slot.readback
      BY <3>2 DEF SlotType
    <3> QED
      BY <2>1, <3>1, <3>2, <3>3
  <2> QED
    BY <1>4, <2>1, <2>2
<1>7. CASE Poll
  BY <1>1, <1>3, <1>7, PollFresh
<1>8. CASE Destroy
  <2>1. PICK t : t = [Now EXCEPT !.destroyed = TRUE]
    OBVIOUS
  <2>2. t = [slots |-> slots, image |-> image, dropped |-> dropped, destroyed |-> TRUE,
             published |-> published, newest |-> newest, touched |-> touched]
    BY <2>1 DEF Now
  <2>3. Sound(t)
    BY <1>1, <2>2, NowFields DEF SourceInv, Sound
  <2>4. AllFresh(t)
    BY <1>3, <2>2, NowFields, FreshUnread
  <2>5. Become(t, promise)
    BY <1>8, <2>1 DEF Destroy
  <2> QED
    BY <1>1, <2>3, <2>4, <2>5, BecomeFresh
<1>9. ASSUME NEW i \in SlotIds, Settle(i) PROVE AllFresh(Now)'
  BY <1>4, <1>9 DEF Settle
<1>10. ASSUME NEW i \in SlotIds, Job(i) PROVE AllFresh(Now)'
  BY <1>1, <1>3, <1>10, JobFresh
<1>11. CASE UNCHANGED vars
  BY <1>4, <1>11 DEF vars, host, outcome
<1> QED
  BY <1>5, <1>6, <1>7, <1>8, <1>9, <1>10, <1>11 DEF Next

LEMMA PacedStays ==
    ASSUME SlotCount = 2
    PROVE  Spec => []PacedInv
<1>1. Init => PacedInv
  BY PacedStarts
<1>2. PacedInv /\ [Next]_vars => PacedInv'
  BY PacedSteps
<1> QED
  BY <1>1, <1>2, PTL DEF Spec

\* With adaptive pacing on two slots, and an image from the start, every field of a
\* pushed frame carries the newest bytes read back for it, be it by a readback whose
\* frame the bridge refused or the decoder threw on.
THEOREM FramesAreNewest ==
    ASSUME SlotCount = 2, \A o \in Options : o.pacing = "adaptive" => o.seeded
    PROVE  Spec => []FrameIsNewest
<1>1. PacedInv => FrameIsNewest
  <2>1. PacedInv /\ PacingMode = "adaptive" => SeededImage
    BY DEF PacedInv, SourceInv, PacingMode, SeededImage
  <2> QED
    BY <2>1, NowFields DEF PacedInv, AllFresh, FrameIsNewest
<1> QED
  BY <1>1, PacedStays, PTL

LEMMA OrderFollows ==
    ASSUME PacedInv
    PROVE  PublishesInOrder
<1>1. ASSUME PacingMode = "adaptive", NEW m \in 1 .. Len(published),
             NEW n \in 1 .. Len(published), m < n
      PROVE  published[m].readback < published[n].readback
  <2>1. m \in 1 .. n - 1
    BY <1>1
  <2> QED
    BY <1>1, <2>1, NowFields DEF PacedInv, AllFresh
<1> QED
  BY <1>1 DEF PublishesInOrder

\* With adaptive pacing on two slots no frame is pushed after a frame of a later
\* readback.
THEOREM FramesComeInOrder ==
    ASSUME SlotCount = 2
    PROVE  Spec => []PublishesInOrder
<1>1. PacedInv => PublishesInOrder
  BY OrderFollows
<1> QED
  BY <1>1, PacedStays, PTL

-------------------------------------------------------------------------------
(***************************************************************************)
(* PllLanes: the gate of the published clock state, for every modulus and    *)
(* history.  A lane is at least as new as the status of the last publish     *)
(* that is complete, and only gets newer, so what the reader loads after the  *)
(* status is too.                                                            *)
(***************************************************************************)

Published == [offset : Offsets, drift : Drifts, locked : BOOLEAN]
Int32 == (0 - Half) .. (Half - 1)
Numbered(Values) == [value : Values, by : 0 .. MaxPublishes]

LanesTyped ==
    /\ low \in Numbered(Int32) /\ high \in Numbered(Int32) /\ drift \in Numbered(Int32)
    /\ status \in Numbered(BOOLEAN)
    /\ wpc \in {"idle", "low", "high", "drift", "status"}
    /\ rpc \in {"idle", "low", "high", "drift", "done"}
    /\ seen \in [locked : BOOLEAN, low : Int32, high : Int32, drift : Int32,
                 gate : 0 .. MaxPublishes, oldest : 0 .. MaxPublishes]
    /\ history \in Seq(Published) /\ Len(history) \in 0 .. MaxPublishes
    /\ wpc # "idle" => todo \in Published

\* The lanes stored so far are of the publish in progress.
StoredSoFar ==
    /\ wpc \in {"high", "drift", "status"} => low.by = Len(history)
    /\ wpc \in {"drift", "status"} => high.by = Len(history)
    /\ wpc = "status" => drift.by = Len(history)

LanesAreNewer(number) == number <= low.by /\ number <= high.by /\ number <= drift.by

LanesInv ==
    /\ LanesTyped
    /\ StoredSoFar
    /\ low.by <= Len(history) /\ high.by <= Len(history) /\ drift.by <= Len(history)
    /\ LanesAreNewer(status.by)
    /\ LanesAreNewer(seen.gate)
    /\ seen.oldest = seen.gate

\* What is stored fits a lane.
LEMMA StoredFits ==
    /\ 0 \in Int32
    /\ \A o \in Offsets : LowOf(o) \in Int32 /\ HighOf(o) \in Int32
    /\ \A d \in Drifts : DriftQ(d) \in Int32
<1>1. Modulus \in Nat \ {0} /\ Half \in Nat \ {0} /\ 2 * Half = Modulus
  BY LaneConstants
<1>2. \A x \in Int : x % Modulus \in 0 .. Modulus - 1
  BY <1>1
<1>3. \A x \in Int : AsInt32(x % Modulus) \in Int32
  BY <1>1, <1>2 DEF AsInt32, Int32
<1> QED
  BY <1>1, <1>3, PllAssumption DEF LowOf, HighOf, DriftQ, Int32

LEMMA LanesStart == LanesInit => LanesInv
  BY StoredFits, PllAssumption
     DEF LanesInit, LanesInv, LanesTyped, Numbered, LanesAreNewer, StoredSoFar, Fresh

LEMMA LanesSteps == LanesInv /\ [LanesNext]_laneVars => LanesInv'
<1> SUFFICES ASSUME LanesInv, [LanesNext]_laneVars PROVE LanesInv'
  OBVIOUS
<1> USE DEF LanesInv, LanesTyped, Numbered, StoredSoFar, LanesAreNewer
<1>1. CASE BeginPublish
  <2>1. todo' \in Published
    BY <1>1 DEF BeginPublish, Published
  <2>2. history' \in Seq(Published) /\ Len(history') = Len(history) + 1
    BY <1>1, <2>1 DEF BeginPublish
  <2>3. Len(history') \in 0 .. MaxPublishes
    BY <1>1, <2>2, PllAssumption DEF BeginPublish
  <2> QED
    BY <1>1, <2>1, <2>2, <2>3 DEF BeginPublish
<1>2. CASE StoreLow
  <2>1. low' \in Numbered(Int32) /\ low'.by = Len(history)
    BY <1>2, StoredFits DEF StoreLow, Stored, Published
  <2> QED
    BY <1>2, <2>1 DEF StoreLow
<1>3. CASE StoreHigh
  <2>1. high' \in Numbered(Int32) /\ high'.by = Len(history)
    BY <1>3, StoredFits DEF StoreHigh, Stored, Published
  <2> QED
    BY <1>3, <2>1 DEF StoreHigh
<1>4. CASE StoreDrift
  <2>1. drift' \in Numbered(Int32) /\ drift'.by = Len(history)
    BY <1>4, StoredFits DEF StoreDrift, Stored, Published
  <2> QED
    BY <1>4, <2>1 DEF StoreDrift
<1>5. CASE StoreStatus
  <2>1. status' \in Numbered(BOOLEAN) /\ status'.by = Len(history)
    BY <1>5 DEF StoreStatus, Stored, Published
  <2> QED
    BY <1>5, <2>1 DEF StoreStatus
<1>6. CASE LoadStatus
  BY <1>6 DEF LoadStatus
<1>7. CASE LoadLow
  <2>1. Older(seen.oldest, low.by) = seen.oldest
    BY DEF Older
  <2>2. seen' = [seen EXCEPT !.low = low.value, !.oldest = seen.oldest]
    BY <1>7, <2>1 DEF LoadLow
  <2> QED
    BY <1>7, <2>2 DEF LoadLow
<1>8. CASE LoadHigh
  <2>1. Older(seen.oldest, high.by) = seen.oldest
    BY DEF Older
  <2>2. seen' = [seen EXCEPT !.high = high.value, !.oldest = seen.oldest]
    BY <1>8, <2>1 DEF LoadHigh
  <2> QED
    BY <1>8, <2>2 DEF LoadHigh
<1>9. CASE LoadDrift
  <2>1. Older(seen.oldest, drift.by) = seen.oldest
    BY DEF Older
  <2>2. seen' = [seen EXCEPT !.drift = drift.value, !.oldest = seen.oldest]
    BY <1>9, <2>1 DEF LoadDrift
  <2> QED
    BY <1>9, <2>2 DEF LoadDrift
<1>10. CASE Return
  BY <1>10, StoredFits, PllAssumption DEF Return
<1>11. CASE UNCHANGED laneVars
  BY <1>11 DEF laneVars
<1> QED
  BY <1>1, <1>2, <1>3, <1>4, <1>5, <1>6, <1>7, <1>8, <1>9, <1>10, <1>11 DEF LanesNext

LEMMA LanesStay == LanesSpec => []LanesInv
  BY LanesStart, LanesSteps, PTL DEF LanesSpec

\* What publish stores in the lanes are Int32 values, and the publish each is from
\* was begun.
THEOREM LanesTypeCorrect == LanesSpec => []LanesTypeOK
<1>1. LanesInv => LanesTypeOK
  BY DEF LanesInv, LanesTyped, LanesTypeOK, Numbered, Int32
<1> QED
  BY <1>1, LanesStay, PTL

\* readPublishedClock loads the status before the other lanes, publishClock stores it
\* last: a reader that sees a publish's status gets nothing older than that publish.
THEOREM GateStaysFresh == LanesSpec => []GateIsFresh
<1>1. LanesInv => GateIsFresh
  BY DEF LanesInv, GateIsFresh
<1> QED
  BY <1>1, LanesStay, PTL

\* The split of an offset and its join undo each other, below zero too.
LEMMA JoinsBack == \A o \in Offsets : Joined(HighOf(o), LowOf(o)) = o
<1> SUFFICES ASSUME NEW o \in Offsets PROVE Joined(HighOf(o), LowOf(o)) = o
  OBVIOUS
<1>1. Modulus \in Nat \ {0} /\ Half \in Nat /\ Half < Modulus /\ o \in Int
  BY LaneConstants, PllAssumption
<1>2. PICK r \in 0 .. Modulus - 1, h \in Int :
          /\ r = o % Modulus /\ h = o \div Modulus /\ o = Modulus * h + r
  BY <1>1
<1>3. LowOf(o) % Modulus = r
  <2>1. CASE r < Half
    <3>1. LowOf(o) = r /\ r % Modulus = r
      BY <1>1, <1>2, <2>1 DEF LowOf, AsInt32
    <3> QED
      BY <3>1
  <2>2. CASE r >= Half
    <3>1. LowOf(o) = r - Modulus
      BY <1>1, <1>2, <2>2 DEF LowOf, AsInt32
    <3>2. (r - Modulus) % Modulus = r
      <4>1. 0 - Modulus <= r - Modulus /\ r - Modulus < 0 /\ r - Modulus \in Int
        BY <1>1, <1>2
      <4> QED
        BY <1>1, <1>2, <4>1
    <3> QED
      BY <3>1, <3>2
  <2> QED
    BY <1>1, <1>2, <2>1, <2>2
<1>4. Joined(HighOf(o), LowOf(o)) = h * Modulus + r
  BY <1>2, <1>3 DEF Joined, HighOf
<1>5. h * Modulus = Modulus * h
  BY <1>1, <1>2
<1> QED
  BY <1>2, <1>4, <1>5

\* The lanes the publish in progress has stored, or the last one did, hold the offset
\* that stands last in the history.
OffsetSoFar ==
    /\ wpc # "idle" => history # <<>> /\ todo = history[Len(history)]
    /\ wpc \in {"high", "drift", "status"} \/ (wpc = "idle" /\ history # <<>>) =>
           low.value = LowOf(history[Len(history)].offset)
    /\ wpc \in {"drift", "status"} \/ (wpc = "idle" /\ history # <<>>) =>
           high.value = HighOf(history[Len(history)].offset)

LEMMA OffsetStays ==
    LanesTyped /\ OffsetSoFar /\ [LanesNext]_laneVars => OffsetSoFar'
<1> SUFFICES ASSUME LanesTyped, OffsetSoFar, [LanesNext]_laneVars PROVE OffsetSoFar'
  OBVIOUS
<1>1. CASE BeginPublish
  <2>1. PICK p : todo' = p /\ history' = Append(history, p) /\ wpc' = "low"
    BY <1>1 DEF BeginPublish
  <2>2. history \in Seq(Published) /\ p \in Published
    BY <1>1, <2>1 DEF BeginPublish, LanesTyped, Published
  <2>3. history' # <<>> /\ history'[Len(history')] = p
    BY <2>1, <2>2
  <2> QED
    BY <2>1, <2>3 DEF OffsetSoFar
<1>2. CASE StoreLow
  BY <1>2 DEF StoreLow, OffsetSoFar, Stored
<1>3. CASE StoreHigh
  BY <1>3 DEF StoreHigh, OffsetSoFar, Stored
<1>4. CASE StoreDrift
  BY <1>4 DEF StoreDrift, OffsetSoFar
<1>5. CASE StoreStatus
  BY <1>5 DEF StoreStatus, OffsetSoFar
<1>6. CASE UNCHANGED <<low, high, wpc, todo, history>>
  BY <1>6 DEF OffsetSoFar
<1> QED
  BY <1>1, <1>2, <1>3, <1>4, <1>5, <1>6
  DEF LanesNext, LoadStatus, LoadLow, LoadHigh, LoadDrift, Return, laneVars

\* What a quiet publisher left in the lanes decodes to the offset it published, for
\* every modulus and every offset whose upper half fits its lane.
THEOREM OffsetsRoundTrip == LanesSpec => []OffsetRoundTrips
<1>1. LanesInit => OffsetSoFar
  BY DEF LanesInit, OffsetSoFar
<1>2. LanesInv => LanesTyped
  BY DEF LanesInv
<1>3. LanesTyped /\ OffsetSoFar => OffsetRoundTrips
  <2> SUFFICES ASSUME LanesTyped, OffsetSoFar, wpc = "idle", history # <<>>
               PROVE  Joined(high.value, low.value) = history[Len(history)].offset
    BY DEF OffsetRoundTrips
  <2>1. history[Len(history)].offset \in Offsets
    <3>1. history \in Seq(Published) /\ history # <<>>
      BY DEF LanesTyped
    <3>2. history[Len(history)] \in Published
      BY <3>1
    <3> QED
      BY <3>2 DEF Published
  <2> QED
    BY <2>1, JoinsBack DEF OffsetSoFar
<1> QED
  BY <1>1, <1>2, <1>3, LanesStay, OffsetStays, PTL DEF LanesSpec

-------------------------------------------------------------------------------
(***************************************************************************)
(* ConsumerClockRecovery: the estimate stays near the clock, for all gains,    *)
(* bounds of the integrator, jumps and spikes.  StaysNearTheClock is inductive *)
(* once the integrator is known to be bounded: a correction moves the estimate *)
(* towards the measurement by a part of their distance, and past it only by    *)
(* what the integrator adds, which Slack allows for.                          *)
(***************************************************************************)

\* What the bounded integrator can add to one correction.
Push == IntLimit \div Ki

LEMMA PushBounds ==
    /\ Push \in Nat /\ Kp * Push \in Nat /\ Kp * Push >= Push /\ Slack = Kp * Push + Kp
    /\ Kp \in Nat /\ Kp >= 1 /\ Slack \in Nat
<1>1. Push \in Nat
  BY RecoveryAssumption DEF Push
<1>2. Kp \in Nat /\ Kp >= 1
  BY RecoveryAssumption
<1>3. \A k, c \in Nat : k >= 1 => k * c \in Nat /\ k * c >= c
  OBVIOUS
<1> QED
  BY <1>1, <1>2, <1>3 DEF Slack, Push

\* Division of a number by a gain, and what is left.
LEMMA DivisionIs ==
    ASSUME NEW x \in Nat, NEW d \in Nat \ {0}
    PROVE  /\ x \div d \in Nat /\ x % d \in 0 .. d - 1
           /\ x = d * (x \div d) + (x % d)
<1>1. x \div d \in Nat
  OBVIOUS
<1>2. x % d \in 0 .. d - 1
  OBVIOUS
<1>3. x = d * (x \div d) + (x % d)
  OBVIOUS
<1> QED
  BY <1>1, <1>2, <1>3

LEMMA QuotientOfBounded ==
    ASSUME NEW i \in (0 - IntLimit) .. IntLimit
    PROVE  Quotient(i, Ki) \in (0 - Push) .. Push
<1>1. Ki \in Nat /\ Ki >= 1 /\ IntLimit \in Nat
  BY RecoveryAssumption
<1>2. \A x, y, d \in Nat : d >= 1 /\ x <= y => x \div d <= y \div d
  OBVIOUS
<1>3. CASE i >= 0
  BY <1>1, <1>2, <1>3 DEF Quotient, Push
<1>4. CASE i < 0
  BY <1>1, <1>2, <1>4 DEF Quotient, Push
<1> QED
  BY <1>3, <1>4

\* One correction against a measurement the estimate is ahead of: the proportional
\* part outweighs the integrator's, or the estimate is already within Slack.
LEMMA CorrectedDown ==
    ASSUME NEW o \in Int, NEW m \in Int, NEW i \in (0 - Push) .. Push
    PROVE  LET next == o + Quotient(m - o, Kp) + i
           IN  next <= o \/ next <= m + Slack
<1>1. Push \in Nat /\ Kp \in Nat \ {0} /\ Kp * Push \in Nat /\ Slack = Kp * Push + Kp
      /\ Kp * Push >= Push
  BY PushBounds, RecoveryAssumption
<1>2. CASE m - o >= 0
  <2>1. (m - o) \div Kp \in Nat /\ (m - o) \div Kp <= m - o
    <3>1. m - o \in Nat
      BY <1>2
    <3>2. \A q \in Nat : q <= Kp * q
      BY <1>1
    <3>3. PICK q \in Nat, r \in Nat : q = (m - o) \div Kp /\ m - o = Kp * q + r
      BY <1>1, <3>1, DivisionIs
    <3>4. q <= Kp * q /\ Kp * q \in Nat
      BY <1>1, <3>2
    <3> QED
      BY <3>3, <3>4
  <2> QED
    BY <1>1, <1>2, <2>1 DEF Quotient
<1>3. CASE m - o < 0
  <2>1. PICK d \in Nat : d = o - m
    BY <1>3
  <2>2. PICK a \in Nat, b \in 0 .. Kp - 1 : a = d \div Kp /\ d = Kp * a + b
    BY <1>1, <2>1, DivisionIs
  <2>3. Quotient(m - o, Kp) = 0 - a
    BY <1>3, <2>1, <2>2 DEF Quotient
  <2>4. CASE a >= Push
    BY <1>1, <2>2, <2>3, <2>4
  <2>5. CASE a < Push
    <3>1. Kp * a - a <= Kp * Push - Push
      <4>1. PICK k \in Nat : Kp = k + 1
        BY <1>1
      <4>2. k * a <= k * Push
        BY <1>1, <2>2, <2>5, <4>1
      <4> QED
        BY <1>1, <4>1, <4>2
    <3>2. Kp * a \in Nat
      BY <1>1
    <3> HIDE DEF Push
    <3> QED
      BY <1>1, <2>1, <2>2, <2>3, <3>1, <3>2
  <2> QED
    BY <1>1, <2>2, <2>4, <2>5
<1> QED
  BY <1>2, <1>3

\* And against one it is behind of.
LEMMA CorrectedUp ==
    ASSUME NEW o \in Int, NEW m \in Int, NEW i \in (0 - Push) .. Push
    PROVE  LET next == o + Quotient(m - o, Kp) + i
           IN  next >= o \/ next >= m - Slack
<1>1. Push \in Nat
  BY PushBounds
<1>2. PICK p \in Int, n \in Int, j \in (0 - Push) .. Push : p = 0 - o /\ n = 0 - m /\ j = 0 - i
  BY <1>1
<1>3. p + Quotient(n - p, Kp) + j <= p \/ p + Quotient(n - p, Kp) + j <= n + Slack
  BY CorrectedDown
<1>4. n - p = 0 - (m - o)
  BY <1>2
<1>5. Quotient(n - p, Kp) = 0 - Quotient(m - o, Kp) /\ Quotient(m - o, Kp) \in Int
  <2>1. \A x \in Nat : x \div Kp \in Nat
    BY DivisionIs, RecoveryAssumption
  <2>2. 0 \div Kp = 0
    BY RecoveryAssumption
  <2> QED
    BY <1>4, <2>1, <2>2 DEF Quotient
<1> QED
  BY <1>1, <1>2, <1>3, <1>5, PushBounds

LEMMA MagnitudeType == \A x \in Int : Magnitude(x) \in Nat
  BY DEF Magnitude

\* A measurement the environment makes is one of those there can be.
LEMMA MeasuredIs ==
    ASSUME RecoveryTypeOK,
           NEW noise \in IF settled THEN Jitter ELSE Spikes
    PROVE  trueOffset + noise \in Measurable /\ trueOffset + noise \in Int
  BY RecoveryAssumption DEF RecoveryTypeOK, Measurable

LEMMA MeasurableAreInt == Measurable \subseteq Int
  BY RecoveryAssumption DEF Measurable

LoopInv == RecoveryTypeOK /\ StaysNearTheClock

LEMMA LoopStarts == RecoveryInit => LoopInv
<1>1. \A x : x = 0 => /\ x \in (0 - IntLimit) .. IntLimit /\ x \in 0 .. Warmup + 1
                     /\ x \in 0 .. StreakLimit /\ x \in Int /\ x \in Nat
  BY RecoveryAssumption
<1>2. RecoveryInit => RecoveryTypeOK
  BY <1>1, Zenon DEF RecoveryInit, RecoveryTypeOK
<1>3. RecoveryInit => StaysNearTheClock
  BY DEF RecoveryInit, StaysNearTheClock
<1> QED
  BY <1>2, <1>3 DEF LoopInv

LEMMA AdmitKeeps ==
    ASSUME LoopInv, NEW m \in Measurable, Admit(m - offset), UNCHANGED <<trueOffset, settled>>
    PROVE  LoopInv'
<1> USE DEF LoopInv, RecoveryTypeOK
<1>1. m \in Int /\ offset \in Int /\ m - offset \in Int
  BY MeasurableAreInt
<1>2. integral' \in (0 - IntLimit) .. IntLimit
  BY <1>1, RecoveryAssumption DEF Admit, Integrated, Bounded
<1>3. Quotient(integral', Ki) \in (0 - Push) .. Push
  BY <1>2, QuotientOfBounded
<1>4. offset' = offset + Quotient(m - offset, Kp) + Quotient(integral', Ki)
  BY DEF Admit
<1>5. /\ offset' <= offset \/ offset' <= m + Slack
      /\ offset' >= offset \/ offset' >= m - Slack
  BY <1>1, <1>3, <1>4, CorrectedDown, CorrectedUp
<1>6. offset' \in Int
  <2>1. \A x \in Nat : x \div Kp \in Nat
    BY DivisionIs, RecoveryAssumption
  <2>2. Quotient(m - offset, Kp) \in Int
    BY <1>1, <2>1 DEF Quotient
  <2> QED
    BY <1>1, <1>3, <1>4, <2>2, PushBounds
<1>7. sigma' \in Nat
  <2>1. \A x \in Nat : x \div Sigmas \in Nat /\ x \div 2 \in Nat
    BY DivisionIs, RecoveryAssumption
  <2>2. Magnitude(m - offset) \in Nat
    BY <1>1, MagnitudeType
  <2> QED
    BY <2>1, <2>2 DEF Admit, Scale
<1>8. observations' \in 0 .. Warmup + 1 /\ streak' \in 0 .. StreakLimit
  BY RecoveryAssumption DEF Admit
<1>9. locked /\ locked'
  BY DEF Admit
<1>10. StaysNearTheClock'
  <2>1. PICK s \in Nat : s = Slack
    BY PushBounds
  <2>2. Measurable' = Measurable /\ Slack' = Slack
    BY DEF Measurable, Slack
  <2>3. \E n \in Measurable : offset' <= n + s
    <3>1. PICK n \in Measurable : offset <= n + s
      BY <1>9, <2>1 DEF StaysNearTheClock
    <3> QED
      BY <1>1, <1>5, <1>6, <2>1, <3>1, MeasurableAreInt
  <2>4. \E n \in Measurable : offset' >= n - s
    <3>1. PICK n \in Measurable : offset >= n - s
      BY <1>9, <2>1 DEF StaysNearTheClock
    <3> QED
      BY <1>1, <1>5, <1>6, <2>1, <3>1, MeasurableAreInt
  <2> QED
    BY <2>1, <2>2, <2>3, <2>4 DEF StaysNearTheClock
<1> QED
  BY <1>2, <1>6, <1>7, <1>8, <1>9, <1>10

LEMMA LoopSteps == LoopInv /\ [RecoveryNext]_recoveryVars => LoopInv'
<1> SUFFICES ASSUME LoopInv, [RecoveryNext]_recoveryVars PROVE LoopInv'
  OBVIOUS
<1> USE DEF LoopInv, RecoveryTypeOK
<1>1. ASSUME NEW noise \in IF settled THEN Jitter ELSE Spikes, Observe(trueOffset + noise)
      PROVE  LoopInv'
  <2>1. PICK m \in Measurable : m = trueOffset + noise /\ m \in Int
    BY MeasuredIs
  <2>2. CASE Seed(m)
    <3>1. StaysNearTheClock'
      BY <2>1, <2>2, PushBounds DEF Seed, StaysNearTheClock, Measurable, Slack
    <3> QED
      BY <1>1, <2>1, <2>2, <3>1, RecoveryAssumption DEF Observe, Seed
  <2>3. CASE Reject(m - offset)
    <3>1. streak' \in 0 .. StreakLimit
      BY <2>3, RecoveryAssumption DEF Reject, StepDetected
    <3> QED
      BY <1>1, <2>3, <3>1 DEF Observe, Reject, StaysNearTheClock, Measurable, Slack
  <2>4. CASE Admit(m - offset)
    BY <1>1, <2>4, AdmitKeeps DEF Observe
  <2> QED
    BY <1>1, <2>1, <2>2, <2>3, <2>4 DEF Observe
<1>2. CASE Reset
  <2>1. \A x : x = 0 => /\ x \in (0 - IntLimit) .. IntLimit /\ x \in 0 .. Warmup + 1
                       /\ x \in 0 .. StreakLimit /\ x \in Int /\ x \in Nat
    BY RecoveryAssumption
  <2>2. RecoveryTypeOK'
    BY <1>2, <2>1, Zenon DEF Reset
  <2>3. StaysNearTheClock'
    BY <1>2 DEF Reset, StaysNearTheClock
  <2> QED
    BY <2>2, <2>3
<1>3. CASE Jump
  BY <1>3 DEF Jump, StaysNearTheClock, Measurable, Slack
<1>4. CASE SettleClocks
  BY <1>4 DEF SettleClocks, StaysNearTheClock, Measurable, Slack
<1>5. CASE UNCHANGED recoveryVars
  BY <1>5 DEF recoveryVars, StaysNearTheClock, Measurable, Slack
<1> QED
  BY <1>1, <1>2, <1>3, <1>4, <1>5 DEF RecoveryNext, Measure

\* The state of the loop keeps its types and the integrator its bound, whatever is
\* measured (observe and reset of ConsumerClockRecovery.ts).
THEOREM LoopTypeCorrect == RecoverySpec => []RecoveryTypeOK
<1>1. LoopInv => RecoveryTypeOK
  BY DEF LoopInv
<1> QED
  BY <1>1, LoopStarts, LoopSteps, PTL DEF RecoverySpec

\* However the clocks jump and whatever spikes are measured, the gate and the bounded
\* integrator keep the estimate as near to the measurements as the gains allow.
THEOREM LoopStaysNear == RecoverySpec => []StaysNearTheClock
<1>1. LoopInv => StaysNearTheClock
  BY DEF LoopInv
<1> QED
  BY <1>1, LoopStarts, LoopSteps, PTL DEF RecoverySpec

-------------------------------------------------------------------------------
(***************************************************************************)
(* BridgePulls, for every ring capacity and number of frames.                *)
(*                                                                         *)
(* A frame is pushed after those in the ring (Ordered), so what a pull        *)
(* returns is later than what was fed to the loop and to the predictors        *)
(* before, also when it is blended with the frame before it, which is later    *)
(* than what was fed too (Advancing).  A fallback returns the smoother's frame *)
(* once more; only a torn frame that is let through has a stamp of any value.  *)
(***************************************************************************)

\* The stamp lies before all that is in the ring, and before all that is to come.
Before(stamp, queue, count) ==
    stamp <= 2 * count /\ \A i \in 1 .. Len(queue) : stamp <= 2 * queue[i]

Ordered(queue, count) ==
    /\ \A i \in 1 .. Len(queue) : queue[i] <= count
    /\ \A i, j \in 1 .. Len(queue) : i < j => queue[i] < queue[j]

Stamps == 0 .. 2 * MaxFrames

PullsTyped ==
    /\ checked \in BOOLEAN /\ bigIntStamp \in BOOLEAN
    /\ ring \in Seq(Frames) /\ Len(ring) <= RingCapacity /\ pushed \in 0 .. MaxFrames
    /\ health \in [Frames -> {"ok", "soft", "hard"}]
    /\ prev \in Views /\ returned \in Views /\ prevValid \in BOOLEAN
    /\ tornFrames \in Nat /\ tornFrames + Len(ring) <= pushed
    /\ cache \in [view : Views, valid : BOOLEAN, stamp : Stamps, quantum : BOOLEAN]
    /\ observed \in Stamps /\ ingested \in Stamps /\ letThrough \in BOOLEAN

\* The smoother's frame is what the caller has, of frames that were pushed sound.
Clean ==
    prevValid => /\ prev = returned
                 /\ \A f \in prev.bytes : f <= pushed /\ f \notin Torn

\* Unless a torn frame was let through, what was fed is older than what is kept,
\* and what is kept older than what will be pulled.
Advancing ==
    ~letThrough =>
        /\ Before(observed, ring, pushed) /\ Before(ingested, ring, pushed)
        /\ prevValid => /\ Before(prev.stamp, ring, pushed)
                        /\ observed <= prev.stamp /\ ingested <= prev.stamp

PullsInv == PullsTyped /\ Ordered(ring, pushed) /\ Clean /\ Advancing

LEMMA PullsStart == PullsInit => PullsInv
<1> SUFFICES ASSUME PullsInit PROVE PullsInv
  OBVIOUS
<1>1. MaxFrames \in Nat /\ RingCapacity \in Nat /\ 0 \in Stamps
  BY PullsAssumption DEF Stamps
<1>2. Blank \in Views /\ Blank.stamp = 0
  BY <1>1 DEF Blank, Views, Stamps
<1>3. ring \in Seq(Frames) /\ Len(ring) = 0
  BY DEF PullsInit
<1>4. cache \in [view : Views, valid : BOOLEAN, stamp : Stamps, quantum : BOOLEAN]
  BY <1>1, <1>2 DEF PullsInit
<1>5. health \in [Frames -> {"ok", "soft", "hard"}]
  BY DEF PullsInit
<1>6. PullsTyped
  <2>1. tornFrames \in Nat /\ tornFrames + Len(ring) <= pushed /\ Len(ring) <= RingCapacity
        /\ pushed \in 0 .. MaxFrames
    BY <1>1, <1>3 DEF PullsInit
  <2>2. prev \in Views /\ returned \in Views /\ observed \in Stamps /\ ingested \in Stamps
    BY <1>1, <1>2 DEF PullsInit
  <2>3. /\ checked \in BOOLEAN /\ bigIntStamp \in BOOLEAN
        /\ prevValid \in BOOLEAN /\ letThrough \in BOOLEAN
    BY DEF PullsInit
  <2> QED
    BY <1>3, <1>4, <1>5, <2>1, <2>2, <2>3 DEF PullsTyped
<1>7. Ordered(ring, pushed)
  BY <1>3 DEF Ordered
<1>8. Clean
  BY DEF PullsInit, Clean
<1>9. Advancing
  <2>1. Before(0, ring, pushed) /\ observed = 0 /\ ingested = 0 /\ ~prevValid
    BY <1>3 DEF PullsInit, Before
  <2> QED
    BY <2>1 DEF Advancing
<1> QED
  BY <1>6, <1>7, <1>8, <1>9 DEF PullsInv

\* Taking a frame: what is left lies after it.
LEMMA TakeKeeps ==
    ASSUME PullsTyped, Ordered(ring, pushed), NEW f \in Frames, Oldest(f) \/ Newest(f)
    PROVE  /\ ring' \in Seq(Frames) /\ Len(ring') + 1 <= Len(ring)
           /\ Ordered(ring', pushed) /\ f <= pushed
           /\ \E i \in 1 .. Len(ring) : f = ring[i]
           /\ Before(2 * f, ring', pushed)
           /\ \A s \in Nat : Before(s, ring, pushed) => Before(s, ring', pushed) /\ s <= 2 * f
<1>1. ring \in Seq(Frames) /\ Frames \subseteq Nat /\ pushed \in Nat /\ Len(ring) \in Nat
  BY PullsAssumption DEF PullsTyped, Frames
<1>2. CASE Oldest(f)
  <2>1. ring # <<>> /\ f = ring[1] /\ Len(ring) >= 1
    BY <1>1, <1>2 DEF Oldest
  <2>2. ring' \in Seq(Frames) /\ Len(ring') = Len(ring) - 1
        /\ \A i \in 1 .. Len(ring') : ring'[i] = ring[i + 1]
    BY <1>1, <1>2 DEF Oldest
  <2>0. \A i \in 1 .. Len(ring') : i \in Nat /\ i + 1 \in 1 .. Len(ring)
    BY <1>1, <2>1, <2>2
  <2>3. Ordered(ring', pushed)
    <3>1. \A i \in 1 .. Len(ring') : ring'[i] <= pushed
      BY <2>0, <2>2 DEF Ordered
    <3>2. \A i, j \in 1 .. Len(ring') : i < j => ring'[i] < ring'[j]
      <4>1. TAKE i, j \in 1 .. Len(ring')
      <4>2. HAVE i < j
      <4>3. i + 1 < j + 1 /\ i + 1 \in 1 .. Len(ring) /\ j + 1 \in 1 .. Len(ring)
        BY <2>0, <4>2
      <4>4. ring[i + 1] < ring[j + 1]
        BY <4>3 DEF Ordered
      <4> QED
        BY <2>2, <4>4
    <3> QED
      BY <3>1, <3>2 DEF Ordered
  <2>4. \A i \in 1 .. Len(ring') : f < ring'[i]
    BY <1>1, <2>1, <2>2 DEF Ordered
  <2>5. f <= pushed
    BY <1>1, <2>1 DEF Ordered
  <2>6. Before(2 * f, ring', pushed)
    <3>1. f \in Nat /\ \A i \in 1 .. Len(ring') : ring'[i] \in Nat
      BY <1>1, <2>2, ElementOfSeq
    <3>2. \A i \in 1 .. Len(ring') : 2 * f <= 2 * ring'[i]
      BY <2>4, <3>1
    <3>3. 2 * f <= 2 * pushed
      BY <1>1, <2>5, <3>1
    <3> QED
      BY <3>2, <3>3 DEF Before
  <2>7. ASSUME NEW s \in Nat, Before(s, ring, pushed)
        PROVE  Before(s, ring', pushed) /\ s <= 2 * f
    <3>1. s <= 2 * pushed /\ \A i \in 1 .. Len(ring) : s <= 2 * ring[i]
      BY <2>7 DEF Before
    <3>2. \A i \in 1 .. Len(ring') : s <= 2 * ring'[i]
      BY <2>0, <2>2, <3>1
    <3>3. s <= 2 * f
      BY <1>1, <2>1, <3>1
    <3> QED
      BY <3>1, <3>2, <3>3 DEF Before
  <2> QED
    BY <1>1, <2>1, <2>2, <2>3, <2>5, <2>6, <2>7
<1>3. CASE Newest(f)
  <2>1. ring # <<>> /\ f = ring[Len(ring)] /\ Len(ring) >= 1 /\ ring' = <<>>
    BY <1>1, <1>3 DEF Newest
  <2>2. ring' \in Seq(Frames) /\ Len(ring') = 0
    BY <2>1
  <2>3. f <= pushed
    BY <1>1, <2>1 DEF Ordered
  <2> QED
    BY <1>1, <2>1, <2>2, <2>3 DEF Ordered, Before
<1> QED
  BY <1>2, <1>3

\* What a pull hands out and keeps, on every path of the invariant's handling.
Handled(f) ==
    /\ returned' \in Views /\ prev' \in Views /\ prevValid' \in BOOLEAN
    /\ letThrough' \in BOOLEAN
    /\ tornFrames' = tornFrames \/ tornFrames' = tornFrames + 1
    /\ Clean'
    /\ ~letThrough' => /\ ~letThrough
                       /\ Before(returned'.stamp, ring', pushed)
                       /\ observed <= returned'.stamp /\ ingested <= returned'.stamp

LEMMA HandleKeeps ==
    ASSUME PullsInv, NEW f \in Frames, Oldest(f) \/ Newest(f), Raw(f) \/ Smoothed(f),
           UNCHANGED pushedFrames
    PROVE  Handled(f)
<1> USE DEF PullsInv
<1>1. /\ MaxFrames \in Nat /\ f \in Nat /\ pushed \in Nat /\ f <= pushed /\ 2 * f \in Stamps
      /\ observed \in Nat /\ ingested \in Nat
  BY TakeKeeps, PullsAssumption DEF PullsTyped, Frames, Stamps
<1>2. FrameView(f) \in Views /\ FrameView(f).stamp = 2 * f /\ FrameView(f).bytes = {f}
  BY <1>1 DEF FrameView, Views, Stamps
<1>3. Torn' = Torn /\ pushed' = pushed
  BY DEF Torn, pushedFrames
<1>4. prev \in Views /\ returned \in Views /\ prev.stamp \in Nat /\ prev.bytes \subseteq Frames
      /\ prev.stamp \in Stamps
  BY PullsAssumption DEF PullsTyped, Views, Stamps
<1>5. Before(2 * f, ring', pushed)
      /\ (~letThrough => observed <= 2 * f /\ ingested <= 2 * f)
  BY <1>1, TakeKeeps DEF Advancing
<1>6. ~letThrough /\ prevValid =>
          /\ Before(prev.stamp, ring', pushed) /\ prev.stamp <= 2 * f
          /\ observed <= prev.stamp /\ ingested <= prev.stamp
  BY <1>4, TakeKeeps DEF Advancing
<1>7. ASSUME f \notin Torn, NEW view \in Blends(f), Keep(view), UNCHANGED <<tornFrames, letThrough>>
      PROVE  Handled(f)
  <2>1. /\ view \in Views
        /\ \A g \in view.bytes : g <= pushed /\ g \notin Torn
        /\ ~letThrough => /\ Before(view.stamp, ring', pushed)
                          /\ observed <= view.stamp /\ ingested <= view.stamp
    <3>1. CASE ~prevValid
      <4>1. view = FrameView(f)
        BY <1>7, <3>1 DEF Blends
      <4> QED
        BY <1>1, <1>2, <1>5, <1>7, <4>1
    <3>2. CASE prevValid
      <4>1. PICK s \in IF bigIntStamp THEN {2 * f} ELSE prev.stamp .. 2 * f :
                view = [bytes |-> prev.bytes \cup {f}, stamp |-> s]
        BY <1>7, <3>2 DEF Blends
      <4>2. s \in Nat /\ s <= 2 * f /\ s \in Stamps
            /\ (~letThrough => prev.stamp <= s)
        BY <1>1, <1>4, <1>6, <3>2, <4>1 DEF Stamps
      <4>3. view \in Views
        BY <1>4, <4>1, <4>2 DEF Views, Stamps
      <4>4. \A g \in view.bytes : g <= pushed /\ g \notin Torn
        BY <1>1, <1>7, <3>2, <4>1 DEF Clean
      <4>5. ~letThrough => /\ Before(s, ring', pushed)
                           /\ observed <= s /\ ingested <= s
        <5>1. \A i \in 1 .. Len(ring') : ring'[i] \in Nat
          <6>1. ring' \in Seq(Frames)
            BY TakeKeeps
          <6>2. \A i \in 1 .. Len(ring') : ring'[i] \in Frames
            BY <6>1, ElementOfSeq
          <6> QED
            BY <6>2 DEF Frames
        <5>2. Before(s, ring', pushed)
          BY <1>1, <1>5, <4>2, <5>1 DEF Before
        <5>3. ~letThrough => observed <= s /\ ingested <= s
          BY <1>1, <1>4, <1>6, <3>2, <4>2
        <5> QED
          BY <5>2, <5>3
      <4> QED
        BY <4>1, <4>3, <4>4, <4>5
    <3> QED
      BY <3>1, <3>2 DEF PullsTyped
  <2>2. Clean'
    BY <1>3, <1>7, <2>1 DEF Keep, Clean
  <2> QED
    BY <1>7, <2>1, <2>2 DEF Keep, Handled, PullsTyped
<1>8. ASSUME FallBack(f) PROVE Handled(f)
  <2>1. returned' \in Views /\ prev' = prev /\ prevValid' = prevValid
        /\ tornFrames' = tornFrames + 1
    BY <1>4, <1>8 DEF FallBack, TornView, Views, Frames
  <2>2. Clean'
    BY <1>3, <1>8, <2>1 DEF FallBack, Clean
  <2>3. letThrough' = (letThrough \/ ~prevValid)
    BY <1>8 DEF FallBack
  <2>4. ~letThrough' => ~letThrough /\ prevValid /\ returned' = prev
    BY <1>8, <2>3 DEF FallBack
  <2> QED
    BY <1>4, <1>6, <2>1, <2>2, <2>3, <2>4 DEF Handled, PullsTyped
<1>9. ASSUME Verbatim(f) PROVE Handled(f)
  BY <1>1, <1>2, <1>4, <1>5, <1>9 DEF Verbatim, Handled, Clean, PullsTyped
<1>10. FrameView(f) \in Blends(f) \/ prevValid
  BY DEF Blends
<1>11. ASSUME f \notin Torn, Keep(FrameView(f)), UNCHANGED <<tornFrames, letThrough>>
       PROVE  Handled(f)
  <2>1. Clean'
    BY <1>1, <1>2, <1>3, <1>11 DEF Keep, Clean
  <2> QED
    BY <1>1, <1>2, <1>5, <1>11, <2>1 DEF Keep, Handled, PullsTyped
<1>12. f \in Torn <=> checked /\ health[f] = "hard"
  BY DEF Torn
<1> QED
  BY <1>7, <1>8, <1>9, <1>11, <1>12 DEF Raw, Smoothed, Smooth

LEMMA PushKeeps == PullsInv /\ PushFrame => PullsInv'
<1> SUFFICES ASSUME PullsInv, PushFrame PROVE PullsInv'
  OBVIOUS
<1> USE DEF PullsInv
<1>1. PICK n \in Nat : n = pushed /\ pushed' = n + 1 /\ n + 1 \in Frames /\ n < MaxFrames
  BY PullsAssumption DEF PullsTyped, PushFrame, Frames
<1>2. health' \in [Frames -> {"ok", "soft", "hard"}]
      /\ \A f \in Frames : f # n + 1 => health'[f] = health[f]
  <2>1. PICK h \in {"ok", "soft", "hard"} : health' = [health EXCEPT ![n + 1] = h]
    BY <1>1 DEF PushFrame
  <2> QED
    BY <1>1, <2>1 DEF PullsTyped
<1>3. /\ ring \in Seq(Frames) /\ Len(ring) \in Nat
      /\ \A i \in 1 .. Len(ring) : ring[i] \in Nat /\ ring[i] <= n
  <2>1. \A i \in 1 .. Len(ring) : ring[i] \in Frames
    BY ElementOfSeq DEF PullsTyped
  <2> QED
    BY <1>1, <2>1 DEF PullsTyped, Ordered, Frames
<1>4. /\ ring' \in Seq(Frames) /\ Len(ring') <= RingCapacity
      /\ Len(ring') = Len(ring) \/ Len(ring') = Len(ring) + 1
      /\ \A i \in 1 .. Len(ring) : ring'[i] = ring[i]
      /\ Len(ring') = Len(ring) + 1 => ring'[Len(ring) + 1] = n + 1
  <2>1. CASE Len(ring) < RingCapacity
    <3>1. ring' = Append(ring, n + 1)
      BY <1>1, <2>1 DEF PushFrame
    <3> QED
      BY <1>1, <1>3, <2>1, <3>1, PullsAssumption
  <2>2. CASE ~(Len(ring) < RingCapacity)
    <3>1. ring' = ring
      BY <2>2 DEF PushFrame
    <3> QED
      BY <1>3, <3>1 DEF PullsTyped
  <2> QED
    BY <2>1, <2>2
<1>5. Ordered(ring', n + 1)
  <2>1. Len(ring') \in Nat /\ \A i \in 1 .. Len(ring') :
            \/ i \in 1 .. Len(ring) /\ ring'[i] = ring[i]
            \/ i = Len(ring) + 1 /\ ring'[i] = n + 1
    <3>1. CASE Len(ring') = Len(ring)
      BY <1>3, <1>4, <3>1
    <3>2. CASE Len(ring') = Len(ring) + 1
      BY <1>3, <1>4, <3>2
    <3> QED
      BY <1>4, <3>1, <3>2
  <2>2. \A i, j \in 1 .. Len(ring) : i < j => ring[i] < ring[j]
    BY DEF Ordered
  <2>3. \A i \in 1 .. Len(ring') : ring'[i] <= n + 1
    BY <1>1, <1>3, <2>1
  <2>4. ASSUME NEW i \in 1 .. Len(ring'), NEW j \in 1 .. Len(ring'), i < j
        PROVE  ring'[i] < ring'[j]
    <3>1. i \in 1 .. Len(ring) /\ ring'[i] = ring[i]
      BY <1>3, <2>1, <2>4
    <3>2. CASE j \in 1 .. Len(ring) /\ ring'[j] = ring[j]
      BY <2>2, <2>4, <3>1, <3>2
    <3>3. CASE j = Len(ring) + 1 /\ ring'[j] = n + 1
      BY <1>1, <1>3, <3>1, <3>3
    <3> QED
      BY <2>1, <3>2, <3>3
  <2> QED
    BY <2>3, <2>4 DEF Ordered
<1>6. \A s \in Nat : Before(s, ring, n) => Before(s, ring', n + 1)
  BY <1>1, <1>3, <1>4 DEF Before
<1>7. Clean'
  <2>1. \A f \in Frames : f <= n => (f \in Torn' <=> f \in Torn)
    BY <1>1, <1>2 DEF PushFrame, Torn, Frames
  <2>2. prev.bytes \subseteq Frames
    BY DEF PullsTyped, Views
  <2> QED
    BY <1>1, <2>1, <2>2 DEF Clean, PushFrame, Frames
<1>8. Advancing'
  <2>1. observed \in Nat /\ ingested \in Nat /\ prev.stamp \in Nat
    BY PullsAssumption DEF PullsTyped, Views, Stamps
  <2> QED
    BY <1>1, <1>6, <2>1 DEF Advancing, PushFrame
<1>9. PullsTyped'
  <2>1. tornFrames' + Len(ring') <= pushed' /\ pushed' \in 0 .. MaxFrames
    BY <1>1, <1>3, <1>4, PullsAssumption DEF PushFrame, PullsTyped
  <2> QED
    BY <1>2, <1>4, <2>1 DEF PushFrame, PullsTyped
<1> QED
  BY <1>1, <1>5, <1>7, <1>8, <1>9

\* Every entry point that pulls, by what it feeds to the loop and the predictors.
LEMMA PullKeeps ==
    ASSUME PullsInv,
           NEW f \in Frames, Oldest(f) \/ Newest(f), Raw(f) \/ Smoothed(f),
           UNCHANGED pushedFrames,
           observed' = observed \/ observed' = returned'.stamp,
           ingested' = ingested \/ ingested' = returned'.stamp,
           cache' \in [view : Views, valid : BOOLEAN, stamp : Stamps, quantum : BOOLEAN]
    PROVE  /\ PullsInv'
           /\ ~letThrough' => observed' >= observed /\ ingested' >= ingested
<1> USE DEF PullsInv
<1>1. Handled(f)
  BY HandleKeeps
<1>2. /\ ring' \in Seq(Frames) /\ Len(ring') + 1 <= Len(ring) /\ Ordered(ring', pushed)
      /\ \A s \in Nat : Before(s, ring, pushed) => Before(s, ring', pushed)
  BY TakeKeeps
<1>3. /\ pushed' = pushed /\ checked' = checked /\ bigIntStamp' = bigIntStamp
      /\ health' = health
  BY DEF pushedFrames
<1>4. returned'.stamp \in Stamps /\ Stamps \subseteq Nat /\ prev'.stamp \in Stamps
  BY <1>1, PullsAssumption DEF Handled, Views, Stamps
<1>5. observed \in Stamps /\ ingested \in Stamps /\ observed' \in Stamps /\ ingested' \in Stamps
  BY <1>4 DEF PullsTyped
<1>6. PullsTyped'
  <2>1. Len(ring') \in Nat /\ Len(ring) \in Nat /\ RingCapacity \in Nat
    BY <1>2, PullsAssumption DEF PullsTyped
  <2>2. tornFrames' \in Nat /\ tornFrames' + Len(ring') <= pushed /\ Len(ring') <= RingCapacity
    BY <1>1, <1>2, <2>1 DEF Handled, PullsTyped
  <2> QED
    BY <1>1, <1>2, <1>3, <1>5, <2>2 DEF Handled, PullsTyped
<1>7. ASSUME ~letThrough'
      PROVE  /\ ~letThrough /\ Before(returned'.stamp, ring', pushed)
             /\ observed <= returned'.stamp /\ ingested <= returned'.stamp
             /\ Before(observed, ring', pushed) /\ Before(ingested, ring', pushed)
  <2>1. ~letThrough
    BY <1>1, <1>7 DEF Handled
  <2> QED
    BY <1>1, <1>2, <1>4, <1>5, <1>7, <2>1 DEF Handled, Advancing
<1>8. Advancing'
  <2>1. prevValid' => prev' = returned'
    BY <1>1 DEF Handled, Clean
  <2> QED
    BY <1>3, <1>4, <1>5, <1>7, <2>1 DEF Advancing
<1>9. ~letThrough' => observed' >= observed /\ ingested' >= ingested
  BY <1>4, <1>5, <1>7
<1> QED
  BY <1>1, <1>2, <1>3, <1>6, <1>8, <1>9 DEF Handled

\* The steps that touch the buffers without pulling.
LEMMA QuietKeeps ==
    ASSUME PullsInv, UNCHANGED <<pushedFrames, ring, returned, tornFrames, letThrough, ingested>>,
           prev' = prev, prevValid' = prevValid \/ prevValid' = FALSE,
           observed' = observed \/ observed' = 0,
           cache' \in [view : Views, valid : BOOLEAN, stamp : Stamps, quantum : BOOLEAN]
    PROVE  PullsInv'
<1> USE DEF PullsInv, pushedFrames
<1>1. MaxFrames \in Nat /\ 0 \in Stamps /\ observed \in Nat
  BY PullsAssumption DEF Stamps, PullsTyped
<1>2. PullsTyped'
  BY <1>1 DEF PullsTyped
<1>3. Ordered(ring', pushed')
  BY DEF Ordered
<1>4. Clean'
  BY DEF Clean, Torn
<1>5. Advancing'
  <2>1. Before(0, ring, pushed)
    <3>1. \A i \in 1 .. Len(ring) : ring[i] \in Frames
      BY ElementOfSeq DEF PullsTyped
    <3>2. pushed \in Nat /\ \A i \in 1 .. Len(ring) : ring[i] \in Nat
      BY <3>1 DEF PullsTyped, Frames
    <3> QED
      BY <3>2 DEF Before
  <2>2. prevValid => prev.stamp \in Nat
    BY PullsAssumption DEF PullsTyped, Views
  <2> QED
    BY <1>1, <2>1, <2>2 DEF Advancing
<1> QED
  BY <1>2, <1>3, <1>4, <1>5

\* A step keeps the invariant, and feeds no stamp that goes back.
LEMMA PullsSteps ==
    ASSUME PullsInv, [PullsNext]_pullVars
    PROVE  /\ PullsInv'
           /\ ~letThrough' => (observed' # 0 => observed' >= observed) /\ ingested' >= ingested
<1> DEFINE Caches == [view : Views, valid : BOOLEAN, stamp : Stamps, quantum : BOOLEAN]
<1>1. cache \in Caches /\ observed \in Nat /\ ingested \in Nat
  BY PullsAssumption DEF PullsInv, PullsTyped, Stamps
<1>2. ASSUME NEW f \in Frames, Oldest(f) \/ Newest(f), Raw(f) \/ Smoothed(f),
             UNCHANGED pushedFrames
      PROVE  returned' \in Views /\ returned'.stamp \in Stamps
  BY <1>2, HandleKeeps DEF Handled, Views, Stamps
<1>3. CASE PushFrame
  <2>1. PullsInv' /\ observed' = observed /\ ingested' = ingested
    BY <1>3, PushKeeps DEF PushFrame
  <2> QED
    BY <1>1, <2>1
<1>4. CASE Pull
  BY <1>1, <1>4, PullKeeps DEF Pull
<1>5. CASE PullLatest
  BY <1>1, <1>5, PullKeeps DEF PullLatest
<1>6. CASE PullSmoothed
  BY <1>1, <1>6, PullKeeps DEF PullSmoothed
<1>7. CASE ResetSmoother
  <2>1. /\ UNCHANGED <<pushedFrames, ring, returned, tornFrames, letThrough, ingested>>
        /\ prev' = prev /\ prevValid' = FALSE /\ observed' = observed /\ cache' \in Caches
    BY <1>1, <1>7 DEF ResetSmoother
  <2>2. PullsInv'
    BY <2>1, QuietKeeps
  <2> QED
    BY <1>1, <2>1, <2>2
<1>8. CASE PullEvaluated
  <2>1. PICK f \in Frames : Newest(f) /\ Raw(f)
    BY <1>8 DEF PullEvaluated
  <2>2. UNCHANGED pushedFrames /\ observed' = returned'.stamp /\ ingested' = ingested
    BY <1>8 DEF PullEvaluated, ObserveStamp
  <2>3. cache' \in Caches
    BY <1>2, <1>8, <2>1, <2>2 DEF PullEvaluated
  <2> QED
    BY <2>1, <2>2, <2>3, PullKeeps
<1>9. CASE RideCache
  <2>1. cache' \in Caches
    BY <1>1, <1>9 DEF RideCache
  <2> QED
    BY <1>1, <1>9, <2>1, QuietKeeps DEF RideCache
<1>10. CASE ResetEvalCache
  <2>1. cache' \in Caches
    BY <1>1, <1>10 DEF ResetEvalCache
  <2> QED
    BY <1>1, <1>10, <2>1, QuietKeeps DEF ResetEvalCache
<1>11. CASE PullHermite
  BY <1>1, <1>11, PullKeeps DEF PullHermite, ObserveStamp
<1>12. CASE PullPredicted
  <2>1. PICK f \in Frames : Newest(f) /\ Raw(f)
    BY <1>12 DEF PullPredicted
  <2>2. UNCHANGED pushedFrames /\ ingested' = ingested
        /\ (observed' = observed \/ observed' = returned'.stamp)
    BY <1>12 DEF PullPredicted, ObserveStamp
  <2>3. cache' \in Caches
    BY <1>1, <1>2, <1>12, <2>1, <2>2 DEF PullPredicted
  <2> QED
    BY <2>1, <2>2, <2>3, PullKeeps
<1>13. CASE PullKalman
  <2>1. PICK f \in Frames : Newest(f) /\ Raw(f)
    BY <1>13 DEF PullKalman
  <2>2. UNCHANGED pushedFrames /\ ingested' = returned'.stamp
        /\ (observed' = observed \/ observed' = returned'.stamp)
    BY <1>13 DEF PullKalman, ObserveStamp
  <2>3. cache' \in Caches
    BY <1>1, <1>2, <1>13, <2>1, <2>2 DEF PullKalman
  <2> QED
    BY <2>1, <2>2, <2>3, PullKeeps
<1>14. CASE PullThenThrow
  <2>1. PICK f \in Frames : Newest(f) /\ Raw(f)
    BY <1>14 DEF PullThenThrow
  <2>2. UNCHANGED pushedFrames /\ ingested' = ingested /\ observed' = observed
    BY <1>14 DEF PullThenThrow
  <2>3. cache' \in Caches
    BY <1>1, <1>2, <1>14, <2>1, <2>2 DEF PullThenThrow
  <2> QED
    BY <2>1, <2>2, <2>3, PullKeeps
<1>15. CASE ResetPll
  BY <1>1, <1>15, QuietKeeps DEF ResetPll
<1>16. CASE UNCHANGED pullVars
  BY <1>1, <1>16, QuietKeeps DEF pullVars, pushedFrames
<1> QED
  BY <1>3, <1>4, <1>5, <1>6, <1>7, <1>8, <1>9, <1>10, <1>11, <1>12, <1>13, <1>14, <1>15,
     <1>16 DEF PullsNext

LEMMA PullsStay == PullsSpec => []PullsInv
  BY PullsStart, PullsSteps, PTL DEF PullsSpec

\* The buffers of the bridge hold views of frames that were pushed.
THEOREM PullsTypeCorrect == PullsSpec => []PullsTypeOK
<1>1. PullsInv => PullsTypeOK
  BY PullsAssumption, LenProperties
     DEF PullsInv, PullsTyped, PullsTypeOK, Stamps
<1> QED
  BY <1>1, PullsStay, PTL

\* Every entry point leaves in the smoother what it returned, or invalidates it, so no
\* blend or fallback of FrameSmoother reaches a torn frame or one the caller has not seen.
THEOREM SmootherStaysClean == PullsSpec => []SmootherIsClean
<1>1. PullsInv => SmootherIsClean
  BY DEF PullsInv, Clean, SmootherIsClean
<1> QED
  BY <1>1, PullsStay, PTL

\* pull, pullLatest, pullSmoothed and the evaluating entry points in any order feed the
\* clock recovery and the predictors stamps that only grow.
THEOREM StampsNeverGoBack == PullsSpec => StampsAdvance
<1>1. PullsInv /\ [PullsNext]_pullVars
      => [~letThrough' => /\ observed' # 0 => observed' >= observed
                          /\ ingested' >= ingested]_pullVars
  BY PullsSteps
<1> QED
  BY <1>1, PullsStay, PTL DEF PullsSpec, StampsAdvance

-------------------------------------------------------------------------------
(***************************************************************************)
(* Theorems about TimelineRecorder, for every set of times and rates.       *)
(*                                                                         *)
(* The cursor of a sweep and the binary search of a lookup are recursive    *)
(* functions.  Each is shown to exist, and any function that satisfies its  *)
(* equation to end at a place whose tuple is due, or at the first, and      *)
(* whose successor is not: of sorted times there is one such place.         *)
(***************************************************************************)

Sorted(times) == \A i, j \in 1 .. Len(times) : i <= j => times[i] <= times[j]

InOrderOf(times) == times \in Seq(Nat) /\ Len(times) <= MaxEvents /\ Sorted(times)

\* The tuple at this place, counted from 0, is due; the one after it is not.
DueAt(place, n) == Due(tuples[place + 1], n, sampleRate)
LastDue(place, n) ==
    /\ place = 0 \/ DueAt(place, n)
    /\ ~(place + 1 < Len(tuples) /\ DueAt(place + 1, n))

\* What is due stays due: for earlier events, later samples and lower rates.
LEMMA DueStays ==
    ASSUME NEW t \in Nat, NEW u \in Nat, u <= t, NEW n \in Nat, NEW m \in Nat, n <= m,
           NEW r \in Nat, NEW q \in Nat, q <= r, Due(t, n, r)
    PROVE  Due(u, m, q)
<1>1. Epoch \in Nat /\ Second \in Nat \ {0}
  BY TimelineAssumption
<1>2. (t - Epoch) * r <= n * Second
  BY DEF Due
<1>3. PICK k \in Nat : m = n + k
  OBVIOUS
<1>4. m * Second = n * Second + k * Second /\ k * Second \in Nat /\ n * Second \in Nat
  BY <1>1, <1>3
<1>5. m * Second \in Nat /\ n * Second <= m * Second
  BY <1>4
<1>6. CASE u <= Epoch
  <2>1. PICK d \in Nat : u - Epoch = -d
    BY <1>1, <1>6
  <2>2. (-d) * q = -(d * q) /\ d * q \in Nat
    OBVIOUS
  <2> QED
    BY <1>5, <2>1, <2>2 DEF Due
<1>7. CASE u > Epoch
  <2>1. PICK d \in Nat, e \in Nat, p \in Nat : u - Epoch = d /\ t - Epoch = d + e /\ r = q + p
    <3>1. u - Epoch \in Nat /\ t - Epoch = (u - Epoch) + (t - u) /\ t - u \in Nat
          /\ r - q \in Nat /\ r = q + (r - q)
      BY <1>1, <1>7
    <3> QED
      BY <3>1
  <2>2. (d + e) * (q + p) = d * q + (d * p + e * q + e * p)
        /\ d * p + e * q + e * p \in Nat /\ d * q \in Nat
    OBVIOUS
  <2>3. d * q <= n * Second
    BY <1>2, <1>4, <2>1, <2>2
  <2> QED
    BY <1>4, <1>5, <2>1, <2>3 DEF Due
<1> QED
  BY <1>1, <1>6, <1>7

-------------------------------------------------------------------------------
(* The cursor *)

CursorStops(c, n) == ~(c + 1 < Len(tuples) /\ Due(tuples[c + 2], n, sampleRate))

StopsFrom(c, n, v) ==
    v \in c .. MaxEvents /\ CursorStops(v, n) /\ \A y \in c .. v - 1 : ~CursorStops(y, n)

Moves(f, n) ==
    f = [c \in 0 .. MaxEvents |->
            IF c + 1 < Len(tuples) /\ Due(tuples[c + 2], n, sampleRate) THEN f[c + 1] ELSE c]

\* The recursion of the cursor ends: such a function exists.
LEMMA CursorExists ==
    ASSUME InOrderOf(tuples), NEW n PROVE \E f : Moves(f, n)
<1>1. MaxEvents \in Nat /\ Len(tuples) \in Nat /\ Len(tuples) <= MaxEvents
  BY TimelineAssumption DEF InOrderOf
<1>2. ASSUME NEW c \in 0 .. MaxEvents PROVE \E v : StopsFrom(c, n, v)
  <2> DEFINE S == {x \in c .. MaxEvents : CursorStops(x, n)}
  <2>1. MaxEvents \in S /\ S \subseteq Nat
    BY <1>1 DEF CursorStops
  <2>2. \A x : x \in S <=> x \in c .. MaxEvents /\ CursorStops(x, n)
    OBVIOUS
  <2> HIDE DEF S
  <2>3. PICK v \in S : \A y \in S : v <= y
    BY <2>1, LeastOf
  <2>4. ASSUME NEW y \in c .. v - 1 PROVE ~CursorStops(y, n)
    <3>1. y \in c .. MaxEvents /\ ~(v <= y)
      BY <1>1, <2>2, <2>3
    <3> QED
      BY <2>2, <2>3, <3>1
  <2> QED
    BY <2>2, <2>3, <2>4 DEF StopsFrom
<1>3. ASSUME NEW c \in 0 .. MaxEvents, NEW v, NEW w, StopsFrom(c, n, v), StopsFrom(c, n, w)
      PROVE  v = w
  <2>1. v \in c .. MaxEvents /\ w \in c .. MaxEvents /\ CursorStops(v, n) /\ CursorStops(w, n)
    BY <1>3 DEF StopsFrom
  <2>2. ~(v \in c .. w - 1) /\ ~(w \in c .. v - 1)
    BY <1>3, <2>1 DEF StopsFrom
  <2> QED
    BY <1>1, <2>1, <2>2
<1> DEFINE f == [c \in 0 .. MaxEvents |-> CHOOSE v : StopsFrom(c, n, v)]
<1>4. \A c \in 0 .. MaxEvents : StopsFrom(c, n, f[c])
  BY <1>2
<1>5. ASSUME NEW c \in 0 .. MaxEvents
      PROVE  f[c] = IF c + 1 < Len(tuples) /\ Due(tuples[c + 2], n, sampleRate) THEN f[c + 1]
                    ELSE c
  <2> HIDE DEF f
  <2>1. CASE CursorStops(c, n)
    <3>1. StopsFrom(c, n, c)
      BY <1>1, <2>1 DEF StopsFrom
    <3>2. f[c] = c
      BY <1>3, <1>4, <3>1
    <3> QED
      BY <2>1, <3>2 DEF CursorStops
  <2>2. CASE ~CursorStops(c, n)
    <3>1. c + 1 \in 0 .. MaxEvents
      BY <1>1, <2>2 DEF CursorStops
    <3>2. f[c + 1] \in c + 1 .. MaxEvents /\ CursorStops(f[c + 1], n)
          /\ \A y \in c + 1 .. f[c + 1] - 1 : ~CursorStops(y, n)
      BY <1>4, <3>1 DEF StopsFrom
    <3>3. \A y \in c .. f[c + 1] - 1 : ~CursorStops(y, n)
      BY <1>1, <2>2, <3>2
    <3>4. StopsFrom(c, n, f[c + 1])
      BY <1>1, <3>2, <3>3 DEF StopsFrom
    <3>5. f[c] = f[c + 1]
      BY <1>3, <1>4, <3>4
    <3> QED
      BY <2>2, <3>5 DEF CursorStops
  <2> QED
    BY <2>1, <2>2
<1>6. f = [c \in DOMAIN f |-> f[c]] /\ DOMAIN f = 0 .. MaxEvents
  OBVIOUS
<1> HIDE DEF f
<1>7. Moves(f, n)
  BY <1>5, <1>6 DEF Moves
<1> QED
  BY <1>7

\* Any such function moves to the first place that is followed by none that is due.
LEMMA CursorMoves ==
    ASSUME InOrderOf(tuples), NEW n, NEW f, Moves(f, n)
    PROVE  \A c \in 0 .. MaxEvents : StopsFrom(c, n, f[c])
<1>1. MaxEvents \in Nat /\ Len(tuples) \in Nat /\ Len(tuples) <= MaxEvents
  BY TimelineAssumption DEF InOrderOf
<1> DEFINE T == {k \in Nat : \A c \in 0 .. MaxEvents : MaxEvents - c <= k => StopsFrom(c, n, f[c])}
<1>2. \A c \in 0 .. MaxEvents : f[c] = IF ~CursorStops(c, n) THEN f[c + 1] ELSE c
  BY DEF Moves, CursorStops
<1>3. ASSUME NEW c \in 0 .. MaxEvents, CursorStops(c, n) PROVE StopsFrom(c, n, f[c])
  <2>1. f[c] = c
    BY <1>2, <1>3
  <2> QED
    BY <1>1, <1>3, <2>1 DEF StopsFrom
<1>4. 0 \in T
  <2>1. ASSUME NEW c \in 0 .. MaxEvents, MaxEvents - c <= 0 PROVE CursorStops(c, n)
    BY <1>1, <2>1 DEF CursorStops
  <2> QED
    BY <1>3, <2>1
<1>5. ASSUME NEW k \in Nat, k \in T PROVE k + 1 \in T
  <2>1. ASSUME NEW c \in 0 .. MaxEvents, MaxEvents - c <= k + 1, ~CursorStops(c, n)
        PROVE  StopsFrom(c, n, f[c])
    <3>1. c + 1 \in 0 .. MaxEvents /\ MaxEvents - (c + 1) <= k
      BY <1>1, <2>1 DEF CursorStops
    <3>2. StopsFrom(c + 1, n, f[c + 1])
      BY <1>5, <3>1
    <3>3. f[c] = f[c + 1]
      BY <1>2, <2>1
    <3>4. f[c] \in c + 1 .. MaxEvents /\ CursorStops(f[c], n)
          /\ \A y \in c + 1 .. f[c] - 1 : ~CursorStops(y, n)
      BY <3>2, <3>3 DEF StopsFrom
    <3>5. \A y \in c .. f[c] - 1 : ~CursorStops(y, n)
      BY <1>1, <2>1, <3>4
    <3> QED
      BY <1>1, <3>4, <3>5 DEF StopsFrom
  <2> QED
    BY <1>3, <2>1
<1>6. MaxEvents \in T
  <2> HIDE DEF T
  <2> QED
    BY <1>1, <1>4, <1>5, CountUp
<1>7. \A c \in 0 .. MaxEvents : MaxEvents - c <= MaxEvents
  BY <1>1
<1> QED
  BY <1>6, <1>7

\* The cursor stays at one of the tuples, wherever it starts.
LEMMA CursorStays ==
    ASSUME InOrderOf(tuples), NEW n, NEW c \in 0 .. Len(tuples) - 1
    PROVE  Advanced(c, n) \in 0 .. Len(tuples) - 1
<1>1. MaxEvents \in Nat /\ Len(tuples) \in Nat /\ Len(tuples) <= MaxEvents
      /\ c \in 0 .. MaxEvents
  BY TimelineAssumption DEF InOrderOf
<1> DEFINE f == CHOOSE g : Moves(g, n)
<1>2. Moves(f, n)
  BY CursorExists
<1>3. Advanced(c, n) = f[c]
  BY DEF Advanced, Moves
<1> HIDE DEF f
<1>4. f[c] \in c .. MaxEvents /\ \A y \in c .. f[c] - 1 : ~CursorStops(y, n)
  BY <1>1, <1>2, CursorMoves DEF StopsFrom
<1>5. ASSUME f[c] >= Len(tuples) PROVE FALSE
  <2>1. Len(tuples) - 1 \in c .. f[c] - 1
    BY <1>1, <1>4, <1>5
  <2> QED
    BY <1>1, <1>4, <2>1 DEF CursorStops
<1> QED
  BY <1>1, <1>3, <1>4, <1>5

\* The cursor moves from a place that is due to the last that is.
LEMMA AdvancedIs ==
    ASSUME InOrderOf(tuples), NEW n, NEW c \in 0 .. Len(tuples) - 1, c = 0 \/ DueAt(c, n)
    PROVE  Advanced(c, n) \in 0 .. Len(tuples) - 1 /\ LastDue(Advanced(c, n), n)
<1>1. MaxEvents \in Nat /\ Len(tuples) \in Nat /\ Len(tuples) <= MaxEvents
      /\ c \in 0 .. MaxEvents
  BY TimelineAssumption DEF InOrderOf
<1> DEFINE f == CHOOSE g : Moves(g, n)
<1>2. Moves(f, n)
  BY CursorExists
<1>3. Advanced(c, n) = f[c]
  BY DEF Advanced, Moves
<1> HIDE DEF f
<1>4. StopsFrom(c, n, f[c])
  BY <1>1, <1>2, CursorMoves
<1>5. PICK v : v = f[c]
  OBVIOUS
<1>6. v \in c .. MaxEvents /\ CursorStops(v, n) /\ \A y \in c .. v - 1 : ~CursorStops(y, n)
  BY <1>4, <1>5 DEF StopsFrom
<1>7. CASE v = c
  BY <1>1, <1>3, <1>5, <1>6, <1>7 DEF LastDue, DueAt, CursorStops
<1>8. CASE v # c
  <2>1. v - 1 \in c .. v - 1 /\ (v - 1) + 1 = v /\ (v - 1) + 2 = v + 1 /\ v + 1 + 1 = v + 2
    BY <1>1, <1>6, <1>8
  <2>2. v < Len(tuples) /\ Due(tuples[v + 1], n, sampleRate)
    BY <1>6, <2>1 DEF CursorStops
  <2>3. DueAt(v, n) /\ ~(v + 1 < Len(tuples) /\ DueAt(v + 1, n))
    BY <1>6, <2>1, <2>2 DEF DueAt, CursorStops
  <2>4. v \in 0 .. Len(tuples) - 1
    BY <1>1, <1>6, <2>2
  <2> QED
    BY <1>3, <1>5, <2>3, <2>4 DEF LastDue
<1> QED
  BY <1>7, <1>8

-------------------------------------------------------------------------------
(* The search *)

Ranges == (0 .. MaxEvents) \X (0 .. MaxEvents)

Middle(lo, hi) == (lo + hi + 1) \div 2

Halved(f, n, lo, hi) ==
    IF lo >= hi THEN lo
    ELSE IF Due(tuples[Middle(lo, hi) + 1], n, sampleRate) THEN f[<<Middle(lo, hi), hi>>]
    ELSE f[<<lo, Middle(lo, hi) - 1>>]

Searches(f, n) ==
    f = [range \in Ranges |->
            LET lo == range[1]
                hi == range[2]
                mid == (lo + hi + 1) \div 2
            IN  IF lo >= hi THEN lo
                ELSE IF Due(tuples[mid + 1], n, sampleRate) THEN f[<<mid, hi>>]
                ELSE f[<<lo, mid - 1>>]]

\* The middle of a range of two places or more is above its lower end.
LEMMA MiddleIs ==
    \A lo, hi \in Nat : lo < hi => Middle(lo, hi) \in Nat /\ lo < Middle(lo, hi)
                                   /\ Middle(lo, hi) <= hi
  BY DEF Middle

\* The recursion of the search ends: such a function exists.
LEMMA SearchExists ==
    ASSUME NEW n PROVE \E f : Searches(f, n)
<1>1. MaxEvents \in Nat
  BY TimelineAssumption
<1> DEFINE Good(g, k) == \A lo, hi \in 0 .. MaxEvents :
                             hi - lo <= k => g[<<lo, hi>>] = Halved(g, n, lo, hi)
           T == {k \in Nat : \E g : Good(g, k)}
<1>2. 0 \in T
  <2> DEFINE g == [range \in Ranges |-> range[1]]
  <2>1. \A lo, hi \in 0 .. MaxEvents : g[<<lo, hi>>] = lo
    BY DEF Ranges
  <2> HIDE DEF g
  <2>2. Good(g, 0)
    BY <1>1, <2>1 DEF Halved
  <2> HIDE DEF Good
  <2> QED
    BY <2>2
<1>3. ASSUME NEW k \in Nat, k \in T PROVE k + 1 \in T
  <2>1. PICK g : Good(g, k)
    BY <1>3
  <2> DEFINE h == [range \in Ranges |-> Halved(g, n, range[1], range[2])]
  <2>2. \A lo, hi \in 0 .. MaxEvents : h[<<lo, hi>>] = Halved(g, n, lo, hi)
    BY DEF Ranges
  <2>3. \A lo, hi \in 0 .. MaxEvents : hi - lo <= k => h[<<lo, hi>>] = g[<<lo, hi>>]
    BY <2>1, <2>2
  <2> HIDE DEF h
  <2>4. ASSUME NEW lo \in 0 .. MaxEvents, NEW hi \in 0 .. MaxEvents, hi - lo <= k + 1
        PROVE  h[<<lo, hi>>] = Halved(h, n, lo, hi)
    <3>1. h[<<lo, hi>>] = Halved(g, n, lo, hi)
      BY <2>2
    <3>2. CASE lo >= hi
      BY <3>1, <3>2 DEF Halved
    <3>3. CASE lo < hi
      <4>1. Middle(lo, hi) \in Nat /\ lo < Middle(lo, hi) /\ Middle(lo, hi) <= hi
        BY <1>1, <3>3, MiddleIs
      <4>2. /\ Middle(lo, hi) \in 0 .. MaxEvents /\ hi - Middle(lo, hi) <= k
            /\ Middle(lo, hi) - 1 \in 0 .. MaxEvents /\ (Middle(lo, hi) - 1) - lo <= k
        BY <1>1, <2>4, <4>1
      <4>3. /\ h[<<Middle(lo, hi), hi>>] = g[<<Middle(lo, hi), hi>>]
            /\ h[<<lo, Middle(lo, hi) - 1>>] = g[<<lo, Middle(lo, hi) - 1>>]
        BY <2>3, <4>2
      <4> QED
        BY <3>1, <4>3 DEF Halved
    <3> QED
      BY <1>1, <3>2, <3>3
  <2>5. Good(h, k + 1)
    BY <2>4
  <2> HIDE DEF Good
  <2> QED
    BY <2>5
<1>4. MaxEvents \in T
  <2> HIDE DEF T
  <2> QED
    BY <1>1, <1>2, <1>3, CountUp
<1>5. PICK g : Good(g, MaxEvents)
  BY <1>4
<1> DEFINE f == [range \in Ranges |-> g[range]]
<1>6. \A lo, hi \in 0 .. MaxEvents :
          f[<<lo, hi>>] = g[<<lo, hi>>] /\ g[<<lo, hi>>] = Halved(g, n, lo, hi)
  <2>1. \A lo, hi \in 0 .. MaxEvents : f[<<lo, hi>>] = g[<<lo, hi>>]
    BY DEF Ranges
  <2>2. \A lo, hi \in 0 .. MaxEvents : hi - lo <= MaxEvents
    BY <1>1
  <2> QED
    BY <1>5, <2>1, <2>2
<1>7. f = [range \in Ranges |-> f[range]] /\ \A range \in Ranges :
           \E lo, hi \in 0 .. MaxEvents : range = <<lo, hi>> /\ range[1] = lo /\ range[2] = hi
  BY DEF Ranges
<1> HIDE DEF f
<1>8. ASSUME NEW lo \in 0 .. MaxEvents, NEW hi \in 0 .. MaxEvents
      PROVE  f[<<lo, hi>>] = LET mid == (lo + hi + 1) \div 2
                         IN  IF lo >= hi THEN lo
                             ELSE IF Due(tuples[mid + 1], n, sampleRate) THEN f[<<mid, hi>>]
                             ELSE f[<<lo, mid - 1>>]
  <2>1. f[<<lo, hi>>] = Halved(g, n, lo, hi)
    BY <1>6
  <2>2. CASE lo >= hi
    BY <2>1, <2>2 DEF Halved
  <2>3. CASE lo < hi
    <3>1. Middle(lo, hi) \in 0 .. MaxEvents /\ Middle(lo, hi) - 1 \in 0 .. MaxEvents
      BY <1>1, <2>3, MiddleIs
    <3>2. /\ f[<<Middle(lo, hi), hi>>] = g[<<Middle(lo, hi), hi>>]
          /\ f[<<lo, Middle(lo, hi) - 1>>] = g[<<lo, Middle(lo, hi) - 1>>]
      BY <1>6, <3>1
    <3> QED
      BY <2>1, <3>2 DEF Halved, Middle
  <2> QED
    BY <1>1, <2>2, <2>3
<1>9. Searches(f, n)
  BY <1>7, <1>8 DEF Searches
<1> QED
  BY <1>9

\* The search keeps a place that is due below it and one that is not above.
LEMMA SearchEnds ==
    ASSUME InOrderOf(tuples), NEW n, NEW f, Searches(f, n)
    PROVE  \A lo, hi \in 0 .. Len(tuples) - 1 :
               /\ lo <= hi /\ (lo = 0 \/ DueAt(lo, n))
               /\ ~(hi + 1 < Len(tuples) /\ DueAt(hi + 1, n))
               => f[<<lo, hi>>] \in 0 .. Len(tuples) - 1 /\ LastDue(f[<<lo, hi>>], n)
<1>1. MaxEvents \in Nat /\ Len(tuples) \in Nat /\ Len(tuples) <= MaxEvents
  BY TimelineAssumption DEF InOrderOf
<1>2. \A lo, hi \in 0 .. MaxEvents : f[<<lo, hi>>] = Halved(f, n, lo, hi)
  <2>1. TAKE lo, hi \in 0 .. MaxEvents
  <2>2. <<lo, hi>> \in Ranges /\ <<lo, hi>>[1] = lo /\ <<lo, hi>>[2] = hi
    BY DEF Ranges
  <2>3. \A range \in Ranges : f[range] = Halved(f, n, range[1], range[2])
    BY DEF Searches, Halved, Middle
  <2> QED
    BY <2>2, <2>3
<1> DEFINE Right(lo, hi) ==
               /\ lo <= hi /\ (lo = 0 \/ DueAt(lo, n))
               /\ ~(hi + 1 < Len(tuples) /\ DueAt(hi + 1, n))
               => f[<<lo, hi>>] \in 0 .. Len(tuples) - 1 /\ LastDue(f[<<lo, hi>>], n)
           T == {k \in Nat : \A lo, hi \in 0 .. Len(tuples) - 1 : hi - lo <= k => Right(lo, hi)}
<1>3. 0 \in T
  <2>1. ASSUME NEW lo \in 0 .. Len(tuples) - 1, NEW hi \in 0 .. Len(tuples) - 1,
               hi - lo <= 0, lo <= hi, lo = 0 \/ DueAt(lo, n),
               ~(hi + 1 < Len(tuples) /\ DueAt(hi + 1, n))
        PROVE  f[<<lo, hi>>] \in 0 .. Len(tuples) - 1 /\ LastDue(f[<<lo, hi>>], n)
    <3>1. lo = hi /\ lo \in 0 .. MaxEvents /\ hi \in 0 .. MaxEvents /\ lo >= hi
      BY <1>1, <2>1
    <3>2. f[<<lo, hi>>] = lo
      BY <1>2, <3>1 DEF Halved
    <3> QED
      BY <2>1, <3>1, <3>2 DEF LastDue
  <2> QED
    BY <2>1
<1>4. ASSUME NEW k \in Nat, k \in T PROVE k + 1 \in T
  <2>1. ASSUME NEW lo \in 0 .. Len(tuples) - 1, NEW hi \in 0 .. Len(tuples) - 1,
               hi - lo <= k + 1, lo < hi, lo = 0 \/ DueAt(lo, n),
               ~(hi + 1 < Len(tuples) /\ DueAt(hi + 1, n))
        PROVE  f[<<lo, hi>>] \in 0 .. Len(tuples) - 1 /\ LastDue(f[<<lo, hi>>], n)
    <3>1. lo \in Nat /\ hi \in Nat /\ lo \in 0 .. MaxEvents /\ hi \in 0 .. MaxEvents
      BY <1>1
    <3>2. PICK mid \in Nat : mid = Middle(lo, hi) /\ lo < mid /\ mid <= hi
      BY <2>1, <3>1, MiddleIs
    <3>3. f[<<lo, hi>>] = IF Due(tuples[mid + 1], n, sampleRate) THEN f[<<mid, hi>>]
                          ELSE f[<<lo, mid - 1>>]
      <4>1. ~(lo >= hi)
        BY <2>1, <3>1
      <4> QED
        BY <1>2, <3>1, <3>2, <4>1 DEF Halved
    <3>4. /\ mid \in 0 .. Len(tuples) - 1 /\ hi - mid <= k
          /\ mid - 1 \in 0 .. Len(tuples) - 1 /\ (mid - 1) - lo <= k /\ lo <= mid - 1
          /\ (mid - 1) + 1 = mid
      BY <1>1, <2>1, <3>2
    <3>5. CASE DueAt(mid, n)
      <4>1. f[<<lo, hi>>] = f[<<mid, hi>>]
        BY <3>3, <3>5 DEF DueAt
      <4>2. Right(mid, hi)
        BY <1>4, <3>4
      <4> QED
        BY <2>1, <3>2, <3>5, <4>1, <4>2
    <3>6. CASE ~DueAt(mid, n)
      <4>1. f[<<lo, hi>>] = f[<<lo, mid - 1>>]
        BY <3>3, <3>6 DEF DueAt
      <4>2. Right(lo, mid - 1)
        BY <1>4, <3>4
      <4> QED
        BY <2>1, <3>4, <3>6, <4>1, <4>2
    <3> QED
      BY <3>5, <3>6
  <2>2. ASSUME NEW lo \in 0 .. Len(tuples) - 1, NEW hi \in 0 .. Len(tuples) - 1,
               hi - lo <= k + 1
        PROVE  Right(lo, hi)
    <3>1. CASE lo < hi
      BY <2>1, <2>2, <3>1
    <3>2. CASE ~(lo < hi)
      <4>1. hi - lo <= k
        BY <1>1, <3>2
      <4> QED
        BY <1>4, <4>1
    <3> QED
      BY <3>1, <3>2
  <2> HIDE DEF Right
  <2> QED
    BY <2>2
<1>5. MaxEvents \in T
  <2> HIDE DEF T
  <2> QED
    BY <1>1, <1>3, <1>4, CountUp
<1>6. \A lo, hi \in 0 .. Len(tuples) - 1 : hi - lo <= MaxEvents
  BY <1>1
<1> QED
  BY <1>5, <1>6

\* A lookup finds a place like that, or the first if not even that one is due.
LEMMA SelectIs ==
    ASSUME InOrderOf(tuples), tuples # <<>>, NEW n
    PROVE  \/ SelectTuple(n) \in 0 .. Len(tuples) - 1 /\ LastDue(SelectTuple(n), n)
           \/ SelectTuple(n) = 0 /\ ~Due(tuples[1], n, sampleRate)
<1>1. MaxEvents \in Nat /\ Len(tuples) \in Nat \ {0} /\ Len(tuples) <= MaxEvents
  BY EmptySeq, TimelineAssumption DEF InOrderOf
<1>2. CASE ~Due(tuples[1], n, sampleRate)
  BY <1>2 DEF SelectTuple
<1>3. CASE Due(tuples[1], n, sampleRate)
  <2> DEFINE f == CHOOSE g : Searches(g, n)
  <2>1. Searches(f, n)
    BY SearchExists
  <2>2. SelectTuple(n) = f[<<0, Len(tuples) - 1>>]
    BY <1>3 DEF SelectTuple, Searches, Ranges
  <2> HIDE DEF f
  <2>3. 0 \in 0 .. Len(tuples) - 1 /\ Len(tuples) - 1 \in 0 .. Len(tuples) - 1
        /\ 0 <= Len(tuples) - 1 /\ ~((Len(tuples) - 1) + 1 < Len(tuples))
    BY <1>1
  <2> QED
    BY <2>1, <2>2, <2>3, SearchEnds
<1> QED
  BY <1>2, <1>3

\* A place with an event that is due, and none after it, is that of the newest.
LEMMA NewestIs ==
    ASSUME InOrderOf(tuples), tuples # <<>>, NEW n \in Nat, sampleRate \in Rates,
           NEW p \in 0 .. Len(tuples) - 1,
           LastDue(p, n) \/ (p = 0 /\ ~Due(tuples[1], n, sampleRate))
    PROVE  p + 1 = NewestDue(n, sampleRate)
<1> DEFINE due == {i \in DOMAIN tuples : Due(tuples[i], n, sampleRate)}
<1>1. /\ Len(tuples) \in Nat \ {0} /\ DOMAIN tuples = 1 .. Len(tuples)
      /\ sampleRate \in Nat
  BY EmptySeq, LenProperties, TimelineAssumption DEF InOrderOf
<1>2. NewestDue(n, sampleRate) = IF due = {} THEN 1 ELSE Max(due)
  BY DEF NewestDue, Due
<1>3. \A i : i \in due <=> i \in 1 .. Len(tuples) /\ Due(tuples[i], n, sampleRate)
  BY <1>1
<1> HIDE DEF due
<1>4. ASSUME NEW i \in 1 .. Len(tuples), NEW j \in 1 .. Len(tuples), i <= j,
             Due(tuples[j], n, sampleRate)
      PROVE  Due(tuples[i], n, sampleRate)
  <2>1. tuples[i] \in Nat /\ tuples[j] \in Nat
    BY <1>1, ElementOfSeq DEF InOrderOf
  <2>2. tuples[i] <= tuples[j]
    BY <1>4 DEF InOrderOf, Sorted
  <2> QED
    BY <1>1, <1>4, <2>1, <2>2, DueStays
<1>5. CASE ~Due(tuples[1], n, sampleRate)
  <2>1. due = {}
    <3>1. ASSUME NEW i \in due PROVE FALSE
      <4>1. i \in 1 .. Len(tuples) /\ 1 \in 1 .. Len(tuples) /\ 1 <= i
        BY <1>1, <1>3
      <4> QED
        BY <1>3, <1>4, <1>5, <4>1
    <3> QED
      BY <3>1
  <2>2. p = 0
    <3>1. ASSUME p # 0 PROVE FALSE
      <4>1. p + 1 \in 1 .. Len(tuples) /\ 1 \in 1 .. Len(tuples) /\ 1 <= p + 1
        BY <1>1
      <4>2. Due(tuples[p + 1], n, sampleRate)
        BY <3>1 DEF LastDue, DueAt
      <4> QED
        BY <1>4, <1>5, <4>1, <4>2
    <3> QED
      BY <3>1
  <2> QED
    BY <1>2, <2>1, <2>2
<1>6. CASE Due(tuples[1], n, sampleRate)
  <2>1. LastDue(p, n) /\ p + 1 \in 1 .. Len(tuples) /\ p \in Nat
    BY <1>1, <1>6
  <2>2. Due(tuples[p + 1], n, sampleRate)
    BY <1>6, <2>1 DEF LastDue, DueAt
  <2>3. p + 1 \in due
    BY <1>3, <2>1, <2>2
  <2>4. Max(due) \in due /\ \A i \in due : Max(due) >= i
    BY <1>1, <1>3, <2>3, GreatestOf
  <2>5. ASSUME NEW i \in due, i > p + 1 PROVE FALSE
    <3>1. i \in 1 .. Len(tuples) /\ p + 2 \in 1 .. Len(tuples) /\ p + 2 <= i
          /\ p + 1 < Len(tuples) /\ (p + 1) + 1 = p + 2
      BY <1>1, <1>3, <2>1, <2>5
    <3>2. Due(tuples[p + 2], n, sampleRate)
      BY <1>3, <1>4, <3>1
    <3> QED
      BY <2>1, <3>1, <3>2 DEF LastDue, DueAt
  <2>6. Max(due) \in 1 .. Len(tuples) /\ Max(due) >= p + 1 /\ ~(Max(due) > p + 1)
    BY <1>3, <2>3, <2>4, <2>5
  <2>7. Max(due) = p + 1
    BY <2>1, <2>6
  <2> QED
    BY <1>2, <2>3, <2>7
<1> QED
  BY <1>5, <1>6

\* The last event is due exactly from the last sample of the replay on.
LEMMA LastIsDue ==
    ASSUME InOrderOf(tuples), tuples # <<>>, NEW n \in Nat, NEW rate \in Rates
    PROVE  Due(Last(tuples), n, rate) <=> n >= TotalSamples(rate) - 1
<1>1. Second \in Nat \ {0} /\ Epoch \in Nat /\ rate \in Nat
  BY TimelineAssumption
<1>2. Last(tuples) \in Nat
  <2>1. Len(tuples) \in 1 .. Len(tuples)
    BY EmptySeq, LenProperties DEF InOrderOf
  <2> QED
    BY <2>1, ElementOfSeq DEF InOrderOf, Last
<1>3. PICK span \in Int : span = (Last(tuples) - Epoch) * rate
  BY <1>1, <1>2
<1>4. TotalSamples(rate) = IF span <= 0 THEN 1 ELSE (span + Second - 1) \div Second + 1
  BY <1>3 DEF TotalSamples
<1>5. Due(Last(tuples), n, rate) <=> span <= n * Second
  BY <1>3 DEF Due
<1>6. n * Second \in Nat
  BY <1>1
<1>7. CASE span <= 0
  BY <1>4, <1>5, <1>6, <1>7
<1>8. CASE span > 0
  <2>1. PICK q \in Nat : q = (span + Second - 1) \div Second /\ q * Second <= span + Second - 1
                         /\ span + Second - 1 < q * Second + Second
    <3>1. span + Second - 1 \in Nat
      BY <1>1, <1>8
    <3>2. \A x \in Nat, d \in Nat \ {0} :
              x \div d \in Nat /\ x = d * (x \div d) + (x % d) /\ x % d \in 0 .. d - 1
      OBVIOUS
    <3>3. \A x, d \in Nat : x * d = d * x /\ d * x \in Nat
      OBVIOUS
    <3> QED
      BY <1>1, <3>1, <3>2, <3>3
  <2>2. CASE n >= q
    <3>1. PICK k \in Nat : n = q + k
      BY <2>2
    <3>2. n * Second = q * Second + k * Second /\ k * Second \in Nat /\ q * Second \in Nat
      BY <1>1, <3>1
    <3>3. span <= n * Second
      BY <1>1, <2>1, <3>2
    <3> QED
      BY <1>4, <1>5, <1>8, <2>1, <2>2, <3>3
  <2>3. CASE n < q
    <3>1. PICK k \in Nat : q = n + 1 + k
      <4>1. q - n - 1 \in Nat /\ q = n + 1 + (q - n - 1)
        BY <2>3
      <4> QED
        BY <4>1
    <3>2. q * Second = n * Second + Second + k * Second /\ k * Second \in Nat
      BY <1>1, <3>1
    <3>3. ~(span <= n * Second)
      BY <1>1, <1>6, <2>1, <3>2
    <3> QED
      BY <1>4, <1>5, <1>8, <2>1, <2>3, <3>3
  <2> QED
    BY <2>2, <2>3
<1> QED
  BY <1>3, <1>7, <1>8

-------------------------------------------------------------------------------
(* The recorder and the player *)

\* The events are in order wherever they are kept.
EventsInOrder == InOrderOf(recorded) /\ InOrderOf(container.times) /\ InOrderOf(tuples)

SweepTyped ==
    /\ sampleRate \in Rates
    /\ sweep \in [next : Nat, end : Nat, cursor : Nat, raised : BOOLEAN]

\* The cursor of a sweep is at an event that is due, or at the first, unless the rate
\* was raised under it.
CursorIsDue ==
    sweep # NoSweep =>
        /\ tuples # <<>> /\ sweep.cursor < Len(tuples)
        /\ ~sweep.raised => sweep.cursor = 0 \/ DueAt(sweep.cursor, sweep.next)

\* What was shown is the newest event that was due.
ShownIsNewest ==
    shown # NothingShown /\ ~shown.behind =>
        /\ tuples # <<>> /\ shown.sample \in Nat /\ shown.rate \in Rates
        /\ shown.place + 1 \in 1 .. Len(tuples)
        /\ shown.place + 1 = NewestDue(shown.sample, shown.rate)

ReplayInv == EventsInOrder /\ SweepTyped /\ CursorIsDue /\ ShownIsNewest

\* A recorder and a player that are new.
LEMMA ReplayStarts == TimelineInit => ReplayInv
<1> SUFFICES ASSUME TimelineInit PROVE ReplayInv
  OBVIOUS
<1>1. /\ recorded = <<>> /\ container.times = <<>> /\ tuples = <<>> /\ sampleRate = DefaultRate
      /\ sweep = NoSweep /\ shown = NothingShown
  BY DEF TimelineInit, NotYet
<1>2. InOrderOf(<<>>)
  BY TimelineAssumption DEF InOrderOf, Sorted
<1>3. NoSweep \in [next : Nat, end : Nat, cursor : Nat, raised : BOOLEAN]
  BY DEF NoSweep
<1> QED
  BY <1>1, <1>2, <1>3, TimelineAssumption
     DEF ReplayInv, EventsInOrder, SweepTyped, CursorIsDue, ShownIsNewest

\* An event is recorded after those before it.
LEMMA RecordsInOrder ==
    ASSUME ReplayInv, NEW t \in Times, RecordAt(t) PROVE InOrderOf(recorded')
<1>1. recorded \in Seq(Nat) /\ Len(recorded) \in Nat /\ t \in Nat /\ MaxEvents \in Nat
      /\ Len(recorded) < MaxEvents /\ recorded' = Append(recorded, t)
  BY TimelineAssumption DEF ReplayInv, EventsInOrder, InOrderOf, RecordAt
<1>2. recorded' \in Seq(Nat) /\ Len(recorded') = Len(recorded) + 1
      /\ recorded'[Len(recorded) + 1] = t
      /\ \A i \in 1 .. Len(recorded) : recorded'[i] = recorded[i]
  BY <1>1, AppendProperties
<1>3. ASSUME NEW i \in 1 .. Len(recorded) PROVE recorded[i] <= t
  <2>1. recorded # <<>> /\ Len(recorded) \in 1 .. Len(recorded)
    BY <1>1, <1>3
  <2>2. recorded[Len(recorded)] <= t
    BY <2>1 DEF RecordAt, Last
  <2>3. recorded[i] <= recorded[Len(recorded)]
    BY <1>1, <2>1 DEF ReplayInv, EventsInOrder, InOrderOf, Sorted
  <2>4. recorded[i] \in Nat /\ recorded[Len(recorded)] \in Nat
    BY <1>1, <2>1, ElementOfSeq
  <2> QED
    BY <1>1, <2>2, <2>3, <2>4
<1>4. ASSUME NEW i \in 1 .. Len(recorded'), NEW j \in 1 .. Len(recorded'), i <= j
      PROVE  recorded'[i] <= recorded'[j]
  <2>1. CASE j = Len(recorded) + 1 /\ i = j
    BY <1>1, <1>2, <2>1
  <2>2. CASE j = Len(recorded) + 1 /\ i # j
    <3>1. i \in 1 .. Len(recorded)
      BY <1>1, <1>2, <1>4, <2>2
    <3> QED
      BY <1>2, <1>3, <2>2, <3>1
  <2>3. CASE j # Len(recorded) + 1
    <3>1. i \in 1 .. Len(recorded) /\ j \in 1 .. Len(recorded)
      BY <1>1, <1>2, <1>4, <2>3
    <3> QED
      BY <1>2, <1>4, <3>1 DEF ReplayInv, EventsInOrder, InOrderOf, Sorted
  <2> QED
    BY <2>1, <2>2, <2>3
<1> QED
  BY <1>1, <1>2, <1>4 DEF InOrderOf, Sorted

\* At a lower rate the event at the cursor is due all the more.
LEMMA RateKeepsCursor ==
    ASSUME ReplayInv, NEW rate \in Rates, SetSampleRate(rate) PROVE SweepTyped' /\ CursorIsDue'
<1>1. /\ sampleRate' = rate /\ tuples' = tuples /\ sampleRate \in Nat /\ rate \in Nat
      /\ sweep' = [sweep EXCEPT !.raised = sweep.raised \/ (sweep # NoSweep /\ rate > sampleRate)]
      /\ sweep \in [next : Nat, end : Nat, cursor : Nat, raised : BOOLEAN]
  BY TimelineAssumption DEF SetSampleRate, ReplayInv, SweepTyped
<1>2. SweepTyped'
  BY <1>1 DEF SweepTyped
<1>3. /\ sweep'.next = sweep.next /\ sweep'.end = sweep.end /\ sweep'.cursor = sweep.cursor
      /\ sweep'.raised <=> sweep.raised \/ (sweep # NoSweep /\ rate > sampleRate)
  BY <1>1
<1>4. CASE sweep = NoSweep
  <2>1. sweep' = NoSweep
    BY <1>1, <1>4 DEF NoSweep
  <2> QED
    BY <1>2, <2>1 DEF CursorIsDue, NoSweep
<1>5. CASE sweep # NoSweep
  <2>1. tuples # <<>> /\ sweep.cursor < Len(tuples)
        /\ (~sweep.raised => sweep.cursor = 0 \/ DueAt(sweep.cursor, sweep.next))
    BY <1>5 DEF ReplayInv, CursorIsDue
  <2>2. ASSUME ~sweep'.raised
        PROVE  sweep.cursor = 0 \/ Due(tuples[sweep.cursor + 1], sweep.next, rate)
    <3>1. ~sweep.raised /\ rate <= sampleRate
      BY <1>1, <1>3, <1>5, <2>2
    <3>2. CASE DueAt(sweep.cursor, sweep.next)
      <4>1. sweep.cursor \in Nat /\ sweep.next \in Nat
        BY <1>1
      <4>2. sweep.cursor + 1 \in 1 .. Len(tuples)
        BY <2>1, <4>1, LenProperties DEF ReplayInv, EventsInOrder, InOrderOf
      <4>3. tuples[sweep.cursor + 1] \in Nat
        BY <4>2, ElementOfSeq DEF ReplayInv, EventsInOrder, InOrderOf
      <4>4. /\ Due(tuples[sweep.cursor + 1], sweep.next, sampleRate)
            /\ tuples[sweep.cursor + 1] <= tuples[sweep.cursor + 1] /\ sweep.next <= sweep.next
        BY <3>2, <4>1, <4>3 DEF DueAt
      <4> QED
        BY <1>1, <3>1, <4>1, <4>3, <4>4, DueStays
    <3> QED
      BY <2>1, <3>1, <3>2
  <2> QED
    BY <1>1, <1>2, <1>3, <2>1, <2>2 DEF CursorIsDue, DueAt
<1> QED
  BY <1>4, <1>5

\* A lookup at random.
LEMMA LookupShows ==
    ASSUME ReplayInv, NEW n \in Nat, EvaluateAtSample(n) PROVE ShownIsNewest'
<1>1. /\ tuples # <<>> /\ tuples' = tuples /\ InOrderOf(tuples) /\ sampleRate \in Rates
      /\ shown' = [sample |-> n, place |-> SelectTuple(n), rate |-> sampleRate, behind |-> FALSE]
  BY DEF EvaluateAtSample, Show, ReplayInv, EventsInOrder, SweepTyped
<1>2. SelectTuple(n) \in 0 .. Len(tuples) - 1 /\ SelectTuple(n) + 1 = NewestDue(n, sampleRate)
  <2>1. Len(tuples) \in Nat \ {0}
    BY <1>1, EmptySeq DEF InOrderOf
  <2>2. SelectTuple(n) \in 0 .. Len(tuples) - 1
    BY <1>1, <2>1, SelectIs
  <2> QED
    BY <1>1, <2>2, SelectIs, NewestIs
<1>3. SelectTuple(n) + 1 \in 1 .. Len(tuples)
  BY <1>1, <1>2, LenProperties DEF InOrderOf
<1> QED
  BY <1>1, <1>2, <1>3 DEF ShownIsNewest, NewestDue

\* A sweep starts at what a lookup finds.
LEMMA SweepStarts ==
    ASSUME ReplayInv, NEW start \in Nat, NEW count \in Nat, RenderInto(start, count)
    PROVE  SweepTyped' /\ CursorIsDue'
<1>1. /\ tuples # <<>> /\ tuples' = tuples /\ InOrderOf(tuples)
      /\ sampleRate \in Rates /\ sampleRate' = sampleRate
      /\ sweep' = [next |-> start, end |-> start + count, cursor |-> SelectTuple(start),
                   raised |-> FALSE]
  BY DEF RenderInto, ReplayInv, EventsInOrder, SweepTyped
<1>2. Len(tuples) \in Nat \ {0}
  BY <1>1, EmptySeq DEF InOrderOf
<1>3. SelectTuple(start) \in 0 .. Len(tuples) - 1
  BY <1>1, <1>2, SelectIs
<1>4. SelectTuple(start) = 0 \/ DueAt(SelectTuple(start), start)
  BY <1>1, SelectIs DEF LastDue
<1>5. SweepTyped'
  BY <1>1, <1>2, <1>3 DEF SweepTyped
<1> QED
  BY <1>1, <1>2, <1>3, <1>4, <1>5 DEF CursorIsDue, DueAt

\* The next sample of a sweep.
LEMMA SampleShows ==
    ASSUME ReplayInv, RenderSample PROVE SweepTyped' /\ CursorIsDue' /\ ShownIsNewest'
<1>1. PICK n, cursor, end, raised :
          /\ n \in Nat /\ cursor \in Nat /\ end \in Nat /\ raised \in BOOLEAN
          /\ n = sweep.next /\ cursor = sweep.cursor /\ end = sweep.end /\ raised = sweep.raised
          /\ sweep \in [next : Nat, end : Nat, cursor : Nat, raised : BOOLEAN]
          /\ n < end
  BY DEF RenderSample, ReplayInv, SweepTyped
<1>2. sweep # NoSweep
  BY <1>1 DEF NoSweep
<1>3. /\ tuples # <<>> /\ tuples' = tuples /\ InOrderOf(tuples)
      /\ sampleRate \in Rates /\ sampleRate' = sampleRate
  BY <1>2 DEF RenderSample, ReplayInv, EventsInOrder, SweepTyped, CursorIsDue
<1>4. /\ shown' = [sample |-> n, place |-> Advanced(cursor, n), rate |-> sampleRate,
                   behind |-> raised]
      /\ sweep' = [sweep EXCEPT !.next = n + 1, !.cursor = Advanced(cursor, n)]
  <2>1. /\ Show(sweep.next, Advanced(sweep.cursor, sweep.next), sweep.raised)
        /\ sweep' = [sweep EXCEPT !.next = sweep.next + 1,
                                  !.cursor = Advanced(sweep.cursor, sweep.next)]
    BY DEF RenderSample
  <2>2. Show(n, Advanced(cursor, n), raised)
    BY <1>1, <2>1
  <2> QED
    BY <1>1, <2>1, <2>2 DEF Show
<1>5. Len(tuples) \in Nat \ {0} /\ cursor \in 0 .. Len(tuples) - 1
      /\ (~raised => cursor = 0 \/ DueAt(cursor, n))
  BY <1>1, <1>2, <1>3, EmptySeq DEF ReplayInv, CursorIsDue, InOrderOf
<1>6. Advanced(cursor, n) \in 0 .. Len(tuples) - 1
  BY <1>3, <1>5, CursorStays
<1>7. SweepTyped'
  <2>1. Advanced(cursor, n) \in Nat /\ n + 1 \in Nat
    BY <1>1, <1>5, <1>6
  <2>2. sweep' \in [next : Nat, end : Nat, cursor : Nat, raised : BOOLEAN]
    BY <1>1, <1>4, <2>1
  <2> QED
    BY <1>3, <2>2 DEF SweepTyped
<1>8. /\ sweep'.next = n + 1 /\ sweep'.cursor = Advanced(cursor, n) /\ (sweep'.raised <=> raised)
  BY <1>1, <1>4
<1>9. ASSUME ~raised PROVE LastDue(Advanced(cursor, n), n)
  BY <1>3, <1>5, <1>9, AdvancedIs
<1>10. ASSUME ~raised, Advanced(cursor, n) # 0
       PROVE  Due(tuples[Advanced(cursor, n) + 1], n + 1, sampleRate)
  <2>1. Due(tuples[Advanced(cursor, n) + 1], n, sampleRate)
    BY <1>9, <1>10 DEF LastDue, DueAt
  <2>2. Advanced(cursor, n) + 1 \in 1 .. Len(tuples)
    BY <1>5, <1>6
  <2>3. tuples[Advanced(cursor, n) + 1] \in Nat
    BY <1>3, <2>2, ElementOfSeq DEF InOrderOf
  <2>4. sampleRate \in Nat /\ n + 1 \in Nat /\ n <= n + 1
    BY <1>1, <1>3, TimelineAssumption
  <2> QED
    BY <1>1, <2>1, <2>3, <2>4, DueStays
<1>11. CursorIsDue'
  BY <1>3, <1>5, <1>6, <1>8, <1>10 DEF CursorIsDue, DueAt
<1>12. ASSUME ~raised PROVE Advanced(cursor, n) + 1 = NewestDue(n, sampleRate)
  BY <1>1, <1>3, <1>6, <1>9, <1>12, NewestIs
<1>13. ShownIsNewest'
  <2>1. Advanced(cursor, n) + 1 \in 1 .. Len(tuples)
    BY <1>5, <1>6
  <2> QED
    BY <1>1, <1>3, <1>4, <1>12, <2>1 DEF ShownIsNewest, NewestDue
<1> QED
  BY <1>7, <1>11, <1>13

\* Every step of the recorder and of the player.
LEMMA ReplaySteps == ReplayInv /\ [TimelineNext]_timelineVars => ReplayInv'
<1> SUFFICES ASSUME ReplayInv, [TimelineNext]_timelineVars PROVE ReplayInv'
  OBVIOUS
<1>1. /\ EventsInOrder /\ SweepTyped /\ CursorIsDue /\ ShownIsNewest /\ InOrderOf(<<>>)
      /\ NoSweep \in [next : Nat, end : Nat, cursor : Nat, raised : BOOLEAN]
  BY TimelineAssumption DEF ReplayInv, InOrderOf, Sorted, NoSweep
\* Of the sweep and the sample shown, for the steps that leave both alone.
<1>2. ASSUME UNCHANGED <<tuples, sampleRate, sweep>> PROVE SweepTyped' /\ CursorIsDue'
  BY <1>1, <1>2 DEF SweepTyped, CursorIsDue, DueAt, Due
<1>3. ASSUME shown' = NothingShown PROVE ShownIsNewest'
  BY <1>3 DEF ShownIsNewest, NothingShown
<1>4. ASSUME NEW t \in Times, RecordAt(t) PROVE ReplayInv'
  <2>1. UNCHANGED <<container, tuples, sampleRate, sweep>> /\ shown' = NothingShown
    BY <1>4 DEF RecordAt
  <2>2. EventsInOrder'
    BY <1>1, <1>4, <2>1, RecordsInOrder DEF EventsInOrder
  <2> QED
    BY <1>2, <1>3, <2>1, <2>2 DEF ReplayInv
<1>5. ASSUME ResetRecorder \/ Serialize PROVE ReplayInv'
  <2>1. UNCHANGED <<tuples, sampleRate, sweep>> /\ shown' = NothingShown
    BY <1>5 DEF ResetRecorder, Serialize
  <2>2. recorded' \in {<<>>, recorded} /\ container'.times \in {recorded, container.times}
    BY <1>5 DEF ResetRecorder, Serialize
  <2>3. EventsInOrder'
    BY <1>1, <2>1, <2>2 DEF EventsInOrder
  <2> QED
    BY <1>2, <1>3, <2>1, <2>3 DEF ReplayInv
<1>6. ASSUME NEW schema \in Schemas, Deserialize(schema) PROVE ReplayInv'
  <2>1. /\ UNCHANGED <<recorded, container>> /\ sweep' = NoSweep /\ shown' = NothingShown
        /\ tuples' = container.times /\ sampleRate' = DefaultRate
    BY <1>6 DEF Deserialize
  <2>2. EventsInOrder'
    BY <1>1, <2>1 DEF EventsInOrder
  <2>3. SweepTyped' /\ CursorIsDue'
    BY <1>1, <2>1, TimelineAssumption DEF SweepTyped, CursorIsDue, NoSweep
  <2> QED
    BY <1>3, <2>1, <2>2, <2>3 DEF ReplayInv
<1>7. ASSUME NEW rate \in Rates, SetSampleRate(rate) PROVE ReplayInv'
  <2>1. UNCHANGED <<recorded, container, tuples>> /\ shown' = NothingShown
    BY <1>7 DEF SetSampleRate
  <2>2. EventsInOrder'
    BY <1>1, <2>1 DEF EventsInOrder
  <2> QED
    BY <1>3, <1>7, <2>1, <2>2, RateKeepsCursor DEF ReplayInv
<1>8. ASSUME NEW n \in 0 .. MaxSample, EvaluateAtSample(n) PROVE ReplayInv'
  <2>1. UNCHANGED <<recorded, container, tuples, sampleRate, sweep>> /\ n \in Nat
    BY <1>8, TimelineAssumption DEF EvaluateAtSample
  <2>2. EventsInOrder'
    BY <1>1, <2>1 DEF EventsInOrder
  <2> QED
    BY <1>2, <1>8, <2>1, <2>2, LookupShows DEF ReplayInv
<1>9. ASSUME NEW start \in 0 .. MaxSample, NEW count \in 0 .. MaxSample,
             RenderInto(start, count)
      PROVE  ReplayInv'
  <2>1. UNCHANGED <<recorded, container, tuples>> /\ shown' = NothingShown
        /\ start \in Nat /\ count \in Nat
    BY <1>9, TimelineAssumption DEF RenderInto
  <2>2. EventsInOrder'
    BY <1>1, <2>1 DEF EventsInOrder
  <2> QED
    BY <1>3, <1>9, <2>1, <2>2, SweepStarts DEF ReplayInv
<1>10. ASSUME RenderSample PROVE ReplayInv'
  <2>1. UNCHANGED <<recorded, container, tuples>>
    BY <1>10 DEF RenderSample
  <2>2. EventsInOrder'
    BY <1>1, <2>1 DEF EventsInOrder
  <2> QED
    BY <1>10, <2>2, SampleShows DEF ReplayInv
<1>11. ASSUME RenderDone PROVE ReplayInv'
  <2>1. UNCHANGED <<recorded, container, tuples, sampleRate>> /\ sweep' = NoSweep
        /\ shown' = NothingShown
    BY <1>11 DEF RenderDone
  <2>2. EventsInOrder'
    BY <1>1, <2>1 DEF EventsInOrder
  <2>3. SweepTyped' /\ CursorIsDue'
    BY <1>1, <2>1 DEF SweepTyped, CursorIsDue, NoSweep
  <2> QED
    BY <1>3, <2>1, <2>2, <2>3 DEF ReplayInv
<1>12. ASSUME UNCHANGED timelineVars PROVE ReplayInv'
  <2>1. UNCHANGED <<recorded, container, tuples, sampleRate, sweep, shown>>
    BY <1>12 DEF timelineVars
  <2>2. EventsInOrder'
    BY <1>1, <2>1 DEF EventsInOrder
  <2>3. ShownIsNewest'
    BY <1>1, <2>1 DEF ShownIsNewest, NewestDue
  <2> QED
    BY <1>2, <2>1, <2>2, <2>3 DEF ReplayInv
<1> QED
  BY <1>4, <1>5, <1>6, <1>7, <1>8, <1>9, <1>10, <1>11, <1>12 DEF TimelineNext

\* The newest is the last event exactly if that one is due.
LEMMA ReplayFollows == ReplayInv => ReplayIsFaithful
<1> SUFFICES ASSUME ReplayInv, shown # NothingShown, ~shown.behind
             PROVE  /\ shown.place + 1 = NewestDue(shown.sample, shown.rate)
                    /\ Len(tuples) > 1 => (shown.place + 1 = Len(tuples)
                                              <=> shown.sample >= TotalSamples(shown.rate) - 1)
  BY DEF ReplayIsFaithful
<1>1. PICK n \in Nat, rate \in Rates : n = shown.sample /\ rate = shown.rate
  BY DEF ReplayInv, ShownIsNewest
<1>2. /\ tuples # <<>> /\ InOrderOf(tuples) /\ shown.place + 1 = NewestDue(n, rate)
  BY <1>1 DEF ReplayInv, ShownIsNewest, EventsInOrder
<1> DEFINE due == {i \in DOMAIN tuples : (tuples[i] - Epoch) * rate <= n * Second}
<1>3. NewestDue(n, rate) = IF due = {} THEN 1 ELSE Max(due)
  BY DEF NewestDue
<1>4. Len(tuples) \in Nat \ {0} /\ DOMAIN tuples = 1 .. Len(tuples)
      /\ Last(tuples) = tuples[Len(tuples)]
  BY <1>2, EmptySeq, LenProperties DEF InOrderOf, Last
<1>5. Len(tuples) \in due <=> Due(Last(tuples), n, rate)
  BY <1>4 DEF Due
<1>6. due \subseteq 1 .. Len(tuples)
  BY <1>4
<1> HIDE DEF due
<1>7. ASSUME Len(tuples) > 1 PROVE NewestDue(n, rate) = Len(tuples) <=> Len(tuples) \in due
  <2>1. CASE due = {}
    <3>1. NewestDue(n, rate) # Len(tuples)
      BY <1>3, <1>4, <1>7, <2>1
    <3> QED
      BY <2>1, <3>1
  <2>2. CASE due # {}
    <3>1. Max(due) \in due /\ \A i \in due : Max(due) >= i
      BY <1>4, <1>6, <2>2, GreatestOf
    <3>2. ASSUME Len(tuples) \in due PROVE Max(due) = Len(tuples)
      <4>1. Max(due) \in 1 .. Len(tuples) /\ Max(due) >= Len(tuples)
        BY <1>6, <3>1, <3>2
      <4> QED
        BY <1>4, <4>1
    <3>3. NewestDue(n, rate) = Max(due)
      BY <1>3, <2>2
    <3>4. ASSUME NewestDue(n, rate) = Len(tuples) PROVE Len(tuples) \in due
      BY <3>1, <3>3, <3>4
    <3>5. ASSUME Len(tuples) \in due PROVE NewestDue(n, rate) = Len(tuples)
      BY <3>2, <3>3, <3>5
    <3> QED
      BY <3>4, <3>5
  <2> QED
    BY <2>1, <2>2
<1>8. Due(Last(tuples), n, rate) <=> n >= TotalSamples(rate) - 1
  BY <1>2, LastIsDue
<1> QED
  BY <1>1, <1>2, <1>5, <1>7, <1>8

\* A sweep shows at each sample the event that a lookup at random would, the newest that
\* is due, for any events, rates and samples; the last has its turn exactly from the last
\* sample of the whole replay on.
THEOREM ReplaysAreFaithful == TimelineSpec => []ReplayIsFaithful
  BY ReplayStarts, ReplaySteps, ReplayFollows, PTL DEF TimelineSpec
===============================================================================
