---------------------------- MODULE PlayoutProofs ----------------------------
(***************************************************************************)
(* Theorems about the audio thread's side: the hint that paces producers     *)
(* (FlowController), the compiler of kernels, its emitted loop (KernelState),  *)
(* the grammar of its streams (KernelGrammar) and the cache of its verdicts   *)
(* (KernelCache), and the blocks that are played and the quality they are     *)
(* rendered in (BridgeBlockConsumer, ResidualQualityController).  Each part   *)
(* stands by itself.                                                       *)
(***************************************************************************)
EXTENDS FlowController, KernelState, KernelGrammar, KernelCache,
        ResidualQualityController, SequenceTheorems, WellFoundedInduction, TLAPS

-------------------------------------------------------------------------------
(***************************************************************************)
(* The flow-scale controller forgets the past, for every capacity, gain,    *)
(* output clamp and number of consumers.                                    *)
(*                                                                         *)
(* ForgetsThePast is not inductive: it says nothing of the integrals.  The  *)
(* strengthening is a budget.  Each underfull tick lowers a consumer's      *)
(* integral by at least one frame, so after n of them it is at most the     *)
(* bound less n (IntegralSpent, which counts a tick from the moment it is   *)
(* made, before its store); when n reaches Patience nothing positive is     *)
(* left.  And the lane is the work of ONE consumer, the last to write it,   *)
(* so it is enough that the hint is right for some consumer.                *)
(***************************************************************************)

LowNow(c) == IF c \in ticked THEN LowStreak(c) ELSE underfull[c]
HighNow(c) == IF c \in ticked THEN HighStreak(c) ELSE overfull[c]

IntegralSpent ==
    \A c \in Consumers :
        /\ integral[c] <= IntegralBound - LowNow(c)
        /\ integral[c] >= HighNow(c) - IntegralBound

RightForItsWriter ==
    \E c \in Consumers :
        /\ underfull[c] = Patience => flowScale >= One
        /\ overfull[c] = Patience => flowScale <= One

FlowInv == TypeOK /\ IntegralSpent /\ RightForItsWriter

\* The bounds, as integers a solver need not multiply out.
LEMMA Bounds ==
    /\ Capacity \div 2 \in Nat
    /\ IntegralBound \in Nat /\ Patience = IntegralBound
    /\ IntegralBound >= IntLimit
    /\ One \in Nat /\ IntLimit \in Nat
<1>1. Capacity \in Nat /\ IntLimit \in Nat /\ Capacity >= 1 /\ IntLimit >= 1
  BY FlowAssumption
<1>2. IntLimit * Capacity \in Nat
  BY <1>1
<1>3. IntLimit * Capacity >= IntLimit * 1
  BY <1>1
<1>4. 2 * Capacity * IntLimit \in Nat
  BY <1>1
<1>5. Capacity \div 2 \in Nat
  BY <1>1
<1> QED
  BY <1>1, <1>2, <1>3, <1>4, <1>5 DEF IntegralBound, Patience, One

\* IntLimit * Error has the sign of Error, and is at least IntLimit of it.
LEMMA Proportional ==
    ASSUME NEW e \in Int
    PROVE  /\ IntLimit * e \in Int
           /\ e <= -1 => IntLimit * e <= -IntLimit
           /\ e >= 1 => IntLimit * e >= IntLimit
<1>1. IntLimit \in Nat
  BY Bounds
<1>2. e <= -1 => IntLimit * (-1 - e) >= 0
  BY <1>1
<1>3. e >= 1 => IntLimit * (e - 1) >= 0
  BY <1>1
<1> QED
  BY <1>1, <1>2, <1>3

\* What one tick does to a controller: the integral stays in its bounds and moves
\* with the error, at least by a frame unless a bound stops it.
LEMMA IntegratedMoves ==
    ASSUME NEW i \in (0 - IntegralBound) .. IntegralBound, NEW b \in Int
    PROVE  /\ Error(b) \in Int
           /\ Integrated(i, b) \in (0 - IntegralBound) .. IntegralBound
           /\ Error(b) < 0 => Integrated(i, b) <= i - 1 \/ Integrated(i, b) = 0 - IntegralBound
           /\ Error(b) > 0 => Integrated(i, b) >= i + 1 \/ Integrated(i, b) = IntegralBound
           /\ Error(b) = 0 => Integrated(i, b) = i
BY Bounds DEF Error, Integrated, Clamp

\* A hint computed from an underfull sample and an integral that is not positive
\* does not slow the producers down; and the mirror image.
LEMMA ScaleSide ==
    ASSUME NEW i \in Int, NEW b \in Int
    PROVE  /\ Scale(i, b) \in MinScale .. MaxScale
           /\ Error(b) < 0 /\ i <= 0 => Scale(i, b) >= One
           /\ Error(b) > 0 /\ i >= 0 => Scale(i, b) <= One
<1>1. Error(b) \in Int
  BY Bounds DEF Error
<1>2. /\ MinScale \in Int /\ MaxScale \in Int
      /\ MinScale <= One /\ One <= MaxScale
  BY FlowAssumption, Bounds
<1>3. PICK scaled \in Int : scaled = IntLimit * Error(b)
  BY <1>1, Proportional
<1>4. /\ Error(b) < 0 => scaled <= 0
      /\ Error(b) > 0 => scaled >= 0
  <2>1. /\ Error(b) < 0 => scaled <= -IntLimit
        /\ Error(b) > 0 => scaled >= IntLimit
    BY <1>1, <1>3, Proportional
  <2> QED
    BY <2>1, <1>3, Bounds
<1>5. Scale(i, b) = Clamp(MinScale, MaxScale, One - scaled - (2 * i))
  BY <1>3 DEF Scale
<1> QED
  BY <1>2, <1>3, <1>4, <1>5, Bounds DEF Clamp

LEMMA InitEstablishes == Init => FlowInv
<1> SUFFICES ASSUME Init PROVE FlowInv
  OBVIOUS
<1>1. /\ MinScale \in Int /\ MaxScale \in Int
      /\ MinScale <= One /\ One <= MaxScale
  BY FlowAssumption, Bounds
<1>2. TypeOK
  BY <1>1, Bounds, FlowAssumption DEF Init, TypeOK
<1>3. IntegralSpent
  BY Bounds DEF Init, IntegralSpent, LowNow, HighNow
<1>4. PICK c \in Consumers : TRUE
  BY FlowAssumption
<1>5. RightForItsWriter
  BY <1>4, Bounds DEF Init, RightForItsWriter
<1> QED
  BY <1>2, <1>3, <1>5 DEF FlowInv

\* A tick pays for the longer streak its store will count.
LEMMA TickPreserves ==
    ASSUME FlowInv, NEW c \in Consumers, NEW b \in Depths, Tick(c, b)
    PROVE  FlowInv'
<1> DEFINE i == integral[c]
           next == Integrated(i, b)
<1>0. b \in Int
  BY FlowAssumption
<1>1. /\ i \in (0 - IntegralBound) .. IntegralBound
      /\ underfull[c] \in 0 .. Patience /\ overfull[c] \in 0 .. Patience
  BY DEF FlowInv, TypeOK
<1>2. /\ Error(b) \in Int
      /\ next \in (0 - IntegralBound) .. IntegralBound
      /\ Error(b) < 0 => next <= i - 1 \/ next = 0 - IntegralBound
      /\ Error(b) > 0 => next >= i + 1 \/ next = IntegralBound
      /\ Error(b) = 0 => next = i
  BY <1>0, <1>1, IntegratedMoves
<1>3. /\ integral' = [integral EXCEPT ![c] = next]
      /\ sample' = [sample EXCEPT ![c] = b] /\ sample'[c] = b
      /\ c \notin ticked /\ ticked' = ticked \cup {c}
      /\ UNCHANGED <<flowScale, underfull, overfull>>
  BY DEF Tick, FlowInv, TypeOK
<1>4. TypeOK'
  BY <1>2, <1>3 DEF FlowInv, TypeOK, IntegralBound, Patience
<1>5. IntegralSpent'
  <2> SUFFICES ASSUME NEW d \in Consumers
               PROVE  /\ integral'[d] <= IntegralBound - LowNow(d)'
                      /\ integral'[d] >= HighNow(d)' - IntegralBound
    BY DEF IntegralSpent, IntegralBound
  <2>1. CASE d = c
    <3>1. /\ LowNow(c)' = Streak(underfull[c], Error(b) < 0)
          /\ HighNow(c)' = Streak(overfull[c], Error(b) > 0)
      BY <1>3 DEF LowNow, HighNow, LowStreak, HighStreak, Streak, Error, Patience
    <3>2. /\ i <= IntegralBound - underfull[c]
          /\ i >= overfull[c] - IntegralBound
      BY <1>3 DEF FlowInv, IntegralSpent, LowNow, HighNow
    <3>3. integral'[c] = next
      BY <1>3 DEF FlowInv, TypeOK
    <3>4. /\ LowNow(c)' \in 0 .. Patience /\ LowNow(c)' <= underfull[c] + 1
          /\ ~(Error(b) < 0) => LowNow(c)' = 0
      BY <1>1, <3>1, Bounds DEF Streak
    <3>5. /\ HighNow(c)' \in 0 .. Patience /\ HighNow(c)' <= overfull[c] + 1
          /\ ~(Error(b) > 0) => HighNow(c)' = 0
      BY <1>1, <3>1, Bounds DEF Streak
    <3> HIDE DEF next
    <3> QED
      BY <1>1, <1>2, <2>1, <3>2, <3>3, <3>4, <3>5, Bounds
  <2>2. CASE d # c
    <3>1. LowNow(d)' = LowNow(d) /\ HighNow(d)' = HighNow(d) /\ integral'[d] = integral[d]
      BY <1>3, <2>2 DEF LowNow, HighNow, LowStreak, HighStreak, Streak, Error, Patience, FlowInv,
         TypeOK
    <3> QED
      BY <3>1 DEF FlowInv, IntegralSpent
  <2> QED
    BY <2>1, <2>2
<1>6. RightForItsWriter'
  BY <1>3 DEF FlowInv, RightForItsWriter, One, Patience
<1> QED
  BY <1>4, <1>5, <1>6 DEF FlowInv

\* The consumer that stores becomes the one the lane is right for.
LEMMA StorePreserves ==
    ASSUME FlowInv, NEW c \in Consumers, Store(c)
    PROVE  FlowInv'
<1> DEFINE i == integral[c]
           b == sample[c]
<1>1. /\ i \in (0 - IntegralBound) .. IntegralBound /\ i \in Int /\ b \in Int
      /\ underfull[c] \in 0 .. Patience /\ overfull[c] \in 0 .. Patience
      /\ c \in ticked
  <2>1. i \in (0 - IntegralBound) .. IntegralBound /\ b \in Depths
    BY DEF FlowInv, TypeOK
  <2>2. b \in Int /\ i \in Int
    <3>1. Depths \subseteq Int
      BY FlowAssumption
    <3>2. b \in Int
      BY <2>1, <3>1
    <3>3. IntegralBound \in Int
      BY Bounds
    <3>4. i \in Int
      BY <2>1, <3>3
    <3> QED
      BY <3>2, <3>4
  <2>3. /\ underfull[c] \in 0 .. Patience /\ overfull[c] \in 0 .. Patience
        /\ c \in ticked
    BY DEF FlowInv, TypeOK, Store
  <2> QED
    BY <2>1, <2>2, <2>3
<1>2. /\ Scale(i, b) \in MinScale .. MaxScale
      /\ Error(b) < 0 /\ i <= 0 => Scale(i, b) >= One
      /\ Error(b) > 0 /\ i >= 0 => Scale(i, b) <= One
  BY <1>1, ScaleSide
<1>3. /\ flowScale' = Scale(i, b)
      /\ underfull' = [underfull EXCEPT ![c] = LowStreak(c)]
      /\ overfull' = [overfull EXCEPT ![c] = HighStreak(c)]
      /\ ticked' = ticked \ {c} /\ UNCHANGED <<integral, sample>>
  BY DEF Store
<1>4. /\ LowStreak(c) \in 0 .. Patience /\ HighStreak(c) \in 0 .. Patience
      /\ ~(Error(b) < 0) => LowStreak(c) = 0
      /\ ~(Error(b) > 0) => HighStreak(c) = 0
  BY <1>1, Bounds DEF LowStreak, HighStreak, Streak
<1>5. /\ i <= IntegralBound - LowStreak(c)
      /\ i >= HighStreak(c) - IntegralBound
  BY <1>1 DEF FlowInv, IntegralSpent, LowNow, HighNow
<1>6. underfull'[c] = LowStreak(c) /\ overfull'[c] = HighStreak(c)
  BY <1>3 DEF FlowInv, TypeOK
<1>7. TypeOK'
  <2>1. /\ underfull' \in [Consumers -> 0 .. Patience]
        /\ overfull' \in [Consumers -> 0 .. Patience]
    BY <1>3, <1>4 DEF FlowInv, TypeOK
  <2>2. flowScale' \in MinScale .. MaxScale
    BY <1>2, <1>3
  <2>3. /\ integral' \in [Consumers -> (0 - IntegralBound) .. IntegralBound]
        /\ ticked' \subseteq Consumers /\ sample' \in [Consumers -> Depths]
    BY <1>3 DEF FlowInv, TypeOK
  <2> QED
    BY <2>1, <2>2, <2>3 DEF TypeOK, IntegralBound, Patience
<1>8. IntegralSpent'
  <2> SUFFICES ASSUME NEW d \in Consumers
               PROVE  /\ integral'[d] <= IntegralBound - LowNow(d)'
                      /\ integral'[d] >= HighNow(d)' - IntegralBound
    BY DEF IntegralSpent, IntegralBound
  <2>1. CASE d = c
    BY <1>3, <1>5, <1>6, <2>1 DEF LowNow, HighNow
  <2>2. CASE d # c
    <3>1. LowNow(d)' = LowNow(d) /\ HighNow(d)' = HighNow(d) /\ integral'[d] = integral[d]
      BY <1>3, <2>2 DEF LowNow, HighNow, LowStreak, HighStreak, Streak, Error, Patience, FlowInv,
         TypeOK
    <3> QED
      BY <3>1 DEF FlowInv, IntegralSpent
  <2> QED
    BY <2>1, <2>2
<1>9. /\ underfull'[c] = Patience => flowScale' >= One
      /\ overfull'[c] = Patience => flowScale' <= One
  <2>1. Patience # 0 /\ Patience = IntegralBound /\ IntegralBound \in Nat
    BY Bounds, FlowAssumption
  <2>2. /\ LowStreak(c) = Patience => Error(b) < 0 /\ i <= 0
        /\ HighStreak(c) = Patience => Error(b) > 0 /\ i >= 0
    BY <1>1, <1>4, <1>5, <2>1
  <2> QED
    BY <1>2, <1>3, <1>6, <2>2
<1>10. RightForItsWriter'
  BY <1>9 DEF RightForItsWriter, One, Patience
<1> QED
  BY <1>7, <1>8, <1>10 DEF FlowInv

LEMMA ResetPreserves ==
    ASSUME FlowInv, NEW c \in Consumers, Reset(c)
    PROVE  FlowInv'
<1>1. TypeOK'
  BY Bounds DEF FlowInv, TypeOK, Reset, IntegralBound, Patience
<1>2. IntegralSpent'
  <2> SUFFICES ASSUME NEW d \in Consumers
               PROVE  /\ integral'[d] <= IntegralBound - LowNow(d)'
                      /\ integral'[d] >= HighNow(d)' - IntegralBound
    BY DEF IntegralSpent, IntegralBound
  <2>1. /\ integral[d] <= IntegralBound - LowNow(d)
        /\ integral[d] >= HighNow(d) - IntegralBound
        /\ underfull[d] \in 0 .. Patience /\ overfull[d] \in 0 .. Patience
    BY DEF FlowInv, IntegralSpent, TypeOK
  <2>2. LowNow(d)' = LowNow(d) /\ HighNow(d)' = HighNow(d)
    BY DEF Reset, LowNow, HighNow, LowStreak, HighStreak, Streak, Error, Patience
  <2>3. CASE d = c
    <3>1. integral'[d] = 0 /\ LowNow(d) = underfull[d] /\ HighNow(d) = overfull[d]
      BY <2>3 DEF Reset, LowNow, HighNow, FlowInv, TypeOK
    <3> QED
      BY <2>1, <2>2, <3>1, Bounds
  <2>4. CASE d # c
    BY <2>1, <2>2, <2>4 DEF Reset, FlowInv, TypeOK
  <2> QED
    BY <2>3, <2>4
<1>3. RightForItsWriter'
  BY DEF FlowInv, RightForItsWriter, Reset, One, Patience
<1> QED
  BY <1>1, <1>2, <1>3 DEF FlowInv

LEMMA Preserved == FlowInv /\ [Next]_vars => FlowInv'
<1> SUFFICES ASSUME FlowInv, [Next]_vars PROVE FlowInv'
  OBVIOUS
<1>1. CASE \E c \in Consumers : \E b \in Depths : Tick(c, b)
  BY <1>1, TickPreserves
<1>2. CASE \E c \in Consumers : Store(c)
  BY <1>2, StorePreserves
<1>3. CASE \E c \in Consumers : Reset(c)
  BY <1>3, ResetPreserves
<1>4. CASE UNCHANGED vars
  BY <1>4 DEF vars, FlowInv, TypeOK, IntegralSpent, RightForItsWriter, One, Patience,
     IntegralBound, LowNow, HighNow, LowStreak, HighStreak, Streak, Error
<1> QED
  BY <1>1, <1>2, <1>3, <1>4 DEF Next

\* The integrators and the hint keep their bounds (AdaptiveFlowController.tick).
THEOREM FlowTypeCorrect == Spec => []TypeOK
<1>1. FlowInv => TypeOK
  BY DEF FlowInv
<1> QED
  BY InitEstablishes, Preserved, <1>1, PTL DEF Spec

\* The anti-windup bound of AdaptiveFlowController.tick does what its comment wants:
\* no stall, however long, traps the hint on the wrong side of 1.
THEOREM FlowForgets == Spec => []ForgetsThePast
<1>1. FlowInv => ForgetsThePast
  BY DEF FlowInv, RightForItsWriter, ForgetsThePast
<1> QED
  BY InitEstablishes, Preserved, <1>1, PTL DEF Spec

-------------------------------------------------------------------------------
(***************************************************************************)
(* The emitted loop computes what evalReference does, for every kernel, any   *)
(* number of lanes and any lengths, where no delay line is tapped at full     *)
(* length after its write (SafeTaps).                                       *)
(*                                                                         *)
(* SafeTapsAgree is not inductive: the outputs agree because the states do.   *)
(* Between iterations registers, lines and cursors are the reference's; in    *)
(* one, the lines are the reference's with the writes made so far, which no   *)
(* later expression of the iteration can see.                               *)
(***************************************************************************)

OnDomain(f, S) == f = [x \in S |-> f[x]]

\* The lines of the reference after the first n - 1 buffer writes of the iteration.
AfterWrites(n) ==
    [lane \in Lanes |->
        [b \in Buffers |->
            IF WritesTo(b) \cap (1 .. n - 1) = {} THEN refRing[lane][b]
            ELSE [refRing[lane][b] EXCEPT ![cur[b]] = Reference(lane, WrittenTo(b))]]]

Shape ==
    /\ kernel \in Kernels
    /\ pc \in {"idle", "stores", "writes", "leave"}
    /\ k \in Nat \ {0}
    /\ cur \in [Buffers -> Nat] /\ slabCursor \in [Buffers -> Nat]
    /\ \A b \in Buffers : cur[b] < kernel.length[b] /\ slabCursor[b] < kernel.length[b]
    /\ \A lane \in Lanes, b \in Buffers :
           OnDomain(refRing[lane][b], 0 .. kernel.length[b] - 1)

\* Between calls the slab, elsewhere the locals, hold the reference's state.
SameRegisters == refReg = IF pc = "idle" THEN slabReg ELSE reg

SameCursors ==
    refCursor = [lane \in Lanes |-> IF pc = "idle" THEN slabCursor ELSE cur]

SameLines == ring = AfterWrites(IF pc = "writes" THEN k ELSE 1)

\* What the iteration has computed is what the reference will.
SamePending ==
    IF pc = "writes"
    THEN /\ k <= Len(kernel.writes) + 1
         /\ out = [lane \in Lanes |-> Reference(lane, kernel.out)]
         /\ \A lane \in Lanes : \A r \in kernel.written :
                r \in Registers => nextReg[lane][r] = Reference(lane, kernel.next[r])
    ELSE out = refOut

LoopInv == Shape /\ (SafeTaps => SameRegisters /\ SameCursors /\ SameLines /\ SamePending)

-------------------------------------------------------------------------------
\* A tap that is shorter than its line misses the slot of the cursor.
LEMMA BackMisses ==
    ASSUME NEW length \in Nat \ {0}, NEW w \in 0 .. length - 1,
           NEW d \in 1 .. length, d # length
    PROVE  Back(w, d, length) \in 0 .. length - 1 /\ Back(w, d, length) # w
BY DEF Back

\* Cursors stay in their line.
LEMMA AheadStays ==
    ASSUME NEW length \in Nat \ {0}, NEW w \in 0 .. length - 1
    PROVE  Ahead(w, length) \in Nat /\ Ahead(w, length) < length
BY DEF Ahead

\* The shape of a kernel that the grammar admits.
LEMMA KernelShape ==
    ASSUME kernel \in Kernels
    PROVE  /\ kernel.length \in [Buffers -> Nat \ {0}]
           /\ kernel.out \subseteq Leaves(kernel.length)
           /\ kernel.written \subseteq Registers
           /\ kernel.next \in [kernel.written -> SUBSET Leaves(kernel.length)]
           /\ Len(kernel.writes) \in Nat
           /\ DOMAIN kernel.writes = 1 .. Len(kernel.writes)
           /\ \A n \in DOMAIN kernel.writes :
                  /\ kernel.writes[n].buffer \in Buffers
                  /\ kernel.writes[n].value \in SUBSET Leaves(kernel.length)
           /\ \A j, m \in DOMAIN kernel.writes :
                  kernel.writes[j].buffer = kernel.writes[m].buffer => j = m
<1>. DEFINE Writes == [buffer : Buffers, value : SUBSET Leaves(kernel.length)]
<1>1. IsKernel(kernel)
  BY KernelsAssumption
<1>2. kernel.writes \in Seq(Writes)
  BY <1>1 DEF IsKernel
<1>3. /\ Len(kernel.writes) \in Nat
      /\ DOMAIN kernel.writes = 1 .. Len(kernel.writes)
      /\ \A n \in DOMAIN kernel.writes : kernel.writes[n] \in Writes
  <2>. HIDE DEF Writes
  <2>. QED  BY <1>2
<1>. QED  BY <1>1, <1>3 DEF IsKernel

\* An expression's value is made of its leaves' values.
LEMMA SameLeaves ==
    ASSUME NEW expr, NEW loaded,
           NEW regs1, NEW rings1, NEW cursors1, NEW regs2, NEW rings2, NEW cursors2,
           \A leaf \in expr : LeafValue(leaf, loaded, regs1, rings1, cursors1)
                                = LeafValue(leaf, loaded, regs2, rings2, cursors2)
    PROVE  Evaluate(expr, loaded, regs1, rings1, cursors1)
             = Evaluate(expr, loaded, regs2, rings2, cursors2)
<1>1. [leaf \in expr |-> LeafValue(leaf, loaded, regs1, rings1, cursors1)]
        = [leaf \in expr |-> LeafValue(leaf, loaded, regs2, rings2, cursors2)]
  OBVIOUS
<1>. QED  BY <1>1 DEF Evaluate

\* No write has been made yet: the lines are the reference's, now and after a step.
LEMMA NoWrites ==
    /\ AfterWrites(1) = [lane \in Lanes |-> [b \in Buffers |-> refRing[lane][b]]]
    /\ AfterWrites(1)' = [lane \in Lanes |-> [b \in Buffers |-> refRing'[lane][b]]]
<1>1. \A b : WritesTo(b) \cap (1 .. 1 - 1) = {} /\ WritesTo(b)' \cap (1 .. 1 - 1) = {}
  OBVIOUS
<1>. QED  BY <1>1 DEF AfterWrites

\* An expression that taps no written line at full length cannot see the writes.
LEMMA SeenAlike ==
    ASSUME Shape, NEW n, NEW lane \in Lanes,
           NEW expr \in SUBSET Leaves(kernel.length),
           refReg = reg, refCursor = [l \in Lanes |-> cur], ring = AfterWrites(n),
           \A b \in Buffers : WritesTo(b) \cap (1 .. n - 1) # {} =>
                                  ReadDelay(b, kernel.length[b]) \notin expr
    PROVE  Emitted(lane, expr) = Reference(lane, expr)
<1>. DEFINE Sees(leaf) == LeafValue(leaf, input[lane], reg[lane], ring[lane], cur)
            Knows(leaf) == LeafValue(leaf, input[lane], refReg[lane], refRing[lane],
                                     refCursor[lane])
<1>1. \A leaf \in expr : Sees(leaf) = Knows(leaf)
  <2>. SUFFICES ASSUME NEW leaf \in expr
                PROVE  Sees(leaf) = Knows(leaf)
    OBVIOUS
  <2>1. CASE leaf = Load
    BY <2>1 DEF Load, LeafValue
  <2>2. CASE \E r \in Registers : leaf = ReadState(r)
    BY <2>2 DEF ReadState, LeafValue
  <2>3. CASE \E b \in Buffers : \E d \in 1 .. kernel.length[b] : leaf = ReadDelay(b, d)
    <3>0. PICK b \in Buffers : \E d \in 1 .. kernel.length[b] : leaf = ReadDelay(b, d)
      BY <2>3
    <3>1. PICK d \in 1 .. kernel.length[b] : leaf = ReadDelay(b, d)
      BY <3>0
    <3>. DEFINE slot == Back(cur[b], d, kernel.length[b])
    <3>2. kernel.length[b] \in Nat \ {0} /\ cur[b] \in 0 .. kernel.length[b] - 1
      BY KernelShape DEF Shape
    <3>3. Sees(leaf) = ring[lane][b][slot]
      BY <3>1 DEF ReadDelay, LeafValue
    <3>4. Knows(leaf) = refRing[lane][b][slot]
      BY <3>1 DEF ReadDelay, LeafValue
    <3>5. CASE WritesTo(b) \cap (1 .. n - 1) = {}
      <4>1. ring[lane][b] = refRing[lane][b]
        BY <3>5 DEF AfterWrites
      <4>. QED  BY <3>3, <3>4, <4>1
    <3>6. CASE WritesTo(b) \cap (1 .. n - 1) # {}
      <4>1. d # kernel.length[b]
        BY <3>1, <3>6
      <4>2. slot \in 0 .. kernel.length[b] - 1 /\ slot # cur[b]
        BY <3>2, <4>1, BackMisses
      <4>3. ring[lane][b] = [refRing[lane][b] EXCEPT ![cur[b]]
                                = Reference(lane, WrittenTo(b))]
        BY <3>6 DEF AfterWrites
      <4>4. OnDomain(refRing[lane][b], 0 .. kernel.length[b] - 1)
        BY DEF Shape
      <4>5. ring[lane][b][slot] = refRing[lane][b][slot]
        BY <4>2, <4>3, <4>4 DEF OnDomain
      <4>. QED  BY <3>3, <3>4, <4>5
    <3>. QED  BY <3>5, <3>6
  <2>. QED  BY <2>1, <2>2, <2>3 DEF Leaves
<1>2. Evaluate(expr, input[lane], reg[lane], ring[lane], cur)
        = Evaluate(expr, input[lane], refReg[lane], refRing[lane], refCursor[lane])
  BY <1>1, SameLeaves
<1>. QED  BY <1>2 DEF Emitted, Reference

\* In the loop, SafeTaps hides the writes made so far from the n-th write's value.
LEMMA WriteIsBlind ==
    ASSUME Shape, SafeTaps, NEW n \in DOMAIN kernel.writes, NEW b \in Buffers,
           WritesTo(b) \cap (1 .. n - 1) # {}
    PROVE  ReadDelay(b, kernel.length[b]) \notin kernel.writes[n].value
<1>1. PICK j \in DOMAIN kernel.writes : kernel.writes[j].buffer = b /\ j \in 1 .. n - 1
  BY DEF WritesTo
<1>2. DOMAIN kernel.writes \subseteq Nat
  BY KernelShape DEF Shape
<1>3. j < n
  BY <1>1, <1>2
<1>. QED  BY <1>1, <1>3 DEF SafeTaps

\* The one write to a buffer.
LEMMA OneWrite ==
    ASSUME Shape, NEW n \in DOMAIN kernel.writes
    PROVE  /\ kernel.writes[n].buffer \in Buffers
           /\ kernel.writes[n].value \in SUBSET Leaves(kernel.length)
           /\ WritesTo(kernel.writes[n].buffer) = {n}
           /\ WrittenTo(kernel.writes[n].buffer) = kernel.writes[n].value
<1>1. /\ kernel.writes[n].buffer \in Buffers
      /\ kernel.writes[n].value \in SUBSET Leaves(kernel.length)
  BY KernelShape DEF Shape
<1>2. WritesTo(kernel.writes[n].buffer) = {n}
  BY KernelShape DEF Shape, WritesTo
<1>3. (CHOOSE j \in WritesTo(kernel.writes[n].buffer) : TRUE) = n
  BY <1>2
<1>. QED  BY <1>1, <1>2, <1>3 DEF WrittenTo

-------------------------------------------------------------------------------
\* What an iteration of the loop and one of the reference start from is the same.
LEMMA KernelInitHolds == KernelInit => LoopInv
<1>. SUFFICES ASSUME KernelInit
              PROVE  LoopInv
  OBVIOUS
<1>1. kernel.length \in [Buffers -> Nat \ {0}]
  BY KernelShape DEF KernelInit
<1>2. Shape
  BY <1>1 DEF KernelInit, Shape, Silence, OnDomain
<1>3. ring = [lane \in Lanes |-> [b \in Buffers |-> refRing[lane][b]]]
  BY DEF KernelInit, Silence
<1>4. SameLines
  BY <1>3, NoWrites DEF KernelInit, SameLines
<1>5. SameRegisters /\ SameCursors /\ SamePending
  BY DEF KernelInit, SameRegisters, SameCursors, SamePending
<1>. QED  BY <1>2, <1>4, <1>5 DEF LoopInv

\* Cursors stay in their lines, and lines keep their length.
LEMMA ShapeStep == Shape /\ [KernelNext]_kernelVars => Shape'
<1>. SUFFICES ASSUME Shape, [KernelNext]_kernelVars
              PROVE  Shape'
  OBVIOUS
<1>. USE DEF Shape
<1>1. CASE Enter
  BY <1>1 DEF Enter, refVars
<1>2. CASE StoreOutputs
  BY <1>2 DEF StoreOutputs, refVars
<1>3. CASE WriteBuffer
  BY <1>3 DEF WriteBuffer, refVars
<1>4. CASE Commit
  <2>1. kernel' = kernel /\ k' = k /\ slabCursor' = slabCursor
    BY <1>4 DEF Commit
  <2>2. pc' \in {"idle", "stores", "writes", "leave"}
    BY <1>4 DEF Commit
  <2>3. kernel.length \in [Buffers -> Nat \ {0}]
    BY KernelShape
  <2>4. \A b \in Buffers : /\ Ahead(cur[b], kernel.length[b]) \in Nat
                           /\ Ahead(cur[b], kernel.length[b]) < kernel.length[b]
    BY <2>3, AheadStays
  <2>5. cur' = [b \in Buffers |-> Ahead(cur[b], kernel.length[b])]
    BY <1>4 DEF Commit
  <2>6. ASSUME NEW lane \in Lanes, NEW b \in Buffers
        PROVE  OnDomain(refRing'[lane][b], 0 .. kernel.length[b] - 1)
    <3>1. OnDomain(refRing[lane][b], 0 .. kernel.length[b] - 1)
      OBVIOUS
    <3>2. refRing'[lane][b] =
             IF WritesTo(b) = {} THEN refRing[lane][b]
             ELSE [refRing[lane][b] EXCEPT ![refCursor[lane][b]]
                       = Reference(lane, WrittenTo(b))]
      BY <1>4 DEF Commit, ReferenceIterates
    <3>. QED  BY <3>1, <3>2 DEF OnDomain
  <2>. QED  BY <2>1, <2>2, <2>4, <2>5, <2>6
<1>5. CASE Leave
  <2>1. kernel.length \in [Buffers -> Nat \ {0}]
    BY KernelShape
  <2>. QED  BY <1>5, <2>1 DEF Leave, refVars
<1>6. CASE UNCHANGED kernelVars
  BY <1>6 DEF kernelVars, emittedVars, refVars
<1>. QED  BY <1>1, <1>2, <1>3, <1>4, <1>5, <1>6 DEF KernelNext

\* A state the two evaluators agree in leads to one.
LEMMA IInvStep == LoopInv /\ [KernelNext]_kernelVars => LoopInv'
<1>. SUFFICES ASSUME LoopInv, [KernelNext]_kernelVars
              PROVE  LoopInv'
  OBVIOUS
<1>1. Shape /\ Shape'
  BY ShapeStep DEF LoopInv
<1>2. SafeTaps' <=> SafeTaps
  BY DEF KernelNext, Enter, StoreOutputs, WriteBuffer, Commit, Leave, kernelVars, SafeTaps
<1>. SUFFICES ASSUME SafeTaps, SameRegisters, SameCursors, SameLines, SamePending
              PROVE  (SameRegisters /\ SameCursors /\ SameLines /\ SamePending)'
  BY <1>1, <1>2 DEF LoopInv
<1>. DEFINE Reads(lane, expr) == Emitted(lane, expr) = Reference(lane, expr)
<1>3. CASE Enter
  <2>1. AfterWrites(1)' = AfterWrites(1)
    BY NoWrites, <1>3 DEF Enter, refVars
  <2>2. SameLines'
    BY <1>3, <2>1 DEF Enter, SameLines
  <2>. QED  BY <1>3, <2>2 DEF Enter, refVars, SameRegisters, SameCursors, SamePending
<1>4. CASE StoreOutputs
  <2>1. refReg = reg /\ refCursor = [lane \in Lanes |-> cur] /\ ring = AfterWrites(1)
    BY <1>4 DEF StoreOutputs, SameRegisters, SameCursors, SameLines
  <2>2. \A b \in Buffers : WritesTo(b) \cap (1 .. 1 - 1) = {}
    OBVIOUS
  <2>3. \A lane \in Lanes : \A expr \in SUBSET Leaves(kernel.length) : Reads(lane, expr)
    BY <1>1, <2>1, <2>2, SeenAlike
  <2>4. \A lane \in Lanes : \A expr : Reference(lane, expr)' = Reference(lane, expr)
    BY <1>4 DEF StoreOutputs, refVars, Reference, Evaluate, LeafValue
  <2>5. out' = [lane \in Lanes |-> Reference(lane, kernel.out)]
    BY <1>1, <1>4, <2>3, KernelShape DEF StoreOutputs, Shape
  <2>6. \A lane \in Lanes : \A r \in kernel.written :
            r \in Registers => nextReg'[lane][r] = Reference(lane, kernel.next[r])
    BY <1>1, <1>4, <2>3, KernelShape DEF StoreOutputs, Shape
  <2>7. SamePending'
    <3>1. /\ kernel' = kernel /\ pc' = "writes" /\ k' = 1
      BY <1>4 DEF StoreOutputs
    <3>2. 1 <= Len(kernel.writes) + 1
      BY <1>1, KernelShape DEF Shape
    <3>. QED  BY <2>4, <2>5, <2>6, <3>1, <3>2 DEF SamePending
  <2>8. SameLines'
    <3>1. AfterWrites(1)' = AfterWrites(1)
      BY NoWrites, <1>4 DEF StoreOutputs, refVars
    <3>. QED  BY <1>4, <2>1, <3>1 DEF StoreOutputs, SameLines
  <2>. QED  BY <1>4, <2>1, <2>7, <2>8 DEF StoreOutputs, refVars, SameRegisters, SameCursors
<1>5. CASE WriteBuffer
  <2>. DEFINE w == kernel.writes[k]
  <2>1. /\ refReg = reg /\ refCursor = [lane \in Lanes |-> cur] /\ ring = AfterWrites(k)
        /\ k \in DOMAIN kernel.writes
    BY <1>1, <1>5, KernelShape DEF WriteBuffer, Shape, SameRegisters, SameCursors, SameLines
  <2>2. /\ w.buffer \in Buffers /\ w.value \in SUBSET Leaves(kernel.length)
        /\ WritesTo(w.buffer) = {k} /\ WrittenTo(w.buffer) = w.value
    BY <1>1, <2>1, OneWrite
  <2>. k \in Nat \ {0}
    BY <1>1 DEF Shape
  <2>3. \A lane \in Lanes : Reads(lane, w.value)
    BY <1>1, <2>1, <2>2, SeenAlike, WriteIsBlind
  <2>4. \A lane \in Lanes : \A expr : Reference(lane, expr)' = Reference(lane, expr)
    BY <1>5 DEF WriteBuffer, refVars, Reference, Evaluate, LeafValue
  <2>5. AfterWrites(k + 1) = ring'
    <3>1. ring' = [lane \in Lanes |->
                      [ring[lane] EXCEPT ![w.buffer] =
                          [ring[lane][w.buffer] EXCEPT ![cur[w.buffer]]
                              = Reference(lane, w.value)]]]
      BY <1>5, <2>3 DEF WriteBuffer
    <3>2. ASSUME NEW lane \in Lanes, NEW b \in Buffers
          PROVE  ring'[lane][b] = AfterWrites(k + 1)[lane][b]
      <4>1. CASE b = w.buffer
        <5>0. WritesTo(b) = {k}
          BY <2>2, <4>1
        <5>1. WritesTo(b) \cap (1 .. k - 1) = {} /\ WritesTo(b) \cap (1 .. k + 1 - 1) # {}
          BY <5>0
        <5>2. ring[lane][b] = refRing[lane][b]
          BY <2>1, <5>1 DEF AfterWrites
        <5>3. b \in DOMAIN ring[lane]
          BY <2>1 DEF AfterWrites
        <5>4. ring'[lane][b] = [ring[lane][b] EXCEPT ![cur[b]] = Reference(lane, w.value)]
          BY <3>1, <4>1, <5>3
        <5>5. AfterWrites(k + 1)[lane][b] =
                 [refRing[lane][b] EXCEPT ![cur[b]] = Reference(lane, w.value)]
          BY <2>2, <4>1, <5>1, SMTT(30) DEF AfterWrites
        <5>. QED  BY <5>2, <5>4, <5>5
      <4>2. CASE b # w.buffer
        <5>0. k \notin WritesTo(b)
          BY <4>2 DEF WritesTo
        <5>1. WritesTo(b) \cap (1 .. k - 1) = WritesTo(b) \cap (1 .. k + 1 - 1)
          BY <5>0
        <5>2. ring'[lane][b] = ring[lane][b]
          BY <2>1, <3>1, <4>2 DEF AfterWrites
        <5>. QED  BY <2>1, <5>1, <5>2 DEF AfterWrites
      <4>. QED  BY <4>1, <4>2
    <3>3. ring' = [lane \in Lanes |-> [b \in Buffers |-> ring'[lane][b]]]
      BY <2>1, <3>1 DEF AfterWrites
    <3>4. AfterWrites(k + 1) = [lane \in Lanes |->
                                   [b \in Buffers |-> AfterWrites(k + 1)[lane][b]]]
      BY DEF AfterWrites
    <3>. QED  BY <3>2, <3>3, <3>4
  <2>6. \A n : AfterWrites(n)' = AfterWrites(n)
    BY <1>5, <2>4 DEF WriteBuffer, refVars, AfterWrites, WritesTo, WrittenTo
  <2>7. SameLines'
    BY <1>5, <2>5, <2>6 DEF WriteBuffer, SameLines
  <2>8. SamePending'
    <3>1. kernel' = kernel /\ pc' = "writes" /\ pc = "writes" /\ k' = k + 1
          /\ out' = out /\ nextReg' = nextReg
      BY <1>5 DEF WriteBuffer
    <3>2. k + 1 <= Len(kernel.writes) + 1
      BY <1>1, <1>5, KernelShape DEF WriteBuffer, Shape
    <3>. QED  BY <1>1, <2>4, <3>1, <3>2, KernelShape DEF SamePending, Shape
  <2>. QED  BY <1>5, <2>7, <2>8 DEF WriteBuffer, refVars, SameRegisters, SameCursors
<1>6. CASE Commit
  <2>1. /\ refReg = reg /\ refCursor = [lane \in Lanes |-> cur]
        /\ ring = AfterWrites(Len(kernel.writes) + 1)
        /\ out = [lane \in Lanes |-> Reference(lane, kernel.out)]
        /\ \A lane \in Lanes : \A r \in kernel.written :
               r \in Registers => nextReg[lane][r] = Reference(lane, kernel.next[r])
        /\ pc' # "idle" /\ pc' # "writes"
    BY <1>1, <1>6, KernelShape
    DEF Commit, Shape, SameRegisters, SameCursors, SameLines, SamePending
  <2>2. refReg' = reg'
    BY <1>6, <2>1 DEF Commit, ReferenceIterates
  <2>3. refCursor' = [lane \in Lanes |-> cur']
    BY <1>6, <2>1 DEF Commit, ReferenceIterates
  <2>4. out' = refOut'
    BY <1>6, <2>1 DEF Commit, ReferenceIterates
  <2>5. AfterWrites(1)' = ring'
    <3>1. \A b \in Buffers : WritesTo(b) \cap (1 .. Len(kernel.writes) + 1 - 1) = WritesTo(b)
      BY <1>1, KernelShape DEF Shape, WritesTo
    <3>2. ring = [lane \in Lanes |-> [b \in Buffers |-> refRing'[lane][b]]]
      BY <1>6, <2>1, <3>1 DEF Commit, ReferenceIterates, AfterWrites
    <3>. QED  BY <1>6, <3>2, NoWrites DEF Commit
  <2>. QED  BY <2>1, <2>2, <2>3, <2>4, <2>5
            DEF SameRegisters, SameCursors, SameLines, SamePending
<1>7. CASE Leave
  <2>1. AfterWrites(1)' = AfterWrites(1)
    BY NoWrites, <1>7 DEF Leave, refVars
  <2>. QED  BY <1>7, <2>1 DEF Leave, refVars, SameRegisters, SameCursors, SameLines,
                              SamePending
<1>8. CASE UNCHANGED kernelVars
  <2>1. \A lane \in Lanes : \A expr : Reference(lane, expr)' = Reference(lane, expr)
    BY <1>8 DEF kernelVars, emittedVars, refVars, Reference, Evaluate, LeafValue
  <2>2. \A n : AfterWrites(n)' = AfterWrites(n)
    BY <1>8, <2>1 DEF kernelVars, emittedVars, refVars, AfterWrites, WritesTo, WrittenTo
  <2>. QED  BY <1>8, <2>1, <2>2 DEF kernelVars, emittedVars, refVars, SameRegisters,
                                    SameCursors, SameLines, SamePending
<1>. QED  BY <1>3, <1>4, <1>5, <1>6, <1>7, <1>8 DEF KernelNext

\* Where no line is tapped at full length after its write, the emitted loop stores,
\* in every lane and over any calls, the samples that evalReference computes.
THEOREM LoopIsReference == KernelSpec => []SafeTapsAgree
<1>1. LoopInv => SafeTapsAgree
  BY DEF LoopInv, SamePending, SafeTapsAgree, EvaluatorsAgree
<1>. QED  BY KernelInitHolds, IInvStep, <1>1, PTL DEF KernelSpec

-------------------------------------------------------------------------------
(***************************************************************************)
(* The masks and the validator agree on every alphabet and for streams of any *)
(* length.  Each operand the mask offers meets the validator's condition for   *)
(* its kind as it stands, but for one: the names it offers for an array, a      *)
(* scalar or a bound are those of a role, and were checked when they were      *)
(* declared.                                                                *)
(***************************************************************************)

\* The parameters declared so far have well-formed names.
ParamToken == [t : {"param"}, name : Names, role : Roles]

ParamsOK ==
    /\ s.params \in Seq(ParamToken)
    /\ {"phase", "params"} \subseteq DOMAIN s

\* None is declared at the start.
LEMMA ParamsStart == GrammarInit => ParamsOK
BY DEF GrammarInit, GrammarStart, ParamsOK

\* Only an accepted parameter token changes the parameters.
LEMMA ParamsStep == ParamsOK /\ [GrammarNext]_s => ParamsOK'
<1>. SUFFICES ASSUME ParamsOK, NEW tk \in Alphabet, Write(tk)
              PROVE  ParamsOK'
  BY DEF GrammarNext, ParamsOK
<1>1. tk \in Tokens /\ Accepts(s, tk) /\ s' = After(s, tk)
  BY AlphabetAssumption DEF Write
<1>2. CASE tk.t = "param"
  <2>1. tk \in ParamToken
    <3>1. tk.name \in Names /\ tk.role \in Roles
      BY <1>1, <1>2 DEF Accepts, AcceptsDeclaration, AcceptsValue, AcceptsOperation,
                        AcceptsWrite, Fresh
    <3>2. tk \in [t : {"param"}, name : Names \cup {Malformed}, role : Roles \cup {"state"}]
      BY <1>1, <1>2 DEF Tokens
    <3>. QED  BY <3>1, <3>2 DEF ParamToken
  <2>2. s' = [s EXCEPT !.params = Append(@, tk)]
    BY <1>1, <1>2 DEF After
  <2>3. Append(s.params, tk) \in Seq(ParamToken)
    BY <2>1 DEF ParamsOK
  <2>. QED  BY <2>2, <2>3 DEF ParamsOK
<1>3. CASE tk.t # "param"
  <2>1. s'.params = s.params /\ DOMAIN s' = DOMAIN s
    BY <1>1, <1>3 DEF After, ParamsOK
  <2>. QED  BY <2>1 DEF ParamsOK
<1>. QED  BY <1>2, <1>3

\* The names offered by their role are declared, and well-formed.
LEMMA RoleNamesDeclared ==
    ASSUME ParamsOK, NEW role
    PROVE  NamesByRole(s, role) \subseteq Names \cap ParamNames(s)
BY DEF ParamsOK, ParamToken, NamesByRole, ParamNames

\* By the phase: what it lets through there, the validator accepts there.
LEMMA MaskStep == ParamsOK => MaskIsSound
<1>. SUFFICES ASSUME ParamsOK, NEW kind \in LegalKinds(s), NEW tk \in OfKind[kind],
                     LegalOperands(s, tk)
              PROVE  Accepts(s, tk)
  BY DEF MaskIsSound
<1>0. kind \in Kinds
  BY DEF LegalKinds, WriteKinds, Kinds
<1>1. tk.t \in LegalKinds(s) /\ LegalOperands(s, tk)
  BY <1>0 DEF OfKind
<1>2. CASE s.phase = "width"
  BY <1>1, <1>2 DEF LegalKinds, LegalOperands, Accepts
<1>3. CASE s.phase = "params"
  BY <1>1, <1>3, RoleNamesDeclared DEF LegalKinds, LegalOperands, Accepts, AcceptsDeclaration
<1>4. CASE s.phase = "body"
  BY <1>1, <1>4, RoleNamesDeclared
  DEF LegalKinds, WriteKinds, LegalOperands, Accepts, AcceptsValue, AcceptsOperation, AcceptsWrite, IsAffine
<1>5. CASE s.phase \notin {"width", "params", "body"}
  BY <1>1, <1>5 DEF LegalKinds
<1>. QED  BY <1>2, <1>3, <1>4, <1>5

\* legalNextTokens and legalNextOperands never offer a token together that
\* stepGrammar refuses, after any stream that it accepted.
THEOREM MasksAgree == GrammarSpec => []MaskIsSound
BY ParamsStart, ParamsStep, MaskStep, PTL DEF GrammarSpec

-------------------------------------------------------------------------------
(***************************************************************************)
(* The first verdict about a body stands, for every set of streams, options *)
(* and gates, whichever of the gates' runs throw.                          *)
(*                                                                         *)
(* FirstVerdictStands says of the memos nothing but what the last answer    *)
(* shows.  The strengthening ties them to the runs of the gates: a memo     *)
(* knows a body exactly when the last run with it came to a verdict, it is  *)
(* the memo of that verdict and holds that call, and the runs before threw; *)
(* and the syntax memo holds no stream that the grammar takes, which is     *)
(* what makes its early answer the answer of the grammar.                   *)
(***************************************************************************)

Runs(b) == Len(gated[b])

\* What is remembered of a body whose gates ran last with the call c.
RemembersRun(b, c) ==
    /\ store[b] = IF Outcome(c) = "accepted" THEN c ELSE NoCall
    /\ rejectsByHash[b] = IF Outcome(c) = "rejected" THEN c ELSE NoCall

MemosRecordTheRuns ==
    \A b \in Bodies :
        /\ \A i \in 1 .. Runs(b) - 1 : gated[b][i] \in Throws
        /\ IF Runs(b) = 0 THEN ~Known(b) ELSE RemembersRun(b, gated[b][Runs(b)])

SyntaxMemoIsMalformed == rejectsByStream \cap DOMAIN BodyOf = {}

AnswerIsLastRun ==
    IsAnswer => IF answer.stream \in DOMAIN BodyOf
                THEN /\ Runs(Asked) # 0
                     /\ answer.by = gated[Asked][Runs(Asked)]
                     /\ answer.status = Outcome(answer.by)
                     /\ answer.status = "threw" => answer.by = <<answer.stream, answer.opts>>
                ELSE answer.status = "rejected"

CacheInv ==
    /\ gated \in [Bodies -> Seq(Calls)]
    /\ store \in [Bodies -> Calls \cup {NoCall}]
    /\ rejectsByHash \in [Bodies -> Calls \cup {NoCall}]
    /\ MemosRecordTheRuns /\ SyntaxMemoIsMalformed /\ AnswerIsLastRun

LEMMA CacheInitOk == CacheInit => CacheInv
<1> SUFFICES ASSUME CacheInit PROVE CacheInv
  OBVIOUS
<1>1. \A b \in Bodies : gated[b] = <<>> /\ Runs(b) = 0 /\ ~Known(b)
  BY DEF CacheInit, Runs, Known
<1>2. MemosRecordTheRuns
  BY <1>1 DEF MemosRecordTheRuns
<1> QED
  BY <1>2 DEF CacheInit, CacheInv, SyntaxMemoIsMalformed, AnswerIsLastRun, IsAnswer

LEMMA BodiesHold ==
    ASSUME NEW st \in DOMAIN BodyOf
    PROVE  BodyOf[st] \in Bodies
BY DEF Bodies

\* A run of the gates, whatever it comes to: the runs before it threw, or a memo would
\* have answered; it is the last one now; and the other bodies are as they were.
LEMMA GatesRunLast ==
    ASSUME CacheInv, NEW st \in Streams, NEW opts \in Options, EnterGates(st, opts)
    PROVE  /\ st \in DOMAIN BodyOf /\ BodyOf[st] \in Bodies /\ ~Known(BodyOf[st])
           /\ <<st, opts>> \in Calls
           /\ gated' \in [Bodies -> Seq(Calls)]
           /\ Runs(BodyOf[st])' = Runs(BodyOf[st]) + 1
           /\ gated'[BodyOf[st]][Runs(BodyOf[st])'] = <<st, opts>>
           /\ \A i \in 1 .. Runs(BodyOf[st])' - 1 : gated'[BodyOf[st]][i] \in Throws
           /\ \A a \in Bodies \ {BodyOf[st]} : gated'[a] = gated[a]
<1> DEFINE b == BodyOf[st]
           c == <<st, opts>>
<1>1. /\ st \in DOMAIN BodyOf /\ b \in Bodies /\ ~Known(b)
      /\ gated' = [gated EXCEPT ![b] = Append(@, c)]
  BY BodiesHold DEF EnterGates, IsValid
<1>2. c \in Calls /\ gated[b] \in Seq(Calls) /\ gated'[b] = Append(gated[b], c)
  BY <1>1 DEF CacheInv, Calls
<1>3. /\ Runs(b) \in Nat /\ Runs(b)' = Runs(b) + 1
      /\ gated'[b][Runs(b) + 1] = c
      /\ \A i \in 1 .. Runs(b) : gated'[b][i] = gated[b][i]
  BY <1>2 DEF Runs
<1>4. \A i \in 1 .. Runs(b) : gated[b][i] \in Throws
  <2>1. CASE Runs(b) = 0
    BY <2>1
  <2>2. CASE Runs(b) # 0
    <3> DEFINE d == gated[b][Runs(b)]
    <3>1. RemembersRun(b, d) /\ \A i \in 1 .. Runs(b) - 1 : gated[b][i] \in Throws
      BY <1>1, <2>2 DEF CacheInv, MemosRecordTheRuns
    <3>2. d \in Calls
      BY <1>2, <1>3, <2>2 DEF Runs
    <3>3. d \in Throws
      BY <1>1, <3>1, <3>2, CacheAssumption DEF RemembersRun, Known, Outcome
    <3> QED
      BY <1>3, <3>1, <3>3
  <2> QED
    BY <2>1, <2>2
<1>5. \A i \in 1 .. Runs(b)' - 1 : gated'[b][i] \in Throws
  BY <1>3, <1>4
<1>6. gated' \in [Bodies -> Seq(Calls)] /\ \A a \in Bodies \ {b} : gated'[a] = gated[a]
  BY <1>1, <1>2 DEF CacheInv
<1> QED
  BY <1>1, <1>2, <1>3, <1>5, <1>6

LEMMA GatesAnswer ==
    ASSUME CacheInv, NEW st \in Streams, NEW opts \in Options,
           RunGates(st, opts) \/ GatesThrow(st, opts)
    PROVE  CacheInv'
<1> DEFINE b == BodyOf[st]
           c == <<st, opts>>
<1> EnterGates(st, opts)
  BY DEF RunGates, GatesThrow
<1>1. /\ st \in DOMAIN BodyOf /\ b \in Bodies /\ ~Known(b) /\ c \in Calls
      /\ gated' \in [Bodies -> Seq(Calls)]
      /\ Runs(b)' # 0 /\ gated'[b][Runs(b)'] = c
      /\ \A i \in 1 .. Runs(b)' - 1 : gated'[b][i] \in Throws
      /\ \A a \in Bodies \ {b} : gated'[a] = gated[a]
  <2>1. Runs(b) \in Nat
    BY GatesRunLast DEF CacheInv, Runs
  <2> QED
    BY <2>1, GatesRunLast
<1>2. /\ store' \in [Bodies -> Calls \cup {NoCall}]
      /\ rejectsByHash' \in [Bodies -> Calls \cup {NoCall}]
  BY <1>1 DEF CacheInv, RunGates, GatesThrow
<1>3. RemembersRun(b, c)'
  BY <1>1 DEF CacheInv, RunGates, GatesThrow, RemembersRun, Outcome, Known
<1>4. \A a \in Bodies \ {b} : store'[a] = store[a] /\ rejectsByHash'[a] = rejectsByHash[a]
  BY <1>1 DEF CacheInv, RunGates, GatesThrow
<1>5. MemosRecordTheRuns'
  <2>1. ASSUME NEW a \in Bodies
        PROVE  /\ \A i \in 1 .. Runs(a)' - 1 : gated'[a][i] \in Throws
               /\ IF Runs(a)' = 0 THEN ~Known(a)'
                                  ELSE RemembersRun(a, gated[a][Runs(a)])'
    <3>1. CASE a = b
      BY <1>1, <1>3, <3>1 DEF Runs, RemembersRun
    <3>2. CASE a # b
      BY <1>1, <1>4, <3>2 DEF CacheInv, MemosRecordTheRuns, RemembersRun, Runs, Known
    <3> QED
      BY <3>1, <3>2
  <2> QED
    BY <2>1 DEF MemosRecordTheRuns
<1>6. SyntaxMemoIsMalformed'
  BY DEF CacheInv, SyntaxMemoIsMalformed, RunGates, GatesThrow
<1>7. AnswerIsLastRun'
  <2>1. /\ answer'.stream = st /\ answer'.opts = opts /\ answer'.by = c
        /\ answer'.status = Outcome(c)
    BY DEF RunGates, GatesThrow, Answers, Outcome
  <2> QED
    BY <1>1, <2>1 DEF AnswerIsLastRun, Asked, IsAnswer, Runs, Outcome
<1> QED
  BY <1>1, <1>2, <1>5, <1>6, <1>7 DEF CacheInv

LEMMA MemosAnswer ==
    ASSUME CacheInv, NEW st \in Streams, NEW opts \in Options,
           AnswerMalformed(st, opts) \/ AnswerFromMemo(st, opts)
    PROVE  CacheInv'
<1>1. UNCHANGED <<store, rejectsByHash, gated>>
  BY DEF AnswerMalformed, AnswerFromMemo
<1>2. MemosRecordTheRuns'
  BY <1>1 DEF CacheInv, MemosRecordTheRuns, RemembersRun, Runs, Known
<1>3. SyntaxMemoIsMalformed'
  BY DEF CacheInv, SyntaxMemoIsMalformed, AnswerMalformed, AnswerFromMemo, IsValid
<1>4. CASE AnswerMalformed(st, opts)
  <2>1. /\ st \notin DOMAIN BodyOf
        /\ answer'.stream = st /\ answer'.status = "rejected"
    BY <1>4 DEF AnswerMalformed, Answers, CacheInv, SyntaxMemoIsMalformed
  <2>2. AnswerIsLastRun'
    BY <2>1 DEF AnswerIsLastRun, IsAnswer
  <2> QED
    BY <1>1, <1>2, <1>3, <2>2 DEF CacheInv
<1>5. CASE AnswerFromMemo(st, opts)
  <2> DEFINE b == BodyOf[st]
             c == gated[b][Runs(b)]
  <2>1. st \in DOMAIN BodyOf /\ b \in Bodies /\ Known(b)
    BY <1>5, BodiesHold DEF AnswerFromMemo, IsValid
  <2>2. Runs(b) # 0 /\ RemembersRun(b, c)
    BY <2>1 DEF CacheInv, MemosRecordTheRuns
  <2>3. c # NoCall
    <3>1. gated[b] \in Seq(Calls) /\ Runs(b) \in 1 .. Len(gated[b])
      BY <2>1, <2>2 DEF CacheInv, Runs
    <3>2. c \in Calls
      BY <3>1
    <3> QED
      BY <3>2, CacheAssumption
  <2>4. /\ answer'.stream = st /\ answer'.by = c
        /\ answer'.status = Outcome(c) /\ answer'.status # "threw"
    BY <1>5, <2>1, <2>2, <2>3 DEF AnswerFromMemo, Answers, RemembersRun, Known, Outcome
  <2>5. AnswerIsLastRun'
    BY <1>1, <2>1, <2>2, <2>4 DEF AnswerIsLastRun, Asked, IsAnswer, Runs
  <2> QED
    BY <1>1, <1>2, <1>3, <2>5 DEF CacheInv
<1> QED
  BY <1>4, <1>5

LEMMA CacheSteps == CacheInv /\ [CacheNext]_cacheVars => CacheInv'
<1> SUFFICES ASSUME CacheInv, [CacheNext]_cacheVars PROVE CacheInv'
  OBVIOUS
<1>1. CASE Clear
  <2>1. CacheInit'
    BY <1>1 DEF Clear, CacheInit
  <2>2. \A b \in Bodies : Runs(b)' = 0 /\ ~Known(b)'
    BY <2>1 DEF CacheInit, Runs, Known
  <2>3. MemosRecordTheRuns'
    BY <2>2 DEF MemosRecordTheRuns
  <2> QED
    BY <2>1, <2>3 DEF CacheInit, CacheInv, SyntaxMemoIsMalformed, AnswerIsLastRun, IsAnswer
<1>2. CASE \E st \in Streams, opts \in Options : GetOrCompile(st, opts)
  BY <1>2, GatesAnswer, MemosAnswer DEF GetOrCompile
<1>3. CASE UNCHANGED cacheVars
  BY <1>3 DEF cacheVars, CacheInv, MemosRecordTheRuns, RemembersRun, SyntaxMemoIsMalformed,
      AnswerIsLastRun, IsAnswer, Asked, Runs, Known
<1> QED
  BY <1>1, <1>2, <1>3 DEF CacheNext

\* Between two clears of KernelCache the gates of getOrCompile come to a verdict about a
\* body at most once, after any number of runs that threw and left no memo; every call
\* for the body that returns, in whatever stream and under whatever options, is answered
\* with that one verdict and the kernel it was reached for.
THEOREM VerdictsAreShared == CacheSpec => []FirstVerdictStands
<1>1. CacheInv => FirstVerdictStands
  <2> SUFFICES ASSUME CacheInv PROVE FirstVerdictStands
    OBVIOUS
  <2>1. ASSUME IsAnswer, answer.stream \in DOMAIN BodyOf PROVE gated[Asked] # <<>>
    BY <2>1 DEF CacheInv, AnswerIsLastRun, Runs
  <2> QED
    BY <2>1 DEF CacheInv, MemosRecordTheRuns, AnswerIsLastRun, Runs, FirstVerdictStands
<1> QED
  BY <1>1, CacheInitOk, CacheSteps, PTL DEF CacheSpec

-------------------------------------------------------------------------------
(***************************************************************************)
(* The blocks that are played and the quality they are rendered in, for every *)
(* size of blocks and calls, ring, window, capacity of the history and ramp.  *)
(*                                                                         *)
(* The ring holds later blocks than the frame view, in order (BlocksInOrder),  *)
(* and the frame view goes on from what was played last (PlayedSoFar): so      *)
(* PlaysInOrder.  Every sample is of a consumed block or missed (Accounted).   *)
(* The marks of the history are no further apart than Spacing (MarksAreDense)  *)
(* and their counts tell what was missed since (MarksAreTrue), so the chosen   *)
(* mark is at most the window and a gap old and a stall that is over is out of  *)
(* the rate.  A tick that is told of no missed sample asks for full quality    *)
(* and moves by a ramp towards it (RampRuns).                                *)
(***************************************************************************)

Marks == Seq([at : Nat, missed : Nat])

BlocksTyped ==
    /\ blocks \in Seq(1 .. MaxBlocks) /\ Len(blocks) <= RingBlocks
    /\ nextBlockIndex \in 1 .. MaxBlocks + 1 /\ block \in 0 .. MaxBlocks
    /\ cursor \in 0 .. BlockSize /\ hasFrame \in BOOLEAN
    /\ asked \in Counts \cup {0} /\ left \in 0 .. asked
    /\ emitted \in Nat /\ underflow \in Nat /\ framesConsumed \in Nat /\ lastPull \in Nat
    /\ emitted + left <= MaxEmitted /\ (left > 0 => emitted + asked <= MaxEmitted)
    /\ marks \in Marks /\ Len(marks) <= MarkCapacity
    /\ played \in [block : 0 .. MaxBlocks, sample : 0 .. BlockSize]
    /\ hole \in Nat /\ lastHole \in Nat /\ lastPlayed \in Nat

\* Samples of this life of the consumer, those of the call under way included.
Progress == IF left > 0 THEN emitted + Written ELSE emitted

\* The ring holds later blocks than the frame view, in order.
BlocksInOrder ==
    /\ block < nextBlockIndex /\ \A i \in 1 .. Len(blocks) : blocks[i] < nextBlockIndex
    /\ \A i \in 1 .. Len(blocks) : block < blocks[i]
    /\ \A i, j \in 1 .. Len(blocks) : i < j => blocks[i] < blocks[j]

\* What was played last is what the block in the frame view goes on from.
PlayedSoFar ==
    /\ played.block <= block
    /\ Exhausted => played.sample = BlockSize
    /\ ~Exhausted => \/ played.block = block /\ played.sample = cursor
                     \/ played.block < block /\ played.sample = BlockSize /\ cursor = 0

\* Every sample so far was of a consumed block or missed.
Accounted ==
    /\ hasFrame <=> framesConsumed > 0
    /\ ~hasFrame => cursor = 0 /\ lastPull = 0
    /\ Progress = (framesConsumed * BlockSize) - Remaining + underflow
    /\ hasFrame => IF Exhausted THEN Progress = lastPull + cursor + hole
                   ELSE Progress = lastPull + cursor /\ (left = 0 => hole = 0)
    /\ hole <= underflow /\ lastHole <= emitted /\ underflow <= emitted

\* The marks are close to one another and to what was emitted last ...
MarksAreDense ==
    /\ \A i \in 1 .. Len(marks) : marks[i].at <= emitted /\ marks[i].missed <= underflow
    /\ \A i \in 1 .. Len(marks) - 1 :
           marks[i].at < marks[i + 1].at /\ marks[i + 1].at <= marks[i].at + Spacing
    /\ Len(marks) = 0 => emitted = 0 /\ underflow = 0
    /\ emitted = 0 => Len(marks) = 0
    /\ Len(marks) > 0 => emitted - marks[Len(marks)].at < MarkStride
    /\ Len(marks) = 1 => marks[1].at <= Largest

\* ... and say what was missed since.
MarksAreTrue ==
    /\ lastPlayed <= Progress
    /\ left > 0 => (left = asked /\ lastPlayed <= emitted) \/ lastPlayed > emitted
    /\ lastHole = 0 => underflow = 0
    /\ \A i \in 1 .. Len(marks) :
           /\ marks[i].at >= lastHole => marks[i].missed = underflow
           /\ marks[i].at >= lastPlayed => underflow - marks[i].missed = emitted - marks[i].at

\* The ramp has come as far as the calm ticks allow.
RampRuns == quality >= Full - Ramp * (Glide - calm)

BlocksInv == BlocksTyped /\ BlocksInOrder /\ PlayedSoFar /\ Accounted

LEMMA BlockConstants ==
    /\ BlockSize \in Nat /\ BlockSize >= 1 /\ Counts \subseteq Nat /\ 0 \notin Counts
    /\ RingBlocks \in Nat /\ Window \in Nat /\ Window >= 1 /\ MarkCapacity \in Nat
    /\ MarkCapacity >= 2 /\ MaxEmitted \in Nat /\ MaxBlocks \in Nat
    /\ Largest \in Counts /\ \A c \in Counts : c <= Largest
<1>1. \E n \in Counts : \A c \in Counts : c <= n
  BY BlockAssumption
<1>2. Largest \in Counts /\ \A c \in Counts : c <= Largest
  BY <1>1 DEF Largest
<1> QED
  BY <1>2, BlockAssumption

LEMMA SpacingIs == MarkStride \in Nat /\ MarkStride >= 1 /\ Spacing \in Nat
                   /\ Spacing = MarkStride + Largest - 1
<1>1. MarkCapacity - 1 \in Nat \ {0} /\ Window \in Nat /\ Largest \in Nat
  BY BlockConstants
<1>2. Window \div (MarkCapacity - 1) \in Nat
  <2>1. \A w \in Nat, d \in Nat \ {0} : w \div d \in Nat
    OBVIOUS
  <2> QED
    BY <1>1, <2>1
<1>3. MarkStride \in Nat /\ MarkStride >= 1
  BY <1>2 DEF MarkStride
<1> QED
  BY <1>1, <1>3 DEF Spacing

LEMMA BlocksStart == BlocksInit => BlocksInv
<1> SUFFICES ASSUME BlocksInit PROVE BlocksInv
  OBVIOUS
<1> USE BlockConstants DEF BlocksInit, Nothing
<1>1. BlocksTyped
  <2>1. marks \in Marks /\ Len(marks) = 0 /\ blocks \in Seq(1 .. MaxBlocks) /\ Len(blocks) = 0
    BY DEF Marks
  <2>2. played \in [block : 0 .. MaxBlocks, sample : 0 .. BlockSize]
    OBVIOUS
  <2>3. hasFrame \in BOOLEAN
    OBVIOUS
  <2>4. /\ nextBlockIndex \in 1 .. MaxBlocks + 1 /\ block \in 0 .. MaxBlocks
        /\ cursor \in 0 .. BlockSize /\ asked \in Counts \cup {0} /\ left \in 0 .. asked
    OBVIOUS
  <2> QED
    BY <2>1, <2>2, <2>3, <2>4 DEF BlocksTyped
<1>2. BlocksInOrder
  BY DEF BlocksInOrder
<1>3. PlayedSoFar
  BY DEF PlayedSoFar, Exhausted
<1>4. Accounted
  BY DEF Accounted, Progress, Remaining, Exhausted
<1> QED
  BY <1>1, <1>2, <1>3, <1>4 DEF BlocksInv

LEMMA BlocksElements ==
    ASSUME BlocksTyped
    PROVE  /\ blocks \in Seq(1 .. MaxBlocks) /\ Len(blocks) \in Nat
           /\ \A i \in 1 .. Len(blocks) : blocks[i] \in 1 .. MaxBlocks
<1>1. blocks \in Seq(1 .. MaxBlocks)
  BY DEF BlocksTyped
<1> QED
  BY <1>1, ElementOfSeq, LenProperties

LEMMA ProduceKeeps == BlocksInv /\ Produce => BlocksInv'
<1> SUFFICES ASSUME BlocksInv, Produce PROVE BlocksInv'
  OBVIOUS
<1> USE DEF BlocksInv
<1>1. UNCHANGED <<block, cursor, hasFrame, asked, left, emitted, underflow, framesConsumed,
                  lastPull, marks, played, hole, lastHole, lastPlayed>>
  BY DEF Produce, telemetry, history
<1>2. /\ nextBlockIndex \in 1 .. MaxBlocks /\ nextBlockIndex' = nextBlockIndex + 1
      /\ Len(blocks) < RingBlocks
      /\ blocks' = Append(blocks, nextBlockIndex) \/ blocks' = blocks
  BY BlockConstants DEF Produce, BlocksTyped
<1>3. blocks \in Seq(1 .. MaxBlocks) /\ Len(blocks) \in Nat
      /\ \A i \in 1 .. Len(blocks) : blocks[i] \in 1 .. MaxBlocks
  BY BlocksElements
<1>4. /\ blocks' \in Seq(1 .. MaxBlocks)
      /\ \A i \in 1 .. Len(blocks') : \/ i \in 1 .. Len(blocks) /\ blocks'[i] = blocks[i]
                                      \/ i = Len(blocks) + 1 /\ blocks'[i] = nextBlockIndex
      /\ Len(blocks') <= RingBlocks
  <2>1. CASE blocks' = blocks
    BY <1>2, <1>3, <2>1, BlockConstants
  <2>2. CASE blocks' = Append(blocks, nextBlockIndex)
    <3>1. blocks' \in Seq(1 .. MaxBlocks) /\ Len(blocks') = Len(blocks) + 1
      BY <1>2, <1>3, <2>2
    <3>2. /\ \A i \in 1 .. Len(blocks) : blocks'[i] = blocks[i]
          /\ blocks'[Len(blocks) + 1] = nextBlockIndex
      BY <1>2, <1>3, <2>2
    <3>3. Len(blocks') <= RingBlocks
      BY <1>2, <1>3, <3>1, BlockConstants
    <3>4. \A i \in 1 .. Len(blocks') : i \in 1 .. Len(blocks) \/ i = Len(blocks) + 1
      BY <1>3, <3>1
    <3> QED
      BY <3>1, <3>2, <3>3, <3>4
  <2> QED
    BY <1>2, <2>1, <2>2
<1>5. BlocksTyped'
  BY <1>1, <1>2, <1>4, BlockConstants DEF BlocksTyped
<1>6. BlocksInOrder'
  <2>1. block \in Nat /\ nextBlockIndex \in Nat
    BY <1>2, BlockConstants DEF BlocksTyped
  <2>2. /\ block < nextBlockIndex /\ \A i \in 1 .. Len(blocks) : blocks[i] < nextBlockIndex
        /\ \A i \in 1 .. Len(blocks) : block < blocks[i] /\ blocks[i] \in Nat
        /\ \A i, j \in 1 .. Len(blocks) : i < j => blocks[i] < blocks[j]
    BY <1>3 DEF BlocksInOrder
  <2>3. \A i \in 1 .. Len(blocks') : block < blocks'[i] /\ blocks'[i] < nextBlockIndex + 1
    <3>1. TAKE i \in 1 .. Len(blocks')
    <3>2. CASE i \in 1 .. Len(blocks) /\ blocks'[i] = blocks[i]
      <4>1. blocks[i] \in Nat /\ block < blocks[i] /\ blocks[i] < nextBlockIndex
        BY <2>2, <3>2
      <4> QED
        BY <2>1, <3>2, <4>1
    <3>3. CASE blocks'[i] = nextBlockIndex
      BY <2>1, <2>2, <3>3
    <3> QED
      BY <1>4, <3>2, <3>3
  <2>4. \A i, j \in 1 .. Len(blocks') : i < j => blocks'[i] < blocks'[j]
    <3>1. TAKE i, j \in 1 .. Len(blocks')
    <3>2. HAVE i < j
    <3>3. i \in 1 .. Len(blocks) /\ blocks'[i] = blocks[i]
      <4>1. Len(blocks') <= Len(blocks) + 1
        BY <1>2, <1>3
      <4> QED
        BY <1>3, <1>4, <3>2, <4>1
    <3> QED
      BY <1>4, <2>2, <3>2, <3>3
  <2>5. \A i \in 1 .. Len(blocks') : block < blocks'[i]
    BY <2>3
  <2>6. \A i \in 1 .. Len(blocks') : blocks'[i] < nextBlockIndex'
    BY <1>2, <2>3
  <2> QED
    BY <1>1, <1>2, <2>1, <2>2, <2>4, <2>5, <2>6 DEF BlocksInOrder
<1>7. PlayedSoFar'
  BY <1>1 DEF PlayedSoFar, Exhausted
<1>8. Accounted'
  BY <1>1 DEF Accounted, Progress, Remaining, Exhausted, Written
<1> QED
  BY <1>5, <1>6, <1>7, <1>8

LEMMA CallKeeps == BlocksInv /\ Call => BlocksInv'
<1> SUFFICES ASSUME BlocksInv, Call PROVE BlocksInv'
  OBVIOUS
<1> USE DEF BlocksInv
<1>1. UNCHANGED <<blocks, nextBlockIndex, block, cursor, hasFrame, emitted, underflow,
                  framesConsumed, lastPull, marks, played, hole, lastHole, lastPlayed>>
  BY DEF Call, telemetry, history
<1>2. PICK n \in Counts : left = 0 /\ emitted + n <= MaxEmitted /\ asked' = n /\ left' = n
  BY DEF Call
<1>3. n \in Nat /\ n > 0 /\ emitted \in Nat
  BY <1>2, BlockConstants DEF BlocksTyped
<1>4. BlocksTyped'
  BY <1>1, <1>2, <1>3 DEF BlocksTyped
<1>5. BlocksInOrder' /\ PlayedSoFar'
  BY <1>1 DEF BlocksInOrder, PlayedSoFar, Exhausted
<1>6. Progress' = Progress
  BY <1>1, <1>2, <1>3 DEF Progress, Written
<1>7. Accounted'
  BY <1>1, <1>2, <1>3, <1>6 DEF Accounted, Remaining, Exhausted
<1> QED
  BY <1>4, <1>5, <1>7

LEMMA PullBlockKeeps == BlocksInv /\ PullBlock => BlocksInv'
<1> SUFFICES ASSUME BlocksInv, PullBlock PROVE BlocksInv'
  OBVIOUS
<1> USE DEF BlocksInv
<1>1. UNCHANGED <<nextBlockIndex, asked, left, emitted, underflow, marks, played, hole,
                  lastHole, lastPlayed>>
  BY DEF PullBlock, history
<1>2. blocks \in Seq(1 .. MaxBlocks) /\ Len(blocks) \in Nat
      /\ \A i \in 1 .. Len(blocks) : blocks[i] \in 1 .. MaxBlocks
  BY BlocksElements
<1>3. Len(blocks) >= 1 /\ block' = blocks[1] /\ blocks' = Tail(blocks)
  BY <1>2 DEF PullBlock
<1>4. /\ blocks' \in Seq(1 .. MaxBlocks) /\ Len(blocks') = Len(blocks) - 1
      /\ \A i \in 1 .. Len(blocks') : blocks'[i] = blocks[i + 1]
  BY <1>2, <1>3
<1>5. /\ left > 0 /\ cursor' = 0 /\ hasFrame' = TRUE /\ framesConsumed' = framesConsumed + 1
      /\ lastPull' = emitted + Written
  BY DEF PullBlock
<1>6. Written \in Nat
  BY BlockConstants DEF BlocksTyped, Written
<1>7. BlocksTyped'
  <2>1. Len(blocks') <= RingBlocks
    BY <1>2, <1>3, <1>4, BlockConstants DEF BlocksTyped
  <2>2. block' \in 0 .. MaxBlocks /\ lastPull' \in Nat /\ framesConsumed' \in Nat
        /\ cursor' \in 0 .. BlockSize
    BY <1>2, <1>3, <1>5, <1>6, BlockConstants DEF BlocksTyped
  <2> QED
    BY <1>1, <1>4, <1>5, <2>1, <2>2 DEF BlocksTyped
<1>8. BlocksInOrder' /\ block < block'
  BY <1>1, <1>2, <1>3, <1>4 DEF BlocksInOrder
<1>9. PlayedSoFar'
  <2>1. block \in Nat /\ block' \in Nat /\ played.block \in Nat
    BY <1>2, <1>3, BlockConstants DEF BlocksTyped
  <2>2. ~Exhausted' /\ Exhausted
    BY <1>5, BlockConstants DEF Exhausted, PullBlock
  <2> QED
    BY <1>1, <1>5, <1>8, <2>1, <2>2 DEF PlayedSoFar
<1>10. Accounted'
  <2>1. PICK b \in Nat, n \in Nat : b = BlockSize /\ n = framesConsumed
    BY BlockConstants DEF BlocksTyped
  <2>2. (n + 1) * b = n * b + b /\ n * b \in Nat
    OBVIOUS
  <2>3. Remaining = 0 /\ Remaining' = b /\ ~Exhausted'
    BY <1>5, <2>1, BlockConstants DEF Remaining, PullBlock, Exhausted, BlocksTyped
  <2>4. Progress' = Progress /\ Progress = lastPull'
    BY <1>1, <1>5 DEF Progress, Written
  <2>5. Progress \in Nat /\ underflow \in Nat
    BY <1>6 DEF Progress, BlocksTyped
  <2>6. Progress' = framesConsumed' * BlockSize - Remaining' + underflow'
    BY <1>1, <1>5, <2>1, <2>2, <2>3, <2>4, <2>5 DEF Accounted
  <2>7. framesConsumed' > 0
    BY <1>5, <2>1
  <2> QED
    BY <1>1, <1>5, <2>3, <2>4, <2>5, <2>6, <2>7 DEF Accounted
<1> QED
  BY <1>7, <1>8, <1>9, <1>10

\* What _noteEmitted does to the history of marks.
LEMMA NoteIs ==
    ASSUME BlocksTyped, left > 0, NEW missed \in Nat, NoteEmitted(missed)
    PROVE  /\ emitted' = emitted + asked /\ underflow' = underflow + missed
           /\ marks' \in Marks /\ Len(marks') <= MarkCapacity
<1>1. emitted' = emitted + asked /\ underflow' = underflow + missed
  BY DEF NoteEmitted
<1>2. marks \in Marks /\ Len(marks) \in Nat /\ Len(marks) <= MarkCapacity
  BY DEF BlocksTyped, Marks
<1>3. [at |-> emitted + asked, missed |-> underflow'] \in [at : Nat, missed : Nat]
  <2>1. emitted \in Nat /\ underflow \in Nat /\ asked \in Nat
    BY BlockConstants DEF BlocksTyped
  <2> QED
    BY <1>1, <2>1
<1> DEFINE kept == IF Len(marks) = MarkCapacity THEN Tail(marks) ELSE marks
           new == [at |-> emitted + asked, missed |-> underflow']
<1>4. kept \in Marks /\ Len(kept) < MarkCapacity /\ Len(kept) \in Nat
  <2>1. CASE Len(marks) = MarkCapacity
    BY <1>2, <2>1, BlockConstants DEF Marks
  <2>2. CASE Len(marks) # MarkCapacity
    BY <1>2, <2>2, BlockConstants DEF Marks
  <2> QED
    BY <2>1, <2>2
<1>5. marks' = Append(kept, new) \/ marks' = marks
  BY DEF NoteEmitted
<1> HIDE DEF kept, new
<1>6. Append(kept, new) \in Marks /\ Len(Append(kept, new)) = Len(kept) + 1
  BY <1>3, <1>4 DEF Marks, new
<1>7. Len(Append(kept, new)) <= MarkCapacity
  BY <1>4, <1>6, BlockConstants
<1>8. marks' \in Marks /\ Len(marks') <= MarkCapacity
  BY <1>2, <1>5, <1>6, <1>7
<1> QED
  BY <1>1, <1>8

LEMMA StarveKeeps == BlocksInv /\ Starve => BlocksInv'
<1> SUFFICES ASSUME BlocksInv, Starve PROVE BlocksInv'
  OBVIOUS
<1> USE DEF BlocksInv
<1>1. UNCHANGED <<blocks, nextBlockIndex, block, cursor, hasFrame, asked, framesConsumed,
                  lastPull, played, lastPlayed>>
  BY DEF Starve
<1>2. left > 0 /\ Exhausted /\ left' = 0 /\ hole' = hole + left /\ lastHole' = emitted'
  BY DEF Starve
<1>3. asked \in Nat /\ left \in Nat /\ left <= asked /\ emitted \in Nat /\ underflow \in Nat
      /\ hole \in Nat /\ emitted + asked <= MaxEmitted
  BY <1>2, BlockConstants DEF BlocksTyped
<1>4. /\ emitted' = emitted + asked /\ underflow' = underflow + left
      /\ marks' \in Marks /\ Len(marks') <= MarkCapacity
  BY <1>2, <1>3, NoteIs DEF Starve
<1>5. BlocksTyped'
  <2>1. emitted' \in Nat /\ underflow' \in Nat /\ hole' \in Nat /\ lastHole' \in Nat
        /\ left' \in 0 .. asked' /\ emitted' + left' <= MaxEmitted /\ ~(left' > 0)
    BY <1>1, <1>2, <1>3, <1>4, BlockConstants
  <2> QED
    BY <1>1, <1>4, <2>1 DEF BlocksTyped
<1>6. BlocksInOrder' /\ PlayedSoFar'
  BY <1>1 DEF BlocksInOrder, PlayedSoFar, Exhausted
<1>7. Accounted'
  <2>1. Progress = emitted + asked - left /\ Progress' = emitted + asked
    BY <1>2, <1>3, <1>4 DEF Progress, Written
  <2>2. Remaining' = Remaining /\ framesConsumed' = framesConsumed /\ Exhausted' = Exhausted
    BY <1>1 DEF Remaining, Exhausted
  <2>3. PICK rest \in Int : rest = framesConsumed * BlockSize - Remaining
    <3>1. Remaining \in Int /\ framesConsumed \in Int /\ BlockSize \in Int
      BY BlockConstants DEF Remaining, BlocksTyped
    <3>2. \A m, n, d \in Int : m * n - d \in Int
      OBVIOUS
    <3> QED
      BY <3>1, <3>2
  <2>4. Progress' = framesConsumed' * BlockSize - Remaining' + underflow'
    BY <1>3, <1>4, <2>1, <2>2, <2>3 DEF Accounted
  <2>5. hasFrame' => Progress' = lastPull' + cursor' + hole'
    BY <1>1, <1>2, <1>3, <2>1, BlockConstants DEF Accounted, BlocksTyped
  <2>6. hole' <= underflow' /\ lastHole' <= emitted' /\ underflow' <= emitted'
    BY <1>2, <1>3, <1>4 DEF Accounted
  <2> QED
    BY <1>1, <1>2, <2>2, <2>4, <2>5, <2>6 DEF Accounted
<1> QED
  BY <1>5, <1>6, <1>7

\* How far a copy from the block goes.
LEMMA TakeIs ==
    ASSUME BlocksTyped, left > 0, ~Exhausted
    PROVE  /\ Take \in Nat /\ Take >= 1 /\ Take <= left /\ cursor + Take <= BlockSize
           /\ left \in Nat /\ asked \in Nat /\ left <= asked /\ cursor \in Nat /\ emitted \in Nat
           /\ underflow \in Nat /\ emitted + asked <= MaxEmitted
           /\ hasFrame /\ cursor < BlockSize
BY BlockConstants DEF Take, Least, Exhausted, BlocksTyped

LEMMA PlayKeeps == BlocksInv /\ Play => BlocksInv'
<1> SUFFICES ASSUME BlocksInv, Play PROVE BlocksInv'
  OBVIOUS
<1> USE DEF BlocksInv
<1>1. UNCHANGED <<blocks, nextBlockIndex, block, hasFrame, asked, framesConsumed, lastPull,
                  lastHole>>
  BY DEF Play
<1>2. /\ left > 0 /\ ~Exhausted /\ cursor' = cursor + Take /\ left' = left - Take
      /\ played' = [block |-> block, sample |-> cursor'] /\ hole' = 0
      /\ lastPlayed' = emitted + Written + Take
      /\ IF left' = 0 THEN NoteEmitted(0) ELSE UNCHANGED <<emitted, underflow, marks>>
  BY DEF Play
<1>3. /\ Take \in Nat /\ Take >= 1 /\ Take <= left /\ cursor + Take <= BlockSize
      /\ left \in Nat /\ asked \in Nat /\ left <= asked /\ cursor \in Nat /\ emitted \in Nat
      /\ underflow \in Nat /\ emitted + asked <= MaxEmitted
      /\ hasFrame /\ cursor < BlockSize
  BY <1>2, TakeIs
<1>4. /\ emitted' = (IF left' = 0 THEN emitted + asked ELSE emitted) /\ underflow' = underflow
      /\ marks' \in Marks /\ Len(marks') <= MarkCapacity
  <2>1. CASE left' = 0
    BY <1>2, <1>3, <2>1, NoteIs
  <2>2. CASE left' # 0
    BY <1>2, <2>2 DEF BlocksTyped
  <2> QED
    BY <2>1, <2>2
<1>5. BlocksTyped'
  <2>1. emitted' \in Nat /\ underflow' \in Nat /\ hole' \in Nat /\ lastPlayed' \in Nat
        /\ left' \in 0 .. asked /\ emitted' + left' <= MaxEmitted
        /\ (left' > 0 => emitted' + asked <= MaxEmitted) /\ cursor' \in 0 .. BlockSize
    BY <1>2, <1>3, <1>4, BlockConstants DEF Written
  <2>2. played' \in [block : 0 .. MaxBlocks, sample : 0 .. BlockSize]
    <3>1. block \in 0 .. MaxBlocks
      BY DEF BlocksTyped
    <3> QED
      BY <1>2, <2>1, <3>1
  <2> QED
    BY <1>1, <1>4, <2>1, <2>2 DEF BlocksTyped
<1>6. BlocksInOrder'
  BY <1>1 DEF BlocksInOrder
<1>7. PlayedSoFar'
  <2>1. played'.block = block /\ played'.sample = cursor' /\ block' = block
    BY <1>1, <1>2
  <2>2. block \in Nat /\ cursor' \in Nat /\ cursor' <= BlockSize
    BY <1>2, <1>3, BlockConstants DEF BlocksTyped
  <2>3. Exhausted' <=> cursor' >= BlockSize
    BY <1>1, <1>3 DEF Exhausted
  <2> QED
    BY <2>1, <2>2, <2>3, BlockConstants DEF PlayedSoFar
<1>8. Accounted'
  <2>1. Progress' = Progress + Take /\ Progress \in Nat
    BY <1>1, <1>2, <1>3, <1>4 DEF Progress, Written
  <2>2. Remaining' = Remaining - Take /\ Remaining \in Nat
    BY <1>1, <1>2, <1>3, BlockConstants DEF Remaining
  <2>3. PICK all \in Int : all = framesConsumed * BlockSize
    BY BlockConstants DEF BlocksTyped
  <2>4. Progress' = framesConsumed' * BlockSize - Remaining' + underflow'
    <3>1. Progress = all - Remaining + underflow
      BY <2>3 DEF Accounted
    <3>2. Progress' = all - Remaining' + underflow
      BY <1>3, <2>1, <2>2, <3>1
    <3>3. framesConsumed' * BlockSize = all /\ underflow' = underflow
      BY <1>1, <1>4, <2>3
    <3> QED
      BY <3>2, <3>3
  <2>5. Progress' = lastPull' + cursor'
    BY <1>1, <1>2, <1>3, <2>1 DEF Accounted, BlocksTyped
  <2>6. lastHole' <= emitted' /\ underflow' <= emitted' /\ hole' <= underflow'
    <3>1. hole <= underflow /\ lastHole <= emitted /\ underflow <= emitted
          /\ hole \in Nat /\ lastHole \in Nat
      BY DEF Accounted, BlocksTyped
    <3>2. emitted' >= emitted /\ emitted' \in Nat
      BY <1>3, <1>4
    <3> QED
      BY <1>1, <1>2, <1>3, <1>4, <3>1, <3>2
  <2>7. Progress' = lastPull' + cursor' + hole'
    BY <1>1, <1>2, <1>3, <2>5 DEF BlocksTyped
  <2> QED
    BY <1>1, <1>2, <1>3, <2>4, <2>5, <2>6, <2>7 DEF Accounted
<1> QED
  BY <1>5, <1>6, <1>7, <1>8

LEMMA ResetKeeps == BlocksInv /\ ResetConsumer => BlocksInv'
<1> SUFFICES ASSUME BlocksInv, ResetConsumer PROVE BlocksInv'
  OBVIOUS
<1> USE DEF BlocksInv
<1>1. UNCHANGED <<blocks, nextBlockIndex, block, asked, left>>
  BY DEF ResetConsumer
<1>2. /\ left = 0 /\ cursor' = 0 /\ hasFrame' = FALSE
      /\ emitted' = 0 /\ underflow' = 0 /\ framesConsumed' = 0 /\ lastPull' = 0
      /\ marks' = <<>> /\ played' = [played EXCEPT !.sample = BlockSize]
      /\ hole' = 0 /\ lastHole' = 0 /\ lastPlayed' = 0
  BY DEF ResetConsumer
<1>3. played' \in [block : 0 .. MaxBlocks, sample : 0 .. BlockSize]
      /\ played'.block = played.block /\ played'.sample = BlockSize
  <2>1. played \in [block : 0 .. MaxBlocks, sample : 0 .. BlockSize]
    BY DEF BlocksTyped
  <2> QED
    BY <1>2, <2>1, BlockConstants
<1>4. BlocksTyped'
  <2>1. marks' \in Marks /\ Len(marks') = 0
    BY <1>2 DEF Marks
  <2>2. hasFrame' \in BOOLEAN
    BY <1>2
  <2>3. /\ cursor' \in 0 .. BlockSize /\ emitted' \in Nat /\ underflow' \in Nat
        /\ framesConsumed' \in Nat /\ lastPull' \in Nat /\ hole' \in Nat
        /\ lastHole' \in Nat /\ lastPlayed' \in Nat /\ emitted' + left' <= MaxEmitted
        /\ ~(left' > 0) /\ Len(marks') <= MarkCapacity
    BY <1>1, <1>2, <2>1, BlockConstants
  <2> QED
    BY <1>1, <1>3, <2>1, <2>2, <2>3 DEF BlocksTyped
<1>5. BlocksInOrder'
  BY <1>1 DEF BlocksInOrder
<1>6. PlayedSoFar'
  BY <1>1, <1>2, <1>3 DEF PlayedSoFar, Exhausted
<1>7. Accounted'
  BY <1>1, <1>2, BlockConstants DEF Accounted, Progress, Remaining, Exhausted
<1> QED
  BY <1>4, <1>5, <1>6, <1>7

\* The block in the frame view, the ring and the counters stay in step.
LEMMA BlocksStep == BlocksInv /\ [BlocksNext]_blockVars => BlocksInv'
<1> SUFFICES ASSUME BlocksInv, [BlocksNext]_blockVars PROVE BlocksInv'
  OBVIOUS
<1>1. CASE UNCHANGED blockVars
  BY <1>1 DEF blockVars, BlocksInv, BlocksTyped, BlocksInOrder, PlayedSoFar, Accounted,
     Progress, Written, Remaining, Exhausted
<1>2. CASE BlocksNext
  BY <1>2, ProduceKeeps, CallKeeps, PullBlockKeeps, StarveKeeps, PlayKeeps, ResetKeeps
     DEF BlocksNext, Render
<1> QED
  BY <1>1, <1>2

\* A copy goes on where the last one ended.
LEMMA PlayGoesOn ==
    ASSUME BlocksInv, [BlocksNext]_blockVars, left' < left, played' # played
    PROVE  LET first == played'.sample - (left - left')
           IN  IF played'.block = played.block THEN first = played.sample
               ELSE first = 0 /\ played.sample = BlockSize /\ played'.block > played.block
<1> USE DEF BlocksInv
<1>1. left \in Nat
  BY BlockConstants DEF BlocksTyped
<1>2. Play
  <2>1. CASE UNCHANGED blockVars
    BY <1>1, <2>1 DEF blockVars
  <2>2. CASE Produce \/ PullBlock \/ Starve
    BY <2>2 DEF Produce, PullBlock, Starve, history
  <2>3. CASE Call
    BY <2>3 DEF Call, history
  <2>4. CASE ResetConsumer
    BY <1>1, <2>4 DEF ResetConsumer
  <2> QED
    BY <2>1, <2>2, <2>3, <2>4 DEF BlocksNext, Render
<1>3. /\ Take \in Nat /\ Take >= 1 /\ Take <= left /\ cursor \in Nat
      /\ left > 0 /\ ~Exhausted
  BY <1>2, TakeIs DEF Play
<1>4. /\ left' = left - Take /\ cursor' = cursor + Take
      /\ played'.block = block /\ played'.sample = cursor + Take
  BY <1>2 DEF Play
<1>5. played'.sample - (left - left') = cursor
  BY <1>1, <1>3, <1>4
<1>6. played.block \in Nat /\ block \in Nat
  BY BlockConstants DEF BlocksTyped
<1>7. \/ played.block = block /\ played.sample = cursor
      \/ played.block < block /\ played.sample = BlockSize /\ cursor = 0
  BY <1>3 DEF PlayedSoFar
<1> QED
  BY <1>4, <1>5, <1>6, <1>7

-------------------------------------------------------------------------------
(* The history of what was missed *)

MarksInv == MarksAreDense /\ MarksAreTrue

\* The marks after _noteEmitted: one more if it is due, after the oldest had to go.
LEMMA NoteMarks ==
    ASSUME BlocksTyped, left > 0, NEW missed \in Nat, NoteEmitted(missed)
    PROVE  LET now == emitted + asked IN
           \/ marks' = marks /\ marks # <<>> /\ now - marks[Len(marks)].at < MarkStride
           \/ \E d \in {0, 1} :
                 /\ Len(marks') = Len(marks) - d + 1
                 /\ \A i \in 1 .. Len(marks) - d : marks'[i] = marks[i + d]
                 /\ marks'[Len(marks')] = [at |-> now, missed |-> underflow']
                 /\ d = 1 => Len(marks) >= 2
<1> DEFINE now == emitted + asked
           new == [at |-> now, missed |-> underflow']
           kept == IF Len(marks) = MarkCapacity THEN Tail(marks) ELSE marks
<1>1. marks \in Marks /\ Len(marks) \in Nat /\ Len(marks) <= MarkCapacity
      /\ emitted \in Nat /\ asked \in Nat /\ underflow \in Nat
  BY BlockConstants DEF BlocksTyped, Marks
<1>2. marks' = IF MarkDue(now) THEN Append(kept, new) ELSE marks
  BY DEF NoteEmitted
<1>3. new \in [at : Nat, missed : Nat]
  BY <1>1 DEF NoteEmitted
<1>4. CASE ~MarkDue(now)
  <2>1. marks # <<>> /\ ~(now - marks[Len(marks)].at >= MarkStride) /\ marks' = marks
    BY <1>2, <1>4 DEF MarkDue
  <2>2. marks[Len(marks)].at \in Nat
    <3>1. Len(marks) \in 1 .. Len(marks)
      BY <1>1, <2>1, EmptySeq DEF Marks
    <3> QED
      <4>1. marks \in Seq([at : Nat, missed : Nat])
        BY <1>1 DEF Marks
      <4>2. marks[Len(marks)] \in [at : Nat, missed : Nat]
        BY <3>1, <4>1, ElementOfSeq
      <4> QED
        BY <4>2
  <2>3. now - marks[Len(marks)].at < MarkStride
    BY <1>1, <2>1, <2>2, SpacingIs
  <2> QED
    BY <2>1, <2>3
<1>5. CASE MarkDue(now)
  <2>1. marks' = Append(kept, new)
    BY <1>2, <1>5
  <2>2. \E d \in {0, 1} : /\ kept \in Marks /\ Len(kept) = Len(marks) - d
                          /\ \A i \in 1 .. Len(marks) - d : kept[i] = marks[i + d]
                          /\ d = 1 => Len(marks) >= 2
    <3>1. CASE Len(marks) = MarkCapacity
      <4>1. marks # <<>> /\ Len(marks) >= 2
        BY <1>1, <3>1, BlockConstants DEF Marks
      <4>2. /\ Tail(marks) \in Marks /\ Len(Tail(marks)) = Len(marks) - 1
            /\ \A i \in 1 .. Len(marks) - 1 : Tail(marks)[i] = marks[i + 1]
        BY <1>1, <4>1 DEF Marks
      <4> QED
        BY <3>1, <4>1, <4>2
    <3>2. CASE Len(marks) # MarkCapacity
      <4>1. \A i \in Int : i - 0 = i /\ i + 0 = i
        OBVIOUS
      <4>2. Len(marks) - 0 = Len(marks) /\ \A i \in 1 .. Len(marks) - 0 : marks[i] = marks[i + 0]
        BY <1>1, <4>1
      <4>3. kept = marks
        BY <3>2
      <4>4. /\ kept \in Marks /\ Len(kept) = Len(marks) - 0
            /\ \A i \in 1 .. Len(marks) - 0 : kept[i] = marks[i + 0]
        BY <1>1, <4>2, <4>3
      <4> HIDE DEF kept
      <4> QED
        BY <4>4
    <3> QED
      BY <3>1, <3>2
  <2> HIDE DEF kept, new
  <2>3. PICK d \in {0, 1} : /\ kept \in Marks /\ Len(kept) = Len(marks) - d
                            /\ \A i \in 1 .. Len(marks) - d : kept[i] = marks[i + d]
                            /\ d = 1 => Len(marks) >= 2
    BY <2>2
  <2>4. /\ Len(marks') = Len(kept) + 1 /\ marks'[Len(kept) + 1] = new
        /\ \A i \in 1 .. Len(kept) : marks'[i] = kept[i]
    BY <1>3, <2>1, <2>3, AppendProperties DEF Marks
  <2>5. Len(marks') = Len(marks) - d + 1 /\ marks'[Len(marks')] = new
    BY <2>3, <2>4
  <2>6. \A i \in 1 .. Len(marks) - d : marks'[i] = marks[i + d]
    BY <2>3, <2>4
  <2> QED
    BY <2>3, <2>5, <2>6 DEF new
<1> QED
  BY <1>4, <1>5

LEMMA MarkElements ==
    ASSUME BlocksTyped
    PROVE  /\ Len(marks) \in Nat /\ (marks = <<>> <=> Len(marks) = 0)
           /\ \A i \in 1 .. Len(marks) : marks[i].at \in Nat /\ marks[i].missed \in Nat
<1>1. marks \in Seq([at : Nat, missed : Nat])
  BY DEF BlocksTyped, Marks
<1>2. \A i \in 1 .. Len(marks) : marks[i] \in [at : Nat, missed : Nat]
  BY <1>1, ElementOfSeq
<1> QED
  BY <1>1, <1>2

\* _noteEmitted keeps the marks close.
LEMMA NoteKeepsDense ==
    ASSUME BlocksInv, MarksAreDense, left > 0, NEW missed \in Nat, NoteEmitted(missed),
           marks' \in Marks
    PROVE  MarksAreDense'
<1> USE DEF BlocksInv
<1> DEFINE now == emitted + asked
<1>1. /\ emitted \in Nat /\ underflow \in Nat /\ asked \in Nat /\ asked >= 1 /\ asked <= Largest
      /\ emitted' = now /\ underflow' = underflow + missed /\ now \in Nat
  <2>1. asked \in Counts
    BY BlockConstants DEF BlocksTyped
  <2> QED
    BY <2>1, BlockConstants DEF BlocksTyped, NoteEmitted
<1>2. /\ Len(marks) \in Nat /\ (marks = <<>> <=> Len(marks) = 0)
      /\ \A i \in 1 .. Len(marks) : marks[i].at \in Nat /\ marks[i].missed \in Nat
  BY MarkElements
<1>3. /\ \A i \in 1 .. Len(marks) : marks[i].at <= emitted /\ marks[i].missed <= underflow
      /\ \A i \in 1 .. Len(marks) - 1 :
             marks[i].at < marks[i + 1].at /\ marks[i + 1].at <= marks[i].at + Spacing
      /\ Len(marks) = 0 => emitted = 0 /\ underflow = 0
      /\ Len(marks) > 0 => emitted - marks[Len(marks)].at < MarkStride
      /\ Len(marks) = 1 => marks[1].at <= Largest
  BY DEF MarksAreDense
<1>4. MarkStride \in Nat /\ MarkStride >= 1 /\ Spacing = MarkStride + Largest - 1
      /\ Spacing \in Nat /\ Largest \in Nat
  BY SpacingIs, BlockConstants
<1>5. CASE marks' = marks /\ marks # <<>> /\ now - marks[Len(marks)].at < MarkStride
  <2>1. \A i \in 1 .. Len(marks') : marks'[i].at <= emitted' /\ marks'[i].missed <= underflow'
    BY <1>1, <1>2, <1>3, <1>5
  <2>2. /\ \A i \in 1 .. Len(marks') - 1 : marks'[i].at < marks'[i + 1].at
                                           /\ marks'[i + 1].at <= marks'[i].at + Spacing
        /\ Len(marks') > 0 /\ emitted' > 0 /\ emitted' - marks'[Len(marks')].at < MarkStride
        /\ Len(marks') = 1 => marks'[1].at <= Largest
    BY <1>1, <1>2, <1>3, <1>5
  <2> QED
    BY <2>1, <2>2 DEF MarksAreDense
<1>6. ASSUME NEW d \in {0, 1}, Len(marks') = Len(marks) - d + 1,
             \A i \in 1 .. Len(marks) - d : marks'[i] = marks[i + d],
             marks'[Len(marks')] = [at |-> now, missed |-> underflow'],
             d = 1 => Len(marks) >= 2
      PROVE  MarksAreDense'
  <2> DEFINE n == Len(marks) - d
  <2>1. n \in Nat /\ Len(marks') = n + 1 /\ d \in Nat /\ n + d = Len(marks)
    BY <1>2, <1>6
  <2>2. /\ \A i \in 1 .. n : marks'[i] = marks[i + d] /\ i + d \in 1 .. Len(marks)
        /\ marks'[n + 1].at = now /\ marks'[n + 1].missed = underflow'
    BY <1>2, <1>6, <2>1
  <2> HIDE DEF n
  <2>3. \A i \in 1 .. Len(marks') : marks'[i].at <= emitted' /\ marks'[i].missed <= underflow'
    <3>1. TAKE i \in 1 .. Len(marks')
    <3>2. CASE i \in 1 .. n
      <4>1. marks'[i] = marks[i + d] /\ i + d \in 1 .. Len(marks)
        BY <2>2, <3>2
      <4>2. marks[i + d].at <= emitted /\ marks[i + d].missed <= underflow
            /\ marks[i + d].at \in Nat /\ marks[i + d].missed \in Nat
        BY <1>2, <1>3, <4>1
      <4>3. \A a, m \in Nat : a <= emitted /\ m <= underflow => a <= emitted' /\ m <= underflow'
        BY <1>1
      <4>4. marks[i + d].at <= emitted' /\ marks[i + d].missed <= underflow'
        BY <4>2, <4>3
      <4> QED
        BY <4>1, <4>4
    <3>3. CASE i = n + 1
      BY <1>1, <2>2, <3>3
    <3> QED
      BY <2>1, <3>2, <3>3
  <2>4. ASSUME NEW i \in 1 .. n
        PROVE  marks'[i].at < marks'[i + 1].at /\ marks'[i + 1].at <= marks'[i].at + Spacing
    <3>1. marks'[i] = marks[i + d] /\ i + d \in 1 .. Len(marks)
      BY <2>2
    <3>2. CASE i = n
      <4>1. i + d = Len(marks) /\ marks'[i + 1].at = now
        BY <2>1, <2>2, <3>2
      <4>2. emitted - marks[Len(marks)].at < MarkStride /\ marks[Len(marks)].at <= emitted
            /\ marks[Len(marks)].at \in Nat
        BY <1>2, <1>3, <3>1, <4>1
      <4> QED
        BY <1>1, <1>4, <3>1, <4>1, <4>2
    <3>3. CASE i # n
      <4>1. i + 1 \in 1 .. n
        BY <2>1, <3>3
      <4>2. marks'[i + 1] = marks[(i + 1) + d] /\ (i + 1) + d = (i + d) + 1
        BY <2>1, <2>2, <4>1
      <4>3. i + d \in 1 .. Len(marks) - 1
        BY <2>1, <4>1
      <4> QED
        BY <1>3, <3>1, <4>2, <4>3
    <3> QED
      BY <3>2, <3>3
  <2>5. emitted' - marks'[Len(marks')].at < MarkStride /\ Len(marks') # 0 /\ emitted' # 0
    BY <1>1, <1>4, <2>1, <2>2
  <2>6. Len(marks') = 1 => marks'[1].at <= Largest
    <3>1. HAVE Len(marks') = 1
    <3>2. n = 0
      <4>1. \A x \in Nat : x + 1 = 1 => x = 0
        OBVIOUS
      <4>2. n + 1 = 1
        BY <2>1, <3>1
      <4> QED
        BY <2>1, <4>1, <4>2
    <3>3. Len(marks) = 0
      <4>1. d = 0 \/ d = 1
        OBVIOUS
      <4>2. d = 1 => Len(marks) >= 2
        BY <1>6
      <4>3. 0 + d = Len(marks)
        BY <2>1, <3>2
      <4> QED
        BY <1>2, <4>1, <4>2, <4>3
    <3> QED
      BY <1>1, <1>3, <1>4, <2>2, <3>2, <3>3
  <2>7. \A i \in 1 .. Len(marks') - 1 : marks'[i].at < marks'[i + 1].at
                                        /\ marks'[i + 1].at <= marks'[i].at + Spacing
    BY <2>1, <2>4
  <2> QED
    BY <2>3, <2>5, <2>6, <2>7 DEF MarksAreDense
<1> HIDE DEF now
<1> QED
  BY <1>5, <1>6, NoteMarks DEF now

\* The marks' counts are true of a call that missed all or none of its samples.
LEMMA NoteKeepsTrue ==
    ASSUME BlocksInv, MarksAreDense, MarksAreTrue, left > 0, NEW missed \in Nat,
           NoteEmitted(missed),
           \A i \in 1 .. Len(marks) :
               /\ marks[i].at >= lastHole' => marks[i].missed = underflow'
               /\ marks[i].at >= lastPlayed' => underflow' - marks[i].missed
                                                = emitted' - marks[i].at
    PROVE  \A i \in 1 .. Len(marks') :
               /\ marks'[i].at >= lastHole' => marks'[i].missed = underflow'
               /\ marks'[i].at >= lastPlayed' => underflow' - marks'[i].missed
                                                 = emitted' - marks'[i].at
<1> USE DEF BlocksInv
<1> DEFINE now == emitted + asked
<1>1. emitted \in Nat /\ underflow \in Nat /\ asked \in Nat /\ now \in Nat
      /\ emitted' = now /\ underflow' = underflow + missed
  BY BlockConstants DEF BlocksTyped, NoteEmitted
<1>2. Len(marks) \in Nat
  BY MarkElements
<1>3. ASSUME marks' = marks, NEW i \in 1 .. Len(marks')
      PROVE  /\ marks'[i].at >= lastHole' => marks'[i].missed = underflow'
             /\ marks'[i].at >= lastPlayed' => underflow' - marks'[i].missed
                                               = emitted' - marks'[i].at
  <2>1. i \in 1 .. Len(marks) /\ marks'[i] = marks[i]
    BY <1>3
  <2> QED
    BY <2>1
<1>4. ASSUME NEW d \in {0, 1}, Len(marks') = Len(marks) - d + 1,
             \A i \in 1 .. Len(marks) - d : marks'[i] = marks[i + d],
             marks'[Len(marks')] = [at |-> now, missed |-> underflow'],
             d = 1 => Len(marks) >= 2,
             NEW i \in 1 .. Len(marks')
      PROVE  /\ marks'[i].at >= lastHole' => marks'[i].missed = underflow'
             /\ marks'[i].at >= lastPlayed' => underflow' - marks'[i].missed
                                               = emitted' - marks'[i].at
  <2>1. CASE i = Len(marks')
    BY <1>1, <1>4, <2>1
  <2>2. CASE i # Len(marks')
    <3>1. i \in 1 .. Len(marks) - d /\ i + d \in 1 .. Len(marks)
      BY <1>2, <1>4, <2>2
    <3>2. marks'[i] = marks[i + d]
      BY <1>4, <3>1
    <3> QED
      BY <3>1, <3>2
  <2> QED
    BY <2>1, <2>2
<1> HIDE DEF now
<1> QED
  BY <1>3, <1>4, NoteMarks DEF now

LEMMA StarveKeepsMarks == BlocksInv /\ MarksInv /\ Starve => MarksInv'
<1> SUFFICES ASSUME BlocksInv, MarksInv, Starve PROVE MarksInv'
  OBVIOUS
<1> USE DEF MarksInv
<1>1. left > 0 /\ left' = 0 /\ lastHole' = emitted' /\ lastPlayed' = lastPlayed
      /\ NoteEmitted(left)
  BY DEF Starve
<1>2. left \in Nat /\ asked \in Nat /\ emitted \in Nat /\ underflow \in Nat
      /\ lastPlayed \in Nat /\ lastHole \in Nat
  BY BlockConstants DEF BlocksInv, BlocksTyped
<1>3. emitted' = emitted + asked /\ underflow' = underflow + left /\ marks' \in Marks
  BY <1>1, <1>2, NoteIs DEF BlocksInv
<1>4. MarksAreDense'
  BY <1>1, <1>2, <1>3, NoteKeepsDense
<1>5. /\ Len(marks) \in Nat
      /\ \A i \in 1 .. Len(marks) : marks[i].at \in Nat /\ marks[i].missed \in Nat
  BY MarkElements DEF BlocksInv
<1>6. (left = asked /\ lastPlayed <= emitted) \/ lastPlayed > emitted
  BY <1>1 DEF MarksAreTrue
<1>7. asked > 0 /\ left <= asked
  BY <1>1, <1>2 DEF BlocksInv, BlocksTyped
<1>8. ASSUME NEW i \in 1 .. Len(marks)
      PROVE  /\ marks[i].at >= lastHole' => marks[i].missed = underflow'
             /\ marks[i].at >= lastPlayed' => underflow' - marks[i].missed
                                              = emitted' - marks[i].at
  <2>1. marks[i].at \in Nat /\ marks[i].missed \in Nat /\ marks[i].at <= emitted
    BY <1>5 DEF MarksAreDense
  <2>2. marks[i].at >= lastPlayed => underflow - marks[i].missed = emitted - marks[i].at
    BY DEF MarksAreTrue
  <2>3. ~(marks[i].at >= lastHole')
    BY <1>1, <1>2, <1>3, <1>7, <2>1
  <2>4. marks[i].at >= lastPlayed => left = asked
    BY <1>2, <1>6, <2>1
  <2>5. ASSUME marks[i].at >= lastPlayed'
        PROVE  underflow' - marks[i].missed = emitted' - marks[i].at
    <3>1. left = asked /\ underflow - marks[i].missed = emitted - marks[i].at
      BY <1>1, <2>2, <2>4, <2>5
    <3>2. \A a, m \in Nat : underflow - m = emitted - a
                           => (underflow + asked) - m = (emitted + asked) - a
      BY <1>2
    <3>3. underflow' = underflow + asked /\ emitted' = emitted + asked
      BY <1>3, <3>1
    <3> QED
      BY <2>1, <3>1, <3>2, <3>3
  <2> QED
    BY <2>3, <2>5
<1>9. \A i \in 1 .. Len(marks') :
          /\ marks'[i].at >= lastHole' => marks'[i].missed = underflow'
          /\ marks'[i].at >= lastPlayed' => underflow' - marks'[i].missed
                                            = emitted' - marks'[i].at
  BY <1>1, <1>2, <1>8, NoteKeepsTrue
<1>10. lastPlayed' <= Progress' /\ ~(left' > 0) /\ (lastHole' = 0 => underflow' = 0)
  <2>1. Progress = emitted + asked - left
    BY <1>1, <1>2 DEF Progress, Written
  <2> QED
    BY <1>1, <1>2, <1>3, <1>7, <2>1 DEF MarksAreTrue, Progress
<1> QED
  BY <1>4, <1>9, <1>10 DEF MarksAreTrue

LEMMA PlayKeepsMarks == BlocksInv /\ MarksInv /\ Play => MarksInv'
<1> SUFFICES ASSUME BlocksInv, MarksInv, Play PROVE MarksInv'
  OBVIOUS
<1> USE DEF MarksInv
<1>1. left > 0 /\ ~Exhausted /\ left' = left - Take /\ lastPlayed' = emitted + Written + Take
      /\ asked' = asked /\ lastHole' = lastHole
      /\ IF left' = 0 THEN NoteEmitted(0) ELSE UNCHANGED <<emitted, underflow, marks>>
  BY DEF Play
<1>2. /\ Take \in Nat /\ Take >= 1 /\ Take <= left /\ left \in Nat /\ asked \in Nat
      /\ left <= asked /\ emitted \in Nat /\ underflow \in Nat /\ lastHole \in Nat
  BY <1>1, TakeIs DEF BlocksInv, BlocksTyped
<1>3. lastPlayed' = emitted + (asked - left') /\ lastPlayed' > emitted /\ lastPlayed' \in Nat
  BY <1>1, <1>2 DEF Written
<1>4. /\ Len(marks) \in Nat
      /\ \A i \in 1 .. Len(marks) : marks[i].at \in Nat /\ marks[i].missed \in Nat
                                    /\ marks[i].at <= emitted
  BY MarkElements DEF BlocksInv, MarksAreDense
<1>5. \A i \in 1 .. Len(marks) : ~(marks[i].at >= lastPlayed')
  BY <1>2, <1>3, <1>4
<1>6. CASE left' = 0
  <2>1. NoteEmitted(0) /\ emitted' = emitted + asked /\ underflow' = underflow
        /\ marks' \in Marks
    BY <1>1, <1>2, <1>6, NoteIs DEF BlocksInv
  <2>2. MarksAreDense'
    BY <1>1, <2>1, NoteKeepsDense
  <2>3. \A i \in 1 .. Len(marks) : marks[i].at >= lastHole' => marks[i].missed = underflow'
    BY <1>1, <2>1 DEF MarksAreTrue
  <2>4. \A i \in 1 .. Len(marks') :
            /\ marks'[i].at >= lastHole' => marks'[i].missed = underflow'
            /\ marks'[i].at >= lastPlayed' => underflow' - marks'[i].missed
                                              = emitted' - marks'[i].at
    BY <1>1, <1>5, <2>1, <2>3, NoteKeepsTrue
  <2>5. lastPlayed' <= Progress'
    <3>1. Progress' = emitted + asked /\ lastPlayed' = emitted + asked
      BY <1>2, <1>3, <1>6, <2>1 DEF Progress
    <3> QED
      BY <1>2, <3>1
  <2>6. ~(left' > 0)
    BY <1>6
  <2>7. lastHole' = 0 => underflow' = 0
    BY <1>1, <2>1 DEF MarksAreTrue
  <2> QED
    BY <2>2, <2>4, <2>5, <2>6, <2>7 DEF MarksAreTrue
<1>7. CASE left' # 0
  <2>1. UNCHANGED <<emitted, underflow, marks>> /\ left' > 0
    BY <1>1, <1>2, <1>7
  <2>2. MarksAreDense'
    BY <2>1 DEF MarksAreDense
  <2>3. \A i \in 1 .. Len(marks') :
            /\ marks'[i].at >= lastHole' => marks'[i].missed = underflow'
            /\ marks'[i].at >= lastPlayed' => underflow' - marks'[i].missed
                                              = emitted' - marks'[i].at
    BY <1>1, <1>5, <2>1 DEF MarksAreTrue
  <2>4. lastPlayed' <= Progress' /\ lastPlayed' > emitted' /\ (lastHole' = 0 => underflow' = 0)
    BY <1>1, <1>2, <1>3, <2>1 DEF MarksAreTrue, Progress, Written
  <2> QED
    BY <2>2, <2>3, <2>4 DEF MarksAreTrue
<1> QED
  BY <1>6, <1>7

\* What is emitted, missed and marked follows the calls.
LEMMA MarksStep == BlocksInv /\ MarksInv /\ [BlocksNext]_blockVars => MarksInv'
<1> SUFFICES ASSUME BlocksInv, MarksInv, [BlocksNext]_blockVars PROVE MarksInv'
  OBVIOUS
<1> USE DEF MarksInv
<1>1. CASE UNCHANGED <<asked, left, emitted, underflow, marks, lastHole, lastPlayed>>
  BY <1>1 DEF MarksAreDense, MarksAreTrue, Progress, Written
<1>2. CASE Call
  <2>1. UNCHANGED <<emitted, underflow, marks, lastHole, lastPlayed>> /\ left = 0
    BY <1>2 DEF Call, telemetry, history
  <2>2. PICK n \in Nat : n > 0 /\ asked' = n /\ left' = n
    BY <1>2, BlockConstants DEF Call
  <2>3. emitted \in Nat
    BY DEF BlocksInv, BlocksTyped
  <2>4. Progress' = emitted /\ Progress = emitted
    BY <2>1, <2>2, <2>3 DEF Progress, Written
  <2> QED
    BY <2>1, <2>2, <2>4 DEF MarksAreDense, MarksAreTrue
<1>3. CASE ResetConsumer
  <2>1. /\ left' = 0 /\ emitted' = 0 /\ underflow' = 0 /\ marks' = <<>> /\ lastHole' = 0
        /\ lastPlayed' = 0
    BY <1>3 DEF ResetConsumer
  <2>2. Len(marks') = 0
    BY <2>1
  <2> QED
    BY <2>1, <2>2 DEF MarksAreDense, MarksAreTrue, Progress
<1>4. CASE Produce \/ PullBlock
  BY <1>1, <1>4 DEF Produce, PullBlock, telemetry, history
<1>5. CASE UNCHANGED blockVars
  BY <1>1, <1>5 DEF blockVars
<1> QED
  BY <1>2, <1>3, <1>4, <1>5, StarveKeepsMarks, PlayKeepsMarks DEF BlocksNext, Render

\* A set of numbers up to n has a greatest one.
LEMMA LatestOf ==
    ASSUME NEW n \in Nat, NEW S, S \subseteq 1 .. n, S # {}
    PROVE  \E x \in S : \A y \in S : y <= x
<1> DEFINE Less == OpToRel(<, Nat)
           T == {n - y : y \in S}
<1>1. IsWellFoundedOn(Less, Nat)
  BY NatLessThanWellFounded
<1>2. \A x, y \in Nat : <<y, x>> \in Less <=> y < x
  BY DEF OpToRel
<1>3. T \subseteq Nat /\ T # {}
  <2>1. \A y \in S : n - y \in Nat
    OBVIOUS
  <2> QED
    BY <2>1
<1>4. (\A y \in S : n - y \in T) /\ \A t \in T : \E y \in S : t = n - y
  OBVIOUS
<1> HIDE DEF Less, T
<1>5. PICK t \in T : \A u \in T : ~(<<u, t>> \in Less)
  BY <1>1, <1>3, WFMin
<1>6. PICK x \in S : t = n - x
  BY <1>4
<1>7. ASSUME NEW y \in S PROVE y <= x
  <2>1. n - y \in Nat /\ t \in Nat /\ n - y \in T
    BY <1>3, <1>4
  <2>2. ~(n - y < t)
    BY <1>2, <1>5, <2>1
  <2> QED
    BY <1>6, <2>1, <2>2
<1> QED
  BY <1>7

\* The chosen mark is at most the window and a gap old, and not the present one.
LEMMA ChosenIs ==
    ASSUME BlocksInv, MarksInv, emitted > 0
    PROVE  LET mark == marks[ChosenMark(Window)] IN
           /\ marks # <<>> /\ ChosenMark(Window) \in 1 .. Len(marks)
           /\ emitted - mark.at < Window + Spacing
           /\ emitted >= Window + Spacing => mark.at < emitted
<1> USE DEF MarksInv
<1> DEFINE old == {i \in 1 .. Len(marks) : marks[i].at <= emitted - Window}
<1>1. /\ emitted \in Nat /\ Window \in Nat /\ Window >= 1
      /\ MarkStride \in Nat /\ MarkStride >= 1 /\ Largest \in Nat /\ Largest >= 1
      /\ Spacing = MarkStride + Largest - 1
  BY BlockConstants, SpacingIs DEF BlocksInv, BlocksTyped
<1>2. /\ Len(marks) \in Nat /\ (marks = <<>> <=> Len(marks) = 0)
      /\ \A i \in 1 .. Len(marks) : marks[i].at \in Nat /\ marks[i].at <= emitted
  BY MarkElements DEF BlocksInv, MarksAreDense
<1>3. marks # <<>> /\ Len(marks) > 0
  BY <1>1, <1>2 DEF MarksAreDense
<1>4. CASE old = {}
  <2>1. ChosenMark(Window) = 1
    BY <1>4 DEF ChosenMark
  <2>2. 1 \in 1 .. Len(marks) /\ marks[1].at \in Nat /\ marks[1].at <= emitted
    BY <1>2, <1>3
  <2>3. ~(marks[1].at <= emitted - Window)
    BY <1>4, <2>2
  <2>4. emitted >= Window + Spacing => marks[1].at < emitted
    <3>1. CASE Len(marks) = 1
      BY <1>1, <2>2, <3>1 DEF MarksAreDense
    <3>2. CASE Len(marks) # 1
      <4>1. 1 \in 1 .. Len(marks) - 1 /\ 1 + 1 = 2 /\ 2 \in 1 .. Len(marks)
        <5>1. \A n \in Nat : n > 0 /\ n # 1 => 1 \in 1 .. n - 1 /\ 1 + 1 = 2 /\ 2 \in 1 .. n
          OBVIOUS
        <5> QED
          BY <1>2, <1>3, <3>2, <5>1
      <4>2. marks[1].at < marks[2].at
        BY <4>1 DEF MarksAreDense
      <4>3. marks[2].at \in Nat /\ marks[2].at <= emitted
        BY <1>2, <4>1
      <4> QED
        BY <1>1, <2>2, <4>2, <4>3
    <3> QED
      BY <3>1, <3>2
  <2> QED
    BY <1>1, <1>3, <2>1, <2>2, <2>3, <2>4
<1>5. CASE old # {}
  <2>1. ChosenMark(Window) = CHOOSE i \in old : \A j \in old : j <= i
    BY <1>5 DEF ChosenMark
  <2>2. old \subseteq 1 .. Len(marks) /\ \A i \in old : marks[i].at <= emitted - Window
        /\ \A j \in 1 .. Len(marks) : j \notin old => ~(marks[j].at <= emitted - Window)
    OBVIOUS
  <2> HIDE DEF old
  <2>3. PICK c \in old : c = ChosenMark(Window) /\ \A j \in old : j <= c
    <3>1. \E c \in old : \A j \in old : j <= c
      BY <1>2, <1>5, <2>2, LatestOf
    <3> QED
      BY <2>1, <3>1
  <2>4. c \in 1 .. Len(marks) /\ marks[c].at \in Nat /\ marks[c].at <= emitted - Window
    BY <1>2, <2>2, <2>3
  <2>5. emitted - marks[c].at < Window + Spacing
    <3>1. CASE c = Len(marks)
      <4>1. emitted - marks[c].at < MarkStride
        BY <1>3, <3>1 DEF MarksAreDense
      <4> QED
        BY <1>1, <2>4, <4>1
    <3>2. CASE c # Len(marks)
      <4>1. c + 1 \in 1 .. Len(marks) /\ c \in 1 .. Len(marks) - 1 /\ ~(c + 1 <= c)
        BY <1>2, <2>4, <3>2
      <4>2. marks[c + 1].at <= marks[c].at + Spacing
        BY <4>1 DEF MarksAreDense
      <4>3. ~(marks[c + 1].at <= emitted - Window) /\ marks[c + 1].at \in Nat
        BY <1>2, <2>2, <2>3, <4>1
      <4> QED
        BY <1>1, <2>4, <4>2, <4>3
    <3> QED
      BY <3>1, <3>2
  <2>6. marks[c].at < emitted
    BY <1>1, <2>4
  <2> QED
    BY <1>3, <2>3, <2>4, <2>5, <2>6
<1> QED
  BY <1>4, <1>5

\* Hence what is said of the window is current.
LEMMA MarksMakeRates == BlocksInv /\ MarksInv => RateIsCurrent
<1> SUFFICES ASSUME BlocksInv, MarksInv, left = 0, emitted > 0
             PROVE  /\ emitted - lastHole >= Window + Spacing => RateOver(Window).missed = 0
                    /\ emitted - lastPlayed >= Window + Spacing =>
                           RateOver(Window).missed = RateOver(Window).of
                           /\ RateOver(Window).of > 0
  BY DEF RateIsCurrent
<1> DEFINE c == ChosenMark(Window)
<1>1. /\ marks # <<>> /\ c \in 1 .. Len(marks) /\ emitted - marks[c].at < Window + Spacing
      /\ emitted >= Window + Spacing => marks[c].at < emitted
  BY ChosenIs
<1>2. RateOver(Window) = IF emitted = marks[c].at THEN [missed |-> 0, of |-> 0]
                         ELSE [missed |-> underflow - marks[c].missed,
                               of |-> emitted - marks[c].at]
  BY <1>1 DEF RateOver
<1> HIDE DEF c
<1>3. /\ emitted \in Nat /\ underflow \in Nat /\ lastHole \in Nat /\ lastPlayed \in Nat
      /\ Window \in Nat /\ Spacing \in Nat
  BY BlockConstants, SpacingIs DEF BlocksInv, BlocksTyped
<1>4. marks[c].at \in Nat /\ marks[c].missed \in Nat /\ marks[c].at <= emitted
  BY <1>1, MarkElements DEF BlocksInv, MarksInv, MarksAreDense
<1>5. /\ marks[c].at >= lastHole => marks[c].missed = underflow
      /\ marks[c].at >= lastPlayed => underflow - marks[c].missed = emitted - marks[c].at
  BY <1>1 DEF MarksInv, MarksAreTrue
<1>6. emitted - lastHole >= Window + Spacing => RateOver(Window).missed = 0
  <2>1. HAVE emitted - lastHole >= Window + Spacing
  <2>2. marks[c].missed = underflow
    BY <1>1, <1>3, <1>4, <1>5, <2>1
  <2>3. underflow - underflow = 0
    BY <1>3
  <2> QED
    BY <1>2, <2>2, <2>3
<1>7. emitted - lastPlayed >= Window + Spacing =>
          RateOver(Window).missed = RateOver(Window).of /\ RateOver(Window).of > 0
  <2>1. HAVE emitted - lastPlayed >= Window + Spacing
  <2>2. marks[c].at < emitted /\ underflow - marks[c].missed = emitted - marks[c].at
    BY <1>1, <1>3, <1>4, <1>5, <2>1
  <2>3. RateOver(Window) = [missed |-> underflow - marks[c].missed, of |-> emitted - marks[c].at]
    BY <1>2, <1>3, <1>4, <2>2
  <2> QED
    BY <1>3, <1>4, <2>2, <2>3
<1> QED
  BY <1>6, <1>7

\* What is recorded of a call, in the words of the types.
LEMMA CountersFit == BlocksInv /\ MarksInv => BlocksTypeOK
<1> SUFFICES ASSUME BlocksInv, MarksInv PROVE BlocksTypeOK
  OBVIOUS
<1> USE DEF BlocksInv, MarksInv
<1>1. /\ emitted \in Nat /\ underflow \in Nat /\ lastPull \in Nat /\ cursor \in Nat
      /\ hole \in Nat /\ lastHole \in Nat /\ lastPlayed \in Nat /\ asked \in Nat
      /\ left \in Nat /\ left <= asked /\ MaxEmitted \in Nat
      /\ emitted + left <= MaxEmitted /\ (left > 0 => emitted + asked <= MaxEmitted)
  BY BlockConstants DEF BlocksTyped
<1>2. Progress \in Nat /\ Progress <= MaxEmitted
  BY <1>1 DEF Progress, Written
<1>3. lastPull <= MaxEmitted
  BY <1>1, <1>2 DEF Accounted
<1>4. hole <= underflow /\ lastHole <= emitted /\ underflow <= emitted /\ lastPlayed <= Progress
  BY DEF Accounted, MarksAreTrue
<1>5. /\ emitted \in 0 .. MaxEmitted /\ underflow \in 0 .. MaxEmitted
      /\ lastPull \in 0 .. MaxEmitted /\ hole \in 0 .. MaxEmitted
      /\ lastHole \in 0 .. MaxEmitted /\ lastPlayed \in 0 .. MaxEmitted
  BY <1>1, <1>2, <1>3, <1>4
<1> QED
  BY <1>5 DEF BlocksTyped, BlocksTypeOK

LEMMA TimeFollows == BlocksInv => TimeIsAccounted
<1> SUFFICES ASSUME BlocksInv, left = 0
             PROVE  /\ emitted = (framesConsumed * BlockSize) - Remaining + underflow
                    /\ framesConsumed > 0 => emitted - lastPull = cursor + hole
  BY DEF TimeIsAccounted
<1> USE DEF BlocksInv
<1>1. Progress = emitted
  BY DEF Progress
<1>2. emitted = (framesConsumed * BlockSize) - Remaining + underflow
  BY <1>1 DEF Accounted
<1>3. framesConsumed > 0 => emitted - lastPull = cursor + hole
  <2>1. emitted \in Nat /\ lastPull \in Nat /\ cursor \in Nat /\ hole \in Nat
    BY BlockConstants DEF BlocksTyped
  <2>2. framesConsumed > 0 => \/ emitted = lastPull + cursor + hole
                              \/ emitted = lastPull + cursor /\ hole = 0
    BY <1>1 DEF Accounted
  <2> QED
    BY <2>1, <2>2
<1> QED
  BY <1>2, <1>3

-------------------------------------------------------------------------------
(* The quality *)

LEMMA QualityConstants ==
    /\ Unit \in Nat /\ LowWatermark \in Nat /\ HighWatermark \in Nat
    /\ HighWatermark - LowWatermark \in Nat \ {0} /\ Full \in Nat /\ MinQuality \in 1 .. Full
    /\ Ramp \in 1 .. Full /\ Glide \in Nat /\ Ramp * Glide >= Full - MinQuality
<1>1. /\ Unit \in Nat /\ LowWatermark \in Nat /\ HighWatermark \in Nat /\ Full \in Nat
      /\ HighWatermark - LowWatermark \in Nat \ {0} /\ MinQuality \in 1 .. Full
      /\ Ramp \in 1 .. Full
  BY QualityAssumption
<1>2. PICK n \in Nat, r \in Nat \ {0} : r = Ramp /\ n = Full - MinQuality
  BY <1>1
<1>3. PICK q \in Int, m \in 0 .. r - 1 : q = (n + r - 1) \div r /\ n + r - 1 = r * q + m
  <2>1. ASSUME NEW x \in Int
        PROVE  /\ x \div r \in Int /\ x % r \in 0 .. r - 1
               /\ x = r * (x \div r) + (x % r)
    OBVIOUS
  <2>2. n + r - 1 \in Int
    OBVIOUS
  <2> QED
    BY <2>1, <2>2
<1>4. r * q >= n
  <2>1. r * q \in Int
    BY <1>3
  <2> QED
    BY <1>2, <1>3, <2>1
<1>5. q >= 0
  BY <1>2, <1>3, <1>4
<1>6. Glide = q
  BY <1>2, <1>3 DEF Glide
<1> QED
  BY <1>1, <1>2, <1>3, <1>4, <1>5, <1>6

LEMMA RateTyped ==
    ASSUME BlocksInv, MarksInv, left = 0
    PROVE  /\ RateOver(Window).missed \in Int /\ RateOver(Window).of \in Nat
           /\ Quiet => RateOver(Window).missed = 0
<1>1. emitted \in Nat /\ underflow \in Nat /\ lastHole \in Nat
  BY DEF BlocksInv, BlocksTyped
<1>2. CASE emitted = 0
  <2>1. marks = <<>>
    BY <1>2, MarkElements DEF BlocksInv, MarksInv, MarksAreDense
  <2> QED
    BY <2>1 DEF RateOver
<1>3. CASE emitted > 0
  <2> DEFINE c == ChosenMark(Window)
  <2>1. marks # <<>> /\ c \in 1 .. Len(marks)
    BY <1>3, ChosenIs
  <2>2. marks[c].at \in Nat /\ marks[c].missed \in Nat /\ marks[c].at <= emitted
    BY <2>1, MarkElements DEF BlocksInv, MarksInv, MarksAreDense
  <2>3. RateOver(Window).missed \in Int /\ RateOver(Window).of \in Nat
    BY <1>1, <2>1, <2>2 DEF RateOver
  <2>4. Quiet => RateOver(Window).missed = 0
    BY <1>3, MarksMakeRates DEF RateIsCurrent, Quiet
  <2> QED
    BY <2>3, <2>4
<1> QED
  BY <1>1, <1>2, <1>3

\* No sample missed asks for full quality.
LEMMA TargetIs ==
    ASSUME NEW rate, rate.missed \in Int, rate.of \in Nat
    PROVE  Target(Signal(rate)) \in Int /\ (rate.missed = 0 => Target(Signal(rate)) = Full)
<1>1. /\ Unit \in Nat /\ LowWatermark \in Nat /\ HighWatermark \in Nat
      /\ HighWatermark - LowWatermark \in Nat \ {0} /\ Full \in Nat /\ MinQuality \in Nat
  BY QualityConstants
<1>2. \A x \in Int, d \in Nat \ {0} : x \div d \in Int /\ (x = 0 => x \div d = 0)
  OBVIOUS
<1>3. Signal(rate) \in Int /\ (rate.missed = 0 => Signal(rate) = 0)
  <2>1. CASE rate.of = 0
    BY <2>1 DEF Signal
  <2>2. CASE rate.of # 0
    <3>1. rate.of \in Nat \ {0} /\ rate.missed * Unit \in Int
          /\ (rate.missed = 0 => rate.missed * Unit = 0)
      BY <1>1, <2>2
    <3> QED
      BY <1>2, <2>2, <3>1 DEF Signal
  <2> QED
    BY <2>1, <2>2
<1> DEFINE w == Within(0, HighWatermark - LowWatermark, Signal(rate) - LowWatermark)
<1>4. w \in Int /\ (rate.missed = 0 => w = 0)
  BY <1>1, <1>3 DEF Within
<1> HIDE DEF w
<1>5. (Full - MinQuality) * w \in Int /\ (w = 0 => (Full - MinQuality) * w = 0)
  BY <1>1, <1>4
<1>6. ((Full - MinQuality) * w) \div (HighWatermark - LowWatermark) \in Int
      /\ (w = 0 => ((Full - MinQuality) * w) \div (HighWatermark - LowWatermark) = 0)
  BY <1>1, <1>2, <1>5
<1>7. Target(Signal(rate))
         = Full - (((Full - MinQuality) * w) \div (HighWatermark - LowWatermark))
  BY DEF Target, w
<1> QED
  BY <1>1, <1>4, <1>6, <1>7

QualityInv == BlocksInv /\ MarksInv /\ QualityTypeOK /\ RampRuns

LEMMA PlaybackStarts == PlaybackInit => QualityInv
<1> SUFFICES ASSUME PlaybackInit PROVE QualityInv
  OBVIOUS
<1>1. BlocksInv
  BY BlocksStart DEF PlaybackInit
<1>2. MarksInv
  <2>1. Len(marks) = 0 /\ emitted = 0 /\ underflow = 0 /\ lastPlayed = 0 /\ left = 0
    BY DEF PlaybackInit, BlocksInit
  <2> QED
    BY <2>1 DEF MarksInv, MarksAreDense, MarksAreTrue, Progress
<1>3. quality = Full /\ calm = 0
  BY DEF PlaybackInit, QualityInit
<1>4. QualityTypeOK
  BY <1>3, QualityConstants DEF QualityTypeOK
<1>5. RampRuns
  <2>1. PICK n \in Nat : n = Ramp * Glide
    BY QualityConstants
  <2>2. Glide - 0 = Glide /\ Full \in Nat
    BY QualityConstants
  <2> QED
    BY <1>3, <2>1, <2>2 DEF RampRuns
<1> QED
  BY <1>1, <1>2, <1>4, <1>5 DEF QualityInv

LEMMA TickKeeps ==
    ASSUME QualityInv, TickQuality
    PROVE  QualityTypeOK' /\ RampRuns'
<1>1. /\ MinQuality \in 1 .. Full /\ Full \in Nat /\ Ramp \in 1 .. Full /\ Glide \in Nat
      /\ Ramp * Glide >= Full - MinQuality
  BY QualityConstants
<1>2. quality \in MinQuality .. Full /\ calm \in 0 .. Glide
      /\ quality >= Full - Ramp * (Glide - calm)
  BY DEF QualityInv, QualityTypeOK, RampRuns
<1> DEFINE target == Target(Signal(RateOver(Window)))
<1>3. target \in Int /\ (Quiet => target = Full)
  <2>1. left = 0
    BY DEF TickQuality
  <2> QED
    BY <2>1, RateTyped, TargetIs DEF QualityInv
<1>4. /\ quality' = Within(MinQuality, Full, quality + Step(target - quality))
      /\ calm' = IF ~Quiet THEN 0 ELSE IF calm < Glide THEN calm + 1 ELSE calm
  BY DEF TickQuality, QualityTick
<1> HIDE DEF target
<1>5. quality' \in MinQuality .. Full
  BY <1>1, <1>2, <1>3, <1>4 DEF Within, Step
<1>6. calm' \in 0 .. Glide
  BY <1>1, <1>2, <1>4
<1>7. RampRuns'
  <2>1. CASE ~Quiet
    <3>1. PICK n \in Nat : n = Ramp * Glide
      BY <1>1
    <3>2. calm' = 0 /\ Glide - 0 = Glide
      BY <1>1, <1>4, <2>1
    <3>3. quality' >= Full - n
      BY <1>1, <1>5, <3>1
    <3> QED
      BY <3>1, <3>2, <3>3 DEF RampRuns
  <2>2. CASE Quiet /\ calm < Glide
    <3>1. calm' = calm + 1 /\ target = Full
      BY <1>3, <1>4, <2>2
    <3>2. quality' = Full \/ quality' >= quality + Ramp
      BY <1>1, <1>2, <1>4, <3>1 DEF Within, Step
    <3>3. PICK rest \in Nat : rest = Glide - calm' /\ rest + 1 = Glide - calm
      BY <1>1, <1>2, <2>2, <3>1
    <3>4. Ramp * (rest + 1) = Ramp * rest + Ramp /\ Ramp * rest \in Nat
      BY <1>1
    <3>5. quality >= Full - (Ramp * rest + Ramp)
      BY <1>2, <3>3, <3>4
    <3>6. quality' >= Full - Ramp * rest
      BY <1>1, <1>2, <1>5, <3>2, <3>4, <3>5
    <3> QED
      BY <3>3, <3>6 DEF RampRuns
  <2>3. CASE Quiet /\ ~(calm < Glide)
    <3>1. calm = Glide /\ calm' = Glide /\ target = Full
      BY <1>1, <1>2, <1>3, <1>4, <2>3
    <3>2. Glide - Glide = 0 /\ Ramp * 0 = 0
      BY <1>1
    <3>3. quality = Full
      BY <1>1, <1>2, <3>1, <3>2
    <3>4. quality' = Full
      BY <1>1, <1>4, <3>1, <3>3 DEF Within, Step
    <3> QED
      BY <1>1, <3>1, <3>2, <3>4, QualityConstants DEF RampRuns
  <2> QED
    BY <2>1, <2>2, <2>3
<1> QED
  BY <1>5, <1>6, <1>7 DEF QualityTypeOK

LEMMA PlaybackSteps == QualityInv /\ [PlaybackNext]_playbackVars => QualityInv'
<1> SUFFICES ASSUME QualityInv, [PlaybackNext]_playbackVars PROVE QualityInv'
  OBVIOUS
<1>1. [BlocksNext]_blockVars
  BY DEF PlaybackNext, TickQuality, ResetQuality, playbackVars
<1>2. BlocksInv' /\ MarksInv'
  BY <1>1, BlocksStep, MarksStep DEF QualityInv
<1>3. QualityTypeOK' /\ RampRuns'
  <2>1. CASE UNCHANGED qualityVars
    BY <2>1 DEF qualityVars, QualityInv, QualityTypeOK, RampRuns
  <2>2. CASE TickQuality
    BY <2>2, TickKeeps
  <2>3. CASE ResetQuality
    <3>1. quality' = Full /\ calm' = calm
      BY <2>3 DEF ResetQuality, QualityReset
    <3>2. Full \in MinQuality .. Full /\ MinQuality \in 1 .. Full /\ Full \in Nat
          /\ quality <= Full /\ quality \in Nat
      BY QualityConstants DEF QualityInv, QualityTypeOK
    <3>3. Ramp * (Glide - calm) \in Int
      BY QualityConstants DEF QualityInv, QualityTypeOK
    <3>4. Full >= Full - Ramp * (Glide - calm)
      BY <3>2, <3>3 DEF QualityInv, RampRuns
    <3> QED
      BY <3>1, <3>2, <3>4 DEF QualityInv, QualityTypeOK, RampRuns
  <2> QED
    BY <2>1, <2>2, <2>3 DEF PlaybackNext, playbackVars
<1> QED
  BY <1>2, <1>3 DEF QualityInv

LEMMA PlaybackStays == PlaybackSpec => []QualityInv
<1> QED
  BY PlaybackStarts, PlaybackSteps, PTL DEF PlaybackSpec

LEMMA QualityFollows == QualityInv => QualityRecovers
<1> SUFFICES ASSUME QualityInv, calm = Glide PROVE quality = Full
  BY DEF QualityRecovers
<1>1. /\ quality >= Full - Ramp * (Glide - Glide) /\ quality \in MinQuality .. Full
      /\ Full \in Nat /\ MinQuality \in 1 .. Full /\ Ramp \in Nat /\ Glide \in Nat
  BY QualityConstants DEF QualityInv, RampRuns, QualityTypeOK
<1>2. Ramp * (Glide - Glide) = 0
  BY <1>1
<1> QED
  BY <1>1, <1>2

\* The counters, the ring and the history of the consumer, and the producer's quality,
\* keep their types and bounds through process, reset and tick.
THEOREM PlaybackTypeCorrect == PlaybackSpec => [](BlocksTypeOK /\ QualityTypeOK)
<1>1. QualityInv => BlocksTypeOK /\ QualityTypeOK
  BY CountersFit DEF QualityInv
<1> QED
  BY <1>1, PlaybackStays, PTL

\* Between calls samplesEmitted is what was played of the consumed blocks plus what was
\* missed, and the stall age what was played since the last pull plus the hole after.
THEOREM SamplesAreAccounted == PlaybackSpec => []TimeIsAccounted
<1>1. QualityInv => TimeIsAccounted
  BY TimeFollows DEF QualityInv
<1> QED
  BY <1>1, PlaybackStays, PTL

\* underflowRate forgets a stall once the window and a gap between marks have passed,
\* and reads 1 when the ring has been dry for that long.
THEOREM RatesAreCurrent == PlaybackSpec => []RateIsCurrent
<1>1. QualityInv => RateIsCurrent
  BY MarksMakeRates DEF QualityInv
<1> QED
  BY <1>1, PlaybackStays, PTL

\* ResidualQualityController.tick on the measured rate: as many ticks as the ramp needs,
\* made while no sample is missed, bring full quality back.
THEOREM QualityComesBack == PlaybackSpec => []QualityRecovers
  BY QualityFollows, PlaybackStays, PTL

\* process and its variants, however they are cut into calls and blocks and however
\* often the ring is dry, play each block from where they left it, and blocks in order.
THEOREM BlocksPlayInOrder == PlaybackSpec => PlaysInOrder
<1>1. QualityInv /\ [PlaybackNext]_playbackVars
      => [left' < left /\ played' # played =>
            LET first == played'.sample - (left - left')
            IN  IF played'.block = played.block THEN first = played.sample
                ELSE first = 0 /\ played.sample = BlockSize /\ played'.block > played.block
         ]_blockVars
  <2>1. ASSUME QualityInv, [PlaybackNext]_playbackVars, left' < left, played' # played
        PROVE  LET first == played'.sample - (left - left')
               IN  IF played'.block = played.block THEN first = played.sample
                   ELSE first = 0 /\ played.sample = BlockSize /\ played'.block > played.block
    <3>1. [BlocksNext]_blockVars
      BY <2>1 DEF PlaybackNext, TickQuality, ResetQuality, playbackVars
    <3> QED
      BY <2>1, <3>1, PlayGoesOn DEF QualityInv
  <2> QED
    BY <2>1
<1> QED
  BY <1>1, PlaybackStays, PTL DEF PlaysInOrder, PlaybackSpec
===============================================================================
