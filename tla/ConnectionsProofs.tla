-------------------------- MODULE ConnectionsProofs --------------------------
(***************************************************************************)
(* Theorems about what joins the threads: the kernel the audio thread swaps *)
(* in and out (JitKernelConsumer), the messages that bring it there and the   *)
(* requests they answer (JitConnection), the queues of a MessageChannel      *)
(* (MessageChannelBridge), the plan that carries a frame from one schema to  *)
(* the next (MigratePlan), the fade from one bridge to another               *)
(* (HotSwapConsumer), the bytes the two ends of a lane find a field at        *)
(* (Connect), and the graphs whose rings are allocated and mounted            *)
(* (ConnectGraph).  Each part stands by itself.                              *)
(***************************************************************************)
EXTENDS JitConnection, MessageChannelBridge, MigratePlan, HotSwapConsumer, Connect,
        ConnectGraph, TLAPS, SequenceTheorems, WellFoundedInduction, FiniteSetTheorems,
        FunctionTheorems

-------------------------------------------------------------------------------
(* Counting up *)

LEMMA LeastOf ==
    ASSUME NEW T, T \subseteq Nat, T # {}
    PROVE  \E x \in T : \A y \in T : x <= y
<1> DEFINE Less == OpToRel(<, Nat)
<1>1. IsWellFoundedOn(Less, Nat)
  BY NatLessThanWellFounded
<1>2. \A x, y \in Nat : <<y, x>> \in Less <=> y < x
  BY DEF OpToRel
<1> HIDE DEF Less
<1>3. PICK x \in T : \A y \in T : ~ (<<y, x>> \in Less)
  BY <1>1, WFMin
<1>4. ASSUME NEW y \in T PROVE x <= y
  <2>1. x \in Nat /\ y \in Nat
    BY <1>3
  <2>2. ~(y < x)
    BY <1>2, <1>3, <2>1
  <2> QED
    BY <2>1, <2>2
<1> QED
  BY <1>4

\* Induction, over a set of numbers.
LEMMA CountUp ==
    ASSUME NEW T, 0 \in T, \A n \in Nat : n \in T => n + 1 \in T
    PROVE  Nat \subseteq T
<1> DEFINE Missing == Nat \ T
<1>1. SUFFICES ASSUME Missing # {} PROVE FALSE
  OBVIOUS
<1>2. Missing \subseteq Nat
  OBVIOUS
<1>3. \A x : x \in Missing <=> x \in Nat /\ x \notin T
  OBVIOUS
<1> HIDE DEF Missing
<1>4. PICK x \in Missing : \A y \in Missing : x <= y
  BY <1>1, <1>2, LeastOf
<1>5. x \in Nat /\ x # 0
  BY <1>3, <1>4
<1>6. x - 1 \in Nat /\ x - 1 \notin Missing /\ (x - 1) + 1 = x
  BY <1>4, <1>5
<1>7. x - 1 \in T
  BY <1>3, <1>6
<1> QED
  BY <1>3, <1>4, <1>6, <1>7

-------------------------------------------------------------------------------
(***************************************************************************)
(* Theorems about JitKernelConsumer, for every set of kernels, number of    *)
(* voice batches, window and pace of quanta.                                *)
(***************************************************************************)

\* Which generation owns which slab is known in every phase: what a swap promotes
\* in its last quantum ran alone in slab B since the window opened.
JitInv == JitTypeOK /\ SwapIsArmed /\ StateRunsOnce

\* A kernel counts its quanta modulo Laps.
LEMMA AfterType == \A n \in Counter : After(n) \in Counter
  BY JitAssumption DEF After, Counter

\* A state that has run since its birth has run once more a quantum later.
LEMMA SinceStep ==
  ASSUME clock \in Counter, clock' = After(clock),
         NEW born \in Counter, NEW n \in Counter, n = Since(born)
  PROVE  After(n) = (IF clock' >= born THEN clock' - born ELSE clock' - born + Laps)
  BY JitAssumption DEF After, Counter, Since

\* The weight of the incoming kernel is a part of the whole, and is 0 when the
\* window opens.
LEMMA WeightRange ==
  ASSUME NEW t \in {NotOpen} \cup 0 .. Window
  PROVE  WeightAt(t, Window) \in 0 .. Whole /\ WeightAt(0, Window) = 0
<1> DEFINE q == Whole \div Window
<1>1. Whole \in Nat \ {0} /\ Window \in Nat \ {0} /\ q \in Int
  BY JitAssumption, CrossfadeAssumption
<1>2. Whole = q * Window
  BY <1>1, JitAssumption
<1>3. q >= 0
  BY <1>1
<1>4. ASSUME NEW u \in 0 .. Window PROVE u * q \in 0 .. Whole
  BY <1>1, <1>2, <1>3, <1>4
<1> QED
  BY <1>1, <1>4 DEF WeightAt, NotOpen

\* The gains when one kernel is heard are weights.
LEMMA OnlyType == \A k \in Kernels \cup {Js} : Only(k) \in [Kernels \cup {Js} -> 0 .. Whole]
  BY CrossfadeAssumption DEF Only

\* Before the first quantum only the fallback is there, and it is cold.
LEMMA JitInitInv == JitInit => JitInv
<1> SUFFICES ASSUME JitInit PROVE JitInv
  OBVIOUS
<1> USE JitAssumption, CrossfadeAssumption DEF JitInit, FadeInit
<1>1. JitTypeOK
  <2>1. Cold \in [Batches -> Counter] /\ 0 \in Counter
    BY DEF Cold, Counter
  <2>2. gain \in [Kernels \cup {Js} -> 0 .. Whole]
    BY OnlyType
  <2>3. age \in {NotOpen} \cup 0 .. Window /\ gap \in 0 .. MaxGap /\ countdown \in 0 .. 1
    OBVIOUS
  <2>4. snapped \in BOOLEAN /\ phase \in {"idle", "priming", "fading", "complete"}
    OBVIOUS
  <2> QED
    BY <2>1, <2>2, <2>3, <2>4 DEF JitTypeOK
<1>2. SwapIsArmed
  BY DEF SwapIsArmed, Swapping
<1>3. StateRunsOnce
  BY DEF StateRunsOnce, Since, Cold
<1> QED
  BY <1>1, <1>2, <1>3 DEF JitInv

\* An install replaces the incoming generation and its slab, and nothing else.
LEMMA InstallInv ==
  ASSUME JitInv, NEW k \in Kernels, Free(k), Install(k)
  PROVE  JitInv'
<1> USE JitAssumption, CrossfadeAssumption DEF JitInv, Install, births
<1>1. JitTypeOK'
  <2>1. Seeded \in [Batches -> Counter]
    BY DEF Seeded, Cold, Counter
  <2>2. snapped' \in BOOLEAN
    BY DEF JitTypeOK
  <2> QED
    BY <2>1, <2>2 DEF JitTypeOK
<1>2. SwapIsArmed'
  BY DEF SwapIsArmed, Swapping, Free
<1>3. StateRunsOnce'
  BY DEF StateRunsOnce, Since, Seeded, Cold
<1> QED
  BY <1>1, <1>2, <1>3 DEF JitInv

\* A revert leaves the current slab as it is, so the fallback goes on in it.
LEMMA ForceJsInv ==
  ASSUME JitInv, ForceJs
  PROVE  JitInv'
<1> USE JitAssumption, CrossfadeAssumption DEF JitInv, ForceJs, Revert, IncomingAfterRevert
<1>1. JitTypeOK'
  BY DEF JitTypeOK, slabVars, births
<1>2. SwapIsArmed'
  BY DEF SwapIsArmed, Swapping
<1>3. StateRunsOnce'
  BY DEF StateRunsOnce, Since, slabVars, births
<1> QED
  BY <1>1, <1>2, <1>3 DEF JitInv

\* Running a slab keeps its type and its distance from the birth of its generation.
LEMMA RunStep ==
  ASSUME NEW slab \in [Batches -> Counter], NEW born \in Counter,
         clock \in Counter, clock' = After(clock)
  PROVE  /\ Run(slab) \in [Batches -> Counter]
         /\ (\A b \in Batches : slab[b] = Since(born)) =>
                \A b \in Batches : Run(slab)[b] =
                    (IF clock' >= born THEN clock' - born ELSE clock' - born + Laps)
<1>1. Run(slab) \in [Batches -> Counter]
  BY AfterType DEF Run
<1>2. ASSUME \A b \in Batches : slab[b] = Since(born), NEW b \in Batches
      PROVE  Run(slab)[b] =
                 (IF clock' >= born THEN clock' - born ELSE clock' - born + Laps)
  <2>1. Run(slab)[b] = After(slab[b]) /\ slab[b] \in Counter /\ slab[b] = Since(born)
    BY <1>2 DEF Run
  <2> QED
    BY <2>1, SinceStep
<1> QED
  BY <1>1, <1>2

\* A generation that first runs in this quantum is as old as its slab says.
LEMMA FirstRun ==
  ASSUME NEW slab \in [Batches -> Counter], clock \in Counter,
         \A b \in Batches : slab[b] = 0
  PROVE  \A b \in Batches : slab[b] = Since(clock)
  BY DEF Since, Counter

\* The age of an open window never exceeds the window.
LEMMA AgeType ==
  ASSUME JitTypeOK, NEW d \in 0 .. MaxGap
  PROVE  /\ AgeNow(d) \in {NotOpen} \cup 0 .. Window
         /\ WeightNow(d) \in 0 .. Whole
         /\ phase = "priming" => WeightNow(d) = 0
<1>1. AgeNow(d) \in {NotOpen} \cup 0 .. Window
  BY JitAssumption, CrossfadeAssumption DEF AgeNow, JitTypeOK, Least, NotOpen
<1>2. phase = "priming" => AgeNow(d) = 0
  BY DEF AgeNow
<1> QED
  BY <1>1, <1>2, WeightRange, CrossfadeAssumption DEF WeightNow

\* A quantum without a swap runs the current slab once.
LEMMA SteadyInv ==
  ASSUME JitInv, NEW d \in 0 .. MaxGap, Steady(d)
  PROVE  JitInv'
<1> USE JitAssumption, CrossfadeAssumption DEF JitInv, Steady, Passes, Retire
<1>1. /\ Run(slabA) \in [Batches -> Counter]
      /\ \A b \in Batches : Run(slabA)[b] =
             (IF clock' >= bornA THEN clock' - bornA ELSE clock' - bornA + Laps)
  BY RunStep DEF JitTypeOK, StateRunsOnce
<1>2. JitTypeOK'
  <2>1. current \in Kernels \cup {Js} /\ gain' \in [Kernels \cup {Js} -> 0 .. Whole]
    BY OnlyType DEF JitTypeOK
  <2>2. clock' \in Counter /\ age' \in {NotOpen} \cup 0 .. Window
    BY AgeType, AfterType DEF JitTypeOK
  <2>3. countdown' \in 0 .. 1 /\ retiring' \in Kernels \cup {None}
    BY DEF JitTypeOK
  <2> QED
    BY <1>1, <2>1, <2>2, <2>3 DEF JitTypeOK
<1>3. SwapIsArmed'
  BY DEF SwapIsArmed, Swapping, JitTypeOK
<1>4. StateRunsOnce'
  BY <1>1 DEF StateRunsOnce, Since, Swapping
<1> QED
  BY <1>2, <1>3, <1>4 DEF JitInv

\* While a swap is under way slab B belongs to the incoming kernel, also in the
\* quantum that opens the window.
LEMMA IncomingRun ==
  ASSUME JitInv, Swapping, clock' = After(clock)
  PROVE  /\ Born \in Counter
         /\ Run(slabB) \in [Batches -> Counter]
         /\ \A b \in Batches : Run(slabB)[b] =
                (IF clock' >= Born THEN clock' - Born ELSE clock' - Born + Laps)
<1> USE DEF JitInv
<1>1. Born \in Counter
  BY DEF Born, JitTypeOK
<1>2. \A b \in Batches : slabB[b] = Since(Born)
  <2>1. CASE phase = "priming"
    BY <2>1, FirstRun DEF Born, StateRunsOnce, JitTypeOK
  <2>2. CASE phase = "fading"
    BY <2>2 DEF Born, StateRunsOnce
  <2> QED
    BY <2>1, <2>2 DEF Swapping
<1> QED
  BY <1>1, <1>2, RunStep DEF JitTypeOK

\* A blended quantum runs each slab once; the one that opens the window is the
\* incoming generation's first.
LEMMA BlendInv ==
  ASSUME JitInv, NEW d \in 0 .. MaxGap, Blend(d)
  PROVE  JitInv'
<1> USE JitAssumption, CrossfadeAssumption DEF JitInv, Blend, Passes, Retire
<1>1. /\ Run(slabA) \in [Batches -> Counter]
      /\ \A b \in Batches : Run(slabA)[b] =
             (IF clock' >= bornA THEN clock' - bornA ELSE clock' - bornA + Laps)
  BY RunStep DEF JitTypeOK, StateRunsOnce
<1>2. /\ Born \in Counter /\ Run(slabB) \in [Batches -> Counter]
      /\ \A b \in Batches : Run(slabB)[b] =
             (IF clock' >= Born THEN clock' - Born ELSE clock' - Born + Laps)
  BY IncomingRun
<1>3. gain' \in [Kernels \cup {Js} -> 0 .. Whole]
  <2>1. WeightNow(d) \in 0 .. Whole /\ Whole - WeightNow(d) \in 0 .. Whole
    BY AgeType
  <2>2. Only(current) \in [Kernels \cup {Js} -> 0 .. Whole]
    BY OnlyType DEF JitTypeOK
  <2> QED
    BY <2>1, <2>2
<1>4. JitTypeOK'
  <2>1. clock' \in Counter /\ age' \in {NotOpen} \cup 0 .. Window
    BY AgeType, AfterType DEF JitTypeOK
  <2>2. countdown' \in 0 .. 1 /\ retiring' \in Kernels \cup {None}
    BY DEF JitTypeOK
  <2> QED
    BY <1>1, <1>2, <1>3, <2>1, <2>2 DEF JitTypeOK
<1>5. SwapIsArmed'
  BY DEF SwapIsArmed, Swapping, JitTypeOK
<1>6. StateRunsOnce'
  BY <1>1, <1>2 DEF StateRunsOnce, Since
<1> QED
  BY <1>4, <1>5, <1>6 DEF JitInv

\* An abort has run both slabs, and keeps the current one.
LEMMA AbortInv ==
  ASSUME JitInv, NEW d \in 0 .. MaxGap, Abort(d)
  PROVE  JitInv'
<1> USE JitAssumption, CrossfadeAssumption
    DEF JitInv, Abort, Revert, IncomingAfterRevert, AfterAbort
<1>1. /\ Run(slabA) \in [Batches -> Counter]
      /\ \A b \in Batches : Run(slabA)[b] =
             (IF clock' >= bornA THEN clock' - bornA ELSE clock' - bornA + Laps)
  BY RunStep DEF JitTypeOK, StateRunsOnce
<1>2. Born \in Counter /\ Run(slabB) \in [Batches -> Counter]
  BY IncomingRun
<1>3. JitTypeOK'
  BY <1>1, <1>2, AfterType DEF JitTypeOK, Only
<1>4. SwapIsArmed'
  BY DEF SwapIsArmed, Swapping
<1>5. StateRunsOnce'
  BY <1>1 DEF StateRunsOnce, Since
<1> QED
  BY <1>3, <1>4, <1>5 DEF JitInv

\* The quantum of a promotion runs the promoted slab once, under its own birth.
LEMMA CompleteInv ==
  ASSUME JitInv, NEW d \in 0 .. MaxGap, Complete(d)
  PROVE  JitInv'
<1> USE JitAssumption, CrossfadeAssumption DEF JitInv, Complete, Passes, NewCurrent, Promoted
\* The window does not open and close in one quantum.
<1>1. phase = "fading" /\ incoming \in Kernels
  BY AgeType DEF Swapping, SwapIsArmed, JitTypeOK
<1>2. /\ Run(slabB) \in [Batches -> Counter]
      /\ \A b \in Batches : Run(slabB)[b] =
             (IF clock' >= bornB THEN clock' - bornB ELSE clock' - bornB + Laps)
  BY <1>1, RunStep DEF JitTypeOK, StateRunsOnce
<1>3. JitTypeOK'
  <2>1. gain' \in [Kernels \cup {Js} -> 0 .. Whole]
    BY <1>1, OnlyType
  <2>2. clock' \in Counter /\ age' \in {NotOpen} \cup 0 .. Window
    BY AgeType, AfterType DEF JitTypeOK
  <2>3. countdown' \in 0 .. 1 /\ retiring' \in Kernels \cup {None}
    BY DEF JitTypeOK
  <2> QED
    BY <1>1, <1>2, <2>1, <2>2, <2>3 DEF JitTypeOK
<1>4. SwapIsArmed'
  BY <1>1 DEF SwapIsArmed, Swapping, JitTypeOK
<1>5. StateRunsOnce'
  BY <1>2 DEF StateRunsOnce, Since
<1> QED
  BY <1>3, <1>4, <1>5 DEF JitInv

\* Every message and every quantum.
LEMMA GenerationStep == JitInv /\ [JitNext]_consumerVars => JitInv'
<1> SUFFICES ASSUME JitInv, [JitNext]_consumerVars PROVE JitInv'
  OBVIOUS
<1>1. CASE \E k \in Kernels : Free(k) /\ Install(k)
  BY <1>1, InstallInv
<1>2. CASE ForceJs
  BY <1>2, ForceJsInv
<1>3. ASSUME NEW d \in 0 .. MaxGap, Process(d) PROVE JitInv'
  BY <1>3, SteadyInv, BlendInv, AbortInv, CompleteInv DEF Process
<1>4. CASE UNCHANGED consumerVars
  BY <1>4 DEF JitInv, JitTypeOK, SwapIsArmed, StateRunsOnce, Since, Swapping,
      consumerVars, fadeVars, jitVars, kernelVars, slabVars, births
<1> QED
  BY <1>1, <1>2, <1>3, <1>4 DEF JitNext

\* Between any two quanta, whatever was installed, dropped or promoted: the kernels
\* process() calls are there, and each state has run once for each of its quanta.
THEOREM GenerationsKept == JitSpec => []JitInv
<1> QED
  BY JitInitInv, GenerationStep, PTL DEF JitSpec

\* The recurrences of both generations run exactly once a quantum, in every batch.
THEOREM RecurrencesRunOnce == JitSpec => []StateRunsOnce
  BY GenerationsKept, PTL DEF JitInv

\* A swap under way has a kernel to fade in, a completed one a kernel to play.
THEOREM SwapsAreArmed == JitSpec => []SwapIsArmed
  BY GenerationsKept, PTL DEF JitInv

\* A weight grows by at most a unit per unit of time, from 0 to the whole.
LEMMA WeightGrows ==
    ASSUME NEW w \in Nat \ {0}, Whole % w = 0
    PROVE  /\ Whole \div w \in Nat /\ WeightAt(0, w) = 0 /\ WeightAt(NotOpen, w) = 0
           /\ \A t \in Nat : WeightAt(t, w) \in 0 .. Whole /\ (t >= w => WeightAt(t, w) = Whole)
           /\ \A t, u, d \in Nat : t <= u /\ u <= t + d =>
                  /\ WeightAt(t, w) <= WeightAt(u, w)
                  /\ WeightAt(u, w) - WeightAt(t, w) <= d * (Whole \div w)
<1>1. Whole \in Nat \ {0}
  BY CrossfadeAssumption
<1>2. Whole \div w \in Nat /\ Whole = w * (Whole \div w)
  <2>1. Whole \div w \in Nat /\ Whole = w * (Whole \div w) + (Whole % w)
    BY <1>1
  <2>2. w * (Whole \div w) \in Nat
    BY <2>1
  <2> QED
    BY <2>1, <2>2
<1>3. PICK q \in Nat : q = Whole \div w /\ Whole = w * q
  BY <1>2
<1>4. \A t \in Nat : WeightAt(t, w) = IF t >= w THEN w * q ELSE t * q
  BY <1>3 DEF WeightAt, NotOpen
<1>5. \A t \in Nat : t * q \in Nat
  OBVIOUS
<1>6. \A t, u \in Nat : t <= u => t * q <= u * q
  <2>1. TAKE t, u \in Nat
  <2>2. HAVE t <= u
  <2>3. PICK n \in Nat : u = t + n
    BY <2>2
  <2>4. u * q = t * q + n * q /\ n * q \in Nat /\ t * q \in Nat
    BY <2>3
  <2> QED
    BY <2>4
<1>7. \A t, d \in Nat : (t + d) * q = t * q + d * q
  OBVIOUS
<1>8. \A t \in Nat : WeightAt(t, w) \in 0 .. Whole /\ (t >= w => WeightAt(t, w) = Whole)
  BY <1>1, <1>3, <1>4, <1>5, <1>6
<1>9. WeightAt(0, w) = 0 /\ WeightAt(NotOpen, w) = 0
  BY <1>4 DEF WeightAt
<1>10. ASSUME NEW t \in Nat, NEW u \in Nat, NEW d \in Nat, t <= u, u <= t + d
       PROVE  WeightAt(t, w) <= WeightAt(u, w)
              /\ WeightAt(u, w) - WeightAt(t, w) <= d * q
  <2>1. /\ t * q \in Nat /\ u * q \in Nat /\ d * q \in Nat /\ w * q \in Nat
        /\ t * q <= u * q /\ u * q <= t * q + d * q
    <3>1. (t + d) * q = t * q + d * q /\ u * q <= (t + d) * q /\ t * q <= u * q
      BY <1>6, <1>7, <1>10
    <3> QED
      BY <1>5, <3>1
  <2>2. CASE u < w
    <3>1. WeightAt(t, w) = t * q /\ WeightAt(u, w) = u * q
      BY <1>4, <1>10, <2>2
    <3> QED
      BY <2>1, <3>1
  <2>3. CASE u >= w /\ t < w
    <3>1. WeightAt(t, w) = t * q /\ WeightAt(u, w) = w * q
      BY <1>4, <1>10, <2>3
    <3>2. t * q <= w * q /\ w * q <= u * q
      BY <1>6, <2>3
    <3> QED
      BY <2>1, <3>1, <3>2
  <2>4. CASE t >= w
    <3>1. WeightAt(t, w) = w * q /\ WeightAt(u, w) = w * q
      BY <1>4, <1>10, <2>4
    <3> QED
      BY <2>1, <3>1
  <2> QED
    BY <2>2, <2>3, <2>4
<1> QED
  BY <1>3, <1>8, <1>9, <1>10

\* The gains are those of the phase, unless a kernel was dropped since.
GainsFollow ==
    ~snapped =>
        /\ phase # "fading" => gain = Only(current)
        /\ phase = "fading" => gain = [Only(current) EXCEPT
                                          ![current] = Whole - WeightAt(age, Window),
                                          ![incoming] = WeightAt(age, Window)]

AgeFollows == phase = "fading" => age \in 0 .. Window - 1

GainsInv == JitInv /\ GainsFollow /\ AgeFollows

\* A quantum of a swap under way: the window opens, or has been open for d more.
LEMMA WindowOpens ==
    ASSUME GainsInv, NEW d \in 0 .. MaxGap, Swapping
    PROVE  /\ AgeNow(d) \in 0 .. Window /\ WeightNow(d) = WeightAt(AgeNow(d), Window)
           /\ WeightNow(d) < Whole => AgeNow(d) < Window
           /\ phase = "priming" => WeightNow(d) = 0
           /\ phase = "fading" => /\ age \in 0 .. Window - 1
                                  /\ age <= AgeNow(d) /\ AgeNow(d) <= age + d
<1>1. Window \in Nat \ {0} /\ Whole % Window = 0 /\ MaxGap \in Nat /\ d \in Nat
  BY JitAssumption, CrossfadeAssumption
<1>2. phase \in {"priming", "fading"}
  BY DEF Swapping
<1>3. CASE phase = "priming"
  <2>1. AgeNow(d) = 0
    BY <1>3 DEF AgeNow
  <2> QED
    BY <1>1, <1>3, <2>1, WeightGrows DEF WeightNow, Swapping
<1>4. CASE phase = "fading"
  <2>1. age \in 0 .. Window - 1 /\ age # NotOpen
    BY <1>1, <1>4 DEF GainsInv, AgeFollows, NotOpen
  <2>2. AgeNow(d) = Least(age + d, Window)
    BY <1>4, <2>1 DEF AgeNow
  <2>3. AgeNow(d) \in 0 .. Window /\ age <= AgeNow(d) /\ AgeNow(d) <= age + d
    BY <1>1, <2>1, <2>2 DEF Least
  <2>4. WeightNow(d) = WeightAt(AgeNow(d), Window)
    BY <1>4 DEF WeightNow, Swapping
  <2>5. AgeNow(d) >= Window => WeightNow(d) = Whole
    BY <1>1, <2>3, <2>4, WeightGrows
  <2>6. WeightNow(d) < Whole => AgeNow(d) < Window
    BY <1>1, <2>3, <2>5, CrossfadeAssumption
  <2> QED
    BY <1>4, <2>1, <2>3, <2>4, <2>6
<1> QED
  BY <1>2, <1>3, <1>4

LEMMA GainsStart == JitInit => GainsInv
  BY JitInitInv DEF GainsInv, GainsFollow, AgeFollows, JitInit, FadeInit

LEMMA GainsSteps == GainsInv /\ [JitNext]_consumerVars => GainsInv'
<1> SUFFICES ASSUME GainsInv, [JitNext]_consumerVars PROVE GainsInv'
  OBVIOUS
<1>1. JitInv'
  BY GenerationStep DEF GainsInv
<1>2. ASSUME NEW k \in Kernels, Install(k) PROVE GainsFollow' /\ AgeFollows'
  <2>1. ~snapped' => ~snapped /\ phase # "fading"
    BY <1>2 DEF Install
  <2> QED
    BY <1>2, <2>1 DEF Install, GainsInv, GainsFollow, AgeFollows
<1>3. ASSUME ForceJs PROVE GainsFollow' /\ AgeFollows'
  <2>1. snapped' /\ phase' # "fading"
    BY <1>3 DEF ForceJs, Revert
  <2> QED
    BY <2>1 DEF GainsFollow, AgeFollows
<1>4. ASSUME NEW d \in 0 .. MaxGap, Steady(d) PROVE GainsFollow' /\ AgeFollows'
  BY <1>4 DEF Steady, Swapping, GainsFollow, AgeFollows
<1>5. ASSUME NEW d \in 0 .. MaxGap, Blend(d) PROVE GainsFollow' /\ AgeFollows'
  <2>1. AgeNow(d) \in 0 .. Window /\ WeightNow(d) = WeightAt(AgeNow(d), Window)
        /\ AgeNow(d) < Window
    BY <1>5, WindowOpens DEF Blend
  <2>2. age' = AgeNow(d) /\ current' = current /\ incoming' = incoming /\ phase' = "fading"
        /\ gain' = [Only(current) EXCEPT
                       ![current] = Whole - WeightNow(d), ![incoming] = WeightNow(d)]
    BY <1>5 DEF Blend, Passes
  <2>3. AgeFollows'
    BY <2>1, <2>2, JitAssumption DEF AgeFollows
  <2> QED
    BY <2>1, <2>2, <2>3 DEF GainsFollow, Only
<1>6. ASSUME NEW d \in 0 .. MaxGap, Abort(d) PROVE GainsFollow' /\ AgeFollows'
  <2>1. snapped' /\ phase' # "fading"
    BY <1>6 DEF Abort, Revert
  <2> QED
    BY <2>1 DEF GainsFollow, AgeFollows
<1>7. ASSUME NEW d \in 0 .. MaxGap, Complete(d) PROVE GainsFollow' /\ AgeFollows'
  <2>1. phase' = "complete" /\ current' = incoming /\ gain' = Only(incoming)
    BY <1>7 DEF Complete, NewCurrent
  <2> QED
    BY <2>1 DEF GainsFollow, AgeFollows, Only
<1>8. ASSUME UNCHANGED consumerVars PROVE GainsFollow' /\ AgeFollows'
  <2>1. UNCHANGED <<phase, age, snapped, current, incoming, gain>>
    BY <1>8 DEF consumerVars, fadeVars, jitVars, kernelVars
  <2> QED
    BY <2>1 DEF GainsInv, GainsFollow, AgeFollows, Only, WeightAt
<1>9. GainsFollow' /\ AgeFollows'
  <2>1. CASE \E d \in 0 .. MaxGap : Process(d)
    BY <1>4, <1>5, <1>6, <1>7, <2>1 DEF Process
  <2>2. CASE \E k \in Kernels : Free(k) /\ Install(k)
    BY <1>2, <2>2
  <2> QED
    BY <1>3, <1>8, <2>1, <2>2 DEF JitNext
<1> QED
  BY <1>1, <1>9 DEF GainsInv

\* No gain moves faster than the window lets it, unless a kernel is dropped.
LEMMA GainsGlide ==
    ASSUME GainsInv, [JitNext]_consumerVars, clock' # clock, ~snapped, ~snapped',
           NEW k \in Kernels \cup {Js}
    PROVE  /\ gain'[k] - gain[k] <= gap' * (Whole \div Window)
           /\ gain[k] - gain'[k] <= gap' * (Whole \div Window)
<1> DEFINE u == Whole \div Window
<1>1. Window \in Nat \ {0} /\ Whole % Window = 0 /\ MaxGap \in Nat /\ Whole \in Nat
  BY JitAssumption, CrossfadeAssumption
<1>2. u \in Nat
  BY <1>1, WeightGrows
<1> HIDE DEF u
<1>3. \A d \in Nat : d * u \in Nat
  BY <1>2
<1>4. current \in Kernels \cup {Js} /\ incoming # current /\ (Swapping => incoming \in Kernels)
      /\ gain \in [Kernels \cup {Js} -> 0 .. Whole]
  BY DEF GainsInv, JitInv, JitTypeOK, SwapIsArmed
<1>5. ASSUME NEW d \in 0 .. MaxGap, Steady(d)
      PROVE  gain'[k] - gain[k] <= gap' * u /\ gain[k] - gain'[k] <= gap' * u
  <2>1. gain' = gain /\ gap' = d
    BY <1>5 DEF Steady, Passes, GainsInv, GainsFollow, Swapping
  <2>2. d * u \in Nat /\ gain[k] \in Nat
    BY <1>1, <1>3, <1>4
  <2> QED
    BY <2>1, <2>2
<1>6. ASSUME NEW d \in 0 .. MaxGap, Swapping, gap' = d,
             NEW t \in Nat, NEW now \in Nat, t <= now, now <= t + d,
             gain = [Only(current) EXCEPT ![current] = Whole - WeightAt(t, Window),
                                          ![incoming] = WeightAt(t, Window)],
             gain' = [Only(current) EXCEPT ![current] = Whole - WeightAt(now, Window),
                                           ![incoming] = WeightAt(now, Window)]
      PROVE  gain'[k] - gain[k] <= gap' * u /\ gain[k] - gain'[k] <= gap' * u
  <2>1. d \in Nat /\ d * u \in Nat
    BY <1>1, <1>3
  <2>2. PICK x \in 0 .. Whole, y \in 0 .. Whole :
            x = WeightAt(t, Window) /\ y = WeightAt(now, Window)
    BY <1>1, WeightGrows
  <2>3. x <= y /\ y - x <= d * u
    BY <1>1, <1>6, <2>1, <2>2, WeightGrows DEF u
  <2>4. Only(current) \in [Kernels \cup {Js} -> 0 .. Whole]
    BY <1>4, OnlyType
  <2>5. CASE k = current
    <3>1. gain[k] = Whole - x /\ gain'[k] = Whole - y
      BY <1>4, <1>6, <2>2, <2>4, <2>5
    <3> QED
      BY <1>1, <1>6, <2>1, <2>3, <3>1
  <2>6. CASE k = incoming
    <3>1. gain[k] = x /\ gain'[k] = y
      BY <1>4, <1>6, <2>2, <2>4, <2>6
    <3> QED
      BY <1>6, <2>1, <2>3, <3>1
  <2>7. CASE k # current /\ k # incoming
    <3>1. gain[k] = Only(current)[k] /\ gain'[k] = Only(current)[k] /\ Only(current)[k] \in Nat
      BY <1>1, <1>4, <1>6, <2>4, <2>7
    <3> QED
      BY <1>6, <2>1, <3>1
  <2> QED
    BY <2>5, <2>6, <2>7
\* Before the window opens the gains are those of its first instant.
<1>7. ASSUME Swapping, phase = "priming"
      PROVE  gain = [Only(current) EXCEPT ![current] = Whole - WeightAt(0, Window),
                                          ![incoming] = WeightAt(0, Window)]
  <2>1. gain = Only(current) /\ WeightAt(0, Window) = 0
    BY <1>1, <1>7, WeightGrows DEF GainsInv, GainsFollow
  <2>2. Only(current)[current] = Whole - 0 /\ Only(current)[incoming] = 0
    BY <1>1, <1>4, <1>7 DEF Only
  <2>3. Only(current) \in [Kernels \cup {Js} -> 0 .. Whole]
    BY <1>4, OnlyType
  <2> QED
    BY <2>1, <2>2, <2>3
<1>8. ASSUME NEW d \in 0 .. MaxGap, Blend(d)
      PROVE  gain'[k] - gain[k] <= gap' * u /\ gain[k] - gain'[k] <= gap' * u
  <2>1. Swapping /\ gap' = d /\ AgeNow(d) \in Nat
        /\ gain' = [Only(current) EXCEPT ![current] = Whole - WeightAt(AgeNow(d), Window),
                                         ![incoming] = WeightAt(AgeNow(d), Window)]
    <3>1. Swapping /\ gap' = d
          /\ gain' = [Only(current) EXCEPT ![current] = Whole - WeightNow(d),
                                           ![incoming] = WeightNow(d)]
      BY <1>8 DEF Blend, Passes
    <3>2. AgeNow(d) \in 0 .. Window /\ WeightNow(d) = WeightAt(AgeNow(d), Window)
      BY <3>1, WindowOpens
    <3> QED
      BY <1>1, <3>1, <3>2
  <2>2. CASE phase = "priming"
    <3>1. AgeNow(d) = 0 /\ d \in Nat /\ 0 \in Nat /\ 0 <= 0 + d /\ 0 <= 0
      BY <1>1, <2>2 DEF AgeNow
    <3>2. gain = [Only(current) EXCEPT ![current] = Whole - WeightAt(0, Window),
                                       ![incoming] = WeightAt(0, Window)]
      BY <1>7, <2>1, <2>2
    <3>3. gain' = [Only(current) EXCEPT ![current] = Whole - WeightAt(0, Window),
                                        ![incoming] = WeightAt(0, Window)]
      BY <2>1, <3>1
    <3> QED
      BY <1>6, <2>1, <3>1, <3>2, <3>3
  <2>3. CASE phase = "fading"
    <3>1. age \in Nat /\ age <= AgeNow(d) /\ AgeNow(d) <= age + d
      BY <1>1, <2>1, <2>3, WindowOpens
    <3>2. gain = [Only(current) EXCEPT ![current] = Whole - WeightAt(age, Window),
                                       ![incoming] = WeightAt(age, Window)]
      BY <2>3 DEF GainsInv, GainsFollow
    <3> QED
      BY <1>6, <2>1, <3>1, <3>2
  <2> QED
    BY <2>1, <2>2, <2>3 DEF Swapping
<1>9. ASSUME NEW d \in 0 .. MaxGap, Complete(d)
      PROVE  gain'[k] - gain[k] <= gap' * u /\ gain[k] - gain'[k] <= gap' * u
  <2>1. Swapping /\ gap' = d /\ WeightNow(d) = Whole /\ gain' = Only(incoming)
    BY <1>9 DEF Complete, Passes
  <2>2. phase = "fading" /\ AgeNow(d) \in Nat /\ WeightAt(AgeNow(d), Window) = Whole
        /\ age \in Nat /\ age <= AgeNow(d) /\ AgeNow(d) <= age + d
    BY <1>1, <2>1, WindowOpens, CrossfadeAssumption DEF Swapping
  <2>3. gain' = [Only(current) EXCEPT ![current] = Whole - WeightAt(AgeNow(d), Window),
                                      ![incoming] = WeightAt(AgeNow(d), Window)]
    <3>1. Whole - WeightAt(AgeNow(d), Window) = 0
      BY <1>1, <2>2
    <3> QED
      BY <1>4, <2>1, <2>2, <3>1 DEF Only
  <2>4. gain = [Only(current) EXCEPT ![current] = Whole - WeightAt(age, Window),
                                     ![incoming] = WeightAt(age, Window)]
    BY <2>2 DEF GainsInv, GainsFollow
  <2> QED
    BY <1>6, <2>1, <2>2, <2>3, <2>4
<1>10. \E d \in 0 .. MaxGap : Steady(d) \/ Blend(d) \/ Complete(d)
  <2>1. CASE \E j \in Kernels : Install(j)
    BY <2>1 DEF Install, births
  <2>2. CASE ForceJs
    BY <2>2 DEF ForceJs, births
  <2>3. CASE \E d \in 0 .. MaxGap : Abort(d)
    BY <2>3 DEF Abort, Revert
  <2>4. CASE UNCHANGED consumerVars
    BY <2>4 DEF consumerVars, jitVars, births
  <2> QED
    BY <2>1, <2>2, <2>3, <2>4 DEF JitNext, Process
<1> QED
  BY <1>5, <1>8, <1>9, <1>10 DEF u

\* No kernel's gain jumps, for every window and every pace of quanta: from one quantum
\* to the next it follows the window, unless a kernel was dropped in between.
THEOREM GainsNeverJump == JitSpec => NoJump
<1>1. GainsInv /\ [JitNext]_consumerVars
      => [\/ clock' = clock \/ snapped \/ snapped'
          \/ \A k \in Kernels \cup {Js} :
                 /\ gain'[k] - gain[k] <= gap' * (Whole \div Window)
                 /\ gain[k] - gain'[k] <= gap' * (Whole \div Window)]_consumerVars
  BY GainsGlide
<1> QED
  BY <1>1, GainsStart, GainsSteps, PTL DEF JitSpec, NoJump

-------------------------------------------------------------------------------
(***************************************************************************)
(* The queue of an open bridge holds the newest run of what has arrived, for  *)
(* every capacity of either queue and every number of frames.               *)
(*                                                                         *)
(* QueueIsFreshest says nothing of the frames under way, and they are what    *)
(* the queue is made of next.  The strengthening is one line of frames: what  *)
(* is under way goes on, without a gap, where what has arrived ends, and what  *)
(* was pulled last lies before the queue (InLine).                          *)
(***************************************************************************)

Typed ==
    /\ closed \in [Peers -> BOOLEAN]
    /\ queue \in [Peers -> Seq(Nat)] /\ wire \in [Peers -> Seq(Nat)]
    /\ pushedCount \in [Peers -> Nat] /\ lastPulled \in [Peers -> Nat]

\* n frames have been pushed to a peer, and these are its wire, its queue and the
\* frame it pulled last.
InLine(n, w, q, last) ==
    /\ Len(w) <= n
    /\ \A i \in 1 .. Len(w) : w[i] = n - Len(w) + i
    /\ \A i \in 1 .. Len(q) : q[i] = n - Len(w) - Len(q) + i
    /\ last <= n - Len(w) - Len(q)

AllInLine ==
    \A p \in Peers : ~closed[p] => InLine(pushedCount[Other(p)], wire[p], queue[p], lastPulled[p])

ChannelInv == Typed /\ AllInLine

\* Each of the two peers is the other's other.
LEMMA TwoPeers ==
    /\ \A p \in Peers : Other(p) \in Peers /\ Other(p) # p
    /\ \A p, q \in Peers : p # q <=> q = Other(p)
<1>1. PICK p, q \in Peers : p # q /\ Peers = {p, q}
  BY ChannelAssumption
<1>2. \A r \in Peers : \E s \in Peers : s # r
  BY <1>1
<1>3. \A r \in Peers : Other(r) \in Peers /\ Other(r) # r
  BY <1>2 DEF Other
<1> QED
  BY <1>1, <1>3

\* A frame pushed onto the wire goes on where the last one ended.
LEMMA PushedInLine ==
    ASSUME NEW n \in Nat, NEW w \in Seq(Nat), NEW q \in Seq(Nat), NEW last \in Nat,
           InLine(n, w, q, last)
    PROVE  InLine(n + 1, Append(w, n + 1), q, last)
<1>1. Len(Append(w, n + 1)) = Len(w) + 1 /\ Len(w) \in Nat /\ Len(q) \in Nat
  OBVIOUS
<1>2. ASSUME NEW i \in 1 .. Len(w) + 1
      PROVE  Append(w, n + 1)[i] = n + 1 - (Len(w) + 1) + i
  <2>1. CASE i = Len(w) + 1
    BY <2>1, <1>1
  <2>2. CASE i \in 1 .. Len(w)
    <3>1. Append(w, n + 1)[i] = w[i]
      BY <2>2
    <3> QED
      BY <3>1, <2>2, <1>1 DEF InLine
  <2> QED
    BY <2>1, <2>2, <1>1
<1> QED
  BY <1>1, <1>2 DEF InLine

\* An arriving frame is the next of the queue, whether or not it evicts the first.
LEMMA ArrivedInLine ==
    ASSUME NEW n \in Nat, NEW w \in Seq(Nat), NEW q \in Seq(Nat), NEW last \in Nat,
           w # <<>>, InLine(n, w, q, last)
    PROVE  /\ InLine(n, Tail(w), Append(q, Head(w)), last)
           /\ q # <<>> => InLine(n, Tail(w), Append(Tail(q), Head(w)), last)
<1>1. /\ Len(w) \in Nat /\ Len(w) >= 1 /\ Len(q) \in Nat
      /\ Len(Tail(w)) = Len(w) - 1 /\ Tail(w) \in Seq(Nat)
      /\ Head(w) = w[1] /\ Head(w) \in Nat
  OBVIOUS
<1>2. Head(w) = n - Len(w) + 1
  BY <1>1 DEF InLine
<1>3. \A i \in 1 .. Len(Tail(w)) : Tail(w)[i] = n - Len(Tail(w)) + i
  <2> SUFFICES ASSUME NEW i \in 1 .. Len(Tail(w)) PROVE Tail(w)[i] = n - Len(Tail(w)) + i
    OBVIOUS
  <2>1. Tail(w)[i] = w[i + 1] /\ i + 1 \in 1 .. Len(w)
    BY <1>1
  <2> QED
    BY <2>1, <1>1 DEF InLine
<1>4. ASSUME NEW r \in Seq(Nat), Len(r) <= Len(q),
             \A i \in 1 .. Len(r) : r[i] = n - Len(w) - Len(r) + i
      PROVE  InLine(n, Tail(w), Append(r, Head(w)), last)
  <2>1. Len(Append(r, Head(w))) = Len(r) + 1 /\ Len(r) \in Nat
    OBVIOUS
  <2>2. ASSUME NEW i \in 1 .. Len(r) + 1
        PROVE  Append(r, Head(w))[i] = n - Len(Tail(w)) - (Len(r) + 1) + i
    <3>1. CASE i = Len(r) + 1
      BY <3>1, <2>1, <1>1, <1>2
    <3>2. CASE i \in 1 .. Len(r)
      <4>1. Append(r, Head(w))[i] = r[i]
        BY <3>2
      <4> QED
        BY <4>1, <3>2, <2>1, <1>1, <1>4
    <3> QED
      BY <3>1, <3>2, <2>1
  <2>3. last <= n - Len(Tail(w)) - (Len(r) + 1)
    BY <2>1, <1>1, <1>4 DEF InLine
  <2>4. \A i \in 1 .. Len(Append(r, Head(w))) :
            Append(r, Head(w))[i] = n - Len(Tail(w)) - Len(Append(r, Head(w))) + i
    BY <2>1, <2>2
  <2>5. last <= n - Len(Tail(w)) - Len(Append(r, Head(w)))
    BY <2>1, <2>3
  <2> QED
    BY <2>4, <2>5, <1>3 DEF InLine
<1>5. InLine(n, Tail(w), Append(q, Head(w)), last)
  BY <1>4, <1>1 DEF InLine
<1>6. ASSUME q # <<>> PROVE InLine(n, Tail(w), Append(Tail(q), Head(w)), last)
  <2>1. Tail(q) \in Seq(Nat) /\ Len(Tail(q)) = Len(q) - 1 /\ Len(q) >= 1
    BY <1>6
  <2>2. ASSUME NEW i \in 1 .. Len(Tail(q)) PROVE Tail(q)[i] = n - Len(w) - Len(Tail(q)) + i
    <3>1. Tail(q)[i] = q[i + 1] /\ i + 1 \in 1 .. Len(q)
      BY <2>1
    <3> QED
      BY <3>1, <2>1, <1>1 DEF InLine
  <2>3. Len(Tail(q)) <= Len(q) /\ Tail(q) \in Seq(Nat)
    BY <2>1, <1>1
  <2> HIDE DEF InLine
  <2> QED
    BY <2>2, <2>3, <1>4
<1> QED
  BY <1>5, <1>6

\* A pull takes the first of the queue, which is past what was pulled before.
LEMMA PulledInLine ==
    ASSUME NEW n \in Nat, NEW w \in Seq(Nat), NEW q \in Seq(Nat), NEW last \in Nat,
           q # <<>>, InLine(n, w, q, last)
    PROVE  InLine(n, w, Tail(q), Head(q))
<1>1. /\ Len(w) \in Nat /\ Len(q) \in Nat /\ Len(q) >= 1
      /\ Len(Tail(q)) = Len(q) - 1 /\ Head(q) = q[1]
  OBVIOUS
<1>2. ASSUME NEW i \in 1 .. Len(Tail(q)) PROVE Tail(q)[i] = n - Len(w) - Len(Tail(q)) + i
  <2>1. Tail(q)[i] = q[i + 1] /\ i + 1 \in 1 .. Len(q)
    BY <1>1
  <2> QED
    BY <2>1, <1>1 DEF InLine
<1> QED
  BY <1>1, <1>2 DEF InLine

\* Nothing is under way, queued or pulled at the start.
LEMMA InitInLine == ChannelInit => ChannelInv
<1> SUFFICES ASSUME ChannelInit PROVE ChannelInv
  OBVIOUS
<1>1. Typed
  BY DEF ChannelInit, Typed, Zero
<1>2. ASSUME NEW p \in Peers
      PROVE  InLine(pushedCount[Other(p)], wire[p], queue[p], lastPulled[p])
  <2>1. Other(p) \in Peers
    BY TwoPeers
  <2>2. /\ wire[p] = <<>> /\ queue[p] = <<>>
        /\ pushedCount[Other(p)] = 0 /\ lastPulled[p] = 0
    BY <2>1 DEF ChannelInit, Zero
  <2> QED
    BY <2>2 DEF InLine
<1> QED
  BY <1>1, <1>2 DEF ChannelInv, AllInLine

\* Every step keeps every peer in line: its own and, by a push, the other's.
LEMMA StepInLine == ChannelInv /\ [ChannelNext]_channelVars => ChannelInv'
<1> SUFFICES ASSUME ChannelInv, [ChannelNext]_channelVars PROVE ChannelInv'
  OBVIOUS
<1> USE DEF Typed
<1>1. ASSUME NEW p \in Peers, Push(p) PROVE ChannelInv'
  <2>1. /\ Other(p) \in Peers /\ Other(p) # p /\ Other(Other(p)) = p
        /\ \A q \in Peers : q # Other(p) => q = p
    BY TwoPeers
  <2>2. pushedCount[p] + 1 \in Nat
    BY DEF ChannelInv
  <2>3. Typed'
    BY <1>1, <2>1, <2>2, SMTT(30) DEF ChannelInv, Push
  <2>4. ASSUME NEW q \in Peers, ~closed'[q]
        PROVE  InLine(pushedCount[Other(q)], wire[q], queue[q], lastPulled[q])'
    <3>1. ~closed[q] /\ InLine(pushedCount[Other(q)], wire[q], queue[q], lastPulled[q])
      BY <1>1, <2>4 DEF ChannelInv, AllInLine, Push
    <3>2. queue'[q] = queue[q] /\ lastPulled'[q] = lastPulled[q]
      BY <1>1 DEF Push
    <3>3. CASE q = p
      <4>1. wire'[q] = wire[q] /\ pushedCount'[Other(q)] = pushedCount[Other(q)]
        BY <1>1, <2>1, <3>3 DEF ChannelInv, Push
      <4> QED
        BY <3>1, <3>2, <4>1 DEF InLine
    <3>4. CASE q = Other(p)
      <4>1. wire'[q] = Append(wire[q], pushedCount[p] + 1)
        BY <1>1, <2>1, <3>1, <3>4 DEF ChannelInv, Push
      <4>2. pushedCount'[Other(q)] = pushedCount[p] + 1
        BY <1>1, <2>1, <3>4 DEF ChannelInv, Push
      <4>3. InLine(pushedCount[p], wire[q], queue[q], lastPulled[q])
        BY <2>1, <3>1, <3>4
      <4>4. InLine(pushedCount[p] + 1, Append(wire[q], pushedCount[p] + 1), queue[q], lastPulled[q])
        BY <4>3, PushedInLine DEF ChannelInv
      <4> QED
        BY <4>1, <4>2, <4>4, <3>2 DEF InLine
    <3> QED
      BY <2>1, <3>3, <3>4
  <2> QED
    BY <2>3, <2>4 DEF ChannelInv, AllInLine
<1>2. ASSUME NEW p \in Peers, OnChannelMessage(p) PROVE ChannelInv'
  <2>1. /\ wire[p] \in Seq(Nat) /\ wire[p] # <<>> /\ queue[p] \in Seq(Nat)
        /\ Head(wire[p]) \in Nat /\ Tail(wire[p]) \in Seq(Nat)
    BY <1>2 DEF ChannelInv, OnChannelMessage
  <2>2. Evicts(p) => queue[p] # <<>>
    <3>1. QueueCapacity[p] \in Nat \ {0}
      BY ChannelAssumption
    <3> QED
      BY <3>1 DEF Evicts
  <2>3. Enqueued(p, Head(wire[p])) \in Seq(Nat)
    BY <2>1, <2>2 DEF Enqueued
  <2>4. Typed'
    BY <1>2, <2>1, <2>3 DEF ChannelInv, OnChannelMessage
  <2>5. ASSUME NEW q \in Peers, ~closed'[q]
        PROVE  InLine(pushedCount[Other(q)], wire[q], queue[q], lastPulled[q])'
    <3>1. InLine(pushedCount[Other(q)], wire[q], queue[q], lastPulled[q])
      BY <1>2, <2>5 DEF ChannelInv, AllInLine, OnChannelMessage
    <3>2. pushedCount' = pushedCount /\ lastPulled' = lastPulled
      BY <1>2 DEF OnChannelMessage
    <3>3. CASE q # p
      <4>1. wire'[q] = wire[q] /\ queue'[q] = queue[q]
        BY <1>2, <3>3 DEF ChannelInv, OnChannelMessage
      <4> QED
        BY <3>1, <3>2, <4>1 DEF InLine
    <3>4. CASE q = p
      <4>1. wire'[p] = Tail(wire[p]) /\ queue'[p] = Enqueued(p, Head(wire[p]))
        BY <1>2 DEF ChannelInv, OnChannelMessage
      <4>2. pushedCount[Other(p)] \in Nat /\ lastPulled[p] \in Nat
        BY TwoPeers DEF ChannelInv
      <4>3. InLine(pushedCount[Other(p)], Tail(wire[p]), Enqueued(p, Head(wire[p])), lastPulled[p])
        BY <2>1, <2>2, <3>1, <3>4, <4>2, ArrivedInLine DEF Enqueued
      <4> QED
        BY <3>2, <3>4, <4>1, <4>3 DEF InLine
    <3> QED
      BY <3>3, <3>4
  <2> QED
    BY <2>4, <2>5 DEF ChannelInv, AllInLine
<1>3. ASSUME NEW p \in Peers, Pull(p) PROVE ChannelInv'
  <2>1. /\ queue[p] \in Seq(Nat) /\ queue[p] # <<>>
        /\ Head(queue[p]) \in Nat /\ Tail(queue[p]) \in Seq(Nat)
    BY <1>3 DEF ChannelInv, Pull
  <2>2. Typed'
    BY <1>3, <2>1 DEF ChannelInv, Pull
  <2>3. ASSUME NEW q \in Peers, ~closed'[q]
        PROVE  InLine(pushedCount[Other(q)], wire[q], queue[q], lastPulled[q])'
    <3>1. InLine(pushedCount[Other(q)], wire[q], queue[q], lastPulled[q])
      BY <1>3, <2>3 DEF ChannelInv, AllInLine, Pull
    <3>2. pushedCount' = pushedCount /\ wire' = wire
      BY <1>3 DEF Pull
    <3>3. CASE q # p
      <4>1. lastPulled'[q] = lastPulled[q] /\ queue'[q] = queue[q]
        BY <1>3, <3>3 DEF ChannelInv, Pull
      <4> QED
        BY <3>1, <3>2, <4>1 DEF InLine
    <3>4. CASE q = p
      <4>1. lastPulled'[p] = Head(queue[p]) /\ queue'[p] = Tail(queue[p])
        BY <1>3 DEF ChannelInv, Pull
      <4>2. pushedCount[Other(p)] \in Nat /\ lastPulled[p] \in Nat /\ wire[p] \in Seq(Nat)
        BY TwoPeers DEF ChannelInv
      <4>3. InLine(pushedCount[Other(p)], wire[p], Tail(queue[p]), Head(queue[p]))
        BY <2>1, <3>1, <3>4, <4>2, PulledInLine
      <4> QED
        BY <3>2, <3>4, <4>1, <4>3 DEF InLine
    <3> QED
      BY <3>3, <3>4
  <2> QED
    BY <2>2, <2>3 DEF ChannelInv, AllInLine
<1>4. ASSUME NEW p \in Peers, Close(p) PROVE ChannelInv'
  <2>1. Typed'
    BY <1>4 DEF ChannelInv, Close, Cleared
  <2>2. ASSUME NEW q \in Peers, ~closed'[q]
        PROVE  InLine(pushedCount[Other(q)], wire[q], queue[q], lastPulled[q])'
    <3>1. q # p /\ ~closed[q]
      BY <1>4, <2>2 DEF ChannelInv, Close
    <3>2. /\ pushedCount' = pushedCount /\ wire'[q] = wire[q]
          /\ queue'[q] = queue[q] /\ lastPulled' = lastPulled
      BY <1>4, <3>1 DEF ChannelInv, Close
    <3>3. InLine(pushedCount[Other(q)], wire[q], queue[q], lastPulled[q])
      BY <3>1 DEF ChannelInv, AllInLine
    <3> QED
      BY <3>2, <3>3 DEF InLine
  <2> QED
    BY <2>1, <2>2 DEF ChannelInv, AllInLine
<1>5. CASE UNCHANGED channelVars
  BY <1>5 DEF ChannelInv, AllInLine, InLine, channelVars
<1> QED
  BY <1>1, <1>2, <1>3, <1>4, <1>5 DEF ChannelNext

\* What is queued in line with the wire is the newest run of what has arrived.
LEMMA InLineIsFreshest == ChannelInv => QueueIsFreshest
<1> SUFFICES ASSUME ChannelInv, NEW p \in Peers, ~closed[p]
             PROVE  LET arrived == pushedCount[Other(p)] - Len(wire[p])
                    IN  /\ queue[p] = [i \in 1 .. Len(queue[p]) |-> arrived - Len(queue[p]) + i]
                        /\ queue[p] # <<>> => lastPulled[p] < Head(queue[p])
  BY DEF QueueIsFreshest
<1> DEFINE arrived == pushedCount[Other(p)] - Len(wire[p])
<1>1. /\ queue[p] \in Seq(Nat) /\ wire[p] \in Seq(Nat)
      /\ pushedCount[Other(p)] \in Nat /\ lastPulled[p] \in Nat
  BY TwoPeers DEF ChannelInv, Typed
<1>2. InLine(pushedCount[Other(p)], wire[p], queue[p], lastPulled[p])
  BY DEF ChannelInv, AllInLine
<1>3. queue[p] = [i \in 1 .. Len(queue[p]) |-> queue[p][i]]
  <2>1. queue[p] \in [1 .. Len(queue[p]) -> Nat]
    BY <1>1, LenProperties
  <2> QED
    BY <2>1
<1>4. \A i \in 1 .. Len(queue[p]) : queue[p][i] = arrived - Len(queue[p]) + i
  BY <1>2 DEF InLine
<1>5. queue[p] = [i \in 1 .. Len(queue[p]) |-> arrived - Len(queue[p]) + i]
  BY <1>3, <1>4
<1>6. queue[p] # <<>> => lastPulled[p] < Head(queue[p])
  <2> SUFFICES ASSUME queue[p] # <<>> PROVE lastPulled[p] < Head(queue[p])
    OBVIOUS
  <2>1. Len(queue[p]) \in Nat /\ Len(queue[p]) >= 1 /\ Head(queue[p]) = queue[p][1]
    BY <1>1
  <2>2. Len(wire[p]) \in Nat
    BY <1>1
  <2> QED
    BY <1>1, <1>2, <2>1, <2>2 DEF InLine
<1> QED
  BY <1>5, <1>6

\* Freshness over completeness, for queues of any length and however the messages,
\* pulls and closes of the two peers interleave.
THEOREM FreshestAlways == ChannelSpec => []QueueIsFreshest
<1>1. ChannelInit => ChannelInv
  BY InitInLine
<1>2. ChannelInv /\ [ChannelNext]_channelVars => ChannelInv'
  BY StepInLine
<1>3. ChannelInv => QueueIsFreshest
  BY InLineIsFreshest
<1> QED
  BY <1>1, <1>2, <1>3, PTL DEF ChannelSpec

\* Nothing reaches a closed peer, its queue keeps to its capacity, and what has been
\* pushed to an open one is pulled, dropped, queued or under way.
BooksOf(p) ==
    /\ closed[p] => queue[p] = <<>> /\ wire[p] = <<>>
    /\ Len(queue[p]) <= QueueCapacity[p]
    /\ pushedCount[p] <= MaxPushes /\ lastPulled[p] <= MaxPushes
    /\ LET seen == pulledCount[p] + droppedCount[p] + Len(queue[p]) + Len(wire[p])
       IN  /\ seen <= pushedCount[Other(p)]
           /\ ~closed[p] => seen = pushedCount[Other(p)]

BooksInv ==
    /\ ChannelInv
    /\ pulledCount \in [Peers -> Nat] /\ droppedCount \in [Peers -> Nat]
    /\ \A p \in Peers : BooksOf(p)

\* Empty books balance.
LEMMA InitBooks == ChannelInit => BooksInv
<1> SUFFICES ASSUME ChannelInit PROVE BooksInv
  OBVIOUS
<1>1. pulledCount \in [Peers -> Nat] /\ droppedCount \in [Peers -> Nat]
  BY DEF ChannelInit, Zero
<1>2. ASSUME NEW p \in Peers PROVE BooksOf(p)
  <2>1. Other(p) \in Peers /\ QueueCapacity[p] \in Nat /\ MaxPushes \in Nat
    BY TwoPeers, ChannelAssumption
  <2>2. /\ wire[p] = <<>> /\ queue[p] = <<>> /\ ~closed[p]
        /\ pushedCount[p] = 0 /\ pushedCount[Other(p)] = 0 /\ lastPulled[p] = 0
        /\ pulledCount[p] = 0 /\ droppedCount[p] = 0
    BY <2>1 DEF ChannelInit, Zero
  <2> QED
    BY <2>1, <2>2 DEF BooksOf
<1> QED
  BY <1>1, <1>2, InitInLine DEF BooksInv

\* The types of a peer's part of the state.
LEMMA BooksTyped ==
    ASSUME BooksInv, NEW p \in Peers
    PROVE  /\ queue[p] \in Seq(Nat) /\ wire[p] \in Seq(Nat)
           /\ Len(queue[p]) \in Nat /\ Len(wire[p]) \in Nat
           /\ droppedCount[p] \in Nat /\ pulledCount[p] \in Nat /\ lastPulled[p] \in Nat
           /\ Other(p) \in Peers /\ pushedCount[p] \in Nat /\ pushedCount[Other(p)] \in Nat
           /\ QueueCapacity[p] \in Nat \ {0} /\ MaxPushes \in Nat
<1>1. Other(p) \in Peers
  BY TwoPeers
<1>2. /\ queue[p] \in Seq(Nat) /\ wire[p] \in Seq(Nat) /\ lastPulled[p] \in Nat
      /\ pushedCount[p] \in Nat /\ pushedCount[Other(p)] \in Nat
  BY <1>1 DEF BooksInv, ChannelInv, Typed
<1>3. droppedCount[p] \in Nat /\ pulledCount[p] \in Nat
  BY DEF BooksInv
<1>4. QueueCapacity[p] \in Nat \ {0} /\ MaxPushes \in Nat
  BY ChannelAssumption
<1>5. Len(queue[p]) \in Nat /\ Len(wire[p]) \in Nat
  BY <1>2
<1> QED
  BY <1>1, <1>2, <1>3, <1>4, <1>5

\* The balance of a push, of an arrival with and without an eviction, and of a pull.
LEMMA BalanceMoves ==
    ASSUME NEW a \in Nat, NEW b \in Nat, NEW k \in Nat, NEW w \in Nat, NEW n \in Nat,
           a + b + k + w = n
    PROVE  /\ a + b + k + (w + 1) = n + 1
           /\ w >= 1 => a + (b + 1) + k + (w - 1) = n /\ w - 1 \in Nat
           /\ w >= 1 => a + b + (k + 1) + (w - 1) = n
           /\ k >= 1 => (a + 1) + b + (k - 1) + w = n /\ k - 1 \in Nat
           /\ w + 1 \in Nat /\ n + 1 \in Nat /\ a + 1 \in Nat /\ b + 1 \in Nat /\ k + 1 \in Nat
OBVIOUS

\* The books of an open peer, as numbers.
LEMMA BooksBalance ==
    ASSUME NEW p \in Peers, NEW taken \in Nat, NEW lost \in Nat, NEW queued \in Nat,
           NEW wired \in Nat, NEW pushed \in Nat,
           pulledCount'[p] = taken, droppedCount'[p] = lost, Len(queue'[p]) = queued,
           Len(wire'[p]) = wired, pushedCount'[Other(p)] = pushed, ~closed'[p],
           taken + lost + queued + wired = pushed,
           queued <= QueueCapacity[p], pushedCount'[p] <= MaxPushes, lastPulled'[p] <= MaxPushes
    PROVE  BooksOf(p)'
BY DEF BooksOf

\* The balance of a peer that is not closed.
LEMMA BalanceOf ==
    ASSUME NEW p \in Peers, BooksOf(p), ~closed[p]
    PROVE  /\ pulledCount[p] + droppedCount[p] + Len(queue[p]) + Len(wire[p]) = pushedCount[Other(p)]
           /\ Len(queue[p]) <= QueueCapacity[p] /\ pushedCount[p] <= MaxPushes
           /\ lastPulled[p] <= MaxPushes
BY DEF BooksOf

\* A step of one peer and what it leaves of the other's books.
LEMMA PushBooks ==
    ASSUME BooksInv, ChannelInv', NEW p \in Peers, Push(p)
    PROVE  BooksInv'
<1>1. /\ Other(p) \in Peers /\ Other(p) # p /\ Other(Other(p)) = p
      /\ \A q \in Peers : q # Other(p) => q = p
  BY TwoPeers
<1>2. /\ pushedCount \in [Peers -> Nat] /\ wire \in [Peers -> Seq(Nat)] /\ MaxPushes \in Nat
      /\ queue \in [Peers -> Seq(Nat)]
  BY ChannelAssumption DEF BooksInv, ChannelInv, Typed
<1>3. /\ pushedCount'[p] = pushedCount[p] + 1 /\ pushedCount[p] + 1 <= MaxPushes
      /\ pushedCount'[Other(p)] = pushedCount[Other(p)]
      /\ wire'[p] = wire[p]
      /\ wire'[Other(p)] = IF closed[Other(p)] THEN wire[Other(p)]
                           ELSE Append(wire[Other(p)], pushedCount[p] + 1)
      /\ UNCHANGED <<closed, queue, pulledCount, droppedCount, lastPulled>>
  BY <1>1, <1>2 DEF Push
<1>4. BooksOf(p)'
  BY <1>1, <1>2, <1>3 DEF BooksInv, BooksOf
<1>5. BooksOf(Other(p))'
  <2>1. BooksOf(Other(p))
    BY <1>1 DEF BooksInv
  <2>2. /\ closed'[Other(p)] = closed[Other(p)] /\ queue'[Other(p)] = queue[Other(p)]
        /\ pulledCount'[Other(p)] = pulledCount[Other(p)]
        /\ droppedCount'[Other(p)] = droppedCount[Other(p)]
        /\ lastPulled'[Other(p)] = lastPulled[Other(p)]
    BY <1>3
  <2>3. CASE closed[Other(p)]
    BY <1>1, <1>2, <1>3, <2>1, <2>2, <2>3 DEF BooksOf, BooksInv
  <2>4. CASE ~closed[Other(p)]
    <3>1. Len(wire'[Other(p)]) = Len(wire[Other(p)]) + 1
      BY <1>1, <1>2, <1>3, <2>4
    <3>2. /\ pulledCount[Other(p)] \in Nat /\ droppedCount[Other(p)] \in Nat
          /\ Len(queue[Other(p)]) \in Nat /\ Len(wire[Other(p)]) \in Nat
          /\ pushedCount[p] \in Nat
      BY <1>1, <1>2 DEF BooksInv
    <3> QED
      <4> DEFINE r == Other(p)
      <4>1. PICK a \in Nat, b \in Nat, k \in Nat, w \in Nat, n \in Nat :
                /\ a = pulledCount[r] /\ b = droppedCount[r] /\ k = Len(queue[r])
                /\ w = Len(wire[r]) /\ n = pushedCount[p] /\ a + b + k + w = n
                /\ k <= QueueCapacity[r]
        BY <1>1, <2>1, <2>4, <3>2, BalanceOf
      <4>2. a + b + k + w = n
        BY <4>1
      <4>3. /\ pulledCount'[r] = a /\ droppedCount'[r] = b /\ Len(queue'[r]) = k
            /\ Len(wire'[r]) = w + 1 /\ pushedCount'[Other(r)] = n + 1 /\ ~closed'[r]
            /\ pushedCount'[r] <= MaxPushes /\ lastPulled'[r] <= MaxPushes
        BY <1>1, <1>3, <2>1, <2>2, <2>4, <3>1, <4>1, BalanceOf
      <4> HIDE DEF r
      <4>4. r \in Peers
        BY <1>1 DEF r
      <4>5. BooksOf(r)'
        <5>1. a + b + k + (w + 1) = n + 1 /\ n + 1 \in Nat /\ w + 1 \in Nat
          BY <4>2, BalanceMoves
        <5> QED
          BY <4>1, <5>1, <4>3, <4>4, BooksBalance DEF r
      <4> QED
        BY <4>5 DEF r
  <2> QED
    BY <2>3, <2>4
<1> QED
  BY <1>1, <1>3, <1>4, <1>5 DEF BooksInv

\* A step that leaves a peer's part of the state alone leaves its books in order.
LEMMA BooksStay ==
    ASSUME NEW q \in Peers, BooksOf(q), pushedCount' = pushedCount,
           closed'[q] = closed[q], queue'[q] = queue[q], wire'[q] = wire[q],
           pulledCount'[q] = pulledCount[q], droppedCount'[q] = droppedCount[q],
           lastPulled'[q] = lastPulled[q]
    PROVE  BooksOf(q)'
BY DEF BooksOf

\* A message becomes a queued frame, of a full queue at the price of the oldest.
LEMMA MessageBooks ==
    ASSUME BooksInv, ChannelInv', NEW p \in Peers, OnChannelMessage(p)
    PROVE  BooksInv'
<1>1. queue \in [Peers -> Seq(Nat)] /\ wire \in [Peers -> Seq(Nat)]
      /\ wire[p] # <<>> /\ ~closed[p] /\ droppedCount \in [Peers -> Nat]
  BY DEF BooksInv, ChannelInv, Typed, OnChannelMessage
<1>2. /\ wire'[p] = Tail(wire[p]) /\ queue'[p] = Enqueued(p, Head(wire[p]))
      /\ droppedCount'[p] = IF Evicts(p) THEN droppedCount[p] + 1 ELSE droppedCount[p]
      /\ UNCHANGED <<closed, pushedCount, pulledCount, lastPulled>>
  BY <1>1 DEF BooksInv, OnChannelMessage
<1>3. /\ Len(wire[p]) >= 1 /\ Len(wire'[p]) = Len(wire[p]) - 1
      /\ Head(wire[p]) \in Nat
  BY <1>1, <1>2
<1>4. droppedCount' \in [Peers -> Nat]
  BY <1>1 DEF BooksInv, OnChannelMessage
<1>5. BooksOf(p)
  BY DEF BooksInv
<1>6. PICK a \in Nat, b \in Nat, k \in Nat, w \in Nat, n \in Nat :
          /\ a = pulledCount[p] /\ b = droppedCount[p] /\ k = Len(queue[p])
          /\ w = Len(wire[p]) /\ n = pushedCount[Other(p)]
  BY BooksTyped
<1>7. /\ a + b + k + w = n /\ w >= 1
      /\ k <= QueueCapacity[p] /\ pushedCount[p] <= MaxPushes /\ lastPulled[p] <= MaxPushes
  BY <1>1, <1>3, <1>5, <1>6, BalanceOf
<1>8. BooksOf(p)'
  <2>1. CASE Evicts(p)
    <3>1. queue[p] # <<>>
      <4>1. k >= 1
        BY <1>6, <2>1, BooksTyped DEF Evicts
      <4> QED
        BY <1>6, <4>1
    <3>2. Len(queue'[p]) = k
      BY <1>1, <1>2, <1>3, <1>6, <2>1, <3>1 DEF Enqueued
    <3>3. droppedCount'[p] = b + 1 /\ pulledCount'[p] = a
      BY <1>2, <1>6, <2>1
    <3>4. Len(wire'[p]) = w - 1 /\ pushedCount'[Other(p)] = n /\ ~closed'[p]
      BY <1>1, <1>2, <1>3, <1>6
    <3>5. a + (b + 1) + k + (w - 1) = n /\ w - 1 \in Nat /\ b + 1 \in Nat
      BY <1>7, BalanceMoves
    <3> QED
      BY <1>2, <1>7, <3>2, <3>3, <3>4, <3>5, BooksBalance
  <2>2. CASE ~Evicts(p)
    <3>1. Len(queue'[p]) = k + 1
      BY <1>1, <1>2, <1>3, <1>6, <2>2 DEF Enqueued
    <3>2. k + 1 <= QueueCapacity[p]
      BY <1>6, <2>2, BooksTyped DEF Evicts
    <3>3. droppedCount'[p] = b /\ pulledCount'[p] = a
      BY <1>2, <1>6, <2>2
    <3>4. Len(wire'[p]) = w - 1 /\ pushedCount'[Other(p)] = n /\ ~closed'[p]
      BY <1>1, <1>2, <1>3, <1>6
    <3>5. a + b + (k + 1) + (w - 1) = n /\ w - 1 \in Nat /\ k + 1 \in Nat
      BY <1>7, BalanceMoves
    <3> QED
      BY <1>2, <1>7, <3>1, <3>2, <3>3, <3>4, <3>5, BooksBalance
  <2> QED
    BY <2>1, <2>2
<1>9. ASSUME NEW q \in Peers, q # p PROVE BooksOf(q)'
  <2>1. wire'[q] = wire[q] /\ queue'[q] = queue[q] /\ droppedCount'[q] = droppedCount[q]
    BY <1>1, <1>9 DEF BooksInv, OnChannelMessage
  <2> QED
    BY <1>2, <2>1, BooksStay DEF BooksInv
<1> QED
  BY <1>2, <1>4, <1>8, <1>9 DEF BooksInv

\* A pull moves a frame from the queue to the count of frames pulled.
LEMMA PullBooks ==
    ASSUME BooksInv, ChannelInv', NEW p \in Peers, Pull(p)
    PROVE  BooksInv'
<1>1. /\ queue \in [Peers -> Seq(Nat)] /\ queue[p] # <<>>
      /\ lastPulled \in [Peers -> Nat] /\ pulledCount \in [Peers -> Nat]
  BY DEF BooksInv, ChannelInv, Typed, Pull
<1>2. /\ queue'[p] = Tail(queue[p]) /\ pulledCount'[p] = pulledCount[p] + 1
      /\ lastPulled'[p] = Head(queue[p])
      /\ UNCHANGED <<closed, pushedCount, droppedCount, wire>>
  BY <1>1 DEF BooksInv, Pull
<1>3. Len(queue'[p]) = Len(queue[p]) - 1
  BY <1>1, <1>2
<1>4. pulledCount' \in [Peers -> Nat]
  <2>1. pulledCount' = [pulledCount EXCEPT ![p] = pulledCount[p] + 1] /\ pulledCount[p] + 1 \in Nat
    BY <1>1 DEF Pull
  <2> QED
    BY <1>1, <2>1
<1>5. BooksOf(p) /\ pushedCount[Other(p)] <= MaxPushes
  BY TwoPeers DEF BooksInv, BooksOf
<1>6. ~closed[p]
  BY <1>1, <1>5 DEF BooksOf
<1>7. PICK a \in Nat, b \in Nat, k \in Nat, w \in Nat, n \in Nat :
          /\ a = pulledCount[p] /\ b = droppedCount[p] /\ k = Len(queue[p])
          /\ w = Len(wire[p]) /\ n = pushedCount[Other(p)]
  BY BooksTyped
<1>8. /\ a + b + k + w = n /\ k >= 1
      /\ k <= QueueCapacity[p] /\ pushedCount[p] <= MaxPushes
  <2>1. a + b + k + w = n
    BY <1>5, <1>6, <1>7, BalanceOf
  <2>2. Len(queue[p]) >= 1
    <3>1. queue[p] \in Seq(Nat) /\ queue[p] # <<>>
      BY <1>1
    <3> QED
      BY <3>1
  <2>3. k <= QueueCapacity[p] /\ pushedCount[p] <= MaxPushes
    BY <1>5, <1>7 DEF BooksOf
  <2> QED
    BY <1>7, <2>1, <2>2, <2>3
<1>10. Head(queue[p]) <= MaxPushes
  <2>1. InLine(pushedCount[Other(p)], wire[p], queue[p], lastPulled[p])
    BY <1>6 DEF BooksInv, ChannelInv, AllInLine
  <2>2. Head(queue[p]) = queue[p][1] /\ 1 \in 1 .. Len(queue[p])
    BY <1>1
  <2>3. Head(queue[p]) = n - w - k + 1 /\ n <= MaxPushes
    BY <1>5, <1>7, <2>1, <2>2 DEF InLine
  <2>4. MaxPushes \in Nat
    BY ChannelAssumption
  <2>5. n - w - k + 1 <= n
    BY <1>8
  <2>6. PICK h \in Int : h = Head(queue[p]) /\ h = n - w - k + 1 /\ h <= n
    BY <2>3, <2>5
  <2> QED
    BY <2>3, <2>4, <2>6
<1>11. BooksOf(p)'
  <2>1. Len(queue'[p]) = k - 1 /\ pulledCount'[p] = a + 1 /\ droppedCount'[p] = b
    BY <1>2, <1>3, <1>7
  <2>2. Len(wire'[p]) = w /\ pushedCount'[Other(p)] = n /\ ~closed'[p]
    BY <1>2, <1>6, <1>7
  <2>3. (a + 1) + b + (k - 1) + w = n /\ a + 1 \in Nat /\ k - 1 \in Nat
    BY <1>8, BalanceMoves
  <2>4. k - 1 <= QueueCapacity[p]
    BY <1>8, ChannelAssumption
  <2>5. pushedCount'[p] <= MaxPushes /\ lastPulled'[p] <= MaxPushes
    BY <1>2, <1>8, <1>10
  <2> QED
    BY <2>1, <2>2, <2>3, <2>4, <2>5, BooksBalance
<1>9. ASSUME NEW q \in Peers, q # p PROVE BooksOf(q)'
  <2>1. queue'[q] = queue[q] /\ pulledCount'[q] = pulledCount[q] /\ lastPulled'[q] = lastPulled[q]
    BY <1>1, <1>9 DEF BooksInv, Pull
  <2> QED
    BY <1>2, <2>1, BooksStay DEF BooksInv
<1> QED
  BY <1>2, <1>4, <1>9, <1>11 DEF BooksInv

\* close() clears the queue and what is under way, and ends the balance.
LEMMA CloseBooks ==
    ASSUME BooksInv, ChannelInv', NEW p \in Peers, Close(p)
    PROVE  BooksInv'
<1>1. /\ queue \in [Peers -> Seq(Nat)] /\ wire \in [Peers -> Seq(Nat)]
      /\ closed \in [Peers -> BOOLEAN]
      /\ Len(queue[p]) \in Nat /\ Len(wire[p]) \in Nat
      /\ droppedCount[p] \in Nat /\ pulledCount[p] \in Nat
      /\ Other(p) \in Peers /\ pushedCount[Other(p)] \in Nat
      /\ QueueCapacity[p] \in Nat \ {0} /\ MaxPushes \in Nat
  BY BooksTyped DEF BooksInv, ChannelInv, Typed
<1>2. /\ queue'[p] = <<>> /\ wire'[p] = <<>> /\ closed'[p]
      /\ UNCHANGED <<pushedCount, pulledCount, droppedCount, lastPulled>>
  BY <1>1 DEF Close, Cleared
<1>3. BooksOf(p)
  BY DEF BooksInv
<1>4. BooksOf(p)'
  <2>1. Len(queue'[p]) = 0 /\ Len(wire'[p]) = 0
    BY <1>2
  <2> QED
    <3>1. PICK a \in Nat, b \in Nat, k \in Nat, w \in Nat, n \in Nat :
              /\ a = pulledCount[p] /\ b = droppedCount[p] /\ k = Len(queue[p])
              /\ w = Len(wire[p]) /\ n = pushedCount[Other(p)]
      BY BooksTyped
    <3>2. a + b + k + w <= n /\ pushedCount[p] <= MaxPushes /\ lastPulled[p] <= MaxPushes
      BY <1>3, <3>1 DEF BooksOf
    <3>3. a + b + 0 + 0 <= n
      <4>1. a + b + k + w <= n
        BY <3>2
      <4> QED
        BY <4>1
    <3>4. /\ pulledCount'[p] = a /\ droppedCount'[p] = b /\ pushedCount'[Other(p)] = n
          /\ pushedCount'[p] <= MaxPushes /\ lastPulled'[p] <= MaxPushes
      BY <1>2, <3>1, <3>2
    <3>5. 0 <= QueueCapacity[p]
      BY <1>1
    <3> QED
      BY <1>2, <2>1, <3>3, <3>4, <3>5 DEF BooksOf
<1>5. ASSUME NEW q \in Peers, q # p PROVE BooksOf(q)'
  <2>1. queue'[q] = queue[q] /\ wire'[q] = wire[q] /\ closed'[q] = closed[q]
    BY <1>1, <1>5 DEF Close
  <2> QED
    BY <1>2, <2>1, BooksStay DEF BooksInv
<1> QED
  BY <1>2, <1>4, <1>5 DEF BooksInv

\* Every step of either peer keeps the books.
LEMMA StepBooks == BooksInv /\ [ChannelNext]_channelVars => BooksInv'
<1> SUFFICES ASSUME BooksInv, [ChannelNext]_channelVars PROVE BooksInv'
  OBVIOUS
<1>1. ChannelInv'
  BY StepInLine DEF BooksInv
<1>2. CASE UNCHANGED channelVars
  BY <1>1, <1>2 DEF BooksInv, BooksOf, channelVars
<1> QED
  BY <1>1, <1>2, PushBooks, MessageBooks, PullBooks, CloseBooks DEF ChannelNext

\* A peer that is not closed finds in its counters every frame that was pushed to it.
THEOREM FramesAreAccounted == ChannelSpec => []FrameAccounted
<1>1. BooksInv => FrameAccounted
  <2> SUFFICES ASSUME BooksInv, NEW p \in Peers, ~closed[p]
               PROVE  pushedCount[Other(p)] =
                          pulledCount[p] + droppedCount[p] + Len(queue[p]) + Len(wire[p])
    BY DEF FrameAccounted
  <2> QED
    BY DEF BooksInv, BooksOf
<1> QED
  BY <1>1, InitBooks, StepBooks, PTL DEF ChannelSpec

\* pull() on a closed bridge finds nothing: what close() cleared stays clear.
THEOREM ClosedStaysQuiet == ChannelSpec => ClosedIsQuiet
<1>1. BooksInv /\ [ChannelNext]_channelVars
          => [\A p \in Peers : closed[p] => lastPulled'[p] = lastPulled[p]]_channelVars
  <2> SUFFICES ASSUME BooksInv, ChannelNext, NEW q \in Peers, closed[q]
               PROVE  lastPulled'[q] = lastPulled[q]
    OBVIOUS
  <2>1. queue[q] = <<>> /\ lastPulled \in [Peers -> Nat]
    BY DEF BooksInv, BooksOf, ChannelInv, Typed
  <2>2. ASSUME NEW p \in Peers, Push(p) \/ OnChannelMessage(p) \/ Pull(p) \/ Close(p)
        PROVE  lastPulled'[q] = lastPulled[q]
    BY <2>1, <2>2 DEF Push, OnChannelMessage, Pull, Close
  <2> QED
    BY <2>2 DEF ChannelNext
<1> QED
  BY <1>1, InitBooks, StepBooks, PTL DEF ChannelSpec, ClosedIsQuiet

\* A function on 1 .. n is a sequence.
LEMMA FunctionIsSeq ==
    ASSUME NEW S, NEW n \in Nat, NEW f \in [1 .. n -> S]
    PROVE  f \in Seq(S)
BY SeqDef

\* Queues keep to their capacities and hold frames that were pushed.
THEOREM ChannelTypeCorrect == ChannelSpec => []ChannelTypeOK
<1>1. BooksInv => ChannelTypeOK
  <2> SUFFICES ASSUME BooksInv PROVE ChannelTypeOK
    OBVIOUS
  <2>1. ASSUME NEW p \in Peers
        PROVE  /\ queue[p] \in Seq(1 .. MaxPushes) /\ Len(queue[p]) <= QueueCapacity[p]
               /\ wire[p] \in Seq(1 .. MaxPushes) /\ Len(wire[p]) <= MaxPushes
               /\ pushedCount[p] \in 0 .. MaxPushes /\ pulledCount[p] \in 0 .. MaxPushes
               /\ droppedCount[p] \in 0 .. MaxPushes /\ lastPulled[p] \in 0 .. MaxPushes
    <3>1. /\ queue[p] \in Seq(Nat) /\ wire[p] \in Seq(Nat)
          /\ Len(queue[p]) \in Nat /\ Len(wire[p]) \in Nat
          /\ droppedCount[p] \in Nat /\ pulledCount[p] \in Nat
          /\ Other(p) \in Peers /\ pushedCount[Other(p)] \in Nat /\ pushedCount[p] \in Nat
          /\ QueueCapacity[p] \in Nat /\ MaxPushes \in Nat /\ lastPulled[p] \in Nat
      BY TwoPeers, ChannelAssumption DEF BooksInv, ChannelInv, Typed
    <3>2. BooksOf(p) /\ pushedCount[Other(p)] <= MaxPushes
      BY <3>1 DEF BooksInv, BooksOf
    <3>3. CASE closed[p]
      <4>1. queue[p] = <<>> /\ wire[p] = <<>>
        BY <3>2, <3>3 DEF BooksOf
      <4> QED
        BY <3>1, <3>2, <4>1 DEF BooksOf
    <3>4. CASE ~closed[p]
      <4>1. InLine(pushedCount[Other(p)], wire[p], queue[p], lastPulled[p])
        BY <3>4 DEF BooksInv, ChannelInv, AllInLine
      <4>5. PICK k \in Nat, w \in Nat, l \in Nat :
                k = Len(queue[p]) /\ w = Len(wire[p]) /\ l = lastPulled[p]
        BY <3>1
      <4>7. PICK n \in Nat, m \in Nat : n = pushedCount[Other(p)] /\ m = MaxPushes /\ n <= m
        BY <3>1, <3>2
      <4>6. w <= n /\ l <= n - w - k
        BY <4>1, <4>5, <4>7 DEF InLine
      <4>2. ASSUME NEW i \in 1 .. Len(wire[p]) PROVE wire[p][i] \in 1 .. MaxPushes
        <5>1. wire[p][i] = n - w + i /\ i \in 1 .. w
          BY <4>1, <4>5, <4>7 DEF InLine
        <5>2. n - w + i \in 1 .. m
          <6>1. n <= m
            BY <4>7
          <6> QED
            BY <4>6, <5>1, <6>1
        <5> QED
          BY <4>5, <4>7, <5>1, <5>2
      <4>3. ASSUME NEW i \in 1 .. Len(queue[p]) PROVE queue[p][i] \in 1 .. MaxPushes
        <5>1. queue[p][i] = n - w - k + i /\ i \in 1 .. k
          BY <4>1, <4>5, <4>7 DEF InLine
        <5>2. n - w - k + i \in 1 .. m
          <6>1. n <= m
            BY <4>7
          <6> QED
            BY <4>6, <5>1, <6>1
        <5> QED
          BY <4>5, <4>7, <5>1, <5>2
      <4>4. queue[p] \in Seq(1 .. MaxPushes) /\ wire[p] \in Seq(1 .. MaxPushes)
        <5>1. queue[p] \in [1 .. Len(queue[p]) -> 1 .. MaxPushes]
          BY <3>1, <4>3, LenProperties
        <5>2. wire[p] \in [1 .. Len(wire[p]) -> 1 .. MaxPushes]
          BY <3>1, <4>2, LenProperties
        <5> QED
          BY <3>1, <5>1, <5>2, FunctionIsSeq
      <4> QED
        <5>1. pulledCount[p] + droppedCount[p] + k + w = n /\ k <= QueueCapacity[p]
          BY <3>2, <3>4, <4>5, <4>7, BalanceOf
        <5>2. pulledCount[p] <= n /\ droppedCount[p] <= n
          <6>1. PICK a \in Nat, b \in Nat : a = pulledCount[p] /\ b = droppedCount[p]
            BY <3>1
          <6>2. a + b + k + w = n
            BY <5>1, <6>1
          <6>3. a <= n /\ b <= n
            BY <4>7, <6>2
          <6> QED
            BY <6>1, <6>3
        <5>3. n <= m /\ w <= m /\ l <= m
          <6>1. n <= m
            BY <4>7
          <6> QED
            BY <4>6, <6>1
        <5>4. pushedCount[p] <= MaxPushes
          BY <3>2 DEF BooksOf
        <5> QED
          <6>1. pulledCount[p] \in 0 .. MaxPushes /\ droppedCount[p] \in 0 .. MaxPushes
            <7>1. /\ pulledCount[p] \in Nat /\ droppedCount[p] \in Nat /\ m = MaxPushes
                  /\ n <= m
              BY <3>1, <4>5, <4>7
            <7> QED
              BY <5>2, <7>1
          <6>2. pushedCount[p] \in 0 .. MaxPushes
            BY <3>1, <5>4
          <6>3. lastPulled[p] \in 0 .. MaxPushes /\ Len(wire[p]) <= MaxPushes
            BY <4>5, <4>7, <5>3
          <6> QED
            BY <4>4, <4>5, <4>7, <5>1, <6>1, <6>2, <6>3
    <3> QED
      BY <3>3, <3>4
  <2>2. \A S, n, s : n \in Nat /\ s \in Seq(S) /\ Len(s) <= n => s \in BoundedSeq(S, n)
    <3>1. ASSUME NEW S, NEW n \in Nat, NEW s \in Seq(S), Len(s) <= n
          PROVE  s \in BoundedSeq(S, n)
      <4>1. Len(s) \in 0 .. n /\ s \in [1 .. Len(s) -> S]
        BY <3>1, LenProperties
      <4> QED
        BY <4>1 DEF BoundedSeq, SeqOf
    <3> QED
      BY <3>1
  <2>3. \A p \in Peers : queue[p] \in BoundedSeq(1 .. MaxPushes, QueueCapacity[p])
    BY <2>1, <2>2, ChannelAssumption
  <2>4. wire \in [Peers -> BoundedSeq(1 .. MaxPushes, MaxPushes)]
    BY <2>1, <2>2, ChannelAssumption DEF BooksInv, ChannelInv, Typed
  <2>5. /\ pushedCount \in [Peers -> 0 .. MaxPushes] /\ pulledCount \in [Peers -> 0 .. MaxPushes]
        /\ droppedCount \in [Peers -> 0 .. MaxPushes] /\ lastPulled \in [Peers -> 0 .. MaxPushes]
    BY <2>1 DEF BooksInv, ChannelInv, Typed
  <2> QED
    BY <2>3, <2>4, <2>5 DEF ChannelTypeOK, BooksInv, ChannelInv, Typed
<1> QED
  BY <1>1, InitBooks, StepBooks, PTL DEF ChannelSpec

-------------------------------------------------------------------------------
(***************************************************************************)
(* The plan of any two layouts and any rename: complete always, and exact      *)
(* where a renamed field's old name is not used again.                       *)
(***************************************************************************)

\* A new field has one counterpart at most.
LEMMA OneCounterpart ==
    ASSUME NEW old, NEW new, NEW rename, IsRename(old, new, rename), NEW to,
           NEW x \in Counterparts(old, rename, to), NEW y \in Counterparts(old, rename, to)
    PROVE  x = y /\ x \in DOMAIN old
BY DEF Counterparts, IsRename

\* The matches are the pairs of a new field and its counterpart.
LEMMA MatchIs ==
    ASSUME NEW old, NEW new, NEW rename, NEW m \in Matches(old, new, rename)
    PROVE  /\ m = [from |-> m.from, to |-> m.to]
           /\ m.from \in DOMAIN old /\ m.to \in DOMAIN new
           /\ m.from \in Counterparts(old, rename, m.to)
BY DEF Matches

LEMMA MatchOf ==
    ASSUME NEW old, NEW new, NEW rename, IsRename(old, new, rename), NEW to \in DOMAIN new,
           NEW x \in Counterparts(old, rename, to)
    PROVE  [from |-> x, to |-> to] \in Matches(old, new, rename)
BY OneCounterpart DEF Matches

\* Two matches of one new field are the same.
LEMMA OneMatch ==
    ASSUME NEW old, NEW new, NEW rename, IsRename(old, new, rename),
           NEW m \in Matches(old, new, rename), NEW n \in Matches(old, new, rename),
           m.to = n.to
    PROVE  m = n
BY MatchIs, OneCounterpart

\* What the plan says of a match and of a field that has none.
LEMMA Planned ==
    ASSUME NEW old, NEW new, NEW rename
    PROVE  /\ \A m \in Blendable(old, new, rename) :
                  [from |-> m.from, to |-> m.to, blend |-> BlendLaw(new[m.to].kind)]
                      \in Crossfade(old, new, rename)
           /\ \A m \in Reshaped(old, new, rename) :
                  /\ [to |-> m.to, reason |-> "incompatible"] \in RampIn(old, new, rename)
                  /\ [from |-> m.from, reason |-> "incompatible"] \in Drop(old, new, rename)
           /\ \A to \in DOMAIN new : Counterparts(old, rename, to) = {} =>
                  [to |-> to, reason |-> "added"] \in RampIn(old, new, rename)
           /\ \A x \in DOMAIN old : (\A m \in Matches(old, new, rename) : m.from # x) =>
                  [from |-> x, reason |-> "removed"] \in Drop(old, new, rename)
BY DEF Crossfade, RampIn, Drop

\* Whatever is added, removed, renamed and reshaped between the two: each new field has
\* one source and each old field is blended or dropped.
THEOREM PlanIsComplete ==
    ASSUME NEW old, NEW new, NEW rename, IsRename(old, new, rename)
    PROVE  EveryFieldIsPlanned(old, new, rename)
<1>. DEFINE M == Matches(old, new, rename)
            B == Blendable(old, new, rename)
            R == Reshaped(old, new, rename)
<1>1. /\ B \cup R = M /\ B \cap R = {}
  BY DEF Blendable, Reshaped
<1>2. ASSUME NEW to \in DOMAIN new
      PROVE  (\E c \in Crossfade(old, new, rename) : c.to = to)
             <=> ~(\E r \in RampIn(old, new, rename) : r.to = to)
  <2>1. (\E c \in Crossfade(old, new, rename) : c.to = to) <=> \E m \in B : m.to = to
    <3>1. ASSUME NEW m \in B, m.to = to
          PROVE  \E c \in Crossfade(old, new, rename) : c.to = to
      <4>. DEFINE c == [from |-> m.from, to |-> m.to, blend |-> BlendLaw(new[m.to].kind)]
      <4>1. c \in Crossfade(old, new, rename)
        BY Planned
      <4>2. c.to = to
        BY <3>1
      <4>. QED  BY <4>1, <4>2
    <3>2. ASSUME NEW c \in Crossfade(old, new, rename), c.to = to
          PROVE  \E m \in B : m.to = to
      BY <3>2 DEF Crossfade
    <3>. QED  BY <3>1, <3>2
  <2>2. (\E r \in RampIn(old, new, rename) : r.to = to)
        <=> (\E m \in R : m.to = to) \/ Counterparts(old, rename, to) = {}
    <3>1. ASSUME NEW m \in R, m.to = to
          PROVE  \E r \in RampIn(old, new, rename) : r.to = to
      <4>1. [to |-> m.to, reason |-> "incompatible"] \in RampIn(old, new, rename)
        BY Planned
      <4>. QED  BY <3>1, <4>1
    <3>2. ASSUME Counterparts(old, rename, to) = {}
          PROVE  \E r \in RampIn(old, new, rename) : r.to = to
      <4>1. [to |-> to, reason |-> "added"] \in RampIn(old, new, rename)
        BY <3>2, Planned
      <4>. QED  BY <4>1
    <3>3. ASSUME NEW r \in RampIn(old, new, rename), r.to = to
          PROVE  (\E m \in R : m.to = to) \/ Counterparts(old, rename, to) = {}
      BY <3>3 DEF RampIn
    <3>. QED  BY <3>1, <3>2, <3>3
  <2>3. ASSUME Counterparts(old, rename, to) # {}
        PROVE  \E m \in M : m.to = to
    <3>1. PICK x : x \in Counterparts(old, rename, to)
      BY <2>3
    <3>2. [from |-> x, to |-> to] \in M
      BY <3>1, MatchOf
    <3>. QED  BY <3>2
  <2>4. \A m \in M : m.to = to => Counterparts(old, rename, to) # {}
    BY MatchIs
  <2>5. \A m, n \in M : m.to = to /\ n.to = to => m = n
    BY OneMatch
  <2>. QED  BY <1>1, <2>1, <2>2, <2>3, <2>4, <2>5
<1>3. ASSUME NEW c \in Crossfade(old, new, rename), NEW d \in Crossfade(old, new, rename),
             c.to = d.to
      PROVE  c = d
  <2>1. PICK m \in B : c = [from |-> m.from, to |-> m.to, blend |-> BlendLaw(new[m.to].kind)]
    BY DEF Crossfade
  <2>2. PICK n \in B : d = [from |-> n.from, to |-> n.to, blend |-> BlendLaw(new[n.to].kind)]
    BY DEF Crossfade
  <2>3. m.to = n.to
    BY <1>3, <2>1, <2>2
  <2>. QED  BY <1>1, <2>1, <2>2, <2>3, OneMatch
<1>4. ASSUME NEW q \in RampIn(old, new, rename), NEW r \in RampIn(old, new, rename),
             q.to = r.to
      PROVE  q = r
  <2>1. \A p \in RampIn(old, new, rename) :
            \/ p = [to |-> p.to, reason |-> "incompatible"]
               /\ Counterparts(old, rename, p.to) # {}
            \/ p = [to |-> p.to, reason |-> "added"]
               /\ Counterparts(old, rename, p.to) = {}
    BY <1>1, MatchIs DEF RampIn
  <2>. QED  BY <1>4, <2>1
<1>5. ASSUME NEW from \in DOMAIN old
      PROVE  \/ \E c \in Crossfade(old, new, rename) : c.from = from
             \/ \E d \in Drop(old, new, rename) : d.from = from
  <2>1. ASSUME NEW m \in B, m.from = from
        PROVE  \E c \in Crossfade(old, new, rename) : c.from = from
    <3>. DEFINE c == [from |-> m.from, to |-> m.to, blend |-> BlendLaw(new[m.to].kind)]
    <3>1. c \in Crossfade(old, new, rename)
      BY Planned
    <3>2. c.from = from
      BY <2>1
    <3>. QED  BY <3>1, <3>2
  <2>2. ASSUME NEW m \in R, m.from = from
        PROVE  \E d \in Drop(old, new, rename) : d.from = from
    <3>1. [from |-> m.from, reason |-> "incompatible"] \in Drop(old, new, rename)
      BY Planned
    <3>. QED  BY <2>2, <3>1
  <2>3. ASSUME \A m \in M : m.from # from
        PROVE  \E d \in Drop(old, new, rename) : d.from = from
    <3>1. [from |-> from, reason |-> "removed"] \in Drop(old, new, rename)
      BY <2>3, Planned
    <3>. QED  BY <3>1
  <2>. QED  BY <1>1, <2>1, <2>2, <2>3
<1>. QED  BY <1>2, <1>3, <1>4, <1>5 DEF EveryFieldIsPlanned

\* A field is dropped or blended, not both, and blended once: unless the name of a
\* renamed field is taken by another.
THEOREM DropsAreExact ==
    ASSUME NEW old, NEW new, NEW rename, IsRename(old, new, rename), NamesMove(new, rename)
    PROVE  DropsAreSilent(old, new, rename)
<1>. DEFINE M == Matches(old, new, rename)
            B == Blendable(old, new, rename)
            R == Reshaped(old, new, rename)
<1>1. ASSUME NEW m \in M, NEW n \in M, m.from = n.from
      PROVE  m = n
  <2>1. ASSUME NEW p \in M
        PROVE  \/ p.from \in DOMAIN rename /\ p.to = rename[p.from]
               \/ p.to = p.from /\ p.to \in DOMAIN new /\ p.to \notin Targets(rename)
    <3>1. p.from \in Counterparts(old, rename, p.to) /\ p.to \in DOMAIN new
      BY MatchIs
    <3>. QED  BY <3>1 DEF Counterparts
  <2>2. m.to = n.to
    BY <1>1, <2>1 DEF NamesMove
  <2>. QED  BY <1>1, <2>2, OneMatch
<1>2. /\ B \subseteq M /\ R \subseteq M /\ B \cap R = {}
  BY DEF Blendable, Reshaped
<1>3. ASSUME NEW d \in Drop(old, new, rename), NEW c \in Crossfade(old, new, rename)
      PROVE  c.from # d.from
  <2>1. PICK m \in B : c.from = m.from
    BY DEF Crossfade
  <2>2. (\E n \in R : d.from = n.from) \/ (\A n \in M : d.from # n.from)
    BY DEF Drop
  <2>. QED  BY <1>1, <1>2, <2>1, <2>2
<1>4. ASSUME NEW c \in Crossfade(old, new, rename), NEW d \in Crossfade(old, new, rename),
             c.from = d.from
      PROVE  c = d
  <2>1. PICK m \in B : c = [from |-> m.from, to |-> m.to, blend |-> BlendLaw(new[m.to].kind)]
    BY DEF Crossfade
  <2>2. PICK n \in B : d = [from |-> n.from, to |-> n.to, blend |-> BlendLaw(new[n.to].kind)]
    BY DEF Crossfade
  <2>3. m.from = n.from
    BY <1>4, <2>1, <2>2
  <2>. QED  BY <1>1, <1>2, <2>1, <2>2, <2>3
<1>. QED  BY <1>3, <1>4 DEF DropsAreSilent

-------------------------------------------------------------------------------
(***************************************************************************)
(* A kernel that was dropped stays silent (JitConnection), for every set of  *)
(* kernels, transport and order of answers.                                 *)
(*                                                                         *)
(* GoneIsSilent is not inductive: a kernel that is gone must also not be     *)
(* under way, or its install would play it later.  The strengthening is     *)
(* that a kernel is in one place at a time: waiting at the worker,          *)
(* compiling, answered, posted to the worklet, playing or gone, once.       *)
(***************************************************************************)

Asking == {requests[i] : i \in 1 .. Len(requests)}
Answering == {a.kernel : a \in answers}
Installs(q) == {i \in 1 .. Len(q) : q[i].type = "install"}
Posting == {port[i].kernel : i \in Installs(port)}
Playing == {current, incoming} \ {Js, None}

WhereaboutsTyped ==
    /\ requests \in Seq(Kernels)
    /\ answers \subseteq [kernel : Kernels, accepted : BOOLEAN]
    /\ port \in Seq([type : {"install", "force-js", "fallback"},
                     kernel : Kernels \cup {None}, by : {"bytes", "module", None}])
    /\ \A i \in Installs(port) : port[i].kernel \in Kernels
    /\ transport \in {"bytes", "module"}
    /\ incoming \in Kernels \cup {None}
    /\ asked \subseteq Kernels
    /\ Asking \cup compiling \cup Answering \cup Posting \cup Playing \cup gone \subseteq asked

\* No place holds a kernel twice, ...
HeldOnce ==
    /\ \A i, j \in 1 .. Len(requests) : requests[i] = requests[j] => i = j
    /\ \A a, b \in answers : a.kernel = b.kernel => a = b
    /\ \A i, j \in Installs(port) : port[i].kernel = port[j].kernel => i = j
    /\ incoming # None => incoming # current

\* ... and no two places hold the same one.
PlacesApart ==
    /\ Asking \cap (compiling \cup Answering \cup Posting \cup Playing \cup gone) = {}
    /\ compiling \cap (Answering \cup Posting \cup Playing \cup gone) = {}
    /\ Answering \cap (Posting \cup Playing \cup gone) = {}
    /\ Posting \cap (Playing \cup gone) = {}
    /\ Playing \cap gone = {}

Whereabouts == WhereaboutsTyped /\ HeldOnce /\ PlacesApart

LEMMA NamesApart == Js \notin Kernels /\ None \notin Kernels /\ Js # None
BY JitAssumption

\* What leaves the head of a queue is in it no more,
LEMMA AskingTail ==
    ASSUME WhereaboutsTyped, HeldOnce, requests # <<>>, requests' = Tail(requests)
    PROVE  /\ Head(requests) \in Asking /\ Head(requests) \in Kernels
           /\ requests' \in Seq(Kernels)
           /\ Asking' \subseteq Asking \ {Head(requests)}
           /\ \A i, j \in 1 .. Len(requests') : requests'[i] = requests'[j] => i = j
<1>1. /\ requests \in Seq(Kernels) /\ Len(requests) \in Nat /\ Len(requests) >= 1
      /\ Head(requests) = requests[1]
  BY DEF WhereaboutsTyped
<1>2. /\ requests' \in Seq(Kernels) /\ Len(requests') = Len(requests) - 1
      /\ \A i \in 1 .. Len(requests') : requests'[i] = requests[i + 1]
  BY <1>1
<1>3. \A i \in 1 .. Len(requests') : i + 1 \in 1 .. Len(requests) /\ i + 1 # 1
  BY <1>1, <1>2
<1>4. Head(requests) \in Asking /\ Head(requests) \in Kernels
  BY <1>1 DEF Asking
<1>5. Asking' \subseteq Asking \ {Head(requests)}
  BY <1>1, <1>2, <1>3 DEF Asking, HeldOnce
<1>6. \A i, j \in 1 .. Len(requests') : requests'[i] = requests'[j] => i = j
  <2>1. SUFFICES ASSUME NEW i \in 1 .. Len(requests'), NEW j \in 1 .. Len(requests'),
                        requests'[i] = requests'[j]
                 PROVE  i = j
    OBVIOUS
  <2>2. i + 1 = j + 1
    BY <1>2, <1>3, <2>1 DEF HeldOnce
  <2> QED
    BY <1>1, <1>2, <2>2
<1> QED
  BY <1>2, <1>4, <1>5, <1>6

LEMMA PostingTail ==
    ASSUME WhereaboutsTyped, HeldOnce, port # <<>>, port' = Tail(port)
    PROVE  /\ port' \in Seq([type : {"install", "force-js", "fallback"},
                             kernel : Kernels \cup {None}, by : {"bytes", "module", None}])
           /\ \A i \in Installs(port') : port'[i].kernel \in Kernels
           /\ Posting' \subseteq Posting
           /\ Head(port).type = "install" =>
                  /\ Head(port).kernel \in Posting
                  /\ Head(port).kernel \notin Posting'
           /\ \A i, j \in Installs(port') : port'[i].kernel = port'[j].kernel => i = j
<1>1. /\ Len(port) \in Nat /\ Len(port) >= 1 /\ Head(port) = port[1]
      /\ port' \in Seq([type : {"install", "force-js", "fallback"},
                        kernel : Kernels \cup {None}, by : {"bytes", "module", None}])
      /\ Len(port') = Len(port) - 1
      /\ \A i \in 1 .. Len(port') : port'[i] = port[i + 1]
  BY DEF WhereaboutsTyped
<1>2. \A i \in Installs(port') :
          /\ i \in 1 .. Len(port') /\ i + 1 \in Installs(port) /\ i + 1 # 1
          /\ port'[i] = port[i + 1]
  BY <1>1 DEF Installs
<1>3. \A i \in Installs(port') : port'[i].kernel \in Kernels
  BY <1>2 DEF WhereaboutsTyped
<1>4. Posting' \subseteq Posting
  BY <1>2 DEF Posting
<1>5. Head(port).type = "install" => 1 \in Installs(port)
  BY <1>1 DEF Installs
<1>6. Head(port).type = "install" =>
          Head(port).kernel \in Posting /\ Head(port).kernel \notin Posting'
  <2>1. SUFFICES ASSUME Head(port).type = "install"
                 PROVE  Head(port).kernel \in Posting /\ Head(port).kernel \notin Posting'
    OBVIOUS
  <2>2. port[1].kernel \in Posting
    BY <1>5, <2>1 DEF Posting
  <2>3. ASSUME NEW i \in Installs(port'), port'[i].kernel = port[1].kernel PROVE FALSE
    BY <1>2, <1>5, <2>1, <2>3 DEF HeldOnce
  <2> QED
    BY <1>1, <2>2, <2>3 DEF Posting
<1>7. ASSUME NEW i \in Installs(port'), NEW j \in Installs(port'),
             port'[i].kernel = port'[j].kernel
      PROVE  i = j
  <2>1. i + 1 = j + 1
    BY <1>2, <1>7 DEF HeldOnce
  <2> QED
    BY <1>1, <1>2, <2>1
<1> QED
  BY <1>1, <1>3, <1>4, <1>6, <1>7

\* and what joins it is new there.
LEMMA AskingAppend ==
    ASSUME WhereaboutsTyped, HeldOnce, NEW k \in Kernels, k \notin Asking,
           requests' = Append(requests, k)
    PROVE  /\ requests' \in Seq(Kernels) /\ Asking' = Asking \cup {k}
           /\ \A i, j \in 1 .. Len(requests') : requests'[i] = requests'[j] => i = j
<1>1. PICK n \in Nat : n = Len(requests)
  BY DEF WhereaboutsTyped
<1>2. /\ requests' \in Seq(Kernels) /\ Len(requests') = n + 1 /\ requests'[n + 1] = k
      /\ \A i \in 1 .. n : requests'[i] = requests[i]
  BY <1>1 DEF WhereaboutsTyped
<1>3. \A i \in 1 .. n + 1 : i \in 1 .. n \/ i = n + 1
  BY <1>1
<1>4. Asking' = Asking \cup {k}
  BY <1>1, <1>2, <1>3 DEF Asking
<1>5. \A i \in 1 .. n : requests[i] # k
  BY <1>1 DEF Asking
<1> QED
  BY <1>1, <1>2, <1>3, <1>4, <1>5 DEF HeldOnce

LEMMA PostingAppend ==
    ASSUME WhereaboutsTyped, HeldOnce,
           NEW m \in [type : {"install", "force-js", "fallback"},
                      kernel : Kernels \cup {None}, by : {"bytes", "module", None}],
           m.type = "install" => m.kernel \in Kernels \ Posting,
           port' = Append(port, m)
    PROVE  /\ port' \in Seq([type : {"install", "force-js", "fallback"},
                             kernel : Kernels \cup {None}, by : {"bytes", "module", None}])
           /\ \A i \in Installs(port') : port'[i].kernel \in Kernels
           /\ Posting' = Posting \cup {k \in {m.kernel} : m.type = "install"}
           /\ \A i, j \in Installs(port') : port'[i].kernel = port'[j].kernel => i = j
<1>1. PICK n \in Nat : n = Len(port)
  BY DEF WhereaboutsTyped
<1>2. /\ port' \in Seq([type : {"install", "force-js", "fallback"},
                        kernel : Kernels \cup {None}, by : {"bytes", "module", None}])
      /\ Len(port') = n + 1 /\ port'[n + 1] = m
      /\ \A i \in 1 .. n : port'[i] = port[i]
  BY <1>1 DEF WhereaboutsTyped
<1>3. /\ \A i \in Installs(port) : i \in 1 .. n /\ i \in Installs(port') /\ i # n + 1
      /\ \A i \in Installs(port') : i \in Installs(port) \/ (i = n + 1 /\ m.type = "install")
      /\ m.type = "install" => n + 1 \in Installs(port')
  <2>1. \A i \in 1 .. n + 1 : i \in 1 .. n \/ i = n + 1
    BY <1>1
  <2>2. \A i \in 1 .. n : i \in 1 .. n + 1 /\ i # n + 1
    BY <1>1
  <2> QED
    BY <1>1, <1>2, <2>1, <2>2 DEF Installs
<1>4. /\ \A i \in Installs(port) : port'[i] = port[i]
      /\ port'[n + 1] = m
  BY <1>2, <1>3
<1>5. \A i \in Installs(port') : port'[i].kernel \in Kernels
  BY <1>3, <1>4 DEF WhereaboutsTyped
<1>6. Posting' = Posting \cup {k \in {m.kernel} : m.type = "install"}
  <2>1. \A i \in Installs(port') :
            port'[i].kernel \in Posting \/ (m.type = "install" /\ port'[i].kernel = m.kernel)
    BY <1>3, <1>4, ZenonT(40) DEF Posting
  <2>2. \A i \in Installs(port) : port[i].kernel \in Posting'
    BY <1>3, <1>4 DEF Posting
  <2>3. m.type = "install" => m.kernel \in Posting'
    BY <1>3, <1>4 DEF Posting
  <2>4. Posting' \subseteq Posting \cup {k \in {m.kernel} : m.type = "install"}
    BY <2>1 DEF Posting
  <2>5. Posting \subseteq Posting'
    BY <2>2 DEF Posting
  <2> QED
    BY <2>3, <2>4, <2>5
<1>7. \A i \in Installs(port) : m.type = "install" => port[i].kernel # m.kernel
  BY DEF Posting
<1>8. ASSUME NEW i \in Installs(port'), NEW j \in Installs(port'),
             port'[i].kernel = port'[j].kernel
      PROVE  i = j
  <2>1. CASE i \in Installs(port) /\ j \in Installs(port)
    BY <1>4, <1>8, <2>1 DEF HeldOnce
  <2>2. CASE i \in Installs(port) /\ j = n + 1 /\ m.type = "install"
    BY <1>4, <1>7, <1>8, <2>2
  <2>3. CASE j \in Installs(port) /\ i = n + 1 /\ m.type = "install"
    BY <1>4, <1>7, <1>8, <2>3
  <2> QED
    BY <1>3, <2>1, <2>2, <2>3
<1> QED
  BY <1>2, <1>5, <1>6, <1>8

LEMMA WhereaboutsInit == ConnectionInit => Whereabouts
<1> SUFFICES ASSUME ConnectionInit PROVE Whereabouts
  OBVIOUS
<1>1. /\ requests = <<>> /\ compiling = {} /\ answers = {} /\ port = <<>>
      /\ asked = {} /\ gone = {} /\ current = Js /\ incoming = None
      /\ transport \in Transports
  BY DEF ConnectionInit, JitInit
<1>2. Asking = {} /\ Answering = {} /\ Installs(port) = {} /\ Posting = {} /\ Playing = {}
  BY <1>1 DEF Asking, Answering, Installs, Posting, Playing
<1>3. WhereaboutsTyped
  BY <1>1, <1>2, ConnectionAssumption DEF WhereaboutsTyped
<1>4. HeldOnce /\ PlacesApart
  BY <1>1, <1>2 DEF HeldOnce, PlacesApart
<1> QED
  BY <1>3, <1>4 DEF Whereabouts

\* A request, at the end of the worker's inbox.
LEMMA RequestStep ==
    ASSUME Whereabouts, NEW k \in Kernels, RequestCompile(k)
    PROVE  Whereabouts'
<1>1. WhereaboutsTyped /\ HeldOnce /\ PlacesApart
  BY DEF Whereabouts
<1>2. /\ k \notin asked /\ asked' = asked \cup {k} /\ requests' = Append(requests, k)
      /\ UNCHANGED <<current, incoming, transport, compiling, answers, port, gone>>
  BY DEF RequestCompile, consumerVars, jitVars, kernelVars
<1>3. k \notin Asking
  BY <1>1, <1>2 DEF WhereaboutsTyped
<1>4. /\ requests' \in Seq(Kernels) /\ Asking' = Asking \cup {k}
      /\ \A i, j \in 1 .. Len(requests') : requests'[i] = requests'[j] => i = j
  BY <1>1, <1>2, <1>3, AskingAppend
<1>5. Answering' = Answering /\ Posting' = Posting /\ Playing' = Playing
  BY <1>2 DEF Answering, Posting, Playing
<1>6. WhereaboutsTyped'
  BY <1>1, <1>2, <1>4, <1>5 DEF WhereaboutsTyped
<1>7. HeldOnce'
  BY <1>1, <1>2, <1>4 DEF HeldOnce
<1>8. PlacesApart'
  BY <1>1, <1>2, <1>4, <1>5 DEF PlacesApart, WhereaboutsTyped
<1> QED
  BY <1>6, <1>7, <1>8 DEF Whereabouts

\* The gates' verdict: on to the compiler, or an answer that rejects it.
LEMMA CompileStep ==
    ASSUME Whereabouts, NEW accepted \in BOOLEAN, Compile(accepted)
    PROVE  Whereabouts'
<1> DEFINE k == Head(requests)
<1>1. WhereaboutsTyped /\ HeldOnce /\ PlacesApart
  BY DEF Whereabouts
<1>2. /\ requests # <<>> /\ requests' = Tail(requests)
      /\ \/ compiling' = compiling \cup {k} /\ answers' = answers
         \/ compiling' = compiling /\ answers' = answers \cup {Rejected(k)}
      /\ UNCHANGED <<current, incoming, transport, port, asked, gone>>
  BY DEF Compile, consumerVars, jitVars, kernelVars, fates
<1>3. /\ k \in Asking /\ k \in Kernels /\ requests' \in Seq(Kernels)
      /\ Asking' \subseteq Asking \ {k}
      /\ \A i, j \in 1 .. Len(requests') : requests'[i] = requests'[j] => i = j
  BY <1>1, <1>2, AskingTail
<1>4. Posting' = Posting /\ Playing' = Playing
  BY <1>2 DEF Posting, Playing
<1> HIDE DEF k
<1>5. CASE compiling' = compiling \cup {k} /\ answers' = answers
  <2>1. Answering' = Answering
    BY <1>5 DEF Answering
  <2>2. WhereaboutsTyped'
    BY <1>1, <1>2, <1>3, <1>4, <1>5, <2>1 DEF WhereaboutsTyped
  <2>3. HeldOnce'
    BY <1>1, <1>2, <1>3, <1>5 DEF HeldOnce
  <2>4. PlacesApart'
    BY <1>1, <1>2, <1>3, <1>4, <1>5, <2>1 DEF PlacesApart
  <2> QED
    BY <2>2, <2>3, <2>4 DEF Whereabouts
<1>6. CASE compiling' = compiling /\ answers' = answers \cup {Rejected(k)}
  <2>1. Rejected(k) \in [kernel : Kernels, accepted : BOOLEAN] /\ Rejected(k).kernel = k
    BY <1>3 DEF Rejected
  <2>2. Answering' = Answering \cup {k}
    BY <1>6, <2>1 DEF Answering
  <2>3. WhereaboutsTyped'
    BY <1>1, <1>2, <1>3, <1>4, <1>6, <2>1, <2>2 DEF WhereaboutsTyped
  <2>4. \A a \in answers : a.kernel # k
    BY <1>1, <1>3 DEF PlacesApart, Answering
  <2>5. HeldOnce'
    BY <1>1, <1>2, <1>3, <1>6, <2>1, <2>4 DEF HeldOnce
  <2>6. PlacesApart'
    BY <1>1, <1>2, <1>3, <1>4, <1>6, <2>2 DEF PlacesApart
  <2> QED
    BY <2>3, <2>5, <2>6 DEF Whereabouts
<1> QED
  BY <1>2, <1>5, <1>6

\* The compiler settles.
LEMMA CompiledStep ==
    ASSUME Whereabouts, NEW k \in Kernels, Compiled(k)
    PROVE  Whereabouts'
<1>1. WhereaboutsTyped /\ HeldOnce /\ PlacesApart
  BY DEF Whereabouts
<1>2. /\ k \in compiling /\ compiling' = compiling \ {k}
      /\ answers' = answers \cup {Accepted(k)}
      /\ UNCHANGED <<current, incoming, transport, requests, port, asked, gone>>
  BY DEF Compiled, consumerVars, jitVars, kernelVars, fates
<1>3. Accepted(k) \in [kernel : Kernels, accepted : BOOLEAN] /\ Accepted(k).kernel = k
  BY DEF Accepted
<1>4. /\ Asking' = Asking /\ Answering' = Answering \cup {k}
      /\ Posting' = Posting /\ Playing' = Playing
  BY <1>2, <1>3 DEF Asking, Answering, Posting, Playing
<1>5. WhereaboutsTyped'
  BY <1>1, <1>2, <1>3, <1>4 DEF WhereaboutsTyped
<1>6. \A a \in answers : a.kernel # k
  BY <1>1, <1>2 DEF PlacesApart, Answering
<1>7. HeldOnce'
  BY <1>1, <1>2, <1>3, <1>6 DEF HeldOnce
<1>8. PlacesApart'
  BY <1>1, <1>2, <1>4 DEF PlacesApart
<1> QED
  BY <1>5, <1>7, <1>8 DEF Whereabouts

\* An answer: its kernel goes on to the worklet, or nowhere.
LEMMA OnMessageStep ==
    ASSUME Whereabouts, NEW a \in answers, OnMessage(a)
    PROVE  Whereabouts'
<1> DEFINE k == a.kernel
<1>1. WhereaboutsTyped /\ HeldOnce /\ PlacesApart
  BY DEF Whereabouts
<1>2. /\ answers' = answers \ {a}
      /\ UNCHANGED <<current, incoming, transport, requests, compiling, asked>>
      /\ \/ bound /\ a.accepted /\ port' = Append(port, InstallOf(k, transport)) /\ gone' = gone
         \/ bound /\ port' = Append(port, FallbackMsg) /\ gone' = gone \cup {k}
         \/ port' = port /\ gone' = gone \cup {k}
  BY DEF OnMessage, Forwarded, consumerVars, jitVars, kernelVars
<1>3. k \in Kernels /\ k \in Answering /\ k \in asked
  BY <1>1 DEF WhereaboutsTyped, Answering
<1>4. Asking' = Asking /\ Answering' = Answering \ {k} /\ Playing' = Playing
  BY <1>1, <1>2 DEF Asking, Answering, Playing, HeldOnce
<1>5. k \notin Posting /\ k \notin Asking /\ k \notin compiling /\ k \notin Playing /\ k \notin gone
  BY <1>1, <1>3 DEF PlacesApart
<1> HIDE DEF k
<1>6. CASE bound /\ a.accepted /\ port' = Append(port, InstallOf(k, transport)) /\ gone' = gone
  <2> DEFINE m == InstallOf(k, transport)
  <2>1. /\ m \in [type : {"install", "force-js", "fallback"},
                  kernel : Kernels \cup {None}, by : {"bytes", "module", None}]
        /\ m.type = "install" /\ m.kernel = k
    BY <1>1, <1>3 DEF InstallOf, WhereaboutsTyped
  <2> HIDE DEF m
  <2>2. /\ port' \in Seq([type : {"install", "force-js", "fallback"},
                          kernel : Kernels \cup {None}, by : {"bytes", "module", None}])
        /\ \A i \in Installs(port') : port'[i].kernel \in Kernels
        /\ Posting' = Posting \cup {j \in {m.kernel} : m.type = "install"}
        /\ \A i, j \in Installs(port') : port'[i].kernel = port'[j].kernel => i = j
    <3>1. port' = Append(port, m)
      BY <1>6 DEF m
    <3>2. m.type = "install" => m.kernel \in Kernels \ Posting
      BY <1>3, <1>5, <2>1
    <3> QED
      BY <1>1, <2>1, <3>1, <3>2, PostingAppend
  <2>3. Posting' = Posting \cup {k}
    BY <2>1, <2>2
  <2>4. WhereaboutsTyped'
    BY <1>1, <1>2, <1>3, <1>4, <1>6, <2>2, <2>3, ZenonT(40) DEF WhereaboutsTyped
  <2>5. HeldOnce'
    BY <1>1, <1>2, <2>2 DEF HeldOnce
  <2>6. PlacesApart'
    BY <1>1, <1>2, <1>3, <1>4, <1>5, <1>6, <2>3 DEF PlacesApart
  <2> QED
    BY <2>4, <2>5, <2>6 DEF Whereabouts
<1>7. CASE bound /\ port' = Append(port, FallbackMsg) /\ gone' = gone \cup {k}
  <2>1. /\ FallbackMsg \in [type : {"install", "force-js", "fallback"},
                            kernel : Kernels \cup {None}, by : {"bytes", "module", None}]
        /\ FallbackMsg.type # "install"
    BY DEF FallbackMsg
  <2>2. /\ port' \in Seq([type : {"install", "force-js", "fallback"},
                          kernel : Kernels \cup {None}, by : {"bytes", "module", None}])
        /\ \A i \in Installs(port') : port'[i].kernel \in Kernels
        /\ Posting' = Posting \cup {j \in {FallbackMsg.kernel} : FallbackMsg.type = "install"}
        /\ \A i, j \in Installs(port') : port'[i].kernel = port'[j].kernel => i = j
    BY <1>1, <1>7, <2>1, PostingAppend
  <2>3. Posting' = Posting
    BY <2>1, <2>2
  <2>4. WhereaboutsTyped'
    BY <1>1, <1>2, <1>3, <1>4, <1>7, <2>2, <2>3 DEF WhereaboutsTyped
  <2>5. HeldOnce'
    BY <1>1, <1>2, <2>2 DEF HeldOnce
  <2>6. PlacesApart'
    BY <1>1, <1>2, <1>3, <1>4, <1>5, <1>7, <2>3 DEF PlacesApart
  <2> QED
    BY <2>4, <2>5, <2>6 DEF Whereabouts
<1>8. CASE port' = port /\ gone' = gone \cup {k}
  <2>1. Posting' = Posting
    BY <1>8 DEF Posting
  <2>2. WhereaboutsTyped'
    BY <1>1, <1>2, <1>3, <1>4, <1>8, <2>1 DEF WhereaboutsTyped
  <2>3. HeldOnce'
    BY <1>1, <1>2, <1>8 DEF HeldOnce
  <2>4. PlacesApart'
    BY <1>1, <1>2, <1>3, <1>4, <1>5, <1>8, <2>1 DEF PlacesApart
  <2> QED
    BY <2>2, <2>3, <2>4 DEF Whereabouts
<1> QED
  BY <1>2, <1>6, <1>7, <1>8

\* A message to the worklet that carries no kernel.
LEMMA ForceStep ==
    ASSUME Whereabouts, PostForceJs
    PROVE  Whereabouts'
<1>1. WhereaboutsTyped /\ HeldOnce /\ PlacesApart
  BY DEF Whereabouts
<1>2. /\ port' = Append(port, ForceMsg)
      /\ UNCHANGED <<current, incoming, transport, requests, compiling, answers, asked, gone>>
  BY DEF PostForceJs, consumerVars, jitVars, kernelVars, fates
<1>3. /\ ForceMsg \in [type : {"install", "force-js", "fallback"},
                       kernel : Kernels \cup {None}, by : {"bytes", "module", None}]
      /\ ForceMsg.type # "install"
  BY DEF ForceMsg
<1>4. /\ port' \in Seq([type : {"install", "force-js", "fallback"},
                        kernel : Kernels \cup {None}, by : {"bytes", "module", None}])
      /\ \A i \in Installs(port') : port'[i].kernel \in Kernels
      /\ Posting' = Posting \cup {j \in {ForceMsg.kernel} : ForceMsg.type = "install"}
      /\ \A i, j \in Installs(port') : port'[i].kernel = port'[j].kernel => i = j
  BY <1>1, <1>2, <1>3, PostingAppend
<1>5. Posting' = Posting /\ Asking' = Asking /\ Answering' = Answering /\ Playing' = Playing
  BY <1>2, <1>3, <1>4 DEF Asking, Answering, Playing
<1>6. WhereaboutsTyped'
  BY <1>1, <1>2, <1>4, <1>5 DEF WhereaboutsTyped
<1>7. HeldOnce'
  BY <1>1, <1>2, <1>4 DEF HeldOnce
<1>8. PlacesApart'
  BY <1>1, <1>2, <1>5 DEF PlacesApart
<1> QED
  BY <1>6, <1>7, <1>8 DEF Whereabouts

\* A message at the worklet is worked off, with what it does to the playing kernels:
\* those that play no more are gone, and one that starts to play was posted.
LEMMA WorkletStep ==
    ASSUME Whereabouts, port # <<>>, port' = Tail(port),
           UNCHANGED <<transport, requests, compiling, answers, asked>>,
           incoming' \in Kernels \cup {None}, incoming' # None => incoming' # current',
           NEW k, k = Head(port).kernel,
           \/ gone' = gone \cup (Playing \ Playing') /\ Playing' \subseteq Playing
           \/ Head(port).type = "install" /\ Playing' = Playing /\ gone' = gone \cup {k}
           \/ /\ Head(port).type = "install"
              /\ Playing' \subseteq Playing \cup {k} /\ gone' = gone \cup (Playing \ Playing')
    PROVE  Whereabouts'
<1>1. WhereaboutsTyped /\ HeldOnce /\ PlacesApart
  BY DEF Whereabouts
<1>2. /\ port' \in Seq([type : {"install", "force-js", "fallback"},
                        kernel : Kernels \cup {None}, by : {"bytes", "module", None}])
      /\ \A i \in Installs(port') : port'[i].kernel \in Kernels
      /\ Posting' \subseteq Posting
      /\ Head(port).type = "install" => k \in Posting /\ k \notin Posting'
      /\ \A i, j \in Installs(port') : port'[i].kernel = port'[j].kernel => i = j
  BY <1>1, PostingTail
<1>3. Asking' = Asking /\ Answering' = Answering
  BY DEF Asking, Answering
<1>4. HeldOnce'
  BY <1>1, <1>2 DEF HeldOnce
<1>5. /\ Playing' \cup gone' \subseteq asked
      /\ (Playing' \cup gone') \cap (Asking' \cup compiling' \cup Answering' \cup Posting') = {}
      /\ Playing' \cap gone' = {}
  BY <1>1, <1>2, <1>3 DEF WhereaboutsTyped, PlacesApart
<1>6. WhereaboutsTyped'
  BY <1>1, <1>2, <1>3, <1>5 DEF WhereaboutsTyped
<1>7. PlacesApart'
  BY <1>1, <1>2, <1>3, <1>5 DEF PlacesApart
<1> QED
  BY <1>4, <1>6, <1>7 DEF Whereabouts

LEMMA InstallStep ==
    ASSUME Whereabouts, NEW k \in Kernels, HandleInstall(k)
    PROVE  Whereabouts'
<1>1. WhereaboutsTyped /\ HeldOnce /\ PlacesApart
  BY DEF Whereabouts
<1>2. /\ port # <<>> /\ port' = Tail(port) /\ Head(port).type = "install"
      /\ k = Head(port).kernel
      /\ incoming' = k /\ current' = current
      /\ gone' = gone \cup ({incoming} \ {None})
      /\ UNCHANGED <<transport, requests, compiling, answers, asked>>
  BY DEF HandleInstall, Posted, Install
<1>3. k \notin Playing
  BY <1>1, <1>2, PostingTail DEF PlacesApart
<1>4. incoming' \in Kernels \cup {None} /\ incoming' # current'
  BY <1>2, <1>3, NamesApart DEF Playing
<1>5. /\ Playing' \subseteq Playing \cup {k}
      /\ Playing \ Playing' = {incoming} \ {None}
  BY <1>1, <1>2, <1>3, NamesApart DEF Playing, WhereaboutsTyped, HeldOnce
<1>6. gone' = gone \cup (Playing \ Playing')
  BY <1>2, <1>5
<1> QED
  BY <1>2, <1>4, <1>5, <1>6, WorkletStep

LEMMA DropStep ==
    ASSUME Whereabouts, NEW k \in Kernels, DropInstall(k)
    PROVE  Whereabouts'
<1>1. WhereaboutsTyped /\ HeldOnce
  BY DEF Whereabouts
<1>2. /\ port # <<>> /\ port' = Tail(port) /\ Head(port).type = "install"
      /\ k = Head(port).kernel
      /\ incoming' = incoming /\ current' = current
      /\ gone' = gone \cup {k}
      /\ UNCHANGED <<transport, requests, compiling, answers, asked>>
  BY DEF DropInstall, Posted, consumerVars, jitVars, kernelVars
<1>3. Playing' = Playing
  BY <1>2 DEF Playing
<1>4. incoming' \in Kernels \cup {None} /\ (incoming' # None => incoming' # current')
  BY <1>1, <1>2 DEF WhereaboutsTyped, HeldOnce
<1> QED
  BY <1>2, <1>3, <1>4, WorkletStep

LEMMA ForceJsStep ==
    ASSUME Whereabouts, HandleForceJs
    PROVE  Whereabouts'
<1>1. WhereaboutsTyped
  BY DEF Whereabouts
<1>2. /\ port # <<>> /\ port' = Tail(port)
      /\ current' = Js /\ incoming' = None
      /\ gone' = gone \cup ({current, incoming} \ {Js, None})
      /\ UNCHANGED <<transport, requests, compiling, answers, asked>>
  BY DEF HandleForceJs, Posted, ForceJs, Revert, IncomingAfterRevert
<1>3. Playing' = {} /\ gone' = gone \cup (Playing \ Playing')
  BY <1>2 DEF Playing
<1>4. Playing' \subseteq Playing /\ incoming' \in Kernels \cup {None}
  BY <1>2, <1>3
<1> QED
  BY <1>2, <1>3, <1>4, WorkletStep

LEMMA FallbackStep ==
    ASSUME Whereabouts, HandleFallback
    PROVE  Whereabouts'
<1>1. WhereaboutsTyped /\ HeldOnce
  BY DEF Whereabouts
<1>2. /\ port # <<>> /\ port' = Tail(port)
      /\ UNCHANGED <<transport, requests, compiling, answers, asked>>
      /\ incoming' = incoming /\ current' = current /\ gone' = gone
  BY DEF HandleFallback, Posted, consumerVars, jitVars, kernelVars, fates
<1>3. Playing' = Playing
  BY <1>2 DEF Playing
<1>4. incoming' \in Kernels \cup {None} /\ (incoming' # None => incoming' # current')
  BY <1>1, <1>2 DEF WhereaboutsTyped, HeldOnce
<1>5. gone' = gone \cup (Playing \ Playing') /\ Playing' \subseteq Playing
  BY <1>2, <1>3
<1> QED
  BY <1>2, <1>4, <1>5, WorkletStep

\* A quantum lets kernels go and starts none that was not there.
LEMMA RenderStep ==
    ASSUME Whereabouts, NEW d \in 0 .. MaxGap, Render(d)
    PROVE  Whereabouts'
<1>1. WhereaboutsTyped /\ HeldOnce /\ PlacesApart
  BY DEF Whereabouts
<1>2. /\ UNCHANGED <<transport, requests, compiling, answers, port, asked>>
      /\ gone' = gone \cup ({current, incoming} \ {current', incoming', Js, None})
  BY DEF Render, connectionVars
<1>3. \/ current' = current /\ incoming' = incoming
      \/ current' = Js /\ incoming' = None
      \/ current' = incoming /\ incoming' = None
  BY DEF Render, Process, Steady, Blend, Abort, Complete, Revert, IncomingAfterRevert, NewCurrent
<1>4. Playing' \subseteq Playing /\ gone' = gone \cup (Playing \ Playing')
  BY <1>2, <1>3 DEF Playing
<1>5. incoming' \in Kernels \cup {None} /\ (incoming' # None => incoming' # current')
  BY <1>1, <1>3 DEF WhereaboutsTyped, HeldOnce
<1>6. Asking' = Asking /\ Answering' = Answering /\ Posting' = Posting
  BY <1>2 DEF Asking, Answering, Posting
<1>7. WhereaboutsTyped'
  BY <1>1, <1>2, <1>4, <1>5, <1>6 DEF WhereaboutsTyped
<1>8. HeldOnce'
  BY <1>1, <1>2, <1>5 DEF HeldOnce
<1>9. PlacesApart'
  BY <1>1, <1>2, <1>4, <1>6 DEF PlacesApart
<1> QED
  BY <1>7, <1>8, <1>9 DEF Whereabouts

\* Binding and disposing of the binding move no kernel.
LEMMA BindingStep ==
    ASSUME Whereabouts, transport' \in {"bytes", "module"},
           UNCHANGED <<current, incoming, requests, compiling, answers, port, asked, gone>>
    PROVE  Whereabouts'
<1>1. Asking' = Asking /\ Answering' = Answering /\ Posting' = Posting /\ Playing' = Playing
  BY DEF Asking, Answering, Posting, Playing
<1>2. WhereaboutsTyped'
  BY <1>1 DEF Whereabouts, WhereaboutsTyped
<1>3. HeldOnce'
  BY DEF Whereabouts, HeldOnce
<1>4. PlacesApart'
  BY <1>1 DEF Whereabouts, PlacesApart
<1> QED
  BY <1>2, <1>3, <1>4 DEF Whereabouts

LEMMA ConnectionSteps == Whereabouts /\ [ConnectionNext]_allJitVars => Whereabouts'
<1> SUFFICES ASSUME Whereabouts, [ConnectionNext]_allJitVars PROVE Whereabouts'
  OBVIOUS
<1>1. CASE \E t \in Transports : Bind(t)
  <2>1. PICK t \in Transports : Bind(t)
    BY <1>1
  <2>2. /\ transport' \in {"bytes", "module"}
        /\ UNCHANGED <<current, incoming, requests, compiling, answers, port, asked, gone>>
    BY <2>1, ConnectionAssumption DEF Bind, consumerVars, jitVars, kernelVars, fates
  <2> QED
    BY <2>2, BindingStep
<1>2. CASE \E k \in Kernels : RequestCompile(k)
  BY <1>2, RequestStep
<1>3. CASE PostForceJs
  BY <1>3, ForceStep
<1>4. CASE Dispose
  <2>1. /\ transport' \in {"bytes", "module"}
        /\ UNCHANGED <<current, incoming, requests, compiling, answers, port, asked, gone>>
    BY <1>4 DEF Dispose, consumerVars, jitVars, kernelVars, fates, Whereabouts, WhereaboutsTyped
  <2> QED
    BY <2>1, BindingStep
<1>5. CASE Answered
  BY <1>5, OnMessageStep DEF Answered
<1>6. CASE WorkerStep
  BY <1>6, CompileStep, CompiledStep DEF WorkerStep
<1>7. CASE WorkletMessage
  BY <1>7, InstallStep, DropStep, ForceJsStep, FallbackStep DEF WorkletMessage
<1>8. CASE \E d \in 0 .. MaxGap : Render(d)
  BY <1>8, RenderStep
<1>9. CASE UNCHANGED allJitVars
  <2>1. /\ transport' \in {"bytes", "module"}
        /\ UNCHANGED <<current, incoming, requests, compiling, answers, port, asked, gone>>
    BY <1>9 DEF allJitVars, consumerVars, jitVars, kernelVars, connectionVars, fates,
        Whereabouts, WhereaboutsTyped
  <2> QED
    BY <2>1, BindingStep
<1> QED
  BY <1>1, <1>2, <1>3, <1>4, <1>5, <1>6, <1>7, <1>8, <1>9 DEF ConnectionNext

\* A kernel that a force-js overtook, that a later install displaced, whose answer came
\* after dispose() or whose message was lost is not played again, however the worker's
\* answers are reordered and whatever the developer asks for meanwhile.
THEOREM DroppedStaysSilent == ConnectionSpec => []GoneIsSilent
<1>1. Whereabouts => GoneIsSilent
  <2> SUFFICES ASSUME Whereabouts PROVE GoneIsSilent
    OBVIOUS
  <2>1. gone \subseteq Kernels /\ Playing \cap gone = {}
    BY DEF Whereabouts, WhereaboutsTyped, PlacesApart
  <2> QED
    BY <2>1, NamesApart DEF GoneIsSilent, Playing
<1> QED
  BY <1>1, WhereaboutsInit, ConnectionSteps, PTL DEF ConnectionSpec

-------------------------------------------------------------------------------
(***************************************************************************)
(* Theorems about HotSwapConsumer, for every set of windows and every pace  *)
(* of quanta.                                                               *)
(***************************************************************************)

\* Windows divide the whole, so that there is a longest one.
LEMMA LongestIs == Longest \in Windows /\ \A w \in Windows : w <= Longest
<1> DEFINE Short == {Whole - w : w \in Windows}
<1>1. Whole \in Nat \ {0} /\ Windows \subseteq Nat \ {0} /\ Windows # {}
  BY CrossfadeAssumption, SwapAssumption
<1>2. ASSUME NEW w \in Windows PROVE w <= Whole
  <2>1. w \in Nat \ {0} /\ Whole % w = 0
    BY <1>1, SwapAssumption
  <2>2. ASSUME w > Whole PROVE FALSE
    BY <1>1, <2>1, <2>2
  <2> QED
    BY <1>1, <2>1, <2>2
<1>3. Short \subseteq Nat /\ Short # {}
  <2>1. \A w \in Windows : Whole - w \in Nat
    BY <1>1, <1>2
  <2> QED
    BY <1>1, <2>1
<1>4. (\A w \in Windows : Whole - w \in Short) /\ \A n \in Short : \E w \in Windows : n = Whole - w
  OBVIOUS
<1> HIDE DEF Short
<1>5. PICK n \in Short : \A m \in Short : n <= m
  BY <1>3, LeastOf
<1>6. PICK w \in Windows : n = Whole - w
  BY <1>4
<1>7. ASSUME NEW v \in Windows PROVE v <= w
  <2>1. Whole - v \in Nat /\ n \in Nat /\ n <= Whole - v
    BY <1>3, <1>4, <1>5
  <2> QED
    BY <1>1, <1>6, <2>1
<1> QED
  BY <1>6, <1>7 DEF Longest

\* The weight is that of the phase, unless the swap was reset since.
WeightFollows ==
    ~snapped =>
        /\ phase \in {"idle", "priming"} => weight = 0
        /\ phase = "fading" => weight = WeightAt(age, window)
        /\ phase = "complete" => weight = Whole

\* A fade that has not completed is inside its window.
FadeIsOpen == phase = "fading" => age < window

FadeInv == SwapTypeOK /\ WeightFollows /\ FadeIsOpen

LEMMA FadeStart == SwapInit => FadeInv
<1> SUFFICES ASSUME SwapInit PROVE FadeInv
  OBVIOUS
<1>1. /\ phase = "idle" /\ age = NotOpen /\ gap = 0
      /\ window = 0 /\ freshPulls = 0 /\ weight = 0 /\ pulled = {} /\ sinceArm = 0
  BY DEF SwapInit, FadeInit
<1>2. snapped \in BOOLEAN
  BY DEF SwapInit, FadeInit
<1>3. Longest \in Nat /\ Whole \in Nat /\ MaxGap \in Nat /\ MinFrames \in Nat
  BY LongestIs, SwapAssumption, CrossfadeAssumption
<1>4. SwapTypeOK
  BY <1>1, <1>2, <1>3 DEF SwapTypeOK
<1> QED
  BY <1>1, <1>4 DEF FadeInv, WeightFollows, FadeIsOpen

\* What a quantum of each phase does.
LEMMA QuantumIs ==
    ASSUME FadeInv, NEW d \in 0 .. MaxGap, NEW arrives \in BOOLEAN, PullLatest(d, arrives)
    PROVE  /\ window' = window /\ gap' = d /\ ~snapped'
           /\ freshPulls' \in 0 .. MinFrames /\ sinceArm' \in 0 .. Longest
           /\ pulled' \subseteq {"a", "b"}
           /\ \/ phase = "idle" /\ phase' = "idle" /\ age' = NotOpen /\ weight' = 0
              \/ phase = "priming" /\ phase' = "priming" /\ age' = NotOpen /\ weight' = 0
              \/ phase = "priming" /\ phase' = "fading" /\ age' = 0 /\ weight' = 0
              \/ /\ phase = "fading" /\ phase' \in {"fading", "complete"}
                 /\ age' \in Nat /\ age <= age' /\ age' <= age + d /\ age' <= Longest
                 /\ weight' = WeightAt(age', window)
                 /\ phase' = "fading" => age' < window
                 /\ phase' = "complete" => weight' = Whole
              \/ /\ phase = "complete" /\ phase' = "complete" /\ weight' = Whole
                 /\ age' \in 0 .. Longest
<1> USE DEF FadeInv
<1>1. /\ Longest \in Nat \ {0} /\ d \in Nat /\ Whole \in Nat \ {0} /\ MinFrames \in Nat \ {0}
      /\ freshPulls \in 0 .. MinFrames /\ sinceArm \in 0 .. Longest
  BY LongestIs, SwapAssumption, CrossfadeAssumption DEF SwapTypeOK
<1>2. window' = window /\ gap' = d /\ ~snapped' /\ pulled' \subseteq {"a", "b"}
  BY DEF PullLatest
<1>4. freshPulls' \in 0 .. MinFrames /\ sinceArm' \in 0 .. Longest
  <2>1. \A x, m \in Nat : Least(x, m) \in 0 .. m
    BY DEF Least
  <2>2. freshPulls' = Least(freshPulls + 1, MinFrames) \/ freshPulls' = freshPulls
    BY DEF PullLatest
  <2>3. sinceArm' = Least(sinceArm + d, Longest)
    BY DEF PullLatest
  <2>4. freshPulls + 1 \in Nat /\ sinceArm + d \in Nat /\ MinFrames \in Nat /\ Longest \in Nat
    BY <1>1
  <2> QED
    BY <1>1, <2>1, <2>2, <2>3, <2>4
<1> DEFINE pulls == IF Fresh(arrives) THEN Least(freshPulls + 1, MinFrames) ELSE freshPulls
<1>5. CASE phase = "idle"
  <2>1. age = NotOpen
    BY <1>5 DEF SwapTypeOK
  <2>2. phase' = "idle" /\ age' = NotOpen /\ weight' = 0
    BY <1>5, <2>1 DEF PullLatest
  <2> QED
    BY <1>2, <1>4, <1>5, <2>2
<1>6. CASE phase = "priming" /\ ~IsBReady(pulls)
  <2>1. age = NotOpen
    BY <1>6 DEF SwapTypeOK
  <2>2. phase' = "priming" /\ age' = NotOpen /\ weight' = 0
    BY <1>6, <2>1 DEF PullLatest
  <2> QED
    BY <1>2, <1>4, <1>6, <2>2
<1>7. CASE phase = "priming" /\ IsBReady(pulls)
  <2>1. window \in Windows
    BY <1>7 DEF SwapTypeOK
  <2>2. window \in Nat \ {0} /\ Whole % window = 0
    BY <2>1, SwapAssumption
  <2>3. WeightAt(0, window) = 0 /\ ~(0 >= Whole)
    BY <1>1, <2>2, WeightGrows
  <2>4. age' = 0
    BY <1>7 DEF PullLatest, Anchor
  <2>5. phase' = "fading" /\ weight' = 0
    BY <1>7, <2>3 DEF PullLatest, Anchor
  <2> QED
    BY <1>2, <1>4, <1>7, <2>4, <2>5
<1>8. CASE phase = "fading"
  <2>1. window \in Windows /\ age \in 0 .. Longest /\ age # NotOpen
    BY <1>8 DEF SwapTypeOK
  <2>2. window \in Nat \ {0} /\ Whole % window = 0 /\ window <= Longest
    BY <2>1, SwapAssumption, LongestIs
  <2>3. age' = Least(age + d, Longest)
    BY <1>8, <2>1 DEF PullLatest
  <2>4. age' \in Nat /\ age <= age' /\ age' <= age + d /\ age' <= Longest
    BY <1>1, <2>1, <2>3 DEF Least
  <2>5. WeightAt(age', window) \in 0 .. Whole
        /\ (age' >= window => WeightAt(age', window) = Whole)
    BY <2>2, <2>4, WeightGrows
  <2>6. CASE WeightAt(age', window) >= Whole
    <3>1. phase' = "complete" /\ weight' = Whole
      BY <1>8, <2>1, <2>3, <2>6 DEF PullLatest
    <3>2. WeightAt(age', window) = Whole
      BY <1>1, <2>5, <2>6
    <3> QED
      BY <1>2, <1>4, <1>8, <2>4, <3>1, <3>2
  <2>7. CASE ~(WeightAt(age', window) >= Whole)
    <3>1. phase' = "fading" /\ weight' = WeightAt(age', window)
      BY <1>8, <2>1, <2>3, <2>7 DEF PullLatest
    <3>2. age' < window
      BY <1>1, <2>2, <2>4, <2>5, <2>7
    <3> QED
      BY <1>2, <1>4, <1>8, <2>4, <3>1, <3>2
  <2> QED
    BY <2>6, <2>7
<1>9. CASE phase = "complete"
  <2>1. age \in 0 .. Longest /\ age # NotOpen
    BY <1>9 DEF SwapTypeOK
  <2>2. phase' = "complete" /\ weight' = Whole /\ age' = Least(age + d, Longest)
    BY <1>9, <2>1 DEF PullLatest
  <2>3. age' \in 0 .. Longest
    BY <1>1, <2>1, <2>2 DEF Least
  <2> QED
    BY <1>2, <1>4, <1>9, <2>2, <2>3
<1> QED
  BY <1>5, <1>6, <1>7, <1>8, <1>9 DEF SwapTypeOK

LEMMA FadeSteps ==
    ASSUME Rearms = FALSE, FadeInv, [SwapNext]_swapVars
    PROVE  FadeInv'
<1>1. Longest \in Nat \ {0} /\ Windows \subseteq Nat \ {0} /\ 0 \notin Windows
      /\ Whole \in Nat \ {0} /\ MinFrames \in Nat \ {0}
  BY LongestIs, SwapAssumption, CrossfadeAssumption
<1>2. ASSUME NEW w \in Windows, ArmSwap(w) PROVE FadeInv'
  <2>1. /\ phase = "idle" /\ phase' = "priming" /\ window' = w /\ age' = NotOpen
        /\ sinceArm' = 0 /\ UNCHANGED <<freshPulls, weight, pulled, gap, snapped>>
    BY <1>2 DEF ArmSwap
  <2>2. SwapTypeOK'
    BY <1>1, <2>1 DEF FadeInv, SwapTypeOK
  <2> QED
    BY <2>1, <2>2 DEF FadeInv, WeightFollows, FadeIsOpen
<1>3. ASSUME NEW forget \in BOOLEAN, Reset(forget) PROVE FadeInv'
  <2>1. /\ phase' = "idle" /\ window' = 0 /\ age' = NotOpen /\ snapped'
        /\ freshPulls' \in {0, freshPulls} /\ UNCHANGED <<weight, pulled, gap, sinceArm>>
    BY <1>3 DEF Reset, AgeAfterReset
  <2>2. SwapTypeOK'
    <3>1. freshPulls' \in 0 .. MinFrames
      BY <1>1, <2>1 DEF FadeInv, SwapTypeOK
    <3>2. snapped' \in BOOLEAN
      BY <1>3 DEF Reset
    <3> QED
      BY <1>1, <2>1, <3>1, <3>2 DEF FadeInv, SwapTypeOK
  <2> QED
    BY <2>1, <2>2 DEF FadeInv, WeightFollows, FadeIsOpen
<1>4. ASSUME NEW d \in 0 .. MaxGap, NEW arrives \in BOOLEAN, PullLatest(d, arrives)
      PROVE  FadeInv'
  <2>1. /\ window' = window /\ gap' = d /\ ~snapped' /\ snapped' \in BOOLEAN
        /\ freshPulls' \in 0 .. MinFrames /\ sinceArm' \in 0 .. Longest
        /\ pulled' \subseteq {"a", "b"} /\ window \in Windows \cup {0}
        /\ (window = 0 <=> phase = "idle") /\ (phase # "idle" => window \in Windows)
    <3>1. snapped' \in BOOLEAN
      BY <1>4 DEF PullLatest
    <3>2. window \in Windows \cup {0} /\ (window = 0 <=> phase = "idle")
      BY DEF FadeInv, SwapTypeOK
    <3> QED
      BY <1>1, <1>4, <3>1, <3>2, QuantumIs
  <2>2. CASE phase' \in {"idle", "priming"} /\ age' = NotOpen /\ weight' = 0
             /\ (phase = "idle" <=> phase' = "idle")
    <3>1. SwapTypeOK'
      BY <1>1, <2>1, <2>2 DEF SwapTypeOK
    <3> QED
      BY <2>1, <2>2, <3>1 DEF FadeInv, WeightFollows, FadeIsOpen
  <2>3. CASE phase' = "fading" /\ phase # "idle" /\ age' \in Nat /\ age' < window
             /\ age' <= Longest /\ weight' = WeightAt(age', window)
    <3>1. weight' \in 0 .. Whole
      BY <1>1, <2>1, <2>3, WeightGrows, SwapAssumption
    <3>2. SwapTypeOK'
      BY <1>1, <2>1, <2>3, <3>1 DEF SwapTypeOK, NotOpen
    <3> QED
      BY <2>1, <2>3, <3>2 DEF FadeInv, WeightFollows, FadeIsOpen
  <2>4. CASE phase' = "complete" /\ phase # "idle" /\ age' \in 0 .. Longest /\ weight' = Whole
    <3>1. SwapTypeOK'
      BY <1>1, <2>1, <2>4 DEF SwapTypeOK, NotOpen
    <3> QED
      BY <2>1, <2>4, <3>1 DEF FadeInv, WeightFollows, FadeIsOpen
  <2>5. phase # "idle" => /\ window \in Nat \ {0} /\ WeightAt(0, window) = 0 /\ 0 < window
                          /\ window <= Longest
    BY <1>1, <2>1, WeightGrows, SwapAssumption, LongestIs
  <2>6. CASE phase = "priming" /\ phase' = "fading" /\ age' = 0 /\ weight' = 0
    BY <1>1, <2>3, <2>5, <2>6
  <2>7. CASE phase = "fading" /\ phase' \in {"fading", "complete"}
             /\ age' \in Nat /\ age' <= Longest /\ weight' = WeightAt(age', window)
             /\ (phase' = "fading" => age' < window) /\ (phase' = "complete" => weight' = Whole)
    <3>1. age' \in 0 .. Longest
      BY <1>1, <2>7
    <3> QED
      BY <2>3, <2>4, <2>7, <3>1
  <2> QED
    BY <1>4, <2>2, <2>4, <2>6, <2>7, QuantumIs
<1>5. ASSUME UNCHANGED swapVars PROVE FadeInv'
  BY <1>5 DEF swapVars, fadeVars, mixVars, FadeInv, SwapTypeOK, WeightFollows, FadeIsOpen
<1> QED
  BY <1>2, <1>3, <1>4, <1>5 DEF SwapNext

\* What the phase machine keeps: a window is open exactly while the output is, or has
\* been, fading.
THEOREM FadesAreTyped ==
    ASSUME Rearms = FALSE
    PROVE  SwapSpec => []SwapTypeOK
<1>1. FadeInv /\ [SwapNext]_swapVars => FadeInv'
  BY FadeSteps
<1>2. FadeInv => SwapTypeOK
  BY DEF FadeInv
<1> QED
  BY <1>1, <1>2, FadeStart, PTL DEF SwapSpec

\* A step of the fade.
LEMMA FadeGlides ==
    ASSUME FadeInv, ~snapped, [SwapNext]_swapVars
    PROVE  \/ weight' = weight
           \/ weight < weight' /\ weight' - weight <= gap' * (Whole \div window')
<1>1. CASE \E w \in Windows : ArmSwap(w)
  BY <1>1 DEF ArmSwap
<1>2. CASE \E forget \in BOOLEAN : Reset(forget)
  BY <1>2 DEF Reset
<1>3. CASE UNCHANGED swapVars
  BY <1>3 DEF swapVars, mixVars
<1>4. ASSUME NEW d \in 0 .. MaxGap, NEW arrives \in BOOLEAN, PullLatest(d, arrives)
      PROVE  \/ weight' = weight
             \/ weight < weight' /\ weight' - weight <= gap' * (Whole \div window')
  <2>1. /\ phase \in {"idle", "priming"} => weight = 0
        /\ phase = "fading" => weight = WeightAt(age, window)
        /\ phase = "complete" => weight = Whole
    BY DEF FadeInv, WeightFollows
  <2>2. CASE phase # "fading"
    BY <1>4, <2>1, <2>2, QuantumIs
  <2>3. CASE phase = "fading"
    <3>1. /\ age' \in Nat /\ age <= age' /\ age' <= age + d /\ gap' = d /\ window' = window
          /\ weight' = WeightAt(age', window)
      BY <1>4, <2>3, QuantumIs
    <3>2. /\ age \in Nat /\ d \in Nat /\ window \in Nat \ {0} /\ Whole % window = 0
      <4>1. window \in Windows /\ age \in 0 .. Longest
        BY <2>3 DEF FadeInv, SwapTypeOK
      <4> QED
        BY <4>1, CrossfadeAssumption, SwapAssumption
    <3>3. /\ weight \in 0 .. Whole /\ weight' \in 0 .. Whole /\ weight <= weight'
          /\ weight' - weight <= d * (Whole \div window)
      BY <2>1, <2>3, <3>1, <3>2, WeightGrows
    <3> QED
      BY <3>1, <3>3, CrossfadeAssumption
  <2> QED
    BY <2>2, <2>3
<1> QED
  BY <1>1, <1>2, <1>3, <1>4 DEF SwapNext

\* The blend of HotSwapConsumer moves bit by bit from a to b, for every window and
\* pace, unless the caller arms a swap over one that is complete: the first quantum of
\* that swap falls from all of b back to none.
THEOREM FadesNeverClick ==
    ASSUME Rearms = FALSE
    PROVE  SwapSpec => NoClick
<1>1. FadeInv /\ [SwapNext]_swapVars => FadeInv'
  BY FadeSteps
<1>2. FadeInv /\ [SwapNext]_swapVars
      => [\/ snapped
          \/ weight' = weight
          \/ weight < weight' /\ weight' - weight <= gap' * (Whole \div window')]_swapVars
  BY FadeGlides
<1> QED
  BY <1>1, <1>2, FadeStart, PTL DEF SwapSpec, NoClick

\* b fades in, and stays, only once it has returned the frames it needs.
HeardInv ==
    /\ freshPulls \in 0 .. MinFrames
    /\ phase \in {"fading", "complete"} => freshPulls = MinFrames
    /\ HeardIsReconstructed

\* reset() and arming leave no fade behind; a quantum fades only once b is ready.
LEMMA HeardSteps == HeardInv /\ [SwapNext]_swapVars => HeardInv'
<1> SUFFICES ASSUME HeardInv, [SwapNext]_swapVars PROVE HeardInv'
  OBVIOUS
<1>1. ASSUME NEW w \in Windows, ArmSwap(w) PROVE HeardInv'
  BY <1>1 DEF ArmSwap, HeardInv, HeardIsReconstructed
<1>2. ASSUME NEW forget \in BOOLEAN, Reset(forget) PROVE HeardInv'
  <2>1. freshPulls' \in 0 .. MinFrames
    BY <1>2, SwapAssumption DEF Reset, HeardInv
  <2>2. phase' = "idle" /\ snapped' /\ UNCHANGED <<weight, pulled>>
    BY <1>2 DEF Reset
  <2> QED
    BY <2>1, <2>2 DEF HeardInv, HeardIsReconstructed
<1>3. ASSUME NEW d \in 0 .. MaxGap, NEW arrives \in BOOLEAN, PullLatest(d, arrives)
      PROVE  HeardInv'
  <2>1. freshPulls' \in 0 .. MinFrames /\ (freshPulls = MinFrames => freshPulls' = MinFrames)
    <3>1. freshPulls' \in {freshPulls, Least(freshPulls + 1, MinFrames)}
      BY <1>3 DEF PullLatest
    <3> QED
      BY <3>1, SwapAssumption DEF Least, HeardInv
  <2>2. \/ phase = "priming" /\ IsBReady(freshPulls')
        \/ phase \in {"fading", "complete"}
        \/ phase' \notin {"fading", "complete"} /\ weight' = 0
    BY <1>3 DEF PullLatest
  <2>3. IsBReady(freshPulls') => freshPulls' = MinFrames
    BY <2>1, SwapAssumption DEF IsBReady
  <2>4. /\ phase = "priming" \/ phase \in {"fading", "complete"} => "b" \in pulled'
        /\ weight' < Whole => "a" \in pulled'
    <3>1. pulled' = (IF PullsA THEN {"a"} ELSE {}) \cup (IF PullsB THEN {"b"} ELSE {})
      BY <1>3 DEF PullLatest
    <3>2. weight' < Whole => PullsA
      <4>1. phase = "complete" => weight' = Whole
        BY <1>3 DEF PullLatest
      <4> QED
        BY <4>1, CrossfadeAssumption DEF PullsA
    <3>3. phase = "priming" \/ phase \in {"fading", "complete"} => PullsB
      BY DEF PullsB
    <3> QED
      BY <3>1, <3>2, <3>3
  <2> QED
    BY <2>1, <2>2, <2>3, <2>4 DEF HeardInv, HeardIsReconstructed
<1>4. CASE UNCHANGED swapVars
  BY <1>4 DEF HeardInv, HeardIsReconstructed, swapVars, fadeVars, mixVars
<1> QED
  BY <1>1, <1>2, <1>3, <1>4 DEF SwapNext

\* What is blended was reconstructed in the same quantum, and b is heard only once it
\* has the frames to interpolate, also when a swap is armed over one that is complete.
THEOREM BlendsAreFresh == SwapSpec => []HeardIsReconstructed
<1>1. SwapInit => HeardInv
  BY SwapAssumption, CrossfadeAssumption DEF SwapInit, FadeInit, HeardInv, HeardIsReconstructed
<1>2. HeardInv => HeardIsReconstructed
  BY DEF HeardInv
<1> QED
  BY <1>1, <1>2, HeardSteps, PTL DEF SwapSpec

-------------------------------------------------------------------------------
(***************************************************************************)
(* Theorems about Connect, for all schemas the ends may mount, threads and   *)
(* offers: every end of a lane finds a field at the same bytes.              *)
(***************************************************************************)

-------------------------------------------------------------------------------
(* The bytes of fields *)

\* What the recursion of BytesAt computes, up to n.
CountsBytes(fields, S, n, f) ==
    f = [m \in 0 .. n |->
            IF m = 0 THEN 0 ELSE f[m - 1] + (IF m \in S THEN Bytes(fields[m]) ELSE 0)]

FieldType == [name : STRING, kind : DOMAIN KindBytes, length : Nat, circular : BOOLEAN]

\* An element of a field's width is what its bytes are made of.
Width(f) == KindBytes[f.kind]

LEMMA WidthIs == \A f \in FieldType : Width(f) \in {1, 2, 4, 8}
<1>1. \A k \in DOMAIN KindBytes : KindBytes[k] \in {1, 2, 4, 8}
  BY DEF KindBytes
<1> QED
  BY <1>1 DEF FieldType, Width

LEMMA BytesAre ==
    ASSUME NEW f \in FieldType
    PROVE  /\ Bytes(f) \in Nat /\ Bytes(f) = Width(f) * (IF f.length = 0 THEN 1 ELSE f.length)
<1>1. f.length \in Nat
  BY DEF FieldType
<1>2. Bytes(f) = Width(f) * (IF f.length = 0 THEN 1 ELSE f.length)
  BY DEF Bytes, Width
<1>3. CASE f.length = 0
  BY <1>2, <1>3, WidthIs
<1>4. CASE f.length # 0
  <2>1. PICK n \in Nat : n = f.length
    BY <1>1
  <2>2. \A w \in {1, 2, 4, 8} : w * n \in Nat
    BY <2>1
  <2> QED
    BY <1>2, <1>4, <2>1, <2>2, WidthIs
<1> QED
  BY <1>3, <1>4

\* The recursion has a solution for every number of fields.
LEMMA CountExists ==
    ASSUME NEW fields \in Seq(FieldType), NEW S
    PROVE  \A n \in Nat : n <= Len(fields) =>
               \E f \in [0 .. n -> Nat] : CountsBytes(fields, S, n, f)
<1> DEFINE T == {n \in Nat : n <= Len(fields) =>
                     \E f \in [0 .. n -> Nat] : CountsBytes(fields, S, n, f)}
           Gain(m) == IF m \in S THEN Bytes(fields[m]) ELSE 0
<1>1. Len(fields) \in Nat /\ \A m \in 1 .. Len(fields) : Gain(m) \in Nat
  <2>1. \A m \in 1 .. Len(fields) : fields[m] \in FieldType
    BY ElementOfSeq
  <2> QED
    BY <2>1, LenProperties, BytesAre
<1>2. \A n, f : CountsBytes(fields, S, n, f) <=>
          f = [m \in 0 .. n |-> IF m = 0 THEN 0 ELSE f[m - 1] + Gain(m)]
  BY DEF CountsBytes
<1> HIDE DEF Gain
<1>3. 0 \in T
  <2> DEFINE f == [m \in 0 .. 0 |-> 0]
  <2>1. f \in [0 .. 0 -> Nat] /\ f = [m \in 0 .. 0 |-> IF m = 0 THEN 0 ELSE f[m - 1] + Gain(m)]
    <3>1. \A m \in 0 .. 0 : m = 0
      OBVIOUS
    <3>2. f \in [0 .. 0 -> Nat]
      OBVIOUS
    <3> QED
      BY <3>1, <3>2
  <2> QED
    BY <1>2, <2>1
<1>4. ASSUME NEW n \in Nat, n \in T PROVE n + 1 \in T
  <2> SUFFICES ASSUME n + 1 <= Len(fields)
               PROVE  \E f \in [0 .. n + 1 -> Nat] : CountsBytes(fields, S, n + 1, f)
    BY <1>1
  <2>1. PICK g \in [0 .. n -> Nat] : CountsBytes(fields, S, n, g)
    BY <1>1, <1>4
  <2>2. g = [m \in 0 .. n |-> IF m = 0 THEN 0 ELSE g[m - 1] + Gain(m)]
    BY <2>1 DEF CountsBytes, Gain
  <2>3. n + 1 \in 1 .. Len(fields)
    BY <1>1
  <2> DEFINE f == [m \in 0 .. n + 1 |-> IF m = n + 1 THEN g[n] + Gain(n + 1) ELSE g[m]]
  <2>4. g[n] \in Nat /\ Gain(n + 1) \in Nat
    BY <1>1, <2>3
  <2>5. f \in [0 .. n + 1 -> Nat]
    <3>1. \A m \in 0 .. n + 1 : m = n + 1 \/ m \in 0 .. n
      OBVIOUS
    <3> QED
      BY <2>4, <3>1
  <2>6. ASSUME NEW m \in 0 .. n + 1 PROVE f[m] = IF m = 0 THEN 0 ELSE f[m - 1] + Gain(m)
    <3>1. CASE m = n + 1
      <4>1. m # 0 /\ m - 1 = n /\ n \in 0 .. n + 1 /\ n # n + 1
        BY <3>1
      <4> QED
        BY <3>1, <4>1
    <3>2. CASE m # n + 1
      <4>1. m \in 0 .. n
        BY <3>2
      <4>2. g[m] = IF m = 0 THEN 0 ELSE g[m - 1] + Gain(m)
        BY <2>2, <4>1
      <4>3. m # 0 => m - 1 \in 0 .. n + 1 /\ m - 1 # n + 1
        BY <4>1
      <4> QED
        BY <3>2, <4>1, <4>2, <4>3
    <3> QED
      BY <3>1, <3>2
  <2>7. f = [m \in 0 .. n + 1 |-> f[m]]
    OBVIOUS
  <2> HIDE DEF f
  <2>8. f = [m \in 0 .. n + 1 |-> IF m = 0 THEN 0 ELSE f[m - 1] + Gain(m)]
    BY <2>6, <2>7
  <2> QED
    BY <1>2, <2>5, <2>8
<1> HIDE DEF T
<1>5. Nat \subseteq T
  BY <1>3, <1>4, CountUp
<1> QED
  BY <1>5 DEF T

\* What BytesAt counts, place by place.
Counted(fields, S, f) ==
    /\ f \in [0 .. Len(fields) -> Nat]
    /\ f[0] = 0 /\ f[Len(fields)] = BytesAt(fields, S)
    /\ \A m \in 1 .. Len(fields) :
           f[m] = f[m - 1] + (IF m \in S THEN Bytes(fields[m]) ELSE 0)

LEMMA BytesAtIs ==
    ASSUME NEW fields \in Seq(FieldType), NEW S
    PROVE  \E f : Counted(fields, S, f)
<1> DEFINE f == CHOOSE g : CountsBytes(fields, S, Len(fields), g)
<1>1. Len(fields) \in Nat
  BY LenProperties
<1>2. \E g \in [0 .. Len(fields) -> Nat] : CountsBytes(fields, S, Len(fields), g)
  BY <1>1, CountExists
<1>3. CountsBytes(fields, S, Len(fields), f)
  BY <1>2
<1>4. BytesAt(fields, S) = f[Len(fields)]
  BY DEF BytesAt, CountsBytes
<1> HIDE DEF f
<1>5. DOMAIN f = 0 .. Len(fields)
  BY <1>3 DEF CountsBytes
<1>6. f[0] = 0 /\ \A m \in 1 .. Len(fields) :
          f[m] = f[m - 1] + (IF m \in S THEN Bytes(fields[m]) ELSE 0)
  BY <1>1, <1>3 DEF CountsBytes
<1> DEFINE T == {n \in Nat : n <= Len(fields) => f[n] \in Nat}
<1>7. ASSUME NEW n \in Nat, n \in T PROVE n + 1 \in T
  <2> SUFFICES ASSUME n + 1 <= Len(fields) PROVE f[n + 1] \in Nat
    OBVIOUS
  <2>1. n + 1 \in 1 .. Len(fields) /\ f[n] \in Nat /\ (n + 1) - 1 = n
    BY <1>1, <1>7
  <2>2. Bytes(fields[n + 1]) \in Nat
    BY <2>1, ElementOfSeq, BytesAre
  <2> QED
    BY <1>6, <2>1, <2>2
<1>8. 0 \in T
  BY <1>6
<1> HIDE DEF T
<1>9. Nat \subseteq T
  BY <1>7, <1>8, CountUp
<1>10. ASSUME NEW m \in 0 .. Len(fields) PROVE f[m] \in Nat
  <2>1. m \in Nat /\ m <= Len(fields)
    BY <1>1
  <2> QED
    BY <1>9, <2>1 DEF T
<1>11. f = [m \in 0 .. Len(fields) |-> f[m]]
  BY <1>3, <1>5 DEF CountsBytes
<1> QED
  BY <1>1, <1>4, <1>6, <1>10, <1>11 DEF Counted

\* Room for the fields in S, and for one more that is in R and not in S.
LEMMA BytesGrow ==
    ASSUME NEW fields \in Seq(FieldType), NEW S, NEW R, S \subseteq R
    PROVE  /\ BytesAt(fields, S) \in Nat /\ BytesAt(fields, R) \in Nat
           /\ BytesAt(fields, S) <= BytesAt(fields, R)
           /\ \A i \in DOMAIN fields : i \in R \ S =>
                  BytesAt(fields, S) + Bytes(fields[i]) <= BytesAt(fields, R)
<1>1. Len(fields) \in Nat /\ DOMAIN fields = 1 .. Len(fields)
  BY LenProperties
<1>2. PICK f : Counted(fields, S, f)
  BY BytesAtIs
<1>3. PICK g : Counted(fields, R, g)
  BY BytesAtIs
<1>4. \A m \in 0 .. Len(fields) : f[m] \in Nat /\ g[m] \in Nat
  BY <1>2, <1>3 DEF Counted
<1>5. \A m \in 1 .. Len(fields) : Bytes(fields[m]) \in Nat
  BY ElementOfSeq, BytesAre
<1> DEFINE T == {n \in Nat : n <= Len(fields) =>
                    /\ f[n] <= g[n]
                    /\ \A i \in 1 .. n : i \in R \ S => f[n] + Bytes(fields[i]) <= g[n]}
<1>6. 0 \in T
  BY <1>1, <1>2, <1>3 DEF Counted
<1>7. ASSUME NEW n \in Nat, n \in T PROVE n + 1 \in T
  <2> SUFFICES ASSUME n + 1 <= Len(fields)
               PROVE  /\ f[n + 1] <= g[n + 1]
                      /\ \A i \in 1 .. n + 1 : i \in R \ S =>
                             f[n + 1] + Bytes(fields[i]) <= g[n + 1]
    OBVIOUS
  <2>1. n + 1 \in 1 .. Len(fields) /\ (n + 1) - 1 = n /\ n \in 0 .. Len(fields)
        /\ n + 1 \in 0 .. Len(fields)
    BY <1>1
  <2>2. f[n + 1] = f[n] + (IF n + 1 \in S THEN Bytes(fields[n + 1]) ELSE 0)
    BY <1>2, <2>1 DEF Counted
  <2>3. g[n + 1] = g[n] + (IF n + 1 \in R THEN Bytes(fields[n + 1]) ELSE 0)
    BY <1>3, <2>1 DEF Counted
  <2>4. f[n] <= g[n] /\ \A i \in 1 .. n : i \in R \ S => f[n] + Bytes(fields[i]) <= g[n]
    BY <1>1, <1>7, <2>1
  <2>5. PICK a \in Nat, b \in Nat, c \in Nat, a1 \in Nat, b1 \in Nat :
            /\ a = f[n] /\ b = g[n] /\ c = Bytes(fields[n + 1])
            /\ a1 = f[n + 1] /\ b1 = g[n + 1]
    BY <1>4, <1>5, <2>1
  <2>6. \/ n + 1 \in S /\ a1 = a + c /\ b1 = b + c
        \/ n + 1 \notin S /\ n + 1 \in R /\ a1 = a /\ b1 = b + c
        \/ n + 1 \notin S /\ n + 1 \notin R /\ a1 = a /\ b1 = b
    BY <2>2, <2>3, <2>5
  <2>7. f[n + 1] <= g[n + 1]
    <3>1. a <= b
      BY <2>4, <2>5
    <3>2. a1 <= b1
      BY <2>6, <3>1
    <3> QED
      BY <2>5, <3>2
  <2>8. ASSUME NEW i \in 1 .. n + 1, i \in R \ S
        PROVE  f[n + 1] + Bytes(fields[i]) <= g[n + 1]
    <3>1. CASE i = n + 1
      <4>1. a1 = a /\ b1 = b + c
        BY <2>6, <2>8, <3>1
      <4> QED
        BY <2>4, <2>5, <3>1, <4>1
    <3>2. CASE i # n + 1
      <4>1. i \in 1 .. n /\ i \in 1 .. Len(fields)
        BY <2>1, <3>2
      <4>2. PICK d \in Nat : d = Bytes(fields[i])
        BY <1>5, <4>1
      <4>3. a + d <= b
        BY <2>4, <2>5, <2>8, <4>1, <4>2
      <4>4. a1 + d <= b1
        BY <2>6, <4>3
      <4> QED
        BY <2>5, <4>2, <4>4
    <3> QED
      BY <3>1, <3>2
  <2> QED
    BY <2>7, <2>8
<1> HIDE DEF T
<1>8. Len(fields) \in T
  BY <1>1, <1>6, <1>7, CountUp
<1> QED
  BY <1>1, <1>2, <1>3, <1>4, <1>8 DEF T, Counted

LEMMA SumDivides ==
    \A w \in {1, 2, 4, 8}, x, y \in Nat : x % w = 0 /\ y % w = 0 => (x + y) % w = 0
<1>1. \A x, y \in Nat : (x + y) % 1 = 0
  OBVIOUS
<1>2. \A x, y \in Nat : x % 2 = 0 /\ y % 2 = 0 => (x + y) % 2 = 0
  OBVIOUS
<1>3. \A x, y \in Nat : x % 4 = 0 /\ y % 4 = 0 => (x + y) % 4 = 0
  OBVIOUS
<1>4. \A x, y \in Nat : x % 8 = 0 /\ y % 8 = 0 => (x + y) % 8 = 0
  OBVIOUS
<1> QED
  BY <1>1, <1>2, <1>3, <1>4

\* The width of a field divides the bytes of fields no narrower than it.
LEMMA BytesDivide ==
    ASSUME NEW fields \in Seq(FieldType), NEW S, NEW w \in {1, 2, 4, 8},
           \A i \in DOMAIN fields : i \in S => Width(fields[i]) >= w
    PROVE  BytesAt(fields, S) % w = 0
<1>1. Len(fields) \in Nat /\ DOMAIN fields = 1 .. Len(fields)
  BY LenProperties
<1>2. PICK f : Counted(fields, S, f)
  BY BytesAtIs
<1>3. \A m \in 0 .. Len(fields) : f[m] \in Nat
  BY <1>2 DEF Counted
<1>4. ASSUME NEW i \in 1 .. Len(fields), i \in S
      PROVE  Bytes(fields[i]) \in Nat /\ Bytes(fields[i]) % w = 0
  <2>1. fields[i] \in FieldType
    BY ElementOfSeq
  <2>2. Bytes(fields[i]) \in Nat
        /\ Bytes(fields[i]) = Width(fields[i]) * (IF fields[i].length = 0 THEN 1 ELSE fields[i].length)
    BY <2>1, BytesAre
  <2>3. PICK n \in Nat : n = IF fields[i].length = 0 THEN 1 ELSE fields[i].length
    BY <2>1 DEF FieldType
  <2>4. Width(fields[i]) \in {1, 2, 4, 8} /\ Width(fields[i]) >= w
    BY <1>1, <1>4, <2>1, WidthIs
  <2>5. PICK v \in {1, 2, 4, 8} : v = Width(fields[i])
    BY <2>4
  <2>6. v >= w
    BY <2>4, <2>5
  <2>7. (v * n) % w = 0
    BY <2>6
  <2> QED
    BY <2>2, <2>3, <2>5, <2>7
<1> DEFINE T == {n \in Nat : n <= Len(fields) => f[n] % w = 0}
<1>5. 0 \in T
  BY <1>1, <1>2 DEF Counted
<1>6. ASSUME NEW n \in Nat, n \in T PROVE n + 1 \in T
  <2> SUFFICES ASSUME n + 1 <= Len(fields) PROVE f[n + 1] % w = 0
    OBVIOUS
  <2>1. n + 1 \in 1 .. Len(fields) /\ (n + 1) - 1 = n /\ n \in 0 .. Len(fields)
    BY <1>1
  <2>2. f[n + 1] = f[n] + (IF n + 1 \in S THEN Bytes(fields[n + 1]) ELSE 0)
    BY <1>2, <2>1 DEF Counted
  <2>3. PICK a \in Nat : a = f[n]
    BY <1>3, <2>1
  <2>4. a % w = 0
    BY <1>1, <1>6, <2>1, <2>3
  <2>5. CASE n + 1 \in S
    <3>1. PICK b \in Nat : b = Bytes(fields[n + 1]) /\ b % w = 0
      BY <1>4, <2>1, <2>5
    <3>2. (a + b) % w = 0
      BY <2>4, <3>1, SumDivides
    <3> QED
      BY <2>2, <2>3, <2>5, <3>1, <3>2
  <2>6. CASE n + 1 \notin S
    BY <2>2, <2>3, <2>4, <2>6
  <2> QED
    BY <2>5, <2>6
<1> HIDE DEF T
<1>7. Len(fields) \in T
  BY <1>1, <1>5, <1>6, CountUp
<1> QED
  BY <1>1, <1>2, <1>7 DEF T, Counted

-------------------------------------------------------------------------------
(* The layout of a schema *)

\* Where the i-th declared field lies.
FieldsBefore(fields, i) == {j \in DOMAIN fields : Precedes(fields, j, i)}
OffsetOf(fields, i) == BytesAt(fields, FieldsBefore(fields, i))

LayoutField(fields, i) ==
    [name |-> fields[i].name, kind |-> fields[i].kind, length |-> fields[i].length,
     circular |-> fields[i].circular, byteOffset |-> OffsetOf(fields, i)]

LEMMA LayoutIs ==
    ASSUME NEW schema
    PROVE  LET layout == Layout(schema)
               fields == schema.fields
               userEnd == RoundUp8(BytesAt(fields, DOMAIN fields))
           IN  /\ layout.fields = {LayoutField(fields, i) : i \in DOMAIN fields}
               /\ layout.invariantByteOffset = IF schema.invariant THEN userEnd ELSE -1
               /\ layout.frameByteSize = userEnd + (IF schema.invariant THEN 8 ELSE 0)
  BY DEF Layout, LayoutField, OffsetOf, FieldsBefore

\* One field lies behind the other, and all of them before the end.
LEMMA FieldsLieApart ==
    ASSUME NEW fields \in Seq(FieldType), NEW i \in DOMAIN fields
    PROVE  /\ OffsetOf(fields, i) \in Nat
           /\ OffsetOf(fields, i) % Width(fields[i]) = 0
           /\ OffsetOf(fields, i) + Bytes(fields[i]) <= BytesAt(fields, DOMAIN fields)
           /\ \A k \in DOMAIN fields \ {i} :
                  \/ OffsetOf(fields, i) + Bytes(fields[i]) <= OffsetOf(fields, k)
                  \/ OffsetOf(fields, k) + Bytes(fields[k]) <= OffsetOf(fields, i)
<1>1. Len(fields) \in Nat /\ DOMAIN fields = 1 .. Len(fields)
  BY LenProperties
<1>2. \A k \in DOMAIN fields : fields[k] \in FieldType /\ Width(fields[k]) \in {1, 2, 4, 8}
  BY <1>1, ElementOfSeq, WidthIs
<1>3. \A j, k : Precedes(fields, j, k) <=>
          \/ Width(fields[j]) > Width(fields[k])
          \/ Width(fields[j]) = Width(fields[k]) /\ j < k
  BY DEF Precedes, Width
<1>4. \A j, k \in DOMAIN fields : j \in FieldsBefore(fields, k) <=>
          \/ Width(fields[j]) > Width(fields[k])
          \/ Width(fields[j]) = Width(fields[k]) /\ j < k
  BY <1>3 DEF FieldsBefore
<1>5. \A k : FieldsBefore(fields, k) \subseteq DOMAIN fields
  BY DEF FieldsBefore
<1>6. ASSUME NEW k \in DOMAIN fields, NEW j \in DOMAIN fields, j \in FieldsBefore(fields, k)
      PROVE  OffsetOf(fields, j) + Bytes(fields[j]) <= OffsetOf(fields, k)
  <2>1. FieldsBefore(fields, j) \subseteq FieldsBefore(fields, k)
    <3>1. ASSUME NEW n \in DOMAIN fields, n \in FieldsBefore(fields, j)
          PROVE  n \in FieldsBefore(fields, k)
      <4>1. PICK a, b, c \in {1, 2, 4, 8} :
                a = Width(fields[n]) /\ b = Width(fields[j]) /\ c = Width(fields[k])
        BY <1>2
      <4>2. (a > b \/ (a = b /\ n < j)) /\ (b > c \/ (b = c /\ j < k))
        BY <1>4, <1>6, <3>1, <4>1
      <4>3. a > c \/ (a = c /\ n < k)
        BY <1>1, <4>2
      <4> QED
        BY <1>4, <4>1, <4>3
    <3> QED
      BY <1>5, <3>1
  <2>2. j \notin FieldsBefore(fields, j)
    <3>1. PICK b \in {1, 2, 4, 8} : b = Width(fields[j])
      BY <1>2
    <3>2. ~(b > b) /\ ~(j < j)
      BY <1>1
    <3> QED
      BY <1>4, <3>1, <3>2
  <2> QED
    BY <1>6, <2>1, <2>2, BytesGrow DEF OffsetOf
<1>7. OffsetOf(fields, i) \in Nat
  BY <1>5, BytesGrow DEF OffsetOf
<1>8. OffsetOf(fields, i) % Width(fields[i]) = 0
  <2>1. PICK w \in {1, 2, 4, 8} : w = Width(fields[i])
    BY <1>2
  <2>2. ASSUME NEW j \in DOMAIN fields, j \in FieldsBefore(fields, i)
        PROVE  Width(fields[j]) >= w
    <3>1. PICK v \in {1, 2, 4, 8} : v = Width(fields[j])
      BY <1>2
    <3>2. v > w \/ v = w
      BY <1>4, <2>1, <2>2, <3>1
    <3> QED
      BY <3>1, <3>2
  <2>3. BytesAt(fields, FieldsBefore(fields, i)) % w = 0
    BY <2>2, BytesDivide
  <2> QED
    BY <2>1, <2>3 DEF OffsetOf
<1>9. OffsetOf(fields, i) + Bytes(fields[i]) <= BytesAt(fields, DOMAIN fields)
  <2>1. i \notin FieldsBefore(fields, i)
    <3>1. PICK b \in {1, 2, 4, 8} : b = Width(fields[i])
      BY <1>2
    <3>2. ~(b > b) /\ ~(i < i)
      BY <1>1
    <3> QED
      BY <1>4, <3>1, <3>2
  <2> QED
    BY <1>5, <2>1, BytesGrow DEF OffsetOf
<1>10. ASSUME NEW k \in DOMAIN fields \ {i}
       PROVE  i \in FieldsBefore(fields, k) \/ k \in FieldsBefore(fields, i)
  <2>1. PICK a, b \in {1, 2, 4, 8} : a = Width(fields[i]) /\ b = Width(fields[k])
    BY <1>2
  <2>2. a > b \/ b > a \/ (a = b /\ i < k) \/ (b = a /\ k < i)
    BY <1>1
  <2> QED
    BY <1>4, <2>1, <2>2
<1> QED
  BY <1>6, <1>7, <1>8, <1>9, <1>10

\* A field's bytes as a part of its frame.
LEMMA LayoutIsSound ==
    ASSUME NEW schema, IsSchema(schema)
    PROVE  LET layout == Layout(schema)
           IN  /\ \A f \in layout.fields :
                     /\ f.byteOffset % KindBytes[f.kind] = 0
                     /\ Span(f) \subseteq 0 .. layout.frameByteSize - 1
                     /\ layout.invariantByteOffset \notin Span(f)
                     /\ \A g \in layout.fields \ {f} : Span(f) \cap Span(g) = {}
               /\ \A f, g \in layout.fields : f.name = g.name => f = g
<1> DEFINE fields == schema.fields
           total == BytesAt(fields, DOMAIN fields)
<1>1. fields \in Seq(FieldType) /\ schema.invariant \in BOOLEAN
      /\ \A i, j \in DOMAIN fields : fields[i].name = fields[j].name => i = j
  BY DEF IsSchema, FieldType
<1> HIDE DEF fields
<1>2. total \in Nat
  BY <1>1, BytesGrow
<1> HIDE DEF total
<1>3. PICK userEnd \in Nat : userEnd = RoundUp8(total) /\ total <= userEnd
  <2>1. RoundUp8(total) \in Nat /\ total <= RoundUp8(total)
    BY <1>2 DEF RoundUp8
  <2> QED
    BY <2>1
<1>4. /\ Layout(schema).fields = {LayoutField(fields, i) : i \in DOMAIN fields}
      /\ Layout(schema).invariantByteOffset = IF schema.invariant THEN userEnd ELSE -1
      /\ Layout(schema).frameByteSize = userEnd + (IF schema.invariant THEN 8 ELSE 0)
  BY <1>3, LayoutIs DEF fields, total
<1>5. ASSUME NEW i \in DOMAIN fields
      PROVE  LET f == LayoutField(fields, i)
             IN  /\ f.name = fields[i].name /\ f.kind = fields[i].kind
                 /\ f.byteOffset = OffsetOf(fields, i) /\ Bytes(f) = Bytes(fields[i])
                 /\ f.byteOffset \in Nat /\ Bytes(f) \in Nat
                 /\ f.byteOffset % KindBytes[f.kind] = 0
                 /\ f.byteOffset + Bytes(f) <= total
                 /\ \A k \in DOMAIN fields \ {i} :
                        \/ f.byteOffset + Bytes(f) <= OffsetOf(fields, k)
                        \/ OffsetOf(fields, k) + Bytes(fields[k]) <= f.byteOffset
  <2> DEFINE f == LayoutField(fields, i)
  <2>1. /\ f.name = fields[i].name /\ f.kind = fields[i].kind /\ f.length = fields[i].length
        /\ f.byteOffset = OffsetOf(fields, i)
    BY DEF LayoutField
  <2> HIDE DEF f
  <2>2. Bytes(f) = Bytes(fields[i])
    BY <2>1 DEF Bytes
  <2>3. Bytes(fields[i]) \in Nat /\ KindBytes[f.kind] = Width(fields[i])
    <3>1. i \in 1 .. Len(fields)
      BY <1>1, LenProperties
    <3>2. fields[i] \in FieldType
      BY <1>1, <3>1, ElementOfSeq
    <3> QED
      BY <2>1, <3>2, BytesAre DEF Width
  <2>4. /\ OffsetOf(fields, i) \in Nat
        /\ OffsetOf(fields, i) % Width(fields[i]) = 0
        /\ OffsetOf(fields, i) + Bytes(fields[i]) <= total
        /\ \A k \in DOMAIN fields \ {i} :
               \/ OffsetOf(fields, i) + Bytes(fields[i]) <= OffsetOf(fields, k)
               \/ OffsetOf(fields, k) + Bytes(fields[k]) <= OffsetOf(fields, i)
    BY <1>1, FieldsLieApart DEF total
  <2> QED
    BY <2>1, <2>2, <2>3, <2>4 DEF f
<1>6. ASSUME NEW i \in DOMAIN fields, NEW f, f = LayoutField(fields, i)
      PROVE  /\ f.byteOffset % KindBytes[f.kind] = 0
             /\ Span(f) \subseteq 0 .. Layout(schema).frameByteSize - 1
             /\ Layout(schema).invariantByteOffset \notin Span(f)
  <2>1. PICK a \in Nat, b \in Nat : a = f.byteOffset /\ b = Bytes(f) /\ a + b <= total
    BY <1>5, <1>6
  <2>2. Span(f) = a .. a + b - 1
    BY <2>1 DEF Span
  <2>3. Layout(schema).frameByteSize \in Nat /\ userEnd <= Layout(schema).frameByteSize
    BY <1>1, <1>4
  <2>4. Layout(schema).invariantByteOffset \notin a .. a + b - 1
    <3>1. userEnd \notin a .. a + b - 1 /\ -1 \notin a .. a + b - 1
      BY <1>2, <1>3, <2>1
    <3> QED
      BY <1>1, <1>4, <3>1
  <2>5. a .. a + b - 1 \subseteq 0 .. Layout(schema).frameByteSize - 1
    BY <1>2, <1>3, <2>1, <2>3
  <2> QED
    BY <1>5, <1>6, <2>2, <2>4, <2>5
<1>7. ASSUME NEW i \in DOMAIN fields, NEW k \in DOMAIN fields, i # k,
             NEW f, f = LayoutField(fields, i), NEW g, g = LayoutField(fields, k)
      PROVE  Span(f) \cap Span(g) = {}
  <2>1. PICK a \in Nat, b \in Nat, c \in Nat, d \in Nat :
            /\ a = f.byteOffset /\ b = Bytes(f) /\ c = g.byteOffset /\ d = Bytes(g)
    BY <1>5, <1>7
  <2>2. a + b <= c \/ c + d <= a
    BY <1>5, <1>7, <2>1
  <2>3. Span(f) = a .. a + b - 1 /\ Span(g) = c .. c + d - 1
    BY <2>1 DEF Span
  <2>4. (a .. a + b - 1) \cap (c .. c + d - 1) = {}
    BY <2>2
  <2> QED
    BY <2>3, <2>4
<1>8. ASSUME NEW f \in Layout(schema).fields
      PROVE  \E i \in DOMAIN fields : f = LayoutField(fields, i)
  BY <1>4
<1>9. ASSUME NEW f \in Layout(schema).fields, NEW g \in Layout(schema).fields, f.name = g.name
      PROVE  f = g
  <2>1. PICK i \in DOMAIN fields : f = LayoutField(fields, i)
    BY <1>8
  <2>2. PICK k \in DOMAIN fields : g = LayoutField(fields, k)
    BY <1>8
  <2>3. fields[i].name = fields[k].name
    BY <1>5, <1>9, <2>1, <2>2
  <2> QED
    BY <1>1, <2>1, <2>2, <2>3
<1>10. ASSUME NEW f \in Layout(schema).fields, NEW g \in Layout(schema).fields, g # f
       PROVE  Span(f) \cap Span(g) = {}
  <2>1. PICK i \in DOMAIN fields : f = LayoutField(fields, i)
    BY <1>8
  <2>2. PICK k \in DOMAIN fields : g = LayoutField(fields, k)
    BY <1>8
  <2>3. i # k
    BY <1>10, <2>1, <2>2
  <2> QED
    BY <1>7, <2>1, <2>2, <2>3
<1> QED
  BY <1>6, <1>8, <1>9, <1>10

\* What LayoutMatches compares says of each field where it lies.
LEMMA MatchingFields ==
    ASSUME NEW s1, NEW s2, IsSchema(s1), IsSchema(s2), NEW handle,
           LayoutMatches(Layout(s1), handle), LayoutMatches(Layout(s2), handle)
    PROVE  /\ Layout(s1).frameByteSize = Layout(s2).frameByteSize
           /\ \A f \in Layout(s1).fields : \E g \in Layout(s2).fields : f.name = g.name
           /\ \A f \in Layout(s1).fields, g \in Layout(s2).fields :
                  f.name = g.name => f.kind = g.kind /\ Span(f) = Span(g)
<1> DEFINE Plain(f) == [f EXCEPT !.circular = FALSE]
           A == Layout(s1).fields
           B == Layout(s2).fields
<1>1. /\ Layout(s1).frameByteSize = Layout(s2).frameByteSize
      /\ {Plain(f) : f \in A} = {Plain(f) : f \in B}
  BY DEF LayoutMatches
<1>2. ASSUME NEW s, NEW f \in Layout(s).fields
      PROVE  /\ Plain(f).name = f.name /\ Plain(f).kind = f.kind
             /\ Plain(f).length = f.length /\ Plain(f).byteOffset = f.byteOffset
  <2>1. PICK i \in DOMAIN s.fields : f = LayoutField(s.fields, i)
    BY LayoutIs
  <2> QED
    BY <2>1 DEF LayoutField
<1>3. \A f, g \in B : f.name = g.name => f = g
  BY LayoutIsSound
<1> HIDE DEF Plain, A, B
<1>4. ASSUME NEW f \in A
      PROVE  \E g \in B : Plain(g) = Plain(f)
  BY <1>1
<1>5. ASSUME NEW f \in A, NEW g \in B, Plain(g) = Plain(f)
      PROVE  f.name = g.name /\ f.kind = g.kind /\ Span(f) = Span(g)
  <2>1. /\ f.name = g.name /\ f.kind = g.kind /\ f.length = g.length
        /\ f.byteOffset = g.byteOffset
    <3>1. /\ Plain(f).name = f.name /\ Plain(f).kind = f.kind
          /\ Plain(f).length = f.length /\ Plain(f).byteOffset = f.byteOffset
      BY <1>2 DEF A
    <3>2. /\ Plain(g).name = g.name /\ Plain(g).kind = g.kind
          /\ Plain(g).length = g.length /\ Plain(g).byteOffset = g.byteOffset
      BY <1>2 DEF B
    <3> QED
      BY <1>5, <3>1, <3>2
  <2>2. Bytes(f) = Bytes(g)
    BY <2>1 DEF Bytes
  <2> QED
    BY <2>1, <2>2 DEF Span
<1>6. ASSUME NEW f \in A, NEW g \in B, f.name = g.name
      PROVE  f.kind = g.kind /\ Span(f) = Span(g)
  <2>1. PICK h \in B : Plain(h) = Plain(f)
    BY <1>4
  <2>2. f.name = h.name /\ f.kind = h.kind /\ Span(f) = Span(h)
    BY <1>5, <2>1
  <2>3. g = h
    BY <1>3, <1>6, <2>2
  <2> QED
    BY <2>2, <2>3
<1>7. \A f \in A : \E g \in B : f.name = g.name
  BY <1>4, <1>5
<1> QED
  BY <1>1, <1>6, <1>7 DEF A, B

-------------------------------------------------------------------------------
(* Mounting *)

\* Every end was mounted on the handle that connect() left, by a layout that matches.
EndsMatch ==
    /\ ends # {} => mode \in {"turbo", "standard"}
    /\ \A e \in ends : /\ e.schema \in MountSchemas
                       /\ LayoutMatches(LayoutOf[e.schema], lane[e.lane].layout)

LEMMA EndsStayMatched == EndsMatch /\ [ConnectNext]_connectVars => EndsMatch'
<1> SUFFICES ASSUME EndsMatch, [ConnectNext]_connectVars PROVE EndsMatch'
  OBVIOUS
<1>1. ASSUME NEW offer \in Offers, NEW suggested \in {"turbo", "standard", "unsupported"},
             Connect(offer, suggested)
      PROVE  EndsMatch'
  <2>1. ends = {} /\ ends' = {}
    BY <1>1, ConnectAssumption DEF Connect, EndsMatch
  <2> QED
    BY <2>1 DEF EndsMatch
<1>2. ASSUME NEW t \in Threads, NEW macroSchema \in MountSchemas,
             NEW inputSchema \in MountSchemas \cup {NoLane},
             Mount(t, macroSchema, inputSchema)
      PROVE  EndsMatch'
  <2>1. mode' = mode /\ lane' = lane /\ mode \in {"turbo", "standard"}
    BY <1>2 DEF Mount
  <2>2. LayoutMatches(LayoutOf[macroSchema], lane["macro"].layout)
    BY <1>2 DEF Mount, Mounts
  <2>3. lane["input"] # NoLane =>
            /\ inputSchema \in MountSchemas
            /\ LayoutMatches(LayoutOf[inputSchema], lane["input"].layout)
    BY <1>2 DEF Mount, Mounts
  <2>4. \A e \in ends' \ ends :
            \/ e = [thread |-> t, lane |-> "macro", schema |-> macroSchema]
            \/ /\ e = [thread |-> t, lane |-> "input", schema |-> inputSchema]
               /\ lane["input"] # NoLane
    BY <1>2 DEF Mount
  <2>5. ASSUME NEW e \in ends'
        PROVE  e.schema \in MountSchemas /\ LayoutMatches(LayoutOf[e.schema], lane[e.lane].layout)
    <3>1. CASE e \in ends
      BY <3>1 DEF EndsMatch
    <3>2. CASE e = [thread |-> t, lane |-> "macro", schema |-> macroSchema]
      BY <2>2, <3>2
    <3>3. CASE e = [thread |-> t, lane |-> "input", schema |-> inputSchema]
               /\ lane["input"] # NoLane
      BY <2>3, <3>3
    <3> QED
      BY <2>4, <2>5, <3>1, <3>2, <3>3
  <2> QED
    BY <2>1, <2>5 DEF EndsMatch
<1>3. CASE UNCHANGED connectVars
  BY <1>3 DEF EndsMatch, connectVars
<1> QED
  BY <1>1, <1>2, <1>3 DEF ConnectNext

\* Whatever a thread has imported, mount() lets it in only if it reads each field from
\* the bytes, and as the kind, that every other end writes it: compileLayout puts no two
\* fields on one byte and each where a typed array can lie, for schemas of any fields.
THEOREM EndsAgree == ConnectSpec => []EndsAgreeOnBytes
<1>1. ConnectInit => EndsMatch
  BY DEF ConnectInit, EndsMatch
<1>2. EndsMatch => EndsAgreeOnBytes
  <2> SUFFICES ASSUME EndsMatch PROVE EndsAgreeOnBytes
    OBVIOUS
  <2>1. ASSUME NEW e \in ends
        PROVE  /\ IsSchema(e.schema) /\ LayoutOf[e.schema] = Layout(e.schema)
               /\ LayoutMatches(Layout(e.schema), lane[e.lane].layout)
    BY ConnectAssumption DEF EndsMatch, LayoutOf
  <2>2. ASSUME NEW e \in ends PROVE FieldsFit(LayoutOf[e.schema])
    BY <2>1, LayoutIsSound DEF FieldsFit
  <2>3. ASSUME NEW e \in ends, NEW d \in ends, d.lane = e.lane
        PROVE  SameBytes(LayoutOf[e.schema], LayoutOf[d.schema])
    <3>1. /\ Layout(e.schema).frameByteSize = Layout(d.schema).frameByteSize
          /\ \A f \in Layout(e.schema).fields : \E g \in Layout(d.schema).fields : f.name = g.name
          /\ \A f \in Layout(e.schema).fields, g \in Layout(d.schema).fields :
                 f.name = g.name => f.kind = g.kind /\ Span(f) = Span(g)
      BY <2>1, <2>3, MatchingFields
    <3>2. \A g \in Layout(d.schema).fields : \E f \in Layout(e.schema).fields : g.name = f.name
      BY <2>1, <2>3, MatchingFields
    <3>3. SameBytes(Layout(e.schema), Layout(d.schema))
      BY <3>1, <3>2 DEF SameBytes
    <3> QED
      BY <2>1, <3>3
  <2> QED
    BY <2>2, <2>3 DEF EndsAgreeOnBytes
<1> QED
  BY <1>1, <1>2, EndsStayMatched, PTL DEF ConnectSpec

-------------------------------------------------------------------------------
(***************************************************************************)
(* Theorems about ConnectGraph, for all nodes, edges they may be joined by,  *)
(* capacities of rings and backlogs of hints.                                *)
(***************************************************************************)

-------------------------------------------------------------------------------
(* The largest and the least of a set of numbers *)

LEMMA MaxIs ==
    ASSUME NEW S, IsFiniteSet(S), S \subseteq Nat, S # {}
    PROVE  Max(S) \in S /\ \A y \in S : Max(S) >= y
<1> DEFINE T == {n \in Nat : \A R \in SUBSET S : Cardinality(R) = n /\ R # {} =>
                                 \E x \in R : \A y \in R : x >= y}
<1>1. \A R \in SUBSET S : IsFiniteSet(R) /\ R \subseteq Nat
  BY FS_Subset
<1>2. 0 \in T
  BY <1>1, FS_EmptySet
<1>3. ASSUME NEW n \in Nat, n \in T PROVE n + 1 \in T
  <2> SUFFICES ASSUME NEW R \in SUBSET S, Cardinality(R) = n + 1, R # {}
               PROVE  \E x \in R : \A y \in R : x >= y
    OBVIOUS
  <2>1. PICK r \in R : TRUE
    OBVIOUS
  <2>2. Cardinality(R \ {r}) = n /\ R \ {r} \in SUBSET S
    <3>1. IsFiniteSet(R)
      BY <1>1
    <3>2. Cardinality(R \ {r}) = Cardinality(R) - 1
      BY <2>1, <3>1, FS_RemoveElement
    <3> QED
      BY <3>2
  <2>3. CASE R \ {r} = {}
    <3>1. \A y \in R : y = r
      BY <2>3
    <3>2. r \in Nat
      BY <1>1
    <3> QED
      BY <3>1, <3>2
  <2>4. CASE R \ {r} # {}
    <3>1. PICK x \in R \ {r} : \A y \in R \ {r} : x >= y
      BY <1>3, <2>2, <2>4
    <3>2. R \subseteq Nat
      BY <1>1
    <3>3. CASE x >= r
      BY <3>1, <3>2, <3>3
    <3>4. CASE ~ (x >= r)
      <4>1. \A y \in R : r >= y
        BY <3>1, <3>2, <3>4
      <4> QED
        BY <4>1
    <3> QED
      BY <3>3, <3>4
  <2> QED
    BY <2>3, <2>4
<1>4. Cardinality(S) \in Nat
  BY FS_CardinalityType
<1>5. Cardinality(S) \in T
  <2> HIDE DEF T
  <2> QED
    BY <1>2, <1>3, <1>4, CountUp
<1>6. \E x \in S : \A y \in S : x >= y
  BY <1>5
<1> QED
  BY <1>6 DEF Max

LEMMA MaxOfTwo ==
    ASSUME NEW x \in Nat, NEW y \in Nat
    PROVE  Max({x, y}) \in Nat /\ Max({x, y}) >= x /\ Max({x, y}) >= y
<1>1. IsFiniteSet({x, y})
  <2>1. {x, y} = {x} \cup {y}
    OBVIOUS
  <2> QED
    <3>1. IsFiniteSet({x}) /\ IsFiniteSet({y})
      BY FS_Singleton
    <3>2. IsFiniteSet({x} \cup {y})
      BY <3>1, FS_Union
    <3> QED
      BY <2>1, <3>2
<1> QED
  BY <1>1, MaxIs

-------------------------------------------------------------------------------
(* How large a ring is *)

LEMMA HighestPower == Max(Powers) \in Powers
  BY SizingAssumption, MaxIs

\* A ring is as large as it was asked to be, unless none is.
LEMMA NextPow2Is ==
    ASSUME NEW n \in Nat
    PROVE  NextPow2(n) \in Powers /\ (NextPow2(n) < Max(Powers) => NextPow2(n) >= n)
<1> DEFINE Fit == {p \in Powers : p >= n} \cup {Max(Powers)}
<1>1. Fit \subseteq Powers /\ Fit # {} /\ Powers \subseteq Nat
  BY HighestPower, SizingAssumption
<1>2. \E x \in Fit : \A y \in Fit : x <= y
  BY <1>1, LeastOf
<1>3. Min(Fit) \in Fit
  BY <1>2 DEF Min
<1>4. NextPow2(n) = Min(Fit)
  BY DEF NextPow2
<1>5. CASE Min(Fit) = Max(Powers)
  <2>1. Max(Powers) \in Nat
    BY <1>1, HighestPower
  <2> QED
    BY <1>1, <1>3, <1>4, <1>5, <2>1
<1>6. CASE Min(Fit) \in {p \in Powers : p >= n}
  BY <1>4, <1>6
<1> QED
  BY <1>3, <1>5, <1>6

LEMMA BacklogIs ==
    ASSUME NEW hint \in [latency : Nat, frame : Nat]
    PROVE  Backlog(hint) \in Nat
<1>1. hint.latency \in Nat /\ hint.frame \in Nat
  OBVIOUS
<1>2. CASE FrameTime(hint) = NaN
  BY <1>2, SizingAssumption DEF Backlog
<1>3. CASE FrameTime(hint) # NaN
  <2>1. hint.frame \in Nat \ {0}
    BY <1>1, <1>3 DEF FrameTime
  <2>2. PICK l \in Nat, f \in Nat \ {0} : l = hint.latency /\ f = hint.frame
    BY <1>1, <2>1
  <2>3. (l + f - 1) \div f \in Nat
    <3>1. l + f - 1 \in Nat
      OBVIOUS
    <3> QED
      BY <3>1
  <2>4. Backlog(hint) = Max({1, (l + f - 1) \div f})
    BY <1>3, <2>2 DEF Backlog
  <2> QED
    BY <2>3, <2>4, MaxOfTwo
<1> QED
  BY <1>2, <1>3

\* A ring that is not cut short holds the backlog and what producers claim beyond it.
LEMMA RingHolds ==
    ASSUME NEW kind \in {"spsc", "mpmc", "spmc", "mpmc-wq"}, NEW producers \in Nat \ {0},
           NEW hint \in [latency : Nat, frame : Nat],
           RingCapacity(kind, producers, 0, hint) < Max(Powers)
    PROVE  /\ RingCapacity(kind, producers, 0, hint) \in Nat
           /\ RingCapacity(kind, producers, 0, hint) >= Backlog(hint) + Slack(kind, producers)
<1> DEFINE least == Backlog(hint) + Slack(kind, producers)
<1>1. least \in Nat /\ Floor(kind, producers) \in Nat
  BY BacklogIs DEF Slack, Floor
<1>2. RingCapacity(kind, producers, 0, hint) = NextPow2(Max({Floor(kind, producers), least}))
  BY DEF RingCapacity
<1>3. /\ Max({Floor(kind, producers), least}) \in Nat
      /\ Max({Floor(kind, producers), least}) >= least
  BY <1>1, MaxOfTwo
<1>4. Powers \subseteq Nat
  BY SizingAssumption
<1> HIDE DEF least
<1>5. PICK m \in Nat : m = Max({Floor(kind, producers), least}) /\ m >= least
  BY <1>3
<1>6. NextPow2(m) \in Nat /\ NextPow2(m) >= m
  BY <1>2, <1>4, <1>5, NextPow2Is
<1> QED
  BY <1>1, <1>2, <1>5, <1>6 DEF least

-------------------------------------------------------------------------------
(* The ends of an edge *)

EdgeType ==
    {e \in Drafts : Admissible(e)}

LEMMA EdgesAre ==
    ASSUME NEW e \in EdgeType
    PROVE  /\ e.kind \in {"spsc", "mpmc", "spmc", "mpmc-wq"}
           /\ e.from \in Seq(Nodes) /\ e.to \in Seq(Nodes)
           /\ Len(e.from) \in Nat \ {0} /\ Len(e.to) \in Nat \ {0}
           /\ e.kind \in {"spsc", "spmc"} => Len(e.from) = 1
           /\ e.kind \in {"spsc", "mpmc"} => Len(e.to) = 1
           /\ Distinct(e.from) /\ Distinct(e.to)
           /\ e.capacity \in Nat /\ e.hint \in [latency : Nat, frame : Nat]
<1>1. e \in Drafts /\ Admissible(e)
  BY DEF EdgeType
<1>2. /\ e.kind \in {"spsc", "mpmc", "spmc", "mpmc-wq"}
      /\ e.from \in Seq(ToSet(e.from)) /\ e.to \in Seq(ToSet(e.to))
      /\ e.capacity \in Nat /\ e.hint \in [latency : Nat, frame : Nat]
  BY <1>1, GraphAssumption
<1>3. ToSet(e.from) \subseteq Nodes /\ ToSet(e.to) \subseteq Nodes
  BY <1>1 DEF Admissible
<1>4. \A S, s : S \subseteq Nodes /\ s \in Seq(S) => s \in Seq(Nodes)
  OBVIOUS
<1>5. e.from \in Seq(Nodes) /\ e.to \in Seq(Nodes)
  BY <1>2, <1>3, <1>4
<1>6. e.from # <<>> /\ e.to # <<>>
  BY <1>1 DEF Admissible, ArityFits
<1>7. \A s \in Seq(Nodes) : s # <<>> => Len(s) \in Nat \ {0}
  OBVIOUS
<1>8. Len(e.from) \in Nat \ {0} /\ Len(e.to) \in Nat \ {0}
  BY <1>5, <1>6, <1>7
<1> QED
  BY <1>1, <1>2, <1>5, <1>8 DEF Admissible, ArityFits

\* The nodes of a side stand in it once each.
LEMMA SideIs ==
    ASSUME NEW side \in Seq(Nodes), Distinct(side)
    PROVE  /\ IsFiniteSet(ToSet(side)) /\ Cardinality(ToSet(side)) = Len(side)
           /\ ToSet(side) \subseteq Nodes
           /\ \A i, j \in 1 .. Len(side) : side[i] = side[j] => i = j
<1>1. /\ DOMAIN side = 1 .. Len(side) /\ Len(side) \in Nat
      /\ ToSet(side) = {side[i] : i \in 1 .. Len(side)} /\ ToSet(side) \subseteq Nodes
  BY DEF ToSet
<1>2. side \in [1 .. Len(side) -> ToSet(side)]
  BY <1>1
<1>3. side \in Surjection(1 .. Len(side), ToSet(side))
  BY <1>1, <1>2, Fun_IsSurj
<1>4. IsFiniteSet(1 .. Len(side)) /\ Cardinality(1 .. Len(side)) = Len(side)
  BY <1>1, FS_Interval
<1>5. Cardinality(ToSet(side)) = Len(side)
  BY DEF Distinct
<1>6. IsFiniteSet(ToSet(side)) /\ side \in Injection(1 .. Len(side), ToSet(side))
  BY <1>3, <1>4, <1>5, FS_Surjection
<1>7. \A i, j \in 1 .. Len(side) : side[i] = side[j] => i = j
  BY <1>6, Fun_InjectionProperties
<1> QED
  BY <1>1, <1>5, <1>6, <1>7

EndsOf(i, role) ==
    IF role = "producer"
    THEN {[edge |-> i, role |-> "producer", node |-> n, index |-> -1] : n \in ToSet(edges[i].from)}
    ELSE {[edge |-> i, role |-> "consumer", node |-> n, index |-> IndexOf(edges[i], n)] :
             n \in ToSet(edges[i].to)}

\* An edge has an end for each node of either side.
LEMMA EndsOfAre ==
    ASSUME NEW i, edges[i] \in EdgeType
    PROVE  /\ Cardinality(EndsOf(i, "producer")) = Len(edges[i].from)
           /\ Cardinality(EndsOf(i, "consumer")) = Len(edges[i].to)
           /\ edges[i].kind = "spmc" =>
                  {m.index : m \in EndsOf(i, "consumer")} = 0 .. Len(edges[i].to) - 1
<1> DEFINE e == edges[i]
           froms == ToSet(e.from)
           tos == ToSet(e.to)
           P == [n \in froms |-> [edge |-> i, role |-> "producer", node |-> n, index |-> -1]]
           C == [n \in tos |-> [edge |-> i, role |-> "consumer", node |-> n,
                                index |-> IndexOf(e, n)]]
<1>1. /\ e.from \in Seq(Nodes) /\ e.to \in Seq(Nodes) /\ Distinct(e.from) /\ Distinct(e.to)
      /\ Len(e.from) \in Nat \ {0} /\ Len(e.to) \in Nat \ {0}
  BY EdgesAre
<1>2. /\ IsFiniteSet(froms) /\ Cardinality(froms) = Len(e.from)
      /\ IsFiniteSet(tos) /\ Cardinality(tos) = Len(e.to)
      /\ \A k, j \in 1 .. Len(e.to) : e.to[k] = e.to[j] => k = j
  BY <1>1, SideIs
<1>3. EndsOf(i, "producer") = {P[n] : n \in froms} /\ EndsOf(i, "consumer") = {C[n] : n \in tos}
  BY DEF EndsOf
<1>4. P \in Bijection(froms, EndsOf(i, "producer"))
  <2>1. P \in [froms -> EndsOf(i, "producer")]
    BY <1>3
  <2>2. \A n, m \in froms : P[n] = P[m] => n = m
    OBVIOUS
  <2>3. \A t \in EndsOf(i, "producer") : \E n \in froms : P[n] = t
    BY <1>3
  <2> QED
    BY <2>1, <2>2, <2>3, Fun_IsBij
<1>5. C \in Bijection(tos, EndsOf(i, "consumer"))
  <2>1. C \in [tos -> EndsOf(i, "consumer")]
    BY <1>3
  <2>2. \A n, m \in tos : C[n] = C[m] => n = m
    OBVIOUS
  <2>3. \A t \in EndsOf(i, "consumer") : \E n \in tos : C[n] = t
    BY <1>3
  <2> QED
    BY <2>1, <2>2, <2>3, Fun_IsBij
<1> HIDE DEF P, C
<1>6. Cardinality(EndsOf(i, "producer")) = Len(e.from)
  BY <1>2, <1>4, FS_Bijection DEF ExistsBijection
<1>7. Cardinality(EndsOf(i, "consumer")) = Len(e.to)
  BY <1>2, <1>5, FS_Bijection DEF ExistsBijection
<1>8. ASSUME e.kind = "spmc"
      PROVE  {m.index : m \in EndsOf(i, "consumer")} = 0 .. Len(e.to) - 1
  <2>1. tos = {e.to[k] : k \in 1 .. Len(e.to)} /\ DOMAIN e.to = 1 .. Len(e.to)
    BY <1>1 DEF ToSet
  <2>2. \A k \in 1 .. Len(e.to) : IndexOf(e, e.to[k]) = k - 1
    <3>1. SUFFICES ASSUME NEW k \in 1 .. Len(e.to) PROVE IndexOf(e, e.to[k]) = k - 1
      OBVIOUS
    <3>2. (CHOOSE j \in 1 .. Len(e.to) : e.to[j] = e.to[k]) = k
      BY <1>2
    <3>3. IndexOf(e, e.to[k]) = (CHOOSE j \in 1 .. Len(e.to) : e.to[j] = e.to[k]) - 1
      BY <1>8, <2>1 DEF IndexOf
    <3> QED
      BY <3>2, <3>3
  <2>3. {m.index : m \in EndsOf(i, "consumer")} = {IndexOf(e, n) : n \in tos}
    <3>1. \A n \in tos : C[n].index = IndexOf(e, n)
      BY DEF C
    <3> QED
      BY <1>3, <3>1
  <2>4. {IndexOf(e, n) : n \in tos} = {k - 1 : k \in 1 .. Len(e.to)}
    BY <2>1, <2>2
  <2>5. {k - 1 : k \in 1 .. Len(e.to)} = 0 .. Len(e.to) - 1
    <3>1. PICK n \in Nat : n = Len(e.to)
      BY <1>1
    <3>2. \A x \in 0 .. n - 1 : x + 1 \in 1 .. n /\ x = (x + 1) - 1
      OBVIOUS
    <3>3. \A x \in 0 .. n - 1 : x \in {k - 1 : k \in 1 .. n}
      BY <3>2
    <3>4. \A k \in 1 .. n : k - 1 \in 0 .. n - 1
      OBVIOUS
    <3>5. {k - 1 : k \in 1 .. n} = 0 .. n - 1
      BY <3>3, <3>4
    <3> QED
      BY <3>1, <3>5
  <2> QED
    BY <2>3, <2>4, <2>5
<1> QED
  BY <1>6, <1>7, <1>8

-------------------------------------------------------------------------------
(* A graph is what was declared of it *)

GraphInv ==
    /\ stage \in {"checking", "refused", "sorting", "cyclic", "allocating", "ready"}
    /\ edges \in Seq(EdgeType)
    /\ handles \in Seq({HandleOf(e) : e \in EdgeType}) /\ Len(handles) <= Len(edges)
    /\ \A i \in 1 .. Len(handles) : handles[i] = HandleOf(edges[i])
    /\ stage = "ready" => Len(handles) = Len(edges)
    /\ stage # "ready" => mounted = {}
    /\ mounted \subseteq UNION {Ends(n) : n \in Nodes}

LEMMA GraphInvInit == GraphInit => GraphInv
<1> SUFFICES ASSUME GraphInit PROVE GraphInv
  OBVIOUS
<1>1. edges = <<>> /\ handles = <<>> /\ mounted = {} /\ stage = "checking"
  BY DEF GraphInit
<1>2. \A S : <<>> \in Seq(S)
  OBVIOUS
<1>3. Len(<<>>) = 0
  OBVIOUS
<1> QED
  BY <1>1, <1>2, <1>3 DEF GraphInv

\* An element more at the end.
LEMMA AppendIs ==
    ASSUME NEW S, NEW s \in Seq(S), NEW x \in S
    PROVE  /\ Append(s, x) \in Seq(S) /\ Len(Append(s, x)) = Len(s) + 1 /\ Len(s) \in Nat
           /\ \A i \in 1 .. Len(s) : Append(s, x)[i] = s[i]
           /\ Append(s, x)[Len(s) + 1] = x
  OBVIOUS

LEMMA GraphInvNext == GraphInv /\ [GraphNext]_graphVars => GraphInv'
<1> SUFFICES ASSUME GraphInv, [GraphNext]_graphVars PROVE GraphInv'
  OBVIOUS
<1> USE DEF GraphInv
<1> DEFINE Handles == {HandleOf(e) : e \in EdgeType}
<1>1. ASSUME NEW e \in Drafts, Declare(e) PROVE GraphInv'
  <2>1. stage = "checking" /\ mounted = {} /\ UNCHANGED <<handles, mounted>>
    BY <1>1 DEF Declare
  <2>2. CASE Admissible(e)
    <3>1. edges' = Append(edges, e) /\ stage' = stage /\ e \in EdgeType
      BY <1>1, <2>2 DEF Declare, EdgeType
    <3>2. /\ edges' \in Seq(EdgeType) /\ Len(edges') = Len(edges) + 1 /\ Len(edges) \in Nat
          /\ \A i \in 1 .. Len(edges) : edges'[i] = edges[i]
      BY <3>1, AppendIs
    <3>3. Len(handles) \in Nat /\ Len(handles) <= Len(edges)
      BY LenProperties
    <3>4. \A i \in 1 .. Len(handles) : edges'[i] = edges[i]
      BY <3>2, <3>3
    <3>5. Len(handles') <= Len(edges')
      BY <2>1, <3>2, <3>3
    <3> QED
      BY <2>1, <3>1, <3>2, <3>4, <3>5
  <2>3. CASE ~ Admissible(e)
    <3>1. stage' = "refused" /\ UNCHANGED edges
      BY <1>1, <2>3 DEF Declare
    <3> QED
      BY <2>1, <3>1
  <2> QED
    BY <2>2, <2>3
<1>2. ASSUME CountArcs PROVE GraphInv'
  BY <1>2 DEF CountArcs
<1>3. ASSUME NEW n \in Nodes, TakeReady(n) PROVE GraphInv'
  BY <1>3 DEF TakeReady
<1>4. ASSUME Sorted PROVE GraphInv'
  <2>1. UNCHANGED <<edges, handles, mounted>> /\ stage = "sorting"
    BY <1>4 DEF Sorted, sorting
  <2>2. stage' \in {"allocating", "cyclic"}
    BY <1>4 DEF Sorted
  <2>3. (UNION {Ends(n) : n \in Nodes})' = UNION {Ends(n) : n \in Nodes}
    BY <2>1 DEF Ends
  <2> QED
    BY <2>1, <2>2, <2>3
<1>5. ASSUME Allocate PROVE GraphInv'
  <2>1. /\ UNCHANGED <<stage, edges, mounted>> /\ stage = "allocating"
        /\ Len(handles) < Len(edges) /\ handles' = Append(handles, HandleOf(edges[Len(handles) + 1]))
    BY <1>5 DEF Allocate
  <2>2. Len(handles) \in Nat /\ Len(edges) \in Nat
    BY LenProperties
  <2>3. edges[Len(handles) + 1] \in EdgeType
    BY <2>1, <2>2, ElementOfSeq
  <2>4. HandleOf(edges[Len(handles) + 1]) \in Handles
    BY <2>3
  <2> HIDE DEF Handles
  <2>5. /\ handles' \in Seq(Handles) /\ Len(handles') = Len(handles) + 1
        /\ \A i \in 1 .. Len(handles) : handles'[i] = handles[i]
        /\ handles'[Len(handles) + 1] = HandleOf(edges[Len(handles) + 1])
    BY <2>1, <2>4, AppendIs DEF Handles
  <2>6. ASSUME NEW i \in 1 .. Len(handles') PROVE handles'[i] = HandleOf(edges[i])
    <3>1. i \in 1 .. Len(handles) \/ i = Len(handles) + 1
      BY <2>2, <2>5
    <3> QED
      BY <2>5, <3>1
  <2>7. Len(handles') <= Len(edges)
    BY <2>1, <2>2, <2>5
  <2>8. mounted = {} /\ mounted' = {}
    BY <2>1
  <2>9. \A i \in 1 .. Len(handles') : handles'[i] = HandleOf(edges'[i])
    BY <2>1, <2>6
  <2> QED
    BY <2>1, <2>5, <2>7, <2>8, <2>9 DEF Handles
<1>6. ASSUME Publish PROVE GraphInv'
  <2>1. UNCHANGED <<edges, handles, mounted>> /\ stage' = "ready" /\ Len(handles) = Len(edges)
    BY <1>6 DEF Publish
  <2>2. mounted = {}
    BY <1>6 DEF Publish
  <2> QED
    BY <2>1, <2>2
<1>7. ASSUME NEW n \in Nodes, MountGraph(n) PROVE GraphInv'
  <2>1. UNCHANGED <<stage, edges, handles>> /\ stage = "ready" /\ mounted' = mounted \cup Ends(n)
    BY <1>7 DEF MountGraph
  <2>2. (UNION {Ends(m) : m \in Nodes})' = UNION {Ends(m) : m \in Nodes}
    BY <2>1 DEF Ends, IndexOf
  <2>3. mounted' \subseteq UNION {Ends(m) : m \in Nodes}
    BY <2>1
  <2> QED
    BY <2>1, <2>2, <2>3
<1>8. ASSUME UNCHANGED graphVars PROVE GraphInv'
  <2>1. UNCHANGED <<stage, edges, handles, mounted>>
    BY <1>8 DEF graphVars
  <2>2. (UNION {Ends(m) : m \in Nodes})' = UNION {Ends(m) : m \in Nodes}
    BY <2>1 DEF Ends, IndexOf
  <2> QED
    BY <2>1, <2>2
<1> QED
  BY <1>1, <1>2, <1>3, <1>4, <1>5, <1>6, <1>7, <1>8 DEF GraphNext

\* With every node mounted, the ends of an edge are those of its two sides.
LEMMA MountedEnds ==
    ASSUME GraphInv, \A n \in Nodes : Ends(n) \subseteq mounted,
           NEW i \in 1 .. Len(edges), NEW role \in {"producer", "consumer"}
    PROVE  {m \in mounted : m.edge = i /\ m.role = role} = EndsOf(i, role)
<1>1. DOMAIN edges = 1 .. Len(edges) /\ edges[i] \in EdgeType
  BY ElementOfSeq DEF GraphInv
<1>2. ToSet(edges[i].from) \subseteq Nodes /\ ToSet(edges[i].to) \subseteq Nodes
  BY <1>1, EdgesAre, SideIs
<1>3. ASSUME NEW m \in mounted, m.edge = i, m.role = role PROVE m \in EndsOf(i, role)
  <2>1. PICK n \in Nodes : m \in Ends(n)
    BY DEF GraphInv
  <2>2. CASE \E j \in DOMAIN edges : n \in ToSet(edges[j].from) /\
                 m = [edge |-> j, role |-> "producer", node |-> n, index |-> -1]
    BY <1>3, <2>2 DEF EndsOf
  <2>3. CASE \E j \in DOMAIN edges : n \in ToSet(edges[j].to) /\
                 m = [edge |-> j, role |-> "consumer", node |-> n, index |-> IndexOf(edges[j], n)]
    BY <1>3, <2>3 DEF EndsOf
  <2> QED
    BY <2>1, <2>2, <2>3 DEF Ends
<1>4. ASSUME NEW m \in EndsOf(i, role) PROVE m \in mounted /\ m.edge = i /\ m.role = role
  <2>1. CASE role = "producer"
    <3>1. PICK n \in ToSet(edges[i].from) :
              m = [edge |-> i, role |-> "producer", node |-> n, index |-> -1]
      BY <1>4, <2>1 DEF EndsOf
    <3>2. m \in Ends(n) /\ n \in Nodes
      BY <1>1, <1>2, <3>1 DEF Ends
    <3> QED
      BY <2>1, <3>1, <3>2
  <2>2. CASE role = "consumer"
    <3>1. PICK n \in ToSet(edges[i].to) :
              m = [edge |-> i, role |-> "consumer", node |-> n, index |-> IndexOf(edges[i], n)]
      BY <1>4, <2>2 DEF EndsOf
    <3>2. m \in Ends(n) /\ n \in Nodes
      BY <1>1, <1>2, <3>1 DEF Ends
    <3> QED
      BY <2>2, <3>1, <3>2
  <2> QED
    BY <2>1, <2>2
<1> QED
  BY <1>3, <1>4

\* Once all nodes are mounted, an edge has the producers its ring makes room for, and
\* each lane of a broadcast a consumer: mountGraph and the fan constructors of
\* connectGraph.ts agree on who stands at either end.
THEOREM EndsMeet == GraphSpec => []EndsMeetTheirRings
<1>1. GraphInv => EndsMeetTheirRings
  <2> SUFFICES ASSUME GraphInv, stage = "ready", \A n \in Nodes : Ends(n) \subseteq mounted,
                      NEW i \in DOMAIN edges
               PROVE  LET handle == handles[i]
                          held(role) == {m \in mounted : m.edge = i /\ m.role = role}
                      IN  /\ Cardinality(held("producer")) = handle.producerCount
                          /\ Cardinality(held("consumer")) = handle.consumerCount
                          /\ handle.kind = "spmc" =>
                                 {m.index : m \in held("consumer")} = 0 .. handle.consumerCount - 1
                          /\ handle.capacity < Max(Powers) /\ edges[i].capacity = 0 =>
                                 handle.capacity - (Cardinality(held("producer")) - 1)
                                     >= Backlog(edges[i].hint)
    BY DEF EndsMeetTheirRings
  <2> DEFINE e == edges[i]
             handle == handles[i]
             held(role) == {m \in mounted : m.edge = i /\ m.role = role}
  <2>1. /\ i \in 1 .. Len(edges) /\ e \in EdgeType
        /\ handle = HandleOf(e)
    BY ElementOfSeq DEF GraphInv
  <2>2. held("producer") = EndsOf(i, "producer") /\ held("consumer") = EndsOf(i, "consumer")
    BY <2>1, MountedEnds
  <2>3. /\ handle.kind = e.kind /\ handle.producerCount = Len(e.from)
        /\ handle.consumerCount = Len(e.to)
        /\ handle.capacity = RingCapacity(e.kind, Len(e.from), e.capacity, e.hint)
    BY <2>1 DEF HandleOf
  <2>4. /\ Cardinality(EndsOf(i, "producer")) = Len(e.from)
        /\ Cardinality(EndsOf(i, "consumer")) = Len(e.to)
        /\ e.kind = "spmc" => {m.index : m \in EndsOf(i, "consumer")} = 0 .. Len(e.to) - 1
    BY <2>1, EndsOfAre
  <2> HIDE DEF handle, held
  <2>5. ASSUME handle.capacity < Max(Powers), e.capacity = 0
        PROVE  handle.capacity - (Len(e.from) - 1) >= Backlog(e.hint)
    <3>1. /\ e.kind \in {"spsc", "mpmc", "spmc", "mpmc-wq"} /\ Len(e.from) \in Nat \ {0}
          /\ e.kind \in {"spsc", "spmc"} => Len(e.from) = 1
          /\ e.hint \in [latency : Nat, frame : Nat]
      BY <2>1, EdgesAre
    <3>2. /\ handle.capacity \in Nat
          /\ handle.capacity >= Backlog(e.hint) + Slack(e.kind, Len(e.from))
      BY <2>3, <2>5, <3>1, RingHolds
    <3>3. Slack(e.kind, Len(e.from)) = Len(e.from) - 1
      <4>1. PICK n \in Nat \ {0} : n = Len(e.from)
        BY <3>1
      <4>2. CASE e.kind \in {"mpmc", "mpmc-wq"}
        BY <4>1, <4>2 DEF Slack
      <4>3. CASE e.kind \in {"spsc", "spmc"}
        <5>1. Slack(e.kind, Len(e.from)) = 0
          BY <4>3 DEF Slack
        <5>2. Len(e.from) - 1 = 0
          BY <3>1, <4>3
        <5> QED
          BY <5>1, <5>2
      <4> QED
        BY <3>1, <4>2, <4>3
    <3>4. Backlog(e.hint) \in Nat
      BY <3>1, BacklogIs
    <3> QED
      BY <3>1, <3>2, <3>3, <3>4
  <2> QED
    BY <2>2, <2>3, <2>4, <2>5 DEF handle, held
<1> QED
  BY <1>1, GraphInvInit, GraphInvNext, PTL DEF GraphSpec

-------------------------------------------------------------------------------
(* Kahn's algorithm *)

Left == Nodes \ ToSet(order)
Before(j) == {order[i] : i \in 1 .. j - 1}
LeftAbove(v) == {u \in Left : <<u, v>> \in Arcs}

\* In-degrees count the arcs from the nodes that are left; what has none is ready; and
\* nothing is sorted before all it can be reached from in a step.
OrderInv ==
    /\ order \in Seq(Nodes)
    /\ \A i, j \in 1 .. Len(order) : order[i] = order[j] => i = j
    /\ \A j \in 1 .. Len(order), u \in Nodes : <<u, order[j]>> \in Arcs => u \in Before(j)
    /\ stage \in {"checking", "refused"} => order = <<>>
    /\ stage = "sorting" =>
           /\ indegree \in [Nodes -> Nat]
           /\ \A v \in Nodes : indegree[v] = Cardinality(LeftAbove(v))
           /\ ready = {v \in Left : indegree[v] = 0}
    /\ stage = "cyclic" => Left # {} /\ \A v \in Left : LeftAbove(v) # {}
    /\ stage \in {"allocating", "ready"} => Left = {} /\ Len(order) = Cardinality(Nodes)

LEMMA LeftAreFinite ==
    /\ IsFiniteSet(Left) /\ \A v : IsFiniteSet(LeftAbove(v)) /\ Cardinality(LeftAbove(v)) \in Nat
    /\ \A v : Cardinality(LeftAbove(v)) = 0 <=> LeftAbove(v) = {}
<1>1. IsFiniteSet(Left)
  BY GraphAssumption, FS_Subset DEF Left
<1>2. \A v : IsFiniteSet(LeftAbove(v))
  BY <1>1, FS_Subset DEF LeftAbove
<1> QED
  BY <1>1, <1>2, FS_CardinalityType, FS_EmptySet

LEMMA OrderInvInit == GraphInit => OrderInv
<1> SUFFICES ASSUME GraphInit PROVE OrderInv
  OBVIOUS
<1>1. order = <<>> /\ stage = "checking"
  BY DEF GraphInit
<1>2. Len(<<>>) = 0 /\ <<>> \in Seq(Nodes)
  OBVIOUS
<1> QED
  BY <1>1, <1>2 DEF OrderInv

LEMMA CountArcsOrders == OrderInv /\ CountArcs => OrderInv'
<1> SUFFICES ASSUME OrderInv, CountArcs PROVE OrderInv'
  OBVIOUS
<1>1. /\ order = <<>> /\ order' = <<>> /\ edges' = edges /\ stage' = "sorting"
      /\ indegree' = [n \in Nodes |-> InDegreeOf(n)]
      /\ ready' = {n \in Nodes : indegree'[n] = 0}
  BY DEF CountArcs, OrderInv
<1>2. Left = Nodes /\ Left' = Nodes
  BY <1>1 DEF Left, ToSet
<1>3. Arcs' = Arcs
  BY <1>1 DEF Arcs, EdgeSet
<1>4. \A v : LeftAbove(v)' = LeftAbove(v) /\ InDegreeOf(v) = Cardinality(LeftAbove(v))
  BY <1>2, <1>3 DEF LeftAbove, InDegreeOf
<1>5. indegree' \in [Nodes -> Nat] /\ \A v \in Nodes : indegree'[v] = Cardinality(LeftAbove(v))
  BY <1>1, <1>4, LeftAreFinite
<1>6. Len(<<>>) = 0 /\ <<>> \in Seq(Nodes)
  OBVIOUS
<1>7. ready' = {v \in Left' : indegree'[v] = 0}
  BY <1>1, <1>2
<1>8. \A v \in Nodes : indegree'[v] = Cardinality(LeftAbove(v)')
  BY <1>4, <1>5
<1>9. order' \in Seq(Nodes) /\ 1 .. Len(order') = {}
  BY <1>1, <1>6
<1> QED
  BY <1>1, <1>5, <1>7, <1>8, <1>9 DEF OrderInv

LEMMA TakeReadyOrders == ASSUME OrderInv, NEW n \in Nodes, TakeReady(n) PROVE OrderInv'
<1>1. /\ stage = "sorting" /\ n \in ready /\ UNCHANGED <<stage, edges>>
      /\ indegree' = [v \in Nodes |-> IF v \in Successors(n) THEN indegree[v] - 1 ELSE indegree[v]]
      /\ ready' = (ready \ {n}) \cup {v \in Successors(n) : indegree'[v] = 0}
      /\ order' = Append(order, n)
  BY DEF TakeReady
<1>2. /\ order \in Seq(Nodes) /\ indegree \in [Nodes -> Nat]
      /\ \A v \in Nodes : indegree[v] = Cardinality(LeftAbove(v))
      /\ ready = {v \in Left : indegree[v] = 0}
      /\ \A i, j \in 1 .. Len(order) : order[i] = order[j] => i = j
      /\ \A j \in 1 .. Len(order), u \in Nodes : <<u, order[j]>> \in Arcs => u \in Before(j)
  BY <1>1 DEF OrderInv
<1>3. Arcs' = Arcs
  BY <1>1 DEF Arcs, EdgeSet
<1>4. /\ order' \in Seq(Nodes) /\ Len(order') = Len(order) + 1 /\ Len(order) \in Nat
      /\ \A i \in 1 .. Len(order) : order'[i] = order[i]
      /\ order'[Len(order) + 1] = n
  BY <1>1, <1>2, AppendIs
<1>5. n \in Left /\ LeftAbove(n) = {}
  BY <1>1, <1>2, LeftAreFinite
<1>6. ToSet(order) = {order[i] : i \in 1 .. Len(order)}
  BY <1>2 DEF ToSet
<1>7. ToSet(order') = ToSet(order) \cup {n}
  <2>1. ToSet(order') = {order'[i] : i \in 1 .. Len(order')}
    BY <1>4 DEF ToSet
  <2>2. \A i : i \in 1 .. Len(order') <=> i \in 1 .. Len(order) \/ i = Len(order) + 1
    BY <1>4
  <2> QED
    BY <1>4, <1>6, <2>1, <2>2
<1>8. Left' = Left \ {n}
  BY <1>7 DEF Left
<1>9. \A i, j \in 1 .. Len(order') : order'[i] = order'[j] => i = j
  <2>1. \A i \in 1 .. Len(order) : order[i] # n
    BY <1>5, <1>6 DEF Left
  <2>2. \A i \in 1 .. Len(order') : i \in 1 .. Len(order) \/ i = Len(order) + 1
    BY <1>4
  <2>3. ASSUME NEW i \in 1 .. Len(order'), NEW j \in 1 .. Len(order'), order'[i] = order'[j]
        PROVE  i = j
    <3>1. CASE i \in 1 .. Len(order) /\ j \in 1 .. Len(order)
      BY <1>2, <1>4, <2>3, <3>1
    <3>2. CASE i = Len(order) + 1 \/ j = Len(order) + 1
      BY <1>4, <2>1, <2>2, <2>3, <3>2
    <3> QED
      BY <2>2, <3>1, <3>2
  <2> QED
    BY <2>3
<1>10. \A j \in 1 .. Len(order) + 1 : Before(j)' = Before(j)
  <2>1. \A j \in 1 .. Len(order) + 1 : \A i \in 1 .. j - 1 : order'[i] = order[i]
    BY <1>4
  <2> QED
    BY <2>1 DEF Before
<1>11. \A j \in 1 .. Len(order'), u \in Nodes : <<u, order'[j]>> \in Arcs => u \in Before(j)
  <2>1. SUFFICES ASSUME NEW j \in 1 .. Len(order'), NEW u \in Nodes, <<u, order'[j]>> \in Arcs
                 PROVE  u \in Before(j)
    OBVIOUS
  <2>2. CASE j \in 1 .. Len(order)
    BY <1>2, <1>4, <2>1, <2>2
  <2>3. CASE j = Len(order) + 1
    <3>1. u \in ToSet(order)
      BY <1>4, <1>5, <2>1, <2>3 DEF LeftAbove, Left
    <3>2. j - 1 = Len(order)
      BY <1>4, <2>3
    <3> QED
      BY <1>6, <3>1, <3>2 DEF Before
  <2> QED
    BY <1>4, <2>2, <2>3
<1>12. \A v : LeftAbove(v)' = LeftAbove(v) \ {n}
  BY <1>3, <1>8 DEF LeftAbove
<1>13. \A v \in Nodes : v \in Successors(n) <=> n \in LeftAbove(v)
  BY <1>5 DEF Successors, LeftAbove
<1>14. ASSUME NEW v \in Nodes
       PROVE  indegree'[v] = Cardinality(LeftAbove(v)') /\ indegree'[v] \in Nat
  <2>1. Cardinality(LeftAbove(v) \ {n}) =
            IF n \in LeftAbove(v) THEN Cardinality(LeftAbove(v)) - 1 ELSE Cardinality(LeftAbove(v))
    BY LeftAreFinite, FS_RemoveElement
  <2>2. indegree'[v] = Cardinality(LeftAbove(v) \ {n})
    BY <1>1, <1>2, <1>13, <2>1
  <2>3. IsFiniteSet(LeftAbove(v) \ {n})
    BY LeftAreFinite, FS_RemoveElement
  <2> QED
    BY <1>12, <2>2, <2>3, FS_CardinalityType
<1>15. \A v \in Successors(n) : v \in Left /\ v # n
  <2>1. SUFFICES ASSUME NEW v \in Successors(n) PROVE v \in Left /\ v # n
    OBVIOUS
  <2>2. v \in Nodes /\ <<n, v>> \in Arcs
    BY DEF Successors
  <2>3. v # n
    BY <1>5, <2>2 DEF LeftAbove
  <2>4. ASSUME v \in ToSet(order) PROVE FALSE
    <3>1. PICK j \in 1 .. Len(order) : v = order[j]
      BY <1>6, <2>4
    <3>2. n \in Before(j)
      BY <1>2, <2>2, <3>1
    <3>3. PICK i \in 1 .. j - 1 : n = order[i]
      BY <3>2 DEF Before
    <3>4. i \in 1 .. Len(order)
      BY <1>4, <3>1, <3>3
    <3> QED
      BY <1>5, <1>6, <3>3, <3>4 DEF Left
  <2> QED
    BY <2>2, <2>3, <2>4 DEF Left
<1>16. ready' = {v \in Left' : indegree'[v] = 0}
  <2>1. ASSUME NEW v \in ready \ {n} PROVE v \in Left' /\ indegree'[v] = 0
    <3>1. v \in Left /\ v \in Nodes /\ indegree[v] = 0 /\ v # n
      BY <1>2 DEF Left
    <3>2. LeftAbove(v) = {}
      BY <1>2, <3>1, LeftAreFinite
    <3> QED
      BY <1>1, <1>8, <1>13, <3>1, <3>2
  <2>2. ASSUME NEW v \in Successors(n), indegree'[v] = 0 PROVE v \in Left'
    BY <1>8, <1>15
  <2>3. ASSUME NEW v \in Left', indegree'[v] = 0 PROVE v \in ready'
    <3>1. v \in Left /\ v # n /\ v \in Nodes
      BY <1>8 DEF Left
    <3>2. CASE v \in Successors(n)
      BY <1>1, <2>3, <3>2
    <3>3. CASE v \notin Successors(n)
      <4>1. indegree[v] = 0
        BY <1>1, <2>3, <3>1, <3>3
      <4> QED
        BY <1>1, <1>2, <3>1, <4>1
    <3> QED
      BY <3>2, <3>3
  <2> QED
    BY <1>1, <2>1, <2>2, <2>3
<1>17. indegree' \in [Nodes -> Nat]
  BY <1>1, <1>14
<1>18. \A j \in 1 .. Len(order'), u \in Nodes : <<u, order'[j]>> \in Arcs' => u \in Before(j)'
  BY <1>3, <1>4, <1>10, <1>11
<1>19. stage' = "sorting"
  BY <1>1
<1> QED
  BY <1>4, <1>9, <1>14, <1>16, <1>17, <1>18, <1>19 DEF OrderInv

\* An order of as many nodes as there are has them all, and one of fewer has not.
LEMMA OrderIsFull ==
    ASSUME order \in Seq(Nodes), \A i, j \in 1 .. Len(order) : order[i] = order[j] => i = j
    PROVE  Len(order) = Cardinality(Nodes) <=> Left = {}
<1>1. order \in [1 .. Len(order) -> Nodes] /\ Len(order) \in Nat
  OBVIOUS
<1>2. order \in Injection(1 .. Len(order), Nodes)
  BY <1>1, Fun_IsInj
<1>3. IsFiniteSet(1 .. Len(order)) /\ Cardinality(1 .. Len(order)) = Len(order)
  <2>1. PICK n \in Nat : n = Len(order)
    BY <1>1
  <2>2. IsFiniteSet(1 .. n) /\ Cardinality(1 .. n) = IF 1 > n THEN 0 ELSE n - 1 + 1
    BY FS_Interval
  <2> QED
    BY <2>1, <2>2
<1>4. Len(order) = Cardinality(Nodes) <=> order \in Surjection(1 .. Len(order), Nodes)
  BY <1>2, <1>3, GraphAssumption, FS_Injection
<1>5. order \in Surjection(1 .. Len(order), Nodes) <=>
          \A t \in Nodes : \E s \in 1 .. Len(order) : order[s] = t
  BY <1>1, Fun_IsSurj, Fun_SurjectionProperties
<1>6. ToSet(order) = {order[i] : i \in 1 .. Len(order)}
  BY <1>1 DEF ToSet
<1> QED
  BY <1>4, <1>5, <1>6 DEF Left

LEMMA SortedOrders == OrderInv /\ Sorted => OrderInv'
<1> SUFFICES ASSUME OrderInv, Sorted PROVE OrderInv'
  OBVIOUS
<1>1. /\ stage = "sorting" /\ ready = {} /\ UNCHANGED <<edges, order>>
      /\ stage' = IF Len(order) = Cardinality(Nodes) THEN "allocating" ELSE "cyclic"
  BY DEF Sorted, sorting
<1>2. /\ Arcs' = Arcs /\ Left' = Left
      /\ (\A j : Before(j)' = Before(j)) /\ (\A v : LeftAbove(v)' = LeftAbove(v))
  BY <1>1 DEF Arcs, EdgeSet, Left, Before, LeftAbove
<1>3. Len(order) = Cardinality(Nodes) <=> Left = {}
  BY OrderIsFull DEF OrderInv
<1>4. \A v \in Left : LeftAbove(v) # {}
  <2>1. \A v \in Left : v \in Nodes /\ indegree[v] # 0
    BY <1>1 DEF OrderInv, Left
  <2> QED
    BY <1>1, <2>1, LeftAreFinite DEF OrderInv
<1>5. CASE Len(order) = Cardinality(Nodes)
  BY <1>1, <1>2, <1>3, <1>5 DEF OrderInv
<1>6. CASE Len(order) # Cardinality(Nodes)
  BY <1>1, <1>2, <1>3, <1>4, <1>6 DEF OrderInv
<1> QED
  BY <1>5, <1>6

LEMMA OrderInvNext == OrderInv /\ [GraphNext]_graphVars => OrderInv'
<1> SUFFICES ASSUME OrderInv, [GraphNext]_graphVars PROVE OrderInv'
  OBVIOUS
<1>1. ASSUME NEW e \in Drafts, Declare(e) PROVE OrderInv'
  <2>1. order = <<>> /\ order' = <<>> /\ stage' \in {"checking", "refused"}
    BY <1>1 DEF Declare, OrderInv, sorting
  <2>2. Len(<<>>) = 0 /\ <<>> \in Seq(Nodes)
    OBVIOUS
  <2> QED
    BY <2>1, <2>2 DEF OrderInv
<1>2. ASSUME UNCHANGED <<edges, sorting>>,
             stage' = stage \/ (stage = "allocating" /\ stage' = "ready")
      PROVE  OrderInv'
  <2>1. UNCHANGED <<edges, indegree, ready, order>>
    BY <1>2 DEF sorting
  <2>2. /\ Arcs' = Arcs /\ Left' = Left
        /\ (\A j : Before(j)' = Before(j)) /\ (\A v : LeftAbove(v)' = LeftAbove(v))
    BY <2>1 DEF Arcs, EdgeSet, Left, Before, LeftAbove
  <2> QED
    BY <1>2, <2>1, <2>2 DEF OrderInv
<1>3. ASSUME Allocate \/ Publish PROVE OrderInv'
  BY <1>2, <1>3 DEF Allocate, Publish
<1>4. ASSUME NEW n \in Nodes, MountGraph(n) PROVE OrderInv'
  BY <1>2, <1>4 DEF MountGraph
<1>5. ASSUME UNCHANGED graphVars PROVE OrderInv'
  BY <1>2, <1>5 DEF graphVars, sorting
<1> QED
  BY <1>1, <1>3, <1>4, <1>5, CountArcsOrders, TakeReadyOrders, SortedOrders DEF GraphNext

-------------------------------------------------------------------------------
(* What Above computes *)

\* The nodes an arc leads from into S.
Upward(S) == {u \in Nodes : \E v \in S : <<u, v>> \in Arcs}

Reaches(n, k, f) ==
    f = [m \in 0 .. k |-> IF m = 0 THEN Upward({n}) ELSE f[m - 1] \cup Upward(f[m - 1])]

LEMMA ReachExists ==
    ASSUME NEW n, NEW c \in Nat
    PROVE  \E f : Reaches(n, c, f)
<1> DEFINE T == {k \in Nat : \E f : Reaches(n, k, f)}
<1>1. 0 \in T
  <2> DEFINE f == [m \in 0 .. 0 |-> Upward({n})]
  <2>1. f = [m \in 0 .. 0 |-> IF m = 0 THEN Upward({n}) ELSE f[m - 1] \cup Upward(f[m - 1])]
    OBVIOUS
  <2> QED
    BY <2>1 DEF Reaches
<1>2. ASSUME NEW k \in Nat, k \in T PROVE k + 1 \in T
  <2>1. PICK g : Reaches(n, k, g)
    BY <1>2
  <2> DEFINE f == [m \in 0 .. k + 1 |-> IF m = k + 1 THEN g[k] \cup Upward(g[k]) ELSE g[m]]
  <2>2. \A m \in 0 .. k : g[m] = IF m = 0 THEN Upward({n}) ELSE g[m - 1] \cup Upward(g[m - 1])
    BY <2>1 DEF Reaches
  <2>3. ASSUME NEW m \in 0 .. k + 1
        PROVE  f[m] = IF m = 0 THEN Upward({n}) ELSE f[m - 1] \cup Upward(f[m - 1])
    <3>1. CASE m = k + 1
      <4>1. f[m] = g[k] \cup Upward(g[k]) /\ f[m - 1] = g[k] /\ m # 0
        BY <3>1
      <4> HIDE DEF f
      <4> QED
        BY <4>1
    <3>2. CASE m \in 1 .. k
      <4>1. f[m] = g[m] /\ f[m - 1] = g[m - 1] /\ m # 0 /\ m \in 0 .. k
        BY <3>2
      <4>2. g[m] = g[m - 1] \cup Upward(g[m - 1])
        BY <2>2, <4>1
      <4> HIDE DEF f
      <4>3. f[m] = f[m - 1] \cup Upward(f[m - 1])
        BY <4>1, <4>2
      <4> QED
        BY <4>1, <4>3
    <3>3. CASE m = 0
      <4>1. 0 \in 0 .. k /\ 0 # k + 1 /\ f[0] = g[0]
        OBVIOUS
      <4>2. g[0] = Upward({n})
        BY <2>2, <4>1
      <4>3. f[m] = Upward({n})
        BY <3>3, <4>1, <4>2
      <4> HIDE DEF f
      <4> QED
        BY <3>3, <4>3
    <3>4. m = k + 1 \/ m \in 1 .. k \/ m = 0
      OBVIOUS
    <3> HIDE DEF f
    <3> QED
      BY <3>1, <3>2, <3>3, <3>4
  <2>4. Reaches(n, k + 1, f)
    BY <2>3 DEF Reaches
  <2> QED
    BY <2>4
<1> HIDE DEF T
<1>3. c \in T
  BY <1>1, <1>2, CountUp
<1> QED
  BY <1>3 DEF T

LEMMA AboveIs ==
    ASSUME NEW n
    PROVE  \E f : Reaches(n, Cardinality(Nodes), f) /\ Above(n) = f[Cardinality(Nodes)]
<1> DEFINE c == Cardinality(Nodes)
           Step(S) == {u \in Nodes : \E e \in EdgeSet : u \in ToSet(e.from)
                                          /\ ToSet(e.to) \cap S # {}}
           reach == CHOOSE f : f = [k \in 0 .. c |->
                        IF k = 0 THEN Step({n}) ELSE f[k - 1] \cup Step(f[k - 1])]
<1>1. \A S : Step(S) = Upward(S)
  <2>1. SUFFICES ASSUME NEW S, NEW u \in Nodes
                 PROVE  (\E e \in EdgeSet : u \in ToSet(e.from) /\ ToSet(e.to) \cap S # {})
                            <=> \E v \in S : <<u, v>> \in Arcs
    BY DEF Upward
  <2>2. \A v : <<u, v>> \in Arcs <=> \E e \in EdgeSet : u \in ToSet(e.from) /\ v \in ToSet(e.to)
    BY DEF Arcs
  <2> QED
    BY <2>2
<1>2. Above(n) = reach[c]
  BY DEF Above
<1>3. c \in Nat
  BY GraphAssumption, FS_CardinalityType
<1> HIDE DEF Step
<1>4. PICK g : Reaches(n, c, g)
  BY <1>3, ReachExists
<1>5. g = [k \in 0 .. c |-> IF k = 0 THEN Step({n}) ELSE g[k - 1] \cup Step(g[k - 1])]
  BY <1>1, <1>4 DEF Reaches
<1>6. reach = [k \in 0 .. c |-> IF k = 0 THEN Step({n}) ELSE reach[k - 1] \cup Step(reach[k - 1])]
  BY <1>5
<1> HIDE DEF reach
<1>7. Reaches(n, c, reach)
  BY <1>1, <1>6 DEF Reaches
<1> QED
  BY <1>2, <1>7

LEMMA ReachesAre ==
    ASSUME NEW n, NEW c \in Nat, NEW f, Reaches(n, c, f)
    PROVE  /\ f[0] = Upward({n})
           /\ \A k \in Nat : k + 1 <= c => f[k + 1] = f[k] \cup Upward(f[k])
<1>1. \A m \in 0 .. c : f[m] = IF m = 0 THEN Upward({n}) ELSE f[m - 1] \cup Upward(f[m - 1])
  BY DEF Reaches
<1>2. \A k \in Nat : k + 1 <= c => k + 1 \in 0 .. c /\ (k + 1) - 1 = k /\ k + 1 # 0
  OBVIOUS
<1>3. 0 \in 0 .. c
  OBVIOUS
<1> QED
  BY <1>1, <1>2, <1>3

-------------------------------------------------------------------------------
(* The order is topological *)

\* What a node can be reached from is sorted before it.
LEMMA AboveIsBefore ==
    ASSUME OrderInv, NEW j \in 1 .. Len(order)
    PROVE  Above(order[j]) \subseteq Before(j)
<1>1. PICK f : Reaches(order[j], Cardinality(Nodes), f) /\ Above(order[j]) = f[Cardinality(Nodes)]
  BY AboveIs
<1> DEFINE c == Cardinality(Nodes)
           T == {k \in Nat : k <= c => f[k] \subseteq Before(j)}
<1>2. c \in Nat
  BY GraphAssumption, FS_CardinalityType
<1>3. /\ f[0] = Upward({order[j]})
      /\ \A k \in Nat : k + 1 <= c => f[k + 1] = f[k] \cup Upward(f[k])
  BY <1>1, <1>2, ReachesAre
<1>4. Upward({order[j]}) \subseteq Before(j)
  BY DEF OrderInv, Upward
<1>5. Upward(Before(j)) \subseteq Before(j)
  <2>1. SUFFICES ASSUME NEW u \in Nodes, NEW v \in Before(j), <<u, v>> \in Arcs
                 PROVE  u \in Before(j)
    BY DEF Upward
  <2>2. PICK i \in 1 .. j - 1 : v = order[i]
    BY DEF Before
  <2>3. Len(order) \in Nat
    BY LenProperties DEF OrderInv
  <2>4. i \in 1 .. Len(order) /\ \A m \in 1 .. i - 1 : m \in 1 .. j - 1
    BY <2>3
  <2>5. u \in Before(i)
    BY <2>1, <2>2, <2>4 DEF OrderInv
  <2> QED
    BY <2>4, <2>5 DEF Before
<1>6. \A S : S \subseteq Before(j) => Upward(S) \subseteq Before(j)
  BY <1>5 DEF Upward
<1>7. 0 \in T
  BY <1>3, <1>4
<1>8. ASSUME NEW k \in Nat, k \in T PROVE k + 1 \in T
  <2>1. SUFFICES ASSUME k + 1 <= c PROVE f[k + 1] \subseteq Before(j)
    OBVIOUS
  <2>2. f[k] \subseteq Before(j)
    BY <1>2, <1>8, <2>1
  <2> QED
    BY <1>3, <1>6, <2>1, <2>2
<1> HIDE DEF T
<1>9. c \in T
  BY <1>2, <1>7, <1>8, CountUp
<1> QED
  BY <1>1, <1>2, <1>9 DEF T

\* A walk of k steps against the arcs, among the nodes that are left.
Walks(k) == {w \in [0 .. k -> Left] : \A i \in 1 .. k : <<w[i], w[i - 1]>> \in Arcs}

LEMMA LongWalk ==
    ASSUME Left # {}, \A v \in Left : LeftAbove(v) # {}, NEW c \in Nat
    PROVE  Walks(c) # {}
<1> DEFINE T == {k \in Nat : Walks(k) # {}}
<1>1. 0 \in T
  <2>1. PICK v \in Left : TRUE
    OBVIOUS
  <2>2. [i \in 0 .. 0 |-> v] \in Walks(0)
    BY DEF Walks
  <2> QED
    BY <2>2
<1>2. ASSUME NEW k \in Nat, k \in T PROVE k + 1 \in T
  <2>1. PICK w \in Walks(k) : TRUE
    BY <1>2
  <2>2. w \in [0 .. k -> Left] /\ \A i \in 1 .. k : <<w[i], w[i - 1]>> \in Arcs
    BY DEF Walks
  <2>3. w[k] \in Left
    BY <2>2
  <2>4. PICK u \in Left : <<u, w[k]>> \in Arcs
    BY <2>3 DEF LeftAbove
  <2> DEFINE x == [i \in 0 .. k + 1 |-> IF i = k + 1 THEN u ELSE w[i]]
  <2>5. x \in [0 .. k + 1 -> Left]
    BY <2>2
  <2>6. ASSUME NEW i \in 1 .. k + 1 PROVE <<x[i], x[i - 1]>> \in Arcs
    <3>1. CASE i = k + 1
      <4>1. x[i] = u /\ x[i - 1] = w[k]
        BY <3>1
      <4> QED
        BY <2>4, <4>1
    <3>2. CASE i \in 1 .. k
      <4>1. x[i] = w[i] /\ x[i - 1] = w[i - 1]
        BY <3>2
      <4> QED
        BY <2>2, <3>2, <4>1
    <3> QED
      BY <3>1, <3>2
  <2> HIDE DEF x
  <2>7. x \in Walks(k + 1)
    BY <2>5, <2>6 DEF Walks
  <2> QED
    BY <2>7
<1> HIDE DEF T
<1>3. c \in T
  BY <1>1, <1>2, CountUp
<1> QED
  BY <1>3 DEF T

\* A walk that comes back to a node shows that the node is above itself.
LEMMA WalkIsAbove ==
    ASSUME NEW c \in Nat, c = Cardinality(Nodes), NEW w \in Walks(c),
           NEW i \in 0 .. c, NEW j \in 0 .. c, i < j
    PROVE  w[j] \in Above(w[i])
<1> DEFINE n == w[i]
<1> HIDE DEF n
<1>1. PICK f : Reaches(n, c, f) /\ Above(n) = f[c]
  BY AboveIs
<1>2. /\ f[0] = Upward({n})
      /\ \A k \in Nat : k + 1 <= c => f[k + 1] = f[k] \cup Upward(f[k])
  BY <1>1, ReachesAre
<1>3. w \in [0 .. c -> Left] /\ \A m \in 1 .. c : <<w[m], w[m - 1]>> \in Arcs
  BY DEF Walks
<1>4. \A m \in 1 .. c : w[m] \in Nodes /\ \A S : w[m - 1] \in S => w[m] \in Upward(S)
  BY <1>3 DEF Left, Upward
<1> DEFINE T == {k \in Nat : i + k + 1 <= c => \A m \in 1 .. k + 1 : w[i + m] \in f[k]}
<1>5. 0 \in T
  <2>1. SUFFICES ASSUME i + 0 + 1 <= c, NEW m \in 1 .. 0 + 1 PROVE w[i + m] \in f[0]
    OBVIOUS
  <2>2. m = 1 /\ i + 1 \in 1 .. c /\ (i + 1) - 1 = i
    BY <2>1
  <2>3. w[i + 1] \in Upward({n})
    BY <1>4, <2>2 DEF n
  <2> QED
    BY <1>2, <2>2, <2>3
<1>6. ASSUME NEW k \in Nat, k \in T PROVE k + 1 \in T
  <2>1. SUFFICES ASSUME i + (k + 1) + 1 <= c, NEW m \in 1 .. (k + 1) + 1
                 PROVE  w[i + m] \in f[k + 1]
    OBVIOUS
  <2>2. \A l \in 1 .. k + 1 : w[i + l] \in f[k]
    BY <1>6, <2>1
  <2>3. f[k + 1] = f[k] \cup Upward(f[k])
    BY <1>2, <2>1
  <2>4. CASE m \in 1 .. k + 1
    BY <2>2, <2>3, <2>4
  <2>5. CASE m = k + 2
    <3>1. i + (k + 2) \in 1 .. c /\ (i + (k + 2)) - 1 = i + (k + 1) /\ k + 1 \in 1 .. k + 1
      BY <2>1
    <3>2. w[i + (k + 2)] \in Upward(f[k])
      BY <1>4, <2>2, <3>1
    <3> QED
      BY <2>3, <2>5, <3>2
  <2> QED
    BY <2>4, <2>5
<1> HIDE DEF T
<1>7. \A k \in Nat : k \in T
  BY <1>5, <1>6, CountUp
<1>8. w[j] \in f[j - i - 1]
  <2>1. PICK k \in Nat : k = j - i - 1
    OBVIOUS
  <2>2. i + k + 1 = j /\ k + 1 \in 1 .. k + 1 /\ i + (k + 1) = j
    BY <2>1
  <2>3. w[i + (k + 1)] \in f[k]
    BY <1>7, <2>2 DEF T
  <2> QED
    BY <2>1, <2>2, <2>3
<1> DEFINE U == {k \in Nat : (j - i - 1) + k <= c => f[j - i - 1] \subseteq f[(j - i - 1) + k]}
<1>9. 0 \in U
  OBVIOUS
<1>10. ASSUME NEW k \in Nat, k \in U PROVE k + 1 \in U
  <2>1. SUFFICES ASSUME (j - i - 1) + (k + 1) <= c
                 PROVE  f[j - i - 1] \subseteq f[(j - i - 1) + (k + 1)]
    OBVIOUS
  <2>2. PICK l \in Nat : l = (j - i - 1) + k
    OBVIOUS
  <2>3. l + 1 = (j - i - 1) + (k + 1) /\ l + 1 <= c
    BY <2>1, <2>2
  <2>4. f[j - i - 1] \subseteq f[l]
    BY <1>10, <2>2, <2>3
  <2> QED
    BY <1>2, <2>3, <2>4
<1> HIDE DEF U
<1>11. \A k \in Nat : k \in U
  BY <1>9, <1>10, CountUp
<1>12. f[j - i - 1] \subseteq f[c]
  <2>1. PICK k \in Nat : (j - i - 1) + k = c
    <3>1. c - (j - i - 1) \in Nat /\ (j - i - 1) + (c - (j - i - 1)) = c
      OBVIOUS
    <3> QED
      BY <3>1
  <2>2. f[j - i - 1] \subseteq f[(j - i - 1) + k]
    BY <1>11, <2>1 DEF U
  <2> QED
    BY <2>1, <2>2
<1> QED
  BY <1>1, <1>8, <1>12 DEF n

\* Where every node that is left has one above it that is, some node is above itself.
LEMMA ResidueIsCyclic ==
    ASSUME Left # {}, \A v \in Left : LeftAbove(v) # {}
    PROVE  \E n \in Nodes : n \in Above(n)
<1>1. PICK c \in Nat : c = Cardinality(Nodes)
  BY GraphAssumption, FS_CardinalityType
<1>2. PICK w \in Walks(c) : TRUE
  BY LongWalk
<1>3. w \in [0 .. c -> Left]
  BY DEF Walks
<1>4. IsFiniteSet(Left) /\ Cardinality(Left) <= c
  BY <1>1, GraphAssumption, FS_Subset DEF Left
<1>5. IsFiniteSet(0 .. c) /\ Cardinality(0 .. c) = c + 1
  <2>1. IsFiniteSet(0 .. c) /\ Cardinality(0 .. c) = IF 0 > c THEN 0 ELSE c - 0 + 1
    BY FS_Interval
  <2> QED
    BY <2>1
<1>6. Cardinality(Left) \in Nat
  BY <1>4, FS_CardinalityType
<1>7. Cardinality(Left) < Cardinality(0 .. c)
  BY <1>4, <1>5, <1>6
<1>8. PICK x \in 0 .. c, y \in 0 .. c : x # y /\ w[x] = w[y]
  BY <1>3, <1>4, <1>5, <1>7, FS_PigeonHole
<1>9. w[x] \in Nodes
  BY <1>3 DEF Left
<1>10. CASE x < y
  <2>1. w[y] \in Above(w[x])
    BY <1>1, <1>10, WalkIsAbove
  <2> QED
    BY <1>8, <1>9, <2>1
<1>11. CASE y < x
  <2>1. w[x] \in Above(w[y])
    BY <1>1, <1>11, WalkIsAbove
  <2> QED
    BY <1>8, <1>9, <2>1
<1> QED
  BY <1>8, <1>10, <1>11

\* topoSort of connectGraph.ts: a graph is called cyclic only if a node can be reached
\* from itself, and else every node is sorted once, after all it can be reached from.
THEOREM OrderIsRight == GraphSpec => []OrderIsTopological
<1>1. OrderInv => OrderIsTopological
  <2> SUFFICES ASSUME OrderInv PROVE OrderIsTopological
    OBVIOUS
  <2>1. stage = "cyclic" => \E n \in Nodes : n \in Above(n)
    BY ResidueIsCyclic DEF OrderInv
  <2>2. ASSUME stage \in {"allocating", "ready"}
        PROVE  ToSet(order) = Nodes /\ Len(order) = Cardinality(Nodes)
    <3>1. ToSet(order) \subseteq Nodes
      BY DEF OrderInv, ToSet
    <3> QED
      BY <2>2, <3>1 DEF OrderInv, Left
  <2>3. ASSUME NEW i \in DOMAIN order, NEW j \in DOMAIN order, order[i] \in Above(order[j])
        PROVE  i < j
    <3>1. DOMAIN order = 1 .. Len(order) /\ Len(order) \in Nat
      BY LenProperties DEF OrderInv
    <3>2. PICK k \in 1 .. j - 1 : order[i] = order[k]
      BY <2>3, <3>1, AboveIsBefore DEF Before
    <3>3. k \in 1 .. Len(order)
      BY <3>1, <3>2
    <3>4. i = k
      BY <3>1, <3>2, <3>3 DEF OrderInv
    <3> QED
      BY <3>1, <3>4
  <2> QED
    BY <2>1, <2>2, <2>3 DEF OrderIsTopological
<1> QED
  BY <1>1, OrderInvInit, OrderInvNext, PTL DEF GraphSpec

\* The tables of the sort are its own outside the sort too.
LEMMA TablesStay ==
    ASSUME GraphInv, GraphTypeOK, GraphInv', OrderInv', [GraphNext]_graphVars
    PROVE  GraphTypeOK'
<1>1. /\ stage' \in {"checking", "refused", "sorting", "cyclic", "allocating", "ready"}
      /\ Len(handles') <= Len(edges')
  BY DEF GraphInv
<1>2. Len(edges') <= MaxEdges
  <2>1. CASE UNCHANGED edges
    BY <2>1 DEF GraphTypeOK
  <2>2. ASSUME NEW e \in Drafts, Declare(e), edges' = Append(edges, e)
        PROVE  Len(edges') <= MaxEdges
    <3>1. edges \in Seq(EdgeType) /\ Len(edges) < MaxEdges
      BY <2>2 DEF Declare, GraphInv
    <3>2. Len(edges') = Len(edges) + 1 /\ Len(edges) \in Nat
      BY <2>2, <3>1
    <3> QED
      BY <3>1, <3>2, GraphAssumption
  <2> QED
    BY <2>1, <2>2 DEF GraphNext, Declare, CountArcs, Sorted, Allocate, Publish, TakeReady,
       MountGraph, graphVars
<1>3. stage' = "sorting" \/ UNCHANGED <<indegree, ready, order>>
  BY DEF GraphNext, Declare, CountArcs, Sorted, Allocate, Publish, TakeReady, MountGraph,
     graphVars, sorting
<1>4. indegree' \in [Nodes -> Nat] /\ ready' \cup ToSet(order') \subseteq Nodes
  <2>1. CASE stage' = "sorting"
    <3>1. indegree' \in [Nodes -> Nat] /\ ready' \subseteq Nodes
      BY <2>1 DEF OrderInv, Left
    <3>2. ToSet(order') \subseteq Nodes
      BY DEF OrderInv, ToSet
    <3> QED
      BY <3>1, <3>2
  <2>2. CASE UNCHANGED <<indegree, ready, order>>
    BY <2>2 DEF GraphTypeOK
  <2> QED
    BY <1>3, <2>1, <2>2
<1> QED
  BY <1>1, <1>2, <1>4 DEF GraphTypeOK

\* The tables of every stage have their types, for any nodes and edges.
THEOREM GraphTypeCorrect == GraphSpec => []GraphTypeOK
<1>1. GraphInit => GraphTypeOK
  BY GraphAssumption DEF GraphInit, GraphTypeOK, ToSet
<1> QED
  BY <1>1, GraphInvInit, GraphInvNext, OrderInvInit, OrderInvNext, TablesStay, PTL
     DEF GraphSpec
===============================================================================
