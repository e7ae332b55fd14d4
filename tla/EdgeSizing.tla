------------------------------ MODULE EdgeSizing ------------------------------
(***************************************************************************)
(* connectFanIn.ts, connectFanOut.ts, connectWorkQueue.ts and the SPSC edges *)
(* of connectGraph.ts: how many frames a ring gets.  A caller asks for a      *)
(* capacity, or for a latency that is counted in frames by what a frame lasts. *)
(***************************************************************************)
EXTENDS Integers, FiniteSetsExt

CONSTANTS
    Powers,         \* the capacities a ring can have: the powers of two to the ceiling
    HintBacklog     \* frames of a named hint

ASSUME SizingAssumption ==
    /\ IsFiniteSet(Powers) /\ 1 \in Powers /\ Powers \subseteq Nat \ {0}
    /\ \A p \in Powers \ {Max(Powers)} : 2 * p \in Powers
    /\ HintBacklog \in Nat \ {0}

\* A hint is the latency asked for and how long a frame lasts: the samples of a
\* block, or the producer's period.  0 stands for what is not given.
NaN == -1

NextPow2(n) == Min({p \in Powers : p >= n} \cup {Max(Powers)})

\* audioFramesPerSlot and producerHz: what is known of a frame.
FrameTime(hint) == IF hint.latency = 0 \/ hint.frame = 0 THEN NaN ELSE hint.frame

\* resolveTargetBacklog
Backlog(hint) ==
    IF FrameTime(hint) = NaN THEN HintBacklog
    ELSE Max({1, (hint.latency + hint.frame - 1) \div hint.frame})

\* Each of the other producers may have claimed one slot beyond the limit.
Slack(kind, producers) == IF kind \in {"mpmc", "mpmc-wq"} THEN producers - 1 ELSE 0

\* What the constructor of the ring insists on.
Floor(kind, producers) ==
    IF kind \in {"mpmc", "mpmc-wq"} THEN producers + 1 ELSE IF kind = "spmc" THEN 2 ELSE 1

\* Mutant: the slack is not added to the backlog.
CapacityWithoutSlack(kind, producers, asked, hint) ==
    NextPow2(Max({Floor(kind, producers), IF asked # 0 THEN asked ELSE Backlog(hint)}))

\* resolveFanIn, resolveFanOut, resolveWorkQueue and resolveSpscEdge.
RingCapacity(kind, producers, asked, hint) ==
    NextPow2(Max({Floor(kind, producers),
                  IF asked # 0 THEN asked ELSE Backlog(hint) + Slack(kind, producers)}))

UsableDepth(kind, producers, capacity) == capacity - Slack(kind, producers)

\* estimatedLatencyMs: nothing is known of the frames of an asked capacity.
EstimatedLatency(kind, producers, asked, hint) ==
    IF asked # 0 \/ FrameTime(hint) = NaN THEN NaN
    ELSE UsableDepth(kind, producers, RingCapacity(kind, producers, asked, hint)) * hint.frame
===============================================================================
