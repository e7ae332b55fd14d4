---------------------------- MODULE FlowController ----------------------------
(***************************************************************************)
(* AdaptiveFlowController.ts, and the flow_scale lane its ticks are stored  *)
(* in: the controller of each consumer turns the occupancy it meets into a  *)
(* pacing hint for the producers.  A ring with one consumer has one         *)
(* controller; the consumers of a work queue each have their own and share  *)
(* the lane, last writer wins.  A tick is local to its thread, the store of *)
(* what it returned is a step of its own.                                   *)
(*                                                                         *)
(* Arithmetic is exact: an occupancy error is counted in frames (err is     *)
(* Error / Capacity), the integral likewise, and a scale in units of        *)
(* 1 / One.  The rounding of IEEE doubles and of the Q16.16 lane is left    *)
(* out; both are monotone.                                                  *)
(***************************************************************************)
EXTENDS Integers, FiniteSets

CONSTANTS
    Consumers,
    Capacity,           \* frames of the ring
    IntLimit,           \* FLOW_SCALE_INT_LIMIT, and 1 / FLOW_SCALE_KI; 20 in the code
    MinScale, MaxScale, \* the output clamp, in units of 1 / One
    Depths              \* backlogs a consumer may sample

One == 2 * Capacity * IntLimit

\* A power of two is even unless it is 1.  A work queue's consumers load the
\* enqueue ticket first and a frontier that may lag, or have moved on, second:
\* a sample may exceed the capacity, or be negative.
ASSUME FlowAssumption ==
    /\ Consumers # {}
    /\ Capacity \in Nat \ {0} /\ Capacity % 2 = 0
    /\ IntLimit \in Nat \ {0}
    /\ MinScale \in 1 .. One /\ MaxScale \in Nat /\ MaxScale >= One
    /\ Depths \subseteq Int /\ 0 \in Depths

VARIABLES
    integral,               \* of each consumer's controller
    ticked, sample,         \* consumers about to store, and the backlog they met
    flowScale,              \* the lane
    underfull, overfull     \* history: hints stored in a row for a backlog of less,
                            \* of more, than half the ring; counted up to Patience

vars == <<integral, ticked, sample, flowScale, underfull, overfull>>

IntegralBound == IntLimit * Capacity
Patience == IntLimit * Capacity

Init ==
    /\ integral = [c \in Consumers |-> 0]
    /\ ticked = {} /\ sample = [c \in Consumers |-> 0]
    /\ flowScale = One
    /\ underfull = [c \in Consumers |-> 0] /\ overfull = [c \in Consumers |-> 0]

Clamp(lowest, highest, x) ==
    IF x < lowest THEN lowest ELSE IF x > highest THEN highest ELSE x

\* err = occupancy - 0.5, in frames
Error(buffered) == buffered - (Capacity \div 2)

\* Mutant: the anti-windup bound is that of twice the gain.
IntegratedTooFar(i, buffered) ==
    Clamp(0 - 2 * IntegralBound, 2 * IntegralBound, i + Error(buffered))

\* The integrator, bounded against windup.
Integrated(i, buffered) ==
    Clamp(0 - IntegralBound, IntegralBound, i + Error(buffered))

\* 1 - KP * err - KI * integral
Scale(i, buffered) ==
    Clamp(MinScale, MaxScale, One - (IntLimit * Error(buffered)) - (2 * i))

\* _updateFlowScale in a successful pull of consumer c: the tick ...
Tick(c, buffered) ==
    /\ c \notin ticked
    /\ integral' = [integral EXCEPT ![c] = Integrated(integral[c], buffered)]
    /\ sample' = [sample EXCEPT ![c] = buffered]
    /\ ticked' = ticked \cup {c}
    /\ UNCHANGED <<flowScale, underfull, overfull>>

\* A run of samples on one side of half the ring, one sample longer or broken.
Streak(n, goesOn) ==
    IF ~goesOn THEN 0 ELSE IF n < Patience THEN n + 1 ELSE n

LowStreak(c) == Streak(underfull[c], Error(sample[c]) < 0)
HighStreak(c) == Streak(overfull[c], Error(sample[c]) > 0)

\* ... and the store of the scale it returned.
Store(c) ==
    /\ c \in ticked
    /\ flowScale' = Scale(integral[c], sample[c])
    /\ underfull' = [underfull EXCEPT ![c] = LowStreak(c)]
    /\ overfull' = [overfull EXCEPT ![c] = HighStreak(c)]
    /\ ticked' = ticked \ {c}
    /\ UNCHANGED <<integral, sample>>

\* reset() leaves the lane as it is.
Reset(c) ==
    /\ c \notin ticked
    /\ integral' = [integral EXCEPT ![c] = 0]
    /\ UNCHANGED <<ticked, sample, flowScale, underfull, overfull>>

Next ==
    \E c \in Consumers :
        \/ \E buffered \in Depths : Tick(c, buffered)
        \/ Store(c)
        \/ Reset(c)

Spec == Init /\ [][Next]_vars

-------------------------------------------------------------------------------
(* Correctness *)

\* The integrators keep to the anti-windup bound and the stored hint to its clamp,
\* in whatever order the consumers' ticks and stores come.
TypeOK ==
    /\ integral \in [Consumers -> (0 - IntegralBound) .. IntegralBound]
    /\ ticked \subseteq Consumers /\ sample \in [Consumers -> Depths]
    /\ flowScale \in MinScale .. MaxScale
    /\ underfull \in [Consumers -> 0 .. Patience]
    /\ overfull \in [Consumers -> 0 .. Patience]

\* Whatever stall or burst came before, and in whatever order the consumers'
\* stores reach the lane: once every consumer has stored Patience hints in a row
\* for less than half a ring the producers are not slowed down any more, and once
\* each has for more than half they are not sped up.  The bounded integrators
\* cannot hold the hint on the wrong side.
ForgetsThePast ==
    /\ (\A c \in Consumers : underfull[c] = Patience) => flowScale >= One
    /\ (\A c \in Consumers : overfull[c] = Patience) => flowScale <= One
===============================================================================
