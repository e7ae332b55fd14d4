------------------------ MODULE ConsumerClockRecovery ------------------------
(***************************************************************************)
(* ConsumerClockRecovery.ts: the consumer's estimate of the offset between *)
(* the producer's clock and its own, a PI loop behind an outlier gate, as   *)
(* Bridge constructs it (no drift estimator).  The gains are 1 / Kp and     *)
(* 1 / Ki, the weight of the running mean 1 / 2; arithmetic is in integers, *)
(* rounded towards zero, the mean upwards, so that a scale once positive     *)
(* stays so, as it does in doubles.  The counters outliersRejected and       *)
(* stallRecoveries, which the loop never reads, are left out.                *)
(*                                                                         *)
(* The environment owns the true offset.  It may jump, and measurements may *)
(* be spikes, until the clocks have settled.                                *)
(***************************************************************************)
EXTENDS Integers

CONSTANTS
    Kp, Ki,             \* 1 / PLL_KP and 1 / PLL_KI: 5 and 100 in the code
    IntLimit,           \* PLL_INT_LIMIT_NS
    Sigmas,             \* outlierSigmaMultiplier
    Warmup,             \* outlierWarmupObservations
    StreakLimit,        \* outlierConsecutiveLimit
    TrueOffsets,        \* offsets the two clocks may have
    Jitter,             \* what a measurement may add
    Spikes              \* what it may add while the clocks are unsettled

ASSUME RecoveryAssumption ==
    /\ Kp \in Nat \ {0} /\ Ki \in Nat \ {0} /\ IntLimit \in Nat
    /\ Sigmas \in Nat \ {0} /\ Warmup \in Nat /\ StreakLimit \in Nat
    /\ TrueOffsets \subseteq Int /\ TrueOffsets # {}
    /\ Jitter \subseteq Spikes /\ Spikes \subseteq Int /\ 0 \in Jitter

VARIABLES
    offset, integral, locked,       \* _offsetNs, _integral, _locked
    sigma,                          \* _sigmaEwma
    observations,                   \* _observationsSinceLock
    streak,                         \* _consecutiveOutliers
    trueOffset, settled             \* the environment

recoveryVars ==
    <<offset, integral, locked, sigma, observations, streak, trueOffset, settled>>

RecoveryInit ==
    /\ offset = 0 /\ integral = 0 /\ locked = FALSE
    /\ sigma = 0 /\ observations = 0 /\ streak = 0
    /\ trueOffset \in TrueOffsets /\ settled = FALSE

Magnitude(x) == IF x < 0 THEN 0 - x ELSE x
Quotient(x, d) == IF x < 0 THEN 0 - ((0 - x) \div d) ELSE x \div d
Bounded(x, limit) == IF x > limit THEN limit ELSE IF x < 0 - limit THEN 0 - limit ELSE x

\* Mutant: no anti-windup.
Unbounded(residual) == integral + residual

\* The integrator, bounded against windup.
Integrated(residual) == Bounded(integral + residual, IntLimit)

\* The first observation seeds the offset.
Seed(measured) ==
    /\ ~locked
    /\ offset' = measured /\ locked' = TRUE
    /\ integral' = 0 /\ sigma' = 0 /\ observations' = 0 /\ streak' = 0

GateActive == observations >= Warmup /\ sigma > 0
Outlier(residual) == GateActive /\ Magnitude(residual) > Sigmas * sigma

\* This outlier follows as many as the gate rejects in a row: it is a step.
StepDetected == streak + 1 > StreakLimit

\* Mutant: the streak is not counted.
RejectUncounted(residual) ==
    /\ locked /\ Outlier(residual) /\ ~StepDetected
    /\ UNCHANGED <<offset, integral, locked, sigma, observations, streak>>

\* A spike: nothing but the streak changes.
Reject(residual) ==
    /\ locked /\ Outlier(residual) /\ ~StepDetected
    /\ streak' = streak + 1
    /\ UNCHANGED <<offset, integral, locked, sigma, observations>>

\* The running mean of the residuals' magnitudes; a detected step has set the
\* scale it is taken with.
Scale(residual) ==
    LET size == Magnitude(residual)
        before == IF Outlier(residual) THEN size \div Sigmas ELSE sigma
    IN  IF before = 0 THEN size ELSE (before + size + 1) \div 2

\* A clean observation, or a step taken in.
Admit(residual) ==
    /\ locked /\ (Outlier(residual) => StepDetected)
    /\ integral' = Integrated(residual)
    /\ offset' = offset + Quotient(residual, Kp) + Quotient(integral', Ki)
    /\ sigma' = Scale(residual)
    /\ streak' = IF GateActive THEN 0 ELSE streak
    /\ observations' = IF observations <= Warmup THEN observations + 1 ELSE observations
    /\ UNCHANGED locked

\* observe(consumerNs, producerNs) with measured = producerNs - consumerNs.
Observe(measured) ==
    /\ Seed(measured) \/ Reject(measured - offset) \/ Admit(measured - offset)
    /\ UNCHANGED <<trueOffset, settled>>

\* reset()
Reset ==
    /\ ~settled
    /\ offset' = 0 /\ integral' = 0 /\ locked' = FALSE
    /\ sigma' = 0 /\ observations' = 0 /\ streak' = 0
    /\ UNCHANGED <<trueOffset, settled>>

\* A suspended or reconnected producer: the offset jumps.
Jump ==
    /\ ~settled /\ trueOffset' \in TrueOffsets
    /\ UNCHANGED <<offset, integral, locked, sigma, observations, streak, settled>>

SettleClocks ==
    /\ ~settled /\ settled' = TRUE
    /\ UNCHANGED <<offset, integral, locked, sigma, observations, streak, trueOffset>>

Measure ==
    \E noise \in IF settled THEN Jitter ELSE Spikes : Observe(trueOffset + noise)

RecoveryNext == Measure \/ Reset \/ Jump \/ SettleClocks

\* Whatever is measured, whenever.
RecoverySpec == RecoveryInit /\ [][RecoveryNext]_recoveryVars

-------------------------------------------------------------------------------
(* Correctness *)

\* The loop's state has its types and bounds.
RecoveryTypeOK ==
    /\ offset \in Int /\ integral \in (0 - IntLimit) .. IntLimit /\ locked \in BOOLEAN
    /\ sigma \in Nat /\ observations \in 0 .. Warmup + 1 /\ streak \in 0 .. StreakLimit
    /\ trueOffset \in TrueOffsets /\ settled \in BOOLEAN

\* How far the bounded integrator alone can hold the estimate off.
Slack == (Kp * (IntLimit \div Ki)) + Kp

\* Every measurement there can be.
Measurable == {t + s : t \in TrueOffsets, s \in Spikes}

\* Whatever jumps and spikes were taken in: the estimate leaves the range of the
\* measurements by no more than the bounded integrator can hold it off.
StaysNearTheClock ==
    locked => /\ \E m \in Measurable : offset <= m + Slack
              /\ \E m \in Measurable : offset >= m - Slack

\* Once the clocks have settled the estimate comes to the true offset and stays,
\* wherever a step had left it and whatever scale the gate had learnt: the gate
\* does not lock the loop out.
FollowsTheClock ==
    <>[]settled => <>[](locked /\ Magnitude(offset - trueOffset) <= Slack)
===============================================================================
