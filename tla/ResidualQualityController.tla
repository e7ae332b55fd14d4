----------------------- MODULE ResidualQualityController -----------------------
(***************************************************************************)
(* ResidualQualityController.ts: the producer maps a pressure signal, here   *)
(* the underflow rate its consumer measures, to the quality of what it       *)
(* renders, at most a ramp per tick.  A rate is a pair of counts; signals     *)
(* and watermarks are in units of 1 / Unit, the scale in units of 1 / Full.  *)
(* The loop is closed over the consumer of blocks: the producer ticks between  *)
(* two calls of it, whenever it likes.                                        *)
(***************************************************************************)
EXTENDS BridgeBlockConsumer

CONSTANTS
    Unit, LowWatermark, HighWatermark,
    Full, MinQuality, Ramp      \* 1.0, minScale and rampPerTick

ASSUME QualityAssumption ==
    /\ Unit \in Nat \ {0} /\ LowWatermark \in Nat
    /\ HighWatermark \in Nat /\ LowWatermark < HighWatermark
    /\ Full \in Nat \ {0} /\ MinQuality \in 1 .. Full /\ Ramp \in 1 .. Full

VARIABLES quality, calm     \* history: ticks in a row that asked for full quality

qualityVars == <<quality, calm>>

\* Ticks from the floor to full quality.
Glide == (Full - MinQuality + Ramp - 1) \div Ramp

QualityInit == quality = Full /\ calm = 0

Within(lowest, highest, x) ==
    IF x < lowest THEN lowest ELSE IF x > highest THEN highest ELSE x

Signal(rate) == IF rate.of = 0 THEN 0 ELSE (rate.missed * Unit) \div rate.of

\* 1 - p * (1 - minScale)
Target(signal) ==
    Full - (((Full - MinQuality) * Within(0, HighWatermark - LowWatermark, signal - LowWatermark))
            \div (HighWatermark - LowWatermark))

\* Mutant: the ramp bounds what is lost only.
StepDown(gap) == IF gap > 0 THEN 0 ELSE Within(0 - Ramp, Ramp, gap)

\* At most a ramp, either way.
Step(gap) == Within(0 - Ramp, Ramp, gap)

\* tick(signal)
QualityTick(rate, quiet) ==
    /\ quality' = Within(MinQuality, Full, quality + Step(Target(Signal(rate)) - quality))
    /\ calm' = IF ~quiet THEN 0 ELSE IF calm < Glide THEN calm + 1 ELSE calm

\* reset()
QualityReset == quality' = Full /\ UNCHANGED calm

-------------------------------------------------------------------------------
(* The controller and the consumer it listens to *)

playbackVars == <<blockVars, qualityVars>>
PlaybackInit == BlocksInit /\ QualityInit

\* No sample was missed for so long that none is in the window.
Quiet == emitted - lastHole >= Window + Spacing

TickQuality ==
    /\ left = 0 /\ QualityTick(RateOver(Window), Quiet)
    /\ UNCHANGED blockVars

ResetQuality == left = 0 /\ QualityReset /\ UNCHANGED blockVars

PlaybackNext == (BlocksNext /\ UNCHANGED qualityVars) \/ TickQuality \/ ResetQuality

PlaybackSpec == PlaybackInit /\ [][PlaybackNext]_playbackVars

-------------------------------------------------------------------------------
(* Correctness *)

\* The scale and the history of calm ticks have their bounds.
QualityTypeOK == quality \in MinQuality .. Full /\ calm \in 0 .. Glide

\* The producer's quality is not held down by a stall that is over: as many ticks
\* as the ramp needs, made while no sample is missed any more, bring it back.
QualityRecovers == calm = Glide => quality = Full
===============================================================================
