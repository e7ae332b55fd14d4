------------------------------- MODULE MCClock --------------------------------
(***************************************************************************)
(* The consumer's clock from end to end: the pulls of Bridge that feed the   *)
(* loop (BridgePulls), the loop (ConsumerClockRecovery), and the lanes its   *)
(* state is published in (PllLanes).  Each is checked by itself: they meet   *)
(* in a stamp and in an offset only, and each takes every value of those.    *)
(***************************************************************************)
EXTENDS PllLanes, ConsumerClockRecovery, BridgePulls

VARIABLE machine

allVars == <<machine, laneVars, recoveryVars, pullVars>>

\* Lanes of 8 values: offsets on both sides of zero and of a high half's end, and
\* drifts that are in range or just outside.
MCOffsets == {0 - 1, 0, 7, 8}
InRange == {0 - 4, 3}
BeyondRange == {3, 4}

\* The loop: two offsets far apart, noise, and a spike between them.
MCTrueOffsets == {0, 24}
MCJitter == {0 - 1, 0, 1}
MCSpikes == {0 - 1, 0, 1, 12}

ClockInit ==
    /\ machine \in {"lanes", "loop", "pulls"}
    /\ LanesInit /\ RecoveryInit /\ PullsInit
    /\ machine # "loop" => trueOffset = 0
    /\ machine # "pulls" => ~checked /\ ~bigIntStamp

LanesRun == machine = "lanes" /\ UNCHANGED <<machine, recoveryVars, pullVars>>
LoopRuns == machine = "loop" /\ UNCHANGED <<machine, laneVars, pullVars>>
PullsRun == machine = "pulls" /\ UNCHANGED <<machine, laneVars, recoveryVars>>

ClockNext ==
    \/ LanesRun /\ LanesNext
    \/ LoopRuns /\ RecoveryNext
    \/ PullsRun /\ PullsNext

\* The consumer goes on pulling fresh frames and observing their stamps.
ClockSpec == ClockInit /\ [][ClockNext]_allVars /\ WF_allVars(LoopRuns /\ Measure)
===============================================================================
