------------------------------- MODULE MCPlayout -------------------------------
(***************************************************************************)
(* The audio thread plays blocks out and measures how often it had none; the *)
(* producer sets its quality by that measure, whenever it ticks.  And, each by *)
(* itself, the pacing hint that consumers of a ring give their producers, the  *)
(* replay of a recorded timeline, and the kernels that compute the sound.      *)
(***************************************************************************)
EXTENDS FlowController, ResidualQualityController, TimelineRecorder, MCKernels

VARIABLE machine

allVars == <<machine, vars, playbackVars, timelineVars, kernelsVars>>

\* Samples on both sides of an empty and of a full ring.
MCDepths == {0 - 1, 0, 1, 3}

PlayoutInit ==
    /\ machine \in {"blocks", "flow", "timeline", "kernels"}
    /\ Init /\ PlaybackInit /\ TimelineInit /\ KernelsInit
    /\ machine # "kernels" => part = "cache"

BlocksRun == machine = "blocks" /\ UNCHANGED <<machine, vars, timelineVars, kernelsVars>>
FlowRuns ==
    machine = "flow" /\ UNCHANGED <<machine, playbackVars, timelineVars, kernelsVars>>
TimelineRuns ==
    machine = "timeline" /\ UNCHANGED <<machine, vars, playbackVars, kernelsVars>>
KernelsRun ==
    machine = "kernels" /\ UNCHANGED <<machine, vars, playbackVars, timelineVars>>

PlayoutNext ==
    \/ BlocksRun /\ PlaybackNext
    \/ FlowRuns /\ Next
    \/ TimelineRuns /\ TimelineNext
    \/ KernelsRun /\ KernelsNext

PlayoutSpec == PlayoutInit /\ [][PlayoutNext]_allVars
===============================================================================
