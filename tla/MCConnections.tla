----------------------------- MODULE MCConnections -----------------------------
(***************************************************************************)
(* What joins the threads, a machine at a time: the two of the audio thread   *)
(* that move its output from one source to another, HotSwapConsumer and       *)
(* JitKernelConsumer (the latter with its main thread and worker); the peers   *)
(* of a MessageChannel; and the declarative topologies, of connect() and of    *)
(* connectGraph().                                                         *)
(***************************************************************************)
EXTENDS HotSwapConsumer, JitConnection, MessageChannelBridge, MCTopologies

CONSTANTS a, b

VARIABLE machine

\* Two peers with queues of different lengths.
MCPeers == {a, b}
MCQueueCapacity == [p \in MCPeers |-> IF p = a THEN 1 ELSE 2]

ownJitVars == <<connectionVars, fates, jitVars>>
topologyVars == <<channelVars, graphVars, connectVars>>
allVars == <<machine, fadeVars, mixVars, ownJitVars, topologyVars>>

Init ==
    /\ machine \in {"hot-swap", "jit", "channel", "graph", "connect"}
    /\ SwapInit /\ ConnectionInit /\ ChannelInit /\ GraphInit /\ ConnectInit
    /\ machine = "jit" \/ transport = "bytes"   \* else it does not matter

HotSwapRuns == machine = "hot-swap" /\ UNCHANGED <<machine, ownJitVars, topologyVars>>
JitRuns == machine = "jit" /\ UNCHANGED <<machine, mixVars, topologyVars>>
TopologyRuns == UNCHANGED <<machine, fadeVars, mixVars, ownJitVars>>
ChannelRuns == machine = "channel" /\ TopologyRuns /\ UNCHANGED <<graphVars, connectVars>>
GraphRuns == machine = "graph" /\ TopologyRuns /\ UNCHANGED <<channelVars, connectVars>>
ConnectRuns == machine = "connect" /\ TopologyRuns /\ UNCHANGED <<channelVars, graphVars>>

Next ==
    \/ HotSwapRuns /\ SwapNext
    \/ JitRuns /\ ConnectionNext
    \/ ChannelRuns /\ ChannelNext
    \/ GraphRuns /\ GraphNext
    \/ ConnectRuns /\ ConnectNext

\* Each machine under the fairness of its own specification.
Fairness ==
    /\ WF_allVars(HotSwapRuns /\ PullLatest(1, TRUE))
    /\ WF_allVars(JitRuns /\ WorkerStep)
    /\ WF_allVars(JitRuns /\ Answered)
    /\ WF_allVars(JitRuns /\ WorkletMessage)
    /\ WF_allVars(JitRuns /\ Render(1))

Spec == Init /\ [][Next]_allVars /\ Fairness

\* The same with ChannelFairness, for what MessageChannelBridge delivers in the end.
ChannelLiveSpec ==
    /\ Spec
    /\ \A p \in Peers :
           /\ WF_allVars(ChannelRuns /\ OnChannelMessage(p))
           /\ WF_allVars(ChannelRuns /\ Pull(p))

\* The two machines that share the variables of Crossfade, each with its own types.
FadesTypeOK ==
    /\ machine = "hot-swap" => SwapTypeOK /\ HeardIsReconstructed
    /\ machine = "jit" => JitTypeOK
===============================================================================
