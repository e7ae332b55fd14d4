------------------------- MODULE MessageChannelBridge -------------------------
(***************************************************************************)
(* MessageChannelBridge.ts: two peers, each with a bridge over its end of   *)
(* one MessageChannel.  Either may push and pull.  A frame goes from        *)
(* postMessage over the channel to the other peer's onmessage, waits in its *)
(* queue, which evicts the oldest frame when it is full, and is pulled.     *)
(*                                                                         *)
(* The frames a peer sends are numbered 1, 2, ... in the order it pushes    *)
(* them; what the codec puts into the buffer is left out.  The channel      *)
(* delivers complete messages in order.  A closed port takes none, and what *)
(* was under way to it is gone; what it sent before still arrives.          *)
(***************************************************************************)
EXTENDS Integers, Sequences, SequencesExt

CONSTANTS
    Peers,
    QueueCapacity,           \* of each peer's queue; the peers need not agree
    MaxPushes           \* bound: frames each peer pushes

ASSUME ChannelAssumption ==
    /\ \E p, q \in Peers : p # q /\ Peers = {p, q}
    /\ QueueCapacity \in [Peers -> Nat \ {0}]
    /\ MaxPushes \in Nat

VARIABLES
    closed, queue,
    pushedCount, pulledCount, droppedCount,
    wire,               \* messages under way to each peer
    lastPulled          \* history: the newest frame each peer has pulled, 0 if none

channelVars == <<closed, queue, pushedCount, pulledCount, droppedCount, wire, lastPulled>>

Other(p) == CHOOSE q \in Peers : q # p
Zero == [p \in Peers |-> 0]

ChannelInit ==
    /\ closed = [p \in Peers |-> FALSE] /\ queue = [p \in Peers |-> <<>>]
    /\ pushedCount = Zero /\ pulledCount = Zero /\ droppedCount = Zero
    /\ wire = [p \in Peers |-> <<>>] /\ lastPulled = Zero

-------------------------------------------------------------------------------

\* push() posts the frame whether or not the other peer is still there.
Push(p) ==
    LET frame == pushedCount[p] + 1
    IN  /\ ~closed[p] /\ frame <= MaxPushes
        /\ pushedCount' = [pushedCount EXCEPT ![p] = frame]
        /\ wire' = IF closed[Other(p)] THEN wire
                   ELSE [wire EXCEPT ![Other(p)] = Append(@, frame)]
        /\ UNCHANGED <<closed, queue, pulledCount, droppedCount, lastPulled>>

\* Must the queue make room for one more frame?
Evicts(p) == Len(queue[p]) >= QueueCapacity[p]

\* Mutant: a full queue turns the new frame away.
EnqueuedUnlessFull(p, frame) == IF Evicts(p) THEN queue[p] ELSE Append(queue[p], frame)

\* The queue of p once the frame has arrived.
Enqueued(p, frame) == Append(IF Evicts(p) THEN Tail(queue[p]) ELSE queue[p], frame)

\* The message handler.
OnChannelMessage(p) ==
    /\ wire[p] # <<>> /\ ~closed[p]
    /\ wire' = [wire EXCEPT ![p] = Tail(@)]
    /\ queue' = [queue EXCEPT ![p] = Enqueued(p, Head(wire[p]))]
    /\ droppedCount' = [droppedCount EXCEPT ![p] = IF Evicts(p) THEN @ + 1 ELSE @]
    /\ UNCHANGED <<closed, pushedCount, pulledCount, lastPulled>>

\* pull() does not look at _closed: it relies on close() having cleared the queue.
Pull(p) ==
    /\ queue[p] # <<>>
    /\ lastPulled' = [lastPulled EXCEPT ![p] = Head(queue[p])]
    /\ queue' = [queue EXCEPT ![p] = Tail(@)]
    /\ pulledCount' = [pulledCount EXCEPT ![p] = @ + 1]
    /\ UNCHANGED <<closed, pushedCount, droppedCount, wire>>

\* What close() leaves in the queue.
Cleared(q) == <<>>

Close(p) ==
    /\ ~closed[p]
    /\ closed' = [closed EXCEPT ![p] = TRUE]
    /\ queue' = [queue EXCEPT ![p] = Cleared(@)]
    /\ wire' = [wire EXCEPT ![p] = <<>>]
    /\ UNCHANGED <<pushedCount, pulledCount, droppedCount, lastPulled>>

ChannelNext == \E p \in Peers : Push(p) \/ OnChannelMessage(p) \/ Pull(p) \/ Close(p)

\* The event loop delivers messages; each peer pulls time and again.
ChannelFairness == \A p \in Peers : WF_channelVars(OnChannelMessage(p)) /\ WF_channelVars(Pull(p))

ChannelSpec == ChannelInit /\ [][ChannelNext]_channelVars /\ ChannelFairness

-------------------------------------------------------------------------------
(* Correctness *)

\* No queue is ever longer than its capacity, and the counters count frames.
ChannelTypeOK ==
    /\ closed \in [Peers -> BOOLEAN]
    /\ \A p \in Peers : queue[p] \in BoundedSeq(1 .. MaxPushes, QueueCapacity[p])
    /\ wire \in [Peers -> BoundedSeq(1 .. MaxPushes, MaxPushes)]
    /\ \A counter \in {pushedCount, pulledCount, droppedCount, lastPulled} :
           counter \in [Peers -> 0 .. MaxPushes]

\* Until a peer closes, each frame pushed to it is pulled, counted as dropped, waiting
\* or under way, and none is two of these: droppedCount() is the loss adopters are
\* told to look at.
FrameAccounted ==
    \A p \in Peers : ~closed[p] =>
        pushedCount[Other(p)] =
            pulledCount[p] + droppedCount[p] + Len(queue[p]) + Len(wire[p])

\* Freshness over completeness: what a peer can still pull is the newest run of what
\* has arrived, after everything it has pulled, with nothing missing from the middle.
QueueIsFreshest ==
    \A p \in Peers : ~closed[p] =>
        LET arrived == pushedCount[Other(p)] - Len(wire[p])
        IN  /\ queue[p] = [i \in 1 .. Len(queue[p]) |-> arrived - Len(queue[p]) + i]
            /\ queue[p] # <<>> => lastPulled[p] < Head(queue[p])

\* Nothing comes out of a closed bridge, although pull() does not ask.
ClosedIsQuiet == [][\A p \in Peers : closed[p] => lastPulled'[p] = lastPulled[p]]_channelVars

\* The last frame pushed is never the one that is lost: it is pulled in the end,
\* unless one of the peers closes.
NewestArrives ==
    \A p \in Peers :
        pushedCount[p] = MaxPushes ~>
            \/ lastPulled[Other(p)] = MaxPushes
            \/ closed[Other(p)]
===============================================================================
