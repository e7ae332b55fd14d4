------------------------------ MODULE LossyFifo -------------------------------
(***************************************************************************)
(* What a one-producer, one-consumer ring promises, with no index lanes, no *)
(* slots and no interleaving: a bounded FIFO of whole frames that gives a   *)
(* frame up only where the backpressure policy says so.                     *)
(***************************************************************************)
EXTENDS Integers, Sequences, SequencesExt

CONSTANTS
    Frames,     \* the frames that may be offered, numbered as they are
    Capacity    \* frames the queue holds

VARIABLES
    policy,     \* "reject", "drop-newest", "drop-oldest" or "block", for good
    queue,      \* the unread frames, oldest first
    delivered,  \* every frame handed to the reader, in order
    newest,     \* the last frame accepted
    horizon,    \* the newest frame there was when the reader last looked
    lost        \* frames the policy gave up on the producer's side

Init ==
    /\ policy \in {"reject", "drop-newest", "drop-oldest", "block"}
    /\ queue = <<>>
    /\ delivered = <<>>
    /\ newest = 0 /\ horizon = 0
    /\ lost = 0

\* Frames are numbered in the order they are offered; some offers are refused.
Put(frame) ==
    /\ Len(queue) < Capacity
    /\ frame > newest
    /\ queue' = Append(queue, frame)
    /\ newest' = frame
    /\ UNCHANGED <<policy, delivered, horizon, lost>>

\* Only a full queue costs a frame, and never more than one at a time.
DropOldest ==
    /\ policy = "drop-oldest"
    /\ Len(queue) = Capacity
    /\ queue' = Tail(queue)
    /\ lost' = lost + 1
    /\ UNCHANGED <<policy, delivered, newest, horizon>>

DropNewest ==
    /\ policy = "drop-newest"
    /\ Len(queue) = Capacity
    /\ lost' = lost + 1
    /\ UNCHANGED <<policy, queue, delivered, newest, horizon>>

\* The reader looks at how far the writer has come; nothing is taken yet.
Look ==
    /\ horizon' = newest
    /\ UNCHANGED <<policy, queue, delivered, newest, lost>>

Take ==
    /\ queue # <<>>
    /\ delivered' = Append(delivered, Head(queue))
    /\ queue' = Tail(queue)
    /\ UNCHANGED <<policy, newest, horizon, lost>>

\* The reader asked for the freshest frame: it gets the newest it saw, the older
\* ones are skipped and those accepted since its look stay.
TakeLatest ==
    /\ \E n \in 1 .. Len(queue) :
           /\ queue[n] = horizon
           /\ delivered' = Append(delivered, horizon)
           /\ queue' = SubSeq(queue, n + 1, Len(queue))
    /\ UNCHANGED <<policy, newest, horizon, lost>>

Next ==
    \/ \E frame \in Frames : Put(frame)
    \/ DropOldest
    \/ DropNewest
    \/ Look
    \/ Take
    \/ TakeLatest

Spec == Init /\ [][Next]_<<policy, queue, delivered, newest, horizon, lost>>
===============================================================================
