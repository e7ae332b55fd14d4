------------------------------ MODULE FanInFifo -------------------------------
(***************************************************************************)
(* What a many-producer, one-consumer ring promises: one FIFO of whole     *)
(* frames that all producers append to and that keeps each producer's own  *)
(* order.  It loses nothing it has accepted, and refuses a frame only when *)
(* no more than Slack of its places are free.                              *)
(***************************************************************************)
EXTENDS Integers, Sequences

CONSTANTS
    Producers,  \* the threads that push
    Numbers,    \* how each of them numbers its frames
    Capacity,   \* frames the queue holds
    Slack       \* places a push may not count on

VARIABLES
    queue,      \* accepted frames <<producer, number>> not yet delivered
    delivered,  \* frames handed to the reader, in order
    last,       \* the newest frame accepted from each producer
    refused     \* frames turned away

Init ==
    /\ queue = <<>>
    /\ delivered = <<>>
    /\ last = [p \in Producers |-> 0]
    /\ refused = 0

Accept(p, n) ==
    /\ Len(queue) < Capacity
    /\ n > last[p]
    /\ queue' = Append(queue, <<p, n>>)
    /\ last' = [last EXCEPT ![p] = n]
    /\ UNCHANGED <<delivered, refused>>

Refuse ==
    /\ Len(queue) >= Capacity - Slack
    /\ refused' = refused + 1
    /\ UNCHANGED <<queue, delivered, last>>

Deliver ==
    /\ queue # <<>>
    /\ delivered' = Append(delivered, Head(queue))
    /\ queue' = Tail(queue)
    /\ UNCHANGED <<last, refused>>

Next ==
    \/ \E p \in Producers, n \in Numbers : Accept(p, n)
    \/ Refuse
    \/ Deliver

Spec == Init /\ [][Next]_<<queue, delivered, last, refused>>
===============================================================================
