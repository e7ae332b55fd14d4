------------------------------- MODULE WorkPool -------------------------------
(***************************************************************************)
(* What a many-producer, many-consumer work queue promises: a bounded pool *)
(* from which every frame goes to exactly one consumer, and no consumer    *)
(* sees the frames of one producer out of their order.                     *)
(***************************************************************************)
EXTENDS Integers, FiniteSets, Sequences

CONSTANTS
    Producers, Consumers,
    Numbers,    \* how a producer numbers its frames
    Capacity    \* frames the pool holds

VARIABLES
    pool,       \* frames <<producer, number>> accepted and not yet handed out
    handed,     \* the frames each consumer was handed, in order
    last        \* the newest frame accepted from each producer

Init ==
    /\ pool = {}
    /\ handed = [c \in Consumers |-> <<>>]
    /\ last = [p \in Producers |-> 0]

Put(p, n) ==
    /\ Cardinality(pool) < Capacity
    /\ n > last[p]
    /\ pool' = pool \cup {<<p, n>>}
    /\ last' = [last EXCEPT ![p] = n]
    /\ UNCHANGED handed

Take(c, frame) ==
    /\ frame \in pool
    /\ \A i \in 1 .. Len(handed[c]) :
           handed[c][i][1] = frame[1] => handed[c][i][2] < frame[2]
    /\ pool' = pool \ {frame}
    /\ handed' = [handed EXCEPT ![c] = Append(@, frame)]
    /\ UNCHANGED last

Next ==
    \/ \E p \in Producers, n \in Numbers : Put(p, n)
    \/ \E c \in Consumers, frame \in pool : Take(c, frame)

Spec == Init /\ [][Next]_<<pool, handed, last>>
===============================================================================
