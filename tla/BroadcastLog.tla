----------------------------- MODULE BroadcastLog -----------------------------
(***************************************************************************)
(* What a one-producer, many-consumer ring promises: a log the producer    *)
(* extends without asking anyone, and for each reader a position that only *)
(* moves forward.  A reader gets the frame at its position, and passes over *)
(* a frame only when the producer has lapped it.                           *)
(***************************************************************************)
EXTENDS Integers, Sequences

CONSTANTS
    Consumers,
    Capacity,   \* frames before the producer reuses a place
    MaxFrames   \* bound: frames of one history

VARIABLES
    log,        \* frames published so far; frame i is the i-th
    passed,     \* each reader's position
    delivered   \* the frames each reader was handed, in order

Init ==
    /\ log = 0
    /\ passed = [c \in Consumers |-> 0]
    /\ delivered = [c \in Consumers |-> <<>>]

Extend ==
    /\ log' = log + 1
    /\ UNCHANGED <<passed, delivered>>

\* Frame i is lapped once the producer is at frame i + Capacity.
Lapped(i) == i + Capacity <= log + 1

PassOver(c, n) ==
    /\ Lapped(passed[c] + n)
    /\ passed' = [passed EXCEPT ![c] = @ + n]
    /\ UNCHANGED <<log, delivered>>

\* Reads the next frame, or the one after n lapped ones.
Read(c, n) ==
    /\ n > 0 => Lapped(passed[c] + n)
    /\ passed[c] + n < log
    /\ delivered' = [delivered EXCEPT ![c] = Append(@, passed[c] + n + 1)]
    /\ passed' = [passed EXCEPT ![c] = @ + n + 1]
    /\ UNCHANGED log

Next ==
    \/ Extend
    \/ \E c \in Consumers :
           \/ \E n \in 1 .. MaxFrames : PassOver(c, n)
           \/ \E n \in 0 .. MaxFrames : Read(c, n)

Spec == Init /\ [][Next]_<<log, passed, delivered>>
===============================================================================
