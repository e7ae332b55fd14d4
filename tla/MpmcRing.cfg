\* Two slots, so that SLACK decides, and tickets that start two short of the wrap;
\* three frames from each producer are three laps.
CONSTANTS
    Modulus = 32
    Capacity = 2
    Producers = {p1, p2}
    ProducerCount = 2
    Mortal = {p1}
    Seed = 30
    MaxFrames = 3
SPECIFICATION FairSpec
INVARIANTS EnvelopeHolds
PROPERTIES ImplementsFanInFifo ClaimedIsDelivered
