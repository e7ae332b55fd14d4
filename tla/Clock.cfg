\* Gains and limits scaled down; two offsets far apart, and a spike between them.
\* A ring of two frames, and three frames for the pulls to meet.
CONSTANTS
    Modulus = 8
    Capacity = 2
    Offsets <- MCOffsets
    Drifts <- InRange
    MaxPublishes = 2
    Kp = 4
    Ki = 10
    IntLimit = 20
    Sigmas = 3
    Warmup = 2
    StreakLimit = 2
    TrueOffsets <- MCTrueOffsets
    Jitter <- MCJitter
    Spikes <- MCSpikes
    RingCapacity = 2
    MaxFrames = 3
SPECIFICATION ClockSpec
INVARIANTS GateIsFresh StaysNearTheClock SmootherIsClean
PROPERTIES FollowsTheClock StampsAdvance
\* A publisher and a producer that have used up their bounds stop.
CHECK_DEADLOCK FALSE
