\* Indices start two short of the wrap; four frames fill the ring twice.
CONSTANTS
    Modulus = 16
    Capacity = 2
    Options <- AllRings
    Seed = 14
    MaxFrames = 4
SPECIFICATION FairSpec
INVARIANTS WritesOnlyFreeSlots PullsWholeFrame
PROPERTIES ImplementsLossyFifo SleepersWake
