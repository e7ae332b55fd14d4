CONSTANTS
    RingCapacity = 2
    MaxFrames = 3
SPECIFICATION PullsSpec
INVARIANTS CacheIsSet
