\* Doubled stamps start two tickets short of the wrap; four frames lap the ring twice.
CONSTANTS
    Modulus = 32
    Capacity = 2
    Consumers = {c1, c2}
    PlainInOrder = TRUE
    Seed = 30
    MaxFrames = 4
SPECIFICATION FairSpec
INVARIANTS LossIsCounted
PROPERTIES ImplementsBroadcastLog CatchesUp
