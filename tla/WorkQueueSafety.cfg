CONSTANTS
    Modulus = 32
    Capacity = 2
    Producers = {p1, p2}
    Consumers = {c1, c2}
    ProducerCount = 2
    Seed = 0
    MaxFrames = 2
SPECIFICATION Spec
INVARIANTS SlotsAreExclusive DrainedMeansDelivered
PROPERTIES ImplementsWorkPool
SYMMETRY Symmetry
