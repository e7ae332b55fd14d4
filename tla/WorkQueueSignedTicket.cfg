CONSTANTS
    Modulus = 32
    Capacity = 2
    Producers = {p1}
    Consumers = {c1}
    ProducerCount = 1
    Seed = 15
    MaxFrames = 2
SPECIFICATION Spec
INVARIANTS NeverOrphaned
