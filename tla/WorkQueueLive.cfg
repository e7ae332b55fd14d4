CONSTANTS
    Modulus = 32
    Capacity = 2
    Producers = {p1}
    Consumers = {c1, c2}
    ProducerCount = 1
    Seed = 0
    MaxFrames = 3
SPECIFICATION FairSpec
PROPERTIES ClaimedIsDelivered DrainsAfterClose
