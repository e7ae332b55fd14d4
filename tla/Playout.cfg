\* Calls of one, two and four samples and blocks of three: a call may need two
\* pulls, a block several calls.  The history of three marks outgrows the window.
\* Timeline: three events, before the epoch, at the same time and between samples.
\* Kernels: as in KernelDelays.cfg.
\* Flow control: gains and clamp scaled down, Patience is 4 samples.
CONSTANTS
    BlockSize = 3
    Counts = {1, 2, 4}
    RingBlocks = 2
    Window = 4
    MarkCapacity = 3
    MaxEmitted = 12
    MaxBlocks = 4
    Unit = 4
    LowWatermark = 1
    HighWatermark = 3
    Full = 4
    MinQuality = 2
    Ramp = 1
    Consumers = {c1, c2}
    Capacity = 2
    IntLimit = 2
    MinScale = 1
    MaxScale = 16
    Depths <- MCDepths
    Times = {0, 2, 3}
    Epoch = 1
    Second = 4
    Rates = {1, 3}
    DefaultRate = 3
    Schemas = {v1, v2}
    MaxEvents = 3
    MaxSample = 4
    Registers = {"r"}
    Buffers = {"p", "q"}
    Lanes = {0, 1}
    Values = {0, 1}
    Zero = 0
    Combine <- MCCombine
    Kernels <- MCKernelSet
    Quanta = {1, 2}
    Names = {"x", "y", "z"}
    Malformed = "0"
    Whole = {1, 2}
    Fraction = Half
    Infinite = Infinity
    Alphabet <- MCAlphabet
    MaxTokens = 8
    Streams = {"a", "b", "c", "d", "e"}
    Options = {"strict", "fast", "renamed"}
    BodyOf <- MCBodyOf
    Passes <- MCPasses
    Throws <- MCThrows
    NoCall = NoCall
    MaxRuns = 2
SPECIFICATION PlayoutSpec
INVARIANTS QualityRecovers ForgetsThePast ReplayIsFaithful
INVARIANTS SafeTapsAgree MaskIsSound FirstVerdictStands
PROPERTIES PlaysInOrder
\* All blocks played and all samples emitted.
CHECK_DEADLOCK FALSE
