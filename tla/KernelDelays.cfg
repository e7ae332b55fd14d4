\* A line of two samples and one of one sample, which may feed each other, and one
\* register; calls of one and of two iterations, in two lanes.
CONSTANTS
    Registers = {"r"}
    Buffers = {"p", "q"}
    Lanes = {0, 1}
    Values = {0, 1}
    Zero = 0
    Combine <- MCCombine
    Kernels <- MCKernelSet
    Quanta = {1, 2}
    Names = {"x", "y", "z"}
    Malformed = "0"
    Whole = {1, 2}
    Fraction = Half
    Infinite = Infinity
    Alphabet <- MCAlphabet
    MaxTokens = 8
    Streams = {"a", "b", "c", "d", "e"}
    Options = {"strict", "fast", "renamed"}
    BodyOf <- MCBodyOf
    Passes <- MCPasses
    Throws <- MCThrows
    NoCall = NoCall
    MaxRuns = 2
SPECIFICATION KernelsSpec
INVARIANT EvaluatorsAgree
\* A stream of MaxTokens tokens is not continued.
CHECK_DEADLOCK FALSE
