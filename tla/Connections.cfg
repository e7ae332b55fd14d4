\* Two kernels asked for; a window of two units, and quanta that may skip over it.
\* Queues of one and two frames, and four frames each way.  Graphs of up to three
\* edges over three nodes.  Two lanes, two threads and eight schemas.
SPECIFICATION Spec
CONSTANTS
    Whole = 6
    MaxGap = 2
    Windows = {2, 3}
    MinFrames = 2
    Rearms = FALSE
    Kernels = {k1, k2}
    Js = Js
    None = None
    Installable = {k1, k2}
    Batches = {b1}
    JitEnabled = TRUE
    Window = 2
    Laps = 3
    Transports = {"bytes", "module"}
    MaxPosted = 2
    a = a
    b = b
    Peers <- MCPeers
    QueueCapacity <- MCQueueCapacity
    MaxPushes = 4
    n1 = n1
    n2 = n2
    n3 = n3
    Nodes <- MCNodes
    Powers <- MCPowers
    HintBacklog = 3
    Drafts <- MCDrafts
    MaxEdges = 3
    NoLane = NoLane
    t1 = t1
    t2 = t2
    Threads = {t1, t2}
    Balanced <- MCBalanced
    Offers <- MCOffers
    MountSchemas <- MCSchemas
INVARIANTS StateRunsOnce GoneIsSilent QueueIsFreshest OrderIsTopological EndsMeetTheirRings
INVARIANTS EndsAgreeOnBytes
PROPERTIES NoClick NoJump SwapCompletes RequestIsSettled
\* A graph is mounted, a channel closed, and nothing is left to do.
CHECK_DEADLOCK FALSE
