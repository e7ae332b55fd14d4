------------------------------- MODULE SpscRing -------------------------------
(***************************************************************************)
(* SpscRing.ts: one producer thread and one consumer thread over one        *)
(* SharedArrayBuffer.  Two Int32 lanes (write_index, read_index) carry the   *)
(* protocol; the payload is plain memory that lane stores publish.  A        *)
(* thread's step is one access to shared memory together with the local      *)
(* computation that follows it.  A frame is its number, and it is written    *)
(* and read in two halves (array fields, then scalars and the invariant      *)
(* lane), so a read that overlaps a write is seen as a torn frame.           *)
(***************************************************************************)
EXTENDS Int32Lanes, Sequences, SequencesExt

CONSTANTS
    Options,        \* the rings considered, one record of options each
    Seed,           \* value of both lanes when the history starts
    MaxFrames       \* bound: frames offered in one history

ASSUME SpscAssumption ==
    /\ Options \subseteq
           [policy : {"reject", "drop-newest", "drop-oldest", "block"},
            notify : {"always", "waiter-flag"},
            timeouts : BOOLEAN,         \* waits carry a timeout that may elapse
            holeyBuffers : BOOLEAN]     \* drainNoNotify may meet an undefined out[count]
    /\ Seed \in Lane
    /\ MaxFrames \in Nat
    /\ 2 * MaxFrames < Modulus

VARIABLES
    opts,                   \* of this ring
    \* the SharedArrayBuffer
    writeIdx, readIdx,      \* lanes 0 and 1
    lo, hi,                 \* the halves of each slot's payload
    spaceFlag, dataFlag,    \* WAITING_FOR_SPACE, WAITING_FOR_DATA tail lanes
    asleep,                 \* threads parked in Atomics.wait
    \* the producer thread
    ppc, pOp, pRead, pAttempt, pTimedOut, offered, pushed, dropped,
    \* the consumer thread
    cpc, cOp, cRead, cWrite, cAttempt, cCount, outLo, outHi, sample,
    skipped,
    \* history
    sent,                   \* frames published, oldest first
    freed,                  \* how far read_index has moved, without the wrap
    got                     \* frames handed to the consumer's caller

lanes == <<writeIdx, readIdx>>
payload == <<lo, hi>>
parking == <<spaceFlag, dataFlag, asleep>>
sabVars == <<lanes, payload, parking>>
pCall == <<pOp, pRead, pAttempt, pTimedOut>>
pCounts == <<offered, pushed, dropped>>
producerVars == <<ppc, pCall, pCounts>>
cCall == <<cOp, cRead, cWrite, cAttempt, cCount>>
cResult == <<outLo, outHi, sample, skipped>>
consumerVars == <<cpc, cCall, cResult>>
historyVars == <<sent, freed, got>>
vars == <<opts, sabVars, producerVars, consumerVars, historyVars>>

Policy == opts.policy
NotifyMode == opts.notify
Timeouts == opts.timeouts
HoleyBuffers == opts.holeyBuffers

PullOps == {"pull", "pullLatest", "drain"}
Torn == 0   \* a frame whose two halves disagree; no frame has this number

Init ==
    /\ opts \in Options
    /\ writeIdx = Seed /\ readIdx = Seed
    /\ lo = [s \in Slots |-> Torn] /\ hi = [s \in Slots |-> Torn]
    /\ spaceFlag = FALSE /\ dataFlag = FALSE /\ asleep = {}
    /\ ppc = "idle" /\ pOp = "push" /\ pRead = Seed /\ pAttempt = 0
    /\ pTimedOut = FALSE /\ offered = 0 /\ pushed = 0 /\ dropped = 0
    /\ cpc = "idle" /\ cOp = "pull" /\ cRead = Seed /\ cWrite = Seed
    /\ cAttempt = 0 /\ cCount = 0 /\ outLo = Torn /\ outHi = Torn
    /\ sample = 0 /\ skipped = 0
    /\ sent = <<>> /\ freed = 0 /\ got = <<>>

-------------------------------------------------------------------------------
(* The producer *)

\* Mutant: off by one at the boundary.
FullTooLate(w, r) == SignedDiff(w, r) > Capacity

Full(w, r) == SignedDiff(w, r) >= Capacity

\* push, pushRaw and beginPush open alike: own write_index, load of
\* read_index, and if the ring is full the policy's first step.
StartPush(op) ==
    /\ ppc = "idle"
    /\ offered < MaxFrames
    /\ offered' = offered + 1
    /\ pOp' = op
    /\ pRead' = readIdx
    /\ pAttempt' = 0
    /\ \/ ~Full(writeIdx, readIdx) /\ ppc' = "writeLo" /\ UNCHANGED dropped
       \/ /\ Full(writeIdx, readIdx)
          /\ \/ Policy = "reject" /\ ppc' = "idle" /\ UNCHANGED dropped
             \/ Policy = "drop-newest" /\ ppc' = "idle" /\ dropped' = dropped + 1
             \/ Policy = "drop-oldest" /\ ppc' = "evict" /\ UNCHANGED dropped
             \/ Policy = "block" /\ ppc' = "waitLoad" /\ UNCHANGED dropped
    /\ UNCHANGED <<opts, sabVars, pTimedOut, pushed, consumerVars, historyVars>>

\* _dropOldest: one compareExchange of read_index ...
EvictOldest ==
    /\ ppc = "evict"
    /\ IF readIdx = pRead
       THEN /\ readIdx' = Inc(pRead)
            /\ pRead' = Inc(pRead)
            /\ dropped' = dropped + 1
            /\ freed' = freed + 1
            /\ ppc' = "writeLo"
       ELSE /\ ppc' = "evictReload"
            /\ UNCHANGED <<readIdx, pRead, dropped, freed>>
    /\ UNCHANGED <<opts, writeIdx, payload, parking, pOp, pAttempt, pTimedOut,
                   offered, pushed, consumerVars, sent, got>>

\* ... and after losing it to the consumer, a reload and another try while the
\* ring is still full, Capacity + 1 tries in all.
ReloadAfterLostCas ==
    /\ ppc = "evictReload"
    /\ pRead' = readIdx
    /\ pAttempt' = pAttempt + 1
    /\ ppc' = IF Full(writeIdx, readIdx) /\ pAttempt < Capacity
              THEN "evict" ELSE "writeLo"
    /\ UNCHANGED <<opts, sabVars, pOp, pTimedOut, pCounts, consumerVars,
                   historyVars>>

\* Array fields: copied by push, written in place by the owner of a beginPush.
WriteLo ==
    /\ ppc = "writeLo"
    /\ lo' = [lo EXCEPT ![Slot(writeIdx)] = offered]
    /\ ppc' = "writeHi"
    /\ UNCHANGED <<opts, lanes, hi, parking, pCall, pCounts, consumerVars,
                   historyVars>>

\* Scalars and the invariant lane: written by push, or by commitPush.
WriteHi ==
    /\ ppc = "writeHi"
    /\ hi' = [hi EXCEPT ![Slot(writeIdx)] = offered]
    /\ ppc' = "publish"
    /\ UNCHANGED <<opts, lanes, lo, parking, pCall, pCounts, consumerVars,
                   historyVars>>

\* Mutant: aborting publishes what was written so far.
AbortPublishes ==
    /\ pOp = "beginPush"
    /\ ppc \in {"writeLo", "writeHi"}
    /\ ppc' = "publish"
    /\ UNCHANGED <<opts, sabVars, pCall, pCounts, consumerVars, historyVars>>

\* abortPush: the slot keeps whatever was written into it.
AbortPush ==
    /\ pOp = "beginPush"
    /\ ppc \in {"writeLo", "writeHi"}
    /\ ppc' = "idle"
    /\ UNCHANGED <<opts, sabVars, pCall, pCounts, consumerVars, historyVars>>

\* The release-store of write_index.
Publish ==
    /\ ppc = "publish"
    /\ writeIdx' = Inc(writeIdx)
    /\ sent' = Append(sent, offered)
    /\ ppc' = "notify"
    /\ UNCHANGED <<opts, readIdx, payload, parking, pCall, pCounts, consumerVars,
                   freed, got>>

\* _notifyLane(WRITE_IDX_LANE): wake at once, or only after the peer's flag
\* was seen set; then pushedFrames.
NotifyConsumer ==
    /\ \/ ppc = "notify" /\ NotifyMode = "always"
       \/ ppc = "notify" /\ NotifyMode = "waiter-flag" /\ ~dataFlag
       \/ ppc = "wake"
    /\ asleep' = IF ppc = "notify" /\ NotifyMode = "waiter-flag"
                 THEN asleep ELSE asleep \ {"consumer"}
    /\ pushed' = pushed + 1
    /\ ppc' = "idle"
    /\ UNCHANGED <<opts, lanes, payload, spaceFlag, dataFlag, pCall, offered,
                   dropped, consumerVars, historyVars>>

ProducerSeesFlag ==
    /\ ppc = "notify" /\ NotifyMode = "waiter-flag" /\ dataFlag
    /\ ppc' = "wake"
    /\ UNCHANGED <<opts, sabVars, pCall, pCounts, consumerVars, historyVars>>

\* waitForSpace as a call of its own.
StartWaitForSpace ==
    /\ ppc = "idle"
    /\ pOp' = "waitForSpace"
    /\ ppc' = "waitLoad"
    /\ UNCHANGED <<opts, sabVars, pRead, pAttempt, pTimedOut, pCounts, consumerVars,
                   historyVars>>

AfterWait == IF pOp = "waitForSpace" THEN "idle" ELSE "recheck"

WaitLoadRead ==
    /\ ppc = "waitLoad"
    /\ pRead' = readIdx
    /\ ppc' = IF ~Full(writeIdx, readIdx) THEN AfterWait
              ELSE IF NotifyMode = "waiter-flag" THEN "announce" ELSE "park"
    /\ UNCHANGED <<opts, sabVars, pOp, pAttempt, pTimedOut, pCounts, consumerVars,
                   historyVars>>

\* Mutant: parks without the announcement the consumer's notify looks for.
ForgetSpaceFlag ==
    /\ ppc = "announce"
    /\ ppc' = "park"
    /\ UNCHANGED <<opts, sabVars, pCall, pCounts, consumerVars, historyVars>>

AnnounceSpaceWait ==
    /\ ppc = "announce"
    /\ spaceFlag' = TRUE
    /\ ppc' = "park"
    /\ UNCHANGED <<opts, lanes, payload, dataFlag, asleep, pCall, pCounts,
                   consumerVars, historyVars>>

\* Atomics.wait: compare and park in one step.
ParkProducer ==
    /\ ppc = "park"
    /\ asleep' = IF readIdx = pRead THEN asleep \cup {"producer"} ELSE asleep
    /\ pTimedOut' = FALSE
    /\ ppc' = "parked"
    /\ UNCHANGED <<opts, lanes, payload, spaceFlag, dataFlag, pOp, pRead, pAttempt,
                   pCounts, consumerVars, historyVars>>

ProducerTimesOut ==
    /\ ppc = "parked" /\ "producer" \in asleep /\ Timeouts
    /\ asleep' = asleep \ {"producer"}
    /\ pTimedOut' = TRUE
    /\ UNCHANGED <<opts, lanes, payload, spaceFlag, dataFlag, ppc, pOp, pRead,
                   pAttempt, pCounts, consumerVars, historyVars>>

\* Atomics.wait returned: the finally block retracts the flag, and a blocked
\* push either gives up ("timed-out") or looks again, once.
ProducerResumes ==
    /\ ppc = "parked" /\ "producer" \notin asleep
    /\ spaceFlag' = FALSE
    /\ ppc' = IF pTimedOut THEN "idle" ELSE AfterWait
    /\ UNCHANGED <<opts, lanes, payload, dataFlag, asleep, pCall, pCounts,
                   consumerVars, historyVars>>

RecheckAfterWait ==
    /\ ppc = "recheck"
    /\ pRead' = readIdx
    /\ ppc' = IF Full(writeIdx, readIdx) THEN "idle" ELSE "writeLo"
    /\ UNCHANGED <<opts, sabVars, pOp, pAttempt, pTimedOut, pCounts, consumerVars,
                   historyVars>>

-------------------------------------------------------------------------------
(* The consumer *)

\* Mutant: drop-oldest pulls through the plain path.
NeverOverrunAware == FALSE

OverrunAware == Policy = "drop-oldest"      \* _needsOverrunAware

\* pull, pullLatest and drainNoNotify open alike: a load of read_index.
StartPull(op) ==
    /\ cpc = "idle"
    /\ cOp' = op
    /\ cAttempt' = 0
    /\ cCount' = 0
    /\ cRead' = readIdx
    /\ cpc' = "loadWrite"
    /\ UNCHANGED <<opts, sabVars, producerVars, cWrite, cResult, historyVars>>

\* The loop head of a retry and of drainNoNotify's next frame.
LoadRead ==
    /\ cpc = "loadRead"
    /\ cRead' = readIdx
    /\ cpc' = "loadWrite"
    /\ UNCHANGED <<opts, sabVars, producerVars, cOp, cWrite, cAttempt, cCount,
                   cResult, historyVars>>

\* A call that consumed nothing returns; a drain that did still has to notify.
AfterLastFrame == IF cCount > 0 THEN "notify" ELSE "idle"

LoadWrite ==
    /\ cpc = "loadWrite"
    /\ cWrite' = writeIdx
    /\ cpc' = IF writeIdx = cRead THEN AfterLastFrame ELSE "readLo"
    /\ UNCHANGED <<opts, sabVars, producerVars, cOp, cRead, cAttempt, cCount,
                   cResult, historyVars>>

\* The slot read, and the value read_index is to take.
Wanted == IF cOp = "pullLatest" THEN Dec(cWrite) ELSE cRead
Beyond == IF cOp = "pullLatest" THEN cWrite ELSE Inc(cRead)

\* The two halves may be read in either order of fields; a racing producer
\* writes them in the same order, which tears as much as any other.
ReadLo ==
    /\ cpc = "readLo"
    /\ outLo' = lo[Slot(Wanted)]
    /\ cpc' = "readHi"
    /\ UNCHANGED <<opts, sabVars, producerVars, cCall, outHi, sample, skipped,
                   historyVars>>

ReadHi ==
    /\ cpc = "readHi"
    /\ outHi' = hi[Slot(Wanted)]
    /\ cpc' = "commit"
    /\ UNCHANGED <<opts, sabVars, producerVars, cCall, outLo, sample, skipped,
                   historyVars>>

\* A plain ring stores read_index; an overrun-aware one compareExchanges it.
Commits == OverrunAware => readIdx = cRead

CommitPull ==
    /\ cpc = "commit"
    /\ Commits
    /\ readIdx' = Beyond
    /\ freed' = freed + SignedDiff(Beyond, cRead)
    /\ got' = Append(got, IF outLo = outHi THEN outLo ELSE Torn)
    /\ sample' = SignedDiff(cWrite, cRead)      \* handed to _updateFlowScale
    /\ skipped' = skipped + SignedDiff(Wanted, cRead)
    /\ cCount' = cCount + 1
    /\ cAttempt' = 0
    /\ cpc' = IF cOp = "drain" THEN "loadRead" ELSE "notify"
    /\ UNCHANGED <<opts, writeIdx, payload, parking, producerVars, cOp, cRead,
                   cWrite, outLo, outHi, sent>>

\* The producer evicted the frame meanwhile: Capacity + 1 tries, then ok = false.
OverrunRetry ==
    /\ cpc = "commit"
    /\ ~Commits
    /\ cAttempt' = cAttempt + 1
    /\ cpc' = IF cAttempt < Capacity THEN "loadRead" ELSE AfterLastFrame
    /\ UNCHANGED <<opts, sabVars, producerVars, cOp, cRead, cWrite, cCount, cResult,
                   historyVars>>

\* drainNoNotify reached min(out.length, maxCount).
DrainLimit ==
    /\ cpc = "loadRead" /\ cOp = "drain" /\ cAttempt = 0
    /\ cpc' = AfterLastFrame
    /\ UNCHANGED <<opts, sabVars, producerVars, cCall, cResult, historyVars>>

\* out[count] is undefined: drainNoNotify throws.
DrainThrows ==
    /\ HoleyBuffers
    /\ cpc = "loadRead" /\ cOp = "drain" /\ cAttempt = 0
    /\ cpc' = "idle"
    /\ UNCHANGED <<opts, sabVars, producerVars, cCall, cResult, historyVars>>

\* _notifyLane(READ_IDX_LANE)
NotifyProducer ==
    /\ \/ cpc = "notify" /\ NotifyMode = "always"
       \/ cpc = "notify" /\ NotifyMode = "waiter-flag" /\ ~spaceFlag
       \/ cpc = "wake"
    /\ asleep' = IF cpc = "notify" /\ NotifyMode = "waiter-flag"
                 THEN asleep ELSE asleep \ {"producer"}
    /\ cpc' = "idle"
    /\ UNCHANGED <<opts, lanes, payload, spaceFlag, dataFlag, producerVars, cCall,
                   cResult, historyVars>>

ConsumerSeesFlag ==
    /\ cpc = "notify" /\ NotifyMode = "waiter-flag" /\ spaceFlag
    /\ cpc' = "wake"
    /\ UNCHANGED <<opts, sabVars, producerVars, cCall, cResult, historyVars>>

\* waitForData
StartWaitForData ==
    /\ cpc = "idle"
    /\ cOp' = "waitForData"
    /\ cRead' = readIdx
    /\ cpc' = "waitLoad"
    /\ UNCHANGED <<opts, sabVars, producerVars, cWrite, cAttempt, cCount, cResult,
                   historyVars>>

WaitLoadWrite ==
    /\ cpc = "waitLoad"
    /\ cWrite' = writeIdx
    /\ cpc' = IF writeIdx # cRead THEN "idle"
              ELSE IF NotifyMode = "waiter-flag" THEN "announce" ELSE "park"
    /\ UNCHANGED <<opts, sabVars, producerVars, cOp, cRead, cAttempt, cCount,
                   cResult, historyVars>>

AnnounceDataWait ==
    /\ cpc = "announce"
    /\ dataFlag' = TRUE
    /\ cpc' = "park"
    /\ UNCHANGED <<opts, lanes, payload, spaceFlag, asleep, producerVars, cCall,
                   cResult, historyVars>>

ParkConsumer ==
    /\ cpc = "park"
    /\ asleep' = IF writeIdx = cWrite THEN asleep \cup {"consumer"} ELSE asleep
    /\ cpc' = "parked"
    /\ UNCHANGED <<opts, lanes, payload, spaceFlag, dataFlag, producerVars, cCall,
                   cResult, historyVars>>

ConsumerTimesOut ==
    /\ cpc = "parked" /\ "consumer" \in asleep /\ Timeouts
    /\ asleep' = asleep \ {"consumer"}
    /\ UNCHANGED <<opts, lanes, payload, spaceFlag, dataFlag, producerVars,
                   consumerVars, historyVars>>

ConsumerResumes ==
    /\ cpc = "parked" /\ "consumer" \notin asleep
    /\ dataFlag' = FALSE
    /\ cpc' = "idle"
    /\ UNCHANGED <<opts, lanes, payload, spaceFlag, asleep, producerVars, cCall,
                   cResult, historyVars>>

-------------------------------------------------------------------------------
\* What a thread that is inside a call does next.
ProducerStep ==
    \/ EvictOldest \/ ReloadAfterLostCas
    \/ WriteLo \/ WriteHi \/ Publish \/ NotifyConsumer \/ ProducerSeesFlag
    \/ WaitLoadRead \/ AnnounceSpaceWait \/ ParkProducer \/ ProducerResumes
    \/ RecheckAfterWait

ConsumerStep ==
    \/ LoadRead \/ LoadWrite \/ ReadLo \/ ReadHi \/ CommitPull \/ OverrunRetry
    \/ DrainLimit \/ NotifyProducer \/ ConsumerSeesFlag
    \/ WaitLoadWrite \/ AnnounceDataWait \/ ParkConsumer \/ ConsumerResumes

\* What the application, the clock or a bad argument decides.
Choice ==
    \/ \E op \in {"push", "beginPush"} : StartPush(op)
    \/ StartWaitForSpace \/ AbortPush \/ ProducerTimesOut
    \/ \E op \in PullOps : StartPull(op)
    \/ StartWaitForData \/ DrainThrows \/ ConsumerTimesOut

Next == ProducerStep \/ ConsumerStep \/ Choice

Spec == Init /\ [][Next]_vars

\* A thread inside a call keeps running; nobody has to make another call.
FairSpec == Spec /\ WF_vars(ProducerStep) /\ WF_vars(ConsumerStep)

-------------------------------------------------------------------------------
(* Correctness *)

ProducerPcs == {"idle", "evict", "evictReload", "writeLo", "writeHi", "publish",
                "notify", "wake", "waitLoad", "announce", "park", "parked", "recheck"}
ConsumerPcs == {"idle", "loadRead", "loadWrite", "readLo", "readHi", "commit",
                "notify", "wake", "waitLoad", "announce", "park", "parked"}
FrameOrTorn == 0 .. MaxFrames

\* Every lane, payload half, flag and local of the two threads has its type.
TypeOK ==
    /\ opts \in Options
    /\ writeIdx \in Lane /\ readIdx \in Lane
    /\ lo \in [Slots -> FrameOrTorn] /\ hi \in [Slots -> FrameOrTorn]
    /\ spaceFlag \in BOOLEAN /\ dataFlag \in BOOLEAN
    /\ asleep \subseteq {"producer", "consumer"}
    /\ ppc \in ProducerPcs /\ pOp \in {"push", "beginPush", "waitForSpace"}
    /\ pRead \in Lane /\ pAttempt \in 0 .. Capacity + 1 /\ pTimedOut \in BOOLEAN
    /\ offered \in FrameOrTorn /\ pushed \in Nat /\ dropped \in Nat
    /\ cpc \in ConsumerPcs /\ cOp \in PullOps \cup {"waitForData"}
    /\ cRead \in Lane /\ cWrite \in Lane
    /\ cAttempt \in 0 .. Capacity + 1 /\ cCount \in Nat
    /\ outLo \in FrameOrTorn /\ outHi \in FrameOrTorn
    /\ sample \in Int /\ skipped \in Int
    /\ sent \in Seq(1 .. MaxFrames) /\ freed \in Nat /\ got \in Seq(FrameOrTorn)

Unread == Len(sent) - freed

\* A producer that has opened a slot (push past its overflow branch, beginPush
\* until commitPush) holds one no unread frame lives in, whichever way the
\* policy made the room and whatever the consumer did since.
WritesOnlyFreeSlots ==
    ppc \in {"writeLo", "writeHi", "publish"} => Unread \in 0 .. Capacity - 1

\* A pull about to succeed has in hand, whole, exactly the frame it is about to
\* take: _pullOverrunAware and _pullLatestOverrunAware hand no torn or evicted
\* frame to their caller, though the producer may have been in the slot.
PullsWholeFrame ==
    cpc = "commit" /\ Commits =>
        LET taken == freed + SignedDiff(Beyond, cRead)
        IN  taken \in 1 .. Len(sent) /\ outLo = sent[taken] /\ outHi = sent[taken]

\* The occupancy handed to the flow controller lies in the ring, although
\* read_index and write_index were loaded apart.
SampleInRange == sample \in 0 .. Capacity

\* _dropOldest settles by its second look: losing the compareExchange means the
\* consumer made room, so its defensive return with a full ring is not reached.
EvictionSettles == ppc = "evict" => pAttempt = 0

\* A sleeper whose lane has moved is owed a notify by the peer that moved it:
\* no wake is lost between load, announcement, compare-and-park, store and the
\* waker's flag check.
NoLostWake ==
    /\ "producer" \in asleep /\ readIdx # pRead /\ ~HoleyBuffers =>
           \/ cpc \in {"notify", "wake"}
           \/ cOp = "drain" /\ cCount > 0
              /\ cpc \in {"loadRead", "loadWrite", "readLo", "readHi", "commit"}
    /\ "consumer" \in asleep /\ writeIdx # cWrite => ppc \in {"notify", "wake"}

\* waitForSpace and waitForData never put both ends to sleep.
NeverBothAsleep == asleep # {"producer", "consumer"}

\* The telemetry counters of the two threads account for every frame: while the
\* producer is between calls the lanes' occupancy is what was pushed less what was
\* pulled, skipped or (under drop-oldest) dropped.
Conservation ==
    ppc \notin {"notify", "wake"} =>
        SignedDiff(writeIdx, readIdx) = pushed - Len(got) - skipped
            - (IF OverrunAware THEN dropped ELSE 0)

\* Number, in the history, of the frame cWrite stood behind when it was loaded.
Seen == Len(sent) - SignedDiff(writeIdx, cWrite)

\* The ring is a lossy FIFO: publishing, looking, evicting and taking are each one
\* step of it, at the load, store or compareExchange of an index lane.
Fifo == INSTANCE LossyFifo WITH
    Frames <- 1 .. MaxFrames,
    policy <- Policy,
    queue <- SubSeq(sent, freed + 1, Len(sent)),
    delivered <- got,
    newest <- IF sent = <<>> THEN 0 ELSE Last(sent),
    horizon <- IF Seen = 0 THEN 0 ELSE sent[Seen],
    lost <- dropped

ImplementsLossyFifo == Fifo!Spec

\* A producer parked in waitForSpace wakes once there is room, and a consumer parked
\* in waitForData once there is a frame, unless a drain threw before it could notify.
SleepersWake ==
    /\ "producer" \in asleep /\ Unread < Capacity /\ ~HoleyBuffers
           ~> "producer" \notin asleep
    /\ "consumer" \in asleep /\ Unread > 0 ~> "consumer" \notin asleep

\* The comment at SpscRing.ts:1594: the producer cannot keep advancing
\* read_index, so a pull does not run out of tries (and report an empty ring).
PullNeverExhausted == ~(cpc = "commit" /\ ~Commits /\ cAttempt = Capacity)

\* The comment at SpscRing.ts:1021: a blocked push whose waitForSpace did not
\* time out finds room when it looks again.
WokenPushFindsRoom == ppc = "recheck" => ~Full(writeIdx, readIdx)
===============================================================================
