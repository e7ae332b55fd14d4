# webgpu-audio-bridge in TLA+

A model of the library's own logic: the shared-memory rings, the GPU readback source,
the message-channel fallback, what the audio thread does with the frames it pulls
(smoothing, clock recovery, blocks, hot swaps, compiled kernels, timelines), and the
declarative topologies that size, allocate and mount the rings. TLC checks it on small
instances, and TLAPS proves nearly all of its safety, refinements included, for every
instance. Every definition is translated
from `src/src/*.ts`; `PROJECT.json` names the lines of each. The repository has TLA+ of
its own under `src/formal/` (one module per ring, a step per phase of push or pull); the
modules here are written from the TypeScript, at the grain of one access to shared
memory, and cover the policies, wake-ups, clean-up paths and counters those leave out,
and the components around the rings.

1. [The system](#1-the-system)
2. [Modules](#2-modules)
3. [How the code is abstracted](#3-how-the-code-is-abstracted)
4. [Runs](#4-runs)
5. [Bounds](#5-bounds)
6. [Fairness](#6-fairness)
7. [Where the code and its comments part](#7-where-the-code-and-its-comments-part)
8. [Proofs](#8-proofs)
9. [What is not modelled, and the plan](#9-what-is-not-modelled-and-the-plan)

## 1. The system

The library carries frames (a fixed schema of arrays and scalars) from where they
are computed, usually a worker that drives WebGPU, to where they are heard, an
AudioWorklet. The audio thread may not lock, allocate or wait, so the two sides
share memory and coordinate by atomic accesses to Int32 lanes; payloads are plain
memory that a lane store publishes.

```
 application -> BridgeGPUSource --push--> SpscRing --pull--> Bridge / BlockConsumer -> process()
                (staging buffers,         MpmcRing           FrameSmoother, HotSwapConsumer
                 mapAsync promises)       SpmcRing           ConsumerClockRecovery -> PLL lanes
                        ^                 MpmcWorkQueue      JitKernelConsumer <- connectJit <- worker
                        |                     |
   quality, pacing <----+---- flow_scale lane (AdaptiveFlowController.tick in pull), underflow rate
 no shared memory:  MessageChannelBridge  --postMessage-->  MessageChannelBridge
 set-up:            connect() / connectGraph(): size, allocate, post the handle, mount on each thread
```

### Modelled components

| Component | State | Operations | What makes it hard | What must be true |
|---|---|---|---|---|
| `SpscRing.ts` | `write_index`, `read_index`, slots, two waiter-flag lanes; per thread: the call in progress, telemetry counters | `push`/`pushRaw`, `beginPush`/`commitPush`/`abortPush`, `pull`, `pullLatest`, `drainNoNotify`, `waitForSpace`, `waitForData` | under drop-oldest BOTH ends move `read_index`; a notify is elided when no waiter is announced; two indices are loaded one after the other; indices wrap | no torn frame, no unread slot overwritten, no lost wake, losses counted, a FIFO up to the policy |
| PLL lanes of `SpscRing.ts` | lanes 4 to 7 | `publishPllState`, `readPublishedPllState` | four lanes, no lock, one 64-bit value in two of them | the reader gets nothing older than the status it saw |
| `MpmcRing.ts` | ticket and position lanes, a generation per slot | `push` (many), `pull` (one) | check, claim and publish are three accesses; a worker may be terminated between them | envelope, slot ownership, ticket order, gaps close |
| `SpmcRing.ts` | ticket, seqlock stamp per slot, a cursor per consumer | `push` (one, never waits), `pull` (each) | the producer laps readers in mid-read; plain accesses may be reordered | no torn frame, each consumer's loss counted, catching up |
| `MpmcWorkQueue.ts` | two tickets, the delivered frontier, stamps, `closed`; per consumer a held claim | `push` with `advanceFrontier`, `pull`, `close`, `isDrained`, `strandedClaims` | claims overshoot; the frontier is stored without a guard; the end of the stream meets held claims | exclusive slots, no orphaned frame, drained means delivered |
| `BridgeGPUSource.ts` | a staging ring, one promise per slot, the retained image, counters | `scheduleReadback`, `flushPending`, `pollCompleted`, promise jobs, `destroy` | promises settle in any order, maps fail, decoders throw, the bridge is full, `destroy()` comes from anywhere, also from `onError` | no slot stranded or used twice, each readback accounted for, order and freshness |
| `MessageChannelBridge.ts` | a queue and counters per peer, messages under way | `push`, the message handler, `pull`, `close` | eviction while messages arrive; either end closes | what is left is the newest run, the newest arrives |
| `HotSwapConsumer.ts` | phase, window, readiness of b | `armSwap`, `pullLatest` (a quantum), `reset` | the window opens in the middle of a quantum, after any wait | no jump of the weight, no unready bridge heard, completion |
| `AdaptiveFlowController.ts` | an integral per consumer, one shared lane | `tick` and the store of its result, `reset` | windup; several writers of one lane; racy samples | any history is forgotten |
| `Bridge.ts`, `FrameSmoother.ts` | the smoother's buffer, the evaluation cache, Hermite's two endpoints, the last stamp observed | `pull`, `pullLatest`, `pullSmoothed`, `pullLatestSmoothed`, `pullEvaluatedLatest`, `pullHermiteLatest`, `pullPredictedLatest`, `pullKalmanPredictedLatest`, resets | entry points share buffers and may be mixed; torn frames are replaced, blended or let through; some throw after the pull | the smoother holds what the caller has seen and nothing torn; no stamp goes back |
| `ConsumerClockRecovery.ts` | offset, integral, lock, learnt scale, streak of outliers | `observe`, `reset` | the gate narrows in quiet times; spikes and real steps look alike at first | neither winds up nor locks itself out |
| `BridgeBlockConsumer.ts`, `BridgeBlockProducer.ts` | block and cursor, counters, a circular history of marks | the four process methods, `underflowRate`, `reset`; the decoder | calls are cut across blocks and the ring runs dry in the middle | every sample is accounted for and none played out of order |
| `ResidualQualityController.ts` | one scale | `tick`, `reset` | it follows a windowed rate that remembers | a stall that is over is forgotten |
| `TimelineRecorder.ts` | recorded events; a player's tuples, rate and the cursor of a sweep | `recordAt`, `serialize`, `deserialize`, `setSampleRate`, `evaluateAtSample`, `renderInto` | a sweep keeps a cursor over a callback | a sweep shows what a lookup would |
| `jit/JitKernelConsumer.ts`, `jit/JitKernelSwap.ts` | phase and window; current, incoming and retiring kernel; two state slabs | install, revert, `process` | installs over a fade, non-finite output in a fade, recurrences in two generations | a recurrence runs once per quantum, no gain jumps |
| `jit/connectJit.ts` | worker, main thread and worklet, two ports | `bind`, `requestCompile`, `forceJs`, `dispose`, the handlers | answers and reverts take different ports and overtake each other | what was dropped stays silent; every request is settled |
| `connect.ts`, `schema.ts` (layout) | mode and handle; what each thread mounted | `connect`, `mount` | sizes from hint, budget and memory; threads with schemas of different versions | mounted ends read each field where the other writes it |
| `jit/kernelGrammar.ts`, `jit/kernelCache.ts` | the prefix of a token stream with its operand stack; three memos | `stepGrammar`, `legalNextTokens`, `legalOperands`, `kernelToTokens`; `getOrCompile`, `clear` | two masks promise what a third function decides; memos are keyed by text or by body, calls also differ in signature and options, and a gate may throw half-way | a generator kept to the masks cannot write an invalid kernel; a body gets one verdict, of one whole run of the gates |
| `jit/emitKernelWat.ts`, `jit/emitJsKernel.ts`, `evalReference` | registers, delay lines and cursors; the slab that keeps them between calls | an iteration of the emitted loop, its preamble and epilogue | registers are committed at the end, lines are written at once | in each lane, over any calls, the emitted loop is the reference |
| `migratePlan.ts` | none: two layouts and a rename | `migratePlan` | names are reused, swapped and reshaped at the same time | each new field has one source, no old one is forgotten, none fades twice |
| `connectGraph.ts` and the fan constructors | edges, Kahn's tables, handles | `connectGraph`, `mountGraph` | parallel arcs, overlapping fans, latencies that are not known | sorted exactly if acyclic; each ring has room for those who mount it |

Interactions: a ring's `pull` ticks the flow controller and stores its hint, which
producers read; `Bridge`'s pulls feed stamps to the clock recovery, which publishes
through the PLL lanes; `BridgeGPUSource` pushes into a ring with
`beginPush`/`commitPush`/`abortPush` and counts a refusal as a drop; `HotSwapConsumer`
pulls two bridges; the block consumer's underflow rate steers the producer's quality;
a generated stream goes through grammar, cache and gates to become such a kernel;
the main thread forwards a worker's compiled kernel to the worklet, which handles
messages between two quanta; `connect` and `connectGraph` hand every thread the sizes
and layouts its rings were allocated with.

### Components not modelled

| Component | Why |
|---|---|
| `jit/compileKernel.ts`, `gate.ts`, `lower.ts`, the gates of `acousticGate.ts`, arithmetic and SIMD lowering in the emitters | a compiler's output and a numeric comparison of it over a corpus; its outcome (accepted, rejected or thrown) is a constant in `KernelCache` and a free choice in `JitConnection` |
| `StatePredictor.ts`, `predictiveExtrapolation.ts`, `trajectory.ts`, `circular.ts` | floating-point filters and curves: values, not states |
| `TelemetryRing.ts` | a heap-side history used by one thread |
| `_heap.ts`, `schemas/physics.ts` | arrays by kind, a ready-made schema |
| `emit*.ts`, `wasm/` | text or WASM bytes from a schema |
| `worklet/`, `environment.ts`, `index.ts`, `experimental/` | feature detection, measurement, re-exports, prototypes |
| `BridgeProducer.ts`, `BridgeConsumer.ts`, `BridgeInputLane.ts` | forward to `Bridge` and `SpscRing` |

## 2. Modules

| Module | Stands for | Extended or used by |
|---|---|---|
| `Int32Lanes` | a lane of width `Modulus`: `Inc`, `Dec`, `SignedDiff` (`(a - b) \| 0`), `AsInt32`, `Slot` | the rings, `PllLanes`, `LaneTheorems` |
| `LaneTheorems` | lemmas: lanes as images of unwrapped counters, slots, sequences and bounded folds | the proofs of the rings |
| `SpscRing` | the SPSC ring, both threads | `MCSpscRing`, `SpscRingProofs` |
| `LossyFifo` | abstract: a bounded FIFO that loses frames only as its policy says | refined by `SpscRing` |
| `PllLanes` | publish and read of the PLL lanes | `MCClock`, `BridgeProofs` |
| `MpmcRing` | fan-in ring: producers, one consumer | `MpmcRingProofs` |
| `FanInFifo` | abstract: one FIFO of all producers, refusing within `Slack` of full | refined by `MpmcRing` |
| `SpmcRing` | fan-out ring with the seqlock | `SpmcRingProofs` |
| `BroadcastLog` | abstract: a log and a position per reader; only lapped frames are passed over | refined by `SpmcRing` |
| `MpmcWorkQueue` | the work queue | `MCMpmcWorkQueue` (symmetry), `MpmcWorkQueueProofs` |
| `WorkPool` | abstract: a bounded pool, every frame to one consumer, one producer's frames in order to any one consumer | refined by `MpmcWorkQueue` |
| `GpuReadback` | the staging ring of `BridgeGPUSource` | `MCGpuReadback`, `BridgeProofs` |
| `MessageChannelBridge` | both peers and the channel | `MCConnections`, `ConnectionsProofs` |
| `FlowController` | the controllers of all consumers and the lane | `MCPlayout`, `PlayoutProofs` |
| `BridgePulls` | `Bridge`'s entry points that pull, and the buffers they share | `MCClock`, `BridgeProofs` |
| `ConsumerClockRecovery` | the loop and its outlier gate | `MCClock`, `BridgeProofs` |
| `BridgeBlockConsumer` | blocks, calls and the history of marks | `ResidualQualityController` |
| `ResidualQualityController` | the scale, over the consumer whose rate it follows | `MCPlayout`, `PlayoutProofs` |
| `TimelineRecorder` | recorder, container and player | `MCPlayout`, `BridgeProofs` |
| `Crossfade` | what both swap machines share: phase, age of the window, weight | the next two |
| `HotSwapConsumer` | the phase machine between two bridges, one action per call | `MCConnections`, `ConnectionsProofs` |
| `JitKernelConsumer` | kernels, slabs and the swap between them | `JitConnection` |
| `JitConnection` | `JitKernelConsumer` with its main thread, worker and ports | `MCConnections`, `ConnectionsProofs` |
| `EdgeSizing` | how many frames a ring gets, for all four kinds | `ConnectGraph`, `Connect`, `ConnectionsProofs` |
| `ConnectGraph` | the graph from its checks to the mounted nodes | `MCTopologies` (nodes, drafts), `ConnectionsProofs` |
| `SchemaLayout` | where a field lies, and what peers compare | `Connect`, `ConnectionsProofs` |
| `Connect` | `connect()` and `mount()` | `MCTopologies` (schemas, offers), `ConnectionsProofs` |
| `KernelState` | a kernel's loop beside `evalReference`, registers and delay lines | `MCKernels`, `PlayoutProofs` |
| `KernelGrammar` | the validator, the two masks, and the way back from a kernel to tokens | `MCKernels`, `PlayoutProofs` |
| `KernelCache` | the three memos and the gates behind them | `MCKernels`, `PlayoutProofs` |
| `MCKernels` | the three kernel modules, a part at a time | `MCPlayout`, the run `kernel_delays` |
| `MigratePlan` | the plan of a migration, a pure function | `MCTopologies`, `ConnectionsProofs` |
| `MCTopologies` | the inputs of the three before it | `MCConnections` |
| `MCClock`, `MCPlayout`, `MCConnections` | several of these side by side, a machine at a time | the runs `clock`, `playout`, `connections` |

**Rings.** A thread has a program counter (`ppc`, `cpc`) and the locals the code
keeps across accesses. An action is one atomic or plain access to shared memory and
the local computation up to the next; so `StartPush` is push's load of `read_index`
with the branch on it, `EvictOldest` the `compareExchange` of `_dropOldest`,
`ReloadAfterLostCas` the reload after losing it, and so on, in the order of the
code. `Atomics.wait` is one action (compare and park) and its return another. A
payload is written and read in two halves (`WriteLo`, `WriteHi`; `ReadLo`, `ReadHi`)
so that a read overlapping a write is seen; in the work queue in one, since
`SlotsAreExclusive` says there is no overlap to see.

**SpscRing.** `push`, `pushRaw` and `beginPush` share their opening and are told
apart by `pOp` only where they differ (`AbortPush`); `pull`, `pullLatest` and
`drainNoNotify` share theirs and differ in `Wanted`, `Beyond` and what follows a
commit. The overrun-aware pull (drop-oldest) commits by `compareExchange`, the plain
one by a store: `Commits`. The options of the ring are a variable `opts` that never
changes, so that one run covers several kinds of ring.

**SpmcRing.** `left` and `unread` are the accesses of a push or a read still to be
done. With `PlainInOrder` they are done in program order; without it, a plain store
may overtake the `Busy` store before it and the re-read may overtake the plain loads
before it, which is what the memory model leaves open.

**GpuReadback.** The host is one thread, so a step is a whole call or a whole promise
job. A readback is its serial; the fate of a drained slot (`taken`, `full`, `throws`,
`throws` and answered with `destroy()`) is chosen by the bridge, the decoder and the
application. `Poll` folds `Drain` over all slots in slot order, which leaves
those alone that are not ready.

**HotSwapConsumer, JitKernelConsumer.** Time passes between quanta. A quantum is one
action that reconstructs or runs, counts, possibly opens the window, retires and
advances the phase, as `pullLatest` and `process` do; a message is handled between two
quanta. What a recurrence remembers is abstracted to how many quanta it has run, modulo
`Laps`, per batch of voices, with the time each generation was first run as a history:
`StateRunsOnce` compares the two.

**JitConnection.** The worker's queue, the messages of both ports and the answers are
sequences or sets by the order each port keeps; verdict and outcome of a compile are free
choices. A message that names a module is dropped where the worklet cannot take one.

**BridgePulls.** A frame carries its number, whether its invariant is sound, soft or torn,
and a view of it the set of frames its bytes come from: blending unites sets. So one can
say that no byte of a torn frame is in the smoother, without modelling the blend.

**ConsumerClockRecovery.** The loop in integers, one observation a step, the producer's
clock outside: it jumps among `TrueOffsets` until it settles, measurements jitter, and
spikes occur.

**BridgeBlockConsumer.** An iteration of the loop is a step, so the producer may push
between two pulls of one call. A sample is its block and its place in it.

**TimelineRecorder.** An event is its time and place. Whether it is due by a sample is
decided exactly. A sweep is open over its callbacks, which may use the player.

**ConnectGraph, Connect.** Allocation goes edge by edge and mounting node by node or
thread by thread. `NaN` is a value of its own with the comparisons of f64. A schema is a
sequence of fields by width; one kind stands for each width and two for four bytes. Of the
nodes that are ready to be sorted any may come next: the code's queue is one such order. A
field's offset is the sum of the widths that precede it under the comparator of
`compileLayout`, and a schema is compiled once, when it is defined (`LayoutOf`).

**KernelState.** A kernel is a record of its registers, lines and writes; an expression is
the set of its leaves, and `Combine` whatever the operation tree makes of their values: both
evaluators share the tree and differ in what the leaves read. A store, a line's write, the
commit and the entry and exit of a call are steps. The lines are in the slab all the time,
registers and cursors only between calls; where in the slab is structure, not an offset.

**KernelGrammar.** A step is a token. An expression on the operand stack is the postfix
sequence of its tokens, which is the same tree as the node the code builds. `Tokens` are
all tokens, right and wrong; `Alphabet` the ones that streams are made of.

**KernelCache.** A step is a call. What the gates find is a matter of the stream and the
options: `runGate` lays memory out and makes its corpus from the signature, which the
stream has and the body has not. `Passes` are the pairs they accept, `Throws` those in
which `compileIr` or `acousticGate` throws: `runGate` catches what `compileWat` and the
instantiation throw, but calls the export `kernel` whatever `exportName` the module was
emitted with, and lets a trap through; `acousticGate` refuses a probe length; the last
`compileWat`, of the bytes to deliver, is outside any `try`. Then `getOrCompile` ends
there, without a memo (`GatesThrow`). An entry of a memo is the call it was made in: it
stands for the kernel with that call's signature and export name, or for its verdict.
`gated` and `answer` are histories; `MaxRuns` bounds the runs with a body between clears.

**Machines side by side.** `MCClock`, `MCPlayout` and `MCConnections` extend several
components and let a variable `machine` choose one of them at the start; the others stay
at their initial states. They share no state in the code either, beyond a number that is
handed over (a stamp, a rate, a verdict), and each model takes every value of that. It is
one run for several components, not a composition. The compositions are inside the
modules: `JitConnection` (three threads), `ResidualQualityController` (the producer's
quality and the consumer whose underflow it follows), `ConnectGraph` with `EdgeSizing`.

**FlowController.** A tick (local) and the store of what it returned (shared) are two
steps, so that consumers' stores may pass each other.

## 3. How the code is abstracted

- A frame is a number (with its producer's name where there are several). Fields,
  schemas, invariant classification and codecs are left out; what is kept is that a
  frame is written and read piecemeal.
- Lanes keep their width: `Modulus` stands for 2^32, and comparisons are the signed
  differences of the code. The histories start near the wrap.
- Sequentially consistent atomics, as `Atomics.*` are in JavaScript. Plain accesses
  are in program order, except in `SpmcRing` where the reorderings are explicit: it is
  the one ring whose protocol needs more than release and acquire.
- Telemetry counters kept here are those a property mentions.
- In `FlowController` arithmetic is exact. The rounding of doubles and of Q16.16 is
  left out; `Error`, `Scale` and the clamps are monotone, and `ForgetsThePast` is about
  signs only.
- A `MessageChannel` delivers complete messages in order; a `mapAsync` promise settles
  once, either way. Both are outside `src/`, modelled from how the code uses them.

Variables marked "history" in a module are not in the code; properties use them to
speak of the past.

## 4. Runs

All twelve listed runs; "v" marks those that are to fail.

| Run | Instance | What it shows |
|---|---|---|
| `spsc_ring` | all policies and both notify modes, waits | a producer writes only slots without unread frames (`WritesOnlyFreeSlots`), a committing pull has a whole frame, the one it takes (`PullsWholeFrame`), although a drop-oldest producer may refill the slot being read; refinement of `LossyFifo`; a sleeper wakes though its peer only finishes its current call (`SleepersWake`) |
| `mpmc_ring` | 2 producers, one may be terminated anywhere, 1 consumer | `EnvelopeHolds` (never more than a ring in flight, the overload net never runs), refinement of `FanInFifo`, and claimed frames arrive unless a producer died |
| `spmc_ring` | 1 producer, 2 consumers, program order | `LossIsCounted`, refinement of `BroadcastLog` (torn frames would break it), `CatchesUp` |
| `work_queue_safety` | 2 producers, 2 consumers, `close()` | slots are exclusive although the frontier may be set back; drained means delivered; refinement of `WorkPool` |
| `work_queue_live` | 1 producer, 2 consumers | claimed frames are delivered; after `close()` every consumer reaches `isDrained` |
| `work_queue_signed_ticket` (v) | tickets that reach 2^31 | `NeverOrphaned` fails, see section 7 |
| `gpu_readback` | 2 slots; microtask draining with latest-only, polling with adaptive pacing | jobs take their own slots only (`JobsOwnTheirSlots`), frames are fresh (`FrameIsNewest`), and slots come back (`SlotRecycles`) |
| `clock` | lanes with offsets around zero and a half's end; a loop between two true offsets with jitter and spikes; a ring of 2 with 3 frames, sound, soft or torn | `GateIsFresh`; `StaysNearTheClock`, `FollowsTheClock`; `SmootherIsClean`, `StampsAdvance` |
| `bridge_cache` (v) | the pulls alone | `CacheIsSet` fails, see section 7 |
| `playout` | blocks of 3, calls of 1, 2 and 4; 2 controllers; timelines of 3 events at 2 rates; 12 kernels with 2 delay lines in 2 lanes, streams of 8 tokens, 5 streams in the cache | `PlaysInOrder`, `QualityRecovers`; `ForgetsThePast`; `ReplayIsFaithful`; `SafeTapsAgree`, `MaskIsSound`, `FirstVerdictStands` |
| `connections` | hot swaps with windows of 2 and 3; 2 kernels over 3 threads; queues of 1 and 2; graphs of 3 nodes and up to 3 edges; 8 schemas on 2 threads | `NoClick`, `SwapCompletes`; `StateRunsOnce`, `NoJump`, `GoneIsSilent`, `RequestIsSettled`; `QueueIsFreshest`; `OrderIsTopological`, `EndsMeetTheirRings`; `EndsAgreeOnBytes` |
| `kernel_delays` (v) | the kernels of `playout` alone | `EvaluatorsAgree` fails, see section 7 |

The four refinements are the strongest statements here: the abstract module has no
lanes, no slots and no interleaving, and TLC checks that every step of the detailed
one is a step or a stutter of it, at the access where the frame changes hands
(the store of `write_index` or the `compareExchange` of `read_index` for the SPSC
ring, the fetch-add for fan-in, the `Complete` stamp and the cursor store for
fan-out, the stamps of the work queue).

`MigratePlan` is a function without state: TLC evaluates `EveryFieldIsPlanned` and
`DropsAreSilent` over small layouts and renames as the assumption `MigrationAssumption` of
`MCTopologies`, at the start of `connections`.

Beside the listed runs, by hand (`tlc -config X.cfg M`), with a listed configuration whose
properties are replaced, and a line or two besides:

| Configuration | Check | Outcome |
|---|---|---|
| `SpscRing` | `TypeOK`, `SampleInRange`, `EvictionSettles`, `NoLostWake`, `Conservation` | hold |
| `SpscRing` with `Capacity = 4` | `ImplementsLossyFifo` | holds |
| `SpscRing` with `Options <- Blocking` | `NeverBothAsleep` | holds |
| `MpmcRing` | `TypeOK`, `DeliversWholeFrame`, `NoWedge`, `SlotIsMine` | hold |
| `MpmcRing` with `ProducerCount = 1`, `Mortal = {}` | `LossIsCounted`: more producers than declared, losses are counted all the same | holds |
| `SpmcRing` | `TypeOK`, `NeverTorn` | hold |
| `SpmcRing` with `SPECIFICATION Spec`, `Consumers = {c1}`, `PlainInOrder = FALSE`, `MaxFrames = 5` | `NeverTorn` | section 7 |
| `MpmcRing` with `SPECIFICATION Spec`, `Producers = {p1, p2, p3}`, `ProducerCount = 1`, `Mortal = {}`, `MaxFrames = 2` | `NoWedge` | section 7 |
| `WorkQueueSafety` | `TypeOK`, `FrontierIsDelivered`, `ClaimsAccounted`, `FewStrands`, `NeverOrphaned` | hold |
| `WorkQueueSafety` with `ProducerCount = 1` | `ClaimsAccounted` | holds |
| `GpuReadback` | `TypeOK`, `KeepsOneFree`, `DestroyedIsUntouched`, `PublishesInOrder`, `EveryReadbackIsAccounted` | hold |
| `Clock` | `LanesTypeOK`, `OffsetRoundTrips`, `RecoveryTypeOK`, `PullsTypeOK` | hold |
| `Playout` | `TypeOK`, `RateIsCurrent`, `BlocksTypeOK`, `QualityTypeOK`, `TimeIsAccounted` | hold |
| `KernelDelays` | `KernelTypeOK`, `CanonicalFormIsKernel` | hold |
| `Connections` | `FadesTypeOK` (with it `SwapTypeOK`, `JitTypeOK`, `HeardIsReconstructed`), `ChannelTypeOK`, `FrameAccounted`, `ClosedIsQuiet`, `GraphTypeOK`, `BudgetIsKept` | hold |
| `Connections` with `SPECIFICATION ChannelLiveSpec` | `NewestArrives` | holds |
| `SpscRing` | `WokenPushFindsRoom` | section 7 |
| `SpscRing` with `SPECIFICATION Spec`, `MaxFrames = 6` | `PullNeverExhausted` | section 7 |
| `SpscRing` with `SPECIFICATION Spec`, `Options <- DrainMayThrow`, `MaxFrames = 5`, `CHECK_DEADLOCK FALSE` | `NeverBothAsleep` | section 7 |
| `WorkQueueSafety` with `Consumers = {c1}`, `MaxFrames = 3` | `WithinRingOfFrontier` | section 7 |
| `Clock` | `OffsetWasPublished` | section 7 |
| `Clock` with `Drifts <- BeyondRange` | `DriftIsClamped` | section 7 |
| `GpuReadback` | `ReplacesOnlyStale` | section 7 |
| `GpuReadback` with `SPECIFICATION Spec`, `Options <- Unseeded` | `FrameIsNewest` | section 7 |
| `Playout` | `SweepNeverRunsAhead` | section 7 |
| `KernelDelays` | `AnswersAreFresh` | section 7 |
| `Connections` with `Rearms = TRUE` | `NoClick` | section 7 |
| `Connections` | `EndsAgreeOnMeaning` | section 7 |
| `BridgeCache` | `ObservesEachStampOnce` | section 7 |
| `Connections` | `LatencyIsLongest`, `BackendIsPassedOn` | section 7 |

## 5. Bounds

| Bound | Value | Why it is enough |
|---|---|---|
| `Capacity` | 2 | the smallest ring with both a partly and a completely full state and two distinct slots; with two producers `Slack` is 1, half of it |
| `Modulus` | 16 or 32 | larger than any distance a history can cover, as 2^32 is; the assumptions say so by name |
| `Seed` | 2 short of the wrap (`SpscRing`, `MpmcRing`, `SpmcRing`), 1 short of 2^31 (`work_queue_signed_ticket`) | the wrap falls in the middle of the history |
| `MaxFrames` | 4 (SPSC, fan-out), 3 each (fan-in), 2 each (work queue), 3 (`BridgePulls`) | two laps of the ring, or a lap and a half: reuse of a slot by a later frame, eviction during a read, and retries after eviction all occur |
| producers, consumers | 2 | the races the code guards against are between two peers (two past the same check, one storing what another has moved on); with three, `SLACK` would be 2 and the ring 4 |
| `SlotCount`, `MaxSchedules` | 2, 4 | each slot is used twice, so a job could find its slot reused |
| `Windows`, `MaxGap` | {2, 3}, 2 | a quantum may skip a whole window; two fades of different length can follow each other through `reset` |
| `Kernels`, `Window`, `Laps`, `MaxPosted` | 2, 2, 3, 2 | a kernel displaces another that still fades in, the clock of recurrences wraps, and a message waits behind another; the theorems have no bound |
| `Kp`, `Ki`, `IntLimit`, `Warmup`, `StreakLimit` | 4, 10, 20, 2, 2 | the gate opens and closes, a streak re-anchors, and the integrator saturates; offsets 0 and 24 are more than the gate apart, a spike of 12 is between them |
| `BlockSize`, `Counts`, `MaxEmitted`, `MarkCapacity` | 3, {1, 2, 4}, 12, 3 | a call within a block, one across two, one that empties the ring; the circular history wraps |
| `IntLimit`, gains of `FlowController` | 2 for 20 | the integrator saturates and recovers within the run; the theorems have no bound |
| `MaxEvents`, `MaxSample`, `Times`, `Rates` | 3, 4, {0, 2, 3}, {1, 3} | two events due at one sample, one before the epoch, two between samples; the rate changes within a sweep |
| `MaxPushes` | 4 each way | both queues overflow with messages under way; the theorems have no bound |
| lines of `MCKernelSet`, `Quanta`, `Lanes` | 2 and 1 samples, {1, 2}, {0, 1} | a line that wraps within a call and one that always does; the second line taps the first at full length after and before its write, and shorter; the theorems have no bound |
| `MaxTokens`, `MCAlphabet` | 8, 22 tokens on 3 names | a complete kernel with a register or a line, names that clash across parameters, registers and lines, stores before and after one another; `MaskIsSound` is asked of all `Tokens` in each state, and the theorem has none |
| `Streams`, `Options`, `MaxRuns` | 5, 3, 2 | two signatures of one body, which the gates tell apart under one option; a body that passes under one option only, one that never does, a malformed stream; an option that all but the unsupported kernel throw under, so that a run that throws comes before one that does not; the theorem has no bound on the calls, and is proved for every `MaxRuns` |
| nodes, `MaxEdges` | 3, 3 | all shapes of three nodes, cycles and parallel arcs among them; a path of two edges beside one of one |
| `MCShapes`, `MCPatches` | 4, at most 2 fields | a field kept, added, removed, renamed, reshaped, two swapped, and a name reused; the theorems have no bound |
| schemas, `Threads` | 8, 2 | for every layout check there is a pair of schemas that differ in just what it does not look at |

`CHECK_DEADLOCK FALSE` stands where the modelled program stops: in the GPU
configurations (a destroyed source), and in `Clock`, `Playout`, `KernelDelays` and
`Connections` (bounds used up, everything mounted, both peers closed).
In the other models somebody can always take a step, if only to poll.

## 6. Fairness

- A thread inside a call keeps running (`WF` on `ProducerStep`, `InPush`): threads of
  the platform are scheduled. Nobody is assumed to make another call. In `SpscRing`
  this is what `SleepersWake` is worth: a sleeper is woken by the peer that has moved
  its lane, and not by luck of a later call.
- A consumer polls (`WF` on `Pull`) in the fan-in, fan-out and work queue models: an
  AudioWorklet's `process()` is called every quantum, and a work-queue consumer loops.
- The event loop runs queued jobs and the GPU settles promises (`Settle`, `Job`).
  `Poll` and `Flush` are the application's and get no fairness.
- The consumer goes on observing (`WF` on `Measure`), whatever it measures.
- The audio thread renders on a clock that moves and b's producer delivers time and
  again (`WF` on `PullLatest(1, TRUE)`); it runs kernels and handles its messages
  between quanta (`WF` on `Render(1)`, `WorkletMessage`); the compile worker works its
  inbox off and its compilations end, well or not (`WorkerStep`, `Answered`).
- For `NewestArrives` alone: a channel's messages are delivered and each peer pulls
  (`OnChannelMessage`, `Pull`).

No strong fairness is used, and no fairness on terminations, timeouts, closes or resets.

## 7. Where the code and its comments part

`work_queue_signed_ticket`, `bridge_cache` and `kernel_delays` are listed runs and
findings; each of the others names the property, and section 4 the configuration.

- **Signed tickets** (`MpmcWorkQueue.ts:683`, `:750`). `claimTicket` returns
  `Atomics.add` on an Int32Array, negative from ticket 2^31 on; `pull` takes every
  negative result for "empty". The ticket is consumed and its frame has no owner,
  where `:205` says a published frame is never orphaned and the lanes are documented to
  wrap. Run `work_queue_signed_ticket`.
- **Cached evaluation** (`Bridge.ts:1845` against `:764`). A predicted pull makes the
  cache valid without the base and the rate that `evaluateAtSampleOffset` takes from it.
  Run `bridge_cache`.
- **Cascaded delay lines** (`emitKernelWat.ts:238` and `:478`, `emitJsKernel.ts:245`, against
  `ir.ts:83`). The emitted loops write line after line; a value that taps an earlier
  line at its full length then reads the slot just written, where `evalReference` reads
  the sample it overwrote, and the simultaneity said to fall out for free does not. The
  reference sets `ir.ts` right, and so the acoustic gate would see a difference if its
  corpus had such a kernel. `tests/delayKernel.test.ts` has kernels of one line. Run
  `kernel_delays`; `SafeTapsAgree` is what does hold.
- **Cached verdicts** (`kernelCache.ts:192` against `:42`). A hash is said never to be both
  rejected and accepted, "the gates are deterministic". They also look at the signature and
  the options of the call, and a body rejected under one tolerance stays rejected under a
  wider one. `AnswersAreFresh`; `FirstVerdictStands` is what does hold.
- **Throwing gates** (`gate.ts:225`, `:343` and `:457` against `kernelCache.ts:15` and `:22`).
  The gate looks for an export named `kernel`, so under any other `exportName` it calls
  `undefined` and a `TypeError` leaves `getOrCompile`, where "Rejection is a VALUE". No memo
  is made, and the gates run with each further call of the kind, where they are said to run
  once per distinct computation. `acousticGate.ts:470` throws as well, against `:117`.
  `GatesThrow`; in the connection of `connectJit.ts` the compile worker answers such a
  request as one that was refused.
- **Unknown latencies** (`connectGraph.ts:562` against `:262`). A latency that is not a
  number does not poison the maximum: comparisons with it are false, and a later finite
  one replaces it. `LatencyIsLongest`.
- **Exhausted pulls** (`SpscRing.ts:1594`). The comment argues that the producer
  cannot keep advancing `read_index` during a pull. Under drop-oldest it can:
  `Capacity + 1` evictions inside one pull make it report an empty ring.
  `PullNeverExhausted`.
- **Woken pushes** (`:1021`, and the policy's description at `:391`). A blocked push
  whose wait did not time out is said to find room. A notify of an earlier pull may
  wake it into a ring that is full; it then fails, which is safe. `WokenPushFindsRoom`.
- **A throwing drain** (`:1824` against `:1398`). `drainNoNotify` throws on an undefined
  `out[count]` after consuming frames and without the notify its other exits make; a
  producer asleep on `read_index` stays asleep, and in the end both are.
  `NeverBothAsleep` with `DrainMayThrow`.
- **Torn offsets** (`:2127` against `:2092`). Status-last, status-first orders one
  publish against one read; a read that a second publish overtakes joins halves of two
  offsets. `OffsetWasPublished`.
- **Drift clamp** (`:2132` against `:2129`). `| 0` wraps before the clamp can act.
  `DriftIsClamped`.
- **Wedge under overload** (`MpmcRing.ts:465` against
  `docs/mpmc-happens-before-proof.md:305`). With more producers than declared, a stamp
  of an older lap stored late leaves a head that is never ready while every push is
  refused. `NoWedge`, with three producers.
- **Reordered seqlock** (`SpmcRing.ts:550` against `:598` and
  `docs/spmc-happens-before-proof.md:160`). On a weakly ordered machine the payload
  stores may pass the busy stamp, and the re-read the payload loads: a torn frame passes
  the guard. `NeverTorn`, without `PlainInOrder`.
- **Frontier** (`MpmcWorkQueue.ts:639` against `:145`). The unguarded store may set the
  frontier back, so `enqueueTicket` may exceed it by more than `CAPACITY`; slots stay
  exclusive all the same. `WithinRingOfFrontier`.
- **Retained image** (`BridgeGPUSource.ts:1438` against `:574`). Without
  `initialFrameBytes`, a whole readback is not retained; the first partial one is
  completed with zeros. `FrameIsNewest` with `Unseeded`.
- **Coalesced regions** (`BridgeGPUSource.ts:1091` against
  `docs/gpu-readback-measurement.md:47` and `:207` of the source). Latest-only replaces a
  scheduled readback whatever region it was for; the other field's change is lost.
  `ReplacesOnlyStale`.
- **Re-arming** (`HotSwapConsumer.ts:184` against `:27` and `:36`). `armSwap` after
  `complete` starts from weight 0 while b, weight 1, is what is heard. `NoClick`.
- **Repeated stamps** (`Bridge.ts:1473`). Observing is gated on a fresh pull so that no
  stamp is observed twice; the frame that replaces a torn one is fresh by that test and
  repeats its stamp. `ObservesEachStampOnce`.
- **A sweep's cursor** (`TimelineRecorder.ts:659`). "Times are nondecreasing so this
  never moves backward": the callback may raise the sample rate, consumer time then goes
  back, and the cursor stays ahead. `SweepNeverRunsAhead`.
- **Backends of edges** (`connectGraph.ts:131` against `:673`). The `backend` of a
  work-queue edge is documented, checked to be given for such edges only, and then handed
  to the fan-in constructor instead of `connectWorkQueue`. `BackendIsPassedOn`.
- **Reused names** (`migratePlan.ts:182` against `:83`). A dropped field is one "with no
  compatible b target". If x is renamed to y and the new patch has another x, the old x
  is matched twice: it is blended into y and, by the shape of the new x, dropped as well or
  blended again. `DropsAreSilent` in `MigrationAssumption`, without `NamesMove`.
- **Layout checks** (`connect.ts:646`). `mount` is said to compare the full layout
  description; `circular` is not compared, and peers whose schemas differ in it only
  both mount. `EndsAgreeOnMeaning`.

Met while reading, outside what is modelled: constants -0 and 0 share a cache key; once a masked stream has its bound and no
output parameter, no continuation completes it; `readRoleNs` takes a stamp as nanoseconds
whatever its role's unit, where `TimelineRecorder.ts:289` says it does as `Bridge` does; a
`capacity` that a fan constructor refuses is found only after the edges before it have
been allocated, where `connectGraph.ts:626` wants bad specs found before; and a
Standard-mode `mount` whose input lane is refused leaves the macro lane's
`MessageChannelBridge` listening on a port nobody will pull from.

Where a passing run could not hold with one of these in it, a constant or an option
keeps it out, by name: `holeyBuffers` (only in a ring that never makes its producer
wait, in `spsc_ring`), `PlainInOrder`, `seeded`, `Rearms`. `FrameIsNewest` and
`PublishesInOrder` name the pacing they need: without it two readbacks are in flight,
their promises may settle in either order, and the older one is drained last.

## 8. Proofs

Checked by `tlapm`, for every value of the constants that the named assumptions allow.
A theorem that needs more than those says so under "Hypotheses". None of the
properties is inductive; below each table is the invariant that is, and why it is
needed. `PROJECT.json` lists the theorems, with the property of a run where there is one.

### The rings

All four rely on `LaneTheorems`: a lane is the wrap of a counter that has moved n times
from its seed (`LaneAt`), and as long as the counters compared are less than half a wrap
apart, modular arithmetic is plain counting (`LaneAtDiff`, `LaneAtInjective`) and slots
clash exactly at whole laps (`LapKeepsSlot`, `SlotsDiffer`). The assumption on the length
of a history is used only there.

**`SpscRingProofs`**, for every capacity, policy, notify mode, seed and history:

| Theorem | Statement |
|---|---|
| `TypeCorrect` | `Spec => []TypeOK` |
| `NoOverwrite` | `Spec => []WritesOnlyFreeSlots` |
| `NoTornFrame` | `Spec => []PullsWholeFrame` |
| `FlowSampleInRing` | `Spec => []SampleInRange` |
| `EvictionNeedsOneTry` | `Spec => []EvictionSettles` |
| `RefinesLossyFifo` | `Spec => ImplementsLossyFifo` |
| `WakesArePromised` | `Spec => []NoLostWake` |
| `NoCrossedWaits` | `Spec => [](NeverBothAsleep \/ HoleyBuffers)` |
| `CountersBalance` | `Spec => []Conservation` |

1. `LanesFollowHistory`: the lanes are the wrapped images of the history's counters, at
   most `Capacity` apart.
2. `ProducerHasRoom`: a producer about to evict has the index of a full ring in hand,
   and one past its overflow branch knows of a free slot, which the consumer can only
   make roomier.
3. `SlotsHoldHistory`: the slots of unread frames hold them, whole. A producer writes
   the slot of `write_index`, which by 2 is no unread frame's.
4. `SnapshotIsOld`, `SnapshotIsGood`, `ReadIsWhole`: a consumer's snapshot of
   `read_index` is some earlier value of it, and whatever was read under it is right
   WHILE the lane still holds the snapshot. An eviction moves the lane and so makes the
   claim vacuous; it never becomes true again, `read_index` being injective over the
   history. That is the argument for the `compareExchange` at the end of an
   overrun-aware pull, and why the plain pull, without another writer of the lane,
   does with a store.

5. `WakeInv`: who sleeps is parked at its wait and has announced itself
   (`SleepersAnnounced`), and a waiter compared a lane it had seen at a full, or an empty,
   ring (`WaitersHadReason`). So a lane that has moved since was moved by a peer that looks
   at the flag afterwards and stands at its notify now. Both asleep would be both lanes
   unmoved, a ring full and empty at once; only a drain that throws before its notify can
   leave them so, hence the disjunct.
6. `Ledger`: freed is what was got, skipped and evicted, and sent is what is counted as
   pushed or is about to be.

The refinement reads the queue off the history (sent and not yet freed) and has one
lemma for each access that moves a frame: the publish, the eviction, the commit.

**`MpmcRingProofs`**, for every set of producers, mortal ones among them. Hypothesis of
all but the last: `ProducersAreCounted`, no more threads push than `producerCount`
declares; section 7 shows what happens otherwise.

| Theorem | Statement |
|---|---|
| `TypeCorrect` | `Spec => []TypeOK` |
| `SlackSuffices` | `Spec => []EnvelopeHolds` |
| `WritersAreAlone` | `Spec => []SlotIsMine` |
| `PullsAreWhole` | `Spec => []DeliversWholeFrame` |
| `RingNeverWedges` | `Spec => []NoWedge` |
| `RefinesFanInFifo` | `Spec => ImplementsFanInFifo` |
| `OverloadIsCounted` | `Spec => []LossIsCounted`, for any number of producers |

The envelope is a counting argument. A producer that has passed the check saw a count
below the line, and its load is newer than its own claims (`LoadsFollowClaims`); so of
all frames past the line no producer has two (`PastTheLineOnce`), a producer about to
claim has none, and one that maps each frame past the line to its producer finds at most
`producerCount - 1` of them: `SLACK`, and room for one more. On that rest slot ownership
(`TicketsHeld`), what a stamp says of its slot (`StampsFollowHistory`), and that each gap
has a producer that will close it or is dead (`GapsAreOwned`).

Without the hypothesis slots are shared and the overload net fires. `LossInv` keeps what is
left: tickets are counted, every stamp is a claimed ticket's, wherever it landed, and the
consumer stands at what it was handed and has counted as lost (`PassedIsCounted`). A stamp
at or past the head therefore means that the head is claimed, and no pull overtakes the
producers.

**`SpmcRingProofs`**, for every set of consumers:

| Theorem | Hypotheses | Statement |
|---|---|---|
| `TypeCorrect` | | `Spec => []TypeOK` |
| `EveryLossIsCounted` | | `Spec => []LossIsCounted` |
| `FramesAreWhole` | `PlainInOrder` | `Spec => []NeverTorn` |
| `RefinesBroadcastLog` | `PlainInOrder` | `Spec => ImplementsBroadcastLog` |

What is counted holds in every build: a slot keeps a frame's stamp until the producer is
a lap on (`StampsFollowHistory`), and whatever a pull jumps over was lapped
(`CursorsFollowHistory`). What is delivered needs program order: `ReadsFollowHistory` says
of a read under way that it is right while the slot's stamp stands still, and a stamp that
has moved never comes back.

**`MpmcWorkQueueProofs`**. Hypothesis of all: `ProducersAreCounted`.

| Theorem | Further hypotheses | Statement |
|---|---|---|
| `TypeCorrect` | | `Spec => []TypeOK` |
| `SlotsStayExclusive` | | `Spec => []SlotsAreExclusive` |
| `FrontierStaysBehind` | | `Spec => []FrontierIsDelivered` |
| `RefinesWorkPool` | | `Spec => ImplementsWorkPool` |
| `DrainedIsDelivered` | `TicketsStayPositive`, `Consumers # {}` | `Spec => []DrainedMeansDelivered` |
| `NothingIsOrphaned` | `TicketsStayPositive` | `Spec => []NeverOrphaned` |
| `StrandsAreFew` | `Consumers # {}` | `Spec => []FewStrands` |

Lanes are counted from the seed (`Count`). A ticket is done when its frame was handed
out, and the frontier, wherever the unguarded store leaves it, stands among tickets that
are all done (`TicketsFollowHistory`): setting it back costs room and no safety. From
there the envelope is counted as for fan-in (`LoadsFollowClaims`, `PastTheLineOnce`), a
slot carries the stamp of a ticket that is still to come at most and of a done ticket's
next lap at least (`StampsFollowHistory`), and a held claim is its holder's alone
(`ConsumersHold`). Consumers that race past the end do so by no more than their number
(`ClaimsAreFew`). For the end of the stream: the enqueue ticket found after `close()` is
final, and a dequeued ticket's frame is handed out or the claim is still held
(`ClosedIsFinal`, `ClaimsAreHeld`); that is false once tickets reach 2^31, which
`TicketsStayPositive` keeps out and `work_queue_signed_ticket` shows. The same invariant
is all `NothingIsOrphaned` needs.

Strands need a sharper count than `ClaimsAreFew`, which allows as many claims past the end
as there are consumers, where the comment promises fewer. A consumer that claims past the
end is one of those that saw a ticket of the stream, and it does not race on after its
claim; so claims past any n and consumers still racing for a ticket before n are together
fewer than all (`RacersAreFew`). A strand is counted after `close()` only, and with the
tickets still held past the end it is no more than what was claimed there, every holder
having a ticket of its own (`StrandsAreRaced`).

### The bridge: `BridgeProofs`

| Theorem | Hypotheses | Statement |
|---|---|---|
| `TypeCorrect` | | `Spec => []TypeOK`, of `GpuReadback` |
| `SlotsAreOwned` | | `Spec => []JobsOwnTheirSlots` |
| `ReadbacksAreAccounted` | | `Spec => []EveryReadbackIsAccounted` |
| `OneSlotStaysFree` | | `Spec => []KeepsOneFree` |
| `DestroyedStaysUntouched` | | `Spec => []DestroyedIsUntouched` |
| `FramesAreNewest` | `SlotCount = 2`, adaptive sources are `seeded` | `Spec => []FrameIsNewest` |
| `FramesComeInOrder` | `SlotCount = 2` | `Spec => []PublishesInOrder` |
| `LanesTypeCorrect`, `GateStaysFresh` | | `LanesSpec => []LanesTypeOK`, `[]GateIsFresh` |
| `OffsetsRoundTrip` | | `LanesSpec => []OffsetRoundTrips` |
| `LoopTypeCorrect`, `LoopStaysNear` | | `RecoverySpec => []RecoveryTypeOK`, `[]StaysNearTheClock` |
| `PullsTypeCorrect`, `SmootherStaysClean` | | `PullsSpec => []PullsTypeOK`, `[]SmootherIsClean` |
| `StampsNeverGoBack` | | `PullsSpec => StampsAdvance` |
| `ReplaysAreFaithful` | | `TimelineSpec => []ReplayIsFaithful` |

- *Readbacks.* `SourceInv` joins slot and promise by the state they are in (`Sound`,
  `Owned`) to the books (`Spent`: every serial was pushed, dropped, coalesced or sits in a
  slot). `Poll` is a fold: it is shown to be a run of drains, counting the slots up, so
  that an invariant of one drain is one of `Poll`. In microtask mode no slot is ready while the
  source lives (`Owned`), so only jobs drain, and they look at `destroyed` first. With two
  slots of which adaptive pacing keeps one free, at most one readback is out at a time and every frame published is older
  than it (`PacedInv`). With more slots two readbacks may be out and settle in either
  order; neither theorem claims anything there.
- *Lanes.* Whatever a reader has loaded, the lanes it has still to load are no older than
  the status it loaded first (`LanesAreNewer`), since publishes store the status last and
  one at a time (`StoredSoFar`). The split of an offset and its join undo each other by the
  division theorem, the low half being read unsigned (`JoinsBack`).
- *Loop.* `StaysNearTheClock` is inductive with the types; the work is in the arithmetic
  of one correction (`CorrectedDown`, `CorrectedUp`) and of the integrator's clamp.
- *Pulls.* The ring is ordered and what the buffers hold is of frames returned (`Ordered`,
  `Clean`); the last stamp observed is below all in the ring (`Advancing`).
- *Replay.* Events are in order of their times; the cursor of a sweep stands at the last
  event due, whatever the callback did (`CursorIsDue`). The cursor's loop and the lookup's
  bisection are recursive functions: both are shown to exist and to end at the last due
  place, the bisection by the range that is left.

### Playing out: `PlayoutProofs`

| Theorem | Statement |
|---|---|
| `FlowTypeCorrect`, `FlowForgets` | `Spec => []TypeOK` and `[]ForgetsThePast`, of `FlowController` |
| `PlaybackTypeCorrect` | `PlaybackSpec => [](BlocksTypeOK /\ QualityTypeOK)` |
| `SamplesAreAccounted`, `RatesAreCurrent` | `PlaybackSpec => []TimeIsAccounted`, `[]RateIsCurrent` |
| `QualityComesBack` | `PlaybackSpec => []QualityRecovers` |
| `BlocksPlayInOrder` | `PlaybackSpec => PlaysInOrder` |
| `LoopIsReference` | `KernelSpec => []SafeTapsAgree` |
| `MasksAgree` | `GrammarSpec => []MaskIsSound` |
| `VerdictsAreShared` | `CacheSpec => []FirstVerdictStands` |

- *Flow.* For any number of consumers and any integer samples. The invariant is a budget.
  After n underfull samples in a row an integral is at most the bound less n
  (`IntegralSpent`, a tick paying before its store), so at `Patience` samples nothing
  positive is left; and the lane is the work of the one consumer that wrote last
  (`RightForItsWriter`), so the hint is right if it is right for all of them.
- *Blocks and quality.* Samples played are those of the blocks taken, less what is left of
  the last (`PlayedSoFar`, `Accounted`). The circular history of marks has one for every
  stretch of the window, and each says what was missed when it was made (`MarksAreDense`,
  `MarksAreTrue`): a rate is then read off two marks that enclose the window. `RampRuns`
  is the budget of the recovery: the scale is up by a ramp for each tick since the last
  miss the window can still see.
- *Loop of a kernel.* For any kernels, line lengths, lanes and calls, and any `Combine`.
  The invariant says what the loop's state is in terms of the reference's: registers and
  cursors are its own, in the locals or in the slab by where the call is
  (`SameRegisters`, `SameCursors`); lines are its lines with the writes of this iteration
  so far (`SameLines`); pending registers and outputs are what it will commit
  (`SamePending`). The one hard step is a line's write: its value must be the same over the
  lines as they are and as they were. `BackMisses` is the arithmetic (a tap misses the
  cursor's slot unless it is as long as the line), `SeenAlike` carries it to expressions
  under `SafeTaps`, and `WriteIsBlind` and `OneWrite` to the next `SameLines`.
- *Grammar.* For any alphabet and streams of any length. The strengthening is `ParamsOK`:
  declared parameters have well-formed names and known roles, without which a name read
  off a declaration would not be one the validator takes.
- *Cache.* A memo knows a body exactly when the last run of the gates with it came to a
  verdict, and then holds that call; the runs before it threw (`MemosRecordTheRuns`). A run
  happens only while no memo knows the body, so whatever ran last must have thrown. The
  syntax memo holds no stream that the grammar takes (`SyntaxMemoIsMalformed`), and the last
  answer is the outcome of the last run (`AnswerIsLastRun`).

### What joins the threads: `ConnectionsProofs`

| Theorem | Hypotheses | Statement |
|---|---|---|
| `GenerationsKept` | | `JitSpec => []JitInv`, types and the next two |
| `RecurrencesRunOnce`, `SwapsAreArmed` | | `JitSpec => []StateRunsOnce`, `[]SwapIsArmed` |
| `GainsNeverJump` | | `JitSpec => NoJump` |
| `DroppedStaysSilent` | | `ConnectionSpec => []GoneIsSilent` |
| `FreshestAlways` | | `ChannelSpec => []QueueIsFreshest` |
| `FramesAreAccounted`, `ClosedStaysQuiet`, `ChannelTypeCorrect` | | `ChannelSpec => []FrameAccounted`, `ClosedIsQuiet`, `[]ChannelTypeOK` |
| `FadesAreTyped`, `FadesNeverClick` | `Rearms = FALSE` | `SwapSpec => []SwapTypeOK`, `SwapSpec => NoClick` |
| `BlendsAreFresh` | | `SwapSpec => []HeardIsReconstructed` |
| `PlanIsComplete` | | `EveryFieldIsPlanned`, if the rename is accepted |
| `DropsAreExact` | `NamesMove` | `DropsAreSilent` as well |
| `EndsAgree` | | `ConnectSpec => []EndsAgreeOnBytes` |
| `EndsMeet` | | `GraphSpec => []EndsMeetTheirRings` |
| `OrderIsRight`, `GraphTypeCorrect` | | `GraphSpec => []OrderIsTopological`, `[]GraphTypeOK` |

- *Generations.* Which slab a kernel runs in depends on the phase, and the phase on there
  being an incoming kernel, so types, `SwapIsArmed` and `StateRunsOnce` only hold together.
  The clock of recurrences is counted modulo `Laps`; `SinceStep` and `RunStep` advance both
  residues by one quantum.
- *Gains and weights.* The gain heard last is the one the window had at the last quantum
  (`GainsFollow`, `WeightFollows`), and time passes by at most `MaxGap` between two
  quanta. `Rearms` keeps a caller from arming over a completed swap, which section 7
  shows to click; what is blended is fresh in either case, b having all the frames it needs
  whenever it fades or is alone (`HeardInv`).
- *Silence.* A kernel is in one place at a time on its way from the request through the
  worker, its answer and a port into the loop (`PlacesApart`, and `HeldOnce` within a place),
  so one that is gone is not about to come.
- *Queues.* All frames of a direction stand in one line of consecutive numbers: last
  pulled, then the queue, then the messages under way, up to the last pushed. The books of
  an open peer balance at every step, and a closed one has nothing queued or under way
  (`BooksInv`): a message to it goes nowhere and a pull finds nothing.
- *Plans.* For any two layouts and rename. The two matches a field can be in come from a
  rename and from its own name; `NamesMove` is just what excludes that it is in both.
- *Bytes.* For any schemas that `defineSchema` accepts (`IsSchema`). Sums of widths over
  sets of fields are shown to exist and to grow by what is added (`CountExists`,
  `BytesGrow`), and to be multiples of any width that divides all of theirs
  (`BytesDivide`): fields sorted by falling width are then aligned and lie apart
  (`FieldsLieApart`, `LayoutIsSound`). Peers that both mounted compared the same
  description (`EndsMatch`).
- *Ends.* Handles are those of the edges allocated so far and what is mounted are ends of
  the graph (`GraphInv`). An end is a node's by exactly one edge and side, so a ring has
  the ends it was sized for (`RingHolds`), and capacities are powers of two (`NextPow2Is`).
- *Order.* A node's in-degree is the number of arcs from nodes not yet sorted
  (`LeftAbove`), what has none left is ready, and nothing is sorted before what is above
  it (`OrderInv`, `AboveIsBefore`). If the sort ends early, every node left has another
  one left above it; a walk upward must come back to a node it has met, which is the cycle
  that is reported (`ResidueIsCyclic`).

### Only model-checked

- Wake-ups and liveness: `SleepersWake`, `ClaimedIsDelivered`, `CatchesUp`,
  `DrainsAfterClose`, `SlotRecycles`, `FollowsTheClock`, `SwapCompletes`,
  `RequestIsSettled` (liveness under fairness, and `ENABLED`, are not for this prover).
- Of what section 4 checks by hand: a sum of the work queue's counters over its consumers
  (`ClaimsAccounted`), the budget of `Connect` (`BudgetIsKept`), what the parser of kernels
  makes of a kernel's own tokens (`CanonicalFormIsKernel`, a run of a recursive function)
  and the types of a kernel's loop (`KernelTypeOK`).

Every safety property of a passing run, state or action, is stated by a theorem.

Induction over data is out of the prover's reach as a rule to cite; where a recursive
function or a fold stands in a modelled operation, the proof takes the least number at
which the claim would fail (`CountUp`, `LeastOf`) instead.


## 9. What is not modelled, and the plan

Left out of the modelled components: `waitForSpaceAsync` and `waitForDataAsync` (the
same protocol over `Atomics.waitAsync`), invariant classification of ring frames (in
`BridgePulls` a frame is sound, soft or torn from the start), the `flow_scale` lane inside
the ring modules (it steers no access there and has a module of its own), the WASM claim
of `WasmMpmcWorkQueue` (the same fetch-add), latency percentiles and `device.lost`
classification of the GPU source, the blends and curves themselves (which frames they
take bytes from is modelled, not what they compute), kernels' arithmetic (a gate's verdict
is a choice), and of schemas all but layout.

Out of reach: floating-point filters and curves (values, not states), code emitters and
the lowering of kernels (text in, text out), feature detection and measurement. Benchmarks,
examples and tests are two thirds of the repository's lines and are no part of the
library.

Next, most important first:

1. A composition of `GpuReadback` with `LossyFifo` in place of the free choice of a
   bridge that is full or not, and of `BridgePulls` with the abstract ring.
2. Larger instances of the rings: three producers with `SLACK` 2.

Next theorems: `ClaimsAccounted` (a sum over the consumers, one term of which moves at a
time) and `BudgetIsKept`.


Running: `tlc -workers 2 -config SpscRing.cfg MCSpscRing`, and likewise for the others
(module and configuration of each run are in `PROJECT.json`); `tlapm SpscRingProofs.tla`, and likewise for
the other `*Proofs` modules.
The longest listed run, `connections`, takes three to four minutes on two cores.
