------------------------------ MODULE GpuReadback ------------------------------
(***************************************************************************)
(* BridgeGPUSource.ts: a ring of staging buffers between a GPU and the      *)
(* bridge.  Everything runs on one thread, so a step is a call of the       *)
(* application, the job of a settled mapAsync promise, or the GPU settling  *)
(* one.  A readback copies a region, a set of fields, of the source buffer; *)
(* its number, the schedule serial, stands for the bytes it copied.  The    *)
(* counters and latencies that only dashboards read are left out.           *)
(***************************************************************************)
EXTENDS Integers, FiniteSets, Sequences, SequencesExt

CONSTANTS
    SlotCount,          \* opts.stagingBufferCount
    Fields,             \* the schema's fields
    Regions,            \* the regions the application reads back
    Options,            \* the sources considered, one record of options each
    MaxSchedules        \* bound: readbacks of one history

ASSUME GpuReadbackAssumption ==
    /\ SlotCount \in Nat \ {0, 1}
    /\ IsFiniteSet(Fields) /\ Fields # {}
    /\ Regions \subseteq (SUBSET Fields) \ {{}}
    /\ Options \subseteq
           [backpressure : {"reject", "latest-only"},
            pacing : {"manual", "adaptive"},
            autoDrain : BOOLEAN,        \* autoPollCompleted = "microtask"
            raw : BOOLEAN,              \* the "raw" decoder, which cannot throw
            seeded : BOOLEAN]           \* initialFrameBytes is given
    /\ MaxSchedules \in Nat

VARIABLES
    opts,               \* of this source
    slots,              \* the StagingSlots
    promise,            \* each slot's mapAsync promise and its job
    image,              \* _partialFrameBytes, or NoImage
    scheduleSerial, dropped, coalesced,
    destroyed,
    \* history
    published,          \* the frames pushed into the bridge, in order
    newest,             \* newest readback of each field whose bytes were read
    touched             \* a destroyed staging buffer was read

host == <<slots, promise, scheduleSerial, coalesced>>
outcome == <<image, dropped, destroyed, published, newest, touched>>
vars == <<opts, host, outcome>>

BackpressureMode == opts.backpressure
PacingMode == opts.pacing
AutoDrain == opts.autoDrain
RawMode == opts.raw
SeededImage == opts.seeded

SlotIds == 1 .. SlotCount
NoImage == [f \in {} |-> 0]
Zeros == [f \in Fields |-> 0]

\* A slot as the constructor makes it and every drain leaves it; readback is the
\* number of the readback it last held.
Recycled(slot) == [slot EXCEPT !.state = "idle", !.scheduledAt = 0, !.region = Fields,
                               !.mapped = FALSE, !.failed = FALSE]

Init ==
    /\ opts \in Options
    /\ slots = [i \in SlotIds |->
                  [state |-> "idle", scheduledAt |-> 0, region |-> Fields,
                   mapped |-> FALSE, failed |-> FALSE, readback |-> 0]]
    /\ promise = [i \in SlotIds |-> "none"]
    /\ image = IF SeededImage THEN Zeros ELSE NoImage
    /\ scheduleSerial = 0 /\ dropped = 0 /\ coalesced = 0
    /\ destroyed = FALSE
    /\ published = <<>> /\ newest = Zeros /\ touched = FALSE

-------------------------------------------------------------------------------
(* scheduleReadback and flushPending *)

InState(s) == {i \in SlotIds : slots[i].state = s}
InFlight == SlotCount - Cardinality(InState("idle"))

\* recommendedReadbackAction() = "skip-readback"
Declines == PacingMode = "adaptive" /\ InFlight >= SlotCount - 1

\* The copy is encoded into slot i, over what a scheduled slot was to read.
Encode(i, region) ==
    /\ scheduleSerial' = scheduleSerial + 1
    /\ slots' = [slots EXCEPT ![i] =
                   [@ EXCEPT !.state = "scheduled", !.scheduledAt = scheduleSerial + 1,
                             !.region = region, !.readback = scheduleSerial + 1]]

\* The first idle slot, or else, in latest-only mode, the newest scheduled one.
\* A call that is declined or finds neither returns false and changes nothing.
Schedule(region) ==
    /\ ~destroyed
    /\ scheduleSerial < MaxSchedules
    /\ ~Declines
    /\ \/ \E i \in InState("idle") :
              /\ \A j \in InState("idle") : i <= j
              /\ Encode(i, region)
              /\ UNCHANGED coalesced
       \/ /\ InState("idle") = {}
          /\ BackpressureMode = "latest-only"
          /\ \E i \in InState("scheduled") :
                /\ \A j \in InState("scheduled") :
                       slots[j].scheduledAt <= slots[i].scheduledAt
                /\ Encode(i, region)
                /\ coalesced' = coalesced + 1
    /\ UNCHANGED <<opts, promise, outcome>>

\* flushPending, after queue.submit(): mapAsync on every scheduled slot.
Flush ==
    /\ ~destroyed
    /\ InState("scheduled") # {}
    /\ slots' = [i \in SlotIds |->
                   IF slots[i].state = "scheduled"
                   THEN [slots[i] EXCEPT !.state = "in-flight", !.scheduledAt = 0,
                                         !.mapped = FALSE]
                   ELSE slots[i]]
    /\ promise' = [i \in SlotIds |->
                     IF slots[i].state = "scheduled" THEN "pending" ELSE promise[i]]
    /\ UNCHANGED <<opts, scheduleSerial, coalesced, outcome>>

\* The GPU: mapAsync promises of different buffers settle in any order.
Settle(i) ==
    /\ promise[i] = "pending"
    /\ \E result \in {"fulfilled", "rejected"} : promise' = [promise EXCEPT ![i] = result]
    /\ UNCHANGED <<opts, slots, scheduleSerial, coalesced, outcome>>

-------------------------------------------------------------------------------
(* Draining: what _drainSlot does to one slot, and to what came before it. *)

\* What the rest of the world makes of one readback: the bridge takes the frame or
\* is full, the decoder throws, and onError may answer a throw with destroy().
Fates == {"taken", "full"} \cup (IF RawMode THEN {} ELSE {"throws", "throws, destroyed"})

Ready(slot) == slot.state = "in-flight" /\ slot.mapped

\* Mutant: bytes the bridge has no room for are not merged.
MergedUnlessFull(old, slot, fate) ==
    IF fate = "full" \/ (slot.region = Fields /\ old = NoImage) THEN old
    ELSE [f \in Fields |-> IF f \in slot.region THEN slot.readback
                           ELSE IF old = NoImage THEN 0 ELSE old[f]]

\* _readMappedFrameBytes: the retained image after a readback.  There is none
\* until the first partial readback, unless the constructor was given one.
Merged(old, slot, fate) ==
    IF slot.region = Fields /\ old = NoImage THEN old
    ELSE [f \in Fields |-> IF f \in slot.region THEN slot.readback
                           ELSE IF old = NoImage THEN 0 ELSE old[f]]

\* The frame that is pushed: the image, or the mapped range itself.
Frame(merged, slot) == IF merged = NoImage THEN [f \in Fields |-> slot.readback] ELSE merged

\* A whole frame that the bridge has no room for is not even looked at, unless
\* there is an image to keep up to date.
Looks(s, slot, fate) ==
    RawMode \/ fate # "full" \/ s.image # NoImage \/ slot.region # Fields

\* A run of _drainSlot over s, the state of the source so far in this call.
Drain(s, i, fate) ==
    LET slot == s.slots[i]
        merged == Merged(s.image, slot, fate)
        unread == [s EXCEPT !.slots[i] = Recycled(slot), !.dropped = s.dropped + 1]
        read == [s EXCEPT
                   !.slots[i] = Recycled(slot),
                   !.image = merged,
                   !.newest = [f \in Fields |->
                                 IF /\ Looks(s, slot, fate) /\ f \in slot.region
                                    /\ slot.readback > s.newest[f]
                                 THEN slot.readback ELSE s.newest[f]]]
    IN  IF ~Ready(slot) THEN s
        ELSE IF slot.failed THEN unread
        ELSE IF s.destroyed THEN [unread EXCEPT !.touched = TRUE]
        ELSE IF fate = "taken"
             THEN [read EXCEPT !.published = Append(@, [readback |-> slot.readback,
                                     frame |-> Frame(merged, slot),
                                     expected |-> read.newest])]
             ELSE [read EXCEPT !.dropped = s.dropped + 1,
                               !.destroyed = (fate = "throws, destroyed")]

\* The source's state as Drain takes it, and the step to the state it returns.
Now == [slots |-> slots, image |-> image, dropped |-> dropped, destroyed |-> destroyed,
        published |-> published, newest |-> newest, touched |-> touched]

\* destroy() rejects the promises that are still pending.
Become(s, promises) ==
    /\ slots' = s.slots /\ image' = s.image /\ dropped' = s.dropped
    /\ destroyed' = s.destroyed /\ published' = s.published /\ newest' = s.newest
    /\ touched' = s.touched
    /\ promise' = [i \in SlotIds |-> IF s.destroyed /\ promises[i] = "pending"
                                     THEN "rejected" ELSE promises[i]]
    /\ UNCHANGED <<opts, scheduleSerial, coalesced>>

ReadySlots == {i \in SlotIds : Ready(slots[i])}

\* pollCompleted: _drainSlot for every slot, in slot order.
Poll ==
    /\ ~destroyed
    /\ ReadySlots # {}
    /\ \E after \in {FoldLeft(LAMBDA s, i : Drain(s, i, fates[i]), Now, [i \in SlotIds |-> i]) :
                       fates \in [ReadySlots -> Fates]} :
           Become(after, promise)

-------------------------------------------------------------------------------
(* The jobs of the promises *)

Mapped(i) == [Now EXCEPT !.slots[i].mapped = TRUE]
Failed(i) == [Mapped(i) EXCEPT !.slots[i].failed = TRUE]
Done(i) == [promise EXCEPT ![i] = "none"]

\* Mutant: a rejected mapAsync is left to the next pollCompleted().
DrainFulfilled(s, i, fate) ==
    IF AutoDrain /\ ~s.destroyed /\ ~s.slots[i].failed THEN Drain(s, i, fate) ELSE s

\* _autoDrainSlot, in microtask mode.
AutoDrainSlot(s, i, fate) ==
    IF AutoDrain /\ ~s.destroyed THEN Drain(s, i, fate) ELSE s

OnFulfilled(i) ==
    /\ promise[i] = "fulfilled"
    /\ \E after \in {AutoDrainSlot(Mapped(i), i, fate) : fate \in Fates} :
           Become(after, Done(i))

\* onError may answer with destroy(), as its documentation recommends.
OnRejected(i) ==
    /\ promise[i] = "rejected"
    /\ \E after \in {AutoDrainSlot([Failed(i) EXCEPT !.destroyed = @ \/ answer], i, "taken") :
                       answer \in BOOLEAN} :
           Become(after, Done(i))

Destroy ==
    /\ ~destroyed
    /\ Become([Now EXCEPT !.destroyed = TRUE], promise)

-------------------------------------------------------------------------------
Job(i) == OnFulfilled(i) \/ OnRejected(i)

Next ==
    \/ \E region \in Regions : Schedule(region)
    \/ Flush
    \/ Poll
    \/ Destroy
    \/ \E i \in SlotIds : Settle(i) \/ Job(i)

Spec == Init /\ [][Next]_vars

\* The GPU settles every promise and the event loop runs every job; nobody need
\* call pollCompleted.
FairSpec == Spec /\ \A i \in SlotIds : WF_vars(Settle(i)) /\ WF_vars(Job(i))

-------------------------------------------------------------------------------
(* Correctness *)

Images == {NoImage} \cup [Fields -> 0 .. MaxSchedules]

\* The staging slots, their promises and the source's counters have their types.
TypeOK ==
    /\ opts \in Options
    /\ slots \in [SlotIds -> [state : {"idle", "scheduled", "in-flight"},
                              scheduledAt : 0 .. MaxSchedules,
                              region : SUBSET Fields, mapped : BOOLEAN,
                              failed : BOOLEAN, readback : 0 .. MaxSchedules]]
    /\ promise \in [SlotIds -> {"none", "pending", "fulfilled", "rejected"}]
    /\ image \in Images
    /\ scheduleSerial \in 0 .. MaxSchedules
    /\ dropped \in 0 .. MaxSchedules /\ coalesced \in 0 .. MaxSchedules
    /\ destroyed \in BOOLEAN /\ touched \in BOOLEAN
    /\ newest \in [Fields -> 0 .. MaxSchedules]
    /\ published \in Seq([readback : 1 .. MaxSchedules,
                          frame : [Fields -> 0 .. MaxSchedules],
                          expected : [Fields -> 0 .. MaxSchedules]])

\* However maps fail, decoders throw and polls and jobs compete for a slot, each
\* readback is pushed, dropped or coalesced once, or a slot still holds it.
EveryReadbackIsAccounted ==
    scheduleSerial = Len(published) + dropped + coalesced + InFlight

\* A slot that takes part in mapAsync is one whose promise is out or whose result
\* awaits a poll: no job ever finds its slot reused, and none is left in-flight
\* with nothing to come for it while the source lives.
JobsOwnTheirSlots ==
    \A i \in SlotIds :
        /\ promise[i] # "none" => slots[i].state = "in-flight" /\ ~slots[i].mapped
        /\ slots[i].state = "in-flight" /\ promise[i] = "none" =>
               slots[i].mapped /\ (AutoDrain => destroyed)

\* In microtask mode a staging buffer is not read once destroy() was called, not
\* even by a job that was queued before it.
DestroyedIsUntouched == AutoDrain => ~touched

\* Adaptive pacing keeps one staging slot free.
KeepsOneFree == PacingMode = "adaptive" => InState("idle") # {}

\* With adaptive pacing on two slots no frame is pushed after a frame of a later
\* readback.
PublishesInOrder ==
    PacingMode = "adaptive" =>
    \A m, n \in 1 .. Len(published) :
        m < n => published[m].readback < published[n].readback

\* With adaptive pacing on two slots every field of a pushed frame carries the
\* newest bytes read back for it, be it by a readback whose frame the bridge
\* refused or the decoder threw on.
FrameIsNewest ==
    PacingMode = "adaptive" =>
    \A n \in 1 .. Len(published) : published[n].frame = published[n].expected

\* docs/gpu-readback-measurement.md:47: what latest-only replaces is stale.
ReplacesOnlyStale ==
    [][\A i \in SlotIds :
          slots[i].state = "scheduled" /\ slots'[i].state = "scheduled" =>
              slots[i].region \subseteq slots'[i].region]_vars

\* In microtask mode a flushed slot comes back without any poll, or the source is
\* destroyed: neither a rejected map nor a throwing decoder strands it.
SlotRecycles ==
    \A i \in SlotIds :
        AutoDrain /\ slots[i].state = "in-flight"
            ~> slots[i].state = "idle" \/ destroyed
===============================================================================
