----------------------------- MODULE BridgePulls -----------------------------
(***************************************************************************)
(* The consumer side of Bridge.ts: the entry points that pull from the ring *)
(* (raw, smoothed, evaluated, Hermite, predicted, Kalman) and the heap state *)
(* they share: FrameSmoother's last frame, which the schema invariant falls  *)
(* back to, the evaluation cache, the Hermite pair, the stamps the phase     *)
(* locked loop and the predictors were fed.  All of it runs in the           *)
(* consumer's thread, a call is a step; the producer pushes in between.      *)
(*                                                                         *)
(* A frame is its number; its bytes in a view are the set of frames they are *)
(* made of, more than one when smoothing blended them.  Frame n is stamped   *)
(* 2n; a torn frame's stamp is anything, and a floating-point stamp is       *)
(* blended as the rest, to any value between.                                *)
(* The ring is a bounded queue (SpscRing, NonBlocking push).                 *)
(***************************************************************************)
EXTENDS Naturals, Sequences

CONSTANTS
    RingCapacity,
    MaxFrames           \* bound: frames of one history

ASSUME PullsAssumption == RingCapacity \in Nat \ {0} /\ MaxFrames \in Nat

VARIABLES
    checked,            \* the schema has an invariant
    bigIntStamp,        \* the role's field is u64 or i64: never blended
    ring, pushed,       \* queued frames, and how many were pushed
    health,             \* what _classifyInvariant says of each: ok, soft, hard
    prev, prevValid,    \* FrameSmoother
    returned,           \* what the last pull put into the caller's view
    tornFrames,
    cache,              \* cachedRawFrame, its validity, stamp, and quantum
    hermite,            \* stamps of _hermitePrev and _hermiteCurr
    observed,           \* last stamp given to the loop; 0 after resetPll
    ingested,           \* last stamp given to the predictors
    letThrough          \* history: a torn frame was returned as it is

pullVars == <<checked, bigIntStamp, ring, pushed, health, prev, prevValid, returned,
              tornFrames, cache, hermite, observed, ingested, letThrough>>

Frames == 1 .. MaxFrames
Blank == [bytes |-> {}, stamp |-> 0]
FrameView(f) == [bytes |-> {f}, stamp |-> 2 * f]

PullsInit ==
    /\ checked \in BOOLEAN /\ bigIntStamp \in BOOLEAN
    /\ ring = <<>> /\ pushed = 0 /\ health = [f \in Frames |-> "ok"]
    /\ prev = Blank /\ prevValid = FALSE /\ returned = Blank /\ tornFrames = 0
    /\ cache = [view |-> Blank, valid |-> FALSE, stamp |-> 0, quantum |-> FALSE]
    /\ hermite = [prev |-> 0, curr |-> 0]
    /\ observed = 0 /\ ingested = 0 /\ letThrough = FALSE

\* The producer: what it writes may be torn under way, in a checked schema's eyes.
PushFrame ==
    /\ pushed < MaxFrames
    /\ pushed' = pushed + 1
    /\ \E h \in IF checked THEN {"ok", "soft", "hard"} ELSE {"ok"} :
           health' = [health EXCEPT ![pushed'] = h]
    /\ ring' = IF Len(ring) < RingCapacity THEN Append(ring, pushed') ELSE ring
    /\ UNCHANGED <<checked, bigIntStamp, prev, prevValid, returned, tornFrames, cache,
                   hermite, observed, ingested, letThrough>>

-------------------------------------------------------------------------------
(* FrameSmoother, and the invariant's classification *)

\* observe(out, alpha): the one-pole blend, for whatever alpha.
Blends(f) ==
    IF ~prevValid THEN {FrameView(f)}
    ELSE {[bytes |-> prev.bytes \cup {f}, stamp |-> s] :
              s \in IF bigIntStamp THEN {2 * f} ELSE prev.stamp .. 2 * f}

\* The frame becomes the last known good one.
Keep(view) == returned' = view /\ prev' = view /\ prevValid' = TRUE

Smooth(f) == (\E view \in Blends(f) : Keep(view)) /\ UNCHANGED <<tornFrames, letThrough>>

\* What a torn frame decodes to.
TornView(f) == [bytes : {{f}}, stamp : 0 .. 2 * MaxFrames]

\* fallbackInto: the last known good frame, or the torn one where there is none.
FallBack(f) ==
    /\ tornFrames' = tornFrames + 1
    /\ returned' \in IF prevValid THEN {prev} ELSE TornView(f)
    /\ letThrough' = (letThrough \/ ~prevValid)
    /\ UNCHANGED <<prev, prevValid>>

\* Mutant: a famine observes the cached stamp again.
RideAndObserve ==
    /\ ring = <<>> /\ cache.valid
    /\ cache' = [cache EXCEPT !.quantum = TRUE] /\ observed' = cache.stamp
    /\ UNCHANGED <<checked, bigIntStamp, pushed, health, ring, prev, prevValid, returned,
                   tornFrames, letThrough, hermite, ingested>>

\* Mutant: a raw pull leaves the smoother as it is.
HandOut(f) == returned' = FrameView(f) /\ UNCHANGED <<prev, prevValid, tornFrames, letThrough>>

\* A raw pull of a schema without an invariant resets the smoother.
Verbatim(f) ==
    /\ returned' = FrameView(f) /\ prevValid' = FALSE
    /\ UNCHANGED <<prev, tornFrames, letThrough>>

\* _invariantHandleRaw, and the reset where there is no invariant.
Raw(f) ==
    \/ ~checked /\ Verbatim(f)
    \/ checked /\ health[f] = "ok" /\ Keep(FrameView(f))
                /\ UNCHANGED <<tornFrames, letThrough>>
    \/ checked /\ health[f] = "soft" /\ Smooth(f)
    \/ checked /\ health[f] = "hard" /\ FallBack(f)

\* _invariantHandleSmoothed
Smoothed(f) ==
    \/ (checked => health[f] # "hard") /\ Smooth(f)
    \/ checked /\ health[f] = "hard" /\ FallBack(f)

-------------------------------------------------------------------------------
(* The ring *)

\* pull: the oldest frame.
Oldest(f) == ring # <<>> /\ f = Head(ring) /\ ring' = Tail(ring)

\* pullLatest: the newest; the older ones are skipped.
Newest(f) == ring # <<>> /\ f = ring[Len(ring)] /\ ring' = <<>>

\* observeConsumerTime; the loop's own arithmetic is ConsumerClockRecovery's.
ObserveStamp(stamp) == observed' = stamp

pushedFrames == <<checked, bigIntStamp, pushed, health>>

Pull ==
    /\ \E f \in Frames : Oldest(f) /\ Raw(f)
    /\ UNCHANGED <<pushedFrames, cache, hermite, observed, ingested>>

PullLatest ==
    /\ \E f \in Frames : Newest(f) /\ Raw(f)
    /\ UNCHANGED <<pushedFrames, cache, hermite, observed, ingested>>

\* pullSmoothed and pullLatestSmoothed
PullSmoothed ==
    /\ \E f \in Frames : (Oldest(f) \/ Newest(f)) /\ Smoothed(f)
    /\ UNCHANGED <<pushedFrames, cache, hermite, observed, ingested>>

ResetSmoother ==
    /\ prevValid /\ prevValid' = FALSE
    /\ UNCHANGED <<pushedFrames, ring, prev, returned, tornFrames, letThrough, cache,
                   hermite, observed, ingested>>

\* pullEvaluatedLatest with a fresh frame ...
PullEvaluated ==
    /\ \E f \in Frames : Newest(f) /\ Raw(f)
    /\ ObserveStamp(returned'.stamp)
    /\ cache' = [view |-> returned', valid |-> TRUE, stamp |-> returned'.stamp,
                 quantum |-> TRUE]
    /\ UNCHANGED <<pushedFrames, hermite, ingested>>

\* ... and in a famine, where it rides the cached one and observes nothing.
RideCache ==
    /\ ring = <<>> /\ cache.valid
    /\ cache' = [cache EXCEPT !.quantum = TRUE]
    /\ UNCHANGED <<pushedFrames, ring, prev, prevValid, returned, tornFrames,
                   letThrough, hermite, observed, ingested>>

ResetEvalCache ==
    /\ cache.valid /\ cache' = [cache EXCEPT !.valid = FALSE]
    /\ UNCHANGED <<pushedFrames, ring, prev, prevValid, returned, tornFrames,
                   letThrough, hermite, observed, ingested>>

\* pullHermiteLatest: the pair rotates.
PullHermite ==
    /\ \E f \in Frames : Newest(f) /\ Raw(f)
    /\ hermite' = [prev |-> hermite.curr, curr |-> returned'.stamp]
    /\ ObserveStamp(returned'.stamp)
    /\ UNCHANGED <<pushedFrames, cache, ingested>>

\* pullPredictedLatest; the stamp is read only for a caller that gives its clock.
PullPredicted ==
    /\ \E f \in Frames : Newest(f) /\ Raw(f)
    /\ \/ /\ ObserveStamp(returned'.stamp)
          /\ cache' = [cache EXCEPT !.view = returned', !.valid = TRUE,
                                    !.stamp = returned'.stamp]
       \/ /\ cache' = [cache EXCEPT !.view = returned', !.valid = TRUE]
          /\ UNCHANGED observed
    /\ UNCHANGED <<pushedFrames, hermite, ingested>>

\* pullKalmanPredictedLatest; the stamp is always read.
PullKalman ==
    /\ \E f \in Frames : Newest(f) /\ Raw(f)
    /\ cache' = [cache EXCEPT !.view = returned', !.valid = TRUE,
                              !.stamp = returned'.stamp]
    /\ ObserveStamp(returned'.stamp) \/ UNCHANGED observed
    /\ ingested' = returned'.stamp
    /\ UNCHANGED <<pushedFrames, hermite>>

\* The clock and the timestamp role are validated after the pull: the frame is
\* in the cache, and the call throws.
PullThenThrow ==
    /\ \E f \in Frames : Newest(f) /\ Raw(f)
    /\ cache' = [cache EXCEPT !.view = returned']
    /\ UNCHANGED <<pushedFrames, hermite, observed, ingested>>

ResetPll ==
    /\ observed # 0 /\ observed' = 0
    /\ UNCHANGED <<pushedFrames, ring, prev, prevValid, returned, tornFrames,
                   letThrough, cache, hermite, ingested>>

PullsNext ==
    \/ PushFrame
    \/ Pull \/ PullLatest \/ PullSmoothed \/ ResetSmoother
    \/ PullEvaluated \/ RideCache \/ ResetEvalCache
    \/ PullHermite \/ PullPredicted \/ PullKalman \/ PullThenThrow
    \/ ResetPll

PullsSpec == PullsInit /\ [][PullsNext]_pullVars

-------------------------------------------------------------------------------
(* Correctness *)

Torn == {f \in Frames : checked /\ health[f] = "hard"}
Views == [bytes : SUBSET Frames, stamp : 0 .. 2 * MaxFrames]

\* The consumer's heap state has its types.
PullsTypeOK ==
    /\ ring \in Seq(Frames) /\ Len(ring) <= RingCapacity /\ pushed \in 0 .. MaxFrames
    /\ prev \in Views /\ returned \in Views /\ prevValid \in BOOLEAN
    /\ tornFrames \in 0 .. MaxFrames
    /\ cache.view \in Views /\ cache.stamp \in 0 .. 2 * MaxFrames

\* The one buffer serves smoothing and recovery, and every entry point touches it:
\* while it is valid it is what the last pull returned, so no blend and no fallback
\* reaches past a frame the caller has seen; and no byte of a torn frame is in it.
SmootherIsClean == prevValid => prev = returned /\ prev.bytes \cap Torn = {}

\* The loop and the predictors are never fed a stamp that goes back, whichever
\* entry points are mixed, as long as every torn frame could be replaced.
StampsAdvance ==
    [][~letThrough' => /\ observed' # 0 => observed' >= observed
                       /\ ingested' >= ingested]_pullVars

\* The field's comment (Bridge.ts:766): cachedEvalValid says that the frame is valid
\* and that its stamp and the quantum's base and rate are set.
CacheIsSet == cache.valid => cache.stamp = cache.view.stamp /\ cache.quantum

\* The comment at Bridge.ts:1473: the loop is not fed a repeated producer stamp.
ObservesEachStampOnce == [][PullEvaluated \/ PullHermite => observed' # observed]_pullVars
===============================================================================
