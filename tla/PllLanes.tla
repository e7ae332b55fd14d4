------------------------------- MODULE PllLanes -------------------------------
(***************************************************************************)
(* Lanes 4-7 of SpscRing's header: the consumer publishes its clock        *)
(* recovery state (publishPllState) and any thread may read it             *)
(* (readPublishedPllState).  The offset is split over two Int32 lanes; the *)
(* status lane is written last and read first.  A step is one lane access. *)
(* Offsets and drifts are integers in the lanes' units (ns, Q16.16 ppm).   *)
(***************************************************************************)
EXTENDS Int32Lanes, Sequences

CONSTANTS
    Offsets,        \* offsetNs the clock recovery may report
    Drifts,         \* driftPpm it may report, times 65536
    MaxPublishes    \* bound: publishes of one history

ASSUME PllAssumption ==
    /\ Offsets \subseteq Int /\ Drifts \subseteq Int
    /\ \A o \in Offsets : o \div Modulus \in (0 - Half) .. (Half - 1)
    /\ MaxPublishes \in Nat

VARIABLES
    low, high, drift, status,   \* lanes 4, 5, 6 and 7
    wpc, todo,                  \* the publisher, and what it is publishing
    rpc, seen,                  \* the reader, and what it has read so far
    history                     \* everything published, oldest first

laneVars == <<low, high, drift, status, wpc, todo, rpc, seen, history>>

\* A lane carries, besides its value, the number of the publish that stored it.
Stored(v) == [value |-> v, by |-> Len(history)]
Fresh == [value |-> 0, by |-> 0]

LanesInit ==
    /\ low = Fresh /\ high = Fresh /\ drift = Fresh
    /\ status = [value |-> FALSE, by |-> 0]
    /\ wpc = "idle" /\ todo = [offset |-> 0, drift |-> 0, locked |-> FALSE]
    /\ rpc = "idle"
    /\ seen = [locked |-> FALSE, low |-> 0, high |-> 0, drift |-> 0,
               gate |-> 0, oldest |-> 0]
    /\ history = <<>>

\* hi = Math.floor(offset / 2^32), lo = (offset - hi * 2^32) | 0.
HighOf(offset) == offset \div Modulus
LowOf(offset) == AsInt32(offset % Modulus)

\* hi * 2^32 + (lo >>> 0)
Joined(hi, lo) == (hi * Modulus) + (lo % Modulus)

\* Math.round(driftPpm * 2^16) | 0, which the clamp after it cannot change.
DriftQ(d) == AsInt32(d % Modulus)

BeginPublish ==
    /\ wpc = "idle"
    /\ Len(history) < MaxPublishes
    /\ \E o \in Offsets, d \in Drifts, l \in BOOLEAN :
           todo' = [offset |-> o, drift |-> d, locked |-> l]
    /\ history' = Append(history, todo')
    /\ wpc' = "low"
    /\ UNCHANGED <<low, high, drift, status, rpc, seen>>

StoreLow ==
    /\ wpc = "low"
    /\ low' = Stored(LowOf(todo.offset))
    /\ wpc' = "high"
    /\ UNCHANGED <<high, drift, status, todo, rpc, seen, history>>

StoreHigh ==
    /\ wpc = "high"
    /\ high' = Stored(HighOf(todo.offset))
    /\ wpc' = "drift"
    /\ UNCHANGED <<low, drift, status, todo, rpc, seen, history>>

\* Mutant: the drift is stored after the status.
SkipDrift ==
    /\ wpc = "drift"
    /\ wpc' = "status"
    /\ UNCHANGED <<low, high, drift, status, todo, rpc, seen, history>>

StoreDrift ==
    /\ wpc = "drift"
    /\ drift' = Stored(DriftQ(todo.drift))
    /\ wpc' = "status"
    /\ UNCHANGED <<low, high, status, todo, rpc, seen, history>>

StoreStatus ==
    /\ wpc = "status"
    /\ status' = Stored(todo.locked)
    /\ wpc' = "idle"
    /\ UNCHANGED <<low, high, drift, todo, rpc, seen, history>>

-------------------------------------------------------------------------------
Older(a, b) == IF a < b THEN a ELSE b

LoadStatus ==
    /\ rpc = "idle"
    /\ seen' = [seen EXCEPT !.locked = status.value, !.gate = status.by,
                            !.oldest = status.by]
    /\ rpc' = "low"
    /\ UNCHANGED <<low, high, drift, status, wpc, todo, history>>

LoadLow ==
    /\ rpc = "low"
    /\ seen' = [seen EXCEPT !.low = low.value, !.oldest = Older(@, low.by)]
    /\ rpc' = "high"
    /\ UNCHANGED <<low, high, drift, status, wpc, todo, history>>

LoadHigh ==
    /\ rpc = "high"
    /\ seen' = [seen EXCEPT !.high = high.value, !.oldest = Older(@, high.by)]
    /\ rpc' = "drift"
    /\ UNCHANGED <<low, high, drift, status, wpc, todo, history>>

LoadDrift ==
    /\ rpc = "drift"
    /\ seen' = [seen EXCEPT !.drift = drift.value, !.oldest = Older(@, drift.by)]
    /\ rpc' = "done"
    /\ UNCHANGED <<low, high, drift, status, wpc, todo, history>>

\* The result is returned and the locals are gone.
Return ==
    /\ rpc = "done"
    /\ seen' = [locked |-> FALSE, low |-> 0, high |-> 0, drift |-> 0,
                gate |-> 0, oldest |-> 0]
    /\ rpc' = "idle"
    /\ UNCHANGED <<low, high, drift, status, wpc, todo, history>>

LanesNext ==
    \/ BeginPublish \/ StoreLow \/ StoreHigh \/ StoreDrift \/ StoreStatus
    \/ LoadStatus \/ LoadLow \/ LoadHigh \/ LoadDrift \/ Return

LanesSpec == LanesInit /\ [][LanesNext]_laneVars

-------------------------------------------------------------------------------
(* Correctness *)

\* The lanes hold Int32 values and the number of the publish that stored them.
LanesTypeOK ==
    /\ \A lane \in {low, high, drift} :
           lane.value \in (0 - Half) .. (Half - 1) /\ lane.by \in 0 .. MaxPublishes
    /\ status.value \in BOOLEAN /\ status.by \in 0 .. MaxPublishes
    /\ wpc \in {"idle", "low", "high", "drift", "status"}
    /\ rpc \in {"idle", "low", "high", "drift", "done"}
    /\ Len(history) \in 0 .. MaxPublishes

\* The status-last, status-first gate: a reader that sees a publish's status gets
\* no offset half and no drift older than that publish.
GateIsFresh == seen.oldest = seen.gate

\* What a quiet publisher left in the lanes decodes to what it published: the
\* split and the join of the offset undo each other, below zero too.
OffsetRoundTrips ==
    wpc = "idle" /\ history # <<>> =>
        Joined(high.value, low.value) = history[Len(history)].offset

\* The comment at SpscRing.ts:2092: an offset read with locked = true is the
\* offset of some publish, never a synthesis of two.
OffsetWasPublished ==
    rpc = "done" /\ seen.locked =>
        \E i \in 1 .. Len(history) : Joined(seen.high, seen.low) = history[i].offset

Clamped(d) == IF d > Half - 1 THEN Half - 1 ELSE IF d < 0 - Half THEN 0 - Half ELSE d

\* The comment at SpscRing.ts:2129: a drift outside the Q16.16 range is clamped.
DriftIsClamped ==
    wpc = "idle" /\ history # <<>> => drift.value = Clamped(history[Len(history)].drift)
===============================================================================
