--------------------------- MODULE TimelineRecorder ---------------------------
(***************************************************************************)
(* TimelineRecorder.ts: control events are recorded with their times, packed *)
(* into a container that carries the tag of their schema, and replayed from  *)
(* it sample by sample, in one sweep or at random.  The callback of a sweep  *)
(* may use the player it is called from, but for a sweep inside the sweep.   *)
(*                                                                         *)
(* What a frame holds and how it is evaluated are left out: an event is its  *)
(* time and its place.  Sample n is due at epoch + n / rate seconds, which   *)
(* is compared exactly, without the rounding of f64.                        *)
(***************************************************************************)
EXTENDS Integers, Sequences, SequencesExt

CONSTANTS
    Times,          \* of events, in ns
    Epoch,
    Second,         \* how many ns it has
    Rates,          \* setSampleRate()
    DefaultRate,    \* of a new player
    Schemas,        \* their tags
    MaxEvents,      \* bound: events recorded at a time
    MaxSample       \* bound: samples replayed

ASSUME TimelineAssumption ==
    /\ Times \subseteq Nat /\ Epoch \in Nat /\ Second \in Nat \ {0}
    /\ DefaultRate \in Rates /\ Rates \subseteq Nat \ {0}
    /\ MaxEvents \in Nat /\ MaxSample \in Nat

VARIABLES
    recorded,           \* times[] of the recorder
    container,          \* what serialize() has returned; bound: it is called once
    tuples,             \* times of the player's tuples
    sampleRate,         \* _rate
    sweep,              \* a renderInto under way: its next sample, end, cursor, and
                        \* whether its callback has raised the rate
    shown               \* history: the sample evaluated just now, and the place of its tuple

timelineVars == <<recorded, container, tuples, sampleRate, sweep, shown>>

Schema == CHOOSE s \in Schemas : TRUE       \* the recorder's
NotYet == [schema |-> Schema, times |-> <<>>]
NoSweep == [next |-> 0, end |-> 0, cursor |-> 0, raised |-> FALSE]
NothingShown == [sample |-> 0, place |-> 0, rate |-> 0, behind |-> FALSE]

TimelineInit ==
    /\ recorded = <<>> /\ container = NotYet
    /\ tuples = <<>> /\ sampleRate = DefaultRate
    /\ sweep = NoSweep /\ shown = NothingShown

-------------------------------------------------------------------------------
(* Recording *)

\* Events are recorded in the order of their times; recordAt throws at any other.
RecordAt(t) ==
    /\ Len(recorded) < MaxEvents
    /\ recorded # <<>> => Last(recorded) <= t
    /\ recorded' = Append(recorded, t)
    /\ shown' = NothingShown /\ UNCHANGED <<container, tuples, sampleRate, sweep>>

ResetRecorder ==
    /\ recorded' = <<>>
    /\ shown' = NothingShown /\ UNCHANGED <<container, tuples, sampleRate, sweep>>

Serialize ==
    /\ container = NotYet /\ recorded # <<>>
    /\ container' = [schema |-> Schema, times |-> recorded]
    /\ shown' = NothingShown /\ UNCHANGED <<recorded, tuples, sampleRate, sweep>>

\* deserialize() makes a new player, unless it is given another schema.
Deserialize(schema) ==
    /\ sweep = NoSweep /\ schema = container.schema
    /\ tuples' = container.times /\ sampleRate' = DefaultRate /\ shown' = NothingShown
    /\ UNCHANGED <<recorded, container, sweep>>

-------------------------------------------------------------------------------
(* Replaying *)

SetSampleRate(rate) ==
    /\ sampleRate' = rate
    /\ sweep' = [sweep EXCEPT !.raised = @ \/ (sweep # NoSweep /\ rate > sampleRate)]
    /\ shown' = NothingShown /\ UNCHANGED <<recorded, container, tuples>>

\* Is the event at this time due by sample n?
Due(t, n, rate) == (t - Epoch) * rate <= n * Second

\* _selectTuple: the binary search for the newest tuple that is due.  0 is the first.
SelectTuple(n) ==
    LET Search[range \in (0 .. MaxEvents) \X (0 .. MaxEvents)] ==
            LET lo == range[1]
                hi == range[2]
                mid == (lo + hi + 1) \div 2
            IN  IF lo >= hi THEN lo
                ELSE IF Due(tuples[mid + 1], n, sampleRate) THEN Search[<<mid, hi>>]
                ELSE Search[<<lo, mid - 1>>]
    IN  IF tuples = <<>> \/ ~Due(tuples[1], n, sampleRate) THEN 0
        ELSE Search[<<0, Len(tuples) - 1>>]

Show(n, place, behind) ==
    shown' = [sample |-> n, place |-> place, rate |-> sampleRate, behind |-> behind]

EvaluateAtSample(n) ==
    /\ tuples # <<>>
    /\ Show(n, SelectTuple(n), FALSE)
    /\ UNCHANGED <<recorded, container, tuples, sampleRate, sweep>>

RenderInto(start, count) ==
    /\ sweep = NoSweep /\ tuples # <<>>
    /\ sweep' = [next |-> start, end |-> start + count, cursor |-> SelectTuple(start),
                  raised |-> FALSE]
    /\ shown' = NothingShown /\ UNCHANGED <<recorded, container, tuples, sampleRate>>

\* Mutant: at most one tuple further with every sample.
AdvancedByOne(cursor, n) ==
    IF cursor + 1 < Len(tuples) /\ Due(tuples[cursor + 2], n, sampleRate)
    THEN cursor + 1 ELSE cursor

\* The cursor only moves forward, over all the tuples that are due by now.
Advanced(cursor, n) ==
    LET Move[c \in 0 .. MaxEvents] ==
            IF c + 1 < Len(tuples) /\ Due(tuples[c + 2], n, sampleRate) THEN Move[c + 1] ELSE c
    IN  Move[cursor]

RenderSample ==
    LET n == sweep.next
        cursor == Advanced(sweep.cursor, n)
    IN  /\ n < sweep.end
        /\ Show(n, cursor, sweep.raised)
        /\ sweep' = [sweep EXCEPT !.next = n + 1, !.cursor = cursor]
        /\ UNCHANGED <<recorded, container, tuples, sampleRate>>

RenderDone ==
    /\ sweep # NoSweep /\ sweep.next = sweep.end
    /\ sweep' = NoSweep
    /\ shown' = NothingShown /\ UNCHANGED <<recorded, container, tuples, sampleRate>>

TimelineNext ==
    \/ \E t \in Times : RecordAt(t)
    \/ ResetRecorder \/ Serialize
    \/ \E schema \in Schemas : Deserialize(schema)
    \/ \E rate \in Rates : SetSampleRate(rate)
    \/ \E n \in 0 .. MaxSample : EvaluateAtSample(n)
    \/ \E start, count \in 0 .. MaxSample :
           start + count <= MaxSample + 1 /\ RenderInto(start, count)
    \/ RenderSample \/ RenderDone

TimelineSpec == TimelineInit /\ [][TimelineNext]_timelineVars

-------------------------------------------------------------------------------
(* Correctness *)

\* The samples of a whole replay.
TotalSamples(rate) ==
    LET span == (Last(tuples) - Epoch) * rate
    IN  IF span <= 0 THEN 1 ELSE (span + Second - 1) \div Second + 1

\* The newest event that is due by sample n, the first while none is.
NewestDue(n, rate) ==
    LET due == {i \in DOMAIN tuples : (tuples[i] - Epoch) * rate <= n * Second}
    IN  IF due = {} THEN 1 ELSE Max(due)

\* A sweep shows at each sample the event that a lookup at random would: the newest
\* that is due.  The last event has its turn exactly from the last of the samples of
\* the whole replay on.  (A sweep whose callback raises the rate runs ahead.)
ReplayIsFaithful ==
    shown # NothingShown /\ ~shown.behind =>
        /\ shown.place + 1 = NewestDue(shown.sample, shown.rate)
        /\ Len(tuples) > 1 => (shown.place + 1 = Len(tuples)
                                  <=> shown.sample >= TotalSamples(shown.rate) - 1)

\* "Times are nondecreasing so this never moves backward": nor need it ever.
SweepNeverRunsAhead ==
    shown # NothingShown => shown.place + 1 = NewestDue(shown.sample, shown.rate)
===============================================================================
