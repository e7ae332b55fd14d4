-------------------------- MODULE BridgeBlockConsumer --------------------------
(***************************************************************************)
(* BridgeBlockConsumer.ts: the audio thread asks for any number of samples  *)
(* at a time and gets them from blocks of BlockSize, across block borders,  *)
(* as far as the ring has blocks; BridgeBlockProducer.ts numbers the blocks. *)
(* An iteration of the loop is a step, so that the producer may push between *)
(* the pulls of one call.  A sample is its block and its place in it.  The   *)
(* channels of a block move together and are one here.                      *)
(***************************************************************************)
EXTENDS Integers, Sequences

CONSTANTS
    BlockSize,
    Counts,             \* samples a call may ask for
    RingBlocks,         \* frames of the ring
    Window,             \* underflowWindowMs, in samples
    MarkCapacity,       \* UNDERFLOW_MARK_CAPACITY
    MaxEmitted,         \* bound: samples between two resets
    MaxBlocks           \* bound: blocks of one history

Largest == CHOOSE n \in Counts : \A c \in Counts : c <= n

ASSUME BlockAssumption ==
    /\ BlockSize \in Nat \ {0}
    /\ Counts \subseteq Nat \ {0} /\ \E n \in Counts : \A c \in Counts : c <= n
    /\ RingBlocks \in Nat \ {0} /\ Window \in Nat \ {0} /\ MarkCapacity \in Nat \ {0, 1}
    /\ MaxEmitted \in Nat /\ MaxBlocks \in Nat

VARIABLES
    blocks, nextBlockIndex,     \* the ring, and the producer's number
    block, cursor, hasFrame,    \* the block in the frame view
    asked, left,                \* the call under way: its count, what is not written
    emitted, underflow,         \* _samplesEmitted and _underflowSamples
    framesConsumed, lastPull,   \* and _lastPullAtSample
    marks,                      \* the circular history, oldest first
    played,                     \* history: the last sample that was played
    hole,                       \* history: samples missed since then
    lastHole, lastPlayed        \* history: emitted when one was last missed, played

blockVars == <<blocks, nextBlockIndex, block, cursor, hasFrame, asked, left, emitted,
               underflow, framesConsumed, lastPull, marks, played, hole, lastHole,
               lastPlayed>>

telemetry == <<emitted, underflow, framesConsumed, lastPull, marks>>
history == <<played, hole, lastHole, lastPlayed>>
Nothing == [block |-> 0, sample |-> BlockSize]

BlocksInit ==
    /\ blocks = <<>> /\ nextBlockIndex = 1
    /\ block = 0 /\ cursor = 0 /\ hasFrame = FALSE
    /\ asked = 0 /\ left = 0
    /\ emitted = 0 /\ underflow = 0 /\ framesConsumed = 0 /\ lastPull = 0
    /\ marks = <<>> /\ played = Nothing /\ hole = 0 /\ lastHole = 0 /\ lastPlayed = 0

\* The decoder numbers the block before the push is committed, and is skipped when
\* the ring is full; fillScalars may throw after that, and the push is aborted.
Produce ==
    /\ nextBlockIndex <= MaxBlocks
    /\ Len(blocks) < RingBlocks
    /\ nextBlockIndex' = nextBlockIndex + 1
    /\ blocks' = Append(blocks, nextBlockIndex) \/ UNCHANGED blocks
    /\ UNCHANGED <<block, cursor, hasFrame, asked, left, telemetry, history>>

\* process, processAdd, processAddChannel or processAddStereo is called.
Call ==
    /\ left = 0
    /\ \E n \in Counts : emitted + n <= MaxEmitted /\ asked' = n /\ left' = n
    /\ UNCHANGED <<blocks, nextBlockIndex, block, cursor, hasFrame, telemetry, history>>

Exhausted == ~hasFrame \/ cursor >= BlockSize
Written == asked - left

\* The next block: what is left of the frame before it is nothing.
PullBlock ==
    /\ left > 0 /\ Exhausted /\ blocks # <<>>
    /\ block' = Head(blocks) /\ blocks' = Tail(blocks)
    /\ cursor' = 0 /\ hasFrame' = TRUE
    /\ framesConsumed' = framesConsumed + 1
    /\ lastPull' = emitted + Written
    /\ UNCHANGED <<nextBlockIndex, asked, left, emitted, underflow, marks, history>>

\* _markStride
MarkStride ==
    LET stride == Window \div (MarkCapacity - 1) IN IF stride < 1 THEN 1 ELSE stride

MarkDue(now) == marks = <<>> \/ now - marks[Len(marks)].at >= MarkStride

\* _noteEmitted(count), with the underflow counted so far.
NoteEmitted(missed) ==
    LET now == emitted + asked
        kept == IF Len(marks) = MarkCapacity THEN Tail(marks) ELSE marks
    IN  /\ emitted' = now /\ underflow' = underflow + missed
        /\ marks' = IF MarkDue(now) THEN Append(kept, [at |-> now, missed |-> underflow'])
                    ELSE marks

\* The ring is empty: the rest of the call is silence, the last sample or the
\* carrier, by policy and method.
Starve ==
    /\ left > 0 /\ Exhausted /\ blocks = <<>>
    /\ NoteEmitted(left) /\ left' = 0
    /\ hole' = hole + left /\ lastHole' = emitted'
    /\ UNCHANGED <<blocks, nextBlockIndex, block, cursor, hasFrame, asked, framesConsumed,
                   lastPull, played, lastPlayed>>

Least(a, b) == IF a < b THEN a ELSE b
\* Mutant: as many samples as the call still needs.
TakeAll == left

Take == Least(left, BlockSize - cursor)

\* Copy or mix samples of the block; the call ends with its last one.
Play ==
    /\ left > 0 /\ ~Exhausted
    /\ cursor' = cursor + Take /\ left' = left - Take
    /\ played' = [block |-> block, sample |-> cursor'] /\ hole' = 0
    /\ lastPlayed' = emitted + Written + Take
    /\ IF left' = 0 THEN NoteEmitted(0) ELSE UNCHANGED <<emitted, underflow, marks>>
    /\ UNCHANGED <<blocks, nextBlockIndex, block, hasFrame, asked, framesConsumed, lastPull,
                   lastHole>>

\* reset() between calls: the rest of the block in flight is discarded and
\* everything starts over.
ResetConsumer ==
    /\ left = 0
    /\ cursor' = 0 /\ hasFrame' = FALSE
    /\ emitted' = 0 /\ underflow' = 0 /\ framesConsumed' = 0 /\ lastPull' = 0 /\ marks' = <<>>
    /\ played' = [played EXCEPT !.sample = BlockSize]
    /\ hole' = 0 /\ lastHole' = 0 /\ lastPlayed' = 0
    /\ UNCHANGED <<blocks, nextBlockIndex, block, asked, left>>

Render == PullBlock \/ Starve \/ Play
BlocksNext == Produce \/ Call \/ Render \/ ResetConsumer

-------------------------------------------------------------------------------
(* underflowRate(windowMs): the samples missed since the chosen mark, and the  *)
(* samples emitted since.                                                      *)

\* The latest mark at or before the start of the window, or the oldest.
ChosenMark(window) ==
    LET old == {i \in 1 .. Len(marks) : marks[i].at <= emitted - window}
    IN  IF old = {} THEN 1 ELSE CHOOSE i \in old : \A j \in old : j <= i

RateOver(window) ==
    IF marks = <<>> \/ emitted = marks[ChosenMark(window)].at THEN [missed |-> 0, of |-> 0]
    ELSE [missed |-> underflow - marks[ChosenMark(window)].missed,
          of |-> emitted - marks[ChosenMark(window)].at]

-------------------------------------------------------------------------------
(* Correctness *)

\* The consumer's counters have their types.
BlocksTypeOK ==
    /\ blocks \in Seq(1 .. MaxBlocks) /\ Len(blocks) <= RingBlocks
    /\ nextBlockIndex \in 1 .. MaxBlocks + 1 /\ block \in 0 .. MaxBlocks
    /\ cursor \in 0 .. BlockSize /\ hasFrame \in BOOLEAN
    /\ asked \in Counts \cup {0} /\ left \in 0 .. asked
    /\ emitted \in 0 .. MaxEmitted /\ underflow \in 0 .. MaxEmitted
    /\ framesConsumed \in Nat /\ lastPull \in 0 .. MaxEmitted
    /\ Len(marks) <= MarkCapacity
    /\ hole \in 0 .. MaxEmitted /\ lastHole \in 0 .. MaxEmitted /\ lastPlayed \in 0 .. MaxEmitted

\* remainingInFrame()
Remaining == IF hasFrame THEN BlockSize - cursor ELSE 0

\* Between calls every emitted sample is a sample of a consumed block or an
\* underflow, and the stall age, elapsed less last pull, is what was played of the
\* block since plus the hole after it.
TimeIsAccounted ==
    left = 0 =>
        /\ emitted = (framesConsumed * BlockSize) - Remaining + underflow
        /\ framesConsumed > 0 => emitted - lastPull = cursor + hole

\* However calls and blocks are cut and however often the ring ran dry: the next
\* sample played is the next of its block, or the first of a later block once this
\* one was played out or discarded.
PlaysInOrder ==
    [][left' < left /\ played' # played =>
         LET first == played'.sample - (left - left')
         IN  IF played'.block = played.block THEN first = played.sample
             ELSE first = 0 /\ played.sample = BlockSize /\ played'.block > played.block
      ]_blockVars

\* The gap between two marks.
Spacing == MarkStride + Largest - 1

\* underflowRate is of the window it is asked for: a stall is forgotten when the
\* window and one gap between marks have passed, and a ring that has been dry for
\* so long reads 1.
RateIsCurrent ==
    left = 0 /\ emitted > 0 =>
        LET rate == RateOver(Window) IN
        /\ emitted - lastHole >= Window + Spacing => rate.missed = 0
        /\ emitted - lastPlayed >= Window + Spacing => rate.missed = rate.of /\ rate.of > 0
===============================================================================
