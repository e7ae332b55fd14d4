------------------------------- MODULE SpmcRing -------------------------------
(***************************************************************************)
(* SpmcRing.ts: one producer that laps the ring freely and consumers that  *)
(* each keep a cursor of their own.  A slot's generation is a seqlock: odd *)
(* while the producer writes the slot, and read before and after the       *)
(* payload.  A thread's step is one access to shared memory.               *)
(*                                                                         *)
(* The payload is plain memory.  The language orders a plain store before  *)
(* a LATER atomic store and a plain load after an EARLIER atomic load, and *)
(* nothing else; the seqlock needs the two other directions.  PlainInOrder *)
(* chooses between a build that keeps a call's plain accesses in program   *)
(* order (x86) and one that may not (arm64).                               *)
(***************************************************************************)
EXTENDS Int32Lanes, FiniteSets, Sequences

CONSTANTS
    Consumers,      \* the consumer threads
    PlainInOrder,   \* FALSE: plain and atomic accesses of a call may pass
    Seed,           \* tickets already used when the history starts
    MaxFrames       \* bound: frames pushed in one history

ASSUME SpmcAssumption ==
    /\ IsFiniteSet(Consumers)
    /\ PlainInOrder \in BOOLEAN
    /\ Seed \in Lane
    /\ MaxFrames \in Nat
    /\ 4 * (MaxFrames + Capacity) < Modulus     \* generations are doubled tickets

VARIABLES
    \* the SharedArrayBuffer
    writeTicket, gen, lo, hi,
    dequeuePos, dropped, tornGuarded,   \* the per-consumer region
    \* the producer thread
    ppc, left,          \* left: accesses of the push not yet performed
    pushing,            \* frames whose push has begun
    \* each consumer thread
    cpc, D, seq1, seq2, unread, outLo, outHi,
    \* history
    published,          \* frames whose generation became Complete
    passed,             \* frames each cursor has passed, without the wrap
    got                 \* frames each caller was handed

slots == <<gen, lo, hi>>
cursors == <<dequeuePos, dropped, tornGuarded>>
producerVars == <<writeTicket, slots, ppc, left, pushing, published>>
call == <<D, seq1, seq2, unread, outLo, outHi>>
consumerVars == <<cursors, cpc, call, passed, got>>
vars == <<producerVars, consumerVars>>

Nothing == 0    \* a payload half never written

Complete(t) == (2 * t) % Modulus

Busy(t) == (2 * t + 1) % Modulus

\* initLayout, or any later state in which every consumer has caught up.
Init ==
    /\ writeTicket = Seed
    /\ gen \in [Slots -> Lane]
    /\ \A i \in Slots : gen[Slot(Seed + i)] = Complete(Seed + i + Modulus - Capacity)
    /\ lo = [s \in Slots |-> Nothing] /\ hi = [s \in Slots |-> Nothing]
    /\ dequeuePos = [c \in Consumers |-> Seed]
    /\ dropped = [c \in Consumers |-> 0] /\ tornGuarded = [c \in Consumers |-> 0]
    /\ ppc = "idle" /\ left = {} /\ pushing = 0
    /\ cpc = [c \in Consumers |-> "idle"]
    /\ D = [c \in Consumers |-> Seed]
    /\ seq1 = [c \in Consumers |-> 0] /\ seq2 = [c \in Consumers |-> 0]
    /\ unread = [c \in Consumers |-> {}]
    /\ outLo = [c \in Consumers |-> Nothing] /\ outHi = [c \in Consumers |-> Nothing]
    /\ published = 0 /\ passed = [c \in Consumers |-> 0]
    /\ got = [c \in Consumers |-> <<>>]

-------------------------------------------------------------------------------
(* The producer *)

StartPush ==
    /\ ppc = "idle"
    /\ pushing < MaxFrames
    /\ pushing' = pushing + 1
    /\ left' = {"busy", "lo", "hi"}
    /\ ppc' = "write"
    /\ UNCHANGED <<writeTicket, slots, published, consumerVars>>

\* 1. Busy(T), which a later plain store may overtake.
StoreBusy ==
    /\ ppc = "write" /\ "busy" \in left
    /\ gen' = [gen EXCEPT ![Slot(writeTicket)] = Busy(writeTicket)]
    /\ left' = left \ {"busy"}
    /\ UNCHANGED <<writeTicket, lo, hi, ppc, pushing, published, consumerVars>>

\* 2. The payload.
WriteLo ==
    /\ ppc = "write" /\ "lo" \in left
    /\ PlainInOrder => "busy" \notin left
    /\ lo' = [lo EXCEPT ![Slot(writeTicket)] = pushing]
    /\ left' = left \ {"lo"}
    /\ UNCHANGED <<writeTicket, gen, hi, ppc, pushing, published, consumerVars>>

WriteHi ==
    /\ ppc = "write" /\ "hi" \in left
    /\ PlainInOrder => "busy" \notin left /\ "lo" \notin left
    /\ hi' = [hi EXCEPT ![Slot(writeTicket)] = pushing]
    /\ left' = left \ {"hi"}
    /\ UNCHANGED <<writeTicket, gen, lo, ppc, pushing, published, consumerVars>>

\* 3. Complete(T): a release-store, after everything before it.
StoreComplete ==
    /\ ppc = "write" /\ left = {}
    /\ gen' = [gen EXCEPT ![Slot(writeTicket)] = Complete(writeTicket)]
    /\ published' = published + 1
    /\ ppc' = "advance"
    /\ UNCHANGED <<writeTicket, lo, hi, left, pushing, consumerVars>>

\* 4. The write cursor.
AdvanceTicket ==
    /\ ppc = "advance"
    /\ writeTicket' = Inc(writeTicket)
    /\ ppc' = "idle"
    /\ UNCHANGED <<slots, left, pushing, published, consumerVars>>

-------------------------------------------------------------------------------
(* A consumer c *)

\* Mutant: the frames still live are counted as lost too.
MissedAll(c) == SignedDiff(writeTicket, dequeuePos[c])

Missed(c) == SignedDiff(writeTicket, dequeuePos[c]) - Capacity

\* pull: load of its own cursor, then of writeTicket; a lapped consumer jumps to
\* the live window and counts what it passes over.
StartPull(c) ==
    /\ cpc[c] = "idle"
    /\ \/ /\ SignedDiff(writeTicket, dequeuePos[c]) > Capacity
          /\ D' = [D EXCEPT ![c] = (writeTicket + Modulus - Capacity) % Modulus]
          /\ dropped' = [dropped EXCEPT ![c] = @ + Missed(c)]
       \/ /\ SignedDiff(writeTicket, dequeuePos[c]) <= Capacity
          /\ D' = [D EXCEPT ![c] = dequeuePos[c]]
          /\ UNCHANGED dropped
    /\ cpc' = [cpc EXCEPT ![c] = "loadGen"]
    /\ UNCHANGED <<producerVars, dequeuePos, tornGuarded, seq1, seq2, unread,
                   outLo, outHi, passed, got>>

\* The store of dequeuePos, with the frames it passes.
MoveCursor(c, to) ==
    /\ dequeuePos' = [dequeuePos EXCEPT ![c] = to]
    /\ passed' = [passed EXCEPT ![c] = @ + SignedDiff(to, dequeuePos[c])]

\* Mutant: a slot that carries a newer frame will do.
GateIgnoringLaps(seq, d) == IF SignedDiff(seq, Complete(d)) >= 0 THEN 0 ELSE 0 - 1

\* Mutant: the gate waits for the stamp of a frame being written.
GateExpectsBusy(seq, d) == SignedDiff(seq, Busy(d))

\* d = 0: mine, complete.  1: mine, being written.  Below: not written yet.
\* Above: reused by a newer lap.
Gate(seq, d) == SignedDiff(seq, Complete(d))

LoadSeq1(c) ==
    /\ cpc[c] = "loadGen"
    /\ LET seq == gen[Slot(D[c])]
       IN  \/ /\ Gate(seq, D[c]) = 0
              /\ seq1' = [seq1 EXCEPT ![c] = seq]
              /\ unread' = [unread EXCEPT ![c] = {"lo", "hi", "seq2"}]
              /\ cpc' = [cpc EXCEPT ![c] = "read"]
              /\ UNCHANGED <<dequeuePos, passed, dropped>>
           \/ /\ Gate(seq, D[c]) >= 2
              /\ dropped' = [dropped EXCEPT ![c] = @ + 1]
              /\ MoveCursor(c, Inc(D[c]))
              /\ cpc' = [cpc EXCEPT ![c] = "idle"]
              /\ UNCHANGED <<seq1, unread>>
           \/ /\ Gate(seq, D[c]) < 2 /\ Gate(seq, D[c]) # 0
              /\ MoveCursor(c, D[c])
              /\ cpc' = [cpc EXCEPT ![c] = "idle"]
              /\ UNCHANGED <<seq1, unread, dropped>>
    /\ UNCHANGED <<producerVars, tornGuarded, D, seq2, outLo, outHi, got>>

ReadLo(c) ==
    /\ cpc[c] = "read" /\ "lo" \in unread[c]
    /\ outLo' = [outLo EXCEPT ![c] = lo[Slot(D[c])]]
    /\ unread' = [unread EXCEPT ![c] = @ \ {"lo"}]
    /\ UNCHANGED <<producerVars, cursors, cpc, D, seq1, seq2, outHi, passed, got>>

ReadHi(c) ==
    /\ cpc[c] = "read" /\ "hi" \in unread[c]
    /\ PlainInOrder => "lo" \notin unread[c]
    /\ outHi' = [outHi EXCEPT ![c] = hi[Slot(D[c])]]
    /\ unread' = [unread EXCEPT ![c] = @ \ {"hi"}]
    /\ UNCHANGED <<producerVars, cursors, cpc, D, seq1, seq2, outLo, passed, got>>

\* The re-read, which may overtake the plain loads before it.
LoadSeq2(c) ==
    /\ cpc[c] = "read" /\ "seq2" \in unread[c]
    /\ PlainInOrder => unread[c] = {"seq2"}
    /\ seq2' = [seq2 EXCEPT ![c] = gen[Slot(D[c])]]
    /\ unread' = [unread EXCEPT ![c] = @ \ {"seq2"}]
    /\ UNCHANGED <<producerVars, cursors, cpc, D, seq1, outLo, outHi, passed, got>>

Overwritten(c) == seq2[c] # seq1[c]

\* The store of dequeuePos: the frame is delivered, or discarded and counted.
FinishPull(c) ==
    /\ cpc[c] = "read" /\ unread[c] = {}
    /\ MoveCursor(c, Inc(D[c]))
    /\ cpc' = [cpc EXCEPT ![c] = "idle"]
    /\ \/ /\ Overwritten(c)
          /\ tornGuarded' = [tornGuarded EXCEPT ![c] = @ + 1]
          /\ dropped' = [dropped EXCEPT ![c] = @ + 1]
          /\ UNCHANGED got
       \/ /\ ~Overwritten(c)
          /\ got' = [got EXCEPT ![c] = Append(@, outLo[c])]
          /\ UNCHANGED <<tornGuarded, dropped>>
    /\ UNCHANGED <<producerVars, call>>

-------------------------------------------------------------------------------
InPush == StoreBusy \/ WriteLo \/ WriteHi \/ StoreComplete \/ AdvanceTicket
Pull(c) == StartPull(c) \/ LoadSeq1(c) \/ ReadLo(c) \/ ReadHi(c) \/ LoadSeq2(c)
           \/ FinishPull(c)

Next == StartPush \/ InPush \/ \E c \in Consumers : Pull(c)

Spec == Init /\ [][Next]_vars

\* A push that has begun runs on, and every consumer polls every quantum.
FairSpec == Spec /\ WF_vars(InPush) /\ \A c \in Consumers : WF_vars(Pull(c))

-------------------------------------------------------------------------------
(* Correctness *)

\* The lanes, the per-consumer region and the locals of the producer and the
\* consumers have their types; no cursor or stamp leaves its lane.
TypeOK ==
    /\ writeTicket \in Lane /\ gen \in [Slots -> Lane]
    /\ lo \in [Slots -> 0 .. MaxFrames] /\ hi \in [Slots -> 0 .. MaxFrames]
    /\ dequeuePos \in [Consumers -> Lane] /\ dropped \in [Consumers -> Nat]
    /\ tornGuarded \in [Consumers -> Nat]
    /\ ppc \in {"idle", "write", "advance"} /\ left \subseteq {"busy", "lo", "hi"}
    /\ pushing \in 0 .. MaxFrames
    /\ cpc \in [Consumers -> {"idle", "loadGen", "read"}]
    /\ D \in [Consumers -> Lane] /\ seq1 \in [Consumers -> Lane]
    /\ seq2 \in [Consumers -> Lane]
    /\ unread \in [Consumers -> SUBSET {"lo", "hi", "seq2"}]
    /\ outLo \in [Consumers -> 0 .. MaxFrames] /\ outHi \in [Consumers -> 0 .. MaxFrames]
    /\ published \in 0 .. MaxFrames /\ passed \in [Consumers -> Nat]
    /\ got \in [Consumers -> Seq(0 .. MaxFrames)]

\* The number of the frame a pull is after.
Wanted(c) == passed[c] + SignedDiff(D[c], dequeuePos[c]) + 1

\* A pull that passes the re-read has both halves of exactly the frame at its
\* cursor, although the producer may have lapped it at any point of the read.
NeverTorn ==
    \A c \in Consumers :
        cpc[c] = "read" /\ unread[c] = {} /\ ~Overwritten(c) =>
            outLo[c] = Wanted(c) /\ outHi[c] = Wanted(c)

\* Each consumer's counters account for every ticket its cursor has passed: it was
\* delivered, or it is in dropped (overload net, lapped slot or guard), once.
LossIsCounted ==
    \A c \in Consumers : cpc[c] = "idle" =>
        /\ passed[c] = Len(got[c]) + dropped[c]
        /\ SignedDiff(dequeuePos[c], Seed) = passed[c]

\* The ring is a broadcast log: a consumer passes over lapped frames only, and no
\* consumer has any effect on the producer or on another consumer.
Log == INSTANCE BroadcastLog WITH log <- published, delivered <- got

ImplementsBroadcastLog == Log!Spec

\* However far behind it was left, a consumer that polls comes past everything that
\* was published once the producer rests, which it does at the end of a history.
CatchesUp == []<>(\A c \in Consumers : passed[c] = published)
===============================================================================
