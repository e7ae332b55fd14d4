------------------------------- MODULE MpmcRing -------------------------------
(***************************************************************************)
(* MpmcRing.ts: several producer threads and one polling consumer.  A      *)
(* producer checks the envelope, claims a ticket with a fetch-add and      *)
(* publishes by storing the ticket into its slot's generation lane, so a   *)
(* slot is published out of order with the others.  A thread's step is one *)
(* access to shared memory and the local computation after it; counters    *)
(* that only observers read are bumped together with the access before.    *)
(* Frames are <<producer, number>> and are written and read in two halves. *)
(***************************************************************************)
EXTENDS Int32Lanes, FiniteSets, Sequences, SequencesExt

CONSTANTS
    Producers,      \* the threads that call push
    ProducerCount,  \* opts.producerCount, which should be their number
    Mortal,         \* producers whose worker may be terminated
    Seed,           \* tickets already used (and consumed) when the history starts
    MaxFrames       \* bound: frames one producer offers

\* validate()
ASSUME MpmcAssumption ==
    /\ IsFiniteSet(Producers)
    /\ ProducerCount \in Nat \ {0}
    /\ ProducerCount - 1 < Capacity
    /\ Mortal \subseteq Producers
    /\ Seed \in Lane
    /\ MaxFrames \in Nat
    /\ 2 * (MaxFrames * Cardinality(Producers) + Capacity) < Modulus

VARIABLES
    \* the SharedArrayBuffer
    enqueueTicket, dequeuePos, gen, lo, hi,
    dropped, overrunLost, torn,     \* telemetry lanes
    \* each producer thread
    ppc, pW, ticket, offered,
    \* the consumer thread
    cpc, D, W, outLo, outHi,
    \* history
    claimed,        \* frames in ticket order
    got             \* frames handed to the consumer's caller

lanes == <<enqueueTicket, dequeuePos, gen>>
payload == <<lo, hi>>
counters == <<dropped, overrunLost, torn>>
producerVars == <<ppc, pW, ticket, offered>>
consumerVars == <<cpc, D, W, outLo, outHi>>
vars == <<lanes, payload, counters, producerVars, consumerVars, claimed, got>>

Nothing == <<>>     \* a payload half never written, or a torn frame
Slack == ProducerCount - 1

\* initLayout, or any later state in which every claimed frame was consumed:
\* slot s waits for its next ticket and still carries the one a lap before.
Init ==
    /\ enqueueTicket = Seed /\ dequeuePos = Seed
    /\ gen \in [Slots -> Lane]
    /\ \A i \in Slots : gen[Slot(Seed + i)] = (Seed + i - Capacity) % Modulus
    /\ lo = [s \in Slots |-> Nothing] /\ hi = [s \in Slots |-> Nothing]
    /\ dropped = 0 /\ overrunLost = 0 /\ torn = 0
    /\ ppc = [p \in Producers |-> "idle"]
    /\ pW = [p \in Producers |-> Seed] /\ ticket = [p \in Producers |-> Seed]
    /\ offered = [p \in Producers |-> 0]
    /\ cpc = "idle" /\ D = Seed /\ W = Seed /\ outLo = Nothing /\ outHi = Nothing
    /\ claimed = <<>> /\ got = <<>>

-------------------------------------------------------------------------------
(* A producer p *)

\* push: load of enqueueTicket ...
StartPush(p) ==
    /\ ppc[p] = "idle"
    /\ offered[p] < MaxFrames
    /\ offered' = [offered EXCEPT ![p] = @ + 1]
    /\ pW' = [pW EXCEPT ![p] = enqueueTicket]
    /\ ppc' = [ppc EXCEPT ![p] = "check"]
    /\ UNCHANGED <<lanes, payload, counters, ticket, consumerVars, claimed, got>>

\* Mutant: SLACK forgotten.
AtLimitWithoutSlack(w) == SignedDiff(w, dequeuePos) >= Capacity

AtLimit(w) == SignedDiff(w, dequeuePos) >= Capacity - Slack

\* ... then of dequeuePos: at the envelope the frame is dropped before a ticket
\* is claimed.
CheckEnvelope(p) ==
    /\ ppc[p] = "check"
    /\ \/ /\ AtLimit(pW[p])
          /\ dropped' = dropped + 1
          /\ ppc' = [ppc EXCEPT ![p] = "idle"]
       \/ /\ ~AtLimit(pW[p])
          /\ ppc' = [ppc EXCEPT ![p] = "claim"]
          /\ UNCHANGED dropped
    /\ UNCHANGED <<lanes, payload, overrunLost, torn, pW, ticket, offered,
                   consumerVars, claimed, got>>

\* Atomics.add: the old value is the ticket.
Claim(p) ==
    /\ ppc[p] = "claim"
    /\ ticket' = [ticket EXCEPT ![p] = enqueueTicket]
    /\ enqueueTicket' = Inc(enqueueTicket)
    /\ claimed' = Append(claimed, <<p, offered[p]>>)
    /\ ppc' = [ppc EXCEPT ![p] = "writeLo"]
    /\ UNCHANGED <<dequeuePos, gen, payload, counters, pW, offered,
                   consumerVars, got>>

WriteLo(p) ==
    /\ ppc[p] = "writeLo"
    /\ lo' = [lo EXCEPT ![Slot(ticket[p])] = <<p, offered[p]>>]
    /\ ppc' = [ppc EXCEPT ![p] = "writeHi"]
    /\ UNCHANGED <<lanes, hi, counters, pW, ticket, offered, consumerVars,
                   claimed, got>>

WriteHi(p) ==
    /\ ppc[p] = "writeHi"
    /\ hi' = [hi EXCEPT ![Slot(ticket[p])] = <<p, offered[p]>>]
    /\ ppc' = [ppc EXCEPT ![p] = "publish"]
    /\ UNCHANGED <<lanes, lo, counters, pW, ticket, offered, consumerVars,
                   claimed, got>>

\* The release-store of the slot's generation.
Publish(p) ==
    /\ ppc[p] = "publish"
    /\ gen' = [gen EXCEPT ![Slot(ticket[p])] = ticket[p]]
    /\ ppc' = [ppc EXCEPT ![p] = "idle"]
    /\ UNCHANGED <<enqueueTicket, dequeuePos, payload, counters, pW, ticket,
                   offered, consumerVars, claimed, got>>

\* worker.terminate(), wherever the thread is.
Terminate(p) ==
    /\ p \in Mortal
    /\ ppc[p] # "dead"
    /\ ppc' = [ppc EXCEPT ![p] = "dead"]
    /\ UNCHANGED <<lanes, payload, counters, pW, ticket, offered,
                   consumerVars, claimed, got>>

-------------------------------------------------------------------------------
(* The consumer *)

\* pull: load of its own dequeuePos ...
StartPull ==
    /\ cpc = "idle"
    /\ D' = dequeuePos
    /\ cpc' = "loadTicket"
    /\ UNCHANGED <<lanes, payload, counters, producerVars, W, outLo, outHi,
                   claimed, got>>

\* Mutant: the frames still live are counted as lost too.
MissedAll == SignedDiff(enqueueTicket, D)

\* Frames older than the live window [enqueueTicket - Capacity, enqueueTicket).
Missed == SignedDiff(enqueueTicket, D) - Capacity

\* ... then of enqueueTicket.  The overload net: past the envelope the reader
\* jumps to the live window and counts what it passes over.
LoadTicket ==
    /\ cpc = "loadTicket"
    /\ W' = enqueueTicket
    /\ \/ /\ SignedDiff(enqueueTicket, D) > Capacity
          /\ D' = (enqueueTicket - Capacity) % Modulus
          /\ overrunLost' = overrunLost + Missed
       \/ /\ SignedDiff(enqueueTicket, D) <= Capacity
          /\ UNCHANGED <<D, overrunLost>>
    /\ cpc' = "loadGen"
    /\ UNCHANGED <<lanes, payload, dropped, torn, producerVars, outLo, outHi,
                   claimed, got>>

\* Mutant: a head that is not there yet is skipped.
SkipTheGap == Inc(D)

\* Where an empty pull leaves dequeuePos: at D, to look again next quantum.
AfterGap == D

\* The generation at the head says whether its frame is ready, has been
\* overwritten (skip it, counted), or is not there yet.
LoadGeneration ==
    /\ cpc = "loadGen"
    /\ LET d == SignedDiff(gen[Slot(D)], D)
       IN  \/ /\ d = 0
              /\ cpc' = "readLo"
              /\ UNCHANGED <<dequeuePos, overrunLost, torn>>
           \/ /\ d > 0
              /\ dequeuePos' = Inc(D)
              /\ overrunLost' = overrunLost + 1
              /\ torn' = torn + 1
              /\ cpc' = "idle"
           \/ /\ d < 0
              /\ dequeuePos' = AfterGap
              /\ cpc' = "idle"
              /\ UNCHANGED <<overrunLost, torn>>
    /\ UNCHANGED <<enqueueTicket, gen, payload, dropped, producerVars, D, W,
                   outLo, outHi, claimed, got>>

ReadLo ==
    /\ cpc = "readLo"
    /\ outLo' = lo[Slot(D)]
    /\ cpc' = "readHi"
    /\ UNCHANGED <<lanes, payload, counters, producerVars, D, W, outHi,
                   claimed, got>>

ReadHi ==
    /\ cpc = "readHi"
    /\ outHi' = hi[Slot(D)]
    /\ cpc' = "advance"
    /\ UNCHANGED <<lanes, payload, counters, producerVars, D, W, outLo,
                   claimed, got>>

\* The release-store of dequeuePos; the flow controller is fed W - D.
Advance ==
    /\ cpc = "advance"
    /\ dequeuePos' = Inc(D)
    /\ got' = Append(got, IF outLo = outHi THEN outLo ELSE Nothing)
    /\ cpc' = "idle"
    /\ UNCHANGED <<enqueueTicket, gen, payload, counters, producerVars, D, W,
                   outLo, outHi, claimed>>

-------------------------------------------------------------------------------
InPush(p) == CheckEnvelope(p) \/ Claim(p) \/ WriteLo(p) \/ WriteHi(p) \/ Publish(p)
Pull == StartPull \/ LoadTicket \/ LoadGeneration \/ ReadLo \/ ReadHi \/ Advance

Next ==
    \/ \E p \in Producers : StartPush(p) \/ InPush(p) \/ Terminate(p)
    \/ Pull

Spec == Init /\ [][Next]_vars

\* A push that has begun runs on, and the consumer polls every quantum.
FairSpec == Spec /\ (\A p \in Producers : WF_vars(InPush(p))) /\ WF_vars(Pull)

-------------------------------------------------------------------------------
(* Correctness *)

FrameOrNothing == {Nothing} \cup (Producers \X (1 .. MaxFrames))

\* Every lane, generation, payload half and local of the producers and the
\* consumer has its type, the wrapped tickets included.
TypeOK ==
    /\ enqueueTicket \in Lane /\ dequeuePos \in Lane /\ gen \in [Slots -> Lane]
    /\ lo \in [Slots -> FrameOrNothing] /\ hi \in [Slots -> FrameOrNothing]
    /\ dropped \in Nat /\ overrunLost \in Nat /\ torn \in Nat
    /\ ppc \in [Producers -> {"idle", "check", "claim", "writeLo", "writeHi",
                              "publish", "dead"}]
    /\ pW \in [Producers -> Lane] /\ ticket \in [Producers -> Lane]
    /\ offered \in [Producers -> 0 .. MaxFrames]
    /\ cpc \in {"idle", "loadTicket", "loadGen", "readLo", "readHi", "advance"}
    /\ D \in Lane /\ W \in Lane
    /\ outLo \in FrameOrNothing /\ outHi \in FrameOrNothing
    /\ claimed \in Seq(Producers \X (1 .. MaxFrames))
    /\ got \in Seq(FrameOrNothing)

\* Frames claimed and not yet consumed.
InFlight == SignedDiff(enqueueTicket, dequeuePos)

\* SLACK makes up for check and fetch-add being two steps: however the producers
\* interleave, and wherever one dies, no more than a ring is ever in flight and
\* the consumer's overload net never fires.
EnvelopeHolds == InFlight \in 0 .. Capacity /\ overrunLost = 0 /\ torn = 0

\* A producer about to write a slot, or writing it, is alone in it: the frame of
\* the lap before is consumed and no other producer holds a ticket of that slot.
SlotIsMine ==
    \A p \in Producers : ppc[p] \in {"writeLo", "writeHi", "publish"} =>
        /\ SignedDiff(ticket[p], dequeuePos) \in 0 .. Capacity - 1
        /\ \A q \in Producers \ {p} :
               ppc[q] \in {"writeLo", "writeHi", "publish"} =>
                   Slot(ticket[q]) # Slot(ticket[p])

\* A frame handed out is whole and is the one its ticket was claimed for.
DeliversWholeFrame ==
    cpc = "advance" =>
        /\ Len(got) < Len(claimed)
        /\ outLo = claimed[Len(got) + 1] /\ outHi = claimed[Len(got) + 1]

\* With every producer between pushes, a full ring has its head committed: pushes
\* that are all refused and pulls that all ride a gap cannot go on for ever.
NoWedge ==
    (\A p \in Producers : ppc[p] = "idle") /\ InFlight = Capacity =>
        SignedDiff(gen[Slot(dequeuePos)], dequeuePos) >= 0

\* The overload net's loss is counted: between pulls, every ticket dequeuePos has
\* passed was delivered or is in overrun_lost, also in a ring whose producers
\* outnumber producerCount.
LossIsCounted ==
    cpc = "idle" => SignedDiff(dequeuePos, Seed) = Len(got) + overrunLost

\* What p numbered its claimed frames.
NumbersOf(p) == {claimed[i][2] : i \in {j \in 1 .. Len(claimed) : claimed[j][1] = p}}

\* The ring is one FIFO of all producers: a frame enters it at the fetch-add,
\* leaves it at the store of dequeuePos, and is refused at the load of it.
Fifo == INSTANCE FanInFifo WITH
    Numbers <- 1 .. MaxFrames,
    queue <- SubSeq(claimed, Len(got) + 1, Len(claimed)),
    delivered <- got,
    last <- [p \in Producers |-> Max({0} \cup NumbersOf(p))],
    refused <- dropped

ImplementsFanInFifo == Fifo!Spec

\* Unless a producer dies in a push, every claimed frame reaches the consumer: a
\* head-of-line gap is closed by the producer that owns it.
ClaimedIsDelivered ==
    []<>(Len(got) = Len(claimed) \/ \E p \in Producers : ppc[p] = "dead")
===============================================================================
