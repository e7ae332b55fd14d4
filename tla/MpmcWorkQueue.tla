---------------------------- MODULE MpmcWorkQueue -----------------------------
(***************************************************************************)
(* MpmcWorkQueue.ts: producers and consumers compete for one ring, every   *)
(* frame for one consumer.  Both ends claim tickets by fetch-add; a slot's *)
(* stamp hands it from the producer of a ticket to its consumer and on to  *)
(* the next lap's producer.  Producers advance the delivered frontier, by  *)
(* a scan and an unguarded store, and measure the room in the ring by it.  *)
(* A thread's step is one access to shared memory; a payload is written    *)
(* and read in one, SlotsAreExclusive saying that it may be.               *)
(***************************************************************************)
EXTENDS Int32Lanes, FiniteSets, Sequences, SequencesExt

CONSTANTS
    Producers, Consumers,
    ProducerCount,  \* opts.producerCount, which should be their number
    Seed,           \* tickets already used (and delivered) at the start
    MaxFrames       \* bound: frames one producer offers

\* validate(); and a queue that still worked when the history starts.
ASSUME WorkQueueAssumption ==
    /\ IsFiniteSet(Producers) /\ IsFiniteSet(Consumers)
    /\ Capacity >= 2
    /\ ProducerCount \in Nat \ {0} /\ ProducerCount - 1 < Capacity
    /\ Seed \in 0 .. Half - 1
    /\ MaxFrames \in Nat
    /\ 2 * (MaxFrames * Cardinality(Producers) + Cardinality(Consumers) + 2 * Capacity)
           < Modulus

VARIABLES
    \* the SharedArrayBuffer
    enqueueTicket, dequeueTicket, frontier, gen, data, closed,
    dropped, stranded, tornGuarded,     \* telemetry lanes
    \* each producer thread
    ppc, offered,
    at,             \* the ticket it is at: f while it scans, then W, then its own
    scanned,
    \* each consumer thread: its call, and the claim its instance holds
    cpc, cR, hasHeld, held, out,
    \* history
    claimed,        \* frames in ticket order
    got             \* frames each consumer was handed, in order

lanes == <<enqueueTicket, dequeueTicket, frontier, closed>>
slots == <<gen, data>>
counters == <<dropped, stranded, tornGuarded>>
producerVars == <<ppc, offered, at, scanned>>
consumerVars == <<cpc, cR, hasHeld, held, out>>
vars == <<lanes, slots, counters, producerVars, consumerVars, claimed, got>>

Nothing == <<>>
Slack == ProducerCount - 1
Add(t, n) == (t + n) % Modulus
After(pc, p, next) == [pc EXCEPT ![p] = next]

\* initLayout, or a later state in which everything claimed was delivered and the
\* frontier has been brought up to date: Free(t) in the slot of each next ticket.
Init ==
    /\ enqueueTicket = Seed /\ dequeueTicket = Seed /\ frontier = Seed
    /\ gen \in [Slots -> Lane]
    /\ \A i \in Slots : gen[Slot(Seed + i)] = Add(Seed, i)
    /\ data = [s \in Slots |-> Nothing] /\ closed = FALSE
    /\ dropped = 0 /\ stranded = 0 /\ tornGuarded = 0
    /\ ppc = [p \in Producers |-> "idle"]
    /\ offered = [p \in Producers |-> 0]
    /\ at = [p \in Producers |-> Seed] /\ scanned = [p \in Producers |-> 0]
    /\ cpc = [c \in Consumers |-> "idle"] /\ cR = [c \in Consumers |-> Seed]
    /\ hasHeld = [c \in Consumers |-> FALSE] /\ held = [c \in Consumers |-> Seed]
    /\ out = [c \in Consumers |-> Nothing]
    /\ claimed = <<>> /\ got = [c \in Consumers |-> <<>>]

-------------------------------------------------------------------------------
(* A producer p *)

\* push, which first calls advanceFrontier: load of the frontier ...
StartPush(p) ==
    /\ ppc[p] = "idle" /\ ~closed       \* nobody pushes after close()
    /\ offered[p] < MaxFrames
    /\ offered' = [offered EXCEPT ![p] = @ + 1]
    /\ at' = [at EXCEPT ![p] = frontier]
    /\ ppc' = After(ppc, p, "scan")
    /\ UNCHANGED <<lanes, slots, counters, scanned, consumerVars, claimed, got>>

Freed(t) == SignedDiff(gen[Slot(t)], Add(t, Capacity)) >= 0

\* ... a walk over freed slots, at most Capacity of them ...
Scan(p) ==
    /\ ppc[p] = "scan"
    /\ \/ /\ scanned[p] < Capacity /\ Freed(at[p])
          /\ at' = [at EXCEPT ![p] = Inc(@)]
          /\ scanned' = [scanned EXCEPT ![p] = @ + 1]
          /\ UNCHANGED ppc
       \/ /\ scanned[p] = Capacity \/ ~Freed(at[p])
          /\ scanned' = [scanned EXCEPT ![p] = 0]
          /\ ppc' = After(ppc, p, IF scanned[p] = 0 THEN "loadTicket" ELSE "compare")
          /\ UNCHANGED at
    /\ UNCHANGED <<lanes, slots, counters, offered, consumerVars, claimed, got>>

\* ... and, if the lane is behind what was found, a plain store of it, which may
\* by then set the lane back.
CompareFrontier(p) ==
    /\ ppc[p] = "compare"
    /\ ppc' = After(ppc, p, IF SignedDiff(at[p], frontier) > 0
                            THEN "storeFrontier" ELSE "loadTicket")
    /\ UNCHANGED <<lanes, slots, counters, offered, at, scanned,
                   consumerVars, claimed, got>>

StoreFrontier(p) ==
    /\ ppc[p] = "storeFrontier"
    /\ frontier' = at[p]
    /\ ppc' = After(ppc, p, "loadTicket")
    /\ UNCHANGED <<enqueueTicket, dequeueTicket, closed, slots, counters, offered,
                   at, scanned, consumerVars, claimed, got>>

LoadTicket(p) ==
    /\ ppc[p] = "loadTicket"
    /\ at' = [at EXCEPT ![p] = enqueueTicket]
    /\ ppc' = After(ppc, p, "check")
    /\ UNCHANGED <<lanes, slots, counters, offered, scanned,
                   consumerVars, claimed, got>>

\* Mutant: SLACK forgotten.
AtLimitWithoutSlack(w) == SignedDiff(w, frontier) >= Capacity

AtLimit(w) == SignedDiff(w, frontier) >= Capacity - Slack

\* The reuse envelope: drop before a ticket is claimed.
CheckEnvelope(p) ==
    /\ ppc[p] = "check"
    /\ \/ AtLimit(at[p]) /\ dropped' = dropped + 1 /\ ppc' = After(ppc, p, "idle")
       \/ ~AtLimit(at[p]) /\ ppc' = After(ppc, p, "claim") /\ UNCHANGED dropped
    /\ UNCHANGED <<lanes, slots, stranded, tornGuarded, offered, at, scanned,
                   consumerVars, claimed, got>>

Claim(p) ==
    /\ ppc[p] = "claim"
    /\ at' = [at EXCEPT ![p] = enqueueTicket]
    /\ enqueueTicket' = Inc(enqueueTicket)
    /\ claimed' = Append(claimed, <<p, offered[p]>>)
    /\ ppc' = After(ppc, p, "write")
    /\ UNCHANGED <<dequeueTicket, frontier, closed, slots, counters, offered,
                   scanned, consumerVars, got>>

Write(p) ==
    /\ ppc[p] = "write"
    /\ data' = [data EXCEPT ![Slot(at[p])] = <<p, offered[p]>>]
    /\ ppc' = After(ppc, p, "publish")
    /\ UNCHANGED <<lanes, gen, counters, offered, at, scanned,
                   consumerVars, claimed, got>>

\* The release-store of Complete(ticket).
Publish(p) ==
    /\ ppc[p] = "publish"
    /\ gen' = [gen EXCEPT ![Slot(at[p])] = Inc(at[p])]
    /\ ppc' = After(ppc, p, "idle")
    /\ UNCHANGED <<lanes, data, counters, offered, at, scanned,
                   consumerVars, claimed, got>>

\* close(), by the coordinator, once no producer will claim another ticket; one
\* that has claimed may still be writing.
Close ==
    /\ ~closed
    /\ \A p \in Producers : ppc[p] \in {"idle", "write", "publish"}
    /\ closed' = TRUE
    /\ UNCHANGED <<enqueueTicket, dequeueTicket, frontier, slots, counters,
                   producerVars, consumerVars, claimed, got>>

-------------------------------------------------------------------------------
(* A consumer c *)

\* pull: a held claim is looked at again, otherwise claimTicket loads the
\* dequeue ticket ...
StartPull(c) ==
    /\ cpc[c] = "idle"
    /\ IF hasHeld[c]
       THEN cpc' = After(cpc, c, "loadGen") /\ UNCHANGED cR
       ELSE cpc' = After(cpc, c, "peek") /\ cR' = [cR EXCEPT ![c] = dequeueTicket]
    /\ UNCHANGED <<lanes, slots, counters, producerVars, hasHeld, held, out,
                   claimed, got>>

\* ... then the enqueue ticket, ...
Peek(c) ==
    /\ cpc[c] = "peek"
    /\ cpc' = After(cpc, c, IF SignedDiff(enqueueTicket, cR[c]) <= 0
                            THEN "idle" ELSE "claim")
    /\ UNCHANGED <<lanes, slots, counters, producerVars, cR, hasHeld, held, out,
                   claimed, got>>

\* Mutant: the claim is the ticket that was peeked.
PeekedTicket(c) == cR[c]

ClaimedTicket(c) == dequeueTicket

\* ... and claims one by fetch-add.  pull takes a negative result for "empty".
ClaimNext(c) ==
    /\ cpc[c] = "claim"
    /\ dequeueTicket' = Inc(dequeueTicket)
    /\ IF AsInt32(ClaimedTicket(c)) < 0
       THEN cpc' = After(cpc, c, "idle") /\ UNCHANGED <<hasHeld, held>>
       ELSE /\ cpc' = After(cpc, c, "loadGen")
            /\ hasHeld' = [hasHeld EXCEPT ![c] = TRUE]
            /\ held' = [held EXCEPT ![c] = ClaimedTicket(c)]
    /\ UNCHANGED <<enqueueTicket, frontier, closed, slots, counters,
                   producerVars, cR, out, claimed, got>>

Release(c) == hasHeld' = [hasHeld EXCEPT ![c] = FALSE]

\* Mutant: a frame that is not there yet is skipped.
SkipsHole(c) == Release(c)

\* A claim whose frame is not published yet is kept for the next pull.
Holds(c) == UNCHANGED hasHeld

\* The stamp: the frame is there, the slot was reused (never, inside the
\* envelope), or the frame is not there yet.
LoadStamp(c) ==
    /\ cpc[c] = "loadGen"
    /\ LET d == SignedDiff(gen[Slot(held[c])], Inc(held[c]))
       IN  \/ /\ d = 0
              /\ cpc' = After(cpc, c, "read")
              /\ UNCHANGED <<hasHeld, tornGuarded>>
           \/ /\ d > 0
              /\ tornGuarded' = tornGuarded + 1
              /\ Release(c)
              /\ cpc' = After(cpc, c, "idle")
           \/ /\ d < 0
              /\ Holds(c)
              /\ cpc' = After(cpc, c, "loadClosed")
              /\ UNCHANGED tornGuarded
    /\ UNCHANGED <<lanes, slots, dropped, stranded, producerVars, cR, held, out,
                   claimed, got>>

Read(c) ==
    /\ cpc[c] = "read"
    /\ out' = [out EXCEPT ![c] = data[Slot(held[c])]]
    /\ cpc' = After(cpc, c, "free")
    /\ UNCHANGED <<lanes, slots, counters, producerVars, cR, hasHeld, held,
                   claimed, got>>

\* The release-store of Free(held + Capacity); the frame is delivered.
FreeSlot(c) ==
    /\ cpc[c] = "free"
    /\ gen' = [gen EXCEPT ![Slot(held[c])] = Add(held[c], Capacity)]
    /\ got' = [got EXCEPT ![c] = Append(@, out[c])]
    /\ Release(c)
    /\ cpc' = After(cpc, c, "idle")
    /\ UNCHANGED <<lanes, data, counters, producerVars, cR, held, out, claimed>>

\* End of stream, for a claim that is held: load of closed ...
LoadClosed(c) ==
    /\ cpc[c] = "loadClosed"
    /\ cpc' = After(cpc, c, IF closed THEN "loadFinal" ELSE "idle")
    /\ UNCHANGED <<lanes, slots, counters, producerVars, cR, hasHeld, held, out,
                   claimed, got>>

\* Mutants: an off-by-one that releases the last frame's claim; one that keeps
\* the first strand.
StrandedEarly(c) == SignedDiff(held[c], enqueueTicket) >= 0 - 1
StrandedLate(c) == SignedDiff(held[c], enqueueTicket) > 0

Stranded(c) == SignedDiff(held[c], enqueueTicket) >= 0

\* ... and of the final enqueue ticket: a claim nobody will fill is released.
LoadFinal(c) ==
    /\ cpc[c] = "loadFinal"
    /\ IF Stranded(c)
       THEN Release(c) /\ stranded' = stranded + 1
       ELSE UNCHANGED <<hasHeld, stranded>>
    /\ cpc' = After(cpc, c, "idle")
    /\ UNCHANGED <<lanes, slots, dropped, tornGuarded, producerVars, cR, held,
                   out, claimed, got>>

-------------------------------------------------------------------------------
InPush(p) ==
    \/ Scan(p) \/ CompareFrontier(p) \/ StoreFrontier(p) \/ LoadTicket(p)
    \/ CheckEnvelope(p) \/ Claim(p) \/ Write(p) \/ Publish(p)

Pull(c) ==
    \/ StartPull(c) \/ Peek(c) \/ ClaimNext(c) \/ LoadStamp(c) \/ Read(c)
    \/ FreeSlot(c) \/ LoadClosed(c) \/ LoadFinal(c)

Next ==
    \/ \E p \in Producers : StartPush(p) \/ InPush(p)
    \/ Close
    \/ \E c \in Consumers : Pull(c)

Spec == Init /\ [][Next]_vars

\* A push that has begun runs on, and every consumer keeps polling.
FairSpec ==
    /\ Spec
    /\ \A p \in Producers : WF_vars(InPush(p))
    /\ \A c \in Consumers : WF_vars(Pull(c))

-------------------------------------------------------------------------------
(* Correctness *)

Frames == Producers \X (1 .. MaxFrames)

\* The lanes, stamps, held claims and locals of the competing threads have their
\* types.
TypeOK ==
    /\ enqueueTicket \in Lane /\ dequeueTicket \in Lane /\ frontier \in Lane
    /\ gen \in [Slots -> Lane] /\ data \in [Slots -> Frames \cup {Nothing}]
    /\ closed \in BOOLEAN
    /\ dropped \in Nat /\ stranded \in Nat /\ tornGuarded \in Nat
    /\ ppc \in [Producers -> {"idle", "scan", "compare", "storeFrontier",
                    "loadTicket", "check", "claim", "write", "publish"}]
    /\ offered \in [Producers -> 0 .. MaxFrames]
    /\ at \in [Producers -> Lane] /\ scanned \in [Producers -> 0 .. Capacity]
    /\ cpc \in [Consumers -> {"idle", "peek", "claim", "loadGen", "read", "free",
                    "loadClosed", "loadFinal"}]
    /\ cR \in [Consumers -> Lane] /\ held \in [Consumers -> Lane]
    /\ hasHeld \in [Consumers -> BOOLEAN]
    /\ out \in [Consumers -> Frames \cup {Nothing}]
    /\ claimed \in Seq(Frames) /\ got \in [Consumers -> Seq(Frames)]

Writing(p) == ppc[p] \in {"write", "publish"}
Reading(c) == cpc[c] \in {"read", "free"}

\* The envelope stands in for looking at one's own stamp: a producer that has
\* claimed a ticket finds its slot stamped free for exactly that ticket, so it is
\* in the slot with no consumer and no other producer, although the frontier it
\* went by is stored without a guard and may be set back.
SlotsAreExclusive ==
    /\ \A p \in Producers : Writing(p) => gen[Slot(at[p])] = at[p]
    /\ \A c \in Consumers : Reading(c) => gen[Slot(held[c])] = Inc(held[c])
    /\ tornGuarded = 0

Delivered == {claimed[i] : i \in 1 .. Len(claimed)} \cap
             UNION {Range(got[c]) : c \in Consumers}

\* advanceFrontier never passes an undelivered ticket: frames below the frontier
\* have all been handed out.
FrontierIsDelivered ==
    \A i \in 1 .. Len(claimed) :
        SignedDiff(frontier, Seed) >= i => claimed[i] \in Delivered

\* Every dequeue ticket ever claimed was delivered, guarded, stranded, or is
\* still held: a claim is never dropped without a trace.
ClaimsAccounted ==
    SignedDiff(dequeueTicket, Seed) =
        FoldSet(LAMBDA c, n : n + Len(got[c]) + (IF hasHeld[c] THEN 1 ELSE 0),
                stranded + tornGuarded, Consumers)

\* strandedClaims stays below the number of consumers.
FewStrands == stranded < Cardinality(Consumers)

Drained(c) ==
    /\ ~hasHeld[c] /\ cpc[c] = "idle" /\ closed
    /\ SignedDiff(enqueueTicket, dequeueTicket) <= 0

\* When isDrained is true of every consumer, every frame claimed by a producer
\* has been delivered: no strand that was released held a frame.
DrainedMeansDelivered ==
    (\A c \in Consumers : Drained(c)) => \A i \in 1 .. Len(claimed) : claimed[i] \in Delivered

\* What p numbered its claimed frames.
NumbersOf(p) == {claimed[i][2] : i \in {j \in 1 .. Len(claimed) : claimed[j][1] = p}}

\* The queue is a pool: a frame enters it at the producer's fetch-add and leaves
\* it, to one consumer, at the store that frees its slot.
Pool == INSTANCE WorkPool WITH
    Numbers <- 1 .. MaxFrames,
    pool <- {claimed[i] : i \in 1 .. Len(claimed)} \ Delivered,
    handed <- got,
    last <- [p \in Producers |-> Max({0} \cup NumbersOf(p))]

ImplementsWorkPool == Pool!Spec

\* A claimed ticket's frame reaches a consumer while all of them keep polling.
ClaimedIsDelivered ==
    \A n \in 1 .. MaxFrames * Cardinality(Producers) :
        Len(claimed) >= n ~> Cardinality(Delivered) >= n

\* After close() every consumer comes to report isDrained: no strand hangs one.
DrainsAfterClose == \A c \in Consumers : closed ~> Drained(c)

\* The class comment (MpmcWorkQueue.ts:205): a published frame is never orphaned,
\* it can still be claimed, or somebody holds its ticket, or it was delivered.
NeverOrphaned ==
    \A i \in 1 .. Len(claimed) :
        \/ claimed[i] \in Delivered
        \/ SignedDiff(dequeueTicket, Seed) < i
        \/ \E c \in Consumers : hasHeld[c] /\ held[c] = Add(Seed, i - 1)

\* The class comment (MpmcWorkQueue.ts:144): enqueueTicket never passes the
\* frontier by more than CAPACITY.
WithinRingOfFrontier == SignedDiff(enqueueTicket, frontier) <= Capacity
===============================================================================
