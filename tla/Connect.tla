-------------------------------- MODULE Connect --------------------------------
(***************************************************************************)
(* connect.ts: one thread sizes and allocates a macro ring and, maybe, an     *)
(* input ring, and posts the handle; every thread mounts its ends with a       *)
(* schema of its own, which has to lay out a frame as the allocator's does.    *)
(***************************************************************************)
EXTENDS SchemaLayout, EdgeSizing

CONSTANTS
    Offers,         \* what may be asked for: [macro, input, budget, fallback]
    Balanced,       \* HINT_TABLE.balanced
    MountSchemas,   \* the schemas threads may have imported
    Threads, NoLane

Lanes == {"macro", "input"}

ASSUME ConnectAssumption ==
    /\ Balanced \in [Lanes -> Powers]
    /\ \A schema \in MountSchemas : IsSchema(schema)
    /\ NoLane \notin {"turbo", "standard", "refused"}

VARIABLES
    mode,       \* NoLane until connect() has returned or thrown
    lane,       \* the handle: capacity, layout, policy and budget of each lane
    ends        \* what the threads have mounted

connectVars == <<mode, lane, ends>>

ConnectInit == mode = NoLane /\ lane = [l \in Lanes |-> NoLane] /\ ends = {}

-------------------------------------------------------------------------------
(* Sizing *)

\* The largest ring not above capacity that fits the memory allowed, and one frame.
Guarded(capacity, bytes, limit) ==
    IF limit = 0 THEN capacity
    ELSE Max({1} \cup {p \in Powers : p <= capacity /\ p * bytes <= limit})

\* resolveFromBudget.  Times are in samples; a period or limit of 0 is not given.
Target(schema, budget) ==
    LET CeilDiv(x, y) == (x + y - 1) \div y
        samples == BlockSamples(schema)
    IN  IF samples # 0
        THEN Max({CeilDiv(budget.latency, samples), CeilDiv(budget.quantum, samples)})
        ELSE CeilDiv(budget.latency, budget.period)

FromBudget(schema, budget) == BlockSamples(schema) # 0 \/ budget.period # 0

ResolveRing(ring, l, budget) ==
    IF ring.capacity # 0 THEN NextPow2(ring.capacity)
    ELSE IF ~FromBudget(ring.schema, budget) THEN Balanced[l]
    ELSE LET capacity == NextPow2(Max({1, Target(ring.schema, budget)}))
         IN  Guarded(IF l = "input" THEN Max({capacity, Balanced[l]}) ELSE capacity,
                     Layout(ring.schema).frameByteSize, budget.maxBytes)

-------------------------------------------------------------------------------
(* connect() *)

\* A message channel has no room for an invariant and only evicts the oldest.
FitsStandard(ring) == ~ring.schema.invariant /\ ring.policy \in {"none", "drop-oldest"}

HandleFor(ring, l, budget) ==
    [capacity |-> ResolveRing(ring, l, budget), policy |-> ring.policy,
     layout |-> Layout(ring.schema), schema |-> ring.schema, budget |-> budget,
     asked |-> ring.capacity]

\* suggested is the report's mode for this environment.
Connect(offer, suggested) ==
    LET rings == [l \in Lanes |-> IF l = "macro" THEN offer.macro ELSE offer.input]
        asked == {l \in Lanes : rings[l] # NoLane}
        refused == \/ suggested = "unsupported"
                   \/ suggested = "standard"
                      /\ (~offer.fallback \/ \E l \in asked : ~FitsStandard(rings[l]))
    IN  /\ mode = NoLane
        /\ mode' = IF refused THEN "refused" ELSE suggested
        /\ lane' = [l \in Lanes |-> IF refused \/ l \notin asked THEN NoLane
                                    ELSE HandleFor(rings[l], l, offer.budget)]
        /\ UNCHANGED ends

\* A schema a thread has imported is compiled once.
LayoutOf == [schema \in MountSchemas |-> Layout(schema)]

\* mountRing
Mounts(l, schema) == schema # NoLane /\ LayoutMatches(LayoutOf[schema], lane[l].layout)

\* A thread gets all of its ends or, after an error, none.
Mount(t, macroSchema, inputSchema) ==
    /\ mode \in {"turbo", "standard"}
    /\ Mounts("macro", macroSchema)
    /\ lane["input"] # NoLane => Mounts("input", inputSchema)
    /\ ends' = ends \cup {[thread |-> t, lane |-> "macro", schema |-> macroSchema]}
                    \cup IF lane["input"] = NoLane THEN {}
                         ELSE {[thread |-> t, lane |-> "input", schema |-> inputSchema]}
    /\ UNCHANGED <<mode, lane>>

ConnectNext ==
    \/ \E offer \in Offers, suggested \in {"turbo", "standard", "unsupported"} :
           Connect(offer, suggested)
    \/ \E t \in Threads, macroSchema \in MountSchemas,
          inputSchema \in MountSchemas \cup {NoLane} : Mount(t, macroSchema, inputSchema)

ConnectSpec == ConnectInit /\ [][ConnectNext]_connectVars

-------------------------------------------------------------------------------
(* Correctness *)

\* The bytes of a frame that belong to a field.
Span(f) == f.byteOffset .. f.byteOffset + Bytes(f) - 1

\* No two fields share a byte, cross the frame's end or lie where a typed array cannot.
FieldsFit(layout) ==
    \A f \in layout.fields :
        /\ f.byteOffset % KindBytes[f.kind] = 0
        /\ Span(f) \subseteq 0 .. layout.frameByteSize - 1
        /\ layout.invariantByteOffset \notin Span(f)
        /\ \A g \in layout.fields \ {f} : Span(f) \cap Span(g) = {}

\* The same fields, each of the same bytes and kind.
SameBytes(layout, other) ==
    /\ layout.frameByteSize = other.frameByteSize
    /\ {f.name : f \in layout.fields} = {f.name : f \in other.fields}
    /\ \A f \in layout.fields, g \in other.fields :
           f.name = g.name => f.kind = g.kind /\ Span(f) = Span(g)

\* Whatever schemas the threads have imported: each reads a field from the very
\* bytes, and as the kind, that any other writes it, and these are the field's alone.
EndsAgreeOnBytes ==
    \A e \in ends :
        /\ FieldsFit(LayoutOf[e.schema])
        /\ \A d \in ends : d.lane = e.lane => SameBytes(LayoutOf[e.schema], LayoutOf[d.schema])

\* A ring sized by a budget holds the latency asked for and fits the memory allowed;
\* if it cannot do both it is the largest that fits.
BudgetIsKept ==
    \A l \in Lanes : lane[l] # NoLane =>
        LET h == lane[l]
            frames == [b \in Powers |-> b * h.layout.frameByteSize]
            fits(n) == h.budget.maxBytes = 0 \/ frames[n] <= h.budget.maxBytes
        IN  h.asked = 0 /\ FromBudget(h.schema, h.budget) =>
                /\ h.capacity = 1 \/ fits(h.capacity)
                /\ \/ h.capacity >= Target(h.schema, h.budget)
                   \/ h.capacity = Max(Powers) \/ ~fits(2 * h.capacity)

\* Mounted schemas mean the same, down to what is circular.
EndsAgreeOnMeaning ==
    \A e \in ends : LayoutOf[e.schema] = lane[e.lane].layout
===============================================================================
