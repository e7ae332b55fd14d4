----------------------------- MODULE MCTopologies ------------------------------
(***************************************************************************)
(* The inputs of the declarative topologies, small enough for TLC.            *)
(***************************************************************************)
EXTENDS ConnectGraph, Connect, MigratePlan

CONSTANTS n1, n2, n3, t1, t2

(***************************************************************************)
(* ConnectGraph: graphs over three nodes: chains, fans, diamonds, parallel    *)
(* edges, cycles of two and three nodes, and edges that are to be refused.    *)
(***************************************************************************)
MCNodes == {n1, n2, n3}
MCPowers == {1, 2, 4, 8, 16}

Short == [latency |-> 2, frame |-> 1]
Long == [latency |-> 8, frame |-> 2]
Named == [latency |-> 0, frame |-> 0]

Draft(kind, from, to, hint) ==
    [kind |-> kind, from |-> from, to |-> to, capacity |-> 0, hint |-> hint,
     policy |-> "none", backend |-> "none"]

MCDrafts ==
    {Draft("spsc", <<p[1]>>, <<p[2]>>, Short) : p \in MCNodes \X MCNodes}
    \cup {Draft("spsc", <<p[1]>>, <<p[2]>>, Named) : p \in {<<n1, n2>>, <<n2, n3>>}}
    \cup {Draft(kind, <<n1, n2>>, <<n3>>, Long) : kind \in {"spsc", "mpmc", "mpmc-wq"}}
    \cup {Draft(kind, <<n3>>, to, Short) : kind \in {"spmc", "mpmc-wq"},
                                           to \in {<<n1, n2>>, <<n2, n2>>}}
    \cup {[Draft("mpmc-wq", <<n1>>, <<n2, n3>>, Short) EXCEPT !.backend = "wasm"],
          [Draft("mpmc", <<n3, n2>>, <<n1>>, Short) EXCEPT !.capacity = 3],
          [Draft("spsc", <<n1>>, <<n2>>, Short) EXCEPT !.policy = "block"]}

(***************************************************************************)
(* Connect: schemas with fields of all widths that fill frames of the same    *)
(* size in different ways; blocks and control frames; budgets that memory      *)
(* cuts short.                                                             *)
(***************************************************************************)
MCBalanced == [macro |-> 4, input |-> 8]

Field(name, kind, length) ==
    [name |-> name, kind |-> kind, length |-> length, circular |-> FALSE]
Schema(fields) == [fields |-> fields, stamp |-> "t", invariant |-> FALSE]

Time == Field("t", "f64", 0)
Mixed == Schema(<<Field("a", "u8", 0), Time, Field("b", "u16", 0), Field("c", "f32", 0)>>)
Moved == Schema(<<Field("c", "f32", 0), Field("b", "u16", 0), Field("a", "u8", 0), Time>>)
Swapped == Schema(<<Field("b", "u8", 0), Time, Field("a", "u16", 0), Field("c", "f32", 0)>>)
Block == Schema(<<Time, Field("pcm", "f32", 2)>>)
Guarded1 == [Schema(<<Time>>) EXCEPT !.invariant = TRUE]
Pair == Schema(<<Time, Field("c", "f32", 0), Field("d", "f32", 0)>>)
Reversed == Schema(<<Field("d", "f32", 0), Field("c", "f32", 0), Time>>)
Turning == Schema(<<Time, [Field("c", "f32", 0) EXCEPT !.circular = TRUE], Field("d", "f32", 0)>>)

MCSchemas == {Mixed, Moved, Swapped, Block, Guarded1, Pair, Reversed, Turning}

Ring(schema, capacity, policy) ==
    [schema |-> schema, capacity |-> capacity, policy |-> policy]
Budget(latency, period, maxBytes) ==
    [latency |-> latency, period |-> period, quantum |-> 4, maxBytes |-> maxBytes]

MCOffers ==
    [macro : {Ring(s, c, p) : s \in MCSchemas, c \in {0, 3}, p \in {"none", "block"}},
     input : {NoLane, Ring(Pair, 0, "none"), Ring(Block, 0, "drop-oldest")},
     budget : {Budget(6, 0, 0), Budget(6, 2, 40), Budget(9, 1, 100)},
     fallback : BOOLEAN]

(***************************************************************************)
(* MigratePlan: the layouts of two fields, with their renames, that patches    *)
(* migrate between.                                                        *)
(***************************************************************************)
\* A number, a counter, a block and a trajectory: none blends with another.
MCShapes == {[kind |-> "f32", length |-> 0, order |-> 0], [kind |-> "u64", length |-> 0, order |-> 0],
             [kind |-> "f32", length |-> 2, order |-> 0], [kind |-> "f32", length |-> 2, order |-> 1]}
MCPatches == UNION {[names -> MCShapes] : names \in SUBSET {"x", "y"}}
MCRenames == UNION {[names -> {"x", "y"}] : names \in SUBSET {"x", "y"}}

\* Between any two of these patches.
ASSUME MigrationAssumption ==
    \A old, new \in MCPatches, rename \in MCRenames : IsRename(old, new, rename) =>
        /\ EveryFieldIsPlanned(old, new, rename)
        /\ NamesMove(new, rename) => DropsAreSilent(old, new, rename)
===============================================================================
