----------------------------- MODULE ConnectGraph -----------------------------
(***************************************************************************)
(* connectGraph.ts: a graph of nodes and typed edges is checked, sorted by   *)
(* Kahn's algorithm, its rings are allocated by the constructors of their    *)
(* kinds, and every node mounts the ends of its edges, on its own thread and  *)
(* as often as it is started.                                               *)
(***************************************************************************)
EXTENDS EdgeSizing, Sequences, SequencesExt

CONSTANTS
    Nodes,          \* spec.nodes
    Drafts,         \* the edges a caller may write down, with nodes of any name
    MaxEdges        \* bound: edges of a graph

ASSUME GraphAssumption ==
    /\ IsFiniteSet(Nodes) /\ Nodes # {} /\ MaxEdges \in Nat
    /\ \A e \in Drafts : /\ e.kind \in {"spsc", "mpmc", "spmc", "mpmc-wq"}
                         /\ e.from \in Seq(ToSet(e.from)) /\ e.to \in Seq(ToSet(e.to))
                         /\ e.capacity \in Nat /\ e.hint \in [latency : Nat, frame : Nat]

VARIABLES
    stage,
    edges,                      \* normalized
    indegree, ready, order,     \* Kahn's table, queue and result
    handles,                    \* of the edges allocated so far
    criticalPath,
    mounted                     \* the ends the nodes have mounted

graphVars == <<stage, edges, indegree, ready, order, handles, criticalPath, mounted>>

sorting == <<indegree, ready, order>>

GraphInit ==
    /\ stage = "checking" /\ edges = <<>>
    /\ indegree = [n \in Nodes |-> 0] /\ ready = {} /\ order = <<>>
    /\ handles = <<>> /\ criticalPath = 0 /\ mounted = {}

-------------------------------------------------------------------------------
(* Checking *)

\* 1 -> 1, N -> 1, 1 -> N and N -> M.
ArityFits(e) ==
    /\ e.from # <<>> /\ e.to # <<>>
    /\ e.kind \in {"spsc", "spmc"} => Len(e.from) = 1
    /\ e.kind \in {"spsc", "mpmc"} => Len(e.to) = 1

Distinct(side) == Cardinality(ToSet(side)) = Len(side)

Admissible(e) ==
    /\ ArityFits(e)
    /\ ToSet(e.from) \cup ToSet(e.to) \subseteq Nodes
    /\ ToSet(e.from) \cap ToSet(e.to) = {}
    /\ Distinct(e.from) /\ Distinct(e.to)
    /\ e.policy # "none" => e.kind = "spsc" /\ e.policy # "block"
    /\ e.backend # "none" => e.kind = "mpmc-wq"

\* normalizeEdge: the first edge that does not fit ends it all.
Declare(e) ==
    /\ stage = "checking" /\ Len(edges) < MaxEdges
    /\ IF Admissible(e) THEN edges' = Append(edges, e) /\ UNCHANGED stage
       ELSE stage' = "refused" /\ UNCHANGED edges
    /\ UNCHANGED <<sorting, handles, criticalPath, mounted>>

-------------------------------------------------------------------------------
(* Sorting *)

EdgeSet == {edges[i] : i \in DOMAIN edges}

\* An edge makes an arc from each node it comes from to each it goes to, and an arc
\* counts once, however many edges make it.
Arcs == UNION {ToSet(e.from) \X ToSet(e.to) : e \in EdgeSet}

\* Mutant: the arcs to n, parallel ones too.
InDegreeOfEdges(n) ==
    Cardinality({p \in (DOMAIN edges) \X Nodes :
                     p[2] \in ToSet(edges[p[1]].from) /\ n \in ToSet(edges[p[1]].to)})

InDegreeOf(n) == Cardinality({u \in Nodes : <<u, n>> \in Arcs})

Successors(n) == {v \in Nodes : <<n, v>> \in Arcs}

\* topoSort, up to its loop.
CountArcs ==
    /\ stage = "checking" /\ edges # <<>>
    /\ stage' = "sorting"
    /\ indegree' = [n \in Nodes |-> InDegreeOf(n)]
    /\ ready' = {n \in Nodes : indegree'[n] = 0}
    /\ UNCHANGED <<edges, order, handles, criticalPath, mounted>>

\* A node of the queue is sorted.  Which of them is left open: the code takes the
\* first, and they are queued by the order of declarations and of edges.
TakeReady(n) ==
    /\ stage = "sorting" /\ n \in ready
    /\ indegree' = [v \in Nodes |->
                        IF v \in Successors(n) THEN indegree[v] - 1 ELSE indegree[v]]
    /\ ready' = (ready \ {n}) \cup {v \in Successors(n) : indegree'[v] = 0}
    /\ order' = Append(order, n)
    /\ UNCHANGED <<stage, edges, handles, criticalPath, mounted>>

\* A cycle leaves nodes behind.
Sorted ==
    /\ stage = "sorting" /\ ready = {}
    /\ stage' = IF Len(order) = Cardinality(Nodes) THEN "allocating" ELSE "cyclic"
    /\ UNCHANGED <<edges, sorting, handles, criticalPath, mounted>>

-------------------------------------------------------------------------------
(* Allocating *)

\* The backend asked for on a work-queue edge is not passed on to connectWorkQueue.
HandleOf(e) ==
    LET producers == Len(e.from)
    IN  [kind |-> e.kind,
         capacity |-> RingCapacity(e.kind, producers, e.capacity, e.hint),
         producerCount |-> producers, consumerCount |-> Len(e.to),
         policy |-> IF e.kind = "spsc" /\ e.policy = "none" THEN "drop-oldest" ELSE e.policy,
         backend |-> IF e.kind = "mpmc-wq" THEN "js" ELSE "none",
         latency |-> EstimatedLatency(e.kind, producers, e.capacity, e.hint)]

Allocate ==
    /\ stage = "allocating" /\ Len(handles) < Len(edges)
    /\ handles' = Append(handles, HandleOf(edges[Len(handles) + 1]))
    /\ UNCHANGED <<stage, edges, sorting, criticalPath, mounted>>

\* Of f64: no comparison with NaN is true, no sum with it a number.
AtLeast(x, y) == x # NaN /\ y # NaN /\ x >= y
Plus(x, y) == IF x = NaN \/ y = NaN THEN NaN ELSE x + y

\* criticalPathLatency: the potentials, relaxed in topological order, and their
\* maximum.
CriticalPath ==
    LET Out(u) == SelectSeq([i \in 1 .. Len(edges) |-> i],
                            LAMBDA i : u \in ToSet(edges[i].from))
        StepsOf(u) == FlattenSeq([k \in 1 .. Len(Out(u)) |->
                          [j \in 1 .. Len(edges[Out(u)[k]].to) |->
                              [at |-> u, by |-> Out(u)[k], to |-> edges[Out(u)[k]].to[j]]]])
        Relax(potential, s) ==
            LET next == Plus(potential[s.at], handles[s.by].latency)
            IN  IF AtLeast(potential[s.to], next) THEN potential
                ELSE [potential EXCEPT ![s.to] = next]
        potentials == FoldLeft(Relax, [n \in Nodes |-> 0],
                               FlattenSeq([k \in 1 .. Len(order) |-> StepsOf(order[k])]))
        Higher(most, n) == IF AtLeast(most, potentials[n]) THEN most ELSE potentials[n]
    IN  FoldLeft(Higher, 0, order)

Publish ==
    /\ stage = "allocating" /\ Len(handles) = Len(edges)
    /\ stage' = "ready" /\ criticalPath' = CriticalPath
    /\ UNCHANGED <<edges, sorting, handles, mounted>>

-------------------------------------------------------------------------------
(* Mounting *)

\* Only a consumer of a broadcast has an index: its place in `to`.
IndexOf(e, n) ==
    IF e.kind = "spmc" THEN (CHOOSE i \in DOMAIN e.to : e.to[i] = n) - 1 ELSE -1

Ends(n) ==
    {[edge |-> i, role |-> "producer", node |-> n, index |-> -1] :
        i \in {j \in DOMAIN edges : n \in ToSet(edges[j].from)}}
    \cup
    {[edge |-> i, role |-> "consumer", node |-> n, index |-> IndexOf(edges[i], n)] :
        i \in {j \in DOMAIN edges : n \in ToSet(edges[j].to)}}

\* mountGraph attaches to rings that are initialized already and initializes none.
MountGraph(n) ==
    /\ stage = "ready"
    /\ mounted' = mounted \cup Ends(n)
    /\ UNCHANGED <<stage, edges, sorting, handles, criticalPath>>

GraphNext ==
    \/ \E e \in Drafts : Declare(e)
    \/ CountArcs \/ Sorted \/ Allocate \/ Publish
    \/ \E n \in Nodes : TakeReady(n) \/ MountGraph(n)

GraphSpec == GraphInit /\ [][GraphNext]_graphVars

-------------------------------------------------------------------------------
(* Correctness *)

\* The stages, and the tables each of them fills.
GraphTypeOK ==
    /\ stage \in {"checking", "refused", "sorting", "cyclic", "allocating", "ready"}
    /\ Len(edges) <= MaxEdges /\ Len(handles) <= Len(edges)
    /\ indegree \in [Nodes -> Nat]
    /\ ready \cup ToSet(order) \subseteq Nodes

\* The nodes n can be reached from along at least one edge.
Above(n) ==
    LET Step(S) == {u \in Nodes : \E e \in EdgeSet : u \in ToSet(e.from)
                                        /\ ToSet(e.to) \cap S # {}}
        reach[k \in 0 .. Cardinality(Nodes)] ==
            IF k = 0 THEN Step({n}) ELSE reach[k - 1] \cup Step(reach[k - 1])
    IN  reach[Cardinality(Nodes)]

\* Whatever edges run parallel and however fans overlap: a graph is called cyclic
\* exactly if it is, and else every node is sorted once, after all those above it.
OrderIsTopological ==
    /\ stage = "cyclic" => \E n \in Nodes : n \in Above(n)
    /\ stage \in {"allocating", "ready"} =>
           /\ ToSet(order) = Nodes /\ Len(order) = Cardinality(Nodes)
           /\ \A i, j \in DOMAIN order : order[i] \in Above(order[j]) => i < j

\* Once all nodes are mounted, each edge has the producers its ring makes room for
\* beyond the backlog asked for, and each lane of a broadcast has one consumer.
EndsMeetTheirRings ==
    stage = "ready" /\ (\A n \in Nodes : Ends(n) \subseteq mounted) =>
        \A i \in DOMAIN edges :
            LET handle == handles[i]
                ends(role) == {m \in mounted : m.edge = i /\ m.role = role}
            IN  /\ Cardinality(ends("producer")) = handle.producerCount
                /\ Cardinality(ends("consumer")) = handle.consumerCount
                /\ handle.kind = "spmc" =>
                       {m.index : m \in ends("consumer")} = 0 .. handle.consumerCount - 1
                /\ handle.capacity < Max(Powers) /\ edges[i].capacity = 0 =>
                       handle.capacity - (Cardinality(ends("producer")) - 1)
                           >= Backlog(edges[i].hint)

\* The critical path is the largest sum of latencies along a path, and is not a
\* number as soon as that of some edge is not.
LatencyIsLongest ==
    stage = "ready" =>
        LET Follows(i, j) == ToSet(edges[i].to) \cap ToSet(edges[j].from) # {}
            ends[k \in 0 .. Len(edges)] ==  \* paths of k + 1 edges, as sets of edges
                IF k = 0 THEN {[last |-> i, sum |-> handles[i].latency] : i \in DOMAIN edges}
                ELSE UNION {{[last |-> i, sum |-> p.sum + handles[i].latency] :
                                 i \in {j \in DOMAIN edges : Follows(p.last, j)}} : p \in ends[k - 1]}
            sums == UNION {{p.sum : p \in ends[k]} : k \in 0 .. Len(edges)}
        IN  criticalPath = IF \E i \in DOMAIN edges : handles[i].latency = NaN THEN NaN
                           ELSE Max(sums)

\* An edge gets the backend it asks for where there are WASM threads.
BackendIsPassedOn ==
    \A i \in DOMAIN handles :
        edges[i].backend # "none" => handles[i].backend = edges[i].backend
===============================================================================
