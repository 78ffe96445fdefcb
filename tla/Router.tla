------------------------------- MODULE Router -------------------------------
(***************************************************************************)
(* ks_router_run (src/libkstreamer/router.c): Dijkstra's shortest path    *)
(* over a kstreamer connection's nodes and channels ("arches"), from      *)
(* start until the node to is extracted.                                  *)
(*                                                                         *)
(* The graph is chosen in Init: every arc gets a source, a destination    *)
(* and a cost, and start and to are any two nodes (possibly the same).    *)
(* Nodes and channels are scanned in hash-bucket order, which the code    *)
(* does not fix: the extraction picks any undone node of least cost (the  *)
(* first one met wins a tie), and among parallel arcs of equal cost any   *)
(* may become router_prev_thru.  Costs are C ints of IntWidth bits;       *)
(* INT_MAX marks both an unreached node and an unusable arc.              *)
(***************************************************************************)
EXTENDS Integers, FiniteSets
LOCAL INSTANCE FiniteSetsExt

CONSTANTS
    Nodes,        \* conn->nodes_hash
    Arcs,         \* conn->chans_hash
    ArcCosts,     \* the values arch->cost may have
    IntWidth,     \* the width of int
    None          \* NULL

\* INT_MAX
IntMax == 2^(IntWidth - 1) - 1

ASSUME /\ IntWidth \in 4..16 /\ ArcCosts \subseteq 0..IntMax
       /\ None \notin Nodes \cup Arcs

VARIABLES
    from, to_of, cost_of,  \* arch->from, arch->to, arch->cost
    start, to,             \* the arguments
    cost,                  \* node->router_cost
    done,                  \* node->router_done
    prev,                  \* node->router_prev
    prev_thru,             \* node->router_prev_thru
    running                \* the while (1) loop has not broken out

graph == <<from, to_of, cost_of, start, to>>
vars == <<from, to_of, cost_of, start, to, cost, done, prev, prev_thru,
          running>>

\* Signed addition of IntWidth-bit ints, wrapping as the build's int does.
AddInt(a, b) ==
    ((a + b + 2^(IntWidth - 1)) % 2^IntWidth) - 2^(IntWidth - 1)

-----------------------------------------------------------------------------

\* The asserts on start->conn hold, and the first loop resets every node;
\* then start->router_cost = 0.
Init ==
    /\ from \in [Arcs -> Nodes] /\ to_of \in [Arcs -> Nodes]
    /\ cost_of \in [Arcs -> ArcCosts]
    /\ start \in Nodes /\ to \in Nodes
    /\ cost = [n \in Nodes |-> IF n = start THEN 0 ELSE IntMax]
    /\ done = [n \in Nodes |-> FALSE]
    /\ prev = [n \in Nodes |-> None]
    /\ prev_thru = [n \in Nodes |-> None]
    /\ running = TRUE

\* Mutant: the scan keeps the first undone node it meets, the cost test
\* left out.
UndoneNodes == {n \in Nodes : ~done[n]}

\* The undone nodes the extraction scan may return: those of least cost.
MinCostNodes ==
    LET undone == {n \in Nodes : ~done[n]} IN
    {n \in undone : \A m \in undone : cost[n] <= cost[m]}

\* Mutant: the relaxation also replaces a path of equal cost.
ImprovesOrTies(u, a) ==
    /\ from[a] = u
    /\ cost_of[a] # IntMax /\ cost[u] # IntMax
    /\ cost[to_of[a]] >= AddInt(cost[u], cost_of[a])

\* Mutant: the relaxation forgets that INT_MAX marks an unreached node.
ImprovesFromAny(u, a) ==
    /\ from[a] = u
    /\ cost_of[a] # IntMax
    /\ cost[to_of[a]] > AddInt(cost[u], cost_of[a])

\* The test of the relaxation: arch is usable, u is reached, and the path
\* through arch is strictly cheaper than arch->to's cost.
Improves(u, a) ==
    /\ from[a] = u
    /\ cost_of[a] # IntMax /\ cost[u] # IntMax
    /\ cost[to_of[a]] > AddInt(cost[u], cost_of[a])

\* The arcs from u that relax node v, and the arc the scan of chans_hash
\* leaves in router_prev_thru: the last to improve, which is one of the
\* cheapest (the scan order is free).
Relaxing(u, v) == {a \in Arcs : to_of[a] = v /\ Improves(u, a)}

\* The channel loop over all arches from u, done at once: every node
\* gets the cheapest cost through u that improves on its own.  u's own
\* cost cannot drop during the scan unless an addition wraps, which the
\* costs of the model never make it do.
RelaxFrom(u) ==
    \E thru \in [Nodes -> Arcs \cup {None}] :
        /\ \A v \in Nodes :
             IF Relaxing(u, v) = {}
             THEN thru[v] = None
             ELSE /\ thru[v] \in Relaxing(u, v)
                  /\ \A a \in Relaxing(u, v) :
                        cost_of[thru[v]] <= cost_of[a]
        /\ cost' = [v \in Nodes |-> IF thru[v] = None THEN cost[v]
                                    ELSE AddInt(cost[u], cost_of[thru[v]])]
        /\ prev' = [v \in Nodes |-> IF thru[v] = None THEN prev[v] ELSE u]
        /\ prev_thru' = [v \in Nodes |-> IF thru[v] = None THEN prev_thru[v]
                                         ELSE thru[v]]

\* Mutant: the extracted node is not marked router_done.
ExtractNotDone ==
    /\ running
    /\ \E u \in MinCostNodes :
        /\ u # to
        /\ UNCHANGED done
        /\ RelaxFrom(u)
    /\ UNCHANGED <<graph, running>>

\* One pass of the while (1) loop that does not break: extract a least
\* cost node other than to, mark it done and relax its arches.
Extract ==
    /\ running
    /\ \E u \in MinCostNodes :
        /\ u # to
        /\ done' = [done EXCEPT ![u] = TRUE]
        /\ RelaxFrom(u)
    /\ UNCHANGED <<graph, running>>

\* The pass that breaks out: every node is done, or the least cost node
\* extracted is to.
Finish ==
    /\ running
    /\ MinCostNodes = {} \/ to \in MinCostNodes
    /\ running' = FALSE
    /\ UNCHANGED <<graph, cost, done, prev, prev_thru>>

Next == Extract \/ Finish

\* ks_router_run runs to its return on the caller's thread.
Spec == Init /\ [][Next]_vars /\ WF_vars(Next)

-----------------------------------------------------------------------------
(* Reference definitions.                                                   *)

\* The least cost of a path from start to n with at most k usable arcs,
\* in unbounded integers; IntMax when there is none.
RECURSIVE CostWithin(_, _)
CostWithin(k, n) ==
    IF k = 0 THEN (IF n = start THEN 0 ELSE IntMax)
    ELSE LET via == {CostWithin(k - 1, from[a]) + cost_of[a] :
                       a \in {b \in Arcs : to_of[b] = n /\ cost_of[b] # IntMax
                                /\ CostWithin(k - 1, from[b]) # IntMax}}
         IN Min({CostWithin(k - 1, n)} \cup via)

\* The shortest distance from start, capped at IntMax.
Distance(n) ==
    LET d == CostWithin(Cardinality(Nodes) - 1, n) IN
    IF d > IntMax THEN IntMax ELSE d

\* The cost of following router_prev_thru back from n to start, or -1
\* when the chain does not get there in k steps or uses a wrong arc.
RECURSIVE ChainCost(_, _)
ChainCost(n, k) ==
    CASE n = start          -> 0
      [] k = 0 \/ prev_thru[n] = None \/ prev[n] = None -> -1
      [] to_of[prev_thru[n]] # n \/ from[prev_thru[n]] # prev[n] -> -1
      [] ChainCost(prev[n], k - 1) = -1 -> -1
      [] OTHER -> ChainCost(prev[n], k - 1) + cost_of[prev_thru[n]]

-----------------------------------------------------------------------------
(* Properties.                                                              *)

TypeOK ==
    /\ cost \in [Nodes -> 0..IntMax] /\ done \in [Nodes -> BOOLEAN]
    /\ prev \in [Nodes -> Nodes \cup {None}]
    /\ prev_thru \in [Nodes -> Arcs \cup {None}]
    /\ running \in BOOLEAN

\* Dijkstra's invariant, whatever order the hash buckets give: a node
\* extracted and marked router_done has its shortest distance as its
\* cost, and so does to once the loop breaks.
DoneAreShortest ==
    /\ \A n \in Nodes : done[n] => cost[n] = Distance(n)
    /\ ~running => cost[to] = Distance(to)

\* The route the caller reads back from to along router_prev and
\* router_prev_thru is a path from start made of the recorded arches,
\* whose costs add up to to's router_cost.
RouteMatchesCost ==
    ~running /\ cost[to] # IntMax =>
        ChainCost(to, Cardinality(Nodes)) = cost[to]

\* The loop always breaks: each pass marks one more node done.
RouterReturns == <>(~running)

=============================================================================
