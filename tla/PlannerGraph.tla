---------------------------- MODULE PlannerGraph ----------------------------
(***************************************************************************)
(* The planner's graph (internal/planner/graph/graph.go): a map of nodes   *)
(* and a list of edges, changed by AddNode, RemoveNode, AddEdge and Merge, *)
(* and the queries on it.  The queries go through the edges in the order   *)
(* of the list; where the code ranges over the map of nodes, the order is  *)
(* a parameter, and a property quantifies over all of them.  The search    *)
(* and the sort are in GraphQueries.                                       *)
(***************************************************************************)
EXTENDS GraphQueries, Relation

CONSTANTS Nodes, Kinds,
          MaxEdges     \* bound: edges of a graph

Edge == [from : Nodes, to : Nodes, kind : Kinds]

VARIABLES nodes, edges
graphVars == <<nodes, edges>>

GraphInit == nodes = {} /\ edges = <<>>

\* The operations that change the graph; the others return an error.
AddNode(n) == n \notin nodes /\ nodes' = nodes \cup {n} /\ UNCHANGED edges

RemoveNode(n) ==
    /\ n \in nodes /\ nodes' = nodes \ {n}
    /\ edges' = SelectSeq(edges, LAMBDA e : e.from # n /\ e.to # n)

AddEdge(e) ==
    /\ {e.from, e.to} \subseteq nodes /\ ~Contains(edges, e)
    /\ Len(edges) < MaxEdges
    /\ edges' = Append(edges, e) /\ UNCHANGED nodes

Merge(otherNodes, otherEdges) ==
    /\ nodes \cap otherNodes = {}
    /\ Len(edges) + Len(otherEdges) <= MaxEdges
    /\ nodes' = nodes \cup otherNodes /\ edges' = edges \o otherEdges

GraphNext ==
    \/ \E n \in Nodes : AddNode(n) \/ RemoveNode(n)
    \/ \E e \in Edge : AddEdge(e) \/ Merge({e.from, e.to}, <<e>>)
-----------------------------------------------------------------------------
Out(es, n) == SelectSeq(es, LAMBDA e : e.from = n)

\* ShortestPath: from the target back along the parents.
ShortestPath(from, to) ==
    LET found == BFS(nodes, edges, from)
        Parent(n) == (CHOOSE d \in ToSet(found) : d.node = n).parent
        back[i \in 1..Cardinality(nodes)] ==
            IF i = 1 THEN <<to>>
            ELSE IF Head(back[i - 1]) = from THEN back[i - 1]
                 ELSE <<Parent(Head(back[i - 1]))>> \o back[i - 1]
    IN  IF to \in Visited(found) THEN back[Cardinality(nodes)] ELSE NoNode

\* DFS, with the list of visited nodes.
RECURSIVE DFSVisit(_, _)
DFSVisit(visited, n) ==
    FoldLeft(LAMBDA v, e : IF Contains(v, e.to) THEN v ELSE DFSVisit(v, e.to),
             Append(visited, n), Out(edges, n))

\* FindAllPaths: the paths to the target that extend a path.
RECURSIVE FindAllPaths(_, _)
FindAllPaths(path, to) ==
    IF Last(path) = to THEN {path}
    ELSE UNION {FindAllPaths(Append(path, e.to), to) :
                    e \in {f \in ToSet(Out(edges, Last(path))) : ~Contains(path, f.to)}}

\* StronglyConnectedComponents (Tarjan): the nodes on the stack have a position
\* in it, and index 0 stands for a node that has none yet.
RECURSIVE StrongConnect(_, _)
StrongConnect(s, n) ==
    LET entered == [s EXCEPT !.counter = @ + 1, !.index[n] = s.counter,
                             !.low[n] = s.counter, !.stack = Append(@, n)]
        Lower(t, value) == IF value < t.low[n] THEN [t EXCEPT !.low[n] = value] ELSE t
        Follow(t, e) ==
            IF t.index[e.to] = 0
            THEN LET u == StrongConnect(t, e.to) IN Lower(u, u.low[e.to])
            ELSE IF Contains(t.stack, e.to) THEN Lower(t, t.index[e.to]) ELSE t
        done == FoldLeft(Follow, entered, Out(edges, n))
        at == CHOOSE i \in 1..Len(done.stack) : done.stack[i] = n
    IN  IF done.low[n] # done.index[n] THEN done
        ELSE [done EXCEPT !.stack = SubSeq(@, 1, at - 1),
                          !.components = Append(@, ToSet(SubSeq(done.stack, at, Len(done.stack))))]

StronglyConnectedComponents(order) ==
    LET zero == [n \in nodes |-> 0] IN
    FoldLeft(LAMBDA s, n : IF s.index[n] = 0 THEN StrongConnect(s, n) ELSE s,
             [counter |-> 1, index |-> zero, low |-> zero, stack |-> <<>>, components |-> <<>>],
             order).components

\* TransitiveReduction: an edge goes if its target is reached without it.
TransitiveReduction ==
    FoldLeft(LAMBDA es, e : LET rest == Remove(es, e) IN
                            IF e.to \in Visited(BFS(nodes, rest, e.from)) THEN rest ELSE Append(rest, e),
             edges, edges)
-----------------------------------------------------------------------------
Connected(es) ==
    TransitiveClosure([m, n \in nodes |-> \E e \in ToSet(es) : e.from = m /\ e.to = n], nodes)

\* TopologicalSort is exact, and cycles are what reachability says they are.
SortExact(reach) ==
    OrderExact(nodes, edges) /\ (Cyclic(nodes, edges) <=> \E n \in nodes : reach[n, n])

\* The components are the classes of mutual reachability, each once.
ComponentsExact(reach) ==
    LET Class(n) == {m \in nodes : m = n \/ (reach[m, n] /\ reach[n, m])} IN
    \A order \in SetToSeqs(nodes) :
        LET components == StronglyConnectedComponents(order) IN
        ToSet(components) = {Class(n) : n \in nodes} /\ IsInjective(components)

\* The searches find what can be reached, ShortestPath a path that no other
\* one is shorter than, and FindAllPaths the simple paths.
PathsExact(reach) ==
    \A m, n \in nodes :
        LET all == FindAllPaths(<<m>>, n)  path == ShortestPath(m, n) IN
        /\ \A found \in {Visited(BFS(nodes, edges, m)), ToSet(DFSVisit(<<>>, m))} :
               n \in found <=> m = n \/ reach[m, n]
        /\ all = {p \in UNION {[1..k -> nodes] : k \in 1..Cardinality(nodes)} :
                     /\ IsInjective(p) /\ p[1] = m /\ Last(p) = n
                     /\ \A i \in 2..Len(p) : \E e \in ToSet(edges) : e.from = p[i-1] /\ e.to = p[i]}
        /\ IF all = {} THEN path = NoNode
           ELSE path \in all /\ \A p \in all : Len(path) <= Len(p)

\* The reduction has edges of the graph, connects what it connects (but for
\* loops, which are dropped) and, if the graph is acyclic, none too many.
ReductionExact(reach) ==
    LET reduced == TransitiveReduction  kept == Connected(reduced) IN
    /\ ToSet(reduced) \subseteq ToSet(edges)
    /\ \A m, n \in nodes : m # n => kept[m, n] = reach[m, n]
    /\ (\A n \in nodes : ~reach[n, n]) =>
           \A e \in ToSet(reduced) : ~Connected(Remove(reduced, e))[e.from, e.to]

\* The queries agree with their definitions on every graph the operations
\* build, for all orders in which the map of nodes may be traversed, and no
\* operation leaves an edge without its nodes.
GraphQueriesExact ==
    LET reach == Connected(edges) IN
    /\ \A e \in ToSet(edges) : {e.from, e.to} \subseteq nodes
    /\ \A n \in nodes : SearchExact(nodes, edges, n)
    /\ SortExact(reach) /\ ComponentsExact(reach) /\ PathsExact(reach) /\ ReductionExact(reach)
=============================================================================
