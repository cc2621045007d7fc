---------------------------- MODULE GraphQueries ----------------------------
(***************************************************************************)
(* The two loops behind the planner's graph (internal/planner/graph/       *)
(* graph.go): the breadth-first search that BFS, ShortestPath and          *)
(* reachableWithoutEdge each spell out, and TopologicalSort, with which    *)
(* HasCycle agrees.  A graph is a set of nodes and a list of edges.        *)
(***************************************************************************)
EXTENDS Integers, Sequences, FiniteSets, SequencesExt

CONSTANT NoNode     \* the parent of the first node of a search; an error of TopologicalSort

\* The queue with what has left it, in order: each node with the one that
\* discovered it.  These are the nodes marked as visited.
Visited(found) == {d.node : d \in ToSet(found)}

Discover(found, current, e) ==
    IF e.from = current /\ e.to \notin Visited(found)
    THEN Append(found, [node |-> e.to, parent |-> current]) ELSE found

\* The loop over the edges for one node of the queue.
Expand(es, found, current) ==
    LET scan[j \in 0..Len(es)] ==
            IF j = 0 THEN found ELSE Discover(scan[j - 1], current, es[j])
    IN  scan[Len(es)]

\* Round i takes the i-th node off the queue, if there is one.
Advance(es, found, i) == IF i > Len(found) THEN found ELSE Expand(es, found, found[i].node)

BFS(ns, es, start) ==
    LET round[i \in 0..Cardinality(ns)] ==
            IF i = 0 THEN <<[node |-> start, parent |-> NoNode]>>
            ELSE Advance(es, round[i - 1], i)
    IN  round[Cardinality(ns)]

InDegree(es, n) == Cardinality({q \in DOMAIN es : es[q].to = n})

Roots(ns, es) == {n \in ns : InDegree(es, n) = 0}

Release(s, id, e) ==
    IF e.from # id THEN s
    ELSE [inDegree |-> [s.inDegree EXCEPT ![e.to] = @ - 1],
          queue |-> IF s.inDegree[e.to] = 1 THEN Append(s.queue, e.to) ELSE s.queue]

\* The loop over the edges for one node of the queue.
ReleaseAll(es, s, id) ==
    LET scan[j \in 0..Len(es)] == IF j = 0 THEN s ELSE Release(scan[j - 1], id, es[j])
    IN  scan[Len(es)]

SortRound(es, s, i) == IF i > Len(s.queue) THEN s ELSE ReleaseAll(es, s, s.queue[i])

\* Mutant: an edge releases its target at once, whatever else leads there.
TopologicalSort_eager(ns, es, roots) ==
    LET Visit(s, e) == IF Contains(s, e.to) THEN s ELSE Append(s, e.to)
        sorted == FoldLeft(Visit, roots, es)
    IN  IF Len(sorted) = Cardinality(ns) THEN sorted ELSE NoNode

\* TopologicalSort: roots is the order in which the range over the map of
\* nodes finds those without incoming edges.  The queue holds what has left it
\* as well, which is what is sorted.
TopologicalSort(ns, es, roots) ==
    LET round[i \in 0..Cardinality(ns)] ==
            IF i = 0 THEN [inDegree |-> [n \in ns |-> InDegree(es, n)], queue |-> roots]
            ELSE SortRound(es, round[i - 1], i)
        sorted == round[Cardinality(ns)].queue
    IN  IF Len(sorted) = Cardinality(ns) THEN sorted ELSE NoNode
-----------------------------------------------------------------------------
\* The search finds each node once, and there are distances that prove it right:
\* a node is one step farther than its parent, over an edge of the graph, and
\* no edge leads out of what was found or more than one step farther.  Hence
\* it finds what can be reached, and its parents are on shortest paths.
SearchExact(ns, es, start) ==
    LET found == BFS(ns, es, start)  n == Len(found)  reached == Visited(found) IN
    /\ \A a, b \in 1..n : a # b => found[a].node # found[b].node
    /\ \E dist \in [reached -> 0..(n - 1)] :
           /\ start \in reached /\ dist[start] = 0
           /\ \A d \in ToSet(found) : d.node # start =>
                  /\ d.parent \in reached /\ dist[d.node] = dist[d.parent] + 1
                  /\ \E e \in ToSet(es) : e.from = d.parent /\ e.to = d.node
           /\ \A e \in ToSet(es) : e.from \in reached =>
                  e.to \in reached /\ dist[e.to] <= dist[e.from] + 1

\* Every node of some part is led to from within the part: there is a cycle.
Cyclic(ns, es) ==
    \E C \in SUBSET ns : C # {} /\ \A n \in C : \E e \in ToSet(es) : e.to = n /\ e.from \in C

\* TopologicalSort and HasCycle report an error exactly for a cyclic graph;
\* otherwise every node is sorted once and no edge leads backwards.
OrderExact(ns, es) ==
    \A roots \in SetToSeqs(Roots(ns, es)) :
        LET sorted == TopologicalSort(ns, es, roots) IN
        IF Cyclic(ns, es) THEN sorted = NoNode
        ELSE /\ sorted \in SetToSeqs(ns)
             /\ \A i, j \in 1..Len(sorted), e \in ToSet(es) :
                    sorted[i] = e.from /\ sorted[j] = e.to => i < j
=============================================================================
