--------------------------- MODULE KnowledgeGraph ---------------------------
(***************************************************************************)
(* The knowledge graph of devnote-graph: nodes and edges in SQLite, the    *)
(* searches over them, and the centrality cache with its single dirty      *)
(* flag.  The connection and the cache have a mutex each; a call takes and *)
(* releases them several times.                                            *)
(***************************************************************************)
EXTENDS Integers, SequencesExt

CONSTANTS
    Nodes,         \* ids of notes and folders
    Builds,        \* what build_graph is called with
    GraphCallers,  \* the threads that change the graph
    Computers,     \* the threads that ask for centrality
    Algorithms,    \* those the cache has a field for
    Asked,         \* the names centrality is asked for by
    Weights,       \* what an added edge may weigh
    MaxChanges     \* bound: changes of the graph

ASSUME GraphAssumption ==
    /\ \A b \in Builds :
          /\ b.notes \subseteq Nodes /\ IsFiniteSet(b.notes)
          /\ IsFiniteSet(b.carried) /\ IsFiniteSet(b.folders)
          /\ IsFiniteSet(b.tags) /\ IsFiniteSet(b.refs)
    /\ Algorithms \subseteq Asked
    /\ Weights \subseteq Nat
    /\ MaxChanges \in Nat

VARIABLES
    nodes,    \* the ids in graph_nodes
    edges,    \* the rows of graph_edges
    dirty,    \* graph_dirty
    cache,    \* the graph each algorithm's cached result was computed from
    latest,   \* history: the algorithm of the last computation, once its result
              \* is stored
    threads,  \* where each thread is in its call
    changes

graphVars == <<nodes, edges, dirty, cache, latest, threads, changes>>

Resting == [step |-> "resting"]
NoResult == [nodes |-> {}, edges |-> {}, none |-> TRUE]

GraphInit ==
    /\ nodes = {}
    /\ edges = {}
    /\ dirty = TRUE
    /\ cache = [a \in Algorithms |-> NoResult]
    /\ latest = {}
    /\ threads = [t \in GraphCallers \cup Computers |-> Resting]
    /\ changes = 0

(* Changes: the statement first, the cache's flag after the lock is free. *)

Change(t) ==
    /\ threads[t] = Resting
    /\ changes < MaxChanges
    /\ changes' = changes + 1
    /\ threads' = [threads EXCEPT ![t] = [step |-> "invalidate"]]
    /\ UNCHANGED <<dirty, cache, latest>>

Touching(n) == {e \in edges : e.source = n \/ e.target = n}

\* INSERT OR REPLACE deletes an existing row first, and its edges with it.
AddNode(t) ==
    \E n \in Nodes :
        /\ nodes' = nodes \cup {n}
        /\ edges' = edges \ Touching(n)
        /\ Change(t)

\* Variant: the edges of the node stay.
RemoveNodeOnly(t) ==
    \E n \in nodes :
        /\ nodes' = nodes \ {n}
        /\ UNCHANGED edges
        /\ Change(t)

RemoveNode(t) ==
    \E n \in nodes :
        /\ nodes' = nodes \ {n}
        /\ edges' = edges \ Touching(n)
        /\ Change(t)

Edge(i, source, target, kind, weight) ==
    [id |-> <<changes, i>>, source |-> source, target |-> target, kind |-> kind,
     weight |-> weight]

\* The foreign keys refuse an edge of a missing node; any weight is stored.
AddEdge(t) ==
    \E source, target \in nodes, weight \in Weights :
        /\ edges' = edges \cup {Edge(<<>>, source, target, "Reference", weight)}
        /\ UNCHANGED nodes
        /\ Change(t)

RemoveEdge(t) ==
    \E e \in edges :
        /\ edges' = edges \ {e}
        /\ UNCHANGED nodes
        /\ Change(t)

(* A build replaces the whole graph in one transaction. *)

\* The tags that the notes of a build carry.
CarriedTags(b) == {r[2] : r \in {x \in b.carried : x[1] \in b.notes}}

\* Folder nodes come from the relations, tag nodes from the tags of the notes.
BuiltNodes(b) == b.notes \cup {r[2] : r \in b.folders} \cup CarriedTags(b)

\* A relation to a tag that no note carries is skipped; every edge weighs 1.
BuiltEdges(b) ==
    {Edge(r, r[1], r[2], "Parent", 1) : r \in b.folders}
      \cup {Edge(r, r[1], r[2], "Tag", 1) : r \in {x \in b.tags : x[2] \in CarriedTags(b)}}
      \cup {Edge(r, r[1], r[2], "Reference", 1) : r \in b.refs}

\* A relation that names an unknown note rolls the build back.
BuildGraph(t) ==
    \E b \in Builds :
        /\ \A e \in BuiltEdges(b) : {e.source, e.target} \subseteq BuiltNodes(b)
        /\ nodes' = BuiltNodes(b)
        /\ edges' = BuiltEdges(b)
        /\ Change(t)

InvalidateCentralityCache(t) ==
    /\ threads[t].step = "invalidate"
    /\ dirty' = TRUE
    /\ threads' = [threads EXCEPT ![t] = Resting]
    /\ UNCHANGED <<nodes, edges, cache, latest, changes>>

(* calculate_centrality_cached: a miss clears the flag before it computes,
   whether or not the computation will succeed or has a field to be kept in. *)

CacheMiss(t) ==
    \E a \in Asked :
        /\ threads[t] = Resting
        /\ a \in Algorithms => dirty \/ cache[a] = NoResult
        /\ dirty' = FALSE
        /\ latest' = {}
        /\ threads' = [threads EXCEPT ![t] =
                         [step |-> "load nodes", algorithm |-> a]]
        /\ UNCHANGED <<nodes, edges, cache, changes>>

LoadAllNodes(t) ==
    /\ threads[t].step = "load nodes"
    /\ threads' = [threads EXCEPT ![t] =
          [step |-> "load edges", algorithm |-> @.algorithm, nodes |-> nodes]]
    /\ UNCHANGED <<nodes, edges, dirty, cache, latest, changes>>

\* Edges whose nodes were not loaded are skipped.
LoadAllEdges(t) ==
    LET loaded == threads[t].nodes
        known == {e \in edges : {e.source, e.target} \subseteq loaded}
    IN  /\ threads[t].step = "load edges"
        /\ threads' = [threads EXCEPT ![t] =
              [step |-> "store", algorithm |-> @.algorithm,
               graph |-> [nodes |-> loaded, edges |-> known]]]
        /\ UNCHANGED <<nodes, edges, dirty, cache, latest, changes>>

\* A statement of the computation fails: the flag stays clear.
ComputeFails(t) ==
    /\ threads[t].step \in {"load nodes", "load edges"}
    /\ threads' = [threads EXCEPT ![t] = Resting]
    /\ UNCHANGED <<nodes, edges, dirty, cache, latest, changes>>

\* Variant: the flag is cleared with the result, not before it is computed.
StoreResultClears(t) ==
    /\ threads[t].step = "store"
    /\ IF threads[t].algorithm \in Algorithms
       THEN /\ cache' = [cache EXCEPT ![threads[t].algorithm] = threads[t].graph]
            /\ latest' = {threads[t].algorithm}
       ELSE UNCHANGED <<cache, latest>>
    /\ dirty' = FALSE
    /\ threads' = [threads EXCEPT ![t] = Resting]
    /\ UNCHANGED <<nodes, edges, changes>>

\* The result of another name is computed and kept nowhere.
StoreResult(t) ==
    /\ threads[t].step = "store"
    /\ IF threads[t].algorithm \in Algorithms
       THEN /\ cache' = [cache EXCEPT ![threads[t].algorithm] = threads[t].graph]
            /\ latest' = {threads[t].algorithm}
       ELSE UNCHANGED <<cache, latest>>
    /\ threads' = [threads EXCEPT ![t] = Resting]
    /\ UNCHANGED <<nodes, edges, dirty, changes>>

GraphNext ==
    \/ \E t \in GraphCallers :
          \/ AddNode(t) \/ RemoveNode(t) \/ AddEdge(t) \/ RemoveEdge(t)
          \/ BuildGraph(t) \/ InvalidateCentralityCache(t)
    \/ \E t \in Computers :
          \/ CacheMiss(t) \/ LoadAllNodes(t) \/ LoadAllEdges(t)
          \/ StoreResult(t) \/ ComputeFails(t)

GraphSpec == GraphInit /\ [][GraphNext]_graphVars

-----------------------------------------------------------------------------
(* The searches; the graph is read as undirected. *)

Adjacent(n) ==
    {e.target : e \in {x \in edges : x.source = n}}
      \cup {e.source : e \in {x \in edges : x.target = n}}

\* get_neighbors: what a breadth-first search finds within a depth.
Within(n, depth) ==
    FoldLeft(LAMBDA found, i : found \cup UNION {Adjacent(m) : m \in found},
             {n}, [i \in 1..depth |-> i])

\* get_related_nodes: one point for each edge to a neighbour and half a point,
\* here one of two, for each edge on from it; the best scored come first.
EdgesBetween(n, m) == {e \in edges : {e.source, e.target} = {n, m}}

\* Variant: the steps on from a neighbour may lead back.
RelatedScoreBack(n, m) ==
    2 * Cardinality(EdgesBetween(n, m))
      + MapThenSumSet(LAMBDA k :
            Cardinality(EdgesBetween(n, k)) * Cardinality(EdgesBetween(k, m)),
            Adjacent(n))

RelatedScore(n, m) ==
    2 * Cardinality(EdgesBetween(n, m))
      + IF m = n THEN 0
        ELSE MapThenSumSet(LAMBDA k :
                Cardinality(EdgesBetween(n, k)) * Cardinality(EdgesBetween(k, m)),
                Adjacent(n))

RelatedNodes(n) == {m \in nodes : RelatedScore(n, m) > 0}

Reachable(n) == Within(n, Cardinality(nodes))

\* A round of dijkstra: of the nodes that have a score and are not settled one
\* of the least is settled and scores its neighbours, unless it is the goal.
Settle(search, to) ==
    LET open == DOMAIN search.score \ search.settled
        n == CHOOSE m \in open : \A o \in open : search.score[m] <= search.score[o]
        next == Adjacent(n) \ (search.settled \cup {n})
        Scores(m) == {search.score[n] + e.weight : e \in EdgesBetween(n, m)}
                       \cup {search.score[o] : o \in {m} \cap open}
    IN  IF open = {} \/ n = to
        THEN search
        ELSE [settled |-> search.settled \cup {n},
              score |-> [m \in DOMAIN search.score \cup next |->
                           IF m \in next THEN Min(Scores(m)) ELSE search.score[m]]]

\* What dijkstra returns: a score for every node that was met before the goal.
Distances(from, to) ==
    FoldLeft(LAMBDA search, i : Settle(search, to),
             [settled |-> {}, score |-> [m \in {from} |-> 0]],
             [i \in 1..Cardinality(nodes) |-> i]).score

\* Variant: the path is not turned round.
ShortestPathBackwards(from, to) ==
    LET distance == Distances(from, to)
        Met(n) == Adjacent(n) \cap DOMAIN distance
        Nearest(n) == CHOOSE m \in Met(n) : \A o \in Met(n) : distance[m] <= distance[o]
        Extend(path) == IF Last(path) = from THEN path
                        ELSE Append(path, Nearest(Last(path)))
    IN  IF to \notin DOMAIN distance THEN <<>>
        ELSE FoldLeft(LAMBDA path, i : Extend(path), <<to>>,
                      [i \in 1..Cardinality(nodes) |-> i])

\* get_shortest_path walks back from the target to the neighbour of least score,
\* whatever the edge to it weighs, and breaks off where a node is its own nearest.
\* A walk of more steps than there are nodes has met one twice and never ends;
\* here it is cut.
ShortestPath(from, to) ==
    LET distance == Distances(from, to)
        Met(n) == Adjacent(n) \cap DOMAIN distance
        Nearest(n) == CHOOSE m \in Met(n) : \A o \in Met(n) : distance[m] <= distance[o]
        Extend(path) == IF path[1] = from THEN path
                        ELSE IF Nearest(path[1]) = path[1] THEN <<from>> \o path
                        ELSE <<Nearest(path[1])>> \o path
    IN  IF to \notin DOMAIN distance THEN <<>>
        ELSE FoldLeft(LAMBDA path, i : Extend(path), <<to>>,
                      [i \in 1..Cardinality(nodes) |-> i])

\* Variant: the target alone joins the set of the source.
ClustersByTarget ==
    FoldSet(LAMBDA e, sets :
              {IF e.source \in s THEN s \cup {e.target} ELSE s \ {e.target} : s \in sets}
                \ {{}},
            {{n} : n \in nodes}, edges)

\* detect_clusters: the sets of a union-find after all edges were united.
Clusters ==
    FoldSet(LAMBDA e, sets :
              LET united == {s \in sets : s \cap {e.source, e.target} # {}}
              IN  (sets \ united) \cup {UNION united},
            {{n} : n \in nodes}, edges)

-----------------------------------------------------------------------------
\* Rows, results and the steps of calls have their types, and every edge joins
\* two rows of graph_nodes.
GraphTypeOK ==
    /\ \A e \in edges : {e.source, e.target} \subseteq nodes
    /\ dirty \in BOOLEAN
    /\ changes \in 0..MaxChanges
    /\ DOMAIN cache = Algorithms

\* When no call is under way, the flag is clear and the last computation stored
\* its result, that result is of the stored graph: a change made while one thread
\* computes is never forgotten, whichever of its steps it falls between.  Nothing
\* more holds: the one flag serves all algorithms, a computation that fails or has
\* no field leaves it clear over what was stored before, and a second thread
\* clears it as well.
CacheFresh ==
    (~dirty /\ \A t \in DOMAIN threads : threads[t] = Resting) =>
        \A a \in latest : cache[a] = [nodes |-> nodes, edges |-> edges]

\* Clusters are what the searches reach: no edge leaves one, and a node's
\* cluster is all that is reachable from it.
ClustersAreReachable ==
    LET clusters == Clusters
    IN  /\ UNION clusters = nodes
        /\ \A c \in clusters : \A n \in c : c = Reachable(n)

\* The least number of edges to each node that is reached from one: a reference.
Hops(from) ==
    LET Next(found) == UNION {Adjacent(n) : n \in DOMAIN found}
    IN  FoldLeft(LAMBDA found, d : [m \in DOMAIN found \cup Next(found) |->
                                      IF m \in DOMAIN found THEN found[m] ELSE d],
                 [m \in {from} |-> 0], [d \in 1..Cardinality(nodes) |-> d])

\* A path is found exactly between nodes of one cluster.  When no edge weighs
\* nothing the walk back ends, and leads along edges from the one to the other;
\* when all weigh 1, as build_graph makes them, no other path has fewer edges.
PathIsFound ==
    \A from, to \in nodes :
        LET path == ShortestPath(from, to)
            cluster == CHOOSE c \in Clusters : from \in c
        IN  /\ path = <<>> <=> to \notin cluster
            /\ (path # <<>> /\ \A e \in edges : e.weight > 0) =>
                  /\ path[1] = from /\ path[Len(path)] = to
                  /\ \A i \in 1..(Len(path) - 1) : path[i + 1] \in Adjacent(path[i])
            /\ (path # <<>> /\ \A e \in edges : e.weight = 1) =>
                  Len(path) = Hops(from)[to] + 1

\* What is related to a node are its neighbours and theirs, as the search of
\* depth two finds them; the node itself only when an edge joins it to itself.
RelatedIsNear ==
    \A n \in nodes :
        /\ RelatedNodes(n) \ {n} = Within(n, 2) \ {n}
        /\ n \in RelatedNodes(n) <=> n \in Adjacent(n)
=============================================================================
