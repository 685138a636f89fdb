------------------------------- MODULE Canvas -------------------------------
(***************************************************************************)
(* The canvas of devnote-extensions: nodes and edges in vectors, and the   *)
(* layouts computed from them.  Ids are the caller's; neither nodes nor    *)
(* edges are checked against what is there.  A node keeps its horizontal   *)
(* place and width; the vertical ones are treated alike.                   *)
(***************************************************************************)
EXTENDS Integers, SequencesExt, StableOrder

CONSTANTS
    CanvasNodes,
    Places,      \* bound: where callers and layouts put nodes
    Widths,
    MaxEdges     \* bound: edges of the canvas

ASSUME CanvasAssumption == Places \subseteq Int /\ Widths \subseteq Nat /\ MaxEdges \in Nat

VARIABLES
    drawing,   \* the nodes: id, x and width
    arrows     \* the edges: from and to

canvasVars == <<drawing, arrows>>

CanvasInit == drawing = <<>> /\ arrows = <<>>

DrawnIds == {drawing[i].id : i \in DOMAIN drawing}

\* Callers draw the ids of their nodes at random.
AddCanvasNode(n) ==
    \E x \in Places, w \in Widths :
        /\ n \notin DrawnIds
        /\ drawing' = Append(drawing, [id |-> n, x |-> x, width |-> w])
        /\ UNCHANGED arrows

IndexOfNode(n) == CHOOSE i \in DOMAIN drawing : drawing[i].id = n

\* Variant: the width is written.
MoveCanvasNodeWidth(n) ==
    \E x \in Places :
        /\ n \in DrawnIds
        /\ drawing' = [drawing EXCEPT ![IndexOfNode(n)].width = x]
        /\ UNCHANGED arrows

MoveCanvasNode(n) ==
    \E x \in Places :
        /\ n \in DrawnIds
        /\ drawing' = [drawing EXCEPT ![IndexOfNode(n)].x = x]
        /\ UNCHANGED arrows

ResizeCanvasNode(n) ==
    \E w \in Widths :
        /\ n \in DrawnIds
        /\ drawing' = [drawing EXCEPT ![IndexOfNode(n)].width = w]
        /\ UNCHANGED arrows

\* All nodes with the id go, and every edge at one end of which it is.
RemoveCanvasNode(n) ==
    LET kept == Kept(drawing, LAMBDA d : d.id # n)
    IN  /\ Len(kept) # Len(drawing)
        /\ drawing' = kept
        /\ arrows' = Kept(arrows, LAMBDA a : a.from # n /\ a.to # n)

AddCanvasEdge ==
    \E from, to \in CanvasNodes :
        /\ Len(arrows) < MaxEdges
        /\ arrows' = Append(arrows, [from |-> from, to |-> to])
        /\ UNCHANGED drawing

\* Edge ids are as good as places in the vector.
RemoveCanvasEdge ==
    \E i \in DOMAIN arrows :
        /\ arrows' = RemoveAt(arrows, i)
        /\ UNCHANGED drawing

(* Layouts. *)

\* Variant: a node with one open edge is taken too.
NextLayerEarly(progress) ==
    LET free == {n \in progress.remaining : progress.degree[n] <= 1}
        layer == IF free = {} THEN progress.remaining ELSE free
        Out(n) == Cardinality({i \in DOMAIN arrows :
                                 arrows[i].from \in layer /\ arrows[i].to = n})
    IN  IF progress.remaining = {} THEN progress
        ELSE [remaining |-> progress.remaining \ layer,
              layers |-> Append(progress.layers, layer),
              degree |-> [n \in CanvasNodes |->
                  IF progress.degree[n] < Out(n) THEN 0
                  ELSE progress.degree[n] - Out(n)]]

\* The hierarchical layout takes off layer after layer of nodes without open
\* edges into them; when there is none, all that remain are one layer.
NextLayer(progress) ==
    LET free == {n \in progress.remaining : progress.degree[n] = 0}
        layer == IF free = {} THEN progress.remaining ELSE free
        Out(n) == Cardinality({i \in DOMAIN arrows :
                                 arrows[i].from \in layer /\ arrows[i].to = n})
    IN  IF progress.remaining = {} THEN progress
        ELSE [remaining |-> progress.remaining \ layer,
              layers |-> Append(progress.layers, layer),
              degree |-> [n \in CanvasNodes |->
                  IF progress.degree[n] < Out(n) THEN 0
                  ELSE progress.degree[n] - Out(n)]]

LayersOf ==
    FoldLeft(LAMBDA progress, i : NextLayer(progress),
             [remaining |-> DrawnIds, layers |-> <<>>,
              degree |-> [n \in CanvasNodes |->
                  Cardinality({i \in DOMAIN arrows : arrows[i].to = n})]],
             [i \in DOMAIN drawing |-> i]).layers

\* Variant: the square root is rounded down.
GridPlaceNarrow(i) ==
    LET n == Len(drawing)
        columns == CHOOSE c \in 1..n : c * c <= n /\ (c + 1) * (c + 1) > n
    IN  <<(i - 1) % columns, (i - 1) \div columns>>

\* The column and the row of the i-th node in the grid.
GridPlace(i) ==
    LET n == Len(drawing)
        columns == CHOOSE c \in 1..n : c * c >= n /\ (c - 1) * (c - 1) < n
    IN  <<(i - 1) % columns, (i - 1) \div columns>>

\* Division of i64 drops the fraction, towards zero.
Quotient(a, b) == IF a < 0 THEN -((-a) \div b) ELSE a \div b

TotalWidth(order) == FoldLeft(LAMBDA total, i : total + drawing[i].width, 0, order)

\* The node gets the place of the cursor, which moves past it and the gap.
PutNext(cursor, i, gap) ==
    [places |-> Append(cursor.places, cursor.next),
     next |-> cursor.next + drawing[i].width + gap]

PlacesFrom(start, order, gap) ==
    FoldLeft(LAMBDA cursor, i : PutNext(cursor, i, gap),
             [places |-> << >>, next |-> start], order).places

\* Variant: the span ends where the last node begins.
DistributedShort(order) ==
    LET first == drawing[order[1]]
        last == drawing[order[Len(order)]]
        gap == Quotient(last.x - first.x - TotalWidth(order), Len(order) - 1)
    IN  PlacesFrom(first.x, order, gap)

\* distribute_nodes with the indices of nodes in the order of their x: the
\* first stays, the others follow at equal gaps.
Distributed(order) ==
    LET first == drawing[order[1]]
        last == drawing[order[Len(order)]]
        span == last.x + last.width - first.x
        gap == Quotient(span - TotalWidth(order), Len(order) - 1)
    IN  PlacesFrom(first.x, order, gap)

\* The indices of the nodes named, by their places.
ByPlace(ids) ==
    LET named == Elements(Kept([i \in DOMAIN drawing |-> i], LAMBDA i : drawing[i].id \in ids))
    IN  Elements(StableSort(named, LAMBDA i, j : drawing[i].x < drawing[j].x))

\* Nodes get new places; the canvas of the model is Places wide.
PlaceNodes(places) ==
    /\ \A i \in DOMAIN places : places[i] \in Places
    /\ drawing' = [i \in DOMAIN drawing |->
          IF i \in DOMAIN places THEN [drawing[i] EXCEPT !.x = places[i]] ELSE drawing[i]]
    /\ UNCHANGED arrows

DistributeNodes ==
    \E ids \in SUBSET DrawnIds :
        LET order == ByPlace(ids)
            places == Distributed(order)
        IN  /\ Cardinality(ids) >= 2
            /\ PlaceNodes([i \in ToSet(order) |->
                  places[CHOOSE k \in DOMAIN order : order[k] = i]])

\* Aligned left, right or in the middle by the nodes named.
AlignNodes ==
    \E ids \in SUBSET DrawnIds, side \in {"left", "right", "center"} :
        LET named == {i \in DOMAIN drawing : drawing[i].id \in ids}
            Left == Min({drawing[i].x : i \in named})
            Right == Max({drawing[i].x + drawing[i].width : i \in named})
            Middle == Quotient(MapThenSumSet(
                          LAMBDA i : drawing[i].x + drawing[i].width \div 2, named),
                        Cardinality(named))
            Aligned(d) == CASE side = "left" -> Left
                            [] side = "right" -> Right - d.width
                            [] side = "center" -> Middle - d.width \div 2
        IN  /\ named # {}
            /\ PlaceNodes([i \in named |-> Aligned(drawing[i])])

CanvasNext ==
    \/ \E n \in CanvasNodes :
          \/ AddCanvasNode(n) \/ MoveCanvasNode(n) \/ ResizeCanvasNode(n)
          \/ RemoveCanvasNode(n)
    \/ AddCanvasEdge \/ RemoveCanvasEdge
    \/ DistributeNodes \/ AlignNodes

CanvasSpec == CanvasInit /\ [][CanvasNext]_canvasVars

-----------------------------------------------------------------------------
\* Nodes and edges have their types.
CanvasTypeOK ==
    /\ Len(arrows) <= MaxEdges
    /\ \A i, j \in DOMAIN drawing :
          /\ drawing[i].id = drawing[j].id => i = j
          /\ drawing[i].x \in Places /\ drawing[i].width \in Widths

\* Where the edges between the drawn nodes form no cycle and none leads to or
\* from a node that is not there, every edge of the hierarchical layout leads to
\* a lower layer; and every node is in exactly one layer whatever the edges are.
LayersDescend ==
    LET layers == LayersOf
        Depth(n) == CHOOSE l \in DOMAIN layers : n \in layers[l]
        whole == \A i \in DOMAIN arrows : {arrows[i].from, arrows[i].to} \subseteq DrawnIds
        ordered == \E rank \in [CanvasNodes -> DOMAIN drawing] :
                      \A i \in DOMAIN arrows : rank[arrows[i].from] < rank[arrows[i].to]
    IN  /\ \A n \in DrawnIds : Cardinality({l \in DOMAIN layers : n \in layers[l]}) = 1
        /\ whole /\ ordered =>
              \A i \in DOMAIN arrows : Depth(arrows[i].from) < Depth(arrows[i].to)

\* No two nodes of the grid share a place, and the grid is as near to a square
\* as it can be: neither its rows nor its columns are more than needed.
GridDistinct ==
    \A i, j \in DOMAIN drawing :
        /\ GridPlace(i) = GridPlace(j) => i = j
        /\ GridPlace(i)[1] * GridPlace(i)[1] < Len(drawing)
        /\ GridPlace(i)[2] * GridPlace(i)[2] < Len(drawing)

\* Nodes that do not overlap stay apart, in their order, and between the outer
\* edges of the first and the last when they are distributed.
DistributeKeepsOrder ==
    \A ids \in SUBSET DrawnIds :
        LET order == ByPlace(ids)
            places == Distributed(order)
            last == drawing[order[Len(order)]]
            apart == \A k \in 1..(Len(order) - 1) :
                drawing[order[k]].x + drawing[order[k]].width <= drawing[order[k + 1]].x
        IN  Cardinality(ids) >= 2 /\ apart =>
              /\ \A k \in 1..(Len(order) - 1) :
                    places[k] + drawing[order[k]].width <= places[k + 1]
              /\ places[Len(order)] <= last.x
              /\ places[1] = drawing[order[1]].x
=============================================================================
