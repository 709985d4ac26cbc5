------------------------------ MODULE PageIndex ------------------------------
(***************************************************************************)
(* The index of pages that k-means builds (bpann/src/index/build.rs,       *)
(* kmeans.rs), its search (search.rs) and the pages as they are on disk    *)
(* (page.rs).  Tests and benches build it; Tree took its place in the      *)
(* backend and kept its files.                                             *)
(*                                                                         *)
(* Points have one coordinate, a multiple of a number that all means in a  *)
(* small index divide.  A page number is a place in the sequence of pages, *)
(* and a row is a place in the points.                                     *)
(***************************************************************************)
EXTENDS Integers, Sequences, FiniteSetsExt, SequencesExt

CONSTANTS
  MaxClusters,    \* the 16 of clamp(2, 16)
  MaxIterations,  \* of kmeans_run: 20
  SkipDegree,     \* DEFAULT_SKIP_NEIGHBORS
  MaxLeaves,      \* MAX_CANDIDATE_LEAVES
  ScanRows, SkipRows,  \* exhaustive_search_row_limit, skip_refinement_row_limit
  Unset           \* no stored centroid, no range

Gap(a, b) == IF a < b THEN b - a ELSE a - b
Mean(s) == FoldSeq(LAMBDA v, acc : v + acc, 0, s) \div Len(s)

\* The place of the first smallest number.
Closest1(q, centres) ==
  CHOOSE i \in DOMAIN centres :
    \A j \in DOMAIN centres :
      Gap(q, centres[i]) < Gap(q, centres[j]) \/ (Gap(q, centres[i]) = Gap(q, centres[j]) /\ i <= j)

---------------------------------------------------------------------------
(* kmeans.rs *)

\* A further centre is any point away from those chosen, or the first point when the
\* draw is zero or is lost in rounding.
Further(points, centres) ==
  LET away == {i \in DOMAIN points : points[i] \notin ToSet(centres)}
  IN {points[i] : i \in IF away = {} THEN DOMAIN points ELSE away \cup {1}}

RECURSIVE Seedings(_, _)
Seedings(points, k) ==
  IF k = 1 THEN {<<p>> : p \in ToSet(points)}
  ELSE UNION {{Append(c, p) : p \in Further(points, c)} : c \in Seedings(points, k - 1)}

Assigned(points, centres) == [i \in DOMAIN points |-> Closest1(points[i], centres)]

\* A cluster without points has its centre at the origin.
Centres(points, places, k) ==
  [c \in 1..k |-> LET mine == SelectSeq([i \in DOMAIN points |-> <<points[i], places[i]>>],
                                        LAMBDA m : m[2] = c)
                  IN IF mine = <<>> THEN 0 ELSE Mean([i \in DOMAIN mine |-> mine[i][1]])]

RECURSIVE Settled(_, _, _, _)
Settled(points, places, k, left) ==
  LET next == Assigned(points, Centres(points, places, k))
  IN IF left = 0 \/ next = places THEN places ELSE Settled(points, next, k, left - 1)

\* Every point in one cluster would recurse for ever.
Dealt(places, k) ==
  IF Cardinality(ToSet(places)) > 1 THEN places
  ELSE [i \in DOMAIN places |-> ((i - 1) % k) + 1]

Clusterings(points, k) ==
  {Dealt(Settled(points, Assigned(points, c), k, MaxIterations), k) : c \in Seedings(points, k)}

---------------------------------------------------------------------------
(* build.rs *)

Leaf(rows, coords, range, centre) ==
  [leaf |-> TRUE, rows |-> rows, coords |-> coords, range |-> range, centre |-> centre]
Inner(kids, centres) == [leaf |-> FALSE, kids |-> kids, centres |-> centres]

\* Page::centroid: of an internal page the mean of its entries, however many rows each has.
CentreOf(page) ==
  IF ~page.leaf THEN Mean(page.centres)
  ELSE IF page.centre # Unset THEN page.centre
  ELSE IF page.coords = <<>> THEN 0 ELSE Mean(page.coords)

Renumbered(pages, by) ==
  [p \in DOMAIN pages |->
     IF pages[p].leaf THEN pages[p]
     ELSE [pages[p] EXCEPT !.kids = [i \in DOMAIN @ |-> @[i] + by]]]

\* partition_to_pages: a page before those below it, children in the order of clusters.
Joined(below) ==
  LET before(i) == 1 + FoldSeq(LAMBDA s, n : Len(s) + n, 0, SubSeq(below, 1, i - 1))
  IN <<Inner([i \in DOMAIN below |-> before(i) + 1], [i \in DOMAIN below |-> CentreOf(below[i][1])])>>
       \o FlattenSeq([i \in DOMAIN below |-> Renumbered(below[i], before(i))])

Clamped(n, lo, hi) == Min({Max({n, lo}), hi})

\* partition_recursive: the pages that may come of some rows, given with their points.
RECURSIVE Partitioned(_, _, _)
Partitioned(rows, pts, capacity) ==
  IF Len(rows) <= capacity
  THEN {<<Leaf(rows, [i \in DOMAIN rows |-> pts[rows[i]]], Unset, Unset)>>}
  ELSE LET k == Clamped((Len(rows) + capacity - 1) \div capacity, 2, MaxClusters)
           mine(places, c) == SelectSeq(rows, LAMBDA r : \E i \in DOMAIN rows : rows[i] = r /\ places[i] = c)
       IN UNION {LET used == SetToSortSeq(ToSet(places), LAMBDA a, b : a < b)
                     kids == [i \in DOMAIN used |-> Partitioned(mine(places, used[i]), pts, capacity)]
                 IN {Joined(below) : below \in {b \in [DOMAIN kids -> UNION {kids[i] : i \in DOMAIN kids}] :
                                                  \A i \in DOMAIN kids : b[i] \in kids[i]}}
                 : places \in Clusterings([i \in DOMAIN rows |-> pts[rows[i]]], k)}

\* build_row_ids_leaf_with_persist: its rows are read from the store.
OneLeaf(pts) == <<Leaf([i \in DOMAIN pts |-> i], <<>>, Unset, IF pts = <<>> THEN 0 ELSE Mean(pts))>>

\* Spans of rows under one root, as from_pages_unpersisted is given them.
Forest(pts, cut) ==
  LET span(s, e) == Leaf(<<>>, <<>>, <<s, e>>, Mean(SubSeq(pts, s, e - 1)))
      leaves == <<span(1, cut), span(cut, Len(pts) + 1)>>
  IN <<Inner(<<2, 3>>, [i \in 1..2 |-> CentreOf(leaves[i])])>> \o leaves

Leaves(pages) == {p \in DOMAIN pages : pages[p].leaf}

\* The order of leaves by the distance of their centres, of equally near ones by number.
Nearer(pages, q, a, b) ==
  LET da == Gap(q, CentreOf(pages[a]))
      db == Gap(q, CentreOf(pages[b]))
  IN da < db \/ (da = db /\ a < b)
Shortest(s, n) == SubSeq(s, 1, Min({n, Len(s)}))

NoEdges == [p \in {} |-> <<>>]

\* build_skip_edges, of an index whose size asks for them.
SkipEdges(pages, rows) ==
  IF ~(rows > ScanRows /\ rows <= SkipRows) THEN NoEdges
  ELSE [p \in Leaves(pages) |->
          Shortest(SetToSortSeq(Leaves(pages) \ {p},
                                LAMBDA a, b : Nearer(pages, CentreOf(pages[p]), a, b)), SkipDegree)]

\* build_from_rows, and the two that are given what they hold.
Built(pts, capacity) ==
  {[pages |-> pages, edges |-> IF Len(pts) <= capacity THEN NoEdges ELSE SkipEdges(pages, Len(pts))] :
     pages \in Partitioned([i \in DOMAIN pts |-> i], pts, capacity)}
Given(pages) == [pages |-> pages, edges |-> NoEdges]

---------------------------------------------------------------------------
(* page.rs: the four kinds of page on disk. *)

Kind(page) == IF page.range # Unset THEN 3 ELSE IF page.coords = <<>> THEN 2 ELSE 1

OrZero(c) == IF c = Unset THEN 0 ELSE c

Serialized(page) ==
  IF ~page.leaf THEN <<0, page.kids, page.centres>>
  ELSE CASE Kind(page) = 3 -> <<3, page.range, OrZero(page.centre)>>
         [] Kind(page) = 2 -> <<2, page.rows, OrZero(page.centre)>>
         [] Kind(page) = 1 -> <<1, page.rows, page.coords>>

Deserialized(bytes) ==
  CASE bytes[1] = 0 -> Inner(bytes[2], bytes[3])
    [] bytes[1] = 1 -> Leaf(bytes[2], bytes[3], Unset, Unset)
    [] bytes[1] = 2 -> Leaf(bytes[2], <<>>, Unset, bytes[3])
    [] bytes[1] = 3 -> Leaf(<<>>, <<>>, bytes[2], bytes[3])

OnDisk(pages) == [p \in DOMAIN pages |-> Serialized(pages[p])]
Opened(bytes) == [p \in DOMAIN bytes |-> Deserialized(bytes[p])]

\* persist and BpannIndex::open; an edge is two page numbers, on disk as in memory.
Reopened(index) == [index EXCEPT !.pages = Opened(OnDisk(@))]

---------------------------------------------------------------------------
(* search.rs *)

\* score_leaf_page: coordinates of the leaf, else of the store, else nothing.
Scored(page, q, pts, store) ==
  IF page.range # Unset THEN
    IF store THEN [i \in 1..(page.range[2] - page.range[1]) |->
                     <<Gap(q, pts[page.range[1] + i - 1]), page.range[1] + i - 1>>]
    ELSE <<>>
  ELSE IF page.coords # <<>> THEN [i \in DOMAIN page.rows |-> <<Gap(q, page.coords[i]), page.rows[i]>>]
  ELSE IF store THEN [i \in DOMAIN page.rows |-> <<Gap(q, pts[page.rows[i]]), page.rows[i]>>]
  ELSE <<>>

Ahead(g, h) == g[1] < h[1] \/ (g[1] = h[1] /\ g[2] < h[2])

\* sort_by and truncate.
TopK(scored, k) == Shortest(SortSeq(scored, Ahead), k)

ScoredLeaves(pages, leaves, q, pts, store) ==
  FlattenSeq([i \in DOMAIN leaves |-> Scored(pages[leaves[i]], q, pts, store)])

InPageOrder(pages) == SetToSortSeq(Leaves(pages), LAMBDA a, b : a < b)

ExhaustiveLeaves(pages, q, k, pts, store) ==
  TopK(ScoredLeaves(pages, InPageOrder(pages), q, pts, store), k)

\* collect_candidate_leaves: at every page down the children whose centres are nearest.
RECURSIVE Descended(_, _, _, _)
Descended(pages, p, q, beam) ==
  IF pages[p].leaf THEN <<p>>
  ELSE LET page == pages[p]
           ranked == SetToSortSeq(DOMAIN page.kids,
                       LAMBDA a, b : \/ Gap(q, page.centres[a]) < Gap(q, page.centres[b])
                                     \/ Gap(q, page.centres[a]) = Gap(q, page.centres[b]) /\ a < b)
           taken == Shortest(ranked, Max({beam, 1}))
       IN FlattenSeq([i \in DOMAIN taken |-> Descended(pages, page.kids[taken[i]], q, beam)])

\* Mutant: a leaf reached already is taken again.
Unvisited(leaves, p) == TRUE
NotVisited(leaves, p) == p \notin ToSet(leaves)

\* The leaves next to those found, while there is room for candidates.
Refined(leaves, edges) ==
  LET after(found, p) ==
        IF Len(found) < MaxLeaves /\ NotVisited(found, p) THEN Append(found, p) ELSE found
      next == FlattenSeq([i \in DOMAIN leaves |->
                IF leaves[i] \in DOMAIN edges THEN edges[leaves[i]] ELSE <<>>])
  IN FoldLeft(after, leaves, next)

\* truncate_candidate_leaves: by the distance of their centres, of equally near ones the
\* one found first.
Truncated(pages, leaves, q) ==
  IF Len(leaves) <= MaxLeaves THEN leaves
  ELSE LET away(i) == Gap(q, CentreOf(pages[leaves[i]]))
           ranked == SetToSortSeq(DOMAIN leaves,
                       LAMBDA a, b : away(a) < away(b) \/ (away(a) = away(b) /\ a < b))
       IN [i \in 1..MaxLeaves |-> leaves[ranked[i]]]

SearchIndex(index, q, k, beam, skip, pts, store) ==
  IF index.pages = <<>> \/ k = 0 THEN <<>>
  ELSE LET found  == Descended(index.pages, 1, q, beam)
           leaves == IF skip THEN Refined(found, index.edges) ELSE found
       IN TopK(ScoredLeaves(index.pages, Truncated(index.pages, leaves, q), q, pts, store), k)

\* bpann_brute_force_topk
BruteForceTopK(pts, q, k) == TopK([i \in DOMAIN pts |-> <<Gap(q, pts[i]), i>>], k)

\* leaf_row_ids
RowIds(page) == IF page.range # Unset THEN page.range[1]..(page.range[2] - 1) ELSE ToSet(page.rows)
=============================================================================
