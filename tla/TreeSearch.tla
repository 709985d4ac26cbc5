----------------------------- MODULE TreeSearch -----------------------------
(***************************************************************************)
(* BpannBackend::search over the tree of module Tree (bpann/src/backend.rs,*)
(* small_n_search.rs, large_n_search.rs, merge.rs, index/tree_search.rs):  *)
(* a small store scores every row (SmallSearch); beyond that the tree is   *)
(* searched best first for the indexed rows, the rows not indexed are      *)
(* scored one by one, and the two answers are merged (LargeSearch).        *)
(*                                                                         *)
(* An answer is a sequence of hits <<distance, row>>.  The code compares   *)
(* squared distances; with one coordinate the plain distance orders alike. *)
(***************************************************************************)
EXTENDS Tree

CONSTANTS
  Queries,     \* the query coordinates a run asks about
  Ks,          \* the numbers of neighbours it asks for
  LeafBudget   \* leaf_budget: how many leaves a search of the tree may score

ASSUME SearchAssumption == Ks \subseteq Nat /\ LeafBudget \in Nat \ {0}

Before(a, b) == a[1] < b[1] \/ (a[1] = b[1] /\ a[2] < b[2])
Rank(hits, hit) == Cardinality({h \in hits : Before(h, hit)}) + 1
Ascending(hits) == [i \in 1..Cardinality(hits) |-> CHOOSE hit \in hits : Rank(hits, hit) = i]
Prefix(s, k) == SubSeq(s, 1, Min({k, Len(s)}))

HitsOf(q, ids) == {<<Distance(q, Coord(r)), r>> : r \in ids}

---------------------------------------------------------------------------
(* The tree (tree_search.rs). *)

\* cannot_improve: k rows are held, and the worst is nearer than the bound.
CannotImprove(top, k, bound) ==
  Cardinality(top) >= k /\ \A hit \in top : bound > hit[1]

Closest(hits, k) == {hit \in hits : Rank(hits, hit) <= k}
Offered(top, k, hits) == Closest(top \union hits, k)

\* Mutant: the distance to the centroid is taken for a bound.
LowerBoundOfCentre(d, radius) == d
LowerBound(d, radius) == Largest({d - radius})

Priority(d, radius) == Largest({10 * d - radius})

EarlierEntry(a, b) ==
  \/ a[1] < b[1]
  \/ a[1] = b[1] /\ (a[2] < b[2] \/ (a[2] = b[2] /\ a[3] < b[3]))

\* Entries <<priority, bound, page>> of the children of a page that may hold a
\* better row.
Children(page, q, k, top) ==
  LET entries == {LET d == Distance(q, page.block[s])
                      radius == index.pages[page.ids[s]].radius
                  IN <<Priority(d, radius), LowerBound(d, radius), page.ids[s]>> : s \in DOMAIN page.ids}
  IN {e \in entries : ~CannotImprove(top, k, e[2])}

RECURSIVE Explored(_, _, _, _, _, _)
Explored(frontier, top, leaves, q, k, budget) ==
  LET best == CHOOSE e \in frontier : \A f \in frontier \ {e} : EarlierEntry(e, f)
      page == index.pages[best[3]]
      rest == frontier \ {best}
  IN IF frontier = {} \/ (leaves >= budget /\ Cardinality(top) >= k) THEN top
     ELSE IF CannotImprove(top, k, best[2]) THEN Explored(rest, top, leaves, q, k, budget)
     ELSE IF page.leaf
       THEN Explored(rest, Offered(top, k, HitsOf(q, ToSet(page.ids))), leaves + 1, q, k, budget)
       ELSE Explored(rest \union Children(page, q, k, top), top, leaves, q, k, budget)

SearchTree(q, k, budget) ==
  IF k = 0 \/ index.pages = <<>> THEN {}
  ELSE Explored({<<0, 0, index.root>>}, {}, 0, q, k, budget)

---------------------------------------------------------------------------
(* The backend. *)

BruteForce(q, ids, k) == Closest(HitsOf(q, ids), k)

\* The row at distance zero goes, the one with the smallest id if there are several; of
\* a query that is no row nothing goes.
SelfExcluded(ranked) ==
  IF ranked # <<>> /\ ranked[1][1] = 0 THEN Tail(ranked) ELSE ranked

\* The legs hold different rows.  A row equal to the query that no leg found is not
\* excluded, and neither is another row in its place.
Merged(legA, legB, k, poolK, exclude) ==
  LET ranked == Ascending(legA \union legB)
  IN Prefix(Prefix(IF exclude THEN SelfExcluded(ranked) ELSE ranked, poolK), k)

PoolK(k, exclude) == IF exclude THEN Min({k + 1, rows}) ELSE k

TreeK(k, exclude) == IF exclude THEN Max({PoolK(k, exclude), 2 * k}) ELSE k

SmallSearch(q, k, exclude) ==
  Merged(BruteForce(q, 1..rows, PoolK(k, exclude)), {}, k, PoolK(k, exclude), exclude)

LargeSearch(q, k, exclude, budget) ==
  Merged(SearchTree(q, Max({TreeK(k, exclude), 1}), budget),
         BruteForce(q, index.indexed + 1..rows, PoolK(k, exclude)),
         k, PoolK(k, exclude), exclude)

---------------------------------------------------------------------------
(* Properties. *)

Asked(k) == Min({k, rows})

\* The k nearest rows, of equally near ones the earlier; without the first row that
\* equals the query if that is asked for.
Neighbours(q, k, exclude) ==
  LET ranked == Ascending(HitsOf(q, 1..rows))
  IN Prefix(IF exclude THEN SelfExcluded(ranked) ELSE ranked, k)

\* With a budget for every leaf a search of the tree, its balls moved by inserts,
\* splits, sweeps and rescaling, merged with the rows not indexed, skips no page that
\* holds a neighbour: it answers what scoring every row would, and so the answer does
\* not change at the row count where the backend stops scoring every row
\* (tree_search.rs:1-8, small_n_search.rs:16-21).  However small the budget, an answer has
\* as many rows as were asked for and are there (one fewer if the query's own row is
\* excluded and there is none to take its place), each once, nearest first
\* (large_n_search.rs:78-147).  A tree in which a split failed (SplitLeaf in Tree) may
\* lack rows, and only the search of a small store does without the tree.
SearchExact ==
  \A q \in Queries, k \in Ks, exclude \in BOOLEAN :
    LET exact  == Neighbours(q * factor, Asked(k), exclude)
        hasty  == LargeSearch(q * factor, Asked(k), exclude, LeafBudget)
        others == IF exclude /\ rows > 0 THEN rows - 1 ELSE rows
    IN /\ SmallSearch(q * factor, Asked(k), exclude) = exact
       /\ ~index.torn =>
            /\ LargeSearch(q * factor, Asked(k), exclude, Len(index.pages) + 1) = exact
            /\ Len(hasty) >= Min({Asked(k), others})
            /\ ToSet(hasty) \subseteq HitsOf(q * factor, 1..rows)
            /\ \A i \in 1..(Len(hasty) - 1) : Before(hasty[i], hasty[i + 1])
=============================================================================
