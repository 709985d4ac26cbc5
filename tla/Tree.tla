-------------------------------- MODULE Tree --------------------------------
(***************************************************************************)
(* The incremental tree of bpann (bpann/src/index/tree*.rs, split.rs,      *)
(* sync.rs): rows descend to the nearest leaf, full pages split up to the  *)
(* root, and after a metric change a sweep deals rows and subtrees out     *)
(* again, a little per inserted row.                                       *)
(*                                                                         *)
(* Rows have one coordinate.  Coordinates are multiples of a unit fine     *)
(* enough for every mean and every radius of an instance to be an integer, *)
(* so the arithmetic is exact where the code rounds.  A page is the record *)
(* the store keeps in its slot; page ids start at 1, 0 is no page.         *)
(***************************************************************************)
EXTENDS Integers, Sequences, FiniteSetsExt, SequencesExt

CONSTANTS
  Layouts,       \* the rows an instance appends: sequences of coordinates
  LeafCapacity,  \* TREE_LEAF_CAPACITY
  Fanout,        \* TREE_FANOUT
  PoolLeaves,    \* MORPH_POOL_LEAVES
  Laps,          \* MORPH_LAPS
  WorkPerAdd,    \* MORPH_WORK_PER_ADD
  BulkMin,       \* BULK_BUILD_MIN_ROWS
  Batches,       \* bound: how many rows an append of the run may bring
  PersistAt,     \* bound: the row counts at which the run writes its index, or fails to
  FailAt,        \* bound: the row counts at which an append of the run may fail
  Factors,       \* what a metric multiplies a coordinate by (1 / x_scale)
  Infinity,      \* the radius of a page nobody measured
  None

ASSUME TreeAssumption ==
  /\ LeafCapacity \in Nat \ {0} /\ Fanout \in Nat \ {0, 1}
  /\ PoolLeaves \in Nat \ {0} /\ Laps \in Nat \ {0} /\ WorkPerAdd \in Nat \ {0}
  /\ BulkMin \in Nat \ {0}
  /\ Batches \subseteq Nat \ {0} /\ PersistAt \subseteq Nat \ {0} /\ FailAt \subseteq Nat
  /\ 1 \in Factors

VARIABLES
  x,       \* the coordinates of all rows the run may append
  rows,    \* how many it appended: train_x.nrows
  counted, \* num_obs.bin
  factor,  \* the metric in force
  index,   \* the live index: pages, root, rows indexed, entries held by header, the sweep
  marked,  \* the marker of a set metric is there
  disk     \* the index files

vars == <<x, rows, counted, factor, index, marked, disk>>

Coord(r) == x[r] * factor
Distance(a, b) == IF a >= b THEN a - b ELSE b - a
Square(a) == a * a
Places(s) == [i \in DOMAIN s |-> i]

\* A function over 1..n as TLC's sequence: TLC drops what EXCEPT changed in an
\* unevaluated function when Append turns it into a sequence later.
Listed(f) == f \o <<>>
Pick(s, ms) == Listed([i \in DOMAIN ms |-> s[ms[i]]])
Largest(S) == Max(S \union {0})

---------------------------------------------------------------------------
(* Splitting points. *)

WeightedMean(vs, ws, ms) ==
  MapThenSumSet(LAMBDA i : vs[i] * ws[i], ms) \div MapThenSumSet(LAMBDA i : ws[i], ms)

Ones(s) == [i \in DOMAIN s |-> 1]
Mean(vs) == WeightedMean(vs, Ones(vs), DOMAIN vs)

Farthest(vs, ms, c) ==
  LET far == Max({Distance(vs[i], c) : i \in ToSet(ms)})
  IN ms[Min({k \in DOMAIN ms : Distance(vs[ms[k]], c) = far})]

\* Places ms by the value of key, equal values by position.
Ranked(ms, key) == SortSeq(ms, LAMBDA i, j : key[i] < key[j] \/ (key[i] = key[j] /\ i < j))

\* The `cut` places that come first along the line through two far-apart points, and
\* the rest.  Of two equally far points either may win: that only mirrors the split.
SplitAt(vs, ms, cut) ==
  LET a == vs[Farthest(vs, ms, vs[ms[1]])]
      b == vs[Farthest(vs, ms, a)]
      order == Ranked(ms, [i \in ToSet(ms) |-> vs[i] * (b - a)])
  IN <<SubSeq(order, 1, cut), SubSeq(order, cut + 1, Len(order))>>

MedianSplit(vs) == SplitAt(vs, Places(vs), Len(vs) \div 2)

TwoMeansIters == 6

\* Weighted 2-means from two far-apart points; neither side gets less than a quarter.
TwoMeansSplit(vs, ws) ==
  LET n == Len(vs)
      all == Places(vs)
      a0 == Farthest(vs, all, WeightedMean(vs, ws, DOMAIN vs))
      b0 == Farthest(vs, all, vs[a0])
      Margin(c, i) == Square(vs[i] - c[1]) - Square(vs[i] - c[2])
      run[k \in 0..TwoMeansIters] ==
        IF k = 0 THEN <<vs[a0], vs[b0]>>
        ELSE LET c == run[k - 1]
                 right == {i \in DOMAIN vs : Margin(c, i) > 0}
                 left == DOMAIN vs \ right
             IN IF left = {} \/ right = {} THEN c
                ELSE <<WeightedMean(vs, ws, left), WeightedMean(vs, ws, right)>>
      margin == [i \in DOMAIN vs |-> Margin(run[TwoMeansIters], i)]
      order == Ranked(all, margin)
      least == Max({n \div 4, 1})
      cut == Max({least, Min({n - least, Cardinality({i \in DOMAIN vs : margin[i] <= 0})})})
  IN <<SubSeq(order, 1, cut), SubSeq(order, cut + 1, n)>>

\* `parts` groups whose sizes differ by at most one.
RECURSIVE Bisect(_, _, _)
Bisect(vs, ms, parts) ==
  IF parts <= 1 THEN <<ms>>
  ELSE LET half == parts \div 2
           split == SplitAt(vs, ms, (Len(ms) * half) \div parts)
       IN Bisect(vs, split[1], half) \o Bisect(vs, split[2], parts - half)

\* Weighted squared distances to the mean of the group.
Scatter(vs, ws, groups) ==
  MapThenSumSet(LAMBDA g :
      LET c == WeightedMean(vs, ws, ToSet(groups[g]))
      IN MapThenSumSet(LAMBDA i : ws[i] * Square(vs[i] - c), ToSet(groups[g])),
    DOMAIN groups)

---------------------------------------------------------------------------
(* Pages. *)

Blank(isLeaf) ==
  [leaf |-> isLeaf, ids |-> <<>>, block |-> <<>>, count |-> 0, radius |-> Infinity, parent |-> 0]

\* A leaf of these rows, its ball measured.
LeafOf(page, ids, block) ==
  [page EXCEPT !.ids = ids, !.block = block, !.count = Len(ids),
               !.radius = Largest({Distance(v, Mean(block)) : v \in ToSet(block)})]

KidCounts(pages, kids) == [i \in DOMAIN kids |-> pages[kids[i]].count]
CentroidOver(pages, kids, cents) == WeightedMean(cents, KidCounts(pages, kids), DOMAIN cents)

\* An internal page over these children: their balls lie in its ball.
InternalOf(pages, page, kids, cents) ==
  LET c == CentroidOver(pages, kids, cents)
  IN [page EXCEPT
       !.ids = kids, !.block = cents,
       !.count = MapThenSumSet(LAMBDA i : pages[kids[i]].count, DOMAIN kids),
       !.radius = Largest({Distance(cents[i], c) + pages[kids[i]].radius : i \in DOMAIN kids})]

Adopted(pages, kids, parent) ==
  FoldLeft(LAMBDA acc, k : [acc EXCEPT ![k].parent = parent], pages, kids)

SlotOf(pages, page) ==
  CHOOSE s \in DOMAIN pages[pages[page].parent].ids : pages[pages[page].parent].ids[s] = page

---------------------------------------------------------------------------
(* Inserting a row. *)

Overfull(ids, limit) == Len(ids) > limit

\* alloc: every slot of the store is taken and it cannot grow.
NoSlot(t) == Len(t.pages) >= t.capacity

RECURSIVE Attach(_, _, _, _, _, _)

HalfOf(pages, page, old, ms) == InternalOf(pages, page, Pick(old.ids, ms), Pick(old.block, ms))

\* Page `id` becomes a, its new sibling b.  Without a slot for b the page keeps all its
\* entries, with the count and the ball of a.
Divided(t, path, id, a, b) ==
  IF NoSlot(t)
  THEN [t EXCEPT !.torn = TRUE, !.pages[id].count = a.count, !.pages[id].radius = a.radius]
  ELSE Attach([t EXCEPT !.pages = Adopted(Append([@ EXCEPT ![id] = a], b), b.ids, Len(@) + 1)],
              path, id, CentroidOver(t.pages, a.ids, a.block),
              Len(t.pages) + 1, CentroidOver(t.pages, b.ids, b.block))

Halved(t, path, id, parts) ==
  Divided(t, path, id, HalfOf(t.pages, t.pages[id], t.pages[id], parts[1]),
          HalfOf(t.pages, Blank(FALSE), t.pages[id], parts[2]))

SplitInternal(t, path, id) ==
  Halved(t, path, id,
         TwoMeansSplit(t.pages[id].block, KidCounts(t.pages, t.pages[id].ids)))

\* Record in the parent that `old` was split into `old` and `new`, or grow a new root;
\* without a slot for it the root stays the old page and the new one belongs nowhere.
Attach(t, path, old, cOld, new, cNew) ==
  IF path = <<>> /\ NoSlot(t) THEN [t EXCEPT !.torn = TRUE]
  ELSE IF path = <<>>
    THEN LET up == Len(t.pages) + 1
             root == [InternalOf(t.pages, Blank(FALSE), <<old, new>>, <<cOld, cNew>>)
                        EXCEPT !.radius = Infinity]
         IN [t EXCEPT !.root = up, !.pages = Adopted(Append(@, root), <<old, new>>, up)]
    ELSE LET parent == Last(path)[1]
             pages == [t.pages EXCEPT
               ![new].parent = parent,
               ![parent].ids = Append(@, new),
               ![parent].block = Append([@ EXCEPT ![Last(path)[2]] = cOld], cNew)]
             grown == [t EXCEPT !.pages = pages]
         IN IF Overfull(grown.pages[parent].ids, Fanout)
              THEN SplitInternal(grown, Front(path), parent)
              ELSE grown

\* The leaf is cut to a before there is a page for b: without a slot the rows of b are gone.
DividedLeaf(t, path, leaf, a, b) ==
  IF NoSlot(t) THEN [t EXCEPT !.torn = TRUE, !.pages[leaf] = a]
  ELSE Attach([t EXCEPT !.pages = Append([@ EXCEPT ![leaf] = a], b)],
              path, leaf, Mean(a.block), Len(t.pages) + 1, Mean(b.block))

HalvedLeaf(t, path, leaf, page, parts) ==
  DividedLeaf(t, path, leaf, LeafOf(page, Pick(page.ids, parts[1]), Pick(page.block, parts[1])),
              LeafOf(Blank(TRUE), Pick(page.ids, parts[2]), Pick(page.block, parts[2])))

SplitLeaf(t, path, leaf) ==
  HalvedLeaf(t, path, leaf, t.pages[leaf], MedianSplit(t.pages[leaf].block))

Nearest(block, v) ==
  LET near == Min({Distance(c, v) : c \in ToSet(block)})
  IN Min({slot \in DOMAIN block : Distance(block[slot], v) = near})

\* The running mean of n rows, v the last of them.
MeanStep(c, v, n) == c + (v - c) \div n

\* Mutant: the ball grows only as far as its centre moved.
WidenedByMove(radius, moved, n) == IF radius = Infinity THEN Infinity ELSE radius + moved

\* The page's ball follows its running mean: it moves by `moved`, and must still hold
\* the rows it held and the new one.
WidenedRadius(radius, moved, n) ==
  IF radius = Infinity THEN Infinity ELSE Max({radius + moved, moved * (n - 1)})

RECURSIVE Descend(_, _, _, _, _)
Descend(t, path, cur, row, v) ==
  LET page == t.pages[cur]
      seen == [t EXCEPT !.pages[cur].count = @ + 1]
  IN IF page.leaf
       THEN LET full == [seen EXCEPT !.pages[cur].ids = Append(@, row),
                                     !.pages[cur].block = Append(@, v),
                                     !.held = @ + 1]
            IN IF Overfull(full.pages[cur].ids, LeafCapacity) THEN SplitLeaf(full, path, cur) ELSE full
       ELSE LET slot == Nearest(page.block, v)
                child == page.ids[slot]
                n == t.pages[child].count + 1
                c == page.block[slot]
                moved == Distance(v, c) \div n
            IN Descend([seen EXCEPT !.pages[cur].block[slot] = MeanStep(c, v, n),
                                    !.pages[child].radius = WidenedRadius(@, moved, n)],
                       Append(path, <<cur, slot>>), child, row, v)

InsertRow(t, row) == Descend(t, <<>>, t.root, row, Coord(row))

---------------------------------------------------------------------------
(* The sweep that deals rows and subtrees out again (tree_morph.rs).  A sweep has
   `slots` page slots left in this lap and `laps` laps; `credit` is the work it may
   still do. *)

NoMorph == [cursor |-> 0, slots |-> 0, laps |-> 0, credit |-> 0]

Scheduled(morph, pages) == [morph EXCEPT !.slots = Len(pages), !.laps = Laps]

KidsOf(pages, page, isLeaf) == SelectSeq(pages[page].ids, LAMBDA k : pages[k].leaf = isLeaf)

RECURSIVE LeavesBelow(_, _)
LeavesBelow(pages, page) ==
  IF pages[page].leaf THEN <<page>>
  ELSE FlattenSeq([i \in DOMAIN pages[page].ids |-> LeavesBelow(pages, pages[page].ids[i])])

SmallSubtree(pages, page) == Len(LeavesBelow(pages, page)) <= PoolLeaves

\* The page's entry in its parent.
Entered(pages, page, c) ==
  [pages EXCEPT ![pages[page].parent].block[SlotOf(pages, page)] = c]

\* Counts, balls and centroids of the internal pages below `page`, bottom up.
RECURSIVE Refreshed(_, _)
Refreshed(pages, page) ==
  FoldLeft(LAMBDA acc, k :
      LET below == Refreshed(acc, k)
          new == InternalOf(below, below[k], below[k].ids, below[k].block)
      IN Entered([below EXCEPT ![k] = new], k, CentroidOver(below, new.ids, new.block)),
    pages, KidsOf(pages, page, FALSE))

\* Positions of what each member brought to the pool.
Runs(seqs) ==
  [g \in DOMAIN seqs |->
     [i \in DOMAIN seqs[g] |-> i + MapThenSumSet(LAMBDA h : Len(seqs[h]), 1..(g - 1))]]

\* Groups for `members` that lower the scatter of what they hold, or None.
Regrouping(vs, ws, seqs) ==
  LET groups == Bisect(vs, Places(vs), Len(seqs))
  IN IF Scatter(vs, ws, groups) < Scatter(vs, ws, Runs(seqs)) THEN groups ELSE None

PlaceIn(members, id) == CHOOSE i \in DOMAIN members : members[i] = id

DealLeaves(pages, leaves, groups, ids, vs) ==
  FoldLeft(LAMBDA acc, g :
      [acc EXCEPT ![leaves[g]] = LeafOf(@, Pick(ids, groups[g]), Pick(vs, groups[g]))],
    pages, Places(leaves))

\* Internal pages are between `page` and the pool only if that is its whole subtree.
RefreshedPool(pages, page) ==
  IF SmallSubtree(pages, page) THEN Refreshed(pages, page) ELSE pages

\* The rows of these leaves are pooled and dealt out again among them, if that makes
\* them tighter.
PoolRows(pages, page, leaves, ids, vs, groups) ==
  IF Len(leaves) < 2 \/ Len(ids) < Len(leaves) THEN [pages |-> pages, work |-> 0]
  ELSE [work |-> Len(ids),
        pages |-> IF groups = None THEN pages
                  ELSE RefreshedPool(
                         FoldLeft(LAMBDA acc, l : Entered(acc, l, Mean(acc[l].block)),
                                  DealLeaves(pages, leaves, groups, ids, vs), leaves),
                         page)]

PoolLeavesOf(pages, page, leaves, held, vs) ==
  PoolRows(pages, page, leaves, FlattenSeq(held), vs, Regrouping(vs, Ones(vs), held))

\* The pool of a page with few leaves below it is all of those, else its leaf children.
RepartitionLeaves(pages, page) ==
  LET leaves == IF SmallSubtree(pages, page) THEN LeavesBelow(pages, page)
                ELSE KidsOf(pages, page, TRUE)
  IN PoolLeavesOf(pages, page, leaves, [i \in DOMAIN leaves |-> pages[leaves[i]].ids],
                  FlattenSeq([i \in DOMAIN leaves |-> pages[leaves[i]].block]))

DealChildren(pages, acc, id, kids, cents) ==
  Entered(Adopted([acc EXCEPT ![id] = InternalOf(pages, @, kids, cents)], kids, id), id,
          CentroidOver(pages, kids, cents))

PoolChildren(pages, members, kids, cents, groups) ==
  IF groups = None THEN pages
  ELSE FoldLeft(LAMBDA acc, g : DealChildren(pages, acc, members[g], Pick(kids, groups[g]),
                                             Pick(cents, groups[g])),
                pages, Places(members))

PoolMembers(pages, members, held, kids, cents) ==
  PoolChildren(pages, members, kids, cents, Regrouping(cents, KidCounts(pages, kids), held))

\* The children of the internal pages below `page` are dealt out again among them.
RepartitionInternal(done, page) ==
  LET members == KidsOf(done.pages, page, FALSE)
      held    == [i \in DOMAIN members |-> done.pages[members[i]].ids]
      kids    == FlattenSeq(held)
  IN IF Len(members) < 2 THEN done
     ELSE [pages |-> PoolMembers(done.pages, members, held, kids,
                       FlattenSeq([i \in DOMAIN members |-> done.pages[members[i]].block])),
           work  |-> done.work + Len(kids)]

\* A page is left out when the visit of its parent pools the same rows.
Visit(pages, page) ==
  IF pages[page].parent # 0 /\ SmallSubtree(pages, pages[page].parent)
    THEN [pages |-> pages, work |-> 0]
    ELSE RepartitionInternal(RepartitionLeaves(pages, page), page)

\* The cursor steps to the next slot, around the end; a lap ends with its last slot.
NextSlot(morph, numPages) ==
  LET cursor == IF morph.cursor >= numPages THEN 1 ELSE morph.cursor + 1
      laps == IF morph.slots = 1 THEN morph.laps - 1 ELSE morph.laps
      slots == IF morph.slots = 1 /\ laps > 0 THEN numPages ELSE morph.slots - 1
  IN [morph EXCEPT !.cursor = cursor, !.laps = laps, !.slots = slots]

Swept(t, next, seen) ==
  [t EXCEPT !.pages = seen.pages, !.morph = [next EXCEPT !.credit = @ - Max({seen.work, 1})]]

SweptSlot(t, next) ==
  IF t.pages[next.cursor].leaf THEN [t EXCEPT !.morph = next]
  ELSE Swept(t, next, Visit(t.pages, next.cursor))

RECURSIVE Sweep(_)
Sweep(t) ==
  IF t.morph.credit <= 0 \/ t.morph.slots = 0 THEN t
  ELSE Sweep(SweptSlot(t, NextSlot(t.morph, Len(t.pages))))

Rested(t) == IF t.morph.slots = 0 THEN [t EXCEPT !.morph.credit = 0] ELSE t

Advanced(t) ==
  IF t.morph.slots = 0 THEN t ELSE Rested(Sweep([t EXCEPT !.morph.credit = @ + WorkPerAdd]))

---------------------------------------------------------------------------
(* Building a tree at once (tree_bulk.rs): a node is the rows it holds. *)

Coords(ids) == Listed([i \in DOMAIN ids |-> Coord(ids[i])])

Halves(ids) == LET parts == MedianSplit(Coords(ids)) IN <<Pick(ids, parts[1]), Pick(ids, parts[2])>>

\* Up to Fanout nodes: the largest that is no leaf yet is replaced by its halves.
RECURSIVE Expanded(_)
Expanded(nodes) ==
  LET splits == {i \in DOMAIN nodes : Len(nodes[i]) > LeafCapacity}
      size == Max({Len(nodes[i]) : i \in splits})
      i == Min({j \in splits : Len(nodes[j]) = size})
  IN IF splits = {} \/ Len(nodes) >= Fanout THEN nodes
     ELSE Expanded(SubSeq(nodes, 1, i - 1) \o Halves(nodes[i]) \o SubSeq(nodes, i + 1, Len(nodes)))

\* Pages of a node, the page itself last; `made` is what is built already.
RECURSIVE Emitted(_, _)
Emitted(made, node) ==
  IF Len(node) <= LeafCapacity
    THEN Append(made, LeafOf(Blank(TRUE), node, Coords(node)))
    ELSE LET nodes == Expanded(<<node>>)
             built[i \in 0..Len(nodes)] ==
               IF i = 0 THEN made ELSE Emitted(built[i - 1], nodes[i])
             kids == [i \in DOMAIN nodes |-> Len(built[i])]
             pages == built[Len(nodes)]
             cents == Listed([i \in DOMAIN kids |-> Mean(Coords(nodes[i]))])
         IN Adopted(Append(pages, InternalOf(pages, Blank(FALSE), kids, cents)), kids, Len(pages) + 1)

---------------------------------------------------------------------------
(* The live index. *)

NoTree ==
  [pages |-> <<>>, root |-> 0, indexed |-> 0, held |-> 0, morph |-> NoMorph,
   capacity |-> Infinity, torn |-> FALSE]

NewTree(t, row) ==
  [t EXCEPT !.pages = <<[LeafOf(Blank(TRUE), <<row>>, <<Coord(row)>>) EXCEPT !.radius = 0]>>,
            !.root = 1, !.held = 1]

Bulk(t, pages, end) ==
  [t EXCEPT !.pages = pages, !.root = Len(pages), !.indexed = end, !.held = end]

\* One row after the other from the first that is not indexed.
Grown(t, end) ==
  FoldLeft(LAMBDA acc, row :
             [IF acc.pages = <<>> THEN NewTree(acc, row) ELSE Advanced(InsertRow(acc, row))
                EXCEPT !.indexed = row],
           t, [i \in 1..(end - t.indexed) |-> t.indexed + i])

BuiltAtOnce(t, end) == t.pages = <<>> /\ end - t.indexed >= BulkMin

Synced(t, end) ==
  Grown(IF BuiltAtOnce(t, end)
          THEN Bulk(t, Emitted(<<>>, [i \in 1..end |-> i]), end) ELSE t,
        end)

\* The trees that are left when the insert of the row after the first r gets no page for
\* one of its splits, the one of the leaf or one further up.
TornAt(t, row) ==
  {[InsertRow([t EXCEPT !.capacity = c], row) EXCEPT !.capacity = Infinity] :
     c \in Len(t.pages)..(Len(InsertRow(t, row).pages) - 1)}

\* What a failing call leaves that was to index the rows up to `end`: no tree, if it could
\* not begin one; else a split of some row stopped half done, with that row not counted.
Interrupted(t, end) ==
  (IF t.pages = <<>> THEN {t} ELSE {})
    \union (IF BuiltAtOnce(t, end) THEN {}
            ELSE UNION {TornAt(Grown(t, r), r + 1) : r \in Max({t.indexed, 1})..(end - 1)})

\* scale_rows: every coordinate and every ball by the same ratio.
Scaled(pages, to) ==
  [p \in DOMAIN pages |->
     [pages[p] EXCEPT
       !.block = [i \in DOMAIN @ |-> (@[i] * to) \div factor],
       !.radius = IF @ = Infinity THEN @ ELSE (@ * to) \div factor]]

---------------------------------------------------------------------------
(* The index files (tree_persist.rs): leaf coordinates, counts, balls and parents are
   not written but found again from the root and from the rows. *)

Written(pages) ==
  [p \in DOMAIN pages |->
     [Blank(pages[p].leaf) EXCEPT !.ids = pages[p].ids,
                                  !.block = IF pages[p].leaf THEN <<>> ELSE pages[p].block]]

RECURSIVE Reached(_, _)
Reached(pages, page) ==
  IF pages[page].leaf THEN <<page>>
  ELSE <<page>> \o FlattenSeq([i \in DOMAIN pages[page].ids |-> Reached(pages, pages[page].ids[i])])

RowsBelow(pages, page) ==
  LET leaves == LeavesBelow(pages, page)
  IN FlattenSeq([i \in DOMAIN leaves |-> pages[leaves[i]].ids])

\* Every page is reached exactly once and the leaves hold the rows.
Recounts(pages, root, indexed) ==
  LET order == Reached(pages, root)
  IN /\ Len(order) = Len(pages) /\ ToSet(order) = DOMAIN pages
     /\ Len(RowsBelow(pages, root)) = indexed

ParentOf(pages, page) ==
  LET up == {p \in DOMAIN pages : ~pages[p].leaf /\ page \in ToSet(pages[p].ids)}
  IN IF up = {} THEN 0 ELSE Max(up)

\* Mutant: a page counts its entries, not the rows below it.
RecountedEntries(pages) ==
  [p \in DOMAIN pages |->
     [pages[p] EXCEPT !.count = Len(pages[p].ids), !.parent = ParentOf(pages, p)]]
Recounted(pages) ==
  [p \in DOMAIN pages |->
     [pages[p] EXCEPT !.count = Len(RowsBelow(pages, p)), !.parent = ParentOf(pages, p)]]

RECURSIVE Ball(_, _, _)
Ball(pages, page, c) ==
  LET p == pages[page]
  IN IF p.leaf THEN Largest({Distance(v, c) : v \in ToSet(p.block)})
     ELSE Largest({Distance(p.block[i], c) + Ball(pages, p.ids[i], p.block[i]) : i \in DOMAIN p.block})

PageCentroid(pages, page) ==
  IF pages[page].leaf THEN Mean(pages[page].block)
  ELSE CentroidOver(pages, pages[page].ids, pages[page].block)

EntryOf(pages, page) ==
  IF pages[page].parent = 0 THEN PageCentroid(pages, page)
  ELSE pages[pages[page].parent].block[SlotOf(pages, page)]

\* fill_blocks: the leaves get their rows' coordinates, and every ball is measured.
Filled(pages) ==
  LET full == [p \in DOMAIN pages |->
                 IF pages[p].leaf THEN [pages[p] EXCEPT !.block = Coords(pages[p].ids)] ELSE pages[p]]
  IN Listed([p \in DOMAIN full |-> [full[p] EXCEPT !.radius = Ball(full, p, EntryOf(full, p))]])

---------------------------------------------------------------------------
(* The backend. *)

Init ==
  /\ x \in Layouts
  /\ rows = 0 /\ counted = 0 /\ factor = 1 /\ marked = FALSE
  /\ index = NoTree /\ disk = None

\* Every row not indexed yet is inserted with the new ones.
AppendRows(m) ==
  /\ rows + m <= Len(x)
  /\ rows' = rows + m /\ counted' = rows'
  /\ index' = Synced(index, rows + m)
  /\ UNCHANGED <<x, factor, marked, disk>>

\* train_x grew, and the file of y or of the variances did not: the call fails before it
\* indexes the rows.  The next call that indexes takes them along.
AppendFails(m) ==
  /\ rows \in FailAt /\ rows + m <= Len(x)
  /\ rows' = rows + m
  /\ UNCHANGED <<x, counted, factor, index, marked, disk>>

\* The rows are stored and counted, and the call fails while it indexes them.  Bound: one
\* split of a tree fails.
InsertFails(m) ==
  /\ rows \in FailAt /\ rows + m <= Len(x) /\ ~index.torn
  /\ rows' = rows + m /\ counted' = rows'
  /\ index' \in Interrupted(index, rows + m)
  /\ UNCHANGED <<x, factor, marked, disk>>

SetMetric(to, rebuild) ==
  /\ LET pages == Scaled(index.pages, to)
     IN index' = [index EXCEPT !.pages = pages,
                               !.morph = IF rebuild /\ pages # <<>> THEN Scheduled(@, pages) ELSE @]
  /\ factor' = to /\ marked' = TRUE
  /\ UNCHANGED <<x, rows, counted, disk>>

MarkStale ==
  /\ index' = NoTree
  /\ UNCHANGED <<x, rows, counted, factor, marked, disk>>

EnsureSync ==
  /\ index' = Synced(index, rows)
  /\ UNCHANGED <<x, rows, counted, factor, marked, disk>>

\* The same in a sync, or in a persist before it writes a file.
SyncFails ==
  /\ rows \in PersistAt /\ index.indexed < rows /\ ~index.torn
  /\ index' \in Interrupted(index, rows)
  /\ UNCHANGED <<x, rows, counted, factor, marked, disk>>

PersistIndex ==
  /\ rows \in PersistAt
  /\ index' = Synced(index, rows)
  /\ disk' = [pages |-> Written(index'.pages), root |-> index'.root, held |-> index'.held,
               rows |-> rows, factor |-> factor, torn |-> index'.torn]
  /\ UNCHANGED <<x, rows, counted, factor, marked>>

\* What indexed_rows.bin says at an open, of the rows that are counted: those of the
\* persist, or more if a sync wrote it since.
Recorded == {Min({disk.rows, counted}), counted}

Adopts(recorded) ==
  ~marked /\ disk.held <= recorded /\ Recounts(disk.pages, disk.root, disk.held)

\* The process ends and another one opens the store, in the identity metric.  An index
\* written under a metric that was set is discarded (what happens when its marker was
\* lost is BpannStore's subject).  Rows that were not counted are gone, and so is an index
\* that holds them.
Reopen ==
  /\ disk # None /\ (~marked => disk.factor = 1)
  /\ factor' = 1 /\ marked' = FALSE
  /\ rows' = counted
  /\ \E recorded \in Recorded :
       index' = IF Adopts(recorded)
                  THEN Synced([NoTree EXCEPT !.pages = Filled(Recounted(disk.pages)),
                                             !.root = disk.root, !.indexed = disk.held,
                                             !.held = disk.held, !.torn = disk.torn], counted)
                  ELSE IF marked THEN NoTree ELSE Synced(NoTree, counted)
  /\ UNCHANGED <<x, counted, disk>>

Next ==
  \/ \E m \in Batches : AppendRows(m) \/ AppendFails(m) \/ InsertFails(m)
  \/ \E to \in Factors, rebuild \in BOOLEAN : SetMetric(to, rebuild)
  \/ MarkStale
  \/ EnsureSync
  \/ SyncFails
  \/ PersistIndex
  \/ Reopen

Spec == Init /\ [][Next]_vars

---------------------------------------------------------------------------
(* Properties. *)

Kept == index.pages # <<>>
RowsOf(p) == ToSet(RowsBelow(index.pages, p))

\* Whatever splits, sweeps, rebuilds and reopens moved it, every indexed row is in
\* exactly one leaf, beside its own coordinate in today's metric
\* (tree.rs:107-135, tree_morph.rs:211-239).  The counts, parents and centroids kept on
\* the way, row by row and split by split, are those a recount from the root would find,
\* no page is lost or reached twice, and none is empty or keeps more entries than it may
\* (tree_counts.rs:126-138, tree.rs:32-37).
RowsOnce ==
  /\ index.indexed = 0 <=> ~Kept
  /\ Kept => LET ids == RowsBelow(index.pages, index.root)
             IN Len(ids) = index.indexed /\ ToSet(ids) = 1..index.indexed
  /\ \A p \in DOMAIN index.pages :
       index.pages[p].leaf => index.pages[p].block = Coords(index.pages[p].ids)
  /\ \A p \in DOMAIN index.pages :
       Len(index.pages[p].ids) \in 1..(IF index.pages[p].leaf THEN LeafCapacity ELSE Fanout)
  /\ Kept =>
       /\ Recounts(index.pages, index.root, index.indexed)
       /\ \A p \in DOMAIN index.pages :
            /\ index.pages[p].count = Len(RowsBelow(index.pages, p))
            /\ index.pages[p].parent = ParentOf(index.pages, p)
  /\ \A p \in DOMAIN index.pages : ~index.pages[p].leaf =>
       \A s \in DOMAIN index.pages[p].ids :
         LET below == RowsOf(index.pages[p].ids[s])
         IN index.pages[p].block[s] * Cardinality(below) = MapThenSumSet(Coord, below)

\* No row is outside the ball of a page above it, however often the page's centre
\* moved since the ball was measured: a search may skip the page by its ball
\* (tree_store.rs:292, tree_search.rs:115-125).
RadiiCover ==
  \A p \in DOMAIN index.pages : index.pages[p].parent # 0 =>
    \A r \in RowsOf(p) : Distance(Coord(r), EntryOf(index.pages, p)) <= index.pages[p].radius

\* The tree an insert, a sweep, a rebuild or a reopen leaves: every row in its one place,
\* with the counts a recount finds, inside every ball above it (tree.rs, tree_morph.rs,
\* tree_counts.rs).  That is until a split gets no page (tree.rs:162, 176, 218): the code
\* does not mend such a tree, and it stays until a reset or a reopen builds another.
TreeSound == ~index.torn => RowsOnce /\ RadiiCover

ComesBack ==
  LET back == Filled(Recounted(disk'.pages))
  IN /\ Recounts(disk'.pages, disk'.root, disk'.rows)
     /\ DOMAIN back = DOMAIN index'.pages
     /\ \A p \in DOMAIN back : back[p] = [index'.pages[p] EXCEPT !.radius = back[p].radius]

\* The tree the next open takes over from a persist, its counts, parents and leaf
\* coordinates found again, is the tree that was in memory (tree_persist.rs:124-178).  If a
\* split of it had failed, an open takes it over only if it lost no row: the count in the
\* header is of every entry ever put in, and the leaves no longer hold that many
\* (tree.rs:128, tree_counts.rs:96-105).
PersistedComesBack ==
  [][disk' # disk =>
       IF disk'.torn
         THEN Recounts(disk'.pages, disk'.root, disk'.held)
                => 1..disk'.rows \subseteq ToSet(RowsBelow(disk'.pages, disk'.root))
         ELSE disk'.held = disk'.rows /\ ComesBack]_vars
=============================================================================
