------------------------------ MODULE Learning ------------------------------
(***************************************************************************)
(* The learned metric (ennbo/src/metric_sobol.rs, metric_weights.rs,       *)
(* metric_loo.rs, auto_weights of metric_auto.rs): how much of y each      *)
(* column of x explains, one weight for each column from that, and the     *)
(* neighbours by which a leave-one-out score compares two metrics.         *)
(*                                                                         *)
(* x is a sequence of rows, y one of rows of outputs, in whole numbers;    *)
(* what is divided is a fraction <<num, den>> in lowest terms.  Columns    *)
(* are 1..d, and tied a sequence of groups of them that share a weight.    *)
(***************************************************************************)
EXTENDS Integers, Sequences, FiniteSetsExt, SequencesExt

CONSTANTS
  MinDependenceRows, \* MIN_DEPENDENCE_ROWS
  DependenceZ,       \* DEPENDENCE_Z
  FloorPart          \* 1 / DEPENDENCE_FLOOR

RECURSIVE Gcd(_, _)
Gcd(a, b) == IF b = 0 THEN a ELSE Gcd(b, a % b)

Fraction(num, den) ==
  LET g == Gcd(IF num < 0 THEN -num ELSE num, den) IN <<num \div g, den \div g>>
Plus(f, g)  == Fraction(f[1] * g[2] + g[1] * f[2], f[2] * g[2])
Over(f, g)  == Fraction(f[1] * g[2], f[2] * g[1])
Above(f, g) == f[1] * g[2] > g[1] * f[2]
Greater(f, g) == IF Above(f, g) THEN f ELSE g
SumOfFractions(fs) == FoldLeft(Plus, <<0, 1>>, fs)

AddUp(f) == MapThenSumSet(LAMBDA i : f[i], DOMAIN f)
Column(rows, j) == [i \in DOMAIN rows |-> rows[i][j]]

---------------------------------------------------------------------------
(* metric_sobol.rs. *)

\* floor(sqrt(n)), and two at least.
Bins(n) == Max({2} \cup {b \in 1..n : b * b <= n})

\* n times the difference to the mean.
Centred(col) == [i \in DOMAIN col |-> Len(col) * col[i] - AddUp(col)]

\* between_share: of the variance of yc, what lies between the b cells, less what chance
\* puts there.
BetweenShare(cells, yc, b) ==
  LET n       == Len(yc)
      members == [c \in 0..b - 1 |-> {i \in DOMAIN yc : cells[i] = c}]
      count   == [c \in 0..b - 1 |-> Max({Cardinality(members[c]), 1})]
      common  == FoldFunction(LAMBDA m, p : m * p, 1, count)
      inCell  == [c \in 0..b - 1 |-> AddUp([i \in members[c] |-> yc[i]])]
      between == AddUp([c \in 0..b - 1 |-> inCell[c] * inCell[c] * (common \div count[c])])
      all     == common * AddUp([i \in DOMAIN yc |-> yc[i] * yc[i]])
  IN Fraction(Max({(n - 1) * between - (b - 1) * all, 0}), (n - b) * all)

Explained(cells, y, b) ==
  IF b < 2 \/ Len(y) < 2 * b \/ Cardinality(ToSet(y)) < 2 THEN <<0, 1>>
  ELSE BetweenShare(cells, Centred(y), b)

\* stable_ranks
Ranks(col) ==
  [i \in DOMAIN col |->
     Cardinality({r \in DOMAIN col : col[r] < col[i] \/ (col[r] = col[i] /\ r < i)})]

\* sobol_index: the cells of one column.
CellsOfColumn(col) ==
  LET b == Bins(Len(col))
  IN [of |-> [i \in DOMAIN col |-> (Ranks(col)[i] * b) \div Len(col)], count |-> b]

\* cells_of_group, group_cell_count: rows that agree in every column of the group.
KeyOf(row, group) == [g \in DOMAIN group |-> row[group[g]]]
CellsOfGroup(x, group) ==
  LET keys == SetToSeq({KeyOf(x[i], group) : i \in DOMAIN x})
  IN [of |-> [i \in DOMAIN x |-> (CHOOSE c \in DOMAIN keys : keys[c] = KeyOf(x[i], group)) - 1],
      count |-> Len(keys)]

\* passing: an index that chance would give as null_sd says counts as none.
Passing(s, n, b) ==
  IF n >= 3 /\ s[1] * s[1] * n * n > DependenceZ * DependenceZ * 2 * (b - 1) * s[2] * s[2]
  THEN s ELSE <<0, 1>>

---------------------------------------------------------------------------
(* metric_weights.rs. *)

\* validate_tied_dims
TiedIsLegal(tied, d) ==
  LET flat == FlattenSeq(tied)
  IN /\ \A g \in DOMAIN tied : tied[g] # <<>>
     /\ ToSet(flat) \subseteq 1..d
     /\ Cardinality(ToSet(flat)) = Len(flat)

\* mean_sobol, and the mean of a group's indices, over the outputs.
MeanSobol(cells, y) ==
  Over(SumOfFractions([o \in DOMAIN y[1] |-> Explained(cells.of, Column(y, o), cells.count)]),
       <<Len(y[1]), 1>>)

FreeDims(d, tied) == SetToSortSeq((1..d) \ ToSet(FlattenSeq(tied)), <)

\* unit_indices: the columns in no group come first, then the groups.
UnitCells(x, tied) ==
  LET free == FreeDims(Len(x[1]), tied)
  IN [u \in DOMAIN free |-> CellsOfColumn(Column(x, free[u]))]
       \o [g \in DOMAIN tied |-> CellsOfGroup(x, tied[g])]
IndicesOf(units, y) ==
  [u \in DOMAIN units |-> Passing(MeanSobol(units[u], y), Len(y), units[u].count)]
UnitIndices(x, y, tied) == IndicesOf(UnitCells(x, tied), y)

UnitOf(j, d, tied) ==
  LET free == FreeDims(d, tied)
  IN IF j \in ToSet(free) THEN CHOOSE u \in DOMAIN free : free[u] = j
     ELSE Len(free) + CHOOSE g \in DOMAIN tied : j \in ToSet(tied[g])

\* Mutant: the spread about zero.
SpreadAboutZero(col) ==
  LET v == AddUp([i \in DOMAIN col |-> col[i] * col[i]])
  IN IF v > 0 THEN Fraction(v, Len(col)) ELSE <<1, 1>>
\* spread, of one column.
Spread(col) ==
  LET n == Len(col)
      v == n * AddUp([i \in DOMAIN col |-> col[i] * col[i]]) - AddUp(col) * AddUp(col)
  IN IF v > 0 THEN Fraction(v, n * n) ELSE <<1, 1>>

\* No unit counts for less than the floor below the largest, and all count the same if none
\* explains anything.
Floored(s) ==
  LET top   == FoldLeft(Greater, <<0, 1>>, s)
      least == Fraction(top[1], top[2] * FloorPart)
  IN [u \in DOMAIN s |-> IF top[1] > 0 THEN Greater(s[u], least) ELSE <<1, 1>>]

\* The weights are one on average where a column has spread one.
WeightsOf(used, x, tied) ==
  LET d      == Len(x[1])
      mean   == Over(SumOfFractions(used), <<Len(used), 1>>)
      spread == [j \in 1..d |-> IF j \in ToSet(FlattenSeq(tied)) THEN <<1, 1>>
                                ELSE Spread(Column(x, j))]
  IN [j \in 1..d |-> Over(Over(used[UnitOf(j, d, tied)], mean), spread[j])]

\* dependence_weights
DependenceWeights(x, y, tied) == WeightsOf(Floored(UnitIndices(x, y, tied)), x, tied)

---------------------------------------------------------------------------
(* metric_loo.rs: the grid of scales and noises and the likelihood are     *)
(* numbers; they see the y and the distances of these neighbours.          *)

\* column_loglik: the squared distance in the metric a; the standard units x is taken to
\* and the weights taken to them cancel.
LooDistance(x, i, r, a) ==
  SumOfFractions([j \in DOMAIN a |-> Fraction(a[j][1] * (x[i][j] - x[r][j]) * (x[i][j] - x[r][j]), a[j][2])])

\* The k other rows that are nearest to row i, each with its distance.
LooNeighbours(x, i, a, k) ==
  LET dist == [r \in DOMAIN x |-> LooDistance(x, i, r, a)]
      nearer(s, r) == Above(dist[r], dist[s]) \/ (dist[r] = dist[s] /\ s < r)
      others == DOMAIN x \ {i}
  IN {<<r, dist[r]>> : r \in {t \in others : Cardinality({s \in others : nearer(s, t)}) < k}}

LearnedWith(w, x, k) ==
  [outcome |-> "learned", weights |-> w,
   neighbours |-> [i \in DOMAIN x |-> LooNeighbours(x, i, w, k)]]

\* auto_weights, and what its gain is computed from: with too few rows nothing is.
AutoLearned(x, y, tied, k) ==
  IF ~TiedIsLegal(tied, Len(x[1])) THEN [outcome |-> "refused"]
  ELSE IF Len(x) < MinDependenceRows THEN [outcome |-> "few"]
  ELSE LearnedWith(DependenceWeights(x, y, tied), x, k)
=============================================================================
