----------------------------- MODULE MorboProofs -----------------------------
(***************************************************************************)
(* What MCMorbo checks on a small instance, for any metric rows, weights,  *)
(* batches, faults and number of rows: the ranges are those of every row   *)
(* told, and what a batch has to beat is the score of the kept incumbent.  *)
(*                                                                         *)
(* The first is a law of ranges: widening the ranges of some rows by a     *)
(* batch gives the ranges of both (WidenedCovers).  The second rests on    *)
(* it: without a surrogate every row is a candidate, so the ranges the     *)
(* optimizer chooses its incumbent over and those the region scores it in  *)
(* are the same, and the incumbent is the best of all rows in both.        *)
(***************************************************************************)
EXTENDS Morbo, SequenceTheorems, WellFoundedInduction, TLAPS

----------------------------------------------------------------------------
(* Least and greatest elements.                                            *)

\* A set of numbers that is not empty has a least one.
LEMMA LeastNumber ==
  ASSUME NEW S \in SUBSET Nat, S # {}
  PROVE  \E m \in S : \A k \in S : m <= k
<1> DEFINE Less == {p \in Nat \X Nat : p[1] < p[2]}
<1>1. IsWellFoundedOn(Less, Nat)
  BY NatLessThanWellFounded DEF OpToRel
<1>2. \A k, m \in Nat : k < m => <<k, m>> \in Less
  OBVIOUS
<1> HIDE DEF Less
<1>3. \E m \in S : \A k \in S : <<k, m>> \notin Less
  BY <1>1, WFMin
<1>4. \A k, m \in Nat : k < m \/ m <= k
  OBVIOUS
<1> QED
  BY <1>2, <1>3, <1>4

\* A list of numbers has a greatest: the shortest list without one would have one.
LEMMA GreatestOfList ==
  ASSUME NEW n \in Nat \ {0}, NEW f \in [1..n -> Int]
  PROVE  \E i \in 1..n : \A j \in 1..n : f[j] <= f[i]
<1> DEFINE Has(k) == \A g \in [1..k -> Int] : \E i \in 1..k : \A j \in 1..k : g[j] <= g[i]
           Without == {k \in Nat \ {0} : ~Has(k)}
<1> SUFFICES ASSUME Without # {} PROVE FALSE
  OBVIOUS
<1>1. PICK k \in Without : \A l \in Without : k <= l
  BY LeastNumber
<1>2. PICK g \in [1..k -> Int] : ~\E i \in 1..k : \A j \in 1..k : g[j] <= g[i]
  OBVIOUS
<1>3. CASE k = 1
  BY <1>2, <1>3
<1>4. CASE k # 1
  <2>1. k - 1 \in Nat \ {0} /\ k - 1 \notin Without
    <3>1. k \in Nat \ {0}
      OBVIOUS
    <3> HIDE DEF Without
    <3>2. k - 1 \in Nat \ {0} /\ ~(k <= k - 1)
      BY <1>4, <3>1
    <3> QED
      BY <1>1, <3>2
  <2>2. [j \in 1..k - 1 |-> g[j]] \in [1..k - 1 -> Int]
    OBVIOUS
  <2>3. PICK i \in 1..k - 1 :
          \A j \in 1..k - 1 : [l \in 1..k - 1 |-> g[l]][j] <= [l \in 1..k - 1 |-> g[l]][i]
    BY <2>1, <2>2
  <2>4. \A j \in 1..k - 1 : g[j] <= g[i]
    BY <2>3
  <2>5. \A j \in 1..k : j \in 1..k - 1 \/ j = k
    BY <2>1
  <2>6. i \in 1..k /\ k \in 1..k /\ g[i] \in Int /\ g[k] \in Int
    BY <2>1
  <2>7. CASE g[k] <= g[i]
    BY <1>2, <2>4, <2>5, <2>6, <2>7
  <2>8. CASE ~(g[k] <= g[i])
    <3>1. \A x \in Int : x <= g[i] => x <= g[k]
      BY <2>6, <2>8
    <3>2. \A j \in 1..k : g[j] <= g[k]
      <4> TAKE j \in 1..k
      <4>1. g[j] \in Int
        OBVIOUS
      <4>2. CASE j \in 1..k - 1
        BY <2>4, <3>1, <4>1, <4>2
      <4>3. CASE j = k
        BY <2>6, <4>3
      <4> QED
        BY <2>5, <4>2, <4>3
    <3> QED
      BY <1>2, <2>6, <3>2
  <2> QED
    BY <2>7, <2>8
<1> QED
  BY <1>3, <1>4

\* And a least.
LEMMA LeastOfList ==
  ASSUME NEW n \in Nat \ {0}, NEW f \in [1..n -> Int]
  PROVE  \E i \in 1..n : \A j \in 1..n : f[i] <= f[j]
<1>1. [j \in 1..n |-> 0 - f[j]] \in [1..n -> Int]
  OBVIOUS
<1>2. PICK i \in 1..n :
        \A j \in 1..n : [l \in 1..n |-> 0 - f[l]][j] <= [l \in 1..n |-> 0 - f[l]][i]
  BY <1>1, GreatestOfList
<1>3. \A j \in 1..n : 0 - f[j] <= 0 - f[i]
  BY <1>2
<1>4. \A j \in 1..n : f[j] \in Int
  OBVIOUS
<1>5. \A j \in 1..n : f[i] <= f[j]
  BY <1>3, <1>4
<1> QED
  BY <1>5

\* The element at most, or at least, as large as all is the one Min and Max choose.
LEMMA EndsAre ==
  ASSUME NEW V \in SUBSET Int, NEW x \in V
  PROVE  /\ (\A y \in V : x <= y) => Min(V) = x
         /\ (\A y \in V : y <= x) => Max(V) = x
<1>1. \A a, b \in V : a <= b /\ b <= a => a = b
  OBVIOUS
<1>2. ASSUME \A y \in V : x <= y
      PROVE  Min(V) = x
  <2>1. Min(V) \in V /\ \A y \in V : Min(V) <= y
    BY <1>2 DEF Min
  <2> QED
    BY <1>1, <1>2, <2>1
<1>3. ASSUME \A y \in V : y <= x
      PROVE  Max(V) = x
  <2>1. \A y \in V : x >= y
    BY <1>3
  <2>2. Max(V) \in V /\ \A y \in V : Max(V) >= y
    BY <2>1 DEF Max
  <2>3. \A y \in V : y <= Max(V)
    BY <2>2
  <2> QED
    BY <1>1, <1>3, <2>2, <2>3
<1> QED
  BY <1>2, <1>3

----------------------------------------------------------------------------
(* Ranges.                                                                 *)

Pairs  == Int \X Int
Ranges == [Metrics -> [lo : Int, hi : Int]]

Seen(s) == {s[i] : i \in DOMAIN s}

\* In each metric some row is least and some is greatest.
HasEnds(S) ==
  \A m \in Metrics : \E a, b \in S : \A p \in S : a[m] <= p[m] /\ p[m] <= b[m]

\* The range of a metric is the values of two rows that bound all others.
LEMMA RangeIs ==
  ASSUME NEW S \in SUBSET Pairs, NEW m \in Metrics, NEW a \in S, NEW b \in S,
         \A p \in S : a[m] <= p[m] /\ p[m] <= b[m]
  PROVE  RangesOf(S)[m] = [lo |-> a[m], hi |-> b[m]]
<1> DEFINE V == {p[m] : p \in S}
<1>1. V \in SUBSET Int
  BY DEF Pairs, Metrics
<1>2. a[m] \in V /\ b[m] \in V
  OBVIOUS
<1>3. (\A y \in V : a[m] <= y) /\ (\A y \in V : y <= b[m])
  OBVIOUS
<1> HIDE DEF V
<1>4. Min(V) = a[m] /\ Max(V) = b[m]
  BY <1>1, <1>2, <1>3, EndsAre
<1>5. RangesOf(S)[m] = [lo |-> Min(V), hi |-> Max(V)]
  BY DEF RangesOf, V
<1> QED
  BY <1>4, <1>5

LEMMA RangesType ==
  ASSUME NEW S \in SUBSET Pairs, HasEnds(S)
  PROVE  RangesOf(S) \in Ranges
<1>1. \A m \in Metrics : RangesOf(S)[m] \in [lo : Int, hi : Int]
  <2> TAKE m \in Metrics
  <2>1. PICK a \in S, b \in S : \A p \in S : a[m] <= p[m] /\ p[m] <= b[m]
    BY DEF HasEnds
  <2>2. a[m] \in Int /\ b[m] \in Int
    BY DEF Pairs, Metrics
  <2>3. RangesOf(S)[m] = [lo |-> a[m], hi |-> b[m]]
    BY <2>1, RangeIs
  <2> QED
    BY <2>2, <2>3
<1> QED
  BY <1>1 DEF RangesOf, Ranges

LEMMA UnionHasEnds ==
  ASSUME NEW S \in SUBSET Pairs, NEW T \in SUBSET Pairs, HasEnds(S), HasEnds(T)
  PROVE  HasEnds(S \cup T)
<1> SUFFICES ASSUME NEW m \in Metrics
             PROVE  \E a, b \in S \cup T : \A p \in S \cup T : a[m] <= p[m] /\ p[m] <= b[m]
  BY DEF HasEnds
<1>1. PICK a \in S, b \in S : \A p \in S : a[m] <= p[m] /\ p[m] <= b[m]
  BY DEF HasEnds
<1>2. PICK c \in T, d \in T : \A p \in T : c[m] <= p[m] /\ p[m] <= d[m]
  BY DEF HasEnds
<1>3. \A p \in S \cup T : p[m] \in Int
  BY DEF Pairs, Metrics
<1>4. PICK l \in {a, c} : l[m] <= a[m] /\ l[m] <= c[m]
  BY <1>3
<1>5. PICK h \in {b, d} : b[m] <= h[m] /\ d[m] <= h[m]
  BY <1>3
<1>6. l \in S \cup T /\ h \in S \cup T
  OBVIOUS
<1>7. \A p \in S \cup T : l[m] <= p[m] /\ p[m] <= h[m]
  BY <1>1, <1>2, <1>3, <1>4, <1>5, <1>6
<1> QED
  BY <1>6, <1>7

\* The two corners a range is widened from.
Corners(r) == {<<r[1].lo, r[2].lo>>, <<r[1].hi, r[2].hi>>}

\* Whatever the corners, a batch widens them to ranges.
LEMMA CornersHaveEnds ==
  ASSUME NEW r \in Ranges
  PROVE  Corners(r) \subseteq Pairs /\ HasEnds(Corners(r))
<1> DEFINE l == <<r[1].lo, r[2].lo>>
           h == <<r[1].hi, r[2].hi>>
<1>1. l \in Pairs /\ h \in Pairs
  BY DEF Ranges, Pairs, Metrics
<1>2. \A m \in Metrics : l[m] \in Int /\ h[m] \in Int
  BY <1>1 DEF Pairs, Metrics
<1> HIDE DEF l, h
<1>3. \A m \in Metrics : \E a, b \in {l, h} : \A p \in {l, h} : a[m] <= p[m] /\ p[m] <= b[m]
  <2> TAKE m \in Metrics
  <2>1. CASE l[m] <= h[m]
    BY <1>2, <2>1
  <2>2. CASE h[m] <= l[m]
    BY <1>2, <2>2
  <2> QED
    BY <1>2, <2>1, <2>2
<1>4. Corners(r) = {l, h}
  BY DEF Corners, l, h
<1> QED
  BY <1>1, <1>3, <1>4 DEF HasEnds

\* The corners of the ranges of S stand for S when a batch T is added.
LEMMA CornersStandFor ==
  ASSUME NEW S \in SUBSET Pairs, NEW T \in SUBSET Pairs, HasEnds(S), HasEnds(T)
  PROVE  RangesOf(T \cup Corners(RangesOf(S))) = RangesOf(S \cup T)
<1> DEFINE r == RangesOf(S)
           C == Corners(r)
<1>1. r \in Ranges /\ C \in SUBSET Pairs /\ HasEnds(C)
  BY RangesType, CornersHaveEnds
<1>2. \A m \in Metrics : RangesOf(T \cup C)[m] = RangesOf(S \cup T)[m]
  <2> TAKE m \in Metrics
  <2>1. PICK a \in S, b \in S : \A p \in S : a[m] <= p[m] /\ p[m] <= b[m]
    BY DEF HasEnds
  <2>2. r[m] = [lo |-> a[m], hi |-> b[m]]
    BY <2>1, RangeIs
  <2>3. PICK l \in C, h \in C : l[m] = r[m].lo /\ h[m] = r[m].hi
                                /\ \A p \in C : p[m] \in {r[m].lo, r[m].hi}
    BY DEF Corners, Metrics
  <2>4. l[m] = a[m] /\ h[m] = b[m] /\ \A p \in C : p[m] \in {a[m], b[m]}
    BY <2>2, <2>3
  <2>5. HasEnds(S \cup T)
    BY UnionHasEnds
  <2>6. PICK c \in S \cup T, d \in S \cup T :
          \A p \in S \cup T : c[m] <= p[m] /\ p[m] <= d[m]
    BY <2>5 DEF HasEnds
  <2>7. RangesOf(S \cup T)[m] = [lo |-> c[m], hi |-> d[m]]
    BY <2>6, RangeIs
  <2> HIDE DEF r, C
  <2>8. \A p \in S \cup T \cup C : p[m] \in Int
    BY <1>1 DEF Pairs, Metrics
  <2>9. PICK e \in T \cup C : e[m] = c[m]
    <3>1. CASE c \in T
      BY <3>1
    <3>2. CASE c \in S
      <4>1. c[m] <= a[m] /\ a[m] <= c[m]
        BY <2>1, <2>6, <3>2
      <4>2. c[m] = l[m]
        BY <2>4, <2>8, <4>1
      <4> QED
        BY <4>2
    <3> QED
      BY <3>1, <3>2
  <2>10. PICK f \in T \cup C : f[m] = d[m]
    <3>1. CASE d \in T
      BY <3>1
    <3>2. CASE d \in S
      <4>1. d[m] <= b[m] /\ b[m] <= d[m]
        BY <2>1, <2>6, <3>2
      <4>2. d[m] = h[m]
        BY <2>4, <2>8, <4>1
      <4> QED
        BY <4>2
    <3> QED
      BY <3>1, <3>2
  <2>11. \A p \in T \cup C : c[m] <= p[m] /\ p[m] <= d[m]
    BY <2>4, <2>6
  <2>12. \A p \in T \cup C : e[m] <= p[m] /\ p[m] <= f[m]
    BY <2>9, <2>10, <2>11
  <2>13. T \cup C \in SUBSET Pairs
    BY <1>1
  <2>14. RangesOf(T \cup C)[m] = [lo |-> e[m], hi |-> f[m]]
    BY <2>12, <2>13, RangeIs
  <2> QED
    BY <2>7, <2>9, <2>10, <2>14
<1> HIDE DEF C, r
<1>3. RangesOf(T \cup C) = RangesOf(S \cup T)
  BY <1>2 DEF RangesOf
<1> QED
  BY <1>3 DEF C, r
\* Widening the ranges of some rows by a batch gives the ranges of both.
LEMMA WidenedCovers ==
  ASSUME NEW S \in SUBSET Pairs, NEW T \in SUBSET Pairs, HasEnds(S), HasEnds(T)
  PROVE  Widened(RangesOf(S), T) = RangesOf(S \cup T)
<1>1. RangesOf(S) # None
  BY RangesType, MorboAssumption DEF Ranges
<1>2. RangesOf(T \cup Corners(RangesOf(S))) = RangesOf(S \cup T)
  BY CornersStandFor
<1> QED
  BY <1>1, <1>2 DEF Widened, Corners

LEMMA WidenedType ==
  ASSUME NEW r \in Ranges \cup {None}, NEW T \in SUBSET Pairs, HasEnds(T)
  PROVE  Widened(r, T) \in Ranges
<1>1. CASE r = None
  BY <1>1, RangesType DEF Widened
<1>2. CASE r # None
  <2>1. Corners(r) \in SUBSET Pairs /\ HasEnds(Corners(r))
    BY <1>2, CornersHaveEnds
  <2>2. T \cup Corners(r) \in SUBSET Pairs /\ HasEnds(T \cup Corners(r))
    BY <2>1, UnionHasEnds
  <2>3. RangesOf(T \cup Corners(r)) \in Ranges
    BY <2>2, RangesType
  <2> QED
    BY <1>2, <2>3 DEF Widened, Corners
<1> QED
  BY <1>1, <1>2

\* The rows of a list have ends.
LEMMA SeenHasEnds ==
  ASSUME NEW s \in Seq(Points), s # <<>>
  PROVE  /\ Seen(s) \subseteq Points /\ Seen(s) \in SUBSET Pairs
         /\ Seen(s) # {} /\ HasEnds(Seen(s))
<1>1. Len(s) \in Nat \ {0} /\ DOMAIN s = 1..Len(s) /\ \A i \in 1..Len(s) : s[i] \in Points
  BY LenProperties, EmptySeq, ElementOfSeq
<1>2. Points \subseteq Pairs
  BY MorboAssumption DEF Pairs
<1>3. Seen(s) \subseteq Points /\ Seen(s) \in SUBSET Pairs /\ Seen(s) # {}
  BY <1>1, <1>2 DEF Seen
<1>4. HasEnds(Seen(s))
  <2> SUFFICES ASSUME NEW m \in Metrics
               PROVE  \E a, b \in Seen(s) : \A p \in Seen(s) : a[m] <= p[m] /\ p[m] <= b[m]
    BY DEF HasEnds
  <2> DEFINE f == [i \in 1..Len(s) |-> s[i][m]]
  <2>1. f \in [1..Len(s) -> Int]
    BY <1>1, <1>2 DEF Pairs, Metrics
  <2>2. PICK i \in 1..Len(s) : \A j \in 1..Len(s) : f[j] <= f[i]
    BY <1>1, <2>1, GreatestOfList
  <2>3. PICK k \in 1..Len(s) : \A j \in 1..Len(s) : f[k] <= f[j]
    BY <1>1, <2>1, LeastOfList
  <2>4. \A j \in 1..Len(s) : s[k][m] <= s[j][m] /\ s[j][m] <= s[i][m]
    BY <2>2, <2>3
  <2>5. s[k] \in Seen(s) /\ s[i] \in Seen(s)
    BY <1>1 DEF Seen
  <2>6. \A p \in Seen(s) : s[k][m] <= p[m] /\ p[m] <= s[i][m]
    BY <1>1, <2>4 DEF Seen
  <2> QED
    BY <2>5, <2>6
<1> QED
  BY <1>3, <1>4

----------------------------------------------------------------------------
(* Scores.                                                                 *)

LEMMA ScoresAreNumbers ==
  ASSUME NEW p \in Points, NEW r \in Ranges, NEW w \in Weights
  PROVE  Score(p, r, w) \in Int
<1>1. \A m \in Metrics : p[m] \in Int /\ r[m].lo \in Int /\ r[m].hi \in Int /\ w[m] \in Int
  BY MorboAssumption DEF Metrics, Ranges
<1>2. \A m \in Metrics : Place(p[m], r[m]) \in Int
  <2> TAKE m \in Metrics
  <2>1. Unit \div 2 \in Int /\ Unit \in Int
    BY MorboAssumption
  <2>2. CASE r[m].hi <= r[m].lo
    BY <2>1, <2>2 DEF Place
  <2>3. CASE ~(r[m].hi <= r[m].lo)
    <3>1. r[m].hi - r[m].lo \in Nat \ {0}
      BY <1>1, <2>3
    <3>2. Unit \div (r[m].hi - r[m].lo) \in Int
      BY <3>1, MorboAssumption
    <3>3. (p[m] - r[m].lo) * (Unit \div (r[m].hi - r[m].lo)) \in Int
      BY <1>1, <3>2
    <3> QED
      BY <2>1, <2>3, <3>3 DEF Place, Larger, Smaller
  <2> QED
    BY <2>2, <2>3
<1>3. \A m \in Metrics : w[m] * Place(p[m], r[m]) \in Int
  BY <1>1, <1>2
<1>4. 1 \in Metrics /\ 2 \in Metrics
  BY DEF Metrics
<1> DEFINE t == [m \in Metrics |-> w[m] * Place(p[m], r[m])]
<1>5. t[1] \in Int /\ t[2] \in Int
  BY <1>3, <1>4
<1> HIDE DEF t
<1>6. Smaller(t[1], t[2]) \in Int /\ t[1] + t[2] \in Int
  BY <1>5 DEF Smaller
<1>7. AlphaOf * Smaller(t[1], t[2]) + AlphaParts * (t[1] + t[2]) \in Int
  BY <1>6, MorboAssumption
<1> QED
  BY <1>7 DEF Score, t
----------------------------------------------------------------------------
(* The invariant.                                                          *)

IsInner(t) == t = [box |-> t.box, best |-> t.best, prev |-> t.prev]

Typed ==
  /\ setup \in [surrogate : BOOLEAN, noiseAware : BOOLEAN,
                rescalarize : {"on_restart", "on_propose"}]
  /\ setup.noiseAware => setup.surrogate
  /\ rows \in Seq(Points) /\ weights \in Weights
  /\ ranges \in Ranges \cup {None} /\ kept \in Points \cup {None}
  /\ IsInner(inner)
  /\ covered \in BOOLEAN /\ anchored \in BOOLEAN

\* Ranges begin with the first rows, and cover all unless a surrogate failed.
Covering ==
  /\ rows = <<>> => ranges = None
  /\ kept # None => ranges # None
  /\ ~setup.surrogate => covered
  /\ RangesCoverRows

\* The region has a baseline exactly if it keeps an incumbent, and has been told no row
\* that is not there; what it keeps without a surrogate is a row.
Keeping ==
  /\ inner.prev \in Nat /\ inner.prev <= Len(rows)
  /\ kept = None <=> inner.best = NegInf
  /\ ~setup.surrogate /\ kept # None => kept \in Seen(rows)
  /\ BaselineIsKept

MorboInv == Typed /\ Covering /\ Keeping

\* What a batch adds to the rows.
LEMMA BatchFacts ==
  ASSUME MorboInv, NEW k \in Batches, NEW batch \in BatchesOf(k)
  PROVE  /\ batch \in Seq(Points) /\ batch # <<>> /\ Len(batch) = k /\ k \in Nat \ {0}
         /\ {batch[i] : i \in DOMAIN batch} = Seen(batch)
         /\ rows \o batch \in Seq(Points) /\ rows \o batch # <<>>
         /\ Len(rows \o batch) = Len(rows) + k /\ Len(rows) \in Nat
         /\ Seen(rows \o batch) = Seen(rows) \cup Seen(batch)
<1>1. k \in Nat \ {0}
  BY MorboAssumption
<1>2. batch \in [1..k -> Points]
  BY DEF BatchesOf
<1>3. batch \in Seq(Points) /\ Len(batch) = k
  BY <1>1, <1>2
<1>4. batch # <<>>
  BY <1>1, <1>3
<1>5. rows \in Seq(Points) /\ Len(rows) \in Nat
  BY LenProperties DEF MorboInv, Typed
<1>6. /\ rows \o batch \in Seq(Points) /\ Len(rows \o batch) = Len(rows) + Len(batch)
      /\ \A i \in 1..Len(rows) + Len(batch) :
           (rows \o batch)[i] = IF i <= Len(rows) THEN rows[i] ELSE batch[i - Len(rows)]
  BY <1>3, <1>5, ConcatProperties
<1>7. rows \o batch # <<>>
  BY <1>1, <1>3, <1>5, <1>6
<1>8. Seen(rows \o batch) = Seen(rows) \cup Seen(batch)
  <2>1. DOMAIN rows = 1..Len(rows) /\ DOMAIN batch = 1..k
        /\ DOMAIN (rows \o batch) = 1..Len(rows) + k
    BY <1>2, <1>3, <1>5, <1>6, LenProperties
  <2>2. \A i \in 1..Len(rows) + k :
          (rows \o batch)[i] \in Seen(rows) \cup Seen(batch)
    <3> TAKE i \in 1..Len(rows) + k
    <3>1. CASE i <= Len(rows)
      <4>1. i \in 1..Len(rows)
        BY <3>1, <1>5
      <4> QED
        BY <1>3, <1>6, <2>1, <3>1, <4>1 DEF Seen
    <3>2. CASE ~(i <= Len(rows))
      <4>1. i - Len(rows) \in 1..k
        BY <1>1, <1>5, <3>2
      <4> QED
        BY <1>3, <1>6, <2>1, <3>2, <4>1 DEF Seen
    <3> QED
      BY <3>1, <3>2
  <2>3. \A i \in 1..Len(rows) : rows[i] \in Seen(rows \o batch)
    <3> TAKE i \in 1..Len(rows)
    <3>1. i \in 1..Len(rows) + k /\ i <= Len(rows)
      BY <1>1, <1>5
    <3>2. (rows \o batch)[i] = rows[i]
      BY <1>3, <1>6, <3>1
    <3> QED
      BY <2>1, <3>1, <3>2 DEF Seen
  <2>4. \A i \in 1..k : batch[i] \in Seen(rows \o batch)
    <3> TAKE i \in 1..k
    <3>1. /\ i + Len(rows) \in 1..Len(rows) + k /\ ~(i + Len(rows) <= Len(rows))
          /\ (i + Len(rows)) - Len(rows) = i
      BY <1>1, <1>5
    <3>2. (rows \o batch)[i + Len(rows)] = batch[i]
      BY <1>3, <1>6, <3>1
    <3> QED
      BY <2>1, <3>1, <3>2 DEF Seen
  <2>5. Seen(rows \o batch) \subseteq Seen(rows) \cup Seen(batch)
    BY <2>1, <2>2 DEF Seen
  <2>6. Seen(rows) \subseteq Seen(rows \o batch) /\ Seen(batch) \subseteq Seen(rows \o batch)
    BY <2>1, <2>3, <2>4 DEF Seen
  <2> QED
    BY <2>5, <2>6
<1> QED
  BY <1>1, <1>3, <1>4, <1>5, <1>6, <1>7, <1>8 DEF Seen

\* tell_common widens the ranges to those of all rows, if they were those of all before.
LEMMA NewRangesCover ==
  ASSUME MorboInv, NEW k \in Batches, NEW batch \in BatchesOf(k)
  PROVE  /\ NewRanges(batch) \in Ranges
         /\ covered => NewRanges(batch) = RangesOf(Seen(rows \o batch))
<1>1. /\ Seen(batch) \in SUBSET Pairs /\ HasEnds(Seen(batch))
      /\ NewRanges(batch) = Widened(ranges, Seen(batch))
  BY BatchFacts, SeenHasEnds DEF NewRanges
<1>2. NewRanges(batch) \in Ranges
  BY <1>1, WidenedType DEF MorboInv, Typed
<1>3. ASSUME covered
      PROVE  NewRanges(batch) = RangesOf(Seen(rows \o batch))
  <2>1. CASE rows = <<>>
    <3>1. ranges = None /\ Seen(rows) = {}
      BY <2>1 DEF MorboInv, Covering, Seen
    <3>2. Seen(rows \o batch) = Seen(batch)
      BY <3>1, BatchFacts
    <3> QED
      BY <1>1, <3>1, <3>2 DEF Widened
  <2>2. CASE rows # <<>>
    <3>1. ranges = RangesOf(Seen(rows))
      BY <1>3, <2>2 DEF MorboInv, Covering, RangesCoverRows, Seen
    <3>2. Seen(rows) \in SUBSET Pairs /\ HasEnds(Seen(rows))
      BY <2>2, SeenHasEnds DEF MorboInv, Typed
    <3>3. Widened(RangesOf(Seen(rows)), Seen(batch)) = RangesOf(Seen(rows) \cup Seen(batch))
      BY <1>1, <3>2, WidenedCovers
    <3>4. Seen(rows \o batch) = Seen(rows) \cup Seen(batch)
      BY BatchFacts
    <3> QED
      BY <1>1, <3>1, <3>3, <3>4
  <2> QED
    BY <2>1, <2>2
<1> QED
  BY <1>2, <1>3

\* The incumbent of the optimizer is a metric row; without a surrogate it is one that was
\* told, and scores best of all in the ranges of all.
LEMMA ChosenFacts ==
  ASSUME MorboInv, NEW s \in Seq(Points), NEW y \in Chosen(s)
  PROVE  /\ y \in Points
         /\ ~setup.surrogate =>
              /\ y \in Seen(s)
              /\ \A q \in Seen(s) :
                   Score(q, RangesOf(Seen(s)), weights) <= Score(y, RangesOf(Seen(s)), weights)
<1> DEFINE C == {s[i] : i \in Candidates(s)}
<1>1. C \subseteq Seen(s) /\ (~setup.surrogate => C = Seen(s))
  BY DEF Candidates, Seen
<1>2. Seen(s) \subseteq Points
  BY LenProperties DEF Seen
<1>3. IF setup.noiseAware THEN y \in Points
      ELSE y \in C /\ \A q \in C : Score(q, RangesOf(C), weights) <= Score(y, RangesOf(C), weights)
  BY DEF Chosen
<1>4. ~setup.surrogate => ~setup.noiseAware
  BY DEF MorboInv, Typed
<1> HIDE DEF C
<1>5. y \in Points
  BY <1>1, <1>2, <1>3
<1>6. ASSUME ~setup.surrogate
      PROVE  /\ y \in Seen(s)
             /\ \A q \in Seen(s) :
                  Score(q, RangesOf(Seen(s)), weights) <= Score(y, RangesOf(Seen(s)), weights)
  <2>1. C = Seen(s) /\ ~setup.noiseAware
    BY <1>1, <1>4, <1>6
  <2>2. y \in C /\ \A q \in C : Score(q, RangesOf(C), weights) <= Score(y, RangesOf(C), weights)
    BY <1>3, <2>1
  <2> QED
    BY <2>1, <2>2
<1> QED
  BY <1>5, <1>6

----------------------------------------------------------------------------
(* A tell that reaches its end.                                            *)

\* What the region has after its comparison, s the rows it was told in all.
Anchored(t, s) ==
  /\ t.ranges \in Ranges /\ t.kept \in Points /\ IsInner(t.inner)
  /\ covered => t.ranges = RangesOf(Seen(s))
  /\ t.inner.prev = Len(s)
  /\ t.inner.best \in Int /\ t.inner.best = Score(t.kept, t.ranges, weights)
  /\ ~setup.surrogate =>
       /\ t.kept \in Seen(s)
       /\ \A q \in Seen(s) : Score(q, t.ranges, weights) <= t.inner.best

LEMMA ToldIsAnchored ==
  ASSUME MorboInv, NEW k \in Batches, NEW batch \in BatchesOf(k),
         NEW y \in Chosen(rows \o batch), NEW t \in Outcomes(batch, y)
  PROVE  Anchored(t, rows \o batch)
<1> DEFINE s == rows \o batch
           r == NewRanges(batch)
           n == Len(rows) + Len(batch)
           new == Score(y, r, weights)
           old == Score(kept, r, weights)
<1>1. /\ r \in Ranges /\ (covered => r = RangesOf(Seen(s)))
      /\ s \in Seq(Points) /\ Len(s) = n /\ n \in Nat
      /\ Seen(rows) \subseteq Seen(s)
  BY BatchFacts, NewRangesCover
<1>2. y \in Points /\ weights \in Weights
  BY <1>1, ChosenFacts DEF MorboInv, Typed
<1>3. new \in Int /\ (kept # None => kept \in Points /\ old \in Int)
  BY <1>1, <1>2, ScoresAreNumbers DEF MorboInv, Typed
<1>4. t.ranges = r /\ t.kept = KeptOf(y, r) /\ t.inner = Compared(n, y, r)
  BY DEF Outcomes, Told
<1>5. IsInner(inner) /\ n # inner.prev
  <2>1. Len(batch) \in Nat \ {0} /\ Len(rows) \in Nat
    BY BatchFacts
  <2> QED
    BY <2>1 DEF MorboInv, Typed, Keeping
<1>6. /\ IsInner(t.inner) /\ t.inner.prev = n /\ t.kept \in Points
      /\ t.inner.best = Score(t.kept, r, weights)
      /\ t.inner.best \in Int /\ new <= t.inner.best
      /\ t.kept = y \/ (kept # None /\ t.kept = kept)
  <2>1. CASE kept = None
    <3>1. inner.best = NegInf
      BY <2>1 DEF MorboInv, Keeping
    <3>2. Compared(n, y, r) = Pushed(inner, n, new)
      BY <2>1 DEF Compared
    <3> HIDE DEF n, new, r
    <3>3. Pushed(inner, n, new) = [inner EXCEPT !.best = new, !.prev = n]
      BY <1>5, <3>1 DEF Pushed
    <3>4. IsInner(t.inner) /\ t.inner.best = new /\ t.inner.prev = n
      BY <1>4, <1>5, <3>2, <3>3 DEF IsInner
    <3>5. t.kept = y
      BY <1>4, <2>1 DEF KeptOf
    <3> QED
      BY <1>2, <1>3, <3>4, <3>5 DEF new
  <2>2. CASE kept # None
    <3> DEFINE i == [inner EXCEPT !.best = old]
    <3>1. IsInner(i) /\ i.best = old /\ i.prev = inner.prev
      BY <1>5 DEF IsInner
    <3>2. Compared(n, y, r) = Pushed(i, n, new)
      BY <2>2 DEF Compared
    <3>3. old # NegInf /\ old \in Int
      BY <1>3, <2>2, MorboAssumption
    <3> HIDE DEF i, n, new, old, r
    <3>4. IsInner(t.inner) /\ t.inner.best = Larger(old, new) /\ t.inner.prev = n
      BY <1>4, <1>5, <3>1, <3>2, <3>3 DEF Pushed, IsInner
    <3>5. t.kept = IF new <= old THEN kept ELSE y
      BY <1>4, <2>2 DEF KeptOf, new, old
    <3>6. CASE new <= old
      <4>1. t.kept = kept /\ t.inner.best = old
        BY <1>3, <3>3, <3>4, <3>5, <3>6 DEF Larger
      <4> QED
        BY <1>3, <2>2, <3>3, <3>4, <3>6, <4>1 DEF old
    <3>7. CASE ~(new <= old)
      <4>1. t.kept = y /\ t.inner.best = new
        BY <1>3, <3>3, <3>4, <3>5, <3>7 DEF Larger
      <4> QED
        BY <1>2, <1>3, <3>4, <4>1 DEF new
    <3> QED
      BY <3>6, <3>7
  <2> QED
    BY <2>1, <2>2
<1>7. ASSUME ~setup.surrogate
      PROVE  t.kept \in Seen(s) /\ \A q \in Seen(s) : Score(q, r, weights) <= t.inner.best
  <2>1. r = RangesOf(Seen(s))
    BY <1>1, <1>7 DEF MorboInv, Covering
  <2>2. y \in Seen(s) /\ \A q \in Seen(s) : Score(q, r, weights) <= new
    BY <1>1, <1>7, <2>1, ChosenFacts
  <2>3. t.kept \in Seen(s)
    BY <1>1, <1>6, <1>7, <2>2 DEF MorboInv, Keeping
  <2>4. \A q \in Seen(s) : Score(q, r, weights) <= t.inner.best
    <3> TAKE q \in Seen(s)
    <3>1. Seen(s) \subseteq Points
      BY <1>1, LenProperties DEF Seen
    <3>2. Score(q, r, weights) \in Int
      BY <1>1, <1>2, <3>1, ScoresAreNumbers
    <3>3. Score(q, r, weights) <= new /\ new <= t.inner.best
      BY <1>6, <2>2
    <3> HIDE DEF new, r
    <3> QED
      BY <1>3, <1>6, <3>2, <3>3
  <2> QED
    BY <2>3, <2>4
<1> QED
  BY <1>1, <1>4, <1>6, <1>7 DEF Anchored
LEMMA TellKeeps ==
  ASSUME MorboInv, NEW k \in Batches, NEW batch \in BatchesOf(k),
         NEW y \in Chosen(rows \o batch), NEW t \in Outcomes(batch, y),
         rows' = rows \o batch, Becomes(t), anchored' = TRUE,
         UNCHANGED <<setup, weights, covered>>
  PROVE  MorboInv'
<1>1. Anchored(t, rows')
  BY ToldIsAnchored
<1>2. rows' \in Seq(Points) /\ rows' # <<>> /\ Len(rows') \in Nat
  BY BatchFacts, LenProperties
<1>3. ranges' = t.ranges /\ inner' = t.inner /\ kept' = t.kept
  BY DEF Becomes
<1>4. kept' # None /\ ranges' # None /\ inner'.best # NegInf
  BY <1>1, <1>3, MorboAssumption DEF Anchored, Ranges
<1>5. Typed'
  BY <1>1, <1>2, <1>3 DEF Anchored, MorboInv, Typed
<1>6. Covering'
  BY <1>1, <1>2, <1>3, <1>4 DEF Anchored, MorboInv, Covering, RangesCoverRows, Seen
<1>7. BaselineIsKept'
  <2>1. inner'.best = Score(kept', ranges', weights')
    BY <1>1, <1>3 DEF Anchored
  <2>2. ASSUME ~setup'.surrogate
        PROVE  inner'.best = Max({Score(rows'[i], ranges', weights') : i \in DOMAIN rows'})
    <3> DEFINE V == {Score(rows'[i], ranges', weights') : i \in DOMAIN rows'}
    <3>1. kept' \in Seen(rows')
          /\ \A q \in Seen(rows') : Score(q, ranges', weights') <= inner'.best
      BY <1>1, <1>3, <2>2 DEF Anchored
    <3>2. inner'.best \in V
      BY <2>1, <3>1 DEF Seen
    <3>3. \A v \in V : v <= inner'.best
      BY <3>1 DEF Seen
    <3>4. V \in SUBSET Int
      <4>1. \A i \in DOMAIN rows' : rows'[i] \in Points
        BY <1>2, LenProperties
      <4>2. ranges' \in Ranges /\ weights' \in Weights
        BY <1>1, <1>3 DEF Anchored, MorboInv, Typed
      <4> QED
        BY <4>1, <4>2, ScoresAreNumbers
    <3> HIDE DEF V
    <3>5. Max(V) = inner'.best
      BY <3>2, <3>3, <3>4, EndsAre
    <3> QED
      BY <3>5 DEF V
  <2> QED
    BY <2>1, <2>2 DEF BaselineIsKept
<1>8. Keeping'
  <2>1. inner'.prev \in Nat /\ inner'.prev <= Len(rows')
    BY <1>1, <1>2, <1>3 DEF Anchored
  <2>2. ~setup'.surrogate => kept' \in Seen(rows')
    BY <1>1, <1>3 DEF Anchored
  <2> QED
    BY <1>4, <1>7, <2>1, <2>2 DEF Keeping
<1> QED
  BY <1>5, <1>6, <1>8 DEF MorboInv

\* A restart takes the ranges of all rows and keeps no incumbent.
LEMMA RestartKeeps ==
  ASSUME MorboInv, NEW k \in Batches, NEW batch \in BatchesOf(k),
         NEW y \in Chosen(rows \o batch), NEW t \in Outcomes(batch, y),
         rows' = rows \o batch, Restarted(t), setup' = setup
  PROVE  MorboInv'
<1>1. Anchored(t, rows')
  BY ToldIsAnchored
<1>2. rows' \in Seq(Points) /\ rows' # <<>> /\ Len(rows') \in Nat
  BY BatchFacts, LenProperties
<1> DEFINE u == [t EXCEPT !.ranges = RangesOf({rows'[i] : i \in DOMAIN rows'}),
                          !.inner = [FreshInner EXCEPT !.prev = t.inner.prev],
                          !.kept = None, !.scores = NoScores]
<1>3. /\ Becomes(u) /\ anchored' = FALSE /\ covered' = TRUE
      /\ weights' \in Weights
  BY DEF Restarted, MorboInv, Typed
<1>4. /\ u.ranges = RangesOf(Seen(rows')) /\ u.kept = None
      /\ u.inner = [FreshInner EXCEPT !.prev = t.inner.prev]
  BY DEF Outcomes, Told, Seen
<1> HIDE DEF u
<1>5. ranges' = RangesOf(Seen(rows')) /\ kept' = None
      /\ inner' = [FreshInner EXCEPT !.prev = t.inner.prev]
  BY <1>3, <1>4 DEF Becomes
<1>6. ranges' \in Ranges
  BY <1>2, <1>5, SeenHasEnds, RangesType
<1>7. IsInner(inner') /\ inner'.best = NegInf /\ inner'.prev = Len(rows')
  BY <1>1, <1>5 DEF FreshInner, IsInner, Anchored
<1>8. Typed'
  BY <1>2, <1>3, <1>5, <1>6, <1>7 DEF MorboInv, Typed
<1>9. Covering'
  BY <1>2, <1>3, <1>5 DEF Covering, RangesCoverRows, Seen
<1>10. Keeping'
  BY <1>2, <1>3, <1>5, <1>7 DEF Keeping, BaselineIsKept
<1> QED
  BY <1>8, <1>9, <1>10 DEF MorboInv

LEMMA TellSampleKeeps ==
  ASSUME MorboInv, TellSample
  PROVE  MorboInv'
<1>1. PICK k \in Batches : \E batch \in BatchesOf(k) : \E y \in Chosen(rows \o batch) :
        rows' = rows \o batch /\ \E t \in Outcomes(batch, y) : Becomes(t)
  BY DEF TellSample, Record
<1>2. PICK batch \in BatchesOf(k) : \E y \in Chosen(rows \o batch) :
        rows' = rows \o batch /\ \E t \in Outcomes(batch, y) : Becomes(t)
  BY <1>1
<1>3. PICK y \in Chosen(rows \o batch) :
        rows' = rows \o batch /\ \E t \in Outcomes(batch, y) : Becomes(t)
  BY <1>2
<1>4. anchored' = TRUE /\ UNCHANGED <<setup, weights, covered>>
  BY DEF TellSample
<1> QED
  BY <1>3, <1>4, TellKeeps

LEMMA TellSearchKeeps ==
  ASSUME MorboInv, TellSearch
  PROVE  MorboInv'
<1>1. PICK k \in Batches : \E batch \in BatchesOf(k) : \E y \in Chosen(rows \o batch) :
      \E t \in Outcomes(batch, y) :
        /\ rows' = rows \o batch
        /\ \/ Becomes(t) /\ anchored' = TRUE /\ UNCHANGED <<weights, covered>>
           \/ Restarted(t)
  BY DEF TellSearch, Record
<1>2. PICK batch \in BatchesOf(k) : \E y \in Chosen(rows \o batch) :
      \E t \in Outcomes(batch, y) :
        /\ rows' = rows \o batch
        /\ \/ Becomes(t) /\ anchored' = TRUE /\ UNCHANGED <<weights, covered>>
           \/ Restarted(t)
  BY <1>1
<1>3. PICK y \in Chosen(rows \o batch) : \E t \in Outcomes(batch, y) :
        /\ rows' = rows \o batch
        /\ \/ Becomes(t) /\ anchored' = TRUE /\ UNCHANGED <<weights, covered>>
           \/ Restarted(t)
  BY <1>2
<1>4. setup' = setup
  BY DEF TellSearch
<1> QED
  BY <1>3, <1>4, TellKeeps, RestartKeeps

\* A tell that fails widens the ranges or is not covered from there on.
LEMMA TellFailsKeeps ==
  ASSUME MorboInv, TellFails
  PROVE  MorboInv'
<1>1. PICK k \in Batches, fault \in Faults \cap {"fit", "predict"} : \E batch \in BatchesOf(k) :
        /\ setup.surrogate /\ rows' = rows \o batch
        /\ ranges' = IF fault = "fit" THEN ranges ELSE NewRanges(batch)
        /\ covered' = (covered /\ fault # "fit")
        /\ anchored' = FALSE
        /\ UNCHANGED <<setup, weights, kept, inner>>
  BY DEF TellFails
<1>2. PICK batch \in BatchesOf(k) :
        /\ setup.surrogate /\ rows' = rows \o batch
        /\ ranges' = IF fault = "fit" THEN ranges ELSE NewRanges(batch)
        /\ covered' = (covered /\ fault # "fit")
        /\ anchored' = FALSE
        /\ UNCHANGED <<setup, weights, kept, inner>>
  BY <1>1
<1>3. /\ rows' \in Seq(Points) /\ rows' # <<>> /\ Len(rows) \in Nat /\ k \in Nat
      /\ Len(rows') = Len(rows) + k
      /\ NewRanges(batch) \in Ranges
      /\ covered => NewRanges(batch) = RangesOf(Seen(rows'))
  BY <1>2, BatchFacts, NewRangesCover
<1>4. ranges' \in Ranges \cup {None} /\ (ranges # None => ranges' # None)
  BY <1>2, <1>3, MorboAssumption DEF MorboInv, Typed, Ranges
<1>5. covered' \in BOOLEAN /\ (covered' => covered /\ fault # "fit")
  BY <1>2, Zenon
<1>6. Typed'
  BY <1>2, <1>3, <1>4, <1>5 DEF MorboInv, Typed
<1>7. RangesCoverRows'
  BY <1>2, <1>3, <1>5 DEF RangesCoverRows, Seen
<1>8. Covering'
  BY <1>2, <1>3, <1>4, <1>7 DEF MorboInv, Covering
<1>9. Keeping'
  BY <1>2, <1>3 DEF MorboInv, Keeping, BaselineIsKept
<1> QED
  BY <1>6, <1>8, <1>9 DEF MorboInv

\* An ask may draw new weights, and then what is kept is no longer the baseline's.
LEMMA AskKeeps ==
  ASSUME MorboInv, Ask
  PROVE  MorboInv'
<1>1. /\ UNCHANGED <<setup, rows, ranges, kept, inner, covered>>
      /\ weights' \in Weights
      /\ setup.rescalarize = "on_restart" => weights' = weights
  BY DEF Ask, MorboInv, Typed
<1>2. anchored' \in BOOLEAN /\ (anchored' => anchored /\ weights' = weights)
  <2>1. anchored' = (anchored /\ setup.rescalarize = "on_restart")
    BY DEF Ask
  <2> QED
    BY <1>1, <2>1, Zenon
<1>3. Typed' /\ Covering'
  BY <1>1, <1>2 DEF MorboInv, Typed, Covering, RangesCoverRows
<1>4. BaselineIsKept'
  BY <1>1, <1>2 DEF MorboInv, Keeping, BaselineIsKept
<1>5. Keeping'
  BY <1>1, <1>4 DEF MorboInv, Keeping
<1> QED
  BY <1>3, <1>5 DEF MorboInv

LEMMA MorboStarts == Init => MorboInv
<1> SUFFICES ASSUME Init PROVE MorboInv
  OBVIOUS
<1>1. Typed
  BY EmptySeq DEF Init, Typed, IsInner, FreshInner
<1>2. Covering
  BY DEF Init, Covering, RangesCoverRows
<1>3. Keeping
  BY EmptySeq DEF Init, Keeping, BaselineIsKept, FreshInner
<1> QED
  BY <1>1, <1>2, <1>3 DEF MorboInv

\* The inductive invariant of ranges, kept incumbent and baseline.
THEOREM MorboConsistent == Spec => []MorboInv
<1>1. Init => MorboInv
  BY MorboStarts
<1>2. MorboInv /\ [Next]_vars => MorboInv'
  <2> SUFFICES ASSUME MorboInv, [Next]_vars PROVE MorboInv'
    OBVIOUS
  <2>1. CASE UNCHANGED vars
    BY <2>1
       DEF vars, MorboInv, Typed, Covering, RangesCoverRows, Keeping, BaselineIsKept
  <2> QED
    BY <2>1, AskKeeps, TellFailsKeeps, TellSampleKeeps, TellSearchKeeps DEF Next
<1> QED
  BY <1>1, <1>2, PTL DEF Spec

\* tell_common, update_ranges_incremental, morbo_sync_ranges_from_obs: rows are scored in the
\* ranges of every row told, across batches, restarts and failed tells.
THEOREM RangesCover == Spec => []RangesCoverRows
<1>1. MorboInv => RangesCoverRows
  BY DEF MorboInv, Covering
<1> QED
  BY <1>1, MorboConsistent, PTL

\* update_incumbent_only: what the next batch has to beat is the score of the kept incumbent
\* in the weights and ranges of now, and without a surrogate the best score of all rows.
THEOREM BaselineStaysKept == Spec => []BaselineIsKept
<1>1. MorboInv => BaselineIsKept
  BY DEF MorboInv, Keeping
<1> QED
  BY <1>1, MorboConsistent, PTL
=============================================================================
