--------------------------- MODULE EnnModelProofs ---------------------------
(***************************************************************************)
(* What MCModel checks of the scales of a model on a small instance, for   *)
(* any points, dimensions, layouts, tolerances, refits and faults.         *)
(*                                                                         *)
(* The scale is kept by the model, by the AUTO metric, by the index and by *)
(* the moments of the rows.  As long as no call failed, the moments are of *)
(* all rows and the scale in force is theirs within the tolerance (Current),*)
(* model and index agree on it, and the scale that each policy remembers   *)
(* as the one of the partition is the partition's (Current, Near).  An      *)
(* index in memory is stale or up to date, and calls on it do not fail     *)
(* (InMemory).                                                             *)
(***************************************************************************)
EXTENDS EnnModel, FiniteSetTheorems, TLAPS

IsIndex(i) ==
  /\ DOMAIN i = {"rows", "scaled", "scale", "partition", "stale", "synced"}
  /\ i.scale \in Scales /\ i.partition \in Scales
  /\ i.scaled \in BOOLEAN /\ i.stale \in BOOLEAN

IsMetric(a) ==
  /\ DOMAIN a = {"rows", "weights", "built", "drift", "growth", "nextRefit"}
  /\ a.weights \in Scales /\ a.built \in Scales /\ a.drift \in Drifts

\* A model, and which of its parts a layout has: only one on disk learns a metric, and one
\* that learns none has a scale exactly if it is the data's.
IsModel(m) ==
  /\ DOMAIN m = {"layout", "rows", "counted", "obs", "summed", "scaled", "scale", "built",
                  "fixed", "unscaled", "index", "metric"}
  /\ m.layout \in LegalLayouts
  /\ m.rows \in Nat /\ m.counted \in Nat /\ m.obs \in Nat
  /\ m.scaled \in BOOLEAN /\ m.fixed \in BOOLEAN
  /\ m.scale \in Scales /\ m.built \in Scales
  /\ IsIndex(m.index)
  /\ IF m.metric = NoMetric THEN ~m.fixed /\ m.scaled = m.layout.scaled
     ELSE IsMetric(m.metric) /\ m.layout.auto /\ (m.scaled => m.fixed)

\* An index in memory is stale, or has every row in the scale of the model; one without a
\* scale may lack the last rows.
InMemory(m) ==
  ~m.layout.disk =>
    IF m.scaled THEN m.index.stale \/ (m.index.rows = m.rows /\ m.index.scale = m.scale)
    ELSE m.index.rows \in Nat /\ m.index.rows <= m.rows /\ m.index.synced = m.index.rows

MomentsScale(m) == DataScale(m.summed, m.rows, m.unscaled)

\* The scale a model has and its index, as long as no call failed.
DataFollowed(m) ==
  m.layout.scaled =>
    /\ m.summed = 1..m.rows
    /\ LogRatio(m.scale, MomentsScale(m)) <= (IF m.layout.disk THEN Tol ELSE 0)

Agreed(m) ==
  m.layout.disk =>
    /\ m.index.scaled = m.scaled /\ m.index.scale = m.scale
    /\ m.metric = NoMetric =>
         m.index.partition = m.built /\ LogRatio(m.index.scale, m.built) <= Drift

Current(m) == DataFollowed(m) /\ Agreed(m)

\* The same for the AUTO metric, as long as the caller did not go past it.
Near(m) ==
  m.metric # NoMetric =>
    /\ m.index.partition = m.metric.built
    /\ \E drift \in Drifts : WeightDrift(m.index.scale, m.index.partition) <= drift

ModelInv ==
  /\ IsModel(model) /\ InMemory(model)
  /\ intact => Current(model) /\ model.obs = model.rows
  /\ intact /\ ~direct => Near(model)

----------------------------------------------------------------------------
(* Least and greatest elements.                                            *)

\* A set of numbers that is not empty has a least one.
LEMMA LeastNumber ==
  ASSUME NEW S \in SUBSET Nat, S # {}
  PROVE  \E m \in S : \A k \in S : m <= k
<1> DEFINE Less == {p \in Nat \X Nat : p[1] < p[2]}
<1>1. IsWellFoundedOn(Less, Nat)
  BY NatLessThanWellFounded DEF OpToRel
<1>2. \A k, m \in Nat : k < m => <<k, m>> \in Less
  OBVIOUS
<1> HIDE DEF Less
<1>3. \E m \in S : \A k \in S : <<k, m>> \notin Less
  BY <1>1, WFMin
<1>4. \A k, m \in Nat : k < m \/ m <= k
  OBVIOUS
<1> QED
  BY <1>2, <1>3, <1>4

\* A list of numbers has a greatest: the shortest list without one would have one.
LEMMA GreatestOfList ==
  ASSUME NEW n \in Nat \ {0}, NEW f \in [1..n -> Int]
  PROVE  \E i \in 1..n : \A j \in 1..n : f[j] <= f[i]
<1> DEFINE Has(k) == \A g \in [1..k -> Int] : \E i \in 1..k : \A j \in 1..k : g[j] <= g[i]
           Without == {k \in Nat \ {0} : ~Has(k)}
<1> SUFFICES ASSUME Without # {} PROVE FALSE
  OBVIOUS
<1>1. PICK k \in Without : \A l \in Without : k <= l
  BY LeastNumber
<1>2. PICK g \in [1..k -> Int] : ~\E i \in 1..k : \A j \in 1..k : g[j] <= g[i]
  OBVIOUS
<1>3. CASE k = 1
  BY <1>2, <1>3
<1>4. CASE k # 1
  <2>1. k - 1 \in Nat \ {0} /\ k - 1 \notin Without
    <3>1. k \in Nat \ {0}
      OBVIOUS
    <3> HIDE DEF Without
    <3>2. k - 1 \in Nat \ {0} /\ ~(k <= k - 1)
      BY <1>4, <3>1
    <3> QED
      BY <1>1, <3>2
  <2>2. [j \in 1..k - 1 |-> g[j]] \in [1..k - 1 -> Int]
    OBVIOUS
  <2>3. PICK i \in 1..k - 1 :
          \A j \in 1..k - 1 : [l \in 1..k - 1 |-> g[l]][j] <= [l \in 1..k - 1 |-> g[l]][i]
    BY <2>1, <2>2
  <2>4. \A j \in 1..k - 1 : g[j] <= g[i]
    BY <2>3
  <2>5. \A j \in 1..k : j \in 1..k - 1 \/ j = k
    BY <2>1
  <2>6. i \in 1..k /\ k \in 1..k /\ g[i] \in Int /\ g[k] \in Int
    BY <2>1
  <2>7. CASE g[k] <= g[i]
    BY <1>2, <2>4, <2>5, <2>6, <2>7
  <2>8. CASE ~(g[k] <= g[i])
    <3>1. \A x \in Int : x <= g[i] => x <= g[k]
      BY <2>6, <2>8
    <3>2. \A j \in 1..k : g[j] <= g[k]
      <4> TAKE j \in 1..k
      <4>1. g[j] \in Int
        OBVIOUS
      <4>2. CASE j \in 1..k - 1
        BY <2>4, <3>1, <4>1, <4>2
      <4>3. CASE j = k
        BY <2>6, <4>3
      <4> QED
        BY <2>5, <4>2, <4>3
    <3> QED
      BY <1>2, <2>6, <3>2
  <2> QED
    BY <2>7, <2>8
<1> QED
  BY <1>3, <1>4

\* And a least.
LEMMA LeastOfList ==
  ASSUME NEW n \in Nat \ {0}, NEW f \in [1..n -> Int]
  PROVE  \E i \in 1..n : \A j \in 1..n : f[i] <= f[j]
<1>1. [j \in 1..n |-> 0 - f[j]] \in [1..n -> Int]
  OBVIOUS
<1>2. PICK i \in 1..n :
        \A j \in 1..n : [l \in 1..n |-> 0 - f[l]][j] <= [l \in 1..n |-> 0 - f[l]][i]
  BY <1>1, GreatestOfList
<1>3. \A j \in 1..n : 0 - f[j] <= 0 - f[i]
  BY <1>2
<1>4. \A j \in 1..n : f[j] \in Int
  OBVIOUS
<1>5. \A j \in 1..n : f[i] <= f[j]
  BY <1>3, <1>4
<1> QED
  BY <1>5

\* The element at most, or at least, as large as all is the one Min and Max choose.
LEMMA EndsAre ==
  ASSUME NEW V \in SUBSET Int, NEW x \in V
  PROVE  /\ (\A y \in V : x <= y) => Min(V) = x
         /\ (\A y \in V : y <= x) => Max(V) = x
<1>1. \A a, b \in V : a <= b /\ b <= a => a = b
  OBVIOUS
<1>2. ASSUME \A y \in V : x <= y
      PROVE  Min(V) = x
  <2>1. Min(V) \in V /\ \A y \in V : Min(V) <= y
    BY <1>2 DEF Min
  <2> QED
    BY <1>1, <1>2, <2>1
<1>3. ASSUME \A y \in V : y <= x
      PROVE  Max(V) = x
  <2>1. \A y \in V : x >= y
    BY <1>3
  <2>2. Max(V) \in V /\ \A y \in V : Max(V) >= y
    BY <2>1 DEF Max
  <2>3. \A y \in V : y <= Max(V)
    BY <2>2
  <2> QED
    BY <1>1, <1>3, <2>2, <2>3
<1> QED
  BY <1>2, <1>3

\* A set of numbers below a bound has a greatest.
LEMMA BoundedMax ==
  ASSUME NEW V \in SUBSET Int, V # {}, NEW b \in Int, \A x \in V : x <= b
  PROVE  Max(V) \in V
<1> DEFINE Below == {b - x : x \in V}
<1>1. Below \in SUBSET Nat /\ Below # {}
  <2>1. \A x \in V : b - x \in Nat
    <3> TAKE x \in V
    <3>1. x \in Int /\ x <= b
      OBVIOUS
    <3> QED
      BY <3>1
  <2> QED
    BY <2>1
<1> HIDE DEF Below
<1>2. PICK m \in Below : \A k \in Below : m <= k
  BY <1>1, LeastNumber
<1>3. PICK x \in V : m = b - x
  BY <1>2 DEF Below
<1>4. \A y \in V : b - x <= b - y
  BY <1>2, <1>3 DEF Below
<1>5. \A y \in V : y <= x
  BY <1>4
<1> QED
  BY <1>5, EndsAre

----------------------------------------------------------------------------
(* Scales.                                                                 *)

Width == Cardinality(Dims)

LEMMA DimsAreList == Width \in Nat \ {0} /\ Dims = 1..Width
<1>1. Dims = 1..Width /\ Dims # {} /\ IsFiniteSet(Dims)
  BY AutoMetricAssumption DEF Width
<1>2. Width \in Nat
  BY <1>1, FS_CardinalityType DEF Width
<1> QED
  BY <1>1, <1>2

\* Some dimension differs the most.
LEMMA RatioIs ==
  ASSUME NEW s \in Scales, NEW t \in Scales
  PROVE  LogRatio(s, t) \in Int
<1> DEFINE f == [j \in Dims |-> Apart(s[j], t[j])]
           V == {Apart(s[j], t[j]) : j \in Dims}
<1>1. f \in [1..Width -> Int]
  BY DimsAreList DEF Scales, Apart
<1>2. PICK i \in 1..Width : \A j \in 1..Width : f[j] <= f[i]
  BY <1>1, DimsAreList, GreatestOfList
<1>3. V \in SUBSET Int
  BY DEF Scales, Apart
<1>4. Apart(s[i], t[i]) \in V /\ \A y \in V : y <= Apart(s[i], t[i])
  BY <1>2, DimsAreList
<1> HIDE DEF V
<1>5. Max(V) = Apart(s[i], t[i])
  BY <1>3, <1>4, EndsAre
<1> QED
  BY <1>3, <1>4, <1>5 DEF LogRatio, V

\* A scale does not differ from itself.
LEMMA RatioOfSame ==
  ASSUME NEW s \in Scales
  PROVE  LogRatio(s, s) = 0
<1> DEFINE V == {Apart(s[j], s[j]) : j \in Dims}
<1>1. \A j \in Dims : Apart(s[j], s[j]) = 0
  BY DEF Scales, Apart
<1>2. V = {0}
  BY <1>1, AutoMetricAssumption
<1> HIDE DEF V
<1>3. Max(V) = 0
  BY <1>2, EndsAre
<1> QED
  BY <1>3 DEF LogRatio, V

LEMMA RatioCommutes ==
  ASSUME NEW s \in Scales, NEW t \in Scales
  PROVE  LogRatio(s, t) = LogRatio(t, s)
<1>1. \A j \in Dims : Apart(s[j], t[j]) = Apart(t[j], s[j])
  BY DEF Scales, Apart
<1>2. {Apart(s[j], t[j]) : j \in Dims} = {Apart(t[j], s[j]) : j \in Dims}
  BY <1>1
<1> QED
  BY <1>2 DEF LogRatio

LEMMA FlooredIsScale ==
  ASSUME NEW s \in Scales
  PROVE  Floored(s) \in Scales
<1> DEFINE V == {s[j] : j \in Dims}
<1>1. s \in [1..Width -> Int]
  BY DimsAreList DEF Scales
<1>2. PICK i \in 1..Width : \A j \in 1..Width : s[i] <= s[j]
  BY <1>1, DimsAreList, LeastOfList
<1>3. V \in SUBSET Int /\ s[i] \in V /\ \A y \in V : s[i] <= y
  BY <1>2, DimsAreList DEF Scales
<1> HIDE DEF V
<1>4. Min(V) \in Int
  BY <1>3, EndsAre
<1>5. Min(V) + Floor \in Int
  BY <1>4, AutoMetricAssumption
<1> QED
  BY <1>5 DEF Floored, Scales, V

LEMMA DriftIs ==
  ASSUME NEW s \in Scales, NEW t \in Scales
  PROVE  WeightDrift(s, t) \in Int /\ WeightDrift(s, s) = 0
BY FlooredIsScale, RatioIs, RatioOfSame DEF WeightDrift

LEMMA UnitIsScale == Unit \in Scales
BY DEF Unit, Scales

\* The scale of any rows, whatever their points: a logarithm is cut off at both ends.
LEMMA DataScaleIsScale ==
  ASSUME NEW S, NEW n, NEW unscaled
  PROVE  DataScale(S, n, unscaled) \in Scales
<1>1. \A num, den : Log(num, den) \in Int
  <2> TAKE num, den
  <2> DEFINE V == {e \in -8..12 : IF e >= 0 THEN 2^e * den <= num
                                           ELSE den <= 2^(-e) * num} \cup {-8}
  <2>1. V \in SUBSET (-8..12) /\ -8 \in V
    OBVIOUS
  <2> HIDE DEF V
  <2>2. V \in SUBSET Int
    BY <2>1
  <2>3. V # {} /\ \A x \in V : x <= 12
    BY <2>1
  <2>4. Max(V) \in V
    BY <2>2, <2>3, BoundedMax
  <2> QED
    BY <2>2, <2>4 DEF Log, V
<1>2. \A j : Std(S, n, j) \in Int
  <2> TAKE j
  <2> DEFINE sum   == SumFunction([i \in S |-> data[i][j]])
             sumsq == SumFunction([i \in S |-> data[i][j] * data[i][j]])
             num   == Larger(n * sumsq - sum * sum, 0)
             den   == n * n
  <2>1. Std(S, n, j) = IF n < 2 THEN 0 ELSE Log(num, den)
    BY DEF Std
  <2> HIDE DEF num, den
  <2> QED
    BY <1>1, <2>1
<1> QED
  BY <1>2 DEF DataScale, Scales

----------------------------------------------------------------------------
(* The index in a new scale.                                               *)

\* A disk index that takes a scale is in that scale, and its partition is made under it
\* if it is rebuilt; one that does not may have been moved all the same.
LEMMA BackendScaledFacts ==
  ASSUME NEW i, IsIndex(i), NEW scale \in Scales, NEW rebuild \in BOOLEAN,
         NEW b \in BackendScaled(i, scale, rebuild)
  PROVE  /\ IsIndex(b.index) /\ b.ok \in BOOLEAN
         /\ b.ok => /\ b.index.scaled = TRUE /\ b.index.scale = scale
                    /\ b.index.partition = IF rebuild THEN scale ELSE i.partition
<1> DEFINE moved == [i EXCEPT !.scaled = TRUE, !.scale = scale]
           built == [moved EXCEPT !.partition = scale]
<1>1. /\ moved.scaled = TRUE /\ moved.scale = scale /\ moved.partition = i.partition
      /\ built.scaled = TRUE /\ built.scale = scale /\ built.partition = scale
  BY DEF IsIndex
<1>2. IsIndex(moved) /\ IsIndex(built)
  BY DEF IsIndex
<1>3. \/ b = [index |-> IF rebuild THEN built ELSE moved, ok |-> TRUE]
      \/ b = [index |-> i, ok |-> FALSE]
      \/ b = [index |-> moved, ok |-> FALSE]
  BY DEF BackendScaled
<1> HIDE DEF moved, built
<1>4. CASE b = [index |-> IF rebuild THEN built ELSE moved, ok |-> TRUE]
  <2>1. b.index = (IF rebuild THEN built ELSE moved) /\ b.ok = TRUE
    BY <1>4
  <2> QED
    BY <1>1, <1>2, <2>1
<1>5. CASE b = [index |-> i, ok |-> FALSE]
  BY <1>5
<1>6. CASE b = [index |-> moved, ok |-> FALSE]
  BY <1>2, <1>6
<1> QED
  BY <1>3, <1>4, <1>5, <1>6

\* What no call changes but add, set_unscaled_dims and the AUTO metric.
SameRows(r, m) ==
  /\ r.layout = m.layout /\ r.rows = m.rows /\ r.counted = m.counted /\ r.obs = m.obs
  /\ r.summed = m.summed /\ r.unscaled = m.unscaled

\* apply_incremental_x_scale leaves the index and the model in one scale, near the one it
\* is given, and the partition near both.
LEMMA RescaledFacts ==
  ASSUME NEW m, IsModel(m), m.metric = NoMetric, m.scaled, m.layout.disk,
         NEW scale \in Scales, NEW r \in Rescaled(m, scale)
  PROVE  /\ IsModel(r.model) /\ SameRows(r.model, m) /\ r.model.metric = NoMetric
         /\ r.ok \in BOOLEAN
         /\ r.ok /\ Agreed(m) => /\ Agreed(r.model)
                                 /\ LogRatio(r.model.scale, scale) <= Tol
<1> DEFINE rebuild == LogRatio(scale, m.built) > Drift
<1>0. Drift \in Nat /\ Tol \in Nat /\ m.scale \in Scales /\ m.built \in Scales
      /\ IsIndex(m.index) /\ m.layout.disk = TRUE /\ m.scaled = TRUE
  BY AutoMetricAssumption DEF IsModel
<1>1. CASE LogRatio(scale, m.scale) <= Tol
  <2>1. r = [model |-> m, ok |-> TRUE]
    BY <1>1 DEF Rescaled, Ok
  <2>2. LogRatio(m.scale, scale) <= Tol
    BY <1>0, <1>1, RatioCommutes
  <2> QED
    BY <2>1, <2>2 DEF SameRows
<1>2. CASE ~(LogRatio(scale, m.scale) <= Tol)
  <2>1. PICK b \in BackendScaled(m.index, scale, rebuild) :
          r = IF b.ok
              THEN Ok([m EXCEPT !.index = b.index, !.scale = scale,
                                !.built = IF rebuild THEN scale ELSE @])
              ELSE Failed([m EXCEPT !.index = b.index])
    BY <1>2 DEF Rescaled
  <2>2. /\ IsIndex(b.index) /\ b.ok \in BOOLEAN
        /\ b.ok => /\ b.index.scaled = TRUE /\ b.index.scale = scale
                   /\ b.index.partition = IF rebuild THEN scale ELSE m.index.partition
    <3>1. rebuild \in BOOLEAN
      OBVIOUS
    <3> HIDE DEF rebuild
    <3>2. b \in BackendScaled(m.index, scale, rebuild)
      OBVIOUS
    <3> QED
      BY ONLY <1>0, <3>1, <3>2, BackendScaledFacts
  <2> DEFINE new == IF rebuild THEN scale ELSE m.built
  <2>3. new \in Scales
    BY <1>0
  <2>4. CASE b.ok
    <3> DEFINE n == [m EXCEPT !.index = b.index, !.scale = scale, !.built = new]
    <3>1. r = [model |-> n, ok |-> TRUE]
      BY <2>1, <2>4 DEF Ok
    <3>2. /\ n.index = b.index /\ n.scale = scale /\ n.built = new /\ SameRows(n, m)
          /\ n.scaled = m.scaled /\ n.fixed = m.fixed /\ n.metric = m.metric
          /\ DOMAIN n = DOMAIN m
      BY DEF IsModel, SameRows
    <3>3. rebuild \in BOOLEAN /\ LogRatio(scale, new) <= Drift
      <4>1. LogRatio(scale, m.built) \in Int /\ LogRatio(scale, scale) = 0
        BY <1>0, RatioIs, RatioOfSame
      <4> QED
        BY <1>0, <4>1
    <3>4. LogRatio(scale, scale) <= Tol
      BY <1>0, RatioOfSame
    <3> HIDE DEF n, new, rebuild
    <3>5. IsModel(n) /\ SameRows(n, m) /\ n.metric = NoMetric /\ n.scale = scale
      BY <2>2, <2>3, <3>2 DEF IsModel, SameRows
    <3>6. ASSUME Agreed(m)
          PROVE  Agreed(n)
      <4>1. m.index.partition = m.built
        BY <1>0, <3>6 DEF Agreed
      <4>2. b.index.partition = new /\ b.index.scale = scale /\ b.index.scaled = TRUE
        BY <2>2, <2>4, <4>1 DEF new
      <4>3. n.scaled = TRUE
        BY <1>0, <3>2
      <4> QED
        BY <3>2, <3>3, <4>2, <4>3 DEF Agreed
    <3> QED
      BY <3>1, <3>4, <3>5, <3>6
  <2>5. CASE ~b.ok
    <3> DEFINE n == [m EXCEPT !.index = b.index]
    <3>1. r = [model |-> n, ok |-> FALSE]
      BY <2>1, <2>5 DEF Failed
    <3>2. /\ n.index = b.index /\ n.scale = m.scale /\ n.built = m.built /\ SameRows(n, m)
          /\ n.scaled = m.scaled /\ n.fixed = m.fixed /\ n.metric = m.metric
          /\ DOMAIN n = DOMAIN m
      BY DEF IsModel, SameRows
    <3> HIDE DEF n
    <3>3. IsModel(n) /\ SameRows(n, m) /\ n.metric = NoMetric
      BY <2>2, <3>2 DEF IsModel, SameRows
    <3> QED
      BY <3>1, <3>3
  <2> QED
    BY <2>2, <2>4, <2>5
<1> QED
  BY <1>1, <1>2

\* A model that keeps its moments has no metric and the scale of its data.
LEMMA MomentsAreKept ==
  ASSUME NEW m, IsModel(m)
  PROVE  /\ m.layout.disk \in BOOLEAN /\ m.layout.scaled \in BOOLEAN
         /\ m.scaled /\ ~m.fixed <=> m.layout.scaled
         /\ m.layout.scaled \/ ~m.layout.disk => m.metric = NoMetric
BY DEF IsModel, LegalLayouts

\* refresh_data_x_scale
LEMMA RefreshedFacts ==
  ASSUME NEW m, IsModel(m), m.layout.scaled, NEW n, NEW r \in Refreshed(m, n)
  PROVE  /\ IsModel(r.model) /\ InMemory(r.model) /\ SameRows(r.model, m)
         /\ r.model.metric = NoMetric /\ r.ok \in BOOLEAN
         /\ r.ok /\ Agreed(m) =>
              /\ Agreed(r.model)
              /\ LogRatio(r.model.scale, DataScale(m.summed, n, m.unscaled))
                   <= (IF m.layout.disk THEN Tol ELSE 0)
<1> DEFINE scale == DataScale(m.summed, n, m.unscaled)
<1>1. scale \in Scales
  BY DataScaleIsScale
<1>2. /\ m.scaled = TRUE /\ m.metric = NoMetric /\ m.layout.disk \in BOOLEAN
      /\ IsIndex(m.index)
  BY MomentsAreKept DEF IsModel
<1>3. CASE m.layout.disk
  <2>1. r \in Rescaled(m, scale)
    BY <1>3 DEF Refreshed
  <2> HIDE DEF scale
  <2>2. /\ IsModel(r.model) /\ SameRows(r.model, m) /\ r.model.metric = NoMetric
        /\ r.ok \in BOOLEAN
        /\ r.ok /\ Agreed(m) => Agreed(r.model) /\ LogRatio(r.model.scale, scale) <= Tol
    BY <1>1, <1>2, <1>3, <2>1, RescaledFacts
  <2>3. InMemory(r.model)
    BY <1>3, <2>2 DEF InMemory, SameRows
  <2> QED
    BY <1>3, <2>2, <2>3 DEF scale
<1>4. CASE ~m.layout.disk
  <2> DEFINE k == [m EXCEPT !.scale = scale, !.index.stale = TRUE]
  <2>1. r = [model |-> k, ok |-> TRUE]
    BY <1>4 DEF Refreshed, Ok
  <2> HIDE DEF scale
  <2>2. /\ k.scale = scale /\ k.built = m.built /\ SameRows(k, m)
        /\ k.scaled = m.scaled /\ k.fixed = m.fixed /\ k.metric = m.metric
        /\ DOMAIN k = DOMAIN m
    BY DEF IsModel, SameRows
  <2>3. IsIndex(k.index) /\ k.index.stale = TRUE
    BY DEF IsModel, IsIndex
  <2>4. LogRatio(scale, scale) = 0
    BY <1>1, RatioOfSame
  <2> HIDE DEF k
  <2>5. IsModel(k)
    BY <1>1, <2>2, <2>3 DEF IsModel, SameRows
  <2>6. InMemory(k) /\ Agreed(k)
    BY <1>2, <1>4, <2>2, <2>3 DEF InMemory, Agreed, SameRows
  <2>7. LogRatio(k.scale, scale) <= 0
    BY <2>2, <2>4
  <2> QED
    BY <1>2, <1>4, <2>1, <2>2, <2>5, <2>6, <2>7 DEF scale
<1> QED
  BY <1>2, <1>3, <1>4

----------------------------------------------------------------------------
(* The calls.                                                              *)

\* set_unscaled_dims
LEMMA UnscaledSetFacts ==
  ASSUME NEW m, IsModel(m), InMemory(m), NEW dims, NEW r \in UnscaledSet(m, dims)
  PROVE  /\ IsModel(r.model) /\ InMemory(r.model) /\ r.ok \in BOOLEAN
         /\ r.model.layout = m.layout /\ r.model.metric = m.metric
         /\ r.model.rows = m.rows /\ r.model.obs = m.obs
         /\ r.ok /\ Current(m) /\ m.obs = m.rows => Current(r.model)
         /\ Near(m) => Near(r.model)
<1> DEFINE u == [m EXCEPT !.unscaled = dims]
<1>1. /\ u.unscaled = dims /\ u.summed = m.summed /\ u.obs = m.obs /\ u.rows = m.rows
      /\ u.layout = m.layout /\ u.scale = m.scale /\ u.built = m.built
      /\ u.scaled = m.scaled /\ u.fixed = m.fixed /\ u.metric = m.metric
      /\ u.counted = m.counted /\ u.index = m.index /\ DOMAIN u = DOMAIN m
  BY DEF IsModel
<1>2. UnscaledSet(m, dims) = IF ~m.scaled \/ m.fixed THEN {Ok(u)} ELSE Refreshed(u, m.obs)
  BY DEF UnscaledSet
<1> HIDE DEF u
<1>3. IsModel(u) /\ InMemory(u)
  BY <1>1 DEF IsModel, InMemory
<1>4. (Agreed(m) => Agreed(u)) /\ (Near(m) => Near(u))
  BY <1>1 DEF Agreed, Near
<1>5. /\ m.layout.scaled \in BOOLEAN /\ m.scaled \in BOOLEAN /\ m.fixed \in BOOLEAN
      /\ (m.scaled /\ ~m.fixed) = m.layout.scaled
  BY MomentsAreKept DEF IsModel
<1>6. CASE ~m.layout.scaled
  <2>1. r = [model |-> u, ok |-> TRUE]
    BY <1>2, <1>5, <1>6 DEF Ok
  <2>2. DataFollowed(u)
    BY <1>1, <1>6 DEF DataFollowed
  <2> QED
    BY <1>1, <1>3, <1>4, <2>1, <2>2 DEF Current
<1>7. CASE m.layout.scaled
  <2>1. r \in Refreshed(u, m.obs)
    BY <1>2, <1>5, <1>7
  <2>2. /\ IsModel(r.model) /\ InMemory(r.model) /\ SameRows(r.model, u)
        /\ r.model.metric = NoMetric /\ r.ok \in BOOLEAN
        /\ r.ok /\ Agreed(u) =>
              /\ Agreed(r.model)
              /\ LogRatio(r.model.scale, DataScale(u.summed, m.obs, u.unscaled))
                   <= (IF u.layout.disk THEN Tol ELSE 0)
    BY <1>1, <1>3, <1>7, <2>1, RefreshedFacts
  <2>3. m.metric = NoMetric
    BY <1>7, MomentsAreKept
  <2>4. ASSUME r.ok, Current(m), m.obs = m.rows
        PROVE  Current(r.model)
    <3>1. Agreed(r.model)
      BY <1>4, <2>2, <2>4 DEF Current
    <3>2. r.model.summed = 1..r.model.rows
      BY <1>1, <1>7, <2>2, <2>4 DEF Current, DataFollowed, SameRows
    <3>3. LogRatio(r.model.scale, MomentsScale(r.model)) <= (IF r.model.layout.disk THEN Tol ELSE 0)
      BY <1>1, <1>4, <2>2, <2>4 DEF Current, SameRows, MomentsScale
    <3> QED
      BY <3>1, <3>2, <3>3 DEF Current, DataFollowed
  <2> QED
    BY <1>1, <2>2, <2>3, <2>4 DEF SameRows, Near
<1> QED
  BY <1>5, <1>6, <1>7

\* set_metric_scale: model and index are in the scale set, if it succeeds.
LEMMA MetricScaleSetFacts ==
  ASSUME NEW m, IsModel(m), m.metric # NoMetric, NEW scale \in Scales,
         NEW rebuild \in BOOLEAN, NEW r \in MetricScaleSet(m, scale, rebuild)
  PROVE  /\ IsModel(r.model) /\ InMemory(r.model) /\ SameRows(r.model, m)
         /\ r.model.metric = m.metric /\ r.ok \in BOOLEAN
         /\ r.ok => /\ Agreed(r.model) /\ r.model.index.scale = scale
                    /\ r.model.index.partition = IF rebuild THEN scale ELSE m.index.partition
<1>1. PICK b \in BackendScaled(m.index, scale, rebuild) :
        r = IF b.ok
            THEN Ok([m EXCEPT !.index = b.index, !.scaled = TRUE, !.fixed = TRUE,
                              !.scale = scale])
            ELSE Failed([m EXCEPT !.index = b.index])
  BY DEF MetricScaleSet
<1>2. /\ IsIndex(b.index) /\ b.ok \in BOOLEAN
      /\ b.ok => /\ b.index.scaled = TRUE /\ b.index.scale = scale
                 /\ b.index.partition = IF rebuild THEN scale ELSE m.index.partition
  BY BackendScaledFacts DEF IsModel
<1>3. m.layout.disk = TRUE /\ m.layout.auto
  BY DEF IsModel, LegalLayouts
<1>4. CASE b.ok
  <2> DEFINE n == [m EXCEPT !.index = b.index, !.scaled = TRUE, !.fixed = TRUE,
                            !.scale = scale]
  <2>1. r = [model |-> n, ok |-> TRUE]
    BY <1>1, <1>4 DEF Ok
  <2>2. /\ n.index = b.index /\ n.scale = scale /\ n.built = m.built /\ SameRows(n, m)
        /\ n.scaled = TRUE /\ n.fixed = TRUE /\ n.metric = m.metric
        /\ DOMAIN n = DOMAIN m
    BY DEF IsModel, SameRows
  <2> HIDE DEF n
  <2>3. IsModel(n)
    BY <1>2, <2>2 DEF IsModel, SameRows
  <2>4. InMemory(n) /\ Agreed(n)
    BY <1>2, <1>3, <1>4, <2>2 DEF InMemory, Agreed, SameRows
  <2> QED
    BY <1>2, <1>4, <2>1, <2>2, <2>3, <2>4
<1>5. CASE ~b.ok
  <2> DEFINE n == [m EXCEPT !.index = b.index]
  <2>1. r = [model |-> n, ok |-> FALSE]
    BY <1>1, <1>5 DEF Failed
  <2>2. /\ n.index = b.index /\ n.scale = m.scale /\ n.built = m.built /\ SameRows(n, m)
        /\ n.scaled = m.scaled /\ n.fixed = m.fixed /\ n.metric = m.metric
        /\ DOMAIN n = DOMAIN m
    BY DEF IsModel, SameRows
  <2> HIDE DEF n
  <2>3. IsModel(n) /\ InMemory(n)
    BY <1>2, <1>3, <2>2 DEF IsModel, InMemory, SameRows
  <2> QED
    BY <2>1, <2>2, <2>3
<1> QED
  BY <1>2, <1>4, <1>5

\* set_weights: the metric knows the scale it is built under, and the weights in force
\* have not drifted further from it than its limit.
LEMMA WeighedFacts ==
  ASSUME NEW a, IsMetric(a), NEW weights \in Scales
  PROVE  /\ IsMetric(Weighed(a, weights)) /\ Rebuilds(a, weights) \in BOOLEAN
         /\ Weighed(a, weights).weights = weights
         /\ Weighed(a, weights).drift = a.drift
         /\ Weighed(a, weights).built = IF Rebuilds(a, weights) THEN weights ELSE a.built
         /\ WeightDrift(weights, Weighed(a, weights).built) <= a.drift
<1> DEFINE w == Weighed(a, weights)
<1>1. Rebuilds(a, weights) \in BOOLEAN
  BY DEF Rebuilds
<1>2. /\ w.weights = weights /\ w.drift = a.drift
      /\ w.built = IF Rebuilds(a, weights) THEN weights ELSE a.built
      /\ DOMAIN w = DOMAIN a
  BY DEF IsMetric, Weighed
<1>3. IsMetric(w)
  BY <1>1, <1>2 DEF IsMetric
<1>4. a.drift \in Nat /\ a.built \in Scales
  BY AutoMetricAssumption DEF IsMetric
<1>5. WeightDrift(weights, a.built) \in Int /\ WeightDrift(weights, weights) = 0
  BY <1>4, DriftIs
<1> HIDE DEF w
<1>6. WeightDrift(weights, w.built) <= a.drift
  <2>1. CASE Rebuilds(a, weights)
    <3>1. w.built = weights /\ 0 <= a.drift
      BY <1>2, <1>4, <2>1
    <3> QED
      BY <1>5, <3>1
  <2>2. CASE ~Rebuilds(a, weights)
    <3>1. w.built = a.built /\ ~(WeightDrift(weights, a.built) > a.drift)
      BY <1>2, <2>2 DEF Rebuilds
    <3>2. \A d \in Int, k \in Nat : ~(d > k) => d <= k
      OBVIOUS
    <3> QED
      BY <1>4, <1>5, <3>1, <3>2
  <2> QED
    BY <2>1, <2>2
<1> QED
  BY <1>1, <1>2, <1>3, <1>6 DEF w

\* observe: what the metric asks the model to apply is what it remembers.
LEMMA ObservationFacts ==
  ASSUME NEW a, IsMetric(a), NEW n, NEW o \in Observations(a, n)
  PROVE  /\ IsMetric(o.metric) /\ o.update \in BOOLEAN /\ o.rebuild \in BOOLEAN
         /\ ~o.update => o.metric.built = a.built
         /\ o.update =>
              /\ o.metric.built = IF o.rebuild THEN o.metric.weights ELSE a.built
              /\ WeightDrift(o.metric.weights, o.metric.built) <= o.metric.drift
<1> DEFINE p == Observed(a, n)
           r == Refitted(p)
<1>1. /\ IsMetric(p) /\ p.built = a.built /\ p.drift = a.drift
      /\ DOMAIN p = DOMAIN a
  BY DEF IsMetric, Observed
<1> HIDE DEF p
<1>2. IsMetric(r) /\ r.built = a.built /\ r.drift = p.drift
  BY <1>1 DEF IsMetric, Refitted
<1> HIDE DEF r
<1>3. CASE ~RefitIsDue(p)
  <2>1. o = [metric |-> p, update |-> FALSE, rebuild |-> FALSE]
    BY <1>3 DEF Observations, p
  <2> QED
    BY <1>1, <2>1
<1>4. CASE RefitIsDue(p)
  <2>1. PICK w \in AutoWeights(p) :
          o = IF LogRatio(Target(w), p.weights) > Tol
              THEN [metric |-> Weighed(r, Target(w)), update |-> TRUE,
                    rebuild |-> Rebuilds(p, Target(w))]
              ELSE [metric |-> r, update |-> FALSE, rebuild |-> FALSE]
    BY <1>4 DEF Observations, p, r
  <2>2. Target(w) \in Scales
    BY UnitIsScale, AutoMetricAssumption DEF AutoWeights, Target
  <2> DEFINE t == Target(w)
  <2> HIDE DEF t
  <2>3. /\ IsMetric(Weighed(r, t)) /\ Rebuilds(r, t) \in BOOLEAN
        /\ Weighed(r, t).weights = t /\ Weighed(r, t).drift = r.drift
        /\ Weighed(r, t).built = IF Rebuilds(r, t) THEN t ELSE r.built
        /\ WeightDrift(t, Weighed(r, t).built) <= r.drift
    BY <1>2, <2>2, WeighedFacts DEF t
  <2>4. Rebuilds(p, t) = Rebuilds(r, t)
    BY <1>1, <1>2 DEF Rebuilds
  <2>5. CASE LogRatio(t, p.weights) > Tol
    <3>1. o = [metric |-> Weighed(r, t), update |-> TRUE, rebuild |-> Rebuilds(r, t)]
      BY <2>1, <2>4, <2>5 DEF t
    <3> QED
      BY <1>2, <2>3, <3>1
  <2>6. CASE ~(LogRatio(t, p.weights) > Tol)
    <3>1. o = [metric |-> r, update |-> FALSE, rebuild |-> FALSE]
      BY <2>1, <2>6 DEF t
    <3> QED
      BY <1>2, <3>1
  <2> QED
    BY <2>5, <2>6
<1> QED
  BY <1>3, <1>4

\* observe_auto_metric
LEMMA AutoObservedFacts ==
  ASSUME NEW m, IsModel(m), InMemory(m), NEW n, NEW r \in AutoObserved(m, n)
  PROVE  /\ IsModel(r.model) /\ InMemory(r.model) /\ SameRows(r.model, m)
         /\ r.ok \in BOOLEAN
         /\ r.ok /\ Current(m) => Current(r.model)
         /\ r.ok /\ Near(m) => Near(r.model)
<1>1. CASE m.metric = NoMetric
  <2>1. r = [model |-> m, ok |-> TRUE]
    BY <1>1 DEF AutoObserved, Ok
  <2> QED
    BY <2>1 DEF SameRows
<1>2. CASE m.metric # NoMetric
  <2>1. PICK o \in Observations(m.metric, n) :
          r \in LET k == [m EXCEPT !.metric = o.metric]
                IN IF o.update THEN MetricScaleSet(k, o.metric.weights, o.rebuild)
                   ELSE {Ok(k)}
    BY <1>2 DEF AutoObserved
  <2> DEFINE k == [m EXCEPT !.metric = o.metric]
  <2>2. /\ IsMetric(o.metric) /\ o.update \in BOOLEAN /\ o.rebuild \in BOOLEAN
        /\ ~o.update => o.metric.built = m.metric.built
        /\ o.update =>
              /\ o.metric.built = IF o.rebuild THEN o.metric.weights ELSE m.metric.built
              /\ WeightDrift(o.metric.weights, o.metric.built) <= o.metric.drift
    BY <1>2, ObservationFacts DEF IsModel
  <2>3. o.metric # NoMetric
    BY <2>2 DEF IsMetric, NoMetric
  <2>4. /\ k.metric = o.metric /\ k.index = m.index /\ k.scale = m.scale
        /\ k.built = m.built /\ k.scaled = m.scaled /\ k.fixed = m.fixed
        /\ SameRows(k, m) /\ DOMAIN k = DOMAIN m
    BY DEF IsModel, SameRows
  <2>5. r \in IF o.update THEN MetricScaleSet(k, o.metric.weights, o.rebuild) ELSE {Ok(k)}
    BY <2>1
  <2> HIDE DEF k
  <2>6. IsModel(k) /\ InMemory(k)
    BY <1>2, <2>2, <2>3, <2>4 DEF IsModel, InMemory, SameRows
  <2>7. ~m.layout.scaled
    BY <1>2, MomentsAreKept
  <2>8. CASE ~o.update
    <3>1. r = [model |-> k, ok |-> TRUE]
      BY <2>5, <2>8 DEF Ok
    <3>2. Agreed(m) => Agreed(k)
      BY <2>3, <2>4 DEF Agreed, SameRows
    <3>3. DataFollowed(k)
      BY <2>4, <2>7 DEF DataFollowed, SameRows
    <3>4. Near(m) => Near(k)
      BY <1>2, <2>2, <2>4, <2>8 DEF Near
    <3> QED
      BY <2>4, <2>6, <3>1, <3>2, <3>3, <3>4 DEF Current
  <2>9. CASE o.update
    <3>1. o.metric.weights \in Scales /\ o.metric.drift \in Drifts
      BY <2>2 DEF IsMetric
    <3>2. /\ IsModel(r.model) /\ InMemory(r.model) /\ SameRows(r.model, k)
          /\ r.model.metric = k.metric /\ r.ok \in BOOLEAN
          /\ r.ok => /\ Agreed(r.model) /\ r.model.index.scale = o.metric.weights
                     /\ r.model.index.partition =
                          IF o.rebuild THEN o.metric.weights ELSE k.index.partition
      BY <2>2, <2>3, <2>4, <2>5, <2>6, <2>9, <3>1, MetricScaleSetFacts
    <3>3. SameRows(r.model, m)
      BY <2>4, <3>2 DEF SameRows
    <3>4. DataFollowed(r.model)
      BY <2>7, <3>3 DEF DataFollowed, SameRows
    <3>5. ASSUME r.ok, Near(m)
          PROVE  Near(r.model)
      <4>1. m.index.partition = m.metric.built
        BY <1>2, <3>5 DEF Near
      <4>2. r.model.index.partition = o.metric.built
        BY <2>2, <2>4, <2>9, <3>2, <3>5, <4>1
      <4>3. WeightDrift(r.model.index.scale, r.model.index.partition) <= o.metric.drift
        BY <2>2, <2>9, <3>2, <3>5, <4>2
      <4> QED
        BY <2>4, <3>1, <3>2, <4>2, <4>3 DEF Near
    <3> QED
      BY <3>2, <3>3, <3>4, <3>5 DEF Current
  <2> QED
    BY <2>2, <2>8, <2>9
<1> QED
  BY <1>1, <1>2

\* What a model is as it is made, and after every call that succeeds.
Settled(m) ==
  /\ IsModel(m) /\ InMemory(m) /\ Current(m) /\ m.obs = m.rows

\* new_with_storage: model, index and moments begin with one scale.
LEMMA NewModelFacts ==
  ASSUME NEW layout \in LegalLayouts, NEW n \in Nat
  PROVE  /\ Settled(NewModel(layout, n))
         /\ NewModel(layout, n).layout = layout /\ NewModel(layout, n).rows = n
         /\ NewModel(layout, n).metric = NoMetric
         /\ ~layout.scaled => /\ NewModel(layout, n).index.scale = Unit
                              /\ NewModel(layout, n).index.partition = Unit
<1> DEFINE m == NewModel(layout, n)
           summed == IF layout.scaled THEN 1..n ELSE {}
           scale == IF layout.scaled THEN DataScale(summed, n, {}) ELSE Unit
<1>1. scale \in Scales
  BY DataScaleIsScale, UnitIsScale
<1>2. LogRatio(scale, scale) = 0
  BY <1>1, RatioOfSame
<1>3. layout.disk \in BOOLEAN /\ layout.scaled \in BOOLEAN /\ layout.auto \in BOOLEAN
  BY DEF LegalLayouts
<1> HIDE DEF summed, scale
<1>4. m = [layout |-> layout, rows |-> n, counted |-> n, obs |-> n, summed |-> summed,
           scaled |-> layout.scaled, scale |-> scale, built |-> scale, fixed |-> FALSE,
           unscaled |-> {}, index |-> Index(n, layout.scaled, scale), metric |-> NoMetric]
  BY DEF NewModel, summed, scale
<1>5. /\ m.layout = layout /\ m.rows = n /\ m.counted = n /\ m.obs = n /\ m.summed = summed
      /\ m.scaled = layout.scaled /\ m.scale = scale /\ m.built = scale /\ m.fixed = FALSE
      /\ m.unscaled = {} /\ m.metric = NoMetric /\ m.index = Index(n, layout.scaled, scale)
  BY <1>4
<1>6. IsIndex(m.index) /\ m.index.rows = n /\ m.index.scaled = layout.scaled
      /\ m.index.scale = scale /\ m.index.partition = scale /\ m.index.synced = n
  BY <1>1, <1>3, <1>5 DEF Index, IsIndex
<1>7. IsModel(m)
  <2>1. DOMAIN m = {"layout", "rows", "counted", "obs", "summed", "scaled", "scale", "built",
                    "fixed", "unscaled", "index", "metric"}
    BY <1>4
  <2> HIDE DEF m
  <2> QED
    BY <1>1, <1>3, <1>5, <1>6, <2>1 DEF IsModel
<1> HIDE DEF m
<1>8. InMemory(m)
  BY <1>5, <1>6 DEF InMemory
<1>9. DataFollowed(m)
  <2> SUFFICES ASSUME layout.scaled
               PROVE  /\ m.summed = 1..m.rows
                      /\ LogRatio(m.scale, MomentsScale(m))
                           <= (IF m.layout.disk THEN Tol ELSE 0)
    BY <1>5 DEF DataFollowed
  <2>1. summed = 1..n /\ scale = DataScale(summed, n, {})
    BY DEF summed, scale
  <2>2. MomentsScale(m) = scale
    BY <1>5, <2>1 DEF MomentsScale
  <2>3. 0 <= (IF m.layout.disk THEN Tol ELSE 0)
    BY <1>3, <1>5, AutoMetricAssumption
  <2> QED
    BY <1>2, <1>5, <2>1, <2>2, <2>3
<1>10. Agreed(m)
  <2>1. LogRatio(scale, scale) <= Drift
    BY <1>2, AutoMetricAssumption
  <2> QED
    BY <1>5, <1>6, <2>1 DEF Agreed
<1> QED
  BY <1>5, <1>6, <1>7, <1>8, <1>9, <1>10 DEF m, scale, Settled, Current

\* A constructor leaves a model that is settled, its partition near the scale in force.
LEMMA ConstructedFacts ==
  ASSUME NEW layout \in LegalLayouts, NEW rows \in Nat, NEW dims, NEW n,
         NEW c \in Constructed(NewModel(layout, rows), dims, n)
  PROVE  Settled(c) /\ Near(c) /\ c.layout = layout /\ c.rows = rows
<1> DEFINE m == NewModel(layout, rows)
<1>1. /\ Settled(m) /\ m.layout = layout /\ m.rows = rows /\ m.metric = NoMetric
      /\ ~layout.scaled => m.index.scale = Unit /\ m.index.partition = Unit
  BY NewModelFacts
<1>2. Near(m)
  BY <1>1 DEF Near
<1>3. PICK r \in IF m.layout.auto THEN AutoEnabled(m, dims, n)
                 ELSE IF dims = {} THEN {Ok(m)} ELSE UnscaledSet(m, dims) :
        r.ok /\ c = r.model
  BY DEF Constructed
<1> HIDE DEF m
<1>4. layout.scaled \in BOOLEAN /\ layout.auto \in BOOLEAN
  BY DEF LegalLayouts
<1>5. CASE ~layout.auto /\ dims = {}
  BY <1>1, <1>2, <1>3, <1>5 DEF Ok
<1>6. CASE ~layout.auto /\ dims # {}
  <2>1. r \in UnscaledSet(m, dims)
    BY <1>1, <1>3, <1>6
  <2> QED
    BY <1>1, <1>2, <1>3, <2>1, UnscaledSetFacts DEF Settled
<1>7. CASE layout.auto
  <2>1. ~layout.scaled
    BY <1>7 DEF LegalLayouts
  <2>2. m.scaled = FALSE /\ m.fixed = FALSE
    BY <1>1, <2>1 DEF Settled, IsModel
  <2> DEFINE u == [m EXCEPT !.unscaled = dims]
             k == [u EXCEPT !.metric = NewMetric]
  <2>3. UnscaledSet(m, dims) = {[model |-> u, ok |-> TRUE]}
    BY <2>2 DEF UnscaledSet, Ok
  <2>4. r \in AutoObserved(k, n)
    <3>1. r \in AutoEnabled(m, dims, n)
      BY <1>1, <1>3, <1>7
    <3>2. PICK v \in UnscaledSet(m, dims) :
            r \in IF v.ok THEN AutoObserved([v.model EXCEPT !.metric = NewMetric], n) ELSE {v}
      BY <3>1 DEF AutoEnabled
    <3>3. v.model = u /\ v.ok = TRUE
      BY <2>3
    <3> QED
      BY <3>2, <3>3
  <2>5. /\ k.metric = NewMetric /\ k.index = m.index /\ k.scale = m.scale
        /\ k.built = m.built /\ k.scaled = m.scaled /\ k.fixed = m.fixed
        /\ k.layout = m.layout /\ k.rows = m.rows /\ k.counted = m.counted
        /\ k.obs = m.obs /\ DOMAIN k = DOMAIN m
    BY <1>1 DEF Settled, IsModel
  <2> HIDE DEF u, k
  <2>6. IsMetric(NewMetric) /\ NewMetric.built = Unit
    BY UnitIsScale, AutoMetricAssumption DEF IsMetric, NewMetric
  <2>7. NewMetric # NoMetric
    BY <2>6 DEF IsMetric, NoMetric
  <2>8. IsModel(k) /\ InMemory(k)
    BY <1>1, <1>7, <2>2, <2>5, <2>6, <2>7 DEF Settled, IsModel, InMemory
  <2>9. Current(k)
    BY <1>1, <2>1, <2>5, <2>7 DEF Settled, Current, DataFollowed, Agreed
  <2>10. Near(k)
    <3>1. WeightDrift(Unit, Unit) <= Drift /\ Drift \in Drifts
      BY UnitIsScale, DriftIs, AutoMetricAssumption
    <3> QED
      BY <1>1, <2>1, <2>5, <2>6, <3>1 DEF Near
  <2>11. /\ IsModel(r.model) /\ InMemory(r.model) /\ SameRows(r.model, k)
         /\ Current(r.model) /\ Near(r.model)
    BY <1>3, <2>4, <2>8, <2>9, <2>10, AutoObservedFacts
  <2> QED
    BY <1>1, <1>3, <2>5, <2>11 DEF Settled, SameRows
<1> QED
  BY <1>4, <1>5, <1>6, <1>7

\* ensure_index_sync of an in-memory backend: the index holds every row in the scale of
\* the model.
LEMMA MemorySyncedFacts ==
  ASSUME NEW m, IsModel(m), InMemory(m), ~m.layout.disk
  PROVE  /\ IsIndex(MemorySynced(m)) /\ MemorySynced(m).rows = m.rows
         /\ m.scaled => MemorySynced(m).scale = m.scale
         /\ ~m.scaled => MemorySynced(m).synced = m.rows
<1> DEFINE i == m.index
           whole == Index(m.rows, i.scaled, m.scale)
<1>1. IsIndex(i) /\ m.scaled \in BOOLEAN /\ m.rows \in Nat /\ m.scale \in Scales
  BY DEF IsModel
<1>2. CASE m.scaled /\ i.stale
  <2>1. MemorySynced(m) = whole
    BY <1>2 DEF MemorySynced
  <2>2. IsIndex(whole) /\ whole.rows = m.rows /\ whole.scale = m.scale
    BY <1>1 DEF Index, IsIndex
  <2> QED
    BY <1>2, <2>1, <2>2
<1>3. CASE m.scaled /\ ~i.stale
  <2>1. MemorySynced(m) = i
    BY <1>3 DEF MemorySynced
  <2>2. i.rows = m.rows /\ i.scale = m.scale
    BY <1>3 DEF InMemory
  <2> QED
    BY <1>1, <1>3, <2>1, <2>2
<1>4. CASE ~m.scaled
  <2>1. i.rows \in Nat /\ i.rows <= m.rows /\ i.synced = i.rows
    BY <1>4 DEF InMemory
  <2>2. CASE i.rows = m.rows
    <3>1. MemorySynced(m) = [i EXCEPT !.synced = i.synced]
      BY <1>1, <1>4, <2>1, <2>2 DEF MemorySynced
    <3> QED
      BY <1>1, <1>4, <2>1, <2>2, <3>1 DEF IsIndex
  <2>3. CASE i.rows < m.rows
    <3>1. MemorySynced(m) = [i EXCEPT !.rows = @ + (m.rows - i.synced), !.synced = m.rows]
      BY <1>1, <1>4, <2>1, <2>3 DEF MemorySynced
    <3>2. i.rows + (m.rows - i.synced) = m.rows
      BY <1>1, <2>1
    <3> QED
      BY <1>1, <1>4, <3>1, <3>2 DEF IsIndex
  <2> QED
    BY <1>1, <2>1, <2>2, <2>3
<1> QED
  BY <1>1, <1>2, <1>3, <1>4

\* A model whose index is synced, whichever backend does it, is as good as before: a disk
\* index that is in the scale of the model keeps its partition.
LEMMA SyncedFacts ==
  ASSUME NEW m, IsModel(m), InMemory(m)
  PROVE  /\ IsModel(Synced(m)) /\ InMemory(Synced(m)) /\ SameRows(Synced(m), m)
         /\ Current(m) => Current(Synced(m))
         /\ Current(m) /\ Near(m) => Near(Synced(m))
<1> DEFINE i == IF m.layout.disk THEN DiskSynced(m) ELSE MemorySynced(m)
           s == [m EXCEPT !.index = i]
<1>1. /\ s.index = i /\ s.scale = m.scale /\ s.built = m.built /\ SameRows(s, m)
      /\ s.scaled = m.scaled /\ s.fixed = m.fixed /\ s.metric = m.metric
      /\ DOMAIN s = DOMAIN m
  BY DEF IsModel, SameRows
<1>2. Synced(m) = s
  BY DEF Synced
<1>3. /\ m.layout.disk \in BOOLEAN /\ m.scale \in Scales /\ m.scaled \in BOOLEAN
      /\ m.rows \in Nat /\ IsIndex(m.index)
  BY MomentsAreKept DEF IsModel
<1>4. DataFollowed(m) => DataFollowed(s)
  BY <1>1 DEF DataFollowed, MomentsScale, SameRows
<1>5. CASE m.layout.disk
  <2> DEFINE same == m.index.scaled = m.scaled /\ m.index.scale = m.scale
             force == InForce(m.scaled, m.scale)
             old == [m.index EXCEPT !.rows = m.rows]
             new == [Index(m.rows, m.scaled, m.scale) EXCEPT !.partition = force]
  <2>1. i = IF same THEN old ELSE new
    BY <1>5 DEF DiskSynced
  <2>2. /\ IsIndex(old) /\ old.scaled = m.index.scaled /\ old.scale = m.index.scale
        /\ old.partition = m.index.partition
    BY <1>3 DEF IsIndex
  <2>3. force \in Scales
    BY <1>3, UnitIsScale DEF InForce
  <2> HIDE DEF force
  <2>4. IsIndex(new)
    BY <1>3, <2>3 DEF IsIndex, Index
  <2> HIDE DEF old, new, i, s
  <2>5. IsIndex(i)
    BY <2>1, <2>2, <2>4
  <2>6. IsModel(s) /\ InMemory(s)
    BY <1>1, <1>5, <2>5 DEF IsModel, InMemory, SameRows
  <2>7. ASSUME Current(m)
        PROVE  Agreed(s) /\ (Near(m) => Near(s))
    <3>1. same
      BY <1>5, <2>7 DEF Current, Agreed
    <3>2. /\ i.scaled = m.index.scaled /\ i.scale = m.index.scale
          /\ i.partition = m.index.partition
      BY <2>1, <2>2, <3>1
    <3> QED
      BY <1>1, <2>7, <3>2 DEF Current, Agreed, Near, SameRows
  <2> QED
    BY <1>1, <1>2, <1>4, <2>6, <2>7 DEF Current
<1>6. CASE ~m.layout.disk
  <2>1. i = MemorySynced(m)
    BY <1>6
  <2> HIDE DEF i, s
  <2>2. /\ IsIndex(i) /\ i.rows = m.rows
        /\ m.scaled => i.scale = m.scale
        /\ ~m.scaled => i.synced = m.rows
    BY <1>6, <2>1, MemorySyncedFacts
  <2>3. m.metric = NoMetric
    BY <1>6, MomentsAreKept
  <2>4. IsModel(s)
    BY <1>1, <2>2 DEF IsModel, SameRows
  <2>5. InMemory(s)
    BY <1>1, <1>3, <2>2 DEF InMemory, SameRows
  <2>6. Agreed(s) /\ Near(s)
    BY <1>1, <1>6, <2>3 DEF Agreed, Near, SameRows
  <2> QED
    BY <1>1, <1>2, <1>4, <2>4, <2>5, <2>6 DEF Current
<1> QED
  BY <1>3, <1>5, <1>6

\* add: the moments are of all rows, those just added too, before the scale is made.
LEMMA AddedFacts ==
  ASSUME NEW m, IsModel(m), InMemory(m), NEW n \in Nat, NEW r \in Added(m, n)
  PROVE  /\ IsModel(r.model) /\ InMemory(r.model) /\ r.ok \in BOOLEAN
         /\ r.model.layout = m.layout /\ r.model.rows = m.rows + n
         /\ r.model.obs \in {m.obs, m.rows + n} /\ (r.ok => r.model.obs = m.rows + n)
         /\ r.ok /\ Current(m) /\ m.obs = m.rows =>
              /\ Current(r.model) /\ r.model.obs = r.model.rows
              /\ Near(m) => Near(r.model)
<1> DEFINE rows == m.rows + n
           summed == SummedWith(m, n)
           a == [RowsAppended(m, n) EXCEPT !.summed = summed]
<1>1. /\ a.rows = rows /\ a.counted = rows /\ a.obs = m.obs /\ a.summed = summed
      /\ a.layout = m.layout /\ a.scale = m.scale /\ a.built = m.built
      /\ a.scaled = m.scaled /\ a.fixed = m.fixed /\ a.metric = m.metric
      /\ a.unscaled = m.unscaled /\ DOMAIN a = DOMAIN m
      /\ DOMAIN a.index = DOMAIN m.index
      /\ a.index.rows = IF m.layout.disk THEN rows ELSE m.index.rows
      /\ a.index.scaled = m.index.scaled /\ a.index.scale = m.index.scale
      /\ a.index.partition = m.index.partition /\ a.index.stale = m.index.stale
      /\ a.index.synced = m.index.synced
  BY DEF IsModel, IsIndex, RowsAppended
<1>2. \/ \E q \in IF m.scaled /\ ~m.fixed THEN Refreshed(a, a.rows) ELSE {Ok(a)} :
           r \in IF q.ok THEN AutoObserved([q.model EXCEPT !.obs = a.rows], n) ELSE {q}
      \/ m.layout.disk /\ r = Failed([m EXCEPT !.rows = @ + n])
  <2> DEFINE counted(q) == IF q.ok THEN AutoObserved([q.model EXCEPT !.obs = a.rows], n)
                           ELSE {q}
             scaled == IF m.scaled /\ ~m.fixed THEN Refreshed(a, a.rows) ELSE {Ok(a)}
             failed == IF "append" \in Faults /\ m.layout.disk
                       THEN {Failed([m EXCEPT !.rows = @ + n])} ELSE {}
             counts == {counted(q) : q \in scaled}
  <2>1. Added(m, n) = (UNION counts) \cup failed
    BY DEF Added
  <2>2. r \in failed => m.layout.disk /\ r = Failed([m EXCEPT !.rows = @ + n])
    OBVIOUS
  <2>3. \A c \in counts : \E q \in scaled : c = counted(q)
    OBVIOUS
  <2> HIDE DEF counts, failed
  <2>4. r \in failed \/ \E c \in counts : r \in c
    BY <2>1
  <2> QED
    BY <2>2, <2>3, <2>4
<1>3. rows \in Nat /\ m.rows \in Nat /\ m.rows <= rows /\ m.layout.disk \in BOOLEAN
      /\ m.layout.scaled \in BOOLEAN
  BY MomentsAreKept DEF IsModel
<1> HIDE DEF a, rows
<1>4. IsModel(a)
  <2>1. IsIndex(a.index)
    BY <1>1 DEF IsModel, IsIndex
  <2> QED
    BY <1>1, <1>3, <2>1 DEF IsModel
<1>5. (m.scaled /\ ~m.fixed) = m.layout.scaled
  BY MomentsAreKept DEF IsModel
<1>6. Agreed(m) => Agreed(a)
  BY <1>1 DEF Agreed
<1>7. ASSUME NEW q, IsModel(q.model), InMemory(q.model), q.ok \in BOOLEAN,
             q.model.layout = m.layout, q.model.rows = rows, q.model.obs = m.obs,
             q.ok /\ Current(m) /\ m.obs = m.rows =>
               Current(q.model) /\ (Near(m) => Near(q.model)),
             r \in IF q.ok THEN AutoObserved([q.model EXCEPT !.obs = rows], n) ELSE {q}
      PROVE  /\ IsModel(r.model) /\ InMemory(r.model) /\ r.ok \in BOOLEAN
             /\ r.model.layout = m.layout /\ r.model.rows = rows
             /\ r.model.obs \in {m.obs, rows} /\ (r.ok => r.model.obs = rows)
             /\ r.ok /\ Current(m) /\ m.obs = m.rows =>
                  /\ Current(r.model) /\ r.model.obs = r.model.rows
                  /\ Near(m) => Near(r.model)
  <2>1. CASE ~q.ok
    BY <1>7, <2>1
  <2>2. CASE q.ok
    <3> DEFINE p == [q.model EXCEPT !.obs = rows]
    <3>1. /\ p.rows = rows /\ p.counted = q.model.counted /\ p.obs = rows
          /\ p.summed = q.model.summed /\ p.layout = m.layout /\ p.scale = q.model.scale
          /\ p.built = q.model.built /\ p.scaled = q.model.scaled
          /\ p.fixed = q.model.fixed /\ p.metric = q.model.metric
          /\ p.unscaled = q.model.unscaled /\ p.index = q.model.index
          /\ DOMAIN p = DOMAIN q.model
      BY <1>7 DEF IsModel
    <3>2. r \in AutoObserved(p, n)
      BY <1>7, <2>2
    <3> HIDE DEF p
    <3>3. IsModel(p) /\ InMemory(p)
      BY <1>3, <1>7, <3>1 DEF IsModel, InMemory
    <3>4. (Current(q.model) => Current(p)) /\ (Near(q.model) => Near(p))
      BY <1>7, <3>1 DEF Current, DataFollowed, Agreed, MomentsScale, Near
    <3>5. /\ IsModel(r.model) /\ InMemory(r.model) /\ SameRows(r.model, p)
          /\ r.ok \in BOOLEAN
          /\ r.ok /\ Current(p) => Current(r.model)
          /\ r.ok /\ Near(p) => Near(r.model)
      BY <3>2, <3>3, AutoObservedFacts
    <3> QED
      BY <1>7, <2>2, <3>1, <3>4, <3>5 DEF SameRows
  <2> QED
    BY <1>7, <2>1, <2>2
<1>8. CASE m.layout.disk /\ r = Failed([m EXCEPT !.rows = @ + n])
  <2> DEFINE f == [m EXCEPT !.rows = rows]
  <2>1. r = [model |-> f, ok |-> FALSE]
    BY <1>8 DEF Failed, rows
  <2>2. /\ f.rows = rows /\ f.counted = m.counted /\ f.obs = m.obs /\ f.layout = m.layout
        /\ f.scale = m.scale /\ f.built = m.built /\ f.scaled = m.scaled
        /\ f.fixed = m.fixed /\ f.metric = m.metric /\ f.index = m.index
        /\ DOMAIN f = DOMAIN m
    BY DEF IsModel
  <2> HIDE DEF f
  <2>3. IsModel(f) /\ InMemory(f)
    BY <1>3, <1>8, <2>2 DEF IsModel, InMemory
  <2> QED
    BY <2>1, <2>2, <2>3 DEF rows
<1>9. CASE \E q \in IF m.scaled /\ ~m.fixed THEN Refreshed(a, a.rows) ELSE {Ok(a)} :
             r \in IF q.ok THEN AutoObserved([q.model EXCEPT !.obs = a.rows], n) ELSE {q}
  <2>1. PICK q \in IF m.layout.scaled THEN Refreshed(a, rows) ELSE {Ok(a)} :
          r \in IF q.ok THEN AutoObserved([q.model EXCEPT !.obs = rows], n) ELSE {q}
    BY <1>1, <1>5, <1>9
  <2>2. CASE m.layout.scaled
    <3>1. /\ IsModel(q.model) /\ InMemory(q.model) /\ SameRows(q.model, a)
          /\ q.model.metric = NoMetric /\ q.ok \in BOOLEAN
          /\ q.ok /\ Agreed(a) =>
               /\ Agreed(q.model)
               /\ LogRatio(q.model.scale, DataScale(a.summed, rows, a.unscaled))
                    <= (IF a.layout.disk THEN Tol ELSE 0)
      BY <1>1, <1>4, <2>1, <2>2, RefreshedFacts
    <3>2. ASSUME q.ok, Current(m), m.obs = m.rows
          PROVE  Current(q.model)
      <4>1. m.summed = 1..m.rows
        BY <2>2, <3>2 DEF Current, DataFollowed
      <4>2. summed = m.summed \cup (m.rows + 1..m.rows + n)
        BY <1>5, <2>2 DEF SummedWith
      <4>3. q.model.summed = 1..q.model.rows
        <5>1. 1..m.rows \cup (m.rows + 1..m.rows + n) = 1..(m.rows + n)
          BY <1>3
        <5> QED
          BY <1>1, <3>1, <4>1, <4>2, <5>1 DEF SameRows, rows
      <4>4. /\ Agreed(q.model)
            /\ LogRatio(q.model.scale, MomentsScale(q.model))
                 <= (IF q.model.layout.disk THEN Tol ELSE 0)
        BY <1>1, <1>6, <3>1, <3>2 DEF Current, MomentsScale, SameRows
      <4> QED
        BY <4>3, <4>4 DEF Current, DataFollowed
    <3>3. Near(q.model)
      BY <3>1 DEF Near
    <3> QED
      BY <1>1, <1>7, <2>1, <3>1, <3>2, <3>3 DEF SameRows, rows
  <2>3. CASE ~m.layout.scaled
    <3>1. q = [model |-> a, ok |-> TRUE]
      BY <2>1, <2>3 DEF Ok
    <3>2. InMemory(a)
      <4> SUFFICES ASSUME ~m.layout.disk
                   PROVE  ~a.scaled /\ a.index.rows \in Nat /\ a.index.rows <= a.rows
                          /\ a.index.synced = a.index.rows
        BY <1>1 DEF InMemory
      <4>1. m.metric = NoMetric
        BY MomentsAreKept
      <4>2. ~m.scaled
        BY <2>3, <4>1 DEF IsModel
      <4>3. m.index.rows \in Nat /\ m.index.rows <= m.rows /\ m.index.synced = m.index.rows
        BY <4>2 DEF InMemory
      <4>4. m.index.rows <= rows
        BY <1>3, <4>3
      <4> QED
        BY <1>1, <4>2, <4>3, <4>4
    <3>3. DataFollowed(a)
      BY <1>1, <2>3 DEF DataFollowed
    <3>4. Near(m) => Near(a)
      BY <1>1 DEF Near
    <3>5. Current(m) => Current(a)
      BY <1>6, <3>3 DEF Current
    <3>6. q.model = a /\ q.ok = TRUE
      BY <3>1
    <3> QED
      BY <1>1, <1>4, <1>7, <2>1, <3>2, <3>4, <3>5, <3>6 DEF rows
  <2> QED
    BY <1>3, <2>2, <2>3
<1> QED
  BY <1>2, <1>8, <1>9 DEF rows

----------------------------------------------------------------------------
(* Every behaviour.                                                        *)

\* The rows are added in one order, whatever the calls.
LEMMA StaysCurrent ==
  ASSUME data' = data, Current(model')
  PROVE  Current(model)'
<1>1. \A S, n, u : DataScale(S, n, u)' = DataScale(S, n, u)
  BY DEF DataScale, Std
<1> QED
  BY <1>1 DEF Current, DataFollowed, Agreed, MomentsScale

\* A step that leaves a sound model, and a settled one settled, keeps ModelInv.
LEMMA MovesKeeps ==
  ASSUME ModelInv, data' = data, intact' => intact, ~direct' => ~direct,
         IsModel(model'), InMemory(model'),
         intact' /\ Settled(model) => Current(model') /\ model'.obs = model'.rows,
         intact' /\ ~direct' /\ Settled(model) /\ Near(model) => Near(model')
  PROVE  ModelInv'
<1>1. ASSUME intact'
      PROVE  /\ Current(model)' /\ model'.obs = model'.rows
             /\ ~direct' => Near(model')
  <2>1. Settled(model) /\ (~direct => Near(model))
    BY <1>1 DEF ModelInv, Settled
  <2> QED
    BY <1>1, <2>1, StaysCurrent
<1> QED
  BY <1>1 DEF ModelInv

\* A call that returns one of its results keeps ModelInv, if they are sound: the models are
\* models, and one that succeeds leaves a settled model settled.
LEMMA ReturnsKeeps ==
  ASSUME ModelInv, NEW results, Returns(results), data' = data, ~direct' => ~direct,
         \A r \in results :
           /\ IsModel(r.model) /\ InMemory(r.model) /\ r.ok \in BOOLEAN
           /\ r.ok /\ Settled(model) => Current(r.model) /\ r.model.obs = r.model.rows
           /\ r.ok /\ ~direct' /\ Settled(model) /\ Near(model) => Near(r.model)
  PROVE  ModelInv'
<1>1. PICK r \in results : model' = r.model /\ intact' = (intact /\ r.ok)
  BY DEF Returns
<1>2. intact' => intact /\ r.ok
  BY <1>1
<1> QED
  BY <1>1, <1>2, MovesKeeps

LEMMA InitHolds == Init => ModelInv
<1> SUFFICES ASSUME Init
             PROVE  ModelInv
  OBVIOUS
<1>1. PICK layout \in Layouts, n \in FirstRows, dims \in Unscaled :
        model \in Constructed(NewModel(layout, n), dims, n)
  BY DEF Init
<1>2. layout \in LegalLayouts /\ n \in Nat
  BY EnnModelAssumption
<1>3. Settled(model) /\ Near(model)
  BY <1>1, <1>2, ConstructedFacts
<1> QED
  BY <1>3 DEF ModelInv, Settled

LEMMA AddKeeps ==
  ASSUME ModelInv, NEW n \in Nat, Add(n)
  PROVE  ModelInv'
<1>1. Returns(Added(model, n)) /\ data' = data /\ direct' = direct
  BY DEF Add
<1>2. \A r \in Added(model, n) :
        /\ IsModel(r.model) /\ InMemory(r.model) /\ r.ok \in BOOLEAN
        /\ r.ok /\ Current(model) /\ model.obs = model.rows =>
              /\ Current(r.model) /\ r.model.obs = r.model.rows
              /\ Near(model) => Near(r.model)
  BY AddedFacts DEF ModelInv
<1> QED
  BY <1>1, <1>2, ReturnsKeeps DEF Settled

LEMMA SetUnscaledDimsKeeps ==
  ASSUME ModelInv, NEW dims, SetUnscaledDims(dims)
  PROVE  ModelInv'
<1>1. Returns(UnscaledSet(model, dims)) /\ data' = data /\ direct' = direct
  BY DEF SetUnscaledDims
<1>2. \A r \in UnscaledSet(model, dims) :
        /\ IsModel(r.model) /\ InMemory(r.model) /\ r.ok \in BOOLEAN
        /\ r.model.rows = model.rows /\ r.model.obs = model.obs
        /\ r.ok /\ Current(model) /\ model.obs = model.rows => Current(r.model)
        /\ Near(model) => Near(r.model)
  BY UnscaledSetFacts DEF ModelInv
<1> QED
  BY <1>1, <1>2, ReturnsKeeps DEF Settled

\* A model that learns a metric follows no moments, so whoever sets its scale may set any.
LEMMA ScaleIsFree ==
  ASSUME NEW m, IsModel(m), m.metric # NoMetric, Agreed(m)
  PROVE  Current(m)
BY MomentsAreKept DEF Current, DataFollowed

LEMMA SetMetricScaleKeeps ==
  ASSUME ModelInv, NEW scale \in Scales, NEW rebuild \in BOOLEAN,
         SetMetricScale(scale, rebuild)
  PROVE  ModelInv'
<1>1. /\ Returns(MetricScaleSet(model, scale, rebuild)) /\ data' = data /\ direct' = TRUE
      /\ model.metric # NoMetric
  BY DEF SetMetricScale
<1>2. \A r \in MetricScaleSet(model, scale, rebuild) :
        /\ IsModel(r.model) /\ InMemory(r.model) /\ SameRows(r.model, model)
        /\ r.model.metric = model.metric /\ r.ok \in BOOLEAN
        /\ r.ok => Agreed(r.model)
  BY <1>1, MetricScaleSetFacts DEF ModelInv
<1>3. \A r \in MetricScaleSet(model, scale, rebuild) :
        r.ok /\ Settled(model) => Current(r.model) /\ r.model.obs = r.model.rows
  BY <1>1, <1>2, ScaleIsFree DEF Settled, SameRows
<1> QED
  BY <1>1, <1>2, <1>3, ReturnsKeeps

LEMMA MetricSetWeightsKeeps ==
  ASSUME ModelInv, NEW scale \in Scales, NEW drift \in Drifts,
         MetricSetWeights(scale, drift)
  PROVE  ModelInv'
<1> DEFINE a == [model.metric EXCEPT !.drift = drift]
           w == Weighed(a, scale)
           k == [model EXCEPT !.metric = w]
           rebuild == Rebuilds(a, scale)
           results == MetricScaleSet(k, scale, rebuild)
<1>1. /\ Returns(results) /\ data' = data /\ direct' = direct
      /\ model.metric # NoMetric
  BY DEF MetricSetWeights
<1>2. IsModel(model) /\ InMemory(model) /\ IsMetric(model.metric)
  BY <1>1 DEF ModelInv, IsModel
<1>3. IsMetric(a) /\ a.built = model.metric.built /\ a.drift = drift
  BY <1>2 DEF IsMetric
<1> HIDE DEF a
<1>4. /\ IsMetric(w) /\ rebuild \in BOOLEAN
      /\ w.built = IF rebuild THEN scale ELSE model.metric.built
      /\ WeightDrift(scale, w.built) <= drift
  BY <1>3, WeighedFacts
<1>5. w # NoMetric
  BY <1>4 DEF IsMetric, NoMetric
<1> HIDE DEF w, rebuild
<1>6. /\ k.metric = w /\ k.index = model.index /\ k.scale = model.scale
      /\ k.built = model.built /\ k.scaled = model.scaled /\ k.fixed = model.fixed
      /\ SameRows(k, model) /\ DOMAIN k = DOMAIN model
  BY <1>2 DEF IsModel, SameRows
<1> HIDE DEF k
<1>7. IsModel(k)
  BY <1>1, <1>2, <1>4, <1>5, <1>6 DEF IsModel, SameRows
<1> SUFFICES ASSUME NEW r \in results
             PROVE  /\ IsModel(r.model) /\ InMemory(r.model) /\ r.ok \in BOOLEAN
                    /\ r.ok /\ Settled(model) =>
                         Current(r.model) /\ r.model.obs = r.model.rows
                    /\ r.ok /\ Near(model) => Near(r.model)
  <2> HIDE DEF results
  <2> QED
    BY <1>1, ReturnsKeeps
<1>8. /\ IsModel(r.model) /\ InMemory(r.model) /\ SameRows(r.model, k)
      /\ r.model.metric = w /\ r.ok \in BOOLEAN
      /\ r.ok => /\ Agreed(r.model) /\ r.model.index.scale = scale
                 /\ r.model.index.partition = IF rebuild THEN scale ELSE k.index.partition
  BY <1>4, <1>5, <1>6, <1>7, MetricScaleSetFacts
<1>9. r.ok => Current(r.model)
  BY <1>5, <1>8, ScaleIsFree
<1>10. ASSUME r.ok, Near(model)
       PROVE  Near(r.model)
  <2>1. model.index.partition = model.metric.built
    BY <1>1, <1>10 DEF Near
  <2>2. r.model.index.partition = w.built /\ r.model.index.scale = scale
    BY <1>4, <1>6, <1>8, <1>10, <2>1
  <2> QED
    BY <1>4, <1>8, <2>2 DEF Near
<1> QED
  BY <1>6, <1>8, <1>9, <1>10 DEF Settled, SameRows

LEMMA MetricConfigureKeeps ==
  ASSUME ModelInv, NEW growth, NEW drift \in Drifts, NEW seed, NEW capacity,
         MetricConfigure(growth, drift, seed, capacity)
  PROVE  ModelInv'
<1> DEFINE c == MetricConfigured(model.metric, growth, drift, seed, capacity)
           k == [model EXCEPT !.metric = c]
<1>1. /\ model' = k /\ data' = data /\ direct' = direct /\ intact' = intact
      /\ model.metric # NoMetric
  BY DEF MetricConfigure
<1>2. IsModel(model) /\ InMemory(model) /\ IsMetric(model.metric)
  BY <1>1 DEF ModelInv, IsModel
<1>3. IsMetric(c) /\ c.built = model.metric.built
  BY <1>2 DEF IsMetric, MetricConfigured
<1>4. c # NoMetric
  BY <1>3 DEF IsMetric, NoMetric
<1> HIDE DEF c
<1>5. /\ k.metric = c /\ k.index = model.index /\ k.scale = model.scale
      /\ k.built = model.built /\ k.scaled = model.scaled /\ k.fixed = model.fixed
      /\ SameRows(k, model) /\ DOMAIN k = DOMAIN model
  BY <1>2 DEF IsModel, SameRows
<1> HIDE DEF k
<1>6. IsModel(k) /\ InMemory(k)
  BY <1>1, <1>2, <1>3, <1>4, <1>5 DEF IsModel, InMemory, SameRows
<1>7. (Agreed(model) => Agreed(k)) /\ (Near(model) => Near(k))
  BY <1>1, <1>3, <1>4, <1>5 DEF Agreed, Near, SameRows
<1>8. Agreed(model) => Current(k)
  BY <1>4, <1>5, <1>6, <1>7, ScaleIsFree
<1> QED
  BY <1>1, <1>5, <1>6, <1>7, <1>8, MovesKeeps DEF Settled, SameRows, Current

LEMMA SyncKeeps ==
  ASSUME ModelInv, Search \/ EnsureSync
  PROVE  ModelInv'
<1>1. /\ model' = model \/ model' = Synced(model)
      /\ data' = data /\ direct' = direct /\ intact' = intact
  BY DEF Search, EnsureSync, Searched
<1>2. /\ IsModel(Synced(model)) /\ InMemory(Synced(model)) /\ SameRows(Synced(model), model)
      /\ Current(model) => Current(Synced(model))
      /\ Current(model) /\ Near(model) => Near(Synced(model))
  BY SyncedFacts DEF ModelInv
<1>3. IsModel(model) /\ InMemory(model)
  BY DEF ModelInv
<1> QED
  BY <1>1, <1>2, <1>3, MovesKeeps DEF Settled, SameRows

LEMMA ReopenKeeps ==
  ASSUME ModelInv, NEW dims, Reopen(dims)
  PROVE  ModelInv'
<1>1. model' \in Constructed(NewModel(model.layout, model.counted), dims, 0) /\ data' = data
  BY DEF Reopen
<1>2. model.layout \in LegalLayouts /\ model.counted \in Nat
  BY DEF ModelInv, IsModel
<1>3. Settled(model') /\ Near(model')
  BY <1>1, <1>2, ConstructedFacts
<1>4. Current(model)'
  BY <1>1, <1>3, StaysCurrent DEF Settled
<1> QED
  BY <1>3, <1>4 DEF ModelInv, Settled

LEMMA StepKeeps == ModelInv /\ [Next]_modelVars => ModelInv'
<1> SUFFICES ASSUME ModelInv, [Next]_modelVars
             PROVE  ModelInv'
  OBVIOUS
<1>1. CASE \E n \in Batches : Add(n)
  BY <1>1, AddKeeps, EnnModelAssumption
<1>2. CASE Search \/ EnsureSync
  BY <1>2, SyncKeeps
<1>3. CASE \E dims \in Unscaled : SetUnscaledDims(dims) \/ Reopen(dims)
  BY <1>3, SetUnscaledDimsKeeps, ReopenKeeps
<1>4. CASE \E scale \in CallerScales, rebuild \in BOOLEAN : SetMetricScale(scale, rebuild)
  BY <1>4, SetMetricScaleKeeps, EnnModelAssumption
<1>5. CASE \E scale \in CallerScales, drift \in Drifts : MetricSetWeights(scale, drift)
  BY <1>5, MetricSetWeightsKeeps, EnnModelAssumption
<1>6. CASE \E growth \in Growths, drift \in Drifts, seed \in Seeds, capacity \in Capacities :
             MetricConfigure(growth, drift, seed, capacity)
  BY <1>6, MetricConfigureKeeps
<1>7. CASE UNCHANGED modelVars
  <2>1. data' = data /\ model' = model /\ intact' = intact /\ direct' = direct
    BY <1>7 DEF modelVars
  <2>2. IsModel(model) /\ InMemory(model)
    BY DEF ModelInv
  <2> QED
    BY <2>1, <2>2, MovesKeeps DEF Settled
<1> QED
  BY <1>1, <1>2, <1>3, <1>4, <1>5, <1>6, <1>7 DEF Next

\* What the invariant says of the scale in force, and of the index a search uses.
LEMMA InvFollowsData == ModelInv => ScaleFollowsData
<1> SUFFICES ASSUME ModelInv
             PROVE  ScaleFollowsData
  OBVIOUS
<1>1. ASSUME intact, model.layout.scaled
      PROVE  /\ LogRatio(model.scale, DataScale(1..model.obs, model.obs, model.unscaled))
                  <= (IF model.layout.disk THEN Tol ELSE 0)
             /\ model.layout.disk => model.index.scaled /\ model.index.scale = model.scale
  <2>1. Current(model) /\ model.obs = model.rows /\ IsModel(model)
    BY <1>1 DEF ModelInv
  <2>2. /\ model.summed = 1..model.rows
        /\ LogRatio(model.scale, DataScale(model.summed, model.rows, model.unscaled))
             <= (IF model.layout.disk THEN Tol ELSE 0)
    BY <1>1, <2>1 DEF Current, DataFollowed, MomentsScale
  <2>3. model.scaled
    BY <1>1, <2>1, MomentsAreKept
  <2> QED
    BY <2>1, <2>2, <2>3 DEF Current, Agreed
<1>2. ASSUME ~model.layout.disk
      PROVE  LET i == Searched(model).index
             IN i.rows = model.rows /\ (model.scaled => i.scale = model.scale)
  <2>1. IsModel(model) /\ InMemory(model)
    BY DEF ModelInv
  <2>2. Searched(model).index = MemorySynced(model)
    BY <1>2, <2>1 DEF Searched, Synced, IsModel
  <2> QED
    BY <1>2, <2>1, <2>2, MemorySyncedFacts
<1> QED
  BY <1>1, <1>2 DEF ScaleFollowsData

LEMMA InvPartitionNear == ModelInv => PartitionNear
BY DEF ModelInv, PartitionNear, Current, Agreed, Near

\* EpistemicNearestNeighbors: whatever is added, set, learned, searched or reopened, in
\* whatever order and whichever call fails, the copies of the scale are in step.
THEOREM ModelInStep == Spec => []ModelInv
<1> QED
  BY InitHolds, StepKeeps, PTL DEF Spec

\* Until a call fails the scale in force is that of all rows up to the tolerance, the
\* partition of a disk index is near it, and each policy knows the scale it was made under.
THEOREM ScalesStayInStep == Spec => []ScalesInStep
<1>1. ModelInv => ScalesInStep
  BY InvFollowsData, InvPartitionNear DEF ScalesInStep
<1> QED
  BY <1>1, ModelInStep, PTL
=============================================================================
