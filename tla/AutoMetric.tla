----------------------------- MODULE AutoMetric -----------------------------
(***************************************************************************)
(* The AUTO metric policy (ennbo/src/metric_auto.rs): the reservoir it     *)
(* learns from, when it refits, and whether new weights rescale the index  *)
(* or rebuild it.                                                          *)
(*                                                                         *)
(* A weight vector is given by the scale it stands for, 1 / sqrt(weight),  *)
(* as a vector of logarithms in units of half of ln 2.  What the learned   *)
(* weights and their held-out gain are is data: any vector of Learned and  *)
(* any gain.  Rows are indistinguishable here: which of them the reservoir *)
(* holds decides nothing but the learned weights.                          *)
(***************************************************************************)
EXTENDS Reservoir, FiniteSetsExt

CONSTANTS
  Dims,          \* the input dimensions: 1..d
  Learned,       \* the scales dependence_weights may return
  AutoCapacity,  \* AUTO_RESERVOIR_CAPACITY
  MinRows,       \* MIN_DEPENDENCE_ROWS
  Growths,       \* refit growths a caller sets, in percent
  Growth,        \* AUTO_REFIT_GROWTH, in percent
  Drifts,        \* rebuild drifts a caller sets
  Drift,         \* DEFAULT_REBUILD_DRIFT, SCALE_X_REBUILD_DRIFT
  Tol,           \* AUTO_RESCALE_TOL, SCALE_X_RESCALE_TOL
  Floor          \* DRIFT_WEIGHT_FLOOR

Scales == [Dims -> Int]
Unit == [j \in Dims |-> 0]

ASSUME AutoMetricAssumption ==
  /\ IsFiniteSet(Dims) /\ Dims = 1..Cardinality(Dims) /\ Dims # {}
  /\ Learned \subseteq Scales
  /\ AutoCapacity \in Nat \ {0} /\ MinRows \in Nat \ {0}
  /\ Growth \in Growths /\ Growths \subseteq Nat
  /\ Drift \in Drifts /\ Drifts \subseteq Nat
  /\ Tol \in Nat /\ Floor \in Nat

Apart(a, b) == IF a >= b THEN a - b ELSE b - a

\* max_log_ratio, and `change` in refit: the largest difference of two scales.
LogRatio(s, t) == Max({Apart(s[j], t[j]) : j \in Dims})

\* floored_log: no weight counts as smaller than the floor below the largest.
Floored(s) ==
  LET top == Min({s[j] : j \in Dims}) + Floor
  IN [j \in Dims |-> IF s[j] > top THEN top ELSE s[j]]

WeightDrift(s, built) == LogRatio(Floored(s), Floored(built))

\* A model that learns no metric.
NoMetric == [none |-> TRUE]

\* AutoMetric::new
NewMetric ==
  [rows |-> Reservoir(AutoCapacity, 0), weights |-> Unit, built |-> Unit,
   drift |-> Drift, growth |-> Growth, nextRefit |-> MinRows]

\* configure: nothing changes unless everything asked for is legal.
MetricConfigurable(a, growth, drift, seed, capacity) ==
  /\ growth > 100
  /\ <<seed, capacity>> # <<a.rows.seed, a.rows.capacity>> =>
       Configurable(a.rows, seed, capacity)

MetricConfigured(a, growth, drift, seed, capacity) ==
  [a EXCEPT !.growth = growth, !.drift = drift,
            !.rows = Configured(a.rows, seed, capacity)]

\* set_weights: the weights are the caller's from here on, a rebuild also makes them
\* those the index is built under.
Rebuilds(a, weights) == WeightDrift(weights, a.built) > a.drift

Weighed(a, weights) ==
  [a EXCEPT !.weights = weights, !.built = IF Rebuilds(a, weights) THEN weights ELSE @]

Ceil(n, d) == (n + d - 1) \div d
Larger(a, b) == IF a >= b THEN a ELSE b

NextRefit(a) == Larger(Ceil(a.growth * a.rows.seen, 100), MinRows)

\* auto_weights: too few rows to tell anything, or some learned scale with a gain that
\* is worth using or not.
AutoWeights(a) ==
  IF Len(a.rows.slots) < MinRows THEN {[scale |-> Unit, gains |-> FALSE]}
  ELSE [scale : Learned, gains : BOOLEAN]

\* refit up to the decision; Target is what it then wants applied.
Refitted(a) == [a EXCEPT !.nextRefit = NextRefit(a)]

Target(w) == IF w.gains THEN w.scale ELSE Unit

\* observe pushes the rows of a batch, and refits if the schedule says so.
RowsPushed(rows, n) ==
  FoldLeft(LAMBDA r, i : Pushed(r, "row", Len(r.slots)), rows, [i \in 1..n |-> i])

Observed(a, n) == [a EXCEPT !.rows = RowsPushed(@, n)]

RefitIsDue(a) == a.rows.seen >= a.nextRefit

\* What observe may leave behind, and the scale it asks the model to apply, if any:
\* one other than the weights in force by more than the tolerance.
Observations(a, n) ==
  LET o == Observed(a, n)
  IN IF ~RefitIsDue(o) THEN {[metric |-> o, update |-> FALSE, rebuild |-> FALSE]}
     ELSE {LET r == Refitted(o)
           IN IF LogRatio(Target(w), o.weights) > Tol
              THEN [metric |-> Weighed(r, Target(w)), update |-> TRUE,
                    rebuild |-> Rebuilds(o, Target(w))]
              ELSE [metric |-> r, update |-> FALSE, rebuild |-> FALSE]
           : w \in AutoWeights(o)}
==============================================================================
