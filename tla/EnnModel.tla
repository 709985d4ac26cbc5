------------------------------ MODULE EnnModel ------------------------------
(***************************************************************************)
(* The model facade: EpistemicNearestNeighbors (ennbo/src/model.rs,        *)
(* model/metric.rs, model/auto_api.rs, model/access.rs) over an in-memory  *)
(* backend (backend/in_memory.rs, index.rs) or a disk backend              *)
(* (disk_bpann/enn_backend.rs, of which BpannStore and Tree model what is  *)
(* below this interface).                                                  *)
(*                                                                         *)
(* What makes it hard is that the scale distances use is kept four times:  *)
(* by the model (x_scale, built_x_scale), by the AUTO metric (weights,     *)
(* built), by the index (its own x_scale, and the scale its partition was  *)
(* made under) and by the data (the moments of the rows), and that a call  *)
(* moves them one after the other and may fail in between (Faults):        *)
(*   append   train_x grew, train_y did not                                *)
(*   flush    a flush failed before, the metric is not touched             *)
(*   marker   the index is rescaled, the marker file cannot be written     *)
(*                                                                         *)
(* A scale is a vector of logarithms in units of half of ln 2 (AutoMetric).*)
(* A model is a record, so that several owners of one can be described;    *)
(* yvar is left out (see BpannStore for rows and their columns), and so    *)
(* are the y statistics, which follow the rows as the moments of x do.     *)
(***************************************************************************)
EXTENDS AutoMetric

CONSTANTS
  Datasets,    \* the points an instance may add: sequences of points
  Layouts,     \* the layouts an instance uses
  FirstRows,   \* how many rows a model is made with
  Batches,     \* rows of an add
  Unscaled,    \* the sets of dimensions a caller leaves unscaled
  CallerScales,\* the scales a caller sets
  Faults

\* EnnLayout: what try_from_parts makes of storage, scale_x and metric learning.
LegalLayouts ==
  {l \in [disk : BOOLEAN, scaled : BOOLEAN, auto : BOOLEAN] :
     l.auto => l.disk /\ ~l.scaled}

ASSUME EnnModelAssumption ==
  /\ Datasets \subseteq Seq(Scales) /\ Layouts \subseteq LegalLayouts
  /\ FirstRows \subseteq Nat /\ Batches \subseteq Nat \ {0}
  /\ Unscaled \subseteq SUBSET Dims /\ CallerScales \subseteq Scales
  /\ Faults \subseteq {"append", "flush", "marker", "fit", "release", "remove"}

VARIABLES
  data,    \* the points that are added, in this order
  model,   \* the model
  intact,  \* history: no call has failed since the model was made
  direct   \* history: the caller has set a metric scale past the AUTO metric

modelVars == <<data, model, intact, direct>>

---------------------------------------------------------------------------
(* Scales.                                                                 *)

\* The logarithm of a variance, in half units of that of a standard deviation.
Log(num, den) ==
  IF num = 0 THEN 0 ELSE Max({e \in -8..12 : IF e >= 0 THEN 2^e * den <= num
                                                       ELSE den <= 2^(-e) * num} \cup {-8})

\* scale_from_moments of n rows, of which S were summed.
Std(S, n, j) ==
  LET sum   == SumFunction([i \in S |-> data[i][j]])
      sumsq == SumFunction([i \in S |-> data[i][j] * data[i][j]])
  IN IF n < 2 THEN 0 ELSE Log(Larger(n * sumsq - sum * sum, 0), n * n)

\* data_x_scale
DataScale(S, n, unscaled) == [j \in Dims |-> IF j \in unscaled THEN 0 ELSE Std(S, n, j)]

---------------------------------------------------------------------------
(* Backends.  The in-memory index knows its rows, the scale it divided     *)
(* them by and whether it is stale; a disk index the scale in force and    *)
(* the one its partition was made under.                                   *)

Index(n, scaled, scale) ==
  [rows |-> n, scaled |-> scaled, scale |-> scale, partition |-> scale,
   stale |-> FALSE, synced |-> n]

InForce(scaled, scale) == IF scaled THEN scale ELSE Unit

\* InMemoryEnnBackend::ensure_index_sync.
MemorySynced(m) ==
  LET i      == m.index
      synced == IF i.synced > i.rows THEN i.rows ELSE i.synced
      suffix == synced = i.rows /\ i.rows < m.rows
      whole  == Index(m.rows, i.scaled, m.scale)
  IN IF m.scaled THEN IF i.stale THEN whole ELSE i
     ELSE IF m.rows > 0 /\ ~suffix /\ (i.rows # m.rows \/ (synced = 0 /\ i.rows > 0))
       THEN [i EXCEPT !.rows = m.rows, !.scale = m.scale, !.synced = m.rows]
     ELSE IF synced >= m.rows /\ i.rows >= m.rows THEN [i EXCEPT !.synced = synced]
     ELSE [i EXCEPT !.rows = @ + (m.rows - synced), !.synced = m.rows]

\* ensure_index_sync_with_scale: an index in another scale is built anew.
DiskSynced(m) ==
  LET i == m.index
  IN IF <<i.scaled, i.scale>> # <<m.scaled, m.scale>>
     THEN [Index(m.rows, m.scaled, m.scale) EXCEPT
             !.partition = InForce(m.scaled, m.scale)]
     ELSE [i EXCEPT !.rows = m.rows]

Synced(m) ==
  [m EXCEPT !.index = IF m.layout.disk THEN DiskSynced(m) ELSE MemorySynced(m)]

\* neighbors syncs an in-memory index before it searches; a disk index is searched as
\* it is.
Searched(m) == IF m.layout.disk THEN m ELSE Synced(m)

\* set_metric_scale of a disk backend: what it may leave, and whether it succeeded.  A
\* rebuild starts after the marker is written.
BackendScaled(i, scale, rebuild) ==
  LET moved == [i EXCEPT !.scaled = TRUE, !.scale = scale]
  IN {[index |-> IF rebuild THEN [moved EXCEPT !.partition = scale] ELSE moved,
       ok |-> TRUE]}
     \cup (IF "flush"  \in Faults THEN {[index |-> i, ok |-> FALSE]} ELSE {})
     \cup (IF "marker" \in Faults THEN {[index |-> moved, ok |-> FALSE]} ELSE {})

---------------------------------------------------------------------------
(* The calls that move the scale.  A result is the model and whether the   *)
(* call succeeded.                                                         *)

Ok(m)     == [model |-> m, ok |-> TRUE]
Failed(m) == [model |-> m, ok |-> FALSE]

\* Mutant: the tolerance is measured from the scale of the partition.
RescaledFromBuilt(m, scale) ==
  LET rebuild == LogRatio(scale, m.built) > Drift
  IN IF LogRatio(scale, m.built) <= Tol THEN {Ok(m)}
     ELSE {IF b.ok
           THEN Ok([m EXCEPT !.index = b.index, !.scale = scale,
                             !.built = IF rebuild THEN scale ELSE @])
           ELSE Failed([m EXCEPT !.index = b.index])
           : b \in BackendScaled(m.index, scale, rebuild)}

\* apply_incremental_x_scale
Rescaled(m, scale) ==
  LET rebuild == LogRatio(scale, m.built) > Drift
  IN IF LogRatio(scale, m.scale) <= Tol THEN {Ok(m)}
     ELSE {IF b.ok
           THEN Ok([m EXCEPT !.index = b.index, !.scale = scale,
                             !.built = IF rebuild THEN scale ELSE @])
           ELSE Failed([m EXCEPT !.index = b.index])
           : b \in BackendScaled(m.index, scale, rebuild)}

\* refresh_data_x_scale
Refreshed(m, n) ==
  LET scale == DataScale(m.summed, n, m.unscaled)
  IN IF m.layout.disk THEN Rescaled(m, scale)
     ELSE {Ok([m EXCEPT !.scale = scale, !.index.stale = TRUE])}

\* set_unscaled_dims
UnscaledSet(m, dims) ==
  LET u == [m EXCEPT !.unscaled = dims]
  IN IF ~m.scaled \/ m.fixed THEN {Ok(u)} ELSE Refreshed(u, m.obs)

\* set_metric_scale of the model: the backend first.
MetricScaleSet(m, scale, rebuild) ==
  {IF b.ok
   THEN Ok([m EXCEPT !.index = b.index, !.scaled = TRUE, !.fixed = TRUE, !.scale = scale])
   ELSE Failed([m EXCEPT !.index = b.index])
   : b \in BackendScaled(m.index, scale, rebuild)}

\* observe_auto_metric: the metric has its new weights before the model is asked.
AutoObserved(m, n) ==
  IF m.metric = NoMetric THEN {Ok(m)}
  ELSE UNION {LET k == [m EXCEPT !.metric = o.metric]
              IN IF o.update THEN MetricScaleSet(k, o.metric.weights, o.rebuild)
                 ELSE {Ok(k)}
              : o \in Observations(m.metric, n)}

\* enable_auto_metric of a DiskAuto model, told the n rows the caller passes.
AutoEnabled(m, dims, n) ==
  UNION {IF u.ok THEN AutoObserved([u.model EXCEPT !.metric = NewMetric], n) ELSE {u}
         : u \in UnscaledSet(m, dims)}

---------------------------------------------------------------------------
(* Construction and add.                                                   *)

\* new_with_storage of n rows, init_stats included.
NewModel(layout, n) ==
  LET summed == IF layout.scaled THEN 1..n ELSE {}
      scale  == IF layout.scaled THEN DataScale(summed, n, {}) ELSE Unit
  IN [layout |-> layout, rows |-> n, counted |-> n, obs |-> n, summed |-> summed,
      scaled |-> layout.scaled, scale |-> scale, built |-> scale, fixed |-> FALSE,
      unscaled |-> {}, index |-> Index(n, layout.scaled, scale), metric |-> NoMetric]

\* append_rows of a backend.  A disk backend inserts the rows into its index.
RowsAppended(m, n) ==
  [m EXCEPT !.rows = @ + n, !.counted = m.rows + n,
            !.index.rows = IF m.layout.disk THEN m.rows + n ELSE @]

\* The moments of x are kept while the scale is theirs.
SummedWith(m, n) ==
  IF m.scaled /\ ~m.fixed THEN m.summed \cup (m.rows + 1..m.rows + n) ELSE m.summed

\* add, as far as num_obs; the AUTO metric comes last.
Added(m, n) ==
  LET a == [RowsAppended(m, n) EXCEPT !.summed = SummedWith(m, n)]
      counted(r) == IF r.ok THEN AutoObserved([r.model EXCEPT !.obs = a.rows], n) ELSE {r}
      scaled == IF m.scaled /\ ~m.fixed THEN Refreshed(a, a.rows) ELSE {Ok(a)}
  IN (UNION {counted(r) : r \in scaled})
     \cup (IF "append" \in Faults /\ m.layout.disk
           THEN {Failed([m EXCEPT !.rows = @ + n])} ELSE {})

\* What a constructor does (py_model.rs, start_model): new_with_storage and, for AUTO,
\* enable_auto_metric told the n rows the caller passes; a model is only there if both
\* succeed.
Constructed(m, dims, n) ==
  {r.model : r \in {q \in IF m.layout.auto THEN AutoEnabled(m, dims, n)
                          ELSE IF dims = {} THEN {Ok(m)} ELSE UnscaledSet(m, dims) : q.ok}}

---------------------------------------------------------------------------
(* The model as a caller drives it.                                        *)

\* A call moved the model, and failed or not; the bound is one failure of a model.
Returns(results) ==
  \E r \in results :
    /\ r.ok \/ intact
    /\ model' = r.model
    /\ intact' = (intact /\ r.ok)

Init ==
  /\ data \in Datasets
  /\ \E layout \in Layouts, n \in FirstRows, dims \in Unscaled :
       /\ n <= Len(data)
       /\ model \in Constructed(NewModel(layout, n), dims, n)
  /\ intact = TRUE
  /\ direct = FALSE

Add(n) ==
  /\ model.rows + n <= Len(data)
  /\ Returns(Added(model, n))
  /\ UNCHANGED <<data, direct>>

\* neighbors, and every other call that syncs first.
Search ==
  /\ model' = Searched(model)
  /\ UNCHANGED <<data, intact, direct>>

EnsureSync ==
  /\ model' = Synced(model)
  /\ UNCHANGED <<data, intact, direct>>

SetUnscaledDims(dims) ==
  /\ Returns(UnscaledSet(model, dims))
  /\ UNCHANGED <<data, direct>>

SetMetricScale(scale, rebuild) ==
  /\ model.metric # NoMetric
  /\ Returns(MetricScaleSet(model, scale, rebuild))
  /\ direct' = TRUE
  /\ UNCHANGED data

MetricConfigure(growth, drift, seed, capacity) ==
  /\ model.metric # NoMetric
  /\ MetricConfigurable(model.metric, growth, drift, seed, capacity)
  /\ model' = [model EXCEPT !.metric = MetricConfigured(@, growth, drift, seed, capacity)]
  /\ UNCHANGED <<data, intact, direct>>

\* The metric has the drift and the weights before the backend is asked.
MetricSetWeights(scale, drift) ==
  /\ model.metric # NoMetric
  /\ LET a == [model.metric EXCEPT !.drift = drift]
     IN Returns(MetricScaleSet([model EXCEPT !.metric = Weighed(a, scale)], scale,
                               Rebuilds(a, scale)))
  /\ UNCHANGED <<data, direct>>

\* The model is dropped and its store opened again, without rows to add: the rows are
\* those the store's counter knows, and the metric starts from nothing.
Reopen(dims) ==
  /\ model.layout.disk
  /\ model' \in Constructed(NewModel(model.layout, model.counted), dims, 0)
  /\ intact' = TRUE
  /\ direct' = FALSE
  /\ UNCHANGED data

Next ==
  \/ \E n \in Batches : Add(n)
  \/ Search
  \/ EnsureSync
  \/ \E dims \in Unscaled : SetUnscaledDims(dims) \/ Reopen(dims)
  \/ \E scale \in CallerScales, rebuild \in BOOLEAN : SetMetricScale(scale, rebuild)
  \/ \E scale \in CallerScales, drift \in Drifts : MetricSetWeights(scale, drift)
  \/ \E growth \in Growths, drift \in Drifts, seed \in Seeds, capacity \in Capacities :
       MetricConfigure(growth, drift, seed, capacity)

Spec == Init /\ [][Next]_modelVars

---------------------------------------------------------------------------
(* Properties.                                                             *)

\* scale_x (model/metric.rs, refresh_data_x_scale): the scale in force is the one of all
\* rows, up to the tolerance within which a disk index is left alone, and it is the one
\* distances use.  The in-memory index neighbors (model.rs) searches holds every row,
\* divided by the scale the model reports, whatever adds and scale changes came before.
ScaleFollowsData ==
  /\ intact /\ model.layout.scaled =>
       /\ LogRatio(model.scale, DataScale(1..model.obs, model.obs, model.unscaled))
            <= (IF model.layout.disk THEN Tol ELSE 0)
       /\ model.layout.disk => model.index.scaled /\ model.index.scale = model.scale
  /\ ~model.layout.disk =>
       LET i == Searched(model).index
       IN i.rows = model.rows /\ (model.scaled => i.scale = model.scale)

\* Rescale or rebuild (model/metric.rs, metric_auto.rs): as long as no call failed and the
\* caller did not go past the metric, the scale each policy takes the partition to be
\* made under is that scale, and the scale in force has not drifted further from it than
\* the limit, although neither policy sees the partition.
PartitionNear ==
  intact /\ ~direct /\ model.layout.disk =>
    LET i == model.index
    IN IF model.metric = NoMetric
       THEN i.partition = model.built /\ LogRatio(i.scale, i.partition) <= Drift
       ELSE /\ i.partition = model.metric.built
            /\ \E drift \in Drifts : WeightDrift(i.scale, i.partition) <= drift

\* model/metric.rs: the scale in force follows the rows, and the partition of the index the
\* scale in force, whichever of the model, its backend and its index keeps what copy.
ScalesInStep == ScaleFollowsData /\ PartitionNear
==============================================================================
