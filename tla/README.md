# TLA+ models of enn

`enn` is a Bayesian-optimisation library in Rust: `ennbo` (models, trust regions, optimizer), `bpann` (an append-only
nearest-neighbour index that lives in files), `enn-py` (bindings), a Python package over them, and tools around it. Much of the code
is numeric and sequential, and is tested against reference values. What tests reach badly is what is modelled here: a flush
thread that shares the index with its callers; files that must still make sense after the process died between two writes; trees whose
pages split, move and are measured again; accounts that are kept several times and moved one after the other by calls that may fail
in between; and answers that different paths of the code must give alike.

Paths below are relative to `src/rust/crates/` unless they start with `src/` or `tests/`.

## 1. Inventory

| Component | State it keeps | Operations | Modules |
|---|---|---|---|
| **Flush controller** `ennbo/src/backend/` | `job` slot, `last_error`, the `RwLock` around the index | schedule, wait, hard flush, worker, persist, `Drop` | FlushController, IndexService |
| **BPANN store files** `bpann/src/backend.rs`, `observation.rs`, `metric.rs` | columns x and y, counter, `metadata.json`, `indexed_rows.bin`, marker, header, pages | open, append, sync, persist, metric change | BpannStore |
| **Rows, variances, bounds of a disk model** `ennbo/src/model/y_bounds_api.rs`, `bpann/src/observation.rs` | columns, counter, variances, bounds | new, open, add, persist, remove, a model in memory beside it | Observations |
| **BPANN tree** `bpann/src/index/tree*.rs`, `split.rs`, `sync.rs` | pages, parents, counts, centroids, radii, the sweep | insert, split, bulk build, re-partition, reset, persist, open | Tree |
| **BPANN search** `tree_search.rs`, `small_n_search.rs`, `large_n_search.rs`, `merge.rs` | none | search | TreeSearch |
| **Former index** `bpann/src/index/build.rs`, `kmeans.rs`, `search.rs`, `page.rs` (tests and benches) | pages, skip edges | build, write, read, search | PageIndex |
| **Page residency** `tree_residency.rs`, `tree_store.rs`, `mmap_store.rs` | mapping, bitmap and count of resident windows | read, write, grow, spill, release, copy | PageResidency |
| **Model** `ennbo/src/model.rs`, `model/`, `index.rs`, `backend/in_memory.rs` | rows, scale (four copies), stale flag | add, ask, refit, set_metric_scale, reopen | EnnModel, AutoMetric, Learning |
| **Row reservoir, sampler** `ennbo/src/reservoir.rs` | sample, draws | push, configure, take | Reservoir, Sampler |
| **Fitter, incremental fit, surrogate** | tokens, rows told, scales, calibrator | add, ask, fit, fit_append, clear | Fitter, ScaleFit, IncrementalFit, Surrogate |
| **Optimizer, strategy, tracker, trust region** `ennbo/src/optimizer/`, `strategy/`, `trust_region.rs` | rows, incumbent, sample counters, box, watermark | ask, tell, restart | Optimizer, TrustRegion, TurboSearch |
| **Multi-objective region** `morbo_trust_region.rs` | weights, ranges, incumbent, inner box | tell, ask, restart | Morbo |
| **Posterior, draws, acquisition, candidates, calibration** | none | every query | Posterior, Draws, Acquisition, Candidates, Calibration, Answers |
| **Flush thresholds** `file_config.rs`, `bpann/src/tuning.rs`, `enn_backend.rs` | file, path, snapshot, caps of a backend | install, open, edit, write defaults | Tuning |
| **Configuration** `enn-py/src/py_optimizer.rs`, `ennbo/src/config.rs`, `src/enn/turbo/config` | form, dictionary, configuration | build, then ask and tell | Configuration |
| **Operations, evaluations, reports** | scripts around the library | | not modelled |

Calls go down from the optimizer to the surrogate, the model, the backend, the store and the tree. Two parts have threads: the flush
controller (a worker beside every caller, since it owns an `Arc` of the lock) and the shared bookkeeping of page residency and
thresholds (several readers). Elsewhere calls take `&mut self` and one call is one action, unless a process may die
or a write may fail within it; then each change of a file is an action.

### What is hard, and what is correct there

* **Flush controller**: Rust's borrow rules say nothing about the worker. What is published is never overtaken by an append or a
  metric change; each thread has one holder; an error reaches a caller; no thread outlives the backend; nobody blocks for ever.
* **Files**: several files are one logical state, each replaced by truncate-then-write or through a mapping. An acknowledged row is
  found again, with its own y, its variance and in the unit it was told in; an index is believed only if it matches rows and metric;
  a persist that returned leaves nothing to repair.
* **Tree**: each insert may split up to the root while a re-partition is half done. Every row is in one leaf, counts and
  parents agree, balls cover what is below them, so that a search may skip what it skips.
* **Residency**: readers mark, count and wipe without a lock. Nothing is given back before a file holds it; the budget is kept.
* **Scales, fits**: copies of one fact, moved one after another by calls that fail halfway.
* **Optimizer and regions**: tracker, model, incumbent, watermark, ranges and sample counters are updated one by one; a restart must
  reset all of them. Every batch is judged once, against the best before it.
* **Answers**: fused, weighted, batched, conditional and calibrated paths, in memory and on disk, must answer alike.
* **Configuration**: a setting passes a form, a dictionary, overrides and defaults; what is built must serve every call.

`PROJECT.json` lists each hazard at its line (40), with the properties that cover it or why none does.

## 2. Modules

Specifications with a behaviour of their own: `FlushController`, `BpannStore`, `PageResidency`, `Tree`, `EnnModel`,
`IncrementalFit`, `Surrogate`, `Sampler`, `Observations`, `Tuning`, `Configuration`, `Optimizer`, `Morbo`, `Answers`. Abstract
specifications: `IndexService` (implemented by `FlushController`) and `TurboSearch` (implemented by `Optimizer`). Operators only:
`TrustRegion`, `Reservoir`, `AutoMetric`, `Learning`, `Fitter`, `TreeSearch`, `Posterior`, `Draws`, `ScaleFit`, `Acquisition`,
`Candidates`, `Calibration`, `PageIndex`. Proofs: `FlushController`, `BpannStore`, `PageResidency`, `Observations`, `Optimizer`, `Morbo`
and `EnnModel` have a module `...Proofs` each; `FittingProofs` has those of `IncrementalFit`, `Surrogate`, `Configuration` and `Tuning`. Modules `MC...` give TLC its instances.

How they use each other: `EnnModel` extends `AutoMetric`, which extends `Reservoir`; `IncrementalFit` and `Surrogate` extend
`EnnModel` and `Fitter`; `Fitting` puts the drivers of a caller beside one another, `Answers` the questions of the read side. `Optimizer`,
`Morbo` and `TurboSearch` share the arithmetic of `TrustRegion`. `TreeSearch` extends `Tree`.

`FlushController`, `BpannStore` and `Tree` cut the system at the data lock. `FlushController` looks at who holds it and treats a section
under it as one step. `BpannStore` looks inside such a section, one file change per step, and reduces a tree to the rows it holds and
the metric of its centroids. `Tree` looks inside the tree and treats a persist as one step.

### 2.1 FlushController

| Variable | Code |
|---|---|
| `rows`, `metric`, `index`, `pending`, `dirty`, `disk` | `train_x.nrows`, `x_scale`, `index` (rows held, metric of its coordinates), `pending_unindexed`, `index_dirty`, index files |
| `unseen`, `unflagged` | history: rows of failed appends that `pending` has not been told of; those the index files lack and `dirty` was not set for |
| `slot`, `lastError` | `DiskBackendHandle.job`, `.last_error` |
| `pc`, `op`, `owned` | per calling thread: the place in the call, the call, the JoinHandle on its stack |
| `wpc`, `built` | per flush thread: its place, the index it built |
| `open` | the handle has not been dropped |

A call starts with `Call(c, o)`, guarded by the borrow rules: calls with `&mut self` (`add`, `set_metric_scale`, `Drop`) exclude all
others. Everything but `mark_index_stale` and search then goes through `TakeJob`, `JoinFlush`, `TakeError` (`wait_for_flush`), and its
critical section is one of `Append`, `AppendFails`, `SetMetric`, `EnsureSync`, `MarkStale`, `Persist`, `SyncFails`, `HardFlush`.
`AppendFails` is an append that stored its rows of x and fails at y or the variances, before `index_dirty` is set, or at a row of the index,
behind it; `pending_unindexed` keeps its value either way, and the rows count until some call indexes them.
`schedule_background_flush` is `ScheduleCheckError` .. `ScheduleJoinOwn`, with the pending count read in one step and used in later
ones, the spawn and the store into the slot apart, and the joined loser of the race. A worker is `BuildBegin`, `BuildEnd` (finds
nothing to do, builds, or fails/panics), `Publish`.

* `set_metric_scale` of the enn backend takes `&self`, but its only callers hold the model by `&mut`; it is exclusive here.
* An `add` that also changes the scale is an `add` followed by a `metric` call; what else that allows is a superset.
* The lock is std's futex RwLock: a waiting writer stops new readers (`CanRead`).
* `HardFlush` may do nothing: its build may fail, and another thread may have flushed since.
* `Calls` bounds which calls a caller of an instance makes.
* Poisoned locks and a failing `thread::spawn` are not modelled. A spawn needs a free thread of `Workers`; a caller spawns only
  when the slot is empty, so a pool as large as the number of callers that schedule or wait never refuses one. Every run has that.

### 2.2 BpannStore

`fx`, `fy`, `numObs`, `meta`, `idxRows`, `marker`, `header`, `pages` are the files; `nx` .. `bak` what the process holds; `pc`/`op`
where it is. `Crash` sets memory back and leaves the files. `None` is a missing file, `Torn` one that was truncated and not
yet written. `OpenBegin` .. `OpenDiscard` and `Sync` are the open as a model does it; `AppendX` .. `AppendIndex` an append; `Persist` ..
`PersistIdx1` a persist; `SetMetric`, `Search` the rest. `Faults` names the files whose write may fail with the code's own error
path (`HeaderFails`, `WriteFails`, the second branch of `SetMetric`).

Abstracted: the rows of a tree are a prefix, and leaf blocks are refilled under the current scale at reopen, so a tree is its count and
the metric of its centroids; `skip_edges.bin` follows `pages.bin`; temporary files of renames are not seen by an open. It is process death,
not power loss. The layout is DiskAuto's (`scale_x` false at open). Each append after a crash tells new observations (`Fresh`), so that
a row overwritten by a later one cannot pass for the lost one. A failing second column is left out: the code does not repair it (section 8).

### 2.3 Observations

The same files from the side of what the rows mean. y is stored warped, so a value means something only with the bounds in
`metadata.json`; variances are in a third file that exists only if the first rows came with some. `rowFile`, `varFile`, `counter`,
`metadata` are files; `store` the open model; `at`, `call` where the process is. Creating, reopening, adding, persisting and removing are
sequences of steps of one file each (`CreateModel`, `AddRows`, `WriteVariance`, `SetCount`, `TruncateMetadata`, `WriteMetadata`,
`PatchMetadata`, `RemoveRows`, ...); the process may die between any two (`ProcessDies`), and a write of metadata may fail
(`MetadataFails`). A model in memory created beside a store (`MemoryModel`, by `ENN_WORK_DIR`) is a step too. The index is left out here.

### 2.4 Tree and TreeSearch

A page is the record the store keeps in its slot; `index` is pages, root, rows indexed, the sweep of the re-partition, the entries its header
counts (`held`) and the slots its store has (`capacity`); `disk` is what a persist wrote. `AppendRows` inserts row by row (descend to the
nearest leaf, splits up to the root) or in bulk (recursive halving, in one step) and does its share of the sweep; `SetMetric` rescales
the pages and may start a sweep; `MarkStale`, `EnsureSync`, `PersistIndex`, `Reopen` are the rest.

An append that fails has stored its rows and indexed none (`AppendFails`), or some (`InsertFails`); a sync or persist may fail in the
same place (`SyncFails`). An insert fails where a page is allocated: for the sibling of a leaf, of an internal page, or for a new root
(`Interrupted` takes the slots away at each in turn, and `Divided`, `Attach`, `DividedLeaf` leave what the code leaves there). Such a tree
is `torn`, a history variable; later inserts, the sweep, persist and reopen go on with it as the code does. One split of a
tree fails, until a reset or a reopen builds another. 
Rows have one coordinate, a multiple of a unit fine enough that
every mean and radius of an instance is whole, so arithmetic is exact where the code rounds. `TreeSearch` is the backend's search over that
tree: every row for a small store, else best-first with a budget of leaves, the exact tail of rows not indexed, and the merge.
The cap on bulk entries held at once and `MAX_DEPTH` are not reached.

### 2.5 PageResidency

One mapping, a column or the scratch of a tree, one writer or several readers. A tree begins anonymous and moves to files when it
outgrows `Budget` (`Mapped`, `MapFails`: the mapping calls may fail one by one); a column is a file. A file larger than the budget is `tracking`: an access goes
`touch` (one bit per step), `count`, and if the count exceeds the budget `release`, `forget` (one word of bits per step), `zero`, the code's
order and without a lock. `resident` is what the kernel has in memory; `raced` the windows of calls that overlapped the last release.
Hashing is a constant (`BitOf`, `WordOf`), collisions included. `pretouch` runs on empty stores only and is part of growth;
`set_resident_budget` and `release_resident` are called by tests only and are left out.

### 2.6 EnnModel, AutoMetric, Reservoir

A model is a record; `data` are the points it will be given. `Add` (with the refit it may bring), `Search`, `EnsureSync`,
`SetUnscaledDims`, `SetMetricScale`, `MetricConfigure`, `MetricSetWeights` and `Reopen` move the scale through the four places it is kept in, over a lazily built index in memory (rebuilt at the next query when stale) or a disk backend, and may fail
at `append`, `flush`, `marker`. A scale is a vector of logarithms in units of half of ln 2; learned weights and their held-out gain are any
of a set, so every order of refits, rejections and rebuilds is there. `Reservoir` is Algorithm R, draw by draw.

### 2.7 Fitting: what a caller keeps

`Fitting` is the disjoint union of six drivers; `driver` says which one a behaviour is about.

* `IncrementalFit` (with `Fitter`): owner, generation, pending add, frozen fitter. A caller may present any token it was ever handed, also one
  of a model that was opened again.
* `Surrogate` (with `Fitter`): scales and calibrator beside the rows told and the model's rows, in memory and on disk. `Fit`, `FitAppend`, `ClearObservations` of the in-memory and the disk form; a dropped disk model leaves its store behind
  (`left`), and a constructor given rows refuses a store that has some.
* `Sampler`: `PushRow` and `Configure` of a reservoir, with `paths`, every sequence of draws and the slots it leads to.
* `Observations` (2.3).
* `Tuning`: `Openers` install the file's thresholds (read the path, look whether the file is there, truncate and fill it if not, read it, set the snapshot: unsynchronised steps) and open
  backends, while others edit the file, cut it short (a write is not atomic; a prefix reads as defaults or cut numbers), move it or write
  defaults. It discharges the assumption `1 <= Soft <= Hard` that `FlushController` makes.
* `Configuration`: two callers, a Python form sent as a dictionary of the keys that were set, and a raw dictionary. Factories put the keys
  over their defaults and refuse what does not go together. After building only what calls read is kept (`run`); asks and tells then
  decide by it. Fields are named by their wire keys; lengths are in 1/1280, alpha in multiples of its default. Any search tell of a TuRBO region may
  collapse it (an over-approximation; `TrustRegion` says when).

### 2.8 Optimizer, TurboSearch, Morbo

| Variable of Optimizer | Code |
|---|---|
| `setup` | hybrid or TuRBO strategy, surrogate or none, `noise_aware` |
| `rows`, `known`, `fitted` | rows stored, `num_obs` (`obs_count`), the surrogate has a model |
| `tracker` | `IncrementalIncumbentTracker`: rows told, entries kept |
| `incumbent` | `incumbent_idx`, `incumbent_y_scalar` |
| `tr` | `TurboTrustRegion`: length and counters (`box`), `best_value`, `prev_num_obs` |
| `inInit`, `completed`, `reinit` | `Strategy::Hybrid`, `reinit_left` |
| `broken` | history: a tell of this region failed after it stored rows |

One call is one action: `TellSample` (also after a restart), `TellSearch`, `TellFails`, `AskRestarts`, `AskFails`. Where a tell or a restart
may fail, the state it leaves is the code's (`Faults`). Calls that change nothing here are stutters. A row is its objective value; x, the fit
and the draws are left out. The tracker keeps a batch at once; row by row gives the same (`Keep`).

`TurboSearch` has no tracker, watermark or surrogate: only the history `ys`, and the box judged by the best of the whole history
before and after a batch. The refinement is about which value is judged against which, when, and how often;
`CountersAreRuns` checks the arithmetic against the history itself. A tell that fails after it stored rows (`broken`) makes the region refuse every
later batch until it is left, which it is only if it had collapsed: `prev_num_obs` never catches up (`trust_region.rs:366-372`). No comment
or test says otherwise, so it is part of both specifications (`Unjudged`).

`Morbo` adds what a second objective brings: random weights, ranges, an incumbent chosen by the optimizer over the candidates' ranges and
compared by the region over the ranges of all rows, and weights redrawn by an ask in between. A noisy prediction of the incumbent is
a nondeterministic choice.

### 2.9 Answers: the read side

`Answers` has the rows of a model, a question and its answer; a step asks one question of every kind (`AskPosterior`, `AskConditional`,
`AskDraws`, `AskPareto`, ...). `Posterior` follows each path from the backend's hits to the neighbours a sum runs over; a tie in memory may go to
any row, on disk to the smallest. `Draws` states means, variances and function draws as fractions and as noise keys with weights.
`Acquisition` gives the arms a generator can lead to, as the prefix of an order or, for the Thompson of one objective, one draw after the other; and the hypervolume. `Candidates` counts, for each random choice, the draws that
lead to it. `Calibration` has warp, calibrator, samples and intervals in whole numbers, with saturation at `Cap`. `PageIndex` is the former
index: every clustering k-means can end in, the bytes of a page, and its two searches.

`ScaleFit` is the search of a fitter for its scales: candidates drawn and the one in use, a sample of rows that are predicted without
themselves, and the last of the best. Likelihoods are any numbers, equal for equal predictions. `Learning` is how AUTO learns a metric:
binned Sobol indices of columns and groups, the bar of chance, the floor, the spread, and the neighbours of the leave-one-out score that
decides whether `AutoMetric` uses it; all in exact fractions. `AskMetric` learns twice, from some rows and from the same in another
unit; `AskColumns` from the same with two columns exchanged.

## 3. Runs

| Run | Shows | Bounds | States |
|---|---|---|---|
| `flush_safety` | `TypeOK`, `ExclusiveSettled`, `IndexInMetric`, `PendingCoversGap`, `CleanMeansPersisted`, `DroppedQuiet`, `FailureReported`, `ImplementsService` | 3 callers, of whom one only resets the index, 3 threads, 2 metrics, 2 rows, Soft 1, Hard 2 | 741 k |
| `flush_liveness` | `CallsReturn`, `FlushCatchesUp` under `FairSpec` | 3 callers, of whom one only resets the index, 2 threads, 1 metric, 1 row | 36 k |
| `store` | `AckedDurable`, `IndexInForce`, `CleanPersistReopensWhole`; `PageMemorySound` | 2 observations, 2 crashes, every fault, 2 metrics; 2 readers, 2 pages, budget 5 | 3.8 M |
| `optimizer` | `TrackerSynced`, `IncumbentStored`, `CountersAreRuns`, `ImplementsTurbo` | sample of 2, K 2, bulk 2; five values told singly or two values in ones and twos; faults in the latter | 244 k |
| `tree` | `TreeSound`, `SearchExact`, `PersistedComesBack` | six layouts of 8 rows, leaves of 2, fanout 3, batches of 1 and 4, two factors; one append that fails after row 4, one sync after row 5, at any split | 44 k |
| `model` | `ScalesInStep` | every layout, two dimensions, batches of 1 and 2, every fault | 361 k |
| `fitting` | `TokensTellOnce`, `FitsItsModel`, `SampleUniform`, `RowsReadAsTold`, `BuiltAsConfigured`, `ServesEveryCall`, `ThresholdsFollowFile` | see below | 2.6 M |
| `morbo` | `RangesCoverRows`, `BaselineIsKept` | 4 rows of 3 points, two weights, every fault | 599 k |
| `answers` | `PosteriorNearest`, `BatchAsSingle`, `WeightsFollowData`, `DrawsFollowPosterior`, `PredictionsCalibrated`, `ArmsAreBest`, `HypervolumeIsArea`, `ChoicesFair`, `PagesFindRows` | up to 3 rows in any order, 4 rising; batches of 2; page indexes of 6 points; metrics of 6 rows, 4 columns; draws for up to 2 arms | 293 k |
| `store_persist`, `thompson`, `fitting_bounds` | the findings of section 7 | smallest that show them | |

Each passing run takes between half a minute and three minutes with two workers.

**Why the bounds are enough.** *flush*: the race for the slot needs two schedulers; a third caller that waits beside them
is left to the proofs of section 5, which are for any callers (with it the run has three million states and no new kind of step). Two rows let the index be empty, half and complete, and put `pending` below Soft, between the thresholds and at Hard. Two metrics tell a
right index from a wrong one, also in the refinement. Two callers and the third that resets make two writers that take turns while
the other reads, the one order in which a call starves; an append of two rows that fails indexes none or one of them. *store*: two crashes reach a crash in the reopen after a crash, and any write may fail at any point; the
sidecar is rewritten by one append and one sync but not by every one (`Hard` 2). A file starts tracked or grows into it, the budget is
exceeded by what two readers touch, windows straddle pages and two of them share a bit. *optimizer*: the rows of one region are
bounded, not the number of regions, so restarts are unbounded. With tolerance 4 for one row and 2 for two, the rows are enough to
collapse a region of either strategy and for the three gains of an expansion. *tree*: eight rows in leaves of two under a
fanout of three make a tree of three levels, so splits reach the root with a sweep under way; a batch of 4 is built in bulk on an empty tree and
inserted singly on another. The layouts go up, outwards, between two clusters, are nearly all equal, go back and forth, and spread: the
fifth row of the one that goes back and forth splits the root, so that a page may be missing at the leaf, at the overfull root and for the root above
two halves; some of these trees are persisted at row 5 and one is taken over by an open. *model*: three rows fit the reservoir and one more overflows it. *fitting*: `MaxRows` 3, one death and
one failed write at any point; two openers and three edits of the file (an opener overtaken between its reads and its install needs two);
samples of capacity 0 to 3 of six rows; up to two changes of a form or dictionary, one put over the other (`Changed`; settings that interact come as one change), tells and arms of 1
and 2 over a sample of 2, so that batches straddle its end. *morbo*: failure tolerance is 4 before the first ask, so a box
can collapse within the sample. *answers*: ties, duplicates, k below, at and above the number of rows; numbers of draws are exhausted, words of
9 bits make seeds wrap; six rows make two bins of three, with a bar of chance (`DependenceZ` 1) that some columns pass and some do not.

**Symmetry** is used for callers and threads in `flush_safety` only. **Deadlock** is checked where the system may not stop: both flush
runs, and `store` (an unreadable store has `OpenFails`: the open returns its error again), and `answers`. The callers of the other
models may stop, and say so in their cfg.

**Fairness.** `FairSpec` is strong fairness of each thread: the scheduler runs every thread, and a thread that keeps asking for the data
lock gets it. Weak fairness would not be enough for a lock that is taken and given back infinitely often, and a futex lock gives no
stronger guarantee in practice. Callers need not call. `CallsReturn` holds then without further condition of the calls with
`&mut self` and of `mark_index_stale`. Every other call reads under the lock or joins a thread that does, and for those, as for the build of
`FlushCatchesUp`, it needs `WritersPause`: the lock lets writers first, and two callers that alternate `mark_index_stale` so that one
always waits starve a third that reads, in the model as in the code. The other parts have no scheduler: a call of them returns by its own steps.

**Mutants.** Every property of a passing run has a faulty variant of a definition (`AddSkipsWait`, `StoreOverwrites`, `BitsKept`,
`LowerBoundOfCentre`, ...), kept beside the definition it would replace, that TLC shows to break it.

## 4. What the properties mean

* `ExclusiveSettled`: `add`, `set_metric_scale` and `Drop` reach their critical section with no flush thread alive and no error
  unreported. This is what the whole design rests on: the borrow checker cannot give it.
* `IndexInMetric`: searches multiply queries by `metric`; the published index is in it and holds no row the store lacks.
* `PendingCoversGap`, `CleanMeansPersisted`: rows missing from the index are counted, but for those of appends that failed; the persist
  in `Drop` skips the files only if they hold every row. With the flag clear the files lack exactly the rows of appends that failed before they set
  it, and the row count in the header makes the next persist write them. So `pending_unindexed` does say too little after a failed append
  (section 8); the properties say that nothing else makes it, and that the next append, sync, reset or persist makes up for it.
* `FailureReported`: joining a failed thread records its error, and only a call that returns clears it. The loser of the race for the
  slot is exempt: `flush_controller.rs:192` drops its result.
* `ImplementsService`: every step is an append, a failed append (rows stored, the index behind), a metric change, a catch-up, a reset, a persist or a drop of the service, or invisible: a
  publish never takes a row out of the index.
* `AckedDurable`: order of x, y and the counter. `CleanPersistReopensWhole`: a persist that returned Ok leaves files that the next
  open adopts in full. `IndexInForce`: index and small-N cache are in the metric in force; its premises (no failed write; for the index at
  most one crash) are limits of the code, named in section 8.
* `PageMemorySound`: no page is given back before a file holds it (`PagesKept`); what is in memory is marked, and counted within the
  budget once nobody is in a call, up to the windows of calls that overlapped a release.
* `TreeSound`: every row in one leaf, counts those of a recount, every ball over what is below it. `PersistedComesBack`: what an
  open finds again is the tree that was persisted. `SearchExact`: with leaves enough, the answer is brute force's, ties included. `TreeSound`
  and the tree's part of `SearchExact` hold until a split gets no page and again once a reset or a reopen has built another tree; of a tree
  in which one failed, `PersistedComesBack` says that an open takes it over only if it lacks no row.
* `ScalesInStep`: the scale in force is that of the rows (`ScaleFollowsData`), and pages are partitioned by one that differs from
  it by no more than the policy allows (`PartitionNear`), whichever copy was moved last.
* `TokensTellOnce`, `FitsItsModel`: no row reaches a fitter twice or from other data, whatever failed in between. As long as no call failed,
  scales and calibrator are of the same rows, in memory and on disk; in memory those are all rows, on disk, where a search is put off by
  big tells and not done again, rows the model has.
* `SampleUniform`: every set of rows of the sample's size is reached by equally many sequences of draws.
* `RowsReadAsTold`: after any interruption, an acknowledged row is at its place, in its unit, with its variance.
* `ThresholdsFollowFile`: soft and hard are ordered whatever the file says and whoever writes it; an open nobody overtakes has what
  the file said while it ran.
* `BuiltAsConfigured`: a form builds an optimizer exactly if it is sound, with every set field in force; premise `HasFactory` (section 8).
  `ServesEveryCall`: premise `WellPosed` (a pool of at least one, bounds that match the metrics, a sample if the acquisition reads a surrogate).
* `TrackerSynced`: the tracker is rebuilt only when its count differs from the model's, so one with the right count must hold what
  a rebuild would. `CountersAreRuns`: each resize took three gains, or a full tolerance of misses, in a row. `ImplementsTurbo`: every
  call is a step of `TurboSearch` or a stutter.
* `RangesCoverRows`, `BaselineIsKept`: scores are over the ranges of every row told, and the bar is the kept incumbent's score in today's
  weights and ranges.
* `PosteriorNearest`, `BatchAsSingle`, `DrawsFollowPosterior`: one query has one answer whichever path computes it; supposing rows is
  adding them; a row of a fit is predicted by the others alone; independent draws share no noise.
* `WeightsFollowData`: the learned metric depends on the rows, not on units or the order of columns, and a column that decides y has a
  larger part than one that tells nothing of it.
* `ArmsAreBest`: Pareto, UCB, random and the Thompson of several objectives give as many different arms as asked for or there are
  candidates; none that Pareto leaves out is in a better front, none that UCB leaves out scores better. The Thompson of one objective gives
  every arm the best of its own draw, so a candidate may come twice; that is for a surrogate without a calibrator, the other is finding 2.
* `PredictionsCalibrated`, `HypervolumeIsArea`, `ChoicesFair`, `PagesFindRows`: pure algorithms against a
  definition of what they compute, over every input of the instance.

## 5. Proofs

TLAPS checks the 38 theorems that `PROJECT.json` lists, and their lemmas, in eight modules: for every value of the constants that meets the
assumptions named with them. None of the properties is inductive; each module states an invariant that is, and what it says more is named here.

**`FlushControllerProofs`**: all seven safety properties of `flush_safety` and the refinement, from `ConfigAssumption` alone (an empty
slot is no thread; `1 <= Soft <= Hard`, which `ThresholdsFollow` proves of the code that sets them). `IInv` is

* `Places`: what each place in a call says about the call and about the JoinHandle on the stack;
* `Borrows`: two overlapping calls are both shared;
* `Holding`: each live thread has exactly one holder, the slot or one caller;
* `Settled`: an exclusive call that has emptied the slot finds it empty until it ends. It needs `Borrows`: nobody else may schedule;
* `Closed`, `ClosedQuiet`: after `Drop` there is no call and nothing in the slot;
* `Fresh`: a thread about to publish has built the whole index in today's metric. An append or a metric change would break it, but by
  `Holding`, `Borrows` and `Settled` no thread is alive then (lemma `Alone`);
* `Data`: rows, metric, pending and dirty agree, up to the rows of failed appends: `unseen` for `pending`, `unflagged` for `dirty`.

`ControlStep` needs neither `Fresh` nor `Data`; `DataStep` uses `Control`. `Invariance` combines them, each property follows from
`IInv`, and `ServiceStep` maps every action to a service action or a stutter with `IInv` as hypothesis.

**`BpannStoreProofs`**: the three properties of `store`, for any number of rows, batch sizes, crashes and failing writes, from
`StoreAssumption`.

* `AckedDurable` speaks of what the next open will count; that count drops and rises while `metadata.json` is torn and rewritten.
  `DurableInv` says more of less: acknowledged rows are within the mapped counter alone (`Held`); every count, on disk or in memory,
  covers only rows both columns have (`Counts`, `Whole`), so an append writes behind all of them; and the batch under way is the end of
  the columns it has reached (`Underway`).
* `StoreInv` adds two chains. The dirty flag speaks for the files: a process that has met no failure, is not dirty and was not left in doubt by
  an open has every row in the index files, under the metric they say (`Flagged`). And pages in another metric than that of
  `metadata.json` are announced, by the marker or by metadata the next open disbelieves, until they are rewritten (`OfPages`).
  `IndexInForce` follows from the second chain, `CleanPersistReopensWhole` from the first.

**`ObservationsProofs`**: `RowsReadAsTold`, for any rows, batches, bounds, deaths and failing writes. A row reads as it was told if three things
have survived: its place, its variance, and the bounds its y was warped with. `ObsInv` has one group of facts for each.

* `CountedThere`, `Settled`, `KeptThere`, `CallThere`: no count is ahead of the rows; `num_obs.bin` alone covers those whose call
  has returned, so that no tearing of `metadata.json` loses them; the rows of the call under way are the last the model has.
* `FileMatches`, `Aligned`: variances are appended at the count of the rows, so the two files are aligned unless a call died between them
  (`stray`).
* `BoundsThere`: the bounds go from the file to the model, from the model to the rows, and from the model, or from what it read, back to
  the file.

Of the marks `NoFile`, `Torn` and `NotOpen` it is assumed that none of them is data.

**`PageResidencyProofs`**: `PageMemorySound`, for any readers, pages, budget and hash, from `ResidencyAssumption` and
`BitmapAssumption` (finitely many threads; the hash of a window is a bit of the bitmap).

* `ResidencyInv`: only tracked calls give pages back, and only a mapping of a file is tracked (`InFile`); bits are wiped only while every
  window in memory or in a call is one that overlapped the release (`Overlapped`); a call that went on before has marked its windows (`Marking`).
* `CountInv`: between releases the count covers every mark that is not raced, but for those a thread has set and not counted yet
  (`Counted`). Releases overlap, and the first to begin may be the last to end; so during one, the marks that are not raced are all in words
  the *latest* has still to wipe, and none is left when it is through (`Wiping`). Whoever takes the count past the budget brings it back
  to zero (`Bounded`).

**`OptimizerProofs`**: the properties of `optimizer`, for any values, batches, faults and number of rows, from `OptimizerAssumption` and
`LengthAssumption`.

* `OptInv` (`OptimizerConsistent`) holds whatever fails: the model counts no row that is not stored, the tracker was told all of them, the
  region's watermark is at the last row unless a tell failed. `IncumbentIsStored` follows.
* `Synced`: the tracker, which keeps few rows and drops the rest at once, has what a rebuild would have. The lemma behind it is `KeepOfKept`: what
  is kept of a history is kept of what was kept before and the new batch. `TrackerInStep` and `ImplementsSearch` have the hypothesis
  `AppendNeverFails`, as the run has: a model that stores rows and fails before it counts them lets the tracker and the count
  meet again with different rows (section 8). `TrackerInStepUnbroken` is the rest: whatever fails, a region in which no tell failed
  behind its rows is in step.
* `Runs`: with one row per tell, the counters are the last runs of gains and misses, modulo the tolerances (`RunGrows`, `ModNext`).
  `CountersCountRuns` has the hypothesis `SingleTellsAccepted`, as the run has: a model that refuses a row of the sample leaves a strategy that
  counts a row the region does not have.

**`MorboProofs`**: the properties of `morbo`, for any metric rows, weights, batches, faults and number of rows, from `MorboAssumption` and
`LengthAssumption`.

* `Covering`: the ranges begin with the first rows told and are those of every row, unless a surrogate failed between storing rows and
  widening the ranges. The law behind it is `WidenedCovers`: widening the ranges of some rows by a batch gives the ranges of both.
* `Keeping`: there is a baseline exactly when an incumbent is kept, it is the incumbent's score in the ranges and weights in force, and
  without a surrogate the best score of all rows. The optimizer chooses over ranges of its own, those of its candidates; every row is one of
  them, so by `Covering` they are the region's.

**`EnnModelProofs`**: `ScalesInStep`, for any points, dimensions, layouts, refits, tolerances and faults, from `EnnModelAssumption` and
`AutoMetricAssumption`. `ModelInv` says of each copy of the scale when it is right:

* `DataFollowed`, `Agreed`: until a call fails, the moments are of all rows, the model's scale is theirs within the tolerance, the index has the
  same, and the partition is the one `built` names. `apply_incremental_x_scale` compares with both and cannot see the partition.
* `Near`: the same of the AUTO metric, until the caller sets a scale past it. It remembers the new weights before the backend is asked; the
  two agree again when the call succeeds (`WeighedFacts`, `MetricScaleSetFacts`).
* `InMemory`: an index in memory is stale, or has every row in the model's scale; one that is not scaled may only lack the last rows. It
  needs no hypothesis: no call on it fails.

That sums, logarithms and largest ratios are numbers is all the proof uses of them (`DataScaleIsScale`, `RatioIs`); which rows a reservoir
has chosen it does not use at all.

**`FittingProofs`**: six properties of `fitting`, over the drivers of `Fitting`, and that driven beside one another they are what they are alone
(`DrivenAsAlone`, which carries `RowsAlwaysReadAsTold` and `ThresholdsFollow` over to `Fitting`).

* `TokensTellOnce`, from the assumptions of `EnnModelProofs`: a fitter is told what is pending, so what is pending must lie behind every row
  told (`TellsOnce`). That no failed call adds the same rows again rests on what an `Add` may leave (`AddedFacts`): the count never drops.
  What was told is the rows of the tokens presented (`Presented`) since no owner or generation comes twice (`Handed`), not even after a reopen.
* `FitsItsModel`, from the same: a surrogate has a model of its layout exactly if it is fitted (`Matches`); as long as no call failed, the fitter
  was told all its rows, its scales and calibrator are of the same rows (`Together`), and in memory of all of them (`Whole`). Both branches of `Started` and the plan of
  `Appended` keep it; the plan must search whenever scales are searched in memory (`PlanFacts`).
* `ServesEveryCall`, from `ConfigurationAssumption` (a caller writes values of the type of their key, no ask is for no points). `RunInv`:
  rows are stored as they are counted, so the sample that ends `in_init` is told; after a collapse, rows and those left make up a sample; and
  a search with a surrogate comes behind a tell that fitted it. The other half is that an optimizer begins well formed whatever
  a form or dictionary puts over the defaults (`FormFacts`, `KeysFacts`, `CreatedFacts`): what the calls read keeps its type through every override.
* `BuiltAsConfigured`, from `ConfigurationAssumption` (a form's fields have their types, none is no number and no name, a dictionary's `work_dir` is
  a string) and `DeniedAssumption` (what stands for no optimizer is no configuration). It is inductive as it stands: a call forgets what was
  given. The work is the way from a form to an optimizer, followed key by key. What a form sends (`SentIs`, `SentKnown`) put over a factory's
  defaults (`BaseIs`, `OverDefaults`) says what the form does and each default else (`OverCarries`); layout and fit keep all of it but a frozen search and
  a directory in memory (`AppliedFacts`, `StatedInForce`). That two sets of checks, the form's and the factory's, come to what `Sound` says is
  `SoundBuilds`; for `tied_dims`, that no dimension is tied twice exactly if there are as many dimensions as places is `TiedSound`.
  Of a dictionary, only a frozen search or a directory for memory could be parsed and not applied, and both are refused (`KeysInForce`).
* `ThresholdsFollowFile`, from `TuningAssumption` (the defaults are in order), also if the file is cut short between the check for it and its
  reading, or written over by defaults. Thresholds are in order wherever they are kept (`Typed`); a call
  that shared its time with no other that installs still has the path in force, and what it read, then the snapshot, is something the file said
  at a step of the call (`Followed`).

* `SampleUniform`, from `ReservoirAssumption`, for any capacities, seeds and number of rows. It holds as long as the capacity at which rows
  began to be replaced is kept; `SamplerInv` needs no such hypothesis: it says that sets of *that* size are led to alike (`Uniform`),
  whatever the capacity is now, and that until rows are replaced all are held, where the set of all rows is the only one of its size
  (`WholeUniform`). The step is `ReplacedUniform`. A set without the new row is led to by the sequences that led to it before and a draw at or
  behind the capacity; a set with it by those that led to any of the sets it may have come from, which are disjoint and of
  equal number (`EqualParts`), and the one draw that hits the row it lost. Both are the old number times `seen - size + 1`.

The lemmas `LeastNat`, `LeastNumber` and `FirstExists` give a least element without an induction over an operator, which the provers do not take.

**Only model-checked**: liveness (`CallsReturn`, `FlushCatchesUp`; out of the prover's reach), and `Tree`, `TreeSearch`, `Learning`, `Acquisition`,
`Candidates`, `PageIndex`, `Answers`, whose recursive operators the prover does not take.

## 6. What each check leaves to the others

`BpannStore` trusts `Tree` for what an index of n rows answers, and `Tree` trusts `BpannStore` for whether files are believed.
`FlushController` trusts `Tuning` for its thresholds. `Posterior` trusts `TreeSearch` for a disk backend's hits. `Surrogate` and
`IncrementalFit` run over the same `EnnModel` that `model` checks alone, with the failures it has. `Optimizer` sees of a
surrogate what its calls return, and of a region's store that it was cleared or not. `Configuration` leaves open when a region collapses, so it holds
for every region of `Optimizer`.

## 7. Findings

Each is a run that expects a violation; `PROJECT.json` gives the lines and quotes.

1. `store_persist`: after a metric change, a persist whose write of `metadata.json` fails is retried, finds nothing to do, returns Ok, and
   leaves a store that does not open. A metric change rescales the index without setting `index_dirty`, and the retry compares only
   flag, header and pages.
2. `thompson`: with a calibrator, Thompson sampling takes samples that are in units of y out of the warped units a second
   time; the logistic saturates, and draws far apart score alike.
3. `fitting_bounds`: a model in memory created while `ENN_WORK_DIR` names a disk store's directory writes its own bounds into that store's
   metadata, and a reopen without bounds reads the rows in other units.

## 8. Known limits of the code, and premises they explain

Met while modelling; outside the premises of the properties above, and not counted as findings.

*Store.* `backend.rs:275-276` says that rows are unindexed only after a reset or a reopen. An append that fails at y, at the variances
or at a row of the index (`backend.rs:240-262`) leaves rows unindexed with `pending_unindexed` untouched, so neither threshold starts a flush for
them; the next append, sync or persist inserts them. A failed write of `train_y` after `train_x` grew is not repaired: later rows of x are one off (`backend.rs:240`; not among
`Faults`). A failed header write leaves a torn header though pages are put back (`persist_atomic.rs:86-87`). A failed marker write leaves the
small-N cache in another metric (`metric.rs:77`). `discard_metric_index_on_reopen` removes the marker but not the files, so a crash
before the next persist lets a second reopen adopt the index under the identity metric (`metric.rs:87-98`). Hence the premises of `IndexInForce`.

*Tree.* `split_leaf` cuts the full leaf to its left half before it allocates a page for the right one (`tree.rs:159-162`). If the store cannot
grow, the rows of the right half are in no leaf, though all but the last are below `indexed_rows`, so that neither the tree nor the exact tail
of a search returns them; counts above are one too many, and the retry inserts the last row alone (`sync.rs:114-123`), a second
time if the left half kept it. `split_internal` (`tree.rs:216-218`) sets the left half's count and radius and then fails to allocate:
the page keeps all its children, over the fanout, and no row is lost. A new root that gets no page (`tree.rs:176`) leaves the right half in no tree.
A tree that lost rows may be persisted, but an open finds that its leaves do not hold what its header counts, and builds another; one
whose internal page could not be split may be taken over, with the row of the retry in it twice. Hence
`~index.torn` in `TreeSound` and `SearchExact`. `BpannStore` treats the index part of an append as not failing.

*Rows and bounds.* A failed metadata write leaves it empty, and the next persist rewrites it without bounds. Torn metadata makes a
store unopenable though its rows are intact. A crash in the first add with variances leaves `train_yvar.bin`: later adds
without variance are accepted and a reopen reads the lost rows' variances, or refuses. `new_empty` on an existing directory keeps a count
of 0 (`backend/mod.rs:110`; no caller in the repository does it). A removal that is cut off leaves old index files behind.

*Residency.* The count is called an "upper bound" on what became resident since the last release. It is not: windows marked just before
a release in the same call are touched after it; readers that overlap a release may keep bits whose count is wiped; colliding windows
count once; a clone that gives back its source's pages does not forget them. It errs the other way when a new mapping drops pages without
forgetting marks. `CountCovers` therefore excepts `raced` windows and counts hashed bits.

*Models.* A failed append's phantom rows enter the next add's pending range, and the moments. `set_metric_scale` is followed by AUTO's
own refit. With `exclude_nearest` and k at or above the number of rows, the light path uses n-1 neighbours where the weighted one uses n for
a novel query; a mixed batch of the conditional posterior then reads rows of different lengths as one matrix (`neighbor.rs:498`); ties there
go by distance only. Hence "more rows than neighbours" in `PosteriorNearest` and `BatchAsSingle`. Of
equal rows `exclude_nearest` leaves out only one, so a row of a fit's sample that equals another may see its own y (`metric_loo.rs` leaves out by row
number). Ranks of equal coordinates go by row number (`stable_ranks`), so a column with few values may seem to explain a y that
grows with time; hence `Idle` asks for distinct values. Noise keys are
`(seed * P + row) * P + metric` with P = 1000003: with P rows or more, two functions share keys.

*Surrogate.* A second `fit` on disk is refused by its own store, and `clear_observations` then returns Ok without removing it
(`surrogate.rs:369, 414-420`). Growing a reservoir after it began to replace rows breaks uniformity.

*Optimizer.* A tell that stored rows and then failed before counting them leaves the tracker out of step (`model.rs:303-308`; the fault
"append", not among those of the run), and any tell that failed after storing makes the region refuse all later ones. Morbo keeps
`prev_num_obs` at a restart and mixes scores of different weights in its spread; the Thompson of one objective may repeat an arm.

*Configuration.* `lhd_only_config` with a trust region is routed to a hybrid TuRBO search, although `README.md:16` says LHD on every
ask; no region with a surrogate gets the default TuRBO region. That is `HasFactory`. `num_init = 0` with an acquisition that reads a
surrogate fails every ask after a collapse until the caller tells; `min_candidates = max_candidates = 0` is accepted; a TuRBO region
accepts a two-metric sample and refuses every search tell after storing its rows; bounds that do not match the metrics are noticed at the first
tell, whose rows already counted. That is `WellPosed`. An ask of a new sample gives at most what is left of it.

*Thresholds.* Install reads path and file and sets the snapshot in three steps, so a stale snapshot may stay in force after two racing
installs. `new_empty_with_flush_threshold` takes the hard cap from the snapshot before it installs: in a fresh process 3000 whatever the
file says (`enn_backend.rs:187`). The file is not written atomically, and defaults may overwrite one that was saved between the check
for it and the write (`file_config.rs:201-204`).

*Former index.* `skip_edges_bytes` iterates a HashMap, so the same index may be written in different bytes (`persist_atomic.rs:35-46`).

## 9. Not modelled, and what is left

Not modelled: the transforms' arithmetic, distance kernels, likelihoods of scales and metrics (numeric, without state,
tested against reference values); random streams bit by bit; array conversion in the bindings; scripts, evaluations, reports; code that only tests
call (`update`, `update_with_incumbent` of the regions, `tell_update`, `set_resident_budget`); `TurboEnnBuilder`, which nothing calls;
poisoned locks; power loss.

Left: a second column that may fail to grow in `BpannStore`, should the code come to repair it.

## 10. Running

    tlc -workers 2 -config MCFlushSafety.cfg MCFlush
    tlc -workers 2 -config MCStore.cfg MCStore
    tlc -workers 2 -config MCFitting.cfg MCFitting
    tlapm FlushControllerProofs.tla
    tlapm BpannStoreProofs.tla
    tlapm PageResidencyProofs.tla
    tlapm ObservationsProofs.tla
    tlapm OptimizerProofs.tla
    tlapm MorboProofs.tla
    tlapm EnnModelProofs.tla
    tlapm FittingProofs.tla

`PROJECT.json` lists every run with its cfg, every mutant, and the source lines each definition stands for.
