------------------------------ MODULE Optimizer ------------------------------
(***************************************************************************)
(* The ask/tell state machine of a single-objective optimizer              *)
(* (ennbo/src/optimizer/, strategy/mod.rs, incumbent_tracker.rs and the    *)
(* tell path of surrogate.rs and model.rs, with a TuRBO trust region).     *)
(*                                                                         *)
(* A call takes `&mut self`, so one call is one action.  What makes it     *)
(* hard is that four parts keep their own account of the rows: the model   *)
(* (rows, known), the incumbent tracker (its count and indices), the trust *)
(* region (its watermark) and the strategy (rows of the sample).  A tell   *)
(* updates them one after the other and may fail in between (Faults):      *)
(*   refused   the model refuses the batch (a value that is not finite)    *)
(*   append    the model fails after its rows were stored, before it       *)
(*             counts them (model.rs:303-308)                              *)
(*   fit       the surrogate fails after the model counted them            *)
(*   release   a large batch's pages cannot be released                    *)
(*   remove    the store of a region cannot be removed                     *)
(* Calls that change nothing here are stutters: a tell refused for its     *)
(* shape, its yvar or an earlier flush error, an ask that only draws       *)
(* candidates (its batch size is replaced by that of the tell before it is *)
(* used).  Left out are errors after the last change (scheduling a flush)  *)
(* and restart_generation, which only seeds the candidates.                *)
(*                                                                         *)
(* Rows are objective values, numbered from 1.                             *)
(***************************************************************************)
EXTENDS TrustRegion, Sequences, FiniteSetsExt

CONSTANTS
  Uses,     \* what callers do: the objective values [ys], the rows of a tell [batches],
            \* what fails [faults], and a bound on the rows of a region [maxObs]
  Bulk,     \* rows from which a tell releases pages
  NumInit,  \* num_init of the strategy
  K,        \* ENN neighbours, the tracker's m
  None,     \* no incumbent
  NegInf    \* best_value before there is one

ASSUME OptimizerAssumption ==
  /\ \A use \in Uses :
       /\ use.ys \subseteq Int /\ use.batches \subseteq Nat \ {0} /\ use.maxObs \in Nat
       /\ use.faults \subseteq {"refused", "append", "fit", "release", "remove"}
  /\ Bulk \in Nat /\ NumInit \in Nat
  /\ K \in Nat \ {0}
  /\ NegInf \notin Int

VARIABLES
  setup,      \* hybrid strategy, surrogate, noise_aware, and the caller's use
  rows,       \* the model's y rows, or fallback_y
  known,      \* obs_count: rows the model counts (num_obs)
  fitted,     \* the surrogate has a model
  tracker,    \* incumbent_tracker: rows told, entries kept
  incumbent,  \* incumbent_idx and incumbent_y_scalar
  tr,         \* TurboTrustRegion
  inInit, completed,  \* Strategy::Hybrid
  reinit,     \* reinit_left, 0 for None
  broken      \* history: a tell of this region failed after it stored rows

vars == <<setup, rows, known, fitted, tracker, incumbent, tr, inInit, completed, reinit,
          broken>>

Best(s)   == Max({s[i] : i \in DOMAIN s})
Counted   == SubSeq(rows, 1, known)
Sampling  == reinit > 0 \/ inInit
Collapsed == NeedsRestart(tr.box)

\* new, restart_local
FreshTR == [box |-> InitialBox, best |-> NegInf, prev |-> 0]

----------------------------------------------------------------------------
(* IncrementalIncumbentTracker.  Telling rows one after the other keeps      *)
(* what is best of all of them, so a batch is told at once.                  *)

Entries(n, batch) == {<<n + i, batch[i]>> : i \in DOMAIN batch}

Outranks(p, q) == p[2] > q[2] \/ (p[2] = q[2] /\ p[1] < q[1])

\* use_all_candidates, use_scalar_topm (push_top_m), use_noiseless_max.
Keep(S) ==
  IF ~setup.surrogate THEN S
  ELSE IF setup.noiseAware THEN {p \in S : Cardinality({q \in S : Outranks(q, p)}) < K}
  ELSE {p \in S : \A q \in S : q[2] <= p[2]}

NoEntries == [count |-> 0, entries |-> {}]

\* Mutant: every row of a batch gets the index of the first.
TrackFirstIndex(batch) ==
  [count   |-> tracker.count + Len(batch),
   entries |-> Keep(tracker.entries \cup {<<known + 1, batch[i]>> : i \in DOMAIN batch})]

Track(batch) ==
  [count   |-> tracker.count + Len(batch),
   entries |-> Keep(tracker.entries \cup Entries(known, batch))]

Rebuilt(s) == [count |-> Len(s), entries |-> Keep(Entries(0, s))]

\* The last of the candidates with the largest value.
BestOf(t, s) ==
  LET candidates == {p[1] : p \in t.entries}
      i == Max({c \in candidates : \A d \in candidates : s[d] <= s[c]})
  IN IF candidates = {} THEN None ELSE [row |-> i, y |-> s[i]]

----------------------------------------------------------------------------
(* TurboTrustRegion, as tell_turbo drives it.                                *)

\* turbo_prev_num_obs = 0: the rows before this batch become the baseline.
Seeded(t, s, k) ==
  LET prev == Larger(Len(s) - k, 0)
  IN IF t.prev # 0 THEN t
     ELSE [t EXCEPT !.prev = prev,
                    !.best = IF t.best = NegInf /\ prev > 0
                               THEN Best(SubSeq(s, 1, prev)) ELSE t.best]

\* Mutant: the baseline moves with a gain only, as in `update`.
UpdatedOnGain(t, n, k, y) ==
  IF n # t.prev + k THEN t
  ELSE IF t.best = NegInf THEN [t EXCEPT !.best = y, !.prev = n]
  ELSE [t EXCEPT !.box = Judged(t.box, Improves(y, t.best), FailureTolerance(k)),
                 !.best = IF Improves(y, t.best) THEN y ELSE t.best,
                 !.prev = n]

\* update_with_incumbent_new_batch: a batch that does not continue the watermark
\* is refused.
Updated(t, n, k, y) ==
  IF n # t.prev + k THEN t
  ELSE IF t.best = NegInf THEN [t EXCEPT !.best = y, !.prev = n]
  ELSE [t EXCEPT !.box = Judged(t.box, Improves(y, t.best), FailureTolerance(k)),
                 !.best = Larger(t.best, y),
                 !.prev = n]

TRTold(s, k, y) == Updated(Seeded(tr, s, k), Len(s), k, y)

----------------------------------------------------------------------------
Init ==
  /\ setup \in [hybrid : BOOLEAN, surrogate : BOOLEAN, noiseAware : BOOLEAN, use : Uses]
  /\ setup.noiseAware => setup.surrogate
  /\ rows = <<>> /\ known = 0 /\ fitted = FALSE
  /\ tracker = NoEntries /\ incumbent = None
  /\ tr = FreshTR
  /\ inInit = setup.hybrid /\ completed = 0 /\ reinit = 0
  /\ broken = FALSE

----------------------------------------------------------------------------
(* tell.                                                                     *)

Samples(k) == [1..k -> setup.use.ys]

\* The rows of a batch count for the sample before they are stored.
CountSample(batch) ==
  completed' = IF inInit /\ reinit = 0 THEN completed + Len(batch) ELSE completed

\* The tracker has the batch by then; what the model has of it depends on where
\* it failed.
TellFails ==
  \E k \in setup.use.batches, fault \in setup.use.faults \cap {"refused", "append", "fit"} :
    \E batch \in Samples(k) :
      /\ setup.surrogate /\ (fault = "append" => fitted)
      /\ Larger(Len(rows), tracker.count) + k <= setup.use.maxObs
      /\ tracker' = Track(batch)
      /\ CountSample(batch)
      /\ rows'   = IF fault = "refused" THEN rows ELSE rows \o batch
      /\ known'  = IF fault = "fit" THEN Len(rows') ELSE known
      /\ fitted' = (fitted \/ fault = "fit")
      /\ broken' = (broken \/ fault # "refused")
      /\ UNCHANGED <<setup, incumbent, tr, inInit, reinit>>

\* tell_common: store the rows, fit, rebuild the tracker if it has another count
\* than the model, choose the incumbent.
Record(batch) ==
  /\ Len(rows) + Len(batch) <= setup.use.maxObs
  /\ rows' = rows \o batch
  /\ known' = Len(rows')
  /\ fitted' = setup.surrogate
  /\ tracker' = IF Track(batch).count # known' THEN Rebuilt(rows') ELSE Track(batch)
  /\ incumbent' = BestOf(tracker', rows')
  /\ CountSample(batch)

\* Only a surrogate releases pages.
ReleaseFails(k) == "release" \in setup.use.faults /\ setup.surrogate /\ k >= Bulk

\* consume_reinit
ReinitLeft(k) == Larger(reinit - k, 0)

\* tell_local_reinit, tell_init.
TellSample ==
  /\ Sampling
  /\ \E k \in setup.use.batches : \E batch \in Samples(k) :
       /\ Record(batch)
       /\ \/ /\ reinit' = IF reinit > 0 THEN ReinitLeft(k) ELSE 0
             /\ inInit' = (inInit /\ (reinit > 0 \/ completed' < NumInit))
             /\ UNCHANGED broken
          \/ ReleaseFails(k) /\ broken' = TRUE /\ UNCHANGED <<reinit, inInit>>
  /\ UNCHANGED <<setup, tr>>

\* tell_turbo.
TellSearch ==
  /\ ~Sampling
  /\ \E k \in setup.use.batches : \E batch \in Samples(k) :
       /\ Record(batch)
       /\ \/ tr' = TRTold(rows', k, incumbent'.y) /\ UNCHANGED broken
          \/ ReleaseFails(k) /\ broken' = TRUE /\ UNCHANGED tr
  /\ UNCHANGED <<setup, inInit, reinit>>

----------------------------------------------------------------------------
(* ask.                                                                      *)

\* restart_local
RestartedTR == FreshTR

\* Mutant: the old region's incumbent is the centre of the new one.
KeptIncumbent == incumbent

\* The new region has no incumbent.
RestartedIncumbent == None

\* begin_local_restart.
AskRestarts ==
  /\ Collapsed
  /\ rows' = <<>> /\ known' = 0 /\ fitted' = FALSE
  /\ tracker' = NoEntries /\ incumbent' = RestartedIncumbent
  /\ reinit' = IF setup.hybrid THEN NumInit ELSE 0
  /\ tr' = RestartedTR
  /\ broken' = FALSE
  /\ UNCHANGED <<setup, inInit, completed>>

\* The surrogate has dropped its model when its files cannot be removed.
AskFails ==
  /\ "remove" \in setup.use.faults /\ fitted
  /\ Collapsed
  /\ rows' = <<>> /\ known' = 0 /\ fitted' = FALSE
  /\ broken' = TRUE
  /\ UNCHANGED <<setup, tracker, incumbent, tr, inInit, completed, reinit>>

----------------------------------------------------------------------------
Next == TellFails \/ TellSample \/ TellSearch \/ AskRestarts \/ AskFails

Spec == Init /\ [][Next]_vars

----------------------------------------------------------------------------
(* Properties.                                                               *)

\* The tracker is rebuilt when its count differs from the model's, so a tracker of
\* the right count must hold what a rebuild would (update_incumbent,
\* optimizer/incumbent.rs:22-27; optimizer/tests.rs:230-234).
TrackerSynced == tracker.count = known => tracker = Rebuilt(Counted)

\* The incumbent, the centre of the box, is a row of the region with its value,
\* also after failed tells and restarts (update_incumbent; begin_local_restart).
IncumbentStored ==
  incumbent # None /\ ~Collapsed =>
    incumbent.row <= known /\ rows[incumbent.row] = incumbent.y

\* A row of the search is a gain or a miss by what was told before it.
Gain(i) == Improves(Best(SubSeq(rows, 1, i)), Best(SubSeq(rows, 1, i - 1)))

\* The rows that are not judged: the sample, or the very first.
Prefix == IF setup.hybrid THEN Larger(NumInit, 1) ELSE 1

InARow(isGain) ==
  Max({n \in 0..Len(rows) - Prefix :
         \A i \in Len(rows) - n + 1..Len(rows) : Gain(i) = isGain})

\* With one row per tell: the counters are the lengths of the last runs of gains and
\* misses, less what has moved the length already, so each resize took three gains or
\* a full tolerance of misses in a row (trust_region.rs:381-397).
CountersAreRuns ==
  setup.use.batches = {1} /\ ~broken /\ ~Sampling /\ Len(rows) > Prefix =>
    /\ tr.box.succ = InARow(TRUE) % SuccessTolerance
    /\ tr.box.fail = InARow(FALSE) % FailureTolerance(1)

\* Tracker, watermark, seeding and sample counters add up to the TuRBO rule.
Turbo == INSTANCE TurboSearch WITH
  budget <- IF setup.hybrid THEN NumInit ELSE 0,
  ys     <- rows,
  left   <- IF inInit THEN Larger(NumInit - completed, 1) ELSE reinit,
  seen   <- tr.prev,
  base   <- tr.best,
  box    <- tr.box
ImplementsTurbo == Turbo!Spec
=============================================================================
