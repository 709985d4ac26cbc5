--------------------------------- MODULE Morbo ---------------------------------
(***************************************************************************)
(* The multi-objective trust region (ennbo/src/morbo_trust_region.rs) as   *)
(* the ask/tell calls of strategy/mod.rs and optimizer/tr_state.rs drive   *)
(* it: metric rows are scalarized by random weights over the ranges seen,  *)
(* and the score of an incumbent moves an inner TuRBO box.                 *)
(*                                                                         *)
(* What makes it hard: the weights, the ranges, the incumbent of the       *)
(* optimizer, the incumbent the region keeps and the inner baseline are    *)
(* set at different moments.  The optimizer picks its incumbent over the   *)
(* candidates' own ranges, the region compares over the ranges of every    *)
(* row, and an ask may change the weights in between.                      *)
(*                                                                         *)
(* Faults of a tell: "fit" (the surrogate fails after the rows are         *)
(* stored), "predict" (a noise-aware incumbent cannot be predicted) and    *)
(* "release" (a large batch's pages).  A refused batch leaves the region   *)
(* as it was; Optimizer models it and the counts of the model and the      *)
(* tracker, which are in step here, so the tracker's candidates are a      *)
(* function of the rows.                                                   *)
(*                                                                         *)
(* A scalarized value is in units of 1/(Unit * the weights' sum * B).      *)
(***************************************************************************)
EXTENDS TrustRegion, Sequences, FiniteSetsExt

CONSTANTS
  Points,   \* metric rows: pairs of values
  Weights,  \* weight vectors a draw can give
  Unit,     \* every range of values divides it, and 2 does
  AlphaParts, AlphaOf, \* alpha = AlphaParts / AlphaOf
  Arms,     \* arms of an ask
  Batches,  \* rows of a tell
  Bulk,     \* rows from which a tell releases pages
  NumInit,  \* num_init of the strategy
  K,        \* ENN neighbours, the tracker's m
  MaxObs,   \* bound on the rows
  Faults,
  None,     \* no ranges, no incumbent, no number of arms
  NegInf    \* best_value before there is one

Metrics == {1, 2}
Values  == {p[m] : p \in Points, m \in Metrics}

ASSUME MorboAssumption ==
  /\ Points # {} /\ Points \subseteq Int \X Int
  /\ Weights # {} /\ Weights \subseteq (Nat \ {0}) \X (Nat \ {0})
  /\ Unit \in Nat /\ Unit % 2 = 0 /\ \A v, w \in Values : v < w => Unit % (w - v) = 0
  /\ AlphaParts \in Nat /\ AlphaOf \in Nat \ {0}
  /\ Arms \subseteq Nat \ {0} /\ Batches \subseteq Nat \ {0}
  /\ Bulk \in Nat /\ NumInit \in Nat /\ MaxObs \in Nat
  /\ K \in Nat \ {0}
  /\ Faults \subseteq {"fit", "predict", "release"}
  /\ NegInf \notin Int
  /\ None \notin Int \X Int /\ None \notin [Metrics -> [lo : Int, hi : Int]]

VARIABLES
  setup,      \* the configuration: surrogate, noise_aware, rescalarize
  rows,       \* the observations
  incumbent,  \* incumbent_y_scalar of the optimizer
  weights, ranges, kept, scores, \* MorboTrustRegion: kept is incumbent_y_raw
  inner,      \* its TurboTrustRegion
  arms,       \* num_arms of the inner region
  inInit, completed,  \* Strategy::Hybrid
  covered,    \* history: no tell failed between storing rows and the ranges
  anchored    \* history: weights and ranges are those of the last comparison

vars == <<setup, rows, incumbent, weights, ranges, kept, scores, inner, arms, inInit,
          completed, covered, anchored>>

----------------------------------------------------------------------------
(* Scalarization.                                                            *)

\* update_ranges_incremental over no earlier range; the local ranges.
RangesOf(S) == [m \in Metrics |-> [lo |-> Min({p[m] : p \in S}), hi |-> Max({p[m] : p \in S})]]

Widened(r, S) ==
  IF r = None THEN RangesOf(S)
  ELSE RangesOf(S \cup {<<r[1].lo, r[2].lo>>, <<r[1].hi, r[2].hi>>})

\* A metric's place in its range, clipped; one half in an empty range.
Place(v, r) ==
  IF r.hi <= r.lo THEN Unit \div 2
  ELSE Larger(0, Smaller(Unit, (v - r.lo) * (Unit \div (r.hi - r.lo))))

\* scalarize_with_ranges: the smallest weighted place plus alpha of their sum.
Score(p, r, w) ==
  LET t == [m \in Metrics |-> w[m] * Place(p[m], r[m])]
  IN AlphaOf * Smaller(t[1], t[2]) + AlphaParts * (t[1] + t[2])

----------------------------------------------------------------------------
(* The optimizer's incumbent.                                                *)

\* The tracker: the best K rows of each metric, ties to the earlier; every row
\* without a surrogate.
Candidates(s) ==
  LET above(i, m) == {j \in DOMAIN s : s[j][m] > s[i][m] \/ (s[j][m] = s[i][m] /\ j < i)}
  IN IF ~setup.surrogate THEN DOMAIN s
     ELSE {i \in DOMAIN s : \E m \in Metrics : Cardinality(above(i, m)) < K}

\* What update_incumbent may choose: a candidate with the best score over the
\* candidates' own ranges, ties at random.  A prediction is external: any point, and
\* any of them may score best.
Chosen(s) ==
  LET C     == {s[i] : i \in Candidates(s)}
      local == RangesOf(C)
  IN IF setup.noiseAware THEN Points
     ELSE {p \in C : \A q \in C : Score(q, local, weights) <= Score(p, local, weights)}

----------------------------------------------------------------------------
(* The region.                                                               *)

NoScores == [lo |-> None, hi |-> None, count |-> 0]
FreshInner == [box |-> InitialBox, best |-> NegInf, prev |-> 0]

ArmsTolerance == IF arms = None THEN 4 ELSE FailureTolerance(arms)

\* update_scalar_incumbent: the bar is a thousandth of the spread of earlier scores.
Pushed(t, n, score) ==
  LET spread == IF scores.count >= 2 THEN scores.hi - scores.lo ELSE 0
  IN IF n = t.prev THEN t
     ELSE IF t.best = NegInf THEN [t EXCEPT !.best = score, !.prev = n]
     ELSE [box  |-> Judged(t.box, 1000 * (score - t.best) > spread, ArmsTolerance),
           best |-> Larger(t.best, score),
           prev |-> n]

Noted(score) ==
  [lo    |-> IF scores.lo = None THEN score ELSE Smaller(scores.lo, score),
   hi    |-> IF scores.hi = None THEN score ELSE Larger(scores.hi, score),
   count |-> scores.count + 1]

\* Mutant: the kept incumbent is not scored again before the comparison.
ComparedStale(n, y, r) == Pushed(inner, n, Score(y, r, weights))

\* update_incumbent_only: the kept incumbent is scored again, in the ranges and
\* weights of now, and is what the new one has to beat.
Compared(n, y, r) ==
  LET t == IF kept = None THEN inner ELSE [inner EXCEPT !.best = Score(kept, r, weights)]
  IN Pushed(t, n, Score(y, r, weights))

KeptOf(y, r) ==
  IF kept # None /\ Score(y, r, weights) <= Score(kept, r, weights) THEN kept ELSE y

\* The region after a tell of n rows in all that reaches its end, before a restart.
Told(n, y, r) ==
  [ranges |-> r, inner |-> Compared(n, y, r), kept |-> KeptOf(y, r),
   scores |-> Noted(Score(y, r, weights))]

Becomes(t) ==
  /\ ranges' = t.ranges /\ inner' = t.inner /\ kept' = t.kept /\ scores' = t.scores

----------------------------------------------------------------------------
Init ==
  /\ setup \in [surrogate : BOOLEAN, noiseAware : BOOLEAN,
                rescalarize : {"on_restart", "on_propose"}]
  /\ setup.noiseAware => setup.surrogate
  /\ rows = <<>> /\ incumbent = None
  /\ weights \in Weights
  /\ ranges = None /\ kept = None /\ scores = NoScores
  /\ inner = FreshInner /\ arms = None
  /\ inInit = TRUE /\ completed = 0
  /\ covered = TRUE /\ anchored = FALSE

\* ask_turbo; an ask of the sample changes nothing.
Ask ==
  /\ ~inInit
  /\ weights' \in IF setup.rescalarize = "on_propose" THEN Weights ELSE {weights}
  /\ arms' \in Arms
  /\ anchored' = (anchored /\ setup.rescalarize = "on_restart")
  /\ UNCHANGED <<setup, rows, incumbent, ranges, kept, scores, inner, inInit, completed,
                 covered>>

BatchesOf(k) == {b \in [1..k -> Points] : Len(rows) + k <= MaxObs}

CountSample(k) == completed' = IF inInit THEN completed + k ELSE completed

\* Mutant: the ranges are those of the batch alone.
NewRangesOfBatch(batch) == RangesOf({batch[i] : i \in DOMAIN batch})

\* tell_common: the ranges of the rows before, widened by the batch.
NewRanges(batch) == Widened(ranges, {batch[i] : i \in DOMAIN batch})

\* tell_common fails after the rows are stored.
TellFails ==
  \E k \in Batches, fault \in Faults \cap {"fit", "predict"} : \E batch \in BatchesOf(k) :
    /\ setup.surrogate /\ (fault = "predict" => setup.noiseAware)
    /\ rows' = rows \o batch
    /\ CountSample(k)
    /\ ranges' = IF fault = "fit" THEN ranges ELSE NewRanges(batch)
    /\ covered' = (covered /\ fault # "fit")
    /\ anchored' = FALSE
    /\ UNCHANGED <<setup, incumbent, weights, kept, scores, inner, arms, inInit>>

\* tell_common to its end: rows, incumbent, ranges, comparison; t is what the region is
\* now told to be.
Record(batch, y) ==
  /\ rows' = rows \o batch
  /\ incumbent' = y
  /\ CountSample(Len(batch))

Outcomes(batch, y) == {Told(Len(rows) + Len(batch), y, NewRanges(batch))}

ReleaseFails(k) == "release" \in Faults /\ setup.surrogate /\ k >= Bulk

\* tell_init: the sample is compared too.
TellSample ==
  /\ inInit
  /\ \E k \in Batches : \E batch \in BatchesOf(k) : \E y \in Chosen(rows \o batch) :
       /\ Record(batch, y)
       /\ \E t \in Outcomes(batch, y) : Becomes(t)
       /\ inInit' \in {completed' < NumInit} \cup IF ReleaseFails(k) THEN {TRUE} ELSE {}
  /\ anchored' = TRUE
  /\ UNCHANGED <<setup, weights, arms, covered>>

\* A collapsed box restarts, morbo_sync_ranges_from_obs; prev_num_obs is kept.
Restarted(t) ==
  /\ Becomes([t EXCEPT !.ranges = RangesOf({rows'[i] : i \in DOMAIN rows'}),
                       !.inner = [FreshInner EXCEPT !.prev = t.inner.prev],
                       !.kept = None, !.scores = NoScores])
  /\ weights' \in IF setup.rescalarize = "on_restart" THEN Weights ELSE {weights}
  /\ anchored' = FALSE /\ covered' = TRUE

\* tell_turbo: the box judges the batch with the arms of the last ask or tell.
TellSearch ==
  /\ ~inInit
  /\ \E k \in Batches : \E batch \in BatchesOf(k) : \E y \in Chosen(rows \o batch) :
     \E t \in Outcomes(batch, y) :
       /\ Record(batch, y)
       /\ \/ /\ ReleaseFails(k)
             /\ Becomes(t)
             /\ anchored' = TRUE
             /\ UNCHANGED <<weights, arms, covered>>
          \/ /\ ~NeedsRestart(t.inner.box)
             /\ Becomes(t)
             /\ arms' = k
             /\ anchored' = TRUE
             /\ UNCHANGED <<weights, covered>>
          \/ /\ NeedsRestart(t.inner.box)
             /\ Restarted(t)
             /\ arms' = k
  /\ UNCHANGED <<setup, inInit>>

Next == Ask \/ TellFails \/ TellSample \/ TellSearch
Spec == Init /\ [][Next]_vars

----------------------------------------------------------------------------
(* Properties.                                                               *)

\* The ranges a score is taken in are those of every row told, across batches,
\* restarts and failed tells, unless a surrogate failed between storing the rows and
\* widening the ranges (strategy/mod.rs:275-280, 470-474; update_ranges_incremental).
RangesCoverRows ==
  covered /\ rows # <<>> => ranges = RangesOf({rows[i] : i \in DOMAIN rows})

\* What the next batch has to beat is the score of the kept incumbent in the weights
\* and ranges of the last comparison, never a number left over from older weights;
\* and where every row is a candidate (no surrogate), it is the best score of all
\* rows, although the incumbent was chosen over ranges of its own
\* (update_incumbent_only, update_incumbent, scalarize_local).
BaselineIsKept ==
  anchored /\ kept # None =>
    /\ inner.best = Score(kept, ranges, weights)
    /\ ~setup.surrogate =>
         inner.best = Max({Score(rows[i], ranges, weights) : i \in DOMAIN rows})
=============================================================================
