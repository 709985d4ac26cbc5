----------------------------- MODULE MCOptimizer -----------------------------
(* Instance of Optimizer for TLC. *)
EXTENDS Optimizer

\* Row by row, without failures: three gains in a row, and a value that beats another by
\* less than the bar.
RowByRow ==
  [ys |-> {1000, 1001, 1003, 1005, 1007}, batches |-> {1}, faults |-> {}, maxObs |-> 6]

\* Gains and misses in batches, and calls that fail.
InBatches ==
  [ys |-> {1000, 1003}, batches |-> {1, 2},
   faults |-> {"refused", "fit", "release", "remove"}, maxObs |-> 5]

BothUses == {RowByRow, InBatches}
=============================================================================
