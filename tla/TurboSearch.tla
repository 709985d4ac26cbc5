----------------------------- MODULE TurboSearch -----------------------------
(***************************************************************************)
(* The single-objective TuRBO that the optimizer promises, with no         *)
(* incumbent tracker, no watermark and no surrogate: a region begins with  *)
(* a sample, and then every batch is judged once, by the best of the       *)
(* region's whole history after it against the best before it.  Only in a  *)
(* region where a tell failed after it stored its rows may batches stay    *)
(* unjudged.  Optimizer is shown to implement this.                        *)
(***************************************************************************)
EXTENDS TrustRegion, Sequences, FiniteSetsExt

CONSTANT NegInf  \* the baseline before there is one

VARIABLES
  budget,  \* rows of the sample a restart begins with
  ys,      \* objective values of the region, in the order told
  left,    \* rows of the sample not yet told
  seen,    \* rows judged
  base,    \* the best of them
  box,     \* length and counters
  broken   \* a tell of this region failed after it stored rows

vars == <<budget, ys, left, seen, base, box, broken>>

Best(s) == Max({s[i] : i \in DOMAIN s})

\* A first sample is at least one batch, whatever the budget.
Init ==
  /\ budget \in Nat
  /\ left \in Nat /\ (budget = 0 => left <= 1) /\ (budget > 0 => left = budget)
  /\ ys = <<>> /\ seen = 0 /\ base = NegInf /\ box = InitialBox
  /\ broken = FALSE

Told == Len(ys') - Len(ys)

\* Rows are added at the end.
Grows == Told > 0 /\ SubSeq(ys', 1, Len(ys)) = ys

Sample ==
  /\ left > 0
  /\ Grows
  /\ left' = Larger(left - Told, 0)
  /\ UNCHANGED <<budget, seen, base, box, broken>>

\* The first batch is judged against the sample; without one it is the baseline.
Search ==
  /\ left = 0
  /\ seen = 0 \/ seen = Len(ys)
  /\ Grows
  /\ seen' = Len(ys')
  /\ IF ys = <<>>
       THEN base' = Best(ys') /\ UNCHANGED box
       ELSE LET before == IF seen = 0 THEN Best(ys) ELSE base
            IN /\ base' = Larger(before, Best(ys'))
               /\ box' = Judged(box, Improves(Best(ys'), before), FailureTolerance(Told))
  /\ UNCHANGED <<budget, left, broken>>

\* Rows stored and not judged push the count past what the next batch continues.
Unjudged ==
  /\ broken /\ left = 0 /\ seen # 0 /\ seen # Len(ys)
  /\ Grows
  /\ UNCHANGED <<budget, left, seen, base, box, broken>>

\* A tell that fails: its rows may be stored, and count for the sample, but they
\* are not judged.
Fail ==
  /\ (Grows /\ broken') \/ UNCHANGED <<ys, broken>>
  /\ left' \in 0..left /\ (left > 0 => left' > 0)
  /\ UNCHANGED <<budget, seen, base, box>>

\* Only a collapsed region is left, and nothing of it is known to the next one.
Restart ==
  /\ NeedsRestart(box)
  /\ ys' = <<>> /\ left' = budget /\ seen' = 0 /\ base' = NegInf /\ box' = InitialBox
  /\ broken' = FALSE
  /\ UNCHANGED budget

\* A restart that fails may have lost the rows already.
FailRestart ==
  /\ NeedsRestart(box)
  /\ ys' = <<>> /\ broken'
  /\ UNCHANGED <<budget, left, seen, base, box>>

Next == Sample \/ Search \/ Unjudged \/ Fail \/ Restart \/ FailRestart

Spec == Init /\ [][Next]_vars
=============================================================================
