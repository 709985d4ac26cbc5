----------------------------- MODULE TrustRegion -----------------------------
(***************************************************************************)
(* The arithmetic of a TuRBO trust region (ennbo/src/trust_region.rs): its *)
(* length and the two counters that move it.  Lengths are in a unit fine   *)
(* enough for the halvings an instance can reach to be exact.              *)
(***************************************************************************)
EXTENDS Integers

CONSTANTS
  NumDim,                          \* num_dim
  LengthInit, LengthMin, LengthMax \* TRLengthConfig

ASSUME LengthAssumption ==
  /\ NumDim \in Nat
  /\ LengthInit \in Nat /\ LengthMin \in Nat \ {0} /\ LengthMax \in Nat
  /\ LengthMin < LengthMax
  /\ LengthMin <= LengthInit /\ LengthInit <= LengthMax

Larger(a, b)  == IF a >= b THEN a ELSE b
Smaller(a, b) == IF a <= b THEN a ELSE b
Abs(a)        == IF a < 0 THEN -a ELSE a

SuccessTolerance == 3

\* ceil(max(4, num_dim) / num_arms), at least 1.
FailureTolerance(arms) == (Larger(4, NumDim) + arms - 1) \div arms

\* The bar is a thousandth of the baseline's magnitude.
Improves(y, best) == 1000 * (y - best) > Abs(best)

InitialBox   == [length |-> LengthInit, succ |-> 0, fail |-> 0]
Boxes        == [length : Nat, succ : Nat, fail : Nat]
NeedsRestart(box) == box.length < LengthMin

\* Mutant: a halving keeps the misses that caused it.
JudgedKeepsMisses(box, improved, tolerance) ==
  LET succ == IF improved THEN box.succ + 1 ELSE 0
      fail == IF improved THEN 0 ELSE box.fail + 1
  IN IF succ >= SuccessTolerance
       THEN [length |-> Smaller(2 * box.length, LengthMax), succ |-> 0, fail |-> fail]
       ELSE [length |-> IF fail >= tolerance THEN box.length \div 2 ELSE box.length,
             succ |-> succ, fail |-> fail]

\* Gains in a row double the length, misses in a row halve it.
Judged(box, improved, tolerance) ==
  LET succ == IF improved THEN box.succ + 1 ELSE 0
      fail == IF improved THEN 0 ELSE box.fail + 1
  IN CASE succ >= SuccessTolerance ->
            [length |-> Smaller(2 * box.length, LengthMax), succ |-> 0, fail |-> fail]
       [] succ < SuccessTolerance /\ fail >= tolerance ->
            [length |-> box.length \div 2, succ |-> succ, fail |-> 0]
       [] OTHER -> [length |-> box.length, succ |-> succ, fail |-> fail]
=============================================================================
