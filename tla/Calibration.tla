----------------------------- MODULE Calibration -----------------------------
(***************************************************************************)
(* What happens to a prediction after the posterior: the warp that keeps a *)
(* metric within its bounds (ennbo/src/y_bounds.rs), the affine calibrator *)
(* (calibration.rs, surrogate_affine.rs), samples and intervals of a       *)
(* prediction (normal_sample.rs).                                          *)
(*                                                                         *)
(* One metric; its bounds are [lo, hi], each a number or None.  Numbers    *)
(* are quarters of a unit and standard errors whole units, so a quarter of *)
(* an error, which is what a mean keeps away from a bound, is the error's  *)
(* own number.                                                             *)
(***************************************************************************)
EXTENDS Integers, Sequences, FiniteSetsExt

CONSTANTS
  BoundEps,   \* BOUND_EPS
  Cap,        \* how far from zero a warped number still differs from infinity
  None

ASSUME CalibrationAssumption == BoundEps \in Nat \ {0} /\ Cap \in Nat \ {0}

Clamp(v, lo, hi) == Min({Max({v, lo}), hi})
Size(v) == IF v < 0 THEN -v ELSE v

Inside(v, b) == (b.lo # None => v > b.lo) /\ (b.hi # None => v < b.hi)
Within(v, b) == (b.lo # None => v >= b.lo) /\ (b.hi # None => v <= b.hi)

\* inv_scalar: monotone, and the bound itself once the exponential is lost in rounding.
Natural(z, b) ==
  CASE b.lo = None /\ b.hi = None -> z
    [] b.lo # None /\ b.hi = None -> b.lo + Max({z + Cap, 0})
    [] b.lo = None /\ b.hi # None -> b.hi - Max({Cap - z, 0})
    [] OTHER -> b.lo + Clamp(z + Cap, 0, b.hi - b.lo)

\* warp_scalar, for a number inside the bounds.
Warped(y, b) ==
  CASE b.lo = None /\ b.hi = None -> y
    [] b.lo = None /\ b.hi # None -> Cap - (b.hi - y)
    [] OTHER -> y - b.lo - Cap

---------------------------------------------------------------------------
(* AffineCalibrator::fit: y is a + b mu, and c times the error. *)

SumOf(f) == MapThenSumSet(LAMBDA i : f[i], DOMAIN f)
Product(f, g) == [i \in DOMAIN f |-> f[i] * g[i]]

Slope(n, mu, y) == n * SumOf(Product(mu, y)) - SumOf(mu) * SumOf(y)

\* a and b over their common denominator.
Line(mu, y) ==
  LET n   == Len(mu)
      det == Slope(n, mu, mu)
  IN IF n < 2 \/ det = 0 THEN [a |-> 0, b |-> 1, det |-> 1]
     ELSE [a   |-> SumOf(Product(mu, mu)) * SumOf(y) - SumOf(mu) * SumOf(Product(mu, y)),
           b   |-> Slope(n, mu, y),
           det |-> det]

Residuals(line, mu, y) == [i \in DOMAIN mu |-> line.det * y[i] - line.a - line.b * mu[i]]

\* residual_c, squared.
Spread(line, mu, y, se) ==
  LET r == Residuals(line, mu, y)
      all == SumOf(Product(se, se))
  IN IF all > 0 THEN <<SumOf(Product(r, r)), line.det * line.det * all>> ELSE <<1, 1>>

Fit(mu, y, se) == [line |-> Line(mu, y), c2 |-> Spread(Line(mu, y), mu, y, se)]

---------------------------------------------------------------------------
(* project_mu *)

\* margin
Margin(se) == Max({BoundEps, Size(se)})

Projected(v, b, se) ==
  LET eps == Margin(se)
  IN CASE b.lo = None /\ b.hi = None -> v
       [] b.lo # None /\ b.hi = None -> Max({v, b.lo + eps})
       [] b.lo = None /\ b.hi # None -> Min({v, b.hi - eps})
       [] OTHER -> IF b.lo + eps >= b.hi - eps THEN (b.lo + b.hi) \div 2
                   ELSE Clamp(v, b.lo + eps, b.hi - eps)

\* apply_prediction, apply_normal
Predicted(cal, mu, se, b) == [mu |-> Projected(cal.a + cal.b * mu, b, cal.c * se), se |-> cal.c * se]

\* Mutant: a draw keeps away from a bound by the error before it was scaled.
ErrorAsGiven(cal, se) == se
\* scale_matrix_columns, in map_draws_with.
ErrorScaled(cal, se) == cal.c * se

\* map_draws_with
Mapped(cal, draw, mu, se, b) ==
  Projected(cal.a + cal.b * mu + cal.c * (draw - mu), b, ErrorScaled(cal, se))

---------------------------------------------------------------------------
(* ENNNormal::sample and confidence_interval: the scale is that of the     *)
(* warped mean, crit and noise are in units of it.                         *)

Read(mu, step, b) == Natural(Warped(mu, b) + step, b)

Interval(mu, scale, crit, b) ==
  IF Inside(mu, b) THEN [outcome |-> "interval", lo |-> Read(mu, -crit * scale, b),
                         hi |-> Read(mu, crit * scale, b)]
  ELSE [outcome |-> "refused"]

\* Of a noise that is cut at clip.
Sampled(mu, scale, noise, clip, b) ==
  IF Inside(mu, b) THEN [outcome |-> "sample", y |-> Read(mu, scale * Clamp(noise, -clip, clip), b)]
  ELSE [outcome |-> "refused"]

---------------------------------------------------------------------------
(* select_with_thompson for one objective: the score of a candidate whose  *)
(* warped mean and draw are mu and z, by a surrogate without a calibrator  *)
(* (cal is None), whose sample is warped, or with one, whose calibrated    *)
(* sample is in units of y.                                                *)

\* ENNSurrogate::sample, calibrated_sample
SampleOf(cal, z, mu, se, b) ==
  IF cal = None THEN z ELSE Mapped(cal, Natural(z, b), Natural(mu, b), se, b)

\* naturalize_observations_y
Score(cal, z, mu, se, b) == Natural(SampleOf(cal, z, mu, se, b), b)

\* argmax_random_tie
Best(scores) == {i \in DOMAIN scores : \A j \in DOMAIN scores : scores[i] >= scores[j]}

\* Each arm is the best of its own draw, whatever the arms before it are.
BestOfEach(scores) ==
  {arms \in [DOMAIN scores -> DOMAIN scores[1]] :
     \A arm \in DOMAIN scores : arms[arm] \in Best(scores[arm])}
=============================================================================
