------------------------------ MODULE ScaleFit ------------------------------
(***************************************************************************)
(* The search for the scales of a posterior (ENNFitter::ask of             *)
(* ennbo/src/fitter.rs, subsample_loglik of fit.rs): candidates are drawn, *)
(* the scales in use are added to them, all are scored on the same sample  *)
(* of rows, and the best is kept.                                          *)
(*                                                                         *)
(* A score is a likelihood of the y of the sample under the predictions of *)
(* a candidate: here any number, the same for the same predictions.  The   *)
(* spread of y divides every prediction alike and is left out.             *)
(***************************************************************************)
EXTENDS Draws

\* build_random_param_candidates, for drawn scales; no noise unless it is to be found.
RandomParams(drawn, infer) ==
  [c \in DOMAIN drawn |-> IF infer THEN drawn[c] ELSE [drawn[c] EXCEPT !.ale = 0]]

\* ask: the scales in use, if there are any, come last, with the fitter's own k.
ParamCandidates(drawn, warm, infer, k) ==
  RandomParams(drawn, infer)
    \o (IF warm = {} THEN <<>>
        ELSE LET w == CHOOSE p \in warm : TRUE
             IN <<[k |-> k, epi |-> w.epi, ale |-> IF infer THEN w.ale ELSE 0]>>)

\* The rows of a sample, in an order; all of them if so many are asked for.
FitSamples(n, p) ==
  IF p >= n THEN {[i \in 1..n |-> i]}
  ELSE {SetToSortSeq(S, <) : S \in kSubset(p, 1..n)}

\* Mutant: every row may be its own neighbour.
ScoredWithItself(pts, rows, params, told) ==
  BatchPosterior(TRUE, pts, [i \in DOMAIN rows |-> pts[rows[i]]], params, FALSE, told, TRUE)
\* subsample_loglik, up to the scores: the sample is asked for as a batch, without the rows
\* themselves.
Scored(pts, rows, params, told) ==
  BatchPosterior(TRUE, pts, [i \in DOMAIN rows |-> pts[rows[i]]], params, TRUE, told, TRUE)

\* max_by: the last of the best.
BestOf(scores) ==
  CHOOSE b \in DOMAIN scores :
    \A c \in DOMAIN scores : scores[c] < scores[b] \/ (scores[c] = scores[b] /\ c <= b)

\* ask, of a model of two rows at least: every sample, and every score of what is predicted.
ScaleAsked(pts, params, p, told, values) ==
  UNION {UNION {{[outcome |-> a.outcome, rows |-> rows, numbers |-> a.numbers, score |-> s,
                  best |-> BestOf([c \in DOMAIN params |-> s[a.numbers[c]]])] :
                   s \in [ToSet(a.numbers) -> values]} :
                a \in {b \in Scored(pts, rows, params, told) : b.outcome = "rows"}} :
         rows \in FitSamples(Len(pts), p)}
=============================================================================
