------------------------------- MODULE Draws -------------------------------
(***************************************************************************)
(* What a posterior makes of its neighbours (ennbo/src/posterior.rs,       *)
(* posterior/light.rs, draw_compute.rs, dual_api.rs, hash.rs): a mean and  *)
(* a variance by weights, of one or many parameters at once, and function  *)
(* draws, in which every row has a noise of its own that is a hash of the  *)
(* seed and the row's number.                                              *)
(*                                                                         *)
(* Numbers are fractions <<num, den>>; a weight 1/v is taken times the     *)
(* product of the row's variances, so it is a whole number.  A draw is its *)
(* mean and, for each noise it uses, the weight that noise has; y and its  *)
(* variance are in units of y_scale.                                       *)
(***************************************************************************)
EXTENDS Posterior, SequencesExt

CONSTANTS
  EpsVar,     \* EPS_VAR, in units of the distances squared
  SeedPrime,  \* SEED_PRIME
  QuerySalt,  \* QUERY_SALT
  Word        \* 2^64

ASSUME DrawsAssumption ==
  /\ EpsVar \in Nat \ {0} /\ SeedPrime \in Nat \ {0}
  /\ Word \in Nat \ {0} /\ QuerySalt \in 0..Word - 1

Total(f, S) == MapThenSumSet(LAMBDA h : f[h], S)
Times(f, S) == FoldSet(LAMBDA h, p : f[h] * p, 1, S)

\* The y of a hit, and its variance: the first `told` rows came with one, a supposed row and
\* a padded column have none.
YOf(h)          == IF h[2] > 0 THEN h[2] ELSE 0
YvarOf(h, told) == IF h[2] \in 1..told THEN h[2] % 2 ELSE 0

---------------------------------------------------------------------------
(* compute_weighted_stats_impl, for one query. *)

Variances(row, p, told) ==
  [h \in row |-> EpsVar + p.epi * h[1] * h[1] + p.ale + YvarOf(h, told)]

WeightsOf(v) == [h \in DOMAIN v |-> Times(v, DOMAIN v \ {h})]

\* se_from_variance_components, squared.
Floored(epi, ale) ==
  IF epi[1] + ale[1] < EpsVar * epi[2]
  THEN [se |-> <<EpsVar, 1>>, epi |-> <<EpsVar, 1>>, ale |-> <<0, 1>>]
  ELSE [se |-> <<epi[1] + ale[1], epi[2]>>, epi |-> epi, ale |-> ale]

\* empty_posterior_internals
Unknown == [w |-> <<>>, mu |-> <<0, 1>>, se |-> <<1, 1>>, epi |-> <<1, 1>>, ale |-> <<0, 1>>]

\* stats_from_neighbor_weights
Stats(row, p, told, noise) ==
  LET v     == Variances(row, p, told)
      w     == WeightsOf(v)
      norm  == Total(w, row)
      noisy == [h \in row |-> w[h] * (p.ale + YvarOf(h, told))]
      f     == Floored(<<Times(v, row), norm>>, <<IF noise THEN Total(noisy, row) ELSE 0, norm>>)
  IN IF row = {} THEN Unknown
     ELSE [w |-> w, mu |-> <<Total([h \in row |-> w[h] * YOf(h)], row), norm>>,
           se |-> f.se, epi |-> f.epi, ale |-> f.ale]

\* fuse_neighbors_to_mu_se
Fused(row, p) ==
  LET v    == Variances(row, p, 0)
      w    == WeightsOf(v)
      norm == Total(w, row)
      se   == IF Times(v, row) < EpsVar * norm THEN <<EpsVar, 1>> ELSE <<Times(v, row), norm>>
  IN IF row = {} THEN Unknown
     ELSE [w |-> w, mu |-> <<Total([h \in row |-> w[h] * YOf(h)], row), norm>>,
           se |-> se, epi |-> se, ale |-> <<0, 1>>]

\* compute_posterior_internals: of every query.
Numbers(a, p, told, noise) == [i \in DOMAIN a.rows |-> Stats(a.rows[i], p, told, noise)]

\* posterior_warped
PosteriorNumbers(disk, pts, batch, p, exclude, told, noise) ==
  LET light == ~noise /\ told = 0
      of(a) == IF light THEN [i \in DOMAIN a.rows |-> Fused(a.rows[i], p)]
               ELSE Numbers(a, p, told, noise)
  IN {[outcome |-> a.outcome, numbers |-> of(a)] :
        a \in IF light THEN Light(disk, pts, batch, p.k, exclude)
              ELSE Weighted(disk, pts, batch, p.k, exclude)}

\* batch_posterior: one search serves all if they ask for equally many neighbours.
Shares(pts, params) == Cardinality({params[j].k : j \in DOMAIN params}) = 1 /\ pts # <<>>

\* compute_batch_with_shared_neighbors, compute_batch_separate_neighbors.
BatchPosterior(disk, pts, batch, params, exclude, told, noise) ==
  LET found(j) == Weighted(disk, pts, batch, params[j].k, exclude)
      taken    == IF Shares(pts, params) THEN {[j \in DOMAIN params |-> a] : a \in found(1)}
                  ELSE PerQuery(params, LAMBDA p : Weighted(disk, pts, batch, p.k, exclude))
      all(c)   == \A j \in DOMAIN params : c[j].outcome = "rows"
  IN {[outcome |-> IF all(c) THEN "rows" ELSE "refused",
       numbers |-> IF all(c) THEN [j \in DOMAIN params |-> Numbers(c[j], params[j], told, noise)] ELSE <<>>] :
        c \in taken}

---------------------------------------------------------------------------
(* draw_from_internals. *)

\* Mutant: the seed is added to the row, not mixed with it.
NoiseKeyAdded(seed, row, metric) == ((seed + row) * SeedPrime + metric) % Word
\* normal_for_seed_index_metric: the number that is hashed, which is one to one.
NoiseKey(seed, row, metric) == ((seed * SeedPrime + row) * SeedPrime + metric) % Word

\* normal_for_seed_query_metric: by the query's place in the batch.
QueryKey(seed, i, metric) ==
  ((seed * SeedPrime + i) * SeedPrime + QuerySalt + metric) % Word

\* unique_index_inverse: the rows of all queries, each once, and where each is among them.
UniqueOf(flat) == SetToSortSeq(ToSet(flat), <)
InverseOf(flat) ==
  LET unique == UniqueOf(flat)
  IN [x \in DOMAIN flat |-> CHOOSE u \in DOMAIN unique : unique[u] = flat[x]]

\* The hits of a row in order, and their rows; a padded column has none.
InOrderOf(row) == SetToSortSeq(row, Before)
IdsOf(row) ==
  LET hits == InOrderOf({h \in row : h[2] > 0}) IN [j \in DOMAIN hits |-> hits[j][2] - 1]

\* draw_from_internals_m1, draw_from_internals_multi: the draw of one seed, metric and query
\* from the k columns at its place in the flat list.
DrawAt(seed, metric, i, row, stats, flat, k) ==
  LET hits    == InOrderOf(row)
      unique  == UniqueOf(flat)
      inverse == InverseOf(flat)
      keys    == [j \in 1..k |-> NoiseKey(seed, unique[inverse[(i - 1) * k + j]], metric)]
  IN [mu    |-> stats.mu,
      terms |-> [x \in ToSet(keys) |->
                   MapThenSumSet(LAMBDA j : stats.w[hits[j]], {j \in 1..k : keys[j] = x})],
      ale   |-> IF stats.ale[1] > 0 THEN {QueryKey(seed, i - 1, metric)} ELSE {}]

\* The seeds of one ask, from a base that is drawn (sample, calibrated_sample).
Seeds(base, num) == [s \in 1..num |-> (base + s - 1) % Word]

\* posterior_function_draw, conditional_posterior_function_draw: a place past the end of the
\* flat list panics.
DrawsOf(a, p, told, noise, seeds, metrics) ==
  LET k     == Cardinality(a.rows[1])
      flat  == FlattenSeq([i \in DOMAIN a.rows |-> IdsOf(a.rows[i])])
      stats == Numbers(a, p, told, noise)
      plain == [mu |-> Unknown.mu, terms |-> <<>>, ale |-> {}]
      draw(s, m, i) == IF k = 0 THEN plain ELSE DrawAt(seeds[s], m, i, a.rows[i], stats[i], flat, k)
  IN IF a.outcome # "rows" THEN a
     ELSE IF Len(flat) < k * Len(a.rows) THEN Failed("panic")
     ELSE [outcome |-> "draws", stats |-> stats, idx |-> a.rows,
           draws |-> [s \in DOMAIN seeds |->
                        [m \in metrics |-> [i \in DOMAIN a.rows |-> draw(s, m, i)]]]]

FunctionDraw(disk, pts, batch, whatIf, p, exclude, told, noise, seeds, metrics) ==
  {DrawsOf(a, p, told, noise, seeds, metrics) :
     a \in Conditional(disk, pts, batch, whatIf, p.k, exclude)}
=============================================================================
