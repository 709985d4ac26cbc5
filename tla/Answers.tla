------------------------------- MODULE Answers -------------------------------
(***************************************************************************)
(* The read side of the library: calls that change nothing and whose       *)
(* answer is the point.  A step asks one question of every kind there is,  *)
(* over the rows a model holds; the answer is any the code can give.       *)
(***************************************************************************)
EXTENDS ScaleFit, Acquisition, Candidates, Calibration

CONSTANTS
  PointSets,   \* the rows a model holds: sequences of coordinates
  Batches,     \* queries of a call
  WhatIfs,     \* rows that are only supposed
  Ks,          \* neighbours asked for
  Params,      \* parameters of an ask for numbers: [k, epi, ale]
  Bases,       \* first seeds of an ask for draws
  Metrics,
  Predictions, \* <<mu, se>> of the candidates
  ArmCounts,   \* arms asked for
  Scores,      \* scores of the candidates, one sequence for each arm
  Objectives,  \* points whose hypervolume is asked
  Sizes,       \* strata, rows and coordinates of a random choice
  Weights,     \* length scales
  Highs,       \* exclusive upper bounds of a random integer
  Targets,     \* <<mu, y, se>> of the rows a calibrator is fitted to
  Calibrators, \* [a, b, c]
  Bounds,      \* [lo, hi] of a metric
  Reals,       \* means and draws
  ArmDraws,    \* draws of two candidates, one for each arm
  Paged,       \* [points, capacity] of an index of pages and of its leaves
  Beams,       \* children followed
  MaxClusters, MaxIterations, SkipDegree, MaxLeaves, ScanRows, SkipRows,
  DrawnScales, \* random candidates of a search for scales
  FitSizes,    \* rows it samples
  FitScores,   \* likelihoods
  Learnings,   \* [x, y, tied, k] of rows a metric is learned from
  Factors, Shifts, \* changes of unit
  MinDependenceRows, DependenceZ, FloorPart

ASSUME LearningAssumption ==
  MinDependenceRows \in Nat /\ DependenceZ \in Nat /\ FloorPart \in Nat \ {0}

Index == INSTANCE PageIndex WITH Unset <- None
Metric == INSTANCE Learning

VARIABLES
  points,    \* the rows of the model
  question,
  answer

vars == <<points, question, answer>>

Init ==
  /\ points \in PointSets
  /\ question = None
  /\ answer = None

\* A question asked of the model, and one asked whatever rows the model holds.
Ready == question = None /\ UNCHANGED points
Alone == Ready /\ points = <<>>
Asks(kind, args) == question' = [kind |-> kind, args |-> args]

\* posterior_warped, by the light path or the weighted one, and neighbors.
AskPosterior ==
  /\ Ready
  /\ \E disk \in BOOLEAN, batch \in Batches, k \in Ks, exclude \in BOOLEAN,
        path \in {"light", "weighted", "neighbors"} :
       /\ Asks("posterior", [batch |-> batch, k |-> k, exclude |-> exclude])
       /\ answer' \in CASE path = "light" -> Light(disk, points, batch, k, exclude)
                        [] path = "weighted" -> Weighted(disk, points, batch, k, exclude)
                        [] path = "neighbors" /\ Len(batch) = 1 ->
                             Neighbors(disk, points, batch[1], k, exclude)
                        [] OTHER -> {}

\* conditional_posterior_warped
AskConditional ==
  /\ Ready
  /\ \E disk \in BOOLEAN, batch \in Batches, whatIf \in WhatIfs, k \in Ks, exclude \in BOOLEAN :
       /\ Asks("conditional", [batch |-> batch, whatIf |-> whatIf, k |-> k, exclude |-> exclude])
       /\ answer' \in Conditional(disk, points, batch, whatIf, k, exclude)

\* Either every row of the model came with a variance or none.
Variance == {0, Len(points)}

\* batch_posterior, of two parameters; which backend found the neighbours makes no
\* difference to the numbers, so this question and the next are asked of the disk one.
AskBatch ==
  /\ Ready
  /\ \E batch \in Batches, params \in Params \X Params, exclude \in BOOLEAN,
        told \in Variance, noise \in BOOLEAN :
       /\ Asks("batch", [batch |-> batch, params |-> params,
                         exclude |-> exclude, told |-> told, noise |-> noise])
       /\ answer' \in BatchPosterior(TRUE, points, batch, params, exclude, told, noise)

\* posterior_function_draw, conditional_posterior_function_draw, of two seeds.
AskDraws ==
  /\ Ready
  /\ \E batch \in Batches, whatIf \in WhatIfs, p \in Params, exclude \in BOOLEAN,
        told \in Variance, noise \in BOOLEAN, base \in Bases :
       /\ Len(whatIf) < 2
       /\ Asks("draws", [whatIf |-> whatIf, k |-> p.k, exclude |-> exclude,
                         seeds |-> Seeds(base, 2)])
       /\ answer' \in FunctionDraw(TRUE, points, batch, whatIf, p, exclude, told, noise,
                                   Seeds(base, 2), Metrics)

\* select_arms, by each acquisition.
AskPareto ==
  /\ Alone
  /\ \E p \in Predictions, num \in ArmCounts :
       /\ Asks("pareto", [mu |-> p[1], se |-> p[2], num |-> num])
       /\ answer' \in ParetoArms(p[1], p[2], num)

AskHighest ==
  /\ Alone
  /\ \E scores \in Scores, num \in ArmCounts :
       /\ Asks("highest", [score |-> scores[1], num |-> num])
       /\ answer' \in Highest(scores[1], num)

AskRandom ==
  /\ Alone
  /\ \E n \in Sizes, num \in ArmCounts :
       /\ Asks("random", [n |-> n, num |-> num])
       /\ answer' \in Shuffled(n, num)

AskThompson ==
  /\ Alone
  /\ \E scores \in Scores :
       /\ Asks("thompson", [scores |-> scores])
       /\ answer' \in ThompsonArms(scores)

AskHypervolume ==
  /\ Alone
  /\ \E ys \in Objectives, ref \in {<<0, 0>>, <<1, 0>>} :
       /\ Asks("hypervolume", [ys |-> ys, ref |-> ref])
       /\ answer' = Hypervolume(ys, ref)

AskStrata ==
  /\ Alone
  /\ \E n \in Sizes : Asks("uniform", [n |-> n]) /\ answer' = Strata(n)

AskSample ==
  /\ Alone
  /\ \E n \in Sizes, p \in Sizes : Asks("uniform", [n |-> n, p |-> p]) /\ answer' = SamplePrefix(n, p)

AskMasked ==
  /\ Alone
  /\ \E n \in Sizes : \E heads \in 0..n :
       Asks("uniform", [n |-> n, heads |-> heads]) /\ answer' = Masked(n, heads)

AskPerturbed ==
  /\ Alone
  /\ \E w \in Weights : Asks("perturbed", [weights |-> w]) /\ answer' = Perturbed(w)

\* fit_calibrator
AskFit ==
  /\ Alone
  /\ \E t \in Targets :
       /\ Asks("fit", [mu |-> t[1], y |-> t[2], se |-> t[3]])
       /\ answer' = Fit(t[1], t[2], t[3])

\* predict, calibrated_posterior and calibrated_function_draw, of a draw and of the mean.
AskCalibrated ==
  /\ Alone
  /\ \E cal \in Calibrators, b \in Bounds, mu \in Reals, draw \in Reals, se \in 0..3 :
       /\ Asks("calibrated", [mu |-> mu, draw |-> draw, bounds |-> b])
       /\ answer' = [mu     |-> Predicted(cal, mu, se, b).mu,
                     draw   |-> Mapped(cal, draw, mu, se, b),
                     atMean |-> Mapped(cal, mu, mu, se, b)]

AskInterval ==
  /\ Alone
  /\ \E b \in Bounds, mu \in Reals, scale \in 0..2, crit \in 1..2, noise \in -3..3 :
       /\ Asks("interval", [mu |-> mu, bounds |-> b])
       /\ answer' = [interval |-> Interval(mu, scale, crit, b),
                     sample   |-> Sampled(mu, scale, noise, crit, b)]

\* select_with_thompson for one objective, of candidates with these warped means and draws.
AskSampled ==
  /\ Alone
  /\ \E cal \in Calibrators \cup {None}, b \in Bounds, mu \in [1..2 -> 0..1], z \in ArmDraws :
       LET scores == [arm \in DOMAIN z |-> [i \in 1..2 |-> Score(cal, z[arm][i], mu[i], 1, b)]]
       IN /\ Asks("sampled", [cal |-> cal, mu |-> mu, z |-> z, bounds |-> b])
          /\ answer' \in BestOfEach(scores)

\* integers_high
AskInteger ==
  /\ Alone
  /\ \E n \in Highs : Asks("integer", [n |-> n]) /\ answer' = IntegersHigh(n)

\* A run of calls of the generator.
AskWords ==
  /\ Alone
  /\ \E calls \in UNION {[1..n -> {"u32", "u64"}] : n \in Sizes} :
       Asks("words", [calls |-> calls]) /\ answer' = HalvesOf(calls)

\* Of an index built, written and opened again, or of spans of rows: a search down the
\* pages and a scan of all of them.
AskIndex ==
  /\ Alone
  /\ \E built \in Paged :
       LET pts == built.points IN
       \E index \in Index!Built(pts, built.capacity)
                      \cup {Index!Given(Index!OneLeaf(pts))}
                      \cup {Index!Given(Index!Forest(pts, cut)) : cut \in 2..Len(pts)},
          q \in {pts[1], Index!Mean(pts)}, k \in Ks, beam \in Beams, skip \in BOOLEAN :
         LET read == Index!Reopened(index)
         IN /\ Asks("index", [built |-> built, pages |-> index.pages, q |-> q,
                              k |-> k, beam |-> beam, skip |-> skip])
            /\ answer' = [read    |-> read.pages,
                          found   |-> Index!SearchIndex(read, q, k, beam, skip, pts, TRUE),
                          greedy  |-> Index!SearchIndex(index, q, k, beam, FALSE, pts, TRUE),
                          scanned |-> Index!ExhaustiveLeaves(read.pages, q, k, pts, TRUE)]

\* ENNFitter::ask
AskScale ==
  /\ Ready
  /\ Len(points) >= 2
  /\ \E drawn \in DrawnScales, warm \in SUBSET Params, infer \in BOOLEAN, p \in FitSizes,
        told \in Variance :
       LET params == ParamCandidates(drawn, warm, infer, drawn[1].k)
       IN /\ Cardinality(warm) <= 1
          /\ Asks("scale", [params |-> params, told |-> told, warm |-> warm])
          /\ answer' \in ScaleAsked(points, params, p, told, FitScores)

\* The same data in other units: a column of x, and y; and the columns of x in another order.
InUnit(l, j, c, t, e) ==
  [l EXCEPT !.x = [i \in DOMAIN @ |-> [@[i] EXCEPT ![j] = c * @ + t]],
            !.y = [i \in DOMAIN @ |-> [o \in DOMAIN @[i] |-> e * @[i][o] + t]]]

Reordered(l, order) ==
  [l EXCEPT !.x = [i \in DOMAIN @ |-> [j \in DOMAIN order |-> @[i][order[j]]]],
            !.tied = [g \in DOMAIN @ |-> [h \in DOMAIN @[g] |->
                        CHOOSE j \in DOMAIN order : order[j] = @[g][h]]]]

\* What is learned from some rows, and from them after a change.
Learned(l, changed) ==
  LET of == [d \in {l, changed} |-> Metric!AutoLearned(d.x, d.y, d.tied, d.k)]
  IN [learned |-> of[l], other |-> of[changed]]

\* auto_weights, of some rows and of the same rows in another unit.
AskMetric ==
  /\ Alone
  /\ \E l \in Learnings, c \in Factors, t \in Shifts, sign \in {-1, 1} :
       \E j \in DOMAIN l.x[1] :
         /\ Asks("metric", [data |-> l, column |-> j, factor |-> c])
         /\ answer' = Learned(l, InUnit(l, j, c, t, sign * c))

\* The same, of two columns that change places.
AskColumns ==
  /\ Alone
  /\ \E l \in Learnings :
       /\ Metric!TiedIsLegal(l.tied, Len(l.x[1]))
       /\ \E h, j \in DOMAIN l.x[1] :
            LET order == [i \in DOMAIN l.x[1] |-> CASE i = h -> j [] i = j -> h [] OTHER -> i]
            IN /\ h < j
               /\ Asks("columns", [data |-> l, order |-> order])
               /\ answer' = Learned(l, Reordered(l, order))

Return ==
  /\ question # None
  /\ question' = None /\ answer' = None
  /\ UNCHANGED points

Next ==
  \/ AskPosterior \/ AskConditional \/ AskBatch \/ AskDraws
  \/ AskPareto \/ AskHighest \/ AskRandom \/ AskThompson \/ AskHypervolume
  \/ AskStrata \/ AskSample \/ AskMasked \/ AskPerturbed
  \/ AskFit \/ AskCalibrated \/ AskInterval \/ AskSampled
  \/ AskInteger \/ AskWords \/ AskIndex
  \/ AskScale \/ AskMetric \/ AskColumns
  \/ Return

Spec == Init /\ [][Next]_vars

---------------------------------------------------------------------------
(* Properties.                                                             *)

Asked(kinds) == question # None /\ question.kind \in kinds

\* How many neighbours there are at each distance.
Profile(S) == [d \in {h[1] : h \in S} |-> Cardinality({h \in S : h[1] = d})]

\* The nearest rows of pts, without one that equals the query if that is asked for.
Neighbours(q, pts, k, exclude) ==
  LET hits == HitsOf(q, pts)
  IN First(IF exclude THEN hits \ First({h \in hits : h[1] = 0}, 1) ELSE hits, k)

\* posterior.rs, light.rs, model.rs: whichever backend and path answers a query, alone or
\* in a batch with others of which some are rows of the model and some not, it is from
\* the nearest rows, each once, the query's own left out if asked; it is from as many as
\* were asked for or there are other rows, so no answer rests on a padded column.
\* get_conditional_neighbor_data (neighbor.rs:403): and as long as there are more rows than
\* neighbours asked for, supposing rows is adding them: the neighbours of every query are
\* those it would have in a model that holds them.
NearestOf(pts, query, row, exclude) ==
  /\ row \subseteq HitsOf(query, pts)
  /\ Profile(row) = Profile(Neighbours(query, pts, Cardinality(row), exclude))
Enough(pts, row, k, exclude) ==
  Cardinality(row) \in Min({k, IF exclude THEN Len(pts) - 1 ELSE Len(pts)})..k

PosteriorNearest ==
  Asked({"posterior", "conditional"}) /\ answer.outcome = "rows" =>
    LET a   == question.args
        pts == IF question.kind = "conditional" THEN points \o a.whatIf ELSE points
    IN question.kind = "posterior" \/ Len(pts) > a.k \/ ~a.exclude =>
         \A i \in DOMAIN answer.rows :
           /\ NearestOf(pts, a.batch[i], answer.rows[i], a.exclude)
           /\ Enough(pts, answer.rows[i], a.k, a.exclude)

SameNumbers(x, y) ==
  /\ x.w = y.w
  /\ \A c \in {"mu", "se", "epi", "ale"} : x[c][1] * y[c][2] = y[c][1] * x[c][2]

\* posterior.rs, light.rs: a query of many asked with many parameters gets the numbers it
\* gets alone, with one, whether the neighbours were searched once for all parameters or
\* for each, by the fused path or the weighted one, as long as there are more rows than
\* neighbours asked for.  fit.rs, fitter.rs: so a row of the sample by which scales are
\* compared is predicted by the other rows alone, for every candidate, if no other row
\* equals it; and the scales kept score no worse than any candidate, those in use included,
\* which are kept if nothing is better.
BatchAsSingle ==
  /\ Asked({"batch"}) =>
       LET a == question.args
           alone(p, q) == PosteriorNumbers(TRUE, points, <<q>>, p, a.exclude, a.told, a.noise)
       IN \A j \in DOMAIN a.params, i \in DOMAIN a.batch :
            Len(points) > a.params[j].k \/ ~a.exclude =>
              \E r \in alone(a.params[j], a.batch[i]) :
                /\ answer.outcome = r.outcome
                /\ r.outcome = "rows" => SameNumbers(answer.numbers[j][i], r.numbers[1])
  /\ Asked({"scale"}) =>
       LET a == question.args
           of(j) == answer.score[answer.numbers[j]]
           last  == Len(a.params)
       IN /\ \A j \in DOMAIN a.params, i \in DOMAIN answer.rows :
               LET q == points[answer.rows[i]]
                   others == HitsOf(q, points) \ {<<0, answer.rows[i]>>}
               IN (\A h \in others : h[1] > 0) =>
                    \E S \in Nearest(others, a.params[j].k) :
                      SameNumbers(answer.numbers[j][i], Stats(S, a.params[j], a.told, TRUE))
          /\ \A j \in DOMAIN a.params : of(j) <= of(answer.best)
          /\ a.warm # {} /\ of(last) = of(answer.best) => answer.best = last

\* draw_compute.rs, hash.rs: a draw moves its mean by a noise of every neighbour, as its
\* weight says, and a row supposed or stored has in one function one noise, whichever query
\* it is near to; two neighbours, two functions, two metrics and the noise of the
\* observation share none.  So a draw has the variance the posterior states, and the
\* functions are independent.
DrawsFollowPosterior ==
  Asked({"draws"}) /\ answer.outcome # "refused" =>
    LET a       == question.args
        asked   == (DOMAIN a.seeds) \X Metrics
        key(f, h) == NoiseKey(a.seeds[f[1]], h[2] - 1, f[2])
        draw(f, i) == answer.draws[f[1]][f[2]][i]
        ofRow(f, i) == DOMAIN draw(f, i).terms
    IN Len(points) + Len(a.whatIf) > a.k \/ ~a.exclude =>
         /\ answer.outcome = "draws"
         /\ \A f \in asked, i \in DOMAIN answer.idx :
              /\ Cardinality(ofRow(f, i)) = Cardinality(answer.idx[i])
              /\ \A h \in answer.idx[i] : draw(f, i).terms[key(f, h)] = answer.stats[i].w[h]
              /\ \A g \in asked, j \in DOMAIN answer.idx :
                   /\ f # g => ofRow(f, i) \cap ofRow(g, j) = {}
                   /\ <<f, i>> # <<g, j>> => draw(f, i).ale \cap draw(g, j).ale = {}
                   /\ ofRow(f, i) \cap draw(g, j).ale = {}

\* The candidates of a chain that ends in i, each dominating the next.
RECURSIVE Depth(_, _)
Depth(obj, i) ==
  LET above == {j \in DOMAIN obj : Dominates(obj[j], obj[i])}
  IN IF above = {} THEN 1 ELSE 1 + Max({Depth(obj, j) : j \in above})

\* Each arm is a candidate whose draw for that arm, in units of y, is the highest.
NaturalDraw(a, arm, i) ==
  IF a.cal = None THEN Natural(a.z[arm][i], a.bounds)
  ELSE Mapped(a.cal, Natural(a.z[arm][i], a.bounds), Natural(a.mu[i], a.bounds), 1, a.bounds)
ArmsAreHighest(a) ==
  \A arm \in DOMAIN a.z, i \in DOMAIN a.mu :
    NaturalDraw(a, arm, answer[arm]) >= NaturalDraw(a, arm, i)

\* strategy/select.rs, acquisition.rs: Pareto, UCB, random and the Thompson of several
\* objectives choose as many different arms as are asked for or there are candidates, and
\* no candidate that Pareto leaves out lies in a better front, none that UCB leaves out has
\* a better score.  The Thompson of one objective, of a surrogate without a calibrator,
\* gives every arm the best of its own draw in units of y; one candidate may be best of
\* several draws.
ArmsAreBest ==
  /\ Asked({"pareto"}) =>
       LET obj == Interleaved(question.args.mu, question.args.se)
       IN /\ Cardinality(answer) = Min({question.args.num, Len(obj)})
          /\ \A i \in answer, j \in DOMAIN obj \ answer : Depth(obj, i) <= Depth(obj, j)
  /\ Asked({"highest"}) =>
       LET score == question.args.score
       IN /\ IsInjective(answer) /\ Len(answer) = Min({question.args.num, Len(score)})
          /\ \A i \in ToSet(answer), j \in DOMAIN score \ ToSet(answer) : score[i] >= score[j]
  /\ Asked({"random"}) =>
       /\ IsInjective(answer) /\ Len(answer) = Min({question.args.num, question.args.n})
       /\ ToSet(answer) \subseteq 1..question.args.n
  /\ Asked({"sampled"}) /\ question.args.cal = None => ArmsAreHighest(question.args)
  /\ Asked({"thompson"}) =>
       Cardinality(ToSet(answer)) = Min({Len(answer), Len(question.args.scores[1])})

\* "scalar Thompson must per-draw-argmax naturalized samples"
\* (strategy/tests_selection.rs:353), with a calibrator as without one.
ThompsonScoresNatural == Asked({"sampled"}) => ArmsAreHighest(question.args)

\* hypervolume.rs: the strips the walk adds up cover each unit of area that some point
\* dominates once, whatever points are dominated, equal or level with one another.
HypervolumeIsArea ==
  Asked({"hypervolume"}) =>
    LET ys  == question.args.ys
        ref == question.args.ref
        reach == 0..Max({0} \cup {ys[i][1] : i \in DOMAIN ys} \cup {ys[i][2] : i \in DOMAIN ys})
    IN answer = Cardinality({c \in reach \X reach :
                  c[1] >= ref[1] /\ c[2] >= ref[2] /\ \E i \in DOMAIN ys :
                    c[1] < ys[i][1] /\ c[2] < ys[i][2]})

\* calibration.rs, normal_sample.rs: no line does better on the rows a calibrator is fitted
\* to, the predictions as they were among them (only they, if the predictions are all
\* equal), and the scaled errors are on average as large as what is left.  A calibrated
\* mean and its draws lie strictly within the bounds, a draw stays on its side of the mean,
\* and a draw that is the mean becomes the predicted one; an interval holds the mean and
\* every sample whose noise is cut where the interval ends, and reaches over no bound.
PredictionsCalibrated ==
  /\ Asked({"fit"}) =>
       LET a    == question.args
           line == answer.line
           left(l) == LET r == Residuals(l, a.mu, a.y) IN SumOf(Product(r, r))
           all  == SumOf(Product(a.se, a.se))
       IN /\ \A l \in [a : -2..2, b : -2..2, det : {1}] :
               Cardinality(ToSet(a.mu)) > 1 \/ (l.a = 0 /\ l.b = 1) =>
                 left(line) <= line.det * line.det * left(l)
          /\ all > 0 => answer.c2[1] * line.det * line.det * all = answer.c2[2] * left(line)
  /\ Asked({"calibrated"}) =>
       LET a == question.args
       IN /\ Inside(answer.mu, a.bounds) /\ Inside(answer.draw, a.bounds)
          /\ answer.atMean = answer.mu
          /\ a.draw >= a.mu => answer.draw >= answer.mu
          /\ a.draw <= a.mu => answer.draw <= answer.mu
  /\ Asked({"interval"}) =>
       LET i == answer.interval
           s == answer.sample
       IN /\ (i.outcome = "refused") = (s.outcome = "refused")
          /\ i.outcome # "refused" =>
               /\ Within(i.lo, question.args.bounds) /\ Within(i.hi, question.args.bounds)
               /\ i.lo <= question.args.mu /\ question.args.mu <= i.hi
               /\ i.lo <= s.y /\ s.y <= i.hi

\* build.rs, kmeans.rs, search.rs, page.rs: however the clusters fall, points that are equal
\* included, the leaves divide the rows, none holds more than it may, and pages read back
\* are written as they were.  A scan of them is a brute force, and so is a search that
\* follows every child where there are no more leaves than it takes; no search names a row
\* twice, and skip edges followed from pages that were read back only add: no neighbour is
\* farther than the one the plain search of the pages as built has in its place.
PagesFindRows ==
  Asked({"index"}) =>
    LET a      == question.args
        pts    == a.built.points
        pages  == answer.read
        leaves == Index!Leaves(pages)
        few    == Cardinality(leaves) <= MaxLeaves
        exact  == Index!BruteForceTopK(pts, a.q, a.k)
    IN /\ UNION {Index!RowIds(pages[p]) : p \in leaves} = DOMAIN pts
       /\ \A p, o \in leaves : p # o => Index!RowIds(pages[p]) \cap Index!RowIds(pages[o]) = {}
       /\ \A p \in leaves : Len(pages[p].coords) <= a.built.capacity
       /\ Index!OnDisk(pages) = Index!OnDisk(a.pages)
       /\ answer.scanned = exact
       /\ few /\ (\A p \in DOMAIN pages \ leaves : Len(pages[p].kids) <= a.beam) =>
            answer.found = exact
       /\ Cardinality({answer.found[i][2] : i \in DOMAIN answer.found}) = Len(answer.found)
       /\ few => \A i \in DOMAIN answer.greedy :
            i \in DOMAIN answer.found /\ ~Index!Ahead(answer.greedy[i], answer.found[i])

\* y is one of two values, by which of two a column has; a column in whose lower and upper
\* half y is as high.
Halved(col) == Cardinality(ToSet(col)) = 2 /\ \A v \in ToSet(col) :
                 2 * Cardinality({i \in DOMAIN col : col[i] = v}) = Len(col)
Decides(col, y) == Halved(col) /\ \A i, r \in DOMAIN col : (col[i] = col[r]) = (y[i] = y[r])
Idle(col, y) ==
  LET lower == {i \in DOMAIN col : 2 * Cardinality({r \in DOMAIN col : col[r] < col[i]}) < Len(col)}
  IN /\ IsInjective(col)
     /\ Size(MapThenSumSet(LAMBDA i : y[i], lower)
             - MapThenSumSet(LAMBDA i : y[i], DOMAIN col \ lower)) <= 1

\* metric_sobol.rs, metric_weights.rs, metric_loo.rs: a metric is learned from the data, not
\* from how they are written.  In another unit of a column or of y every column keeps its
\* part in a distance, a tied one its weight, so each row has the same other rows as its
\* neighbours; columns and groups in another order take their weights with them; those of
\* a group share one, and none loses its weight altogether.  A column that decides y has a
\* larger part than one that tells nothing of it.
WeightsFollowData ==
  /\ Asked({"metric", "columns"}) => answer.learned.outcome = answer.other.outcome
  /\ Asked({"metric"}) /\ answer.learned.outcome = "learned" =>
       LET a    == question.args
           x    == a.data.x
           w    == answer.learned.weights
           v    == answer.other.weights
           near == answer.learned.neighbours
           col(j)  == [i \in DOMAIN x |-> x[i][j]]
           y    == [i \in DOMAIN x |-> a.data.y[i][1]]
           tied(j) == \E g \in DOMAIN a.data.tied : j \in ToSet(a.data.tied[g])
           part == IF tied(a.column) \/ Cardinality(ToSet(col(a.column))) = 1 THEN 1
                   ELSE a.factor * a.factor
           spread(j) == LET n == Len(x) IN
                          n * SumOf(Product(col(j), col(j))) - SumOf(col(j)) * SumOf(col(j))
       IN /\ \A j \in DOMAIN w :
               /\ w[j][1] > 0
               /\ v[j][1] * w[j][2] * (IF j = a.column THEN part ELSE 1) = w[j][1] * v[j][2]
          /\ ~tied(a.column) => answer.other.neighbours = near
          /\ \A i \in DOMAIN near :
               LET others == {h[1] : h \in near[i]}
               IN others \subseteq DOMAIN x \ {i} /\ Cardinality(others) = Min({a.data.k, Len(x) - 1})
          /\ \A g \in DOMAIN a.data.tied :
               Cardinality({w[j] : j \in ToSet(a.data.tied[g])}) = 1
          /\ Len(a.data.y[1]) = 1 =>
               \A j, i \in DOMAIN w :
                 ~tied(j) /\ ~tied(i) /\ Decides(col(j), y) /\ Idle(col(i), y) =>
                   w[j][1] * w[i][2] * spread(j) > w[i][1] * w[j][2] * spread(i)
  /\ Asked({"columns"}) /\ answer.learned.outcome = "learned" =>
       /\ answer.other.neighbours = answer.learned.neighbours
       /\ \A j \in DOMAIN question.args.order :
            answer.other.weights[j] = answer.learned.weights[question.args.order[j]]

\* candidates.rs, calibration.rs, numpy_pcg.rs: a random choice reaches every permutation of
\* strata, every set of rows or coordinates of its size, every integer below a bound, by as
\* many draws as every other, and a coordinate of RAASP by as many as its length scale
\* says; no two draws of a generator use the same half of a word.
ChoicesFair ==
  /\ Asked({"uniform"}) =>
       LET s == CHOOSE e \in DOMAIN answer : TRUE
       IN \A t \in DOMAIN answer : answer[s] = answer[t]
  /\ Asked({"perturbed"}) =>
       LET w == question.args.weights
       IN (\E j \in DOMAIN w : w[j] > 0) =>
            \A j \in DOMAIN w : w[j] = (IF j \in DOMAIN answer THEN answer[j] ELSE 0)
  /\ Asked({"integer"}) =>
       /\ DOMAIN answer = 0..question.args.n - 1
       /\ \A r \in DOMAIN answer : answer[r] = answer[0]
  /\ Asked({"words"}) =>
       \A i, j \in DOMAIN answer : i # j => answer[i] \cap answer[j] = {}
=============================================================================
