----------------------------- MODULE Acquisition -----------------------------
(***************************************************************************)
(* The choice of arms among candidates (ennbo/src/acquisition.rs, util.rs, *)
(* strategy/select.rs) and the hypervolume of a front (hypervolume.rs).    *)
(* Every operator gives the set of outcomes the generator can lead to.     *)
(* Candidates are numbered from 1; an objective is maximised.              *)
(***************************************************************************)
EXTENDS Integers, Sequences, SequencesExt, FiniteSetsExt

\* The first of some candidates in an order.
Leading(order, num) == SubSeq(order, 1, Min({num, Len(order)}))

\* A shuffled order, sorted by score (UCBAcquisition::select, Morbo's UCB).
Highest(score, num) ==
  {Leading(order, num) : order \in {o \in SetToSeqs(DOMAIN score) :
     \A r \in 2..Len(o) : score[o[r - 1]] >= score[o[r]]}}

\* RandomAcquisition::select
Shuffled(n, num) == {Leading(order, num) : order \in SetToSeqs(1..n)}

---------------------------------------------------------------------------
(* Non-dominated sorting: a sequence of fronts. *)

Dominates(a, b) ==
  /\ \A c \in DOMAIN a : a[c] >= b[c]
  /\ \E c \in DOMAIN a : a[c] > b[c]

\* Mutant: of candidates with the same first objective, one with a lower second is kept.
SkylineOfFirst(obj, left) ==
  {i \in left : \A j \in left : obj[j][1] > obj[i][1] => obj[j][2] < obj[i][2]}
\* pareto_front_2d_maximize: in descending order, what exceeds the best second objective
\* so far, or equals the last one kept.
Skyline(obj, left) ==
  LET before(j, i) == \/ obj[j][1] > obj[i][1]
                      \/ obj[j][1] = obj[i][1] /\ obj[j][2] > obj[i][2]
  IN {i \in left : \A j \in left : before(j, i) => obj[j][2] < obj[i][2]}

RECURSIVE Peeled(_, _)
Peeled(obj, left) ==
  IF left = {} THEN <<>>
  ELSE <<Skyline(obj, left)>> \o Peeled(obj, left \ Skyline(obj, left))

\* non_domin_sort: a candidate joins the front after the one that holds the last of its
\* dominators.
RECURSIVE Layered(_, _, _)
Layered(obj, done, front) ==
  LET dominators(i) == {j \in DOMAIN obj : Dominates(obj[j], obj[i])}
      next == {i \in DOMAIN obj \ (done \cup front) : dominators(i) \subseteq done \cup front}
  IN IF front = {} THEN <<>> ELSE <<front>> \o Layered(obj, done \cup front, next)

Undominated(obj) ==
  {i \in DOMAIN obj : \A j \in DOMAIN obj : ~Dominates(obj[j], obj[i])}

\* interleave_mu_se
Interleaved(mu, se) ==
  [i \in DOMAIN mu |->
     [c \in 1..2 * Len(mu[i]) |-> IF c % 2 = 1 THEN mu[i][(c + 1) \div 2] ELSE se[i][c \div 2]]]

Fronts(mu, se) ==
  LET obj == Interleaved(mu, se)
  IN IF Len(mu[1]) = 1 THEN Peeled(obj, DOMAIN obj) ELSE Layered(obj, {}, Undominated(obj))

Holds(fronts) == UNION ToSet(fronts)

\* ParetoAcquisition::select, arms_from_pareto_fronts: whole fronts as long as they fit,
\* and a choice from the one that does not.
ParetoArms(mu, se, num) ==
  LET fronts == Fronts(mu, se)
      whole  == Max({m \in 0..Len(fronts) : Cardinality(Holds(SubSeq(fronts, 1, m))) <= num})
      kept   == Holds(SubSeq(fronts, 1, whole))
  IN IF whole = Len(fronts) THEN {kept}
     ELSE {kept \cup S : S \in kSubset(num - Cardinality(kept), fronts[whole + 1])}

---------------------------------------------------------------------------
(* select_with_thompson for several objectives: one draw of scores for     *)
(* each arm, in which the arms chosen before count as -inf.                *)

\* argmax_random_tie among the candidates that do not count as -inf, or all if all do.
Argmax(score, taken) ==
  LET open == IF DOMAIN score \subseteq taken THEN {} ELSE DOMAIN score \ taken
  IN IF open = {} THEN DOMAIN score
     ELSE {i \in open : \A j \in open : score[i] >= score[j]}

Taken(arms, a) == {arms[b] : b \in 1..a - 1}

ThompsonArms(scores) ==
  {arms \in [DOMAIN scores -> DOMAIN scores[1]] :
     \A a \in DOMAIN scores : arms[a] \in Argmax(scores[a], Taken(arms, a))}

---------------------------------------------------------------------------
(* hypervolume_2d_max *)

Descending(ys) == SortSeq(ys, LAMBDA p, q : p[1] > q[1])

\* Mutant: each strip is as high as its own point.
OwnHeight(s, i) == s[i][2]
Height(s, i) == Max({s[j][2] : j \in 1..i})

Hypervolume(ys, ref) ==
  LET s == Descending(SelectSeq(ys, LAMBDA p : p[1] > ref[1] /\ p[2] > ref[2]))
      next(i) == IF i < Len(s) THEN s[i + 1][1] ELSE ref[1]
  IN MapThenSumSet(LAMBDA i : (s[i][1] - next(i)) * (Height(s, i) - ref[2]), DOMAIN s)
=============================================================================
