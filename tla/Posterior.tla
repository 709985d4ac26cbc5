------------------------------ MODULE Posterior ------------------------------
(***************************************************************************)
(* The neighbours a posterior is computed from (ennbo/src/posterior/,      *)
(* model.rs, index.rs): every caller searches the backend, some with a     *)
(* place to spare for the query's own row, cuts what comes back, and the   *)
(* conditional posterior mixes in rows that are only supposed.             *)
(*                                                                         *)
(* A posterior is a weighted sum over its neighbours, so a row of an       *)
(* answer is a set of hits <<distance, row>>.  Points have one coordinate, *)
(* for which the distance orders as its square does; a backend searches as *)
(* TreeSearch shows (disk), or is Faiss (memory), which takes any of the   *)
(* rows that are equally near.                                             *)
(***************************************************************************)
EXTENDS Integers, Sequences, FiniteSetsExt

CONSTANTS
  Oversample   \* FAISS_F64_OVERSAMPLE

ASSUME PosteriorAssumption == Oversample \in Nat

Distance(a, b) == IF a < b THEN b - a ELSE a - b
HitsOf(q, pts) == {<<Distance(q, pts[i]), i>> : i \in DOMAIN pts}

Before(g, h) == g[1] < h[1] \/ (g[1] = h[1] /\ g[2] < h[2])
First(S, k) == {h \in S : Cardinality({g \in S : Before(g, h)}) < k}

\* Any k nearest.
Nearest(S, k) ==
  {T \in kSubset(Min({k, Cardinality(S)}), S) : \A h \in T, g \in S \ T : h[1] <= g[1]}

\* apply_exclude_nearest_identity: the row in the first column goes if it is the query.
WithoutSelf(S) ==
  LET own == {h \in S : h[1] = 0}
  IN IF own = {} THEN {S} ELSE {S \ {h} : h \in own}

Found(disk, q, pts, k, exclude) ==
  LET hits == HitsOf(q, pts)
      pool == First(hits, IF exclude THEN k + 1 ELSE k)
  IN IF disk
     THEN {First(IF exclude THEN pool \ First({h \in pool : h[1] = 0}, 1) ELSE pool, k)}
     ELSE UNION {IF exclude THEN WithoutSelf(S) ELSE {S} : S \in Nearest(hits, k)}

\* index_search: the first k columns; a column no row fills is left out of the set.
IndexSearch(disk, q, pts, k, exclude) ==
  LET fetch == Min({IF disk THEN k ELSE k + Oversample, Len(pts)})
  IN {First(S, k) : S \in Found(disk, q, pts, fetch, exclude)}

---------------------------------------------------------------------------
(* Answers: rows of neighbours, one for each query. *)

Rows(rows)    == [outcome |-> "rows", rows |-> rows]
Failed(how)   == [outcome |-> how, rows |-> <<>>]
NoRows(batch) == Rows([i \in DOMAIN batch |-> {}])

\* One possible row for each query.
PerQuery(batch, Of(_)) ==
  {c \in [DOMAIN batch -> UNION {Of(batch[i]) : i \in DOMAIN batch}] :
     \A i \in DOMAIN batch : c[i] \in Of(batch[i])}

Cut(rows, k) == [i \in DOMAIN rows |-> First(rows[i], k)]

\* Mutant: no place to spare for the query's own row.
SearchKOfAnswer(n, k, exclude) == Min({k, n})
\* search_k
SearchK(n, k, exclude) == Min({IF exclude THEN k + 1 ELSE k, n})

\* get_neighbor_data: as many columns as every row of the batch fills.
Weighted(disk, pts, batch, k, exclude) ==
  LET searchK == SearchK(Len(pts), k, exclude)
      width(rows) == Min({k, searchK} \cup {Cardinality(rows[i]) : i \in DOMAIN rows})
  IN IF pts = <<>> THEN {NoRows(batch)}
     ELSE IF exclude /\ Len(pts) <= 1 THEN {Failed("refused")}
     ELSE {Rows(Cut(rows, width(rows))) :
             rows \in PerQuery(batch, LAMBDA q : IndexSearch(disk, q, pts, searchK, exclude))}

\* compute_posterior_light: one column fewer than were searched for.
Light(disk, pts, batch, k, exclude) ==
  LET searchK == SearchK(Len(pts), k, exclude)
      width   == Min({k, IF exclude THEN searchK - 1 ELSE searchK})
  IN IF pts = <<>> THEN {NoRows(batch)}
     ELSE IF exclude /\ Len(pts) <= 1 THEN {Failed("refused")}
     ELSE {Rows(Cut(rows, width)) :
             rows \in PerQuery(batch, LAMBDA q : IndexSearch(disk, q, pts, searchK, exclude))}

\* neighbors_one, of one query.
Neighbors(disk, pts, q, k, exclude) ==
  IF pts = <<>> THEN {NoRows(<<q>>)}
  ELSE IF exclude /\ Len(pts) <= 1 THEN {Failed("refused")}
  ELSE {Rows(<<T>>) : T \in UNION {Nearest(S, k) :
                        S \in Found(disk, q, pts, SearchK(Len(pts), k, exclude), exclude)}}

---------------------------------------------------------------------------
(* get_conditional_neighbor_data.  The batch has as many columns as its    *)
(* first row: in a shorter row the others are left at distance zero and y  *)
(* zero, and a longer one is written past its place.                       *)

Phantoms(n) == {<<0, -j>> : j \in 1..n}

Filled(rows) ==
  LET width == Cardinality(rows[1])
  IN IF \E i \in DOMAIN rows : width > 0 /\ Cardinality(rows[i]) > width THEN Failed("panic")
     ELSE Rows([i \in DOMAIN rows |->
                  IF width = 0 THEN {} ELSE rows[i] \cup Phantoms(width - Cardinality(rows[i]))])

\* train_search_k
TrainK(searchK, n) == Min({searchK, n})

Supposed(q, n, whatIf) == {<<Distance(q, whatIf[j]), n + j>> : j \in DOMAIN whatIf}

Mixed(disk, q, pts, whatIf, k, exclude) ==
  LET searchK == SearchK(Len(pts) + Len(whatIf), k, exclude)
      trainK  == TrainK(searchK, Len(pts))
      train   == IF trainK = 0 THEN {{}} ELSE IndexSearch(disk, q, pts, trainK, FALSE)
      pools   == UNION {Nearest(S \cup Supposed(q, Len(pts), whatIf), searchK) : S \in train}
      others  == UNION {IF exclude THEN WithoutSelf(S) ELSE {S} : S \in pools}
  IN UNION {Nearest(S, k) : S \in others}

ConditionalRows(disk, pts, batch, whatIf, k, exclude) ==
  IF exclude /\ Len(pts) + Len(whatIf) <= 1 THEN {Failed("refused")}
  ELSE {Filled(rows) :
          rows \in PerQuery(batch, LAMBDA q : Mixed(disk, q, pts, whatIf, k, exclude))}

\* compute_conditional_posterior_internals
Conditional(disk, pts, batch, whatIf, k, exclude) ==
  IF whatIf = <<>> THEN Weighted(disk, pts, batch, k, exclude)
  ELSE ConditionalRows(disk, pts, batch, whatIf, k, exclude)
=============================================================================
