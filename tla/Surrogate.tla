------------------------------ MODULE Surrogate ------------------------------
(***************************************************************************)
(* ENNSurrogate (ennbo/src/surrogate.rs, surrogate_state.rs): a model and  *)
(* what was fitted to it, which fit replaces, fit_append extends and       *)
(* clear_observations drops, with the store of a disk model.               *)
(*                                                                         *)
(* On disk a model that is dropped leaves its store behind, and a          *)
(* constructor given rows refuses a store that has some                    *)
(* (bpann/src/backend.rs).  Faults adds, to those of the model:            *)
(*   fit      the scale search or the calibrator fails                     *)
(*   release  observation pages cannot be released                         *)
(*   remove   the store cannot be removed                                  *)
(***************************************************************************)
EXTENDS EnnModel, Fitter

CONSTANTS
  Bulk  \* BULK_DISK_TELL_SKIP_FIT_ROWS

ASSUME SurrogateAssumption == Bulk \in Nat \ {0}

VARIABLES
  config,    \* the layout, whether scales are frozen, and whether they are calibrated
  surrogate, \* what is fitted: a FitState without its model
  left       \* rows in the store while no model is open

surrogateVars == <<config, surrogate, left>>

Unfitted == [state |-> "unfitted", params |-> None, calibrator |-> None, fitter |-> None]

\* start_model, once the model is there.
FrozenFit == [Unfitted EXCEPT !.state = "frozen", !.params = "default"]
SearchedFit(n, warm) ==
  [state |-> "searched", params |-> warm, calibrator |-> None,
   fitter |-> FitterTold(NewFitter, 1..n)]

\* Mutant: a tell in memory skips the search once there are scales, too.
AppendPlanOnce(n, hasParams, initial) ==
  LET disk == config.layout.disk
      bulk == disk /\ n >= Bulk
      skip == bulk \/ hasParams
      act  == IF initial THEN config.frozen \/ ~bulk ELSE ~skip \/ bulk
  IN [sync    |-> act /\ (initial => disk),
      search  |-> ~config.frozen /\ IF initial THEN ~bulk ELSE ~skip,
      release |-> act /\ (initial => disk)]

\* AppendPlan::new
AppendPlan(n, hasParams, initial) ==
  LET disk == config.layout.disk
      bulk == disk /\ n >= Bulk
      skip == bulk \/ (disk /\ hasParams)
      act  == IF initial THEN config.frozen \/ ~bulk ELSE ~skip \/ bulk
  IN [sync    |-> act /\ (initial => disk),
      search  |-> ~config.frozen /\ IF initial THEN ~bulk ELSE ~skip,
      release |-> act /\ (initial => disk)]

---------------------------------------------------------------------------
(* What a call may leave: the surrogate, the model (or None), the rows in  *)
(* a store without model, and whether the call succeeded.                  *)

Result(s, m, rows, ok) == [surrogate |-> s, model |-> m, left |-> rows, ok |-> ok]

\* The rows of the store of a model that is dropped.
LeftBy(m) == IF m.layout.disk THEN m.rows ELSE 0

Fails(fault) == IF fault \in Faults THEN {TRUE, FALSE} ELSE {FALSE}

\* search_scales
Searches(s, m) ==
  {IF r.ok THEN Result([s EXCEPT !.fitter = r.fitter, !.params = r.fitter.params,
                                 !.calibrator = r.fitter.calibrator], m, 0, TRUE)
   ELSE Result([s EXCEPT !.fitter = r.fitter], m, 0, FALSE)
   : r \in FitterAsked(s.fitter, m.obs, config.calibrates, "fit" \in Faults)}

\* apply_plan: the first of sync, search and release that fails ends it.
Planned(s, m, plan) ==
  LET synced == IF ~plan.sync THEN {Result(s, m, 0, TRUE)}
                ELSE {IF fails THEN Result(s, m, 0, FALSE) ELSE Result(s, Synced(m), 0, TRUE)
                      : fails \in IF m.layout.disk THEN Fails("flush") ELSE {FALSE}}
      searched(r) == IF r.ok /\ plan.search THEN Searches(r.surrogate, r.model) ELSE {r}
      released(r) == IF r.ok /\ plan.release /\ m.layout.disk
                     THEN {[r EXCEPT !.ok = ~fails] : fails \in Fails("release")} ELSE {r}
  IN UNION {released(r) : r \in UNION {searched(q) : q \in synced}}

\* start_model of n rows over a store with the rows left there.
Started(n, warm, rows) ==
  LET layout  == config.layout
      refused == layout.disk /\ rows > 0
      made    == IF layout.auto THEN AutoEnabled(NewModel(layout, n), {}, n)
                 ELSE {Ok(NewModel(layout, n))}
      begun   == IF config.frozen THEN FrozenFit ELSE SearchedFit(n, warm)
  IN IF refused THEN {Result(Unfitted, None, rows, FALSE)}
     ELSE UNION {IF q.ok THEN Planned(begun, q.model, AppendPlan(n, FALSE, TRUE))
                 ELSE {Result(Unfitted, None, LeftBy(q.model), FALSE)} : q \in made}

\* fit_append of a surrogate that has a model.
Appended(n) ==
  LET s == surrogate
      told == IF s.state = "searched"
              THEN [s EXCEPT !.fitter = FitterTold(@, model.rows + 1..model.rows + n)] ELSE s
      plan == AppendPlan(n, s.params # None, FALSE)
  IN UNION {IF r.ok THEN Planned(told, r.model, plan) ELSE {Result(s, r.model, 0, FALSE)}
            : r \in Added(model, n)}

\* clear_observations: a store is removed with the model that was open on it.
Cleared ==
  IF model = None THEN {Result(Unfitted, None, left, TRUE)}
  ELSE IF ~model.layout.disk THEN {Result(Unfitted, None, 0, TRUE)}
  ELSE {Result(Unfitted, None, IF fails THEN LeftBy(model) ELSE 0, ~fails)
        : fails \in Fails("remove")}
       \cup (IF "flush" \in Faults THEN {Result(surrogate, model, 0, FALSE)} ELSE {})

---------------------------------------------------------------------------
SurrogateInit ==
  /\ config \in [layout : Layouts, frozen : BOOLEAN, calibrates : BOOLEAN]
  /\ surrogate = Unfitted
  /\ left = 0

\* The bound is one failed call since the model was made or none was open.
Leaves(results, fresh) ==
  \E r \in results :
    /\ r.ok \/ intact
    /\ surrogate' = r.surrogate
    /\ model' = r.model
    /\ left' = r.left
    /\ intact' = ((intact \/ fresh) /\ r.ok)

Fit(n) ==
  /\ n <= Len(data)
  /\ Leaves(Started(n, surrogate.params,
                    IF surrogate.state = "unfitted" THEN left ELSE LeftBy(model)), TRUE)
  /\ UNCHANGED <<data, direct, config>>

FitAppend(n) ==
  /\ IF model = None
     THEN n <= Len(data) /\ Leaves(Started(n, None, left), TRUE)
     ELSE model.rows + n <= Len(data) /\ Leaves(Appended(n), FALSE)
  /\ UNCHANGED <<data, direct, config>>

ClearObservations ==
  /\ Leaves(Cleared, TRUE)
  /\ UNCHANGED <<data, direct, config>>

SurrogateNext ==
  \/ \E n \in Batches : Fit(n) \/ FitAppend(n)
  \/ ClearObservations

---------------------------------------------------------------------------
(* Properties.                                                             *)

\* surrogate.rs: as long as no call failed, what is fitted is fitted to the model that is
\* there: the fitter was told its rows and no other, and in memory scales and calibrator
\* are those of all rows.  On disk, where a search is put off by big tells and not done
\* again, they are of rows the model has, and of the same: there is no calibrator to
\* scales of other rows, and none is missing beside scales that were found.
FitsItsModel ==
  intact /\ surrogate.state # "unfitted" =>
    LET s == surrogate
    IN IF s.state = "frozen" THEN s.params = "default" /\ s.calibrator = None
       ELSE /\ s.fitter.told = SetToBag(1..model.obs)
            /\ s.calibrator = IF config.calibrates THEN s.params ELSE None
            /\ IF config.layout.disk THEN s.params \in {None} \union 1..model.obs
               ELSE s.params = model.obs
==============================================================================
