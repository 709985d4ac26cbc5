--------------------------- MODULE IncrementalFit ---------------------------
(***************************************************************************)
(* IncrementalFit (ennbo/src/incremental_fit.rs) and the Python model that *)
(* owns one (enn-py/src/py_model.rs, py_fit.rs): add hands out a token,    *)
(* and ask, given the token of the latest add, tells the fitter its rows.  *)
(* A model opened again has a new owner; tokens outlive both.              *)
(***************************************************************************)
EXTENDS EnnModel, Fitter

CONSTANTS
  FitKs,       \* the neighbor counts asked for
  FitSeeds,    \* the fitter seeds asked for
  MaxOwners    \* bound on how often a model is opened

ASSUME IncrementalFitAssumption == MaxOwners \in Nat \ {0}

VARIABLES
  fit,     \* owner, generation, pending add and frozen fitter
  handed,  \* history: the rows the caller added for each token
  asked    \* history: the tokens this owner took, in order

fitVars == <<fit, handed, asked>>

\* No ask has made a fitter yet.
NoFrozen == [none |-> TRUE]

NewFit(owner) == [owner |-> owner, generation |-> 0, pending |-> None, frozen |-> NoFrozen]

\* check_frozen
Unfrozen(k, seed) == fit.frozen # NoFrozen => fit.frozen.k = k /\ fit.frozen.seed = seed

\* Mutant: only the generation of a token is compared.
TakesAnyOwner(token) == fit.pending # None /\ fit.pending.generation = token.generation

\* take
Takes(token) ==
  /\ token.owner = fit.owner
  /\ fit.pending # None
  /\ fit.pending.generation = token.generation

---------------------------------------------------------------------------
FitInit ==
  /\ fit = NewFit(1)
  /\ handed = <<>>
  /\ asked = <<>>

\* add: the pending rows go from the length before to the length after; a failed add
\* leaves the pending one as it is.
FitAdd(n) ==
  /\ model.rows + n <= Len(data)
  /\ \E r \in Added(model, n) :
       /\ r.ok \/ intact
       /\ model' = r.model
       /\ intact' = (intact /\ r.ok)
       /\ IF r.ok
          THEN LET g == fit.generation + 1
                   token == [owner |-> fit.owner, generation |-> g]
               IN /\ fit' = [fit EXCEPT !.generation = g,
                               !.pending = [generation |-> g,
                                            rows |-> model.obs + 1..r.model.obs]]
                  /\ handed' = [t \in DOMAIN handed \cup {token} |->
                                  IF t = token THEN model.rows + 1..model.rows + n
                                  ELSE handed[t]]
          ELSE UNCHANGED <<fit, handed>>
  /\ UNCHANGED <<data, direct, asked>>

\* ask, whose token is used up whether or not the search succeeds; an ask that is refused
\* changes nothing.
FitAsk(token, k, seed) ==
  /\ Unfrozen(k, seed) /\ Takes(token)
  /\ LET old  == IF fit.frozen = NoFrozen THEN NewFitter ELSE fit.frozen.fitter
         told == FitterTold(old, fit.pending.rows)
     IN \E r \in FitterAsked(told, model.obs, FALSE, "fit" \in Faults) :
          fit' = [fit EXCEPT !.pending = None,
                             !.frozen = [k |-> k, seed |-> seed, fitter |-> r.fitter]]
  /\ asked' = Append(asked, token)
  /\ UNCHANGED <<modelVars, handed>>

\* The Python model is made anew from its store.
FitReopen ==
  /\ fit.owner < MaxOwners
  /\ Reopen({})
  /\ fit' = NewFit(fit.owner + 1)
  /\ asked' = <<>>
  /\ UNCHANGED handed

FitNext ==
  \/ \E n \in Batches : FitAdd(n)
  \/ \E token \in DOMAIN handed, k \in FitKs, seed \in FitSeeds : FitAsk(token, k, seed)
  \/ FitReopen

---------------------------------------------------------------------------
(* Properties.                                                             *)

\* incremental_fit.rs: "only the rows of the latest add are told to the fitter, once": no
\* row is told twice, whatever adds and asks failed; as long as no add failed, what was
\* told is what the caller added for the tokens it presented.
TokensTellOnce ==
  fit.frozen # NoFrozen =>
    LET told == fit.frozen.fitter.told
    IN /\ told = SetToBag(BagToSet(told))
       /\ intact => BagToSet(told) = UNION {handed[asked[i]] : i \in DOMAIN asked}
=============================================================================
