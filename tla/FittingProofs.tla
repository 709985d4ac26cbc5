---------------------------- MODULE FittingProofs ----------------------------
(***************************************************************************)
(* What MCFitting checks, on a small instance, of the incremental fit, the *)
(* surrogate, the calls of an optimizer, the flush thresholds and a        *)
(* sampler, for any points, layouts, tokens, batches, faults, forms,       *)
(* threads, files and draws.                                               *)
(*                                                                         *)
(* A fitter is a bag of the rows it was told.  What an incremental fit     *)
(* tells it lies behind all rows it knows and belongs to one token         *)
(* (TellsOnce, Presented); what a surrogate tells it are the rows of its   *)
(* model, from the first to the last (Whole).  Both rest on what a call    *)
(* of the model may leave (EnnModelProofs).  An optimizer that searches    *)
(* has its sample behind it (RunInv); the thresholds are in order wherever *)
(* they are kept (Typed).  A reservoir that keeps its capacity is led to   *)
(* any sample by as many draws as to any other (Uniform).  A form's fields *)
(* travel to the optimizer through three records put over one another,     *)
(* and the checks of both sides on the way come to those of Sound.         *)
(***************************************************************************)
EXTENDS Fitting, EnnModelProofs, FunctionTheorems

----------------------------------------------------------------------------
(* The fitter.                                                             *)

\* Rows that are told apart from those told before are told once.
LEMMA ToldOnce ==
  ASSUME NEW S, NEW T, S \cap T = {}
  PROVE  /\ SetToBag(S) (+) SetToBag(T) = SetToBag(S \cup T)
         /\ BagToSet(SetToBag(S)) = S /\ EmptyBag = SetToBag({})
BY DEF SetToBag, BagToSet, (+), EmptyBag

IsFitter(f) == DOMAIN f = {"told", "params", "calibrator"}

LEMMA FitterToldFacts ==
  ASSUME NEW f, IsFitter(f), NEW rows
  PROVE  /\ IsFitter(FitterTold(f, rows))
         /\ \A S : f.told = SetToBag(S) /\ S \cap rows = {} =>
              FitterTold(f, rows).told = SetToBag(S \cup rows)
<1>1. /\ IsFitter(FitterTold(f, rows))
      /\ FitterTold(f, rows).told = f.told (+) SetToBag(rows)
  BY DEF FitterTold, IsFitter
<1> QED
  BY <1>1, ToldOnce

\* A search forgets nothing, and one that succeeds leaves the scales it found and no
\* calibrator of earlier ones.
LEMMA FitterAskedFacts ==
  ASSUME NEW f, IsFitter(f), NEW n, NEW calibrates \in BOOLEAN, NEW mayFail,
         NEW r \in FitterAsked(f, n, calibrates, mayFail)
  PROVE  /\ IsFitter(r.fitter) /\ r.fitter.told = f.told /\ r.ok \in BOOLEAN
         /\ r.ok => /\ r.fitter.params = n
                    /\ r.fitter.calibrator = IF calibrates THEN n ELSE None
<1> DEFINE scaled     == [f EXCEPT !.params = n]
           calibrated == [scaled EXCEPT !.calibrator = IF calibrates THEN n ELSE None]
<1>1. /\ IsFitter(scaled) /\ scaled.told = f.told
      /\ IsFitter(calibrated) /\ calibrated.told = f.told /\ calibrated.params = n
      /\ calibrated.calibrator = IF calibrates THEN n ELSE None
  BY DEF IsFitter
<1>2. r \in {[fitter |-> f, ok |-> FALSE], [fitter |-> scaled, ok |-> FALSE],
           [fitter |-> calibrated, ok |-> TRUE]}
  BY DEF FitterAsked
<1> HIDE DEF scaled, calibrated
<1>3. CASE r = [fitter |-> f, ok |-> FALSE]
  BY <1>3
<1>4. CASE r = [fitter |-> scaled, ok |-> FALSE]
  BY <1>1, <1>4
<1>5. CASE r = [fitter |-> calibrated, ok |-> TRUE]
  BY <1>1, <1>5
<1> QED
  BY <1>2, <1>3, <1>4, <1>5

----------------------------------------------------------------------------
(* The incremental fit.                                                    *)

Tokens == [owner : Nat, generation : Nat]

FitTyped ==
  /\ DOMAIN fit = {"owner", "generation", "pending", "frozen"}
  /\ fit.owner \in Nat /\ fit.generation \in Nat
  /\ fit.pending # None =>
       DOMAIN fit.pending = {"generation", "rows"} /\ fit.pending.generation = fit.generation
  /\ fit.frozen # NoFrozen =>
       DOMAIN fit.frozen = {"k", "seed", "fitter"} /\ IsFitter(fit.frozen.fitter)
  /\ handed = [t \in DOMAIN handed |-> handed[t]] /\ DOMAIN handed \subseteq Tokens
  /\ asked \in Seq(DOMAIN handed)

\* No owner is older than the last, no token than its owner's last add.
Handed ==
  \A t \in DOMAIN handed :
    t.owner < fit.owner \/ (t.owner = fit.owner /\ t.generation <= fit.generation)

ToldRows == IF fit.frozen = NoFrozen THEN {} ELSE BagToSet(fit.frozen.fitter.told)

\* What is pending is behind everything the fitter was told.
TellsOnce ==
  /\ fit.frozen # NoFrozen => fit.frozen.fitter.told = SetToBag(ToldRows)
  /\ ToldRows \subseteq 1..model.obs
  /\ fit.pending # None => fit.pending.rows \subseteq 1..model.obs \ ToldRows

ThisToken == [owner |-> fit.owner, generation |-> fit.generation]

\* As long as no call failed, what is pending is what the caller added for the token that
\* takes it, and what was told is what it added for the tokens it presented.
Presented ==
  intact =>
    /\ ToldRows = UNION {handed[asked[i]] : i \in DOMAIN asked}
    /\ fit.pending # None => ThisToken \in DOMAIN handed /\ fit.pending.rows = handed[ThisToken]

FitInv == ModelInv /\ model.obs <= model.rows /\ FitTyped /\ Handed /\ TellsOnce /\ Presented

LEMMA FitInitHolds ==
  ASSUME FitInit, ModelInv, intact
  PROVE  FitInv
<1>1. /\ fit = [owner |-> 1, generation |-> 0, pending |-> None, frozen |-> NoFrozen]
      /\ handed = <<>> /\ asked = <<>>
  BY DEF FitInit, NewFit
<1>2. FitTyped /\ Handed
  BY <1>1 DEF FitTyped, Handed
<1>3. ToldRows = {} /\ {handed[asked[i]] : i \in DOMAIN asked} = {}
  BY <1>1 DEF ToldRows
<1>4. TellsOnce /\ Presented
  BY <1>1, <1>3 DEF TellsOnce, Presented
<1>5. model.obs <= model.rows
  BY DEF ModelInv, IsModel
<1> QED
  BY <1>2, <1>4, <1>5 DEF FitInv

\* Only what is told and presented changes the history of a fit.
LEMMA FitStays ==
  ASSUME FitInv, fit' = fit, handed' = handed, asked' = asked, ModelInv',
         model'.obs \in Nat, model.obs <= model'.obs, model'.obs <= model'.rows,
         intact' => intact
  PROVE  FitInv'
<1>1. FitTyped' /\ Handed'
  BY DEF FitInv, FitTyped, Handed
<1>2. ToldRows' = ToldRows /\ ThisToken' = ThisToken
  BY DEF ToldRows, ThisToken
<1>3. model.obs \in Nat
  BY DEF FitInv, ModelInv, IsModel
<1>4. 1..model.obs \subseteq 1..model'.obs
  BY <1>3
<1>5. TellsOnce'
  BY <1>2, <1>4 DEF FitInv, TellsOnce
<1>6. Presented'
  BY <1>2 DEF FitInv, Presented
<1> QED
  BY <1>1, <1>5, <1>6 DEF FitInv

\* The rows of the latest add lie behind every row the fitter knows, and its token is new.
LEMMA FitAddKeeps ==
  ASSUME FitInv, NEW n \in Nat, FitAdd(n)
  PROVE  FitInv'
<1> DEFINE g     == fit.generation + 1
           token == [owner |-> fit.owner, generation |-> g]
           added == model.rows + 1..model.rows + n
<1>1. PICK r \in Added(model, n) :
        /\ r.ok \/ intact
        /\ model' = r.model /\ intact' = (intact /\ r.ok)
        /\ IF r.ok
           THEN /\ fit' = [fit EXCEPT !.generation = g,
                               !.pending = [generation |-> g,
                                            rows |-> model.obs + 1..r.model.obs]]
                /\ handed' = [t \in DOMAIN handed \cup {token} |->
                                IF t = token THEN added ELSE handed[t]]
           ELSE fit' = fit /\ handed' = handed
  BY DEF FitAdd
<1>2. /\ model.rows + n <= Len(data) /\ data' = data /\ direct' = direct /\ asked' = asked
  BY DEF FitAdd
<1> HIDE DEF g, token, added
<1>3. /\ ModelInv /\ IsModel(model) /\ InMemory(model)
      /\ model.obs \in Nat /\ model.rows \in Nat /\ model.obs <= model.rows
      /\ intact => model.obs = model.rows
  BY DEF FitInv, ModelInv, IsModel
<1>4. ModelInv'
  <2>1. Returns(Added(model, n))
    BY <1>1 DEF Returns
  <2>2. Add(n)
    BY <1>2, <2>1 DEF Add
  <2> QED
    BY <1>3, <2>2, AddKeeps
<1>5. /\ r.ok \in BOOLEAN /\ r.model.rows = model.rows + n
      /\ r.model.obs \in {model.obs, model.rows + n} /\ (r.ok => r.model.obs = model.rows + n)
  BY <1>3, AddedFacts
<1>6. /\ model'.obs \in Nat /\ model.obs <= model'.obs /\ model'.obs <= model'.rows
  BY <1>1, <1>3, <1>5
<1>7. CASE ~r.ok
  BY <1>1, <1>2, <1>4, <1>6, <1>7, FitStays
<1>8. CASE r.ok
  <2> USE DEF g, token, added
  <2> DEFINE rows == model.obs + 1..r.model.obs
  <2>1. /\ fit' = [fit EXCEPT !.generation = g, !.pending = [generation |-> g, rows |-> rows]]
        /\ model'.obs = model.rows + n
        /\ handed' = [t \in DOMAIN handed \cup {token} |->
                        IF t = token THEN added ELSE handed[t]]
    BY <1>1, <1>5, <1>8
  <2>2. FitTyped /\ Handed /\ TellsOnce /\ Presented
    BY DEF FitInv
  <2>3. /\ DOMAIN fit = {"owner", "generation", "pending", "frozen"}
        /\ fit.owner \in Nat /\ fit.generation \in Nat
    BY <2>2 DEF FitTyped
  <2>4. /\ fit'.owner = fit.owner /\ fit'.generation = g /\ fit'.frozen = fit.frozen
        /\ fit'.pending = [generation |-> g, rows |-> rows]
        /\ DOMAIN fit' = {"owner", "generation", "pending", "frozen"}
    BY <2>1, <2>3
  <2>5. g \in Nat /\ ~(g <= fit.generation) /\ token \in Tokens
    BY <2>3 DEF Tokens
  <2>6. token \notin DOMAIN handed
    BY <2>2, <2>3, <2>5 DEF Handed
  <2>7. /\ DOMAIN handed' = DOMAIN handed \cup {token} /\ handed'[token] = added
        /\ \A t \in DOMAIN handed : handed'[t] = handed[t]
        /\ handed' = [t \in DOMAIN handed' |-> handed'[t]]
    BY <2>1, <2>6
  <2>8. asked \in Seq(DOMAIN handed) /\ asked' = asked
    BY <1>2, <2>2 DEF FitTyped
  <2>9. DOMAIN fit'.pending = {"generation", "rows"} /\ fit'.pending.generation = g
        /\ fit'.pending.rows = rows
    BY <2>4
  <2> HIDE DEF rows
  <2>10. FitTyped'
    <3>1. asked' \in Seq(DOMAIN handed')
      BY <2>7, <2>8
    <3>2. DOMAIN handed' \subseteq Tokens
      BY <2>2, <2>5, <2>7 DEF FitTyped
    <3>3. fit'.frozen # NoFrozen =>
            DOMAIN fit'.frozen = {"k", "seed", "fitter"} /\ IsFitter(fit'.frozen.fitter)
      BY <2>2, <2>4 DEF FitTyped
    <3> HIDE DEF g
    <3> QED
      BY <2>3, <2>4, <2>5, <2>7, <2>9, <3>1, <3>2, <3>3 DEF FitTyped
  <2>11. Handed'
    <3> SUFFICES ASSUME NEW t \in DOMAIN handed'
                 PROVE  t.owner < fit.owner \/ (t.owner = fit.owner /\ t.generation <= g)
      BY <2>4 DEF Handed
    <3>1. CASE t = token
      BY <2>5, <3>1
    <3>2. CASE t \in DOMAIN handed
      <4>1. t \in Tokens
        BY <2>2, <3>2 DEF FitTyped
      <4>2. t.generation \in Nat
        BY <4>1 DEF Tokens
      <4>3. t.generation <= fit.generation => t.generation <= g
        BY <2>3, <4>2
      <4> QED
        BY <2>2, <3>2, <4>3 DEF Handed
    <3> QED
      BY <2>7, <3>1, <3>2
  <2>12. ToldRows' = ToldRows /\ ThisToken' = token
    BY <2>4 DEF ToldRows, ThisToken
  <2>13. rows \subseteq 1..model'.obs /\ rows \cap 1..model.obs = {}
         /\ 1..model.obs \subseteq 1..model'.obs
    BY <1>1, <1>3, <1>6 DEF rows
  <2>14. TellsOnce'
    BY <2>2, <2>4, <2>9, <2>12, <2>13 DEF TellsOnce
  <2>15. Presented'
    <3> SUFFICES ASSUME intact'
                 PROVE  /\ ToldRows' = UNION {handed'[asked'[i]] : i \in DOMAIN asked'}
                        /\ ThisToken' \in DOMAIN handed'
                        /\ fit'.pending.rows = handed'[ThisToken']
      BY DEF Presented
    <3>1. intact
      BY <1>1
    <3>2. rows = added
      BY <1>3, <1>5, <1>8, <3>1 DEF rows
    <3>3. \A i \in DOMAIN asked : asked[i] \in DOMAIN handed
      BY <2>8
    <3>4. {handed'[asked'[i]] : i \in DOMAIN asked'} = {handed[asked[i]] : i \in DOMAIN asked}
      BY <2>7, <2>8, <3>3
    <3>5. ToldRows = UNION {handed[asked[i]] : i \in DOMAIN asked}
      BY <2>2, <3>1 DEF Presented
    <3> QED
      BY <2>7, <2>9, <2>12, <3>2, <3>4, <3>5
  <2> QED
    BY <1>4, <1>6, <2>10, <2>11, <2>14, <2>15 DEF FitInv
<1> QED
  BY <1>5, <1>7, <1>8

\* An ask tells the pending rows and takes the token they belong to, whether or not its
\* search succeeds.
LEMMA FitAskKeeps ==
  ASSUME FitInv, NEW token \in DOMAIN handed, NEW k, NEW seed, FitAsk(token, k, seed)
  PROVE  FitInv'
<1> DEFINE old    == IF fit.frozen = NoFrozen THEN NewFitter ELSE fit.frozen.fitter
           fresh  == fit.pending.rows
           taught == FitterTold(old, fresh)
<1>1. /\ Takes(token) /\ asked' = Append(asked, token) /\ handed' = handed
      /\ model' = model /\ data' = data /\ intact' = intact /\ direct' = direct
  BY DEF FitAsk, modelVars
<1>2. PICK r \in FitterAsked(taught, model.obs, FALSE, "fit" \in Faults) :
        fit' = [fit EXCEPT !.pending = None,
                           !.frozen = [k |-> k, seed |-> seed, fitter |-> r.fitter]]
  BY DEF FitAsk
<1>3. FitTyped /\ Handed /\ TellsOnce /\ Presented /\ ModelInv /\ model.obs <= model.rows
  BY DEF FitInv
<1>4. /\ DOMAIN fit = {"owner", "generation", "pending", "frozen"}
      /\ fit.owner \in Nat /\ fit.generation \in Nat /\ fit.pending # None
      /\ fit.pending.generation = fit.generation
      /\ token.owner = fit.owner /\ token.generation = fit.generation
      /\ token \in Tokens /\ asked \in Seq(DOMAIN handed)
  BY <1>1, <1>3 DEF FitTyped, Takes
<1>5. token = ThisToken
  BY <1>4 DEF ThisToken, Tokens
<1>6. IsFitter(old) /\ old.told = SetToBag(ToldRows)
  <2>1. CASE fit.frozen = NoFrozen
    BY <2>1, ToldOnce DEF NewFitter, IsFitter, ToldRows
  <2>2. CASE fit.frozen # NoFrozen
    BY <1>3, <2>2 DEF FitTyped, TellsOnce
  <2> QED
    BY <2>1, <2>2
<1> HIDE DEF old
<1>7. fresh \subseteq 1..model.obs /\ ToldRows \cap fresh = {} /\ ToldRows \subseteq 1..model.obs
  BY <1>3, <1>4 DEF TellsOnce
<1>8. IsFitter(taught) /\ taught.told = SetToBag(ToldRows \cup fresh)
  BY <1>6, <1>7, FitterToldFacts
<1> HIDE DEF taught, fresh
<1>9. IsFitter(r.fitter) /\ r.fitter.told = SetToBag(ToldRows \cup fresh)
  <2> DEFINE fails == "fit" \in Faults
             never == FALSE
  <2>1. r \in FitterAsked(taught, model.obs, never, fails) /\ never \in BOOLEAN
    BY <1>2
  <2> HIDE DEF fails, never
  <2>2. IsFitter(r.fitter) /\ r.fitter.told = taught.told
    BY ONLY <1>8, <2>1, FitterAskedFacts
  <2> QED
    BY <1>8, <2>2
<1>10. /\ fit'.owner = fit.owner /\ fit'.generation = fit.generation /\ fit'.pending = None
       /\ fit'.frozen = [k |-> k, seed |-> seed, fitter |-> r.fitter]
       /\ DOMAIN fit' = {"owner", "generation", "pending", "frozen"}
  BY <1>2, <1>4
<1>11. /\ DOMAIN fit'.frozen = {"k", "seed", "fitter"} /\ fit'.frozen.fitter = r.fitter
       /\ fit'.frozen # NoFrozen
  BY <1>10 DEF NoFrozen
<1>12. ToldRows' = ToldRows \cup fresh
  BY <1>9, <1>11, ToldOnce DEF ToldRows
<1>13. FitTyped' /\ Handed'
  <2>1. asked' \in Seq(DOMAIN handed)
    BY <1>1, <1>4
  <2> QED
    BY <1>1, <1>3, <1>4, <1>9, <1>10, <1>11, <2>1 DEF FitTyped, Handed
<1>14. TellsOnce'
  BY <1>1, <1>7, <1>9, <1>10, <1>11, <1>12 DEF TellsOnce
<1>15. Presented'
  <2> SUFFICES ASSUME intact
               PROVE  ToldRows' = UNION {handed[asked'[i]] : i \in DOMAIN asked'}
    BY <1>1, <1>10 DEF Presented
  <2>1. ToldRows = UNION {handed[asked[i]] : i \in DOMAIN asked} /\ fresh = handed[token]
    BY <1>3, <1>4, <1>5 DEF Presented, fresh
  <2>2. /\ DOMAIN asked = 1..Len(asked) /\ Len(asked) \in Nat
        /\ DOMAIN asked' = 1..Len(asked) + 1 /\ asked'[Len(asked) + 1] = token
        /\ \A i \in 1..Len(asked) : asked'[i] = asked[i]
    BY <1>1, <1>4
  <2>3. DOMAIN asked' = DOMAIN asked \cup {Len(asked) + 1}
    BY <2>2
  <2>4. UNION {handed[asked'[i]] : i \in DOMAIN asked'}
          = (UNION {handed[asked[i]] : i \in DOMAIN asked}) \cup handed[token]
    BY <2>2, <2>3
  <2> QED
    BY <1>12, <2>1, <2>4
<1>16. ModelInv'
  BY <1>1, <1>3, StepKeeps DEF modelVars
<1> QED
  BY <1>1, <1>3, <1>13, <1>14, <1>15, <1>16 DEF FitInv

\* A model opened again knows no fitter, and its tokens are of a new owner.
LEMMA FitReopenKeeps ==
  ASSUME FitInv, FitReopen
  PROVE  FitInv'
<1>1. Reopen({}) /\ handed' = handed /\ asked' = <<>> /\ intact'
      /\ fit' = [owner |-> fit.owner + 1, generation |-> 0, pending |-> None,
                 frozen |-> NoFrozen]
  BY DEF FitReopen, NewFit, Reopen
<1>2. FitTyped /\ Handed /\ ModelInv
  BY DEF FitInv
<1>3. ModelInv'
  BY <1>1, <1>2, ReopenKeeps
<1>4. /\ fit'.owner = fit.owner + 1 /\ fit'.generation = 0 /\ fit'.pending = None
      /\ fit'.frozen = NoFrozen /\ DOMAIN fit' = {"owner", "generation", "pending", "frozen"}
      /\ fit.owner \in Nat
  BY <1>1, <1>2 DEF FitTyped
<1>5. FitTyped'
  BY <1>1, <1>2, <1>4 DEF FitTyped
<1>6. Handed'
  <2> SUFFICES ASSUME NEW t \in DOMAIN handed
               PROVE  t.owner < fit.owner + 1
    BY <1>1, <1>4 DEF Handed
  <2>1. t.owner \in Nat /\ (t.owner < fit.owner \/ t.owner = fit.owner)
    BY <1>2 DEF FitTyped, Handed, Tokens
  <2> QED
    BY <1>4, <2>1
<1>7. ToldRows' = {}
  BY <1>4 DEF ToldRows
<1>8. TellsOnce'
  BY <1>4, <1>7 DEF TellsOnce
<1>9. Presented'
  <2>1. {handed'[asked'[i]] : i \in DOMAIN asked'} = {}
    BY <1>1
  <2> QED
    BY <1>4, <1>7, <2>1 DEF Presented
<1>10. model'.obs <= model'.rows
  BY <1>1, <1>3 DEF ModelInv, IsModel
<1> QED
  BY <1>3, <1>5, <1>6, <1>8, <1>9, <1>10 DEF FitInv

LEMMA FitInvTellsOnce == FitInv => TokensTellOnce
<1> SUFFICES ASSUME FitInv, fit.frozen # NoFrozen
             PROVE  LET bag == fit.frozen.fitter.told
                    IN /\ bag = SetToBag(BagToSet(bag))
                       /\ intact => BagToSet(bag) =
                            UNION {handed[asked[i]] : i \in DOMAIN asked}
  BY DEF TokensTellOnce
<1>1. ToldRows = BagToSet(fit.frozen.fitter.told)
  BY DEF ToldRows
<1> QED
  BY <1>1 DEF FitInv, TellsOnce, Presented

----------------------------------------------------------------------------
(* The surrogate.                                                          *)

IsFit(s) == DOMAIN s = {"state", "params", "calibrator", "fitter"}

\* A surrogate that is fitted has a model of its layout with rows, and a fitter if its
\* scales are searched.
Fits(s, m) ==
  /\ IsModel(m) /\ InMemory(m) /\ m.layout = config.layout /\ m.rows > 0
  /\ IF config.frozen
     THEN s.state = "frozen" /\ s.params = "default" /\ s.calibrator = None
     ELSE s.state = "searched" /\ IsFitter(s.fitter)

Matches(s, m) ==
  /\ IsFit(s) /\ (s.state = "unfitted" => s.params = None)
  /\ m # None \/ s.state # "unfitted" => Fits(s, m)

\* The calibrator is of the rows the scales are of; on disk there may be neither.
Together(s, n) ==
  /\ s.calibrator = IF config.calibrates THEN s.params ELSE None
  /\ IF config.layout.disk THEN s.params \in {None} \union 1..n ELSE s.params = n

\* What no failed call left: the fitter was told all rows, and in memory its scales are
\* those of all rows.
Whole(s, m) ==
  s.state # "unfitted" =>
    /\ m.obs = m.rows
    /\ ~config.frozen =>
         /\ s.fitter.told = SetToBag(1..m.obs)
         /\ Together(s, m.obs)

IsResult(r) == DOMAIN r = {"surrogate", "model", "left", "ok"} /\ r.ok \in BOOLEAN

ConfigTyped == config \in [layout : LegalLayouts, frozen : BOOLEAN, calibrates : BOOLEAN]

SurInv ==
  ConfigTyped /\ Matches(surrogate, model) /\ (intact => Whole(surrogate, model))

LEMMA FittedMatches ==
  ASSUME NEW s, IsFit(s), NEW m, Fits(s, m)
  PROVE  Matches(s, m)
<1>1. s.state # "unfitted"
  BY DEF Fits
<1> QED
  BY <1>1 DEF Matches

LEMMA ConfigIs ==
  ASSUME ConfigTyped
  PROVE  /\ config.layout \in LegalLayouts /\ config.layout.disk \in BOOLEAN
         /\ config.layout.auto \in BOOLEAN
         /\ config.frozen \in BOOLEAN /\ config.calibrates \in BOOLEAN
BY DEF ConfigTyped, LegalLayouts

\* In memory a plan searches whenever scales are searched at all.
LEMMA PlanFacts ==
  ASSUME ConfigTyped, NEW n, NEW hasParams \in BOOLEAN, NEW initial \in BOOLEAN
  PROVE  /\ AppendPlan(n, hasParams, initial).sync \in BOOLEAN
         /\ AppendPlan(n, hasParams, initial).search \in BOOLEAN
         /\ AppendPlan(n, hasParams, initial).release \in BOOLEAN
         /\ AppendPlan(n, hasParams, initial).search => ~config.frozen
         /\ ~config.layout.disk /\ ~config.frozen => AppendPlan(n, hasParams, initial).search
<1> DEFINE disk == config.layout.disk
           bulk == disk /\ n >= Bulk
           skip == bulk \/ (disk /\ hasParams)
           act  == IF initial THEN config.frozen \/ ~bulk ELSE ~skip \/ bulk
           sync == act /\ (initial => disk)
           search == ~config.frozen /\ IF initial THEN ~bulk ELSE ~skip
<1>1. disk \in BOOLEAN /\ config.frozen \in BOOLEAN
  BY ConfigIs
<1>2. AppendPlan(n, hasParams, initial) = [sync |-> sync, search |-> search, release |-> sync]
  BY DEF AppendPlan
<1>3. sync \in BOOLEAN /\ search \in BOOLEAN /\ (search => ~config.frozen)
      /\ (~disk /\ ~config.frozen => search)
  <2> DEFINE large == n >= Bulk
  <2>1. large \in BOOLEAN
    OBVIOUS
  <2> HIDE DEF large
  <2>2. bulk = (disk /\ large)
    BY DEF large
  <2> QED
    BY <1>1, <2>1, <2>2
<1> HIDE DEF sync, search
<1> QED
  BY <1>2, <1>3

\* search_scales
LEMMA SearchesFacts ==
  ASSUME ConfigTyped, NEW s, IsFit(s), IsFitter(s.fitter), NEW m, NEW r \in Searches(s, m)
  PROVE  /\ IsFit(r.surrogate) /\ r.surrogate.state = s.state /\ r.model = m
         /\ IsFitter(r.surrogate.fitter) /\ r.surrogate.fitter.told = s.fitter.told
         /\ IsResult(r)
         /\ r.ok => /\ r.surrogate.params = m.obs
                    /\ r.surrogate.calibrator = IF config.calibrates THEN m.obs ELSE None
<1> DEFINE fails == "fit" \in Faults
<1>1. PICK q \in FitterAsked(s.fitter, m.obs, config.calibrates, fails) :
        r = IF q.ok
            THEN Result([s EXCEPT !.fitter = q.fitter, !.params = q.fitter.params,
                                  !.calibrator = q.fitter.calibrator], m, 0, TRUE)
            ELSE Result([s EXCEPT !.fitter = q.fitter], m, 0, FALSE)
  BY DEF Searches
<1> HIDE DEF fails
<1>2. config.calibrates \in BOOLEAN
  BY ConfigIs
<1>3. /\ IsFitter(q.fitter) /\ q.fitter.told = s.fitter.told /\ q.ok \in BOOLEAN
      /\ q.ok => /\ q.fitter.params = m.obs
                 /\ q.fitter.calibrator = IF config.calibrates THEN m.obs ELSE None
  BY <1>2, FitterAskedFacts
<1> DEFINE found == [s EXCEPT !.fitter = q.fitter, !.params = q.fitter.params,
                              !.calibrator = q.fitter.calibrator]
           same == [s EXCEPT !.fitter = q.fitter]
<1>4. /\ IsFit(found) /\ found.state = s.state /\ found.fitter = q.fitter
      /\ found.params = q.fitter.params /\ found.calibrator = q.fitter.calibrator
      /\ IsFit(same) /\ same.state = s.state /\ same.fitter = q.fitter
  BY DEF IsFit
<1> HIDE DEF found, same
<1>5. CASE q.ok
  <2>1. r = [surrogate |-> found, model |-> m, left |-> 0, ok |-> TRUE]
    BY <1>1, <1>5 DEF Result, found
  <2>2. r.surrogate = found /\ r.model = m /\ r.ok = TRUE /\ IsResult(r)
    BY <2>1 DEF IsResult
  <2> QED
    BY <1>3, <1>4, <1>5, <2>2
<1>6. CASE ~q.ok
  <2>1. r = [surrogate |-> same, model |-> m, left |-> 0, ok |-> FALSE]
    BY <1>1, <1>6 DEF Result, same
  <2>2. r.surrogate = same /\ r.model = m /\ r.ok = FALSE /\ IsResult(r)
    BY <2>1 DEF IsResult
  <2> QED
    BY <1>3, <1>4, <2>2
<1> QED
  BY <1>3, <1>5, <1>6

\* apply_plan moves the index and the scales, and neither the rows nor what the fitter was
\* told, whichever of its parts fails.
LEMMA PlannedFacts ==
  ASSUME ConfigTyped, NEW s, IsFit(s), NEW m, Fits(s, m), NEW plan,
         plan.sync \in BOOLEAN, plan.search \in BOOLEAN, plan.release \in BOOLEAN,
         plan.search => ~config.frozen, NEW r \in Planned(s, m, plan)
  PROVE  /\ IsFit(r.surrogate) /\ Fits(r.surrogate, r.model) /\ IsResult(r)
         /\ r.model.obs = m.obs /\ r.model.rows = m.rows
         /\ ~config.frozen => r.surrogate.fitter.told = s.fitter.told
         /\ r.ok /\ plan.search =>
              /\ r.surrogate.params = m.obs
              /\ r.surrogate.calibrator = IF config.calibrates THEN m.obs ELSE None
         /\ r.ok /\ ~plan.search => r.surrogate = s
<1> DEFINE may == IF m.layout.disk THEN Fails("flush") ELSE {FALSE}
           synced == IF ~plan.sync THEN {Result(s, m, 0, TRUE)}
                     ELSE {IF fails THEN Result(s, m, 0, FALSE)
                           ELSE Result(s, Synced(m), 0, TRUE) : fails \in may}
           searched(q) == IF q.ok /\ plan.search THEN Searches(q.surrogate, q.model) ELSE {q}
           released(t) == IF t.ok /\ plan.release /\ m.layout.disk
                          THEN {[t EXCEPT !.ok = ~fails] : fails \in Fails("release")}
                          ELSE {t}
<1>1. r \in UNION {released(t) : t \in UNION {searched(q) : q \in synced}}
  BY DEF Planned
<1> HIDE DEF synced, searched, released
<1>2. PICK q \in synced : \E t \in searched(q) : r \in released(t)
  BY <1>1
<1>3. PICK t \in searched(q) : r \in released(t)
  BY <1>2
<1>4. q.surrogate = s /\ (q.model = m \/ q.model = Synced(m)) /\ IsResult(q)
  <2>1. q \in {Result(s, m, 0, TRUE), Result(s, m, 0, FALSE), Result(s, Synced(m), 0, TRUE)}
    BY <1>2 DEF synced
  <2>2. CASE q = Result(s, m, 0, TRUE)
    BY <2>2 DEF Result, IsResult
  <2>3. CASE q = Result(s, m, 0, FALSE)
    BY <2>3 DEF Result, IsResult
  <2>4. CASE q = Result(s, Synced(m), 0, TRUE)
    BY <2>4 DEF Result, IsResult
  <2> QED
    BY <2>1, <2>2, <2>3, <2>4
<1>5. /\ IsModel(m) /\ InMemory(m) /\ IsModel(Synced(m)) /\ InMemory(Synced(m))
      /\ SameRows(Synced(m), m)
  BY SyncedFacts DEF Fits
<1>6. /\ Fits(s, q.model) /\ q.model.obs = m.obs /\ q.model.rows = m.rows
  BY <1>4, <1>5 DEF Fits, SameRows
<1>7. config.frozen \in BOOLEAN /\ q.ok \in BOOLEAN
  BY <1>4, ConfigIs DEF IsResult
<1>8. /\ IsFit(t.surrogate) /\ Fits(t.surrogate, t.model) /\ IsResult(t)
      /\ t.model.obs = m.obs /\ t.model.rows = m.rows
      /\ ~config.frozen => t.surrogate.fitter.told = s.fitter.told
      /\ t.ok /\ plan.search =>
           /\ t.surrogate.params = m.obs
           /\ t.surrogate.calibrator = IF config.calibrates THEN m.obs ELSE None
      /\ t.ok /\ ~plan.search => t.surrogate = s
  <2>1. CASE q.ok /\ plan.search
    <3>1. t \in Searches(s, q.model)
      BY <1>3, <1>4, <2>1 DEF searched
    <3>2. ~config.frozen /\ IsFitter(s.fitter) /\ s.state = "searched"
      BY <1>6, <2>1 DEF Fits
    <3>3. /\ IsFit(t.surrogate) /\ t.surrogate.state = s.state /\ t.model = q.model
          /\ IsFitter(t.surrogate.fitter) /\ t.surrogate.fitter.told = s.fitter.told
          /\ IsResult(t)
          /\ t.ok => /\ t.surrogate.params = q.model.obs
                     /\ t.surrogate.calibrator =
                          IF config.calibrates THEN q.model.obs ELSE None
      BY <3>1, <3>2, SearchesFacts
    <3>4. Fits(t.surrogate, t.model)
      BY <1>6, <3>2, <3>3 DEF Fits
    <3> QED
      BY <1>6, <2>1, <3>3, <3>4
  <2>2. CASE ~(q.ok /\ plan.search)
    <3>1. t = q
      BY <1>3, <2>2 DEF searched
    <3> QED
      BY <1>4, <1>6, <2>2, <3>1
  <2> QED
    BY <2>1, <2>2
<1>9. r.surrogate = t.surrogate /\ r.model = t.model /\ IsResult(r) /\ (r.ok => t.ok)
  <2>1. CASE r = t
    BY <1>8, <2>1
  <2>2. CASE t.ok /\ \E fails \in Fails("release") : r = [t EXCEPT !.ok = ~fails]
    <3>1. PICK fails \in Fails("release") : r = [t EXCEPT !.ok = ~fails]
      BY <2>2
    <3>2. fails \in BOOLEAN
      BY DEF Fails
    <3> QED
      BY <1>8, <2>2, <3>1, <3>2 DEF IsResult
  <2> QED
    BY <1>3, <2>1, <2>2 DEF released
<1> QED
  BY <1>8, <1>9

\* A plan that searches whenever scales are searched in memory leaves what is fitted fitted.
LEMMA PlannedWhole ==
  ASSUME ConfigTyped, NEW s, IsFit(s), NEW m, Fits(s, m), m.obs = m.rows,
         ~config.frozen => s.fitter.told = SetToBag(1..m.obs),
         ~config.frozen /\ config.layout.disk => Together(s, m.obs),
         NEW n, NEW hasParams \in BOOLEAN, NEW initial \in BOOLEAN,
         NEW r \in Planned(s, m, AppendPlan(n, hasParams, initial))
  PROVE  r.ok => Whole(r.surrogate, r.model)
<1> DEFINE plan == AppendPlan(n, hasParams, initial)
<1>1. /\ plan.sync \in BOOLEAN /\ plan.search \in BOOLEAN /\ plan.release \in BOOLEAN
      /\ plan.search => ~config.frozen
      /\ ~config.layout.disk /\ ~config.frozen => plan.search
  BY PlanFacts
<1> HIDE DEF plan
<1>2. r \in Planned(s, m, plan)
  BY DEF plan
<1>3. /\ r.model.obs = m.obs /\ r.model.rows = m.rows
      /\ ~config.frozen => r.surrogate.fitter.told = s.fitter.told
      /\ r.ok /\ plan.search =>
           /\ r.surrogate.params = m.obs
           /\ r.surrogate.calibrator = IF config.calibrates THEN m.obs ELSE None
      /\ r.ok /\ ~plan.search => r.surrogate = s
  BY <1>1, <1>2, PlannedFacts
<1>4. ASSUME r.ok, ~config.frozen
      PROVE  Together(r.surrogate, m.obs)
  <2>1. CASE plan.search
    <3>1. m.obs \in 1..m.obs
      BY DEF Fits, IsModel
    <3> QED
      BY <1>3, <1>4, <2>1, <3>1 DEF Together
  <2>2. CASE ~plan.search
    BY <1>1, <1>3, <1>4, <2>2
  <2> QED
    BY <2>1, <2>2
<1> QED
  BY <1>1, <1>3, <1>4 DEF Whole

LEMMA UnfittedFacts ==
  ASSUME NEW rows, NEW ok \in BOOLEAN
  PROVE  /\ IsResult(Result(Unfitted, None, rows, ok))
         /\ Result(Unfitted, None, rows, ok).ok = ok
         /\ Matches(Result(Unfitted, None, rows, ok).surrogate,
                    Result(Unfitted, None, rows, ok).model)
         /\ Whole(Result(Unfitted, None, rows, ok).surrogate,
                  Result(Unfitted, None, rows, ok).model)
<1> DEFINE r == Result(Unfitted, None, rows, ok)
<1>1. r.surrogate = Unfitted /\ r.model = None /\ r.ok = ok /\ IsResult(r)
  BY DEF Result, IsResult
<1>2. IsFit(Unfitted) /\ Unfitted.state = "unfitted" /\ Unfitted.params = None
  BY DEF Unfitted, IsFit
<1> HIDE DEF r
<1>3. IsResult(r) /\ r.ok = ok /\ Matches(r.surrogate, r.model) /\ Whole(r.surrogate, r.model)
  BY <1>1, <1>2 DEF Matches, Whole
<1> QED
  BY <1>3 DEF r

\* start_model: the fitter begins with the rows of the model.
LEMMA StartedFacts ==
  ASSUME ConfigTyped, NEW n \in Nat \ {0}, NEW warm, NEW rows,
         config.layout.disk /\ ~(rows > 0) => warm = None, NEW r \in Started(n, warm, rows)
  PROVE  /\ IsResult(r) /\ Matches(r.surrogate, r.model)
         /\ r.ok => Whole(r.surrogate, r.model)
<1> DEFINE layout == config.layout
           refused == layout.disk /\ rows > 0
           made == IF layout.auto THEN AutoEnabled(NewModel(layout, n), {}, n)
                   ELSE {Ok(NewModel(layout, n))}
           begun == IF config.frozen THEN FrozenFit ELSE SearchedFit(n, warm)
           initial == TRUE
           has == FALSE
           results(q) == IF q.ok THEN Planned(begun, q.model, AppendPlan(n, has, initial))
                         ELSE {Result(Unfitted, None, LeftBy(q.model), FALSE)}
<1>1. r \in IF refused THEN {Result(Unfitted, None, rows, FALSE)}
            ELSE UNION {results(q) : q \in made}
  BY DEF Started
<1>2. initial \in BOOLEAN /\ has \in BOOLEAN
  OBVIOUS
<1>3. layout \in LegalLayouts /\ layout.auto \in BOOLEAN /\ config.frozen \in BOOLEAN
  BY ConfigIs
<1>4. \A q \in made : q.ok => /\ Settled(q.model) /\ q.model.layout = layout
                              /\ q.model.rows = n
  <2> SUFFICES ASSUME NEW q \in made, q.ok
               PROVE  Settled(q.model) /\ q.model.layout = layout /\ q.model.rows = n
    OBVIOUS
  <2>1. layout.auto => q.model \in Constructed(NewModel(layout, n), {}, n)
    <3> SUFFICES ASSUME layout.auto
                 PROVE  q.model \in Constructed(NewModel(layout, n), {}, n)
      OBVIOUS
    <3>1. NewModel(layout, n).layout = layout /\ q \in AutoEnabled(NewModel(layout, n), {}, n)
      BY <1>3, NewModelFacts
    <3> HIDE DEF layout, made
    <3> QED
      BY <3>1 DEF Constructed
  <2>2. ~layout.auto => q.model = NewModel(layout, n)
    BY DEF Ok
  <2> HIDE DEF layout, made
  <2>3. CASE layout.auto
    BY <1>3, <2>1, <2>3, ConstructedFacts
  <2>4. CASE ~layout.auto
    BY <1>3, <2>2, <2>4, NewModelFacts
  <2> QED
    BY <2>3, <2>4
<1>5. /\ IsFit(begun)
      /\ IF config.frozen
         THEN begun.state = "frozen" /\ begun.params = "default" /\ begun.calibrator = None
         ELSE /\ begun.state = "searched" /\ IsFitter(begun.fitter)
              /\ begun.fitter.told = SetToBag(1..n)
              /\ begun.params = warm /\ begun.calibrator = None
  <2>1. CASE config.frozen
    BY <2>1 DEF FrozenFit, Unfitted, IsFit
  <2>2. CASE ~config.frozen
    <3> DEFINE f == FitterTold(NewFitter, 1..n)
    <3>1. IsFitter(NewFitter) /\ NewFitter.told = SetToBag({})
      BY ToldOnce DEF NewFitter, IsFitter
    <3>2. IsFitter(f) /\ f.told = SetToBag({} \cup 1..n)
      BY <3>1, FitterToldFacts
    <3>3. {} \cup 1..n = 1..n
      OBVIOUS
    <3> HIDE DEF f
    <3>4. begun = [state |-> "searched", params |-> warm, calibrator |-> None, fitter |-> f]
      BY <2>2 DEF SearchedFit, f
    <3> QED
      BY <2>2, <3>2, <3>3, <3>4 DEF IsFit
  <2> QED
    BY <2>1, <2>2
<1> HIDE DEF begun, made, initial, has, results, refused
<1>6. CASE refused
  BY <1>1, <1>6, UnfittedFacts
<1>7. CASE ~refused
  <2>1. PICK q \in made : r \in results(q)
    BY <1>1, <1>7
  <2>2. CASE ~q.ok
    <3>1. r = Result(Unfitted, None, LeftBy(q.model), FALSE)
      BY <2>1, <2>2 DEF results
    <3> QED
      BY <3>1, UnfittedFacts
  <2>3. CASE q.ok
    <3> DEFINE m == q.model
               plan == AppendPlan(n, has, initial)
    <3>1. r \in Planned(begun, m, plan)
      BY <2>1, <2>3 DEF results
    <3>2. Settled(m) /\ m.layout = config.layout /\ m.rows = n
      BY <1>4, <2>3
    <3>3. Fits(begun, m) /\ m.obs = m.rows
      BY <1>5, <3>2 DEF Fits, Settled
    <3>4. /\ ~config.frozen => begun.fitter.told = SetToBag(1..m.obs)
          /\ ~config.frozen /\ config.layout.disk => Together(begun, m.obs)
      BY <1>5, <1>7, <3>2, <3>3 DEF refused, Together
    <3> HIDE DEF m
    <3>5. r.ok => Whole(r.surrogate, r.model)
      BY <1>2, <1>5, <3>1, <3>3, <3>4, PlannedWhole
    <3>6. /\ plan.sync \in BOOLEAN /\ plan.search \in BOOLEAN /\ plan.release \in BOOLEAN
          /\ plan.search => ~config.frozen
      BY <1>2, PlanFacts
    <3> HIDE DEF plan
    <3>7. IsFit(r.surrogate) /\ Fits(r.surrogate, r.model) /\ IsResult(r)
      BY <1>5, <3>1, <3>3, <3>6, PlannedFacts
    <3> QED
      BY <3>5, <3>7, FittedMatches
  <2> QED
    BY <2>2, <2>3
<1> QED
  BY <1>6, <1>7

\* fit_append: what the fitter is told are the rows the model gets.
LEMMA AppendedFacts ==
  ASSUME ConfigTyped, IsFit(surrogate), Fits(surrogate, model), NEW n \in Nat,
         NEW r \in Appended(n)
  PROVE  /\ IsResult(r) /\ Matches(r.surrogate, r.model)
         /\ r.ok /\ Whole(surrogate, model) => Whole(r.surrogate, r.model)
<1> DEFINE added == model.rows + 1..model.rows + n
           taught == IF surrogate.state = "searched"
                     THEN [surrogate EXCEPT !.fitter = FitterTold(@, added)] ELSE surrogate
           has == surrogate.params # None
           initial == FALSE
           plan == AppendPlan(n, has, initial)
<1>1. PICK q \in Added(model, n) :
        r \in IF q.ok THEN Planned(taught, q.model, plan)
              ELSE {Result(surrogate, q.model, 0, FALSE)}
  BY DEF Appended
<1>2. initial \in BOOLEAN /\ has \in BOOLEAN
  OBVIOUS
<1>3. IsModel(model) /\ InMemory(model) /\ model.rows \in Nat /\ model.rows > 0
  BY DEF Fits, IsModel
<1>4. /\ IsModel(q.model) /\ InMemory(q.model) /\ q.model.layout = model.layout
      /\ q.model.rows = model.rows + n /\ q.ok \in BOOLEAN
      /\ q.ok => q.model.obs = model.rows + n
      /\ q.model.rows > 0
  BY <1>3, AddedFacts
<1>5. config.frozen \in BOOLEAN
  BY ConfigIs
<1>6. /\ IsFit(taught) /\ Fits(taught, q.model)
      /\ taught.params = surrogate.params /\ taught.calibrator = surrogate.calibrator
      /\ ~config.frozen => \A S : surrogate.fitter.told = SetToBag(S) /\ S \cap added = {}
                             => taught.fitter.told = SetToBag(S \cup added)
  <2>1. CASE config.frozen
    <3>1. taught = surrogate
      BY <2>1 DEF Fits
    <3> QED
      BY <1>4, <2>1, <3>1 DEF Fits
  <2>2. CASE ~config.frozen
    <3> DEFINE f == FitterTold(surrogate.fitter, added)
    <3>1. surrogate.state = "searched" /\ IsFitter(surrogate.fitter)
      BY <2>2 DEF Fits
    <3>2. /\ IsFitter(f)
          /\ \A S : surrogate.fitter.told = SetToBag(S) /\ S \cap added = {} =>
               f.told = SetToBag(S \cup added)
      BY <3>1, FitterToldFacts
    <3> HIDE DEF f, added
    <3>3. taught = [surrogate EXCEPT !.fitter = f]
      BY <3>1 DEF f
    <3>4. /\ IsFit(taught) /\ taught.state = "searched" /\ taught.fitter = f
          /\ taught.params = surrogate.params /\ taught.calibrator = surrogate.calibrator
      BY <3>1, <3>3 DEF IsFit
    <3> HIDE DEF taught
    <3> QED
      BY <1>4, <2>2, <3>2, <3>4 DEF Fits
  <2> QED
    BY <1>5, <2>1, <2>2
<1> HIDE DEF taught, initial, has
<1>7. CASE q.ok
  <2>1. r \in Planned(taught, q.model, plan)
    BY <1>1, <1>7
  <2>2. /\ plan.sync \in BOOLEAN /\ plan.search \in BOOLEAN /\ plan.release \in BOOLEAN
        /\ plan.search => ~config.frozen
    BY <1>2, PlanFacts
  <2>3. IsFit(r.surrogate) /\ Fits(r.surrogate, r.model) /\ IsResult(r)
    <3> HIDE DEF plan
    <3> QED
      BY <1>6, <2>1, <2>2, PlannedFacts
  <2>4. ASSUME r.ok, Whole(surrogate, model)
        PROVE  Whole(r.surrogate, r.model)
    <3>1. surrogate.state # "unfitted"
      BY DEF Fits
    <3>2. /\ model.obs = model.rows
          /\ ~config.frozen => surrogate.fitter.told = SetToBag(1..model.rows)
          /\ ~config.frozen => Together(surrogate, model.rows)
      BY <2>4, <3>1 DEF Whole
    <3>3. 1..model.rows \cap added = {} /\ 1..model.rows \cup added = 1..(model.rows + n)
      BY <1>3
    <3> HIDE DEF added
    <3>4. q.model.obs = q.model.rows /\ q.model.obs = model.rows + n
      BY <1>4, <1>7
    <3>5. ~config.frozen => taught.fitter.told = SetToBag(1..q.model.obs)
      BY <1>6, <3>2, <3>3, <3>4
    <3>6. ~config.frozen /\ config.layout.disk => Together(taught, q.model.obs)
      <4>1. 1..model.rows \subseteq 1..q.model.obs
        BY <1>3, <3>4
      <4> QED
        BY <1>6, <3>2, <4>1 DEF Together
    <3> QED
      BY <1>2, <1>6, <2>1, <2>4, <3>4, <3>5, <3>6, PlannedWhole
  <2> QED
    BY <2>3, <2>4, FittedMatches
<1>8. CASE ~q.ok
  <2>1. r = [surrogate |-> surrogate, model |-> q.model, left |-> 0, ok |-> FALSE]
    BY <1>1, <1>8 DEF Result
  <2>2. r.surrogate = surrogate /\ r.model = q.model /\ r.ok = FALSE /\ IsResult(r)
    BY <2>1 DEF IsResult
  <2>3. Fits(surrogate, q.model) /\ surrogate.state # "unfitted"
    BY <1>4 DEF Fits
  <2> QED
    BY <2>2, <2>3 DEF Matches
<1> QED
  BY <1>7, <1>8

\* clear_observations leaves no model, or all as it was.
LEMMA ClearedFacts ==
  ASSUME Matches(surrogate, model), NEW r \in Cleared
  PROVE  /\ IsResult(r) /\ Matches(r.surrogate, r.model)
         /\ r.ok => Whole(r.surrogate, r.model)
<1>1. \/ \E rows, ok : ok \in BOOLEAN /\ r = Result(Unfitted, None, rows, ok)
      \/ r = Result(surrogate, model, 0, FALSE)
  BY DEF Cleared, Fails
<1>2. CASE \E rows, ok : ok \in BOOLEAN /\ r = Result(Unfitted, None, rows, ok)
  BY <1>2, UnfittedFacts
<1>3. CASE r = Result(surrogate, model, 0, FALSE)
  BY <1>3 DEF Result, IsResult
<1> QED
  BY <1>1, <1>2, <1>3

\* A call that leaves one of its results keeps SurInv, if they match and those of success
\* are whole.
LEMMA LeavesKeeps ==
  ASSUME SurInv, config' = config, NEW fresh \in BOOLEAN, NEW results, Leaves(results, fresh),
         \A r \in results :
           /\ IsResult(r) /\ Matches(r.surrogate, r.model)
           /\ r.ok /\ (intact \/ fresh) => Whole(r.surrogate, r.model)
  PROVE  SurInv'
<1>1. PICK r \in results : /\ surrogate' = r.surrogate /\ model' = r.model
                           /\ intact' = ((intact \/ fresh) /\ r.ok)
  BY DEF Leaves
<1>2. Matches(r.surrogate, r.model) /\ (intact' => Whole(r.surrogate, r.model))
  BY <1>1
<1>3. ConfigTyped'
  BY DEF SurInv, ConfigTyped
<1>4. Matches(surrogate, model)'
  BY <1>1, <1>2 DEF Matches, Fits
<1>5. intact' => Whole(surrogate, model)'
  BY <1>1, <1>2 DEF Whole, Together
<1> QED
  BY <1>3, <1>4, <1>5 DEF SurInv

LEMMA FitKeeps ==
  ASSUME SurInv, NEW n \in Nat \ {0}, Fit(n)
  PROVE  SurInv'
<1> DEFINE fresh == TRUE
           before == IF surrogate.state = "unfitted" THEN left ELSE LeftBy(model)
           results == Started(n, surrogate.params, before)
<1>1. Leaves(results, fresh) /\ config' = config /\ fresh \in BOOLEAN /\ ConfigTyped
  BY DEF Fit, SurInv
<1>2. \A r \in results : /\ IsResult(r) /\ Matches(r.surrogate, r.model)
                         /\ r.ok => Whole(r.surrogate, r.model)
  <2>1. config.layout.disk /\ ~(before > 0) => surrogate.params = None
    BY DEF SurInv, Matches, Fits, LeftBy
  <2> HIDE DEF before
  <2> QED
    BY <1>1, <2>1, StartedFacts
<1> HIDE DEF fresh, results
<1> QED
  BY <1>1, <1>2, LeavesKeeps

LEMMA FitAppendKeeps ==
  ASSUME SurInv, NEW n \in Nat \ {0}, FitAppend(n)
  PROVE  SurInv'
<1>1. config' = config /\ ConfigTyped
  BY DEF FitAppend, SurInv
<1>2. CASE model = None
  <2> DEFINE fresh == TRUE
             results == Started(n, None, left)
  <2>1. Leaves(results, fresh) /\ fresh \in BOOLEAN
    BY <1>2 DEF FitAppend
  <2>2. \A r \in results : /\ IsResult(r) /\ Matches(r.surrogate, r.model)
                           /\ r.ok => Whole(r.surrogate, r.model)
    BY <1>1, StartedFacts
  <2> HIDE DEF fresh, results
  <2> QED
    BY <1>1, <2>1, <2>2, LeavesKeeps
<1>3. CASE model # None
  <2> DEFINE fresh == FALSE
             results == Appended(n)
  <2>1. Leaves(results, fresh) /\ fresh \in BOOLEAN /\ ~fresh
    BY <1>3 DEF FitAppend
  <2>2. IsFit(surrogate) /\ Fits(surrogate, model)
    BY <1>3 DEF SurInv, Matches
  <2>3. \A r \in results :
          /\ IsResult(r) /\ Matches(r.surrogate, r.model)
          /\ r.ok /\ Whole(surrogate, model) => Whole(r.surrogate, r.model)
    BY <1>1, <2>2, AppendedFacts
  <2>4. intact => Whole(surrogate, model)
    BY DEF SurInv
  <2> HIDE DEF fresh, results
  <2> QED
    BY <1>1, <2>1, <2>3, <2>4, LeavesKeeps
<1> QED
  BY <1>2, <1>3

LEMMA ClearKeeps ==
  ASSUME SurInv, ClearObservations
  PROVE  SurInv'
<1> DEFINE fresh == TRUE
<1>1. Leaves(Cleared, fresh) /\ config' = config /\ fresh \in BOOLEAN
  BY DEF ClearObservations
<1>2. \A r \in Cleared : /\ IsResult(r) /\ Matches(r.surrogate, r.model)
                         /\ r.ok => Whole(r.surrogate, r.model)
  BY ClearedFacts DEF SurInv
<1> HIDE DEF fresh
<1> QED
  BY <1>1, <1>2, LeavesKeeps

LEMMA SurInvFits == SurInv => FitsItsModel
<1> SUFFICES ASSUME SurInv, intact, surrogate.state # "unfitted"
             PROVE  LET s == surrogate
                    IN IF s.state = "frozen" THEN s.params = "default" /\ s.calibrator = None
                       ELSE /\ s.fitter.told = SetToBag(1..model.obs)
                            /\ Together(s, model.obs)
  BY DEF FitsItsModel, Together
<1>1. Fits(surrogate, model) /\ Whole(surrogate, model) /\ config.frozen \in BOOLEAN
  BY ConfigIs DEF SurInv, Matches
<1> QED
  BY <1>1 DEF Fits, Whole

----------------------------------------------------------------------------
(* The calls of an optimizer.                                              *)

\* The rows of the first sample are told as they are counted, and a later sample has what
\* it still lacks left; a search with a surrogate has a sample behind it.
RunInv(r) ==
  /\ r \in Runs
  /\ r.collapsed => ~r.in_init
  /\ IF r.in_init
     THEN r.reinit_left = 0 /\ (r.boundsFit => r.completed <= r.rows)
     ELSE /\ r.hybrid
          /\ r.boundsFit => r.rows + r.reinit_left >= r.num_init
          /\ r.reinit_left = 0 /\ r.surrogate /\ r.num_init > 0 => r.fitted

ConfigInv ==
  /\ run # Unset => RunInv(run)
  /\ answer # Unset => run # Unset /\ ServesEveryCall

LEMMA RunIs ==
  ASSUME NEW r \in Runs
  PROVE  /\ DOMAIN r = {"hybrid", "num_init", "turbo", "surrogate", "acquisition", "pool",
                        "boundsFit", "completed", "in_init", "reinit_left", "fitted",
                        "collapsed", "rows"}
         /\ r.hybrid \in BOOLEAN /\ r.turbo \in BOOLEAN /\ r.surrogate \in BOOLEAN
         /\ r.boundsFit \in BOOLEAN /\ r.in_init \in BOOLEAN /\ r.fitted \in BOOLEAN
         /\ r.collapsed \in BOOLEAN
         /\ r.num_init \in Nat /\ r.completed \in Nat /\ r.reinit_left \in Nat /\ r.rows \in Nat
         /\ r.acquisition \in Spellings.acquisition
         /\ r.pool \in [Arms -> Int]
BY DEF Runs

\* An ask may begin a new sample, and then forgets the old one.
LEMMA BegunFacts ==
  ASSUME NEW r, RunInv(r)
  PROVE  RunInv(Begun(r))
<1> DEFINE b == [r EXCEPT !.fitted = FALSE, !.collapsed = FALSE, !.rows = 0,
                          !.reinit_left = r.num_init]
<1>1. r \in Runs /\ r.num_init \in Nat
  BY RunIs DEF RunInv
<1>2. CASE r.collapsed
  <2>1. Begun(r) = b
    BY <1>2 DEF Begun
  <2>2. /\ b \in Runs /\ b.rows = 0 /\ b.reinit_left = r.num_init /\ b.num_init = r.num_init
        /\ b.collapsed = FALSE /\ b.in_init = r.in_init /\ b.hybrid = r.hybrid
    BY <1>1 DEF Runs
  <2>3. ~r.in_init /\ r.hybrid
    BY <1>2 DEF RunInv
  <2> HIDE DEF b
  <2>4. b.rows + b.reinit_left >= b.num_init /\ (b.reinit_left = 0 => ~(b.num_init > 0))
    BY <1>1, <2>2
  <2> QED
    BY <2>1, <2>2, <2>3, <2>4 DEF RunInv
<1>3. CASE ~r.collapsed
  BY <1>3 DEF Begun
<1> QED
  BY <1>2, <1>3

\* What an ask answers.
LEMMA AskedFacts ==
  ASSUME NEW r, RunInv(r), NEW n \in Arms, WellPosed(r)
  PROVE  /\ Asked(r, n) # Denied
         /\ Stage(r) = "search" => r.hybrid /\ r.rows >= r.num_init
         /\ Asked(r, n) \in 1..n
         /\ Asked(r, n) < n =>
              Asked(r, n) = IF Stage(r) = "search" THEN r.pool[n] ELSE r.reinit_left
<1>1. r \in Runs /\ n \in Nat \ {0} /\ Denied \notin Nat
  BY ConfigurationAssumption DEF RunInv
<1>2. /\ r.num_init \in Nat /\ r.rows \in Nat /\ r.reinit_left \in Nat
      /\ r.pool[n] \in Int /\ r.pool[n] > 0 /\ r.boundsFit
      /\ Reads(r) => r.num_init > 0
  BY <1>1, RunIs DEF WellPosed
<1>3. CASE r.reinit_left > 0
  <2>1. Stage(r) = "reinit" /\ Asked(r, n) = ReinitArms(r, n)
    BY <1>3 DEF Stage, Asked
  <2>2. ReinitArms(r, n) = IF n <= r.reinit_left THEN n ELSE r.reinit_left
    BY <1>1, <1>2, <1>3 DEF ReinitArms, AtLeast, AtMost
  <2> QED
    BY <1>1, <1>2, <1>3, <2>1, <2>2
<1>4. CASE ~(r.reinit_left > 0) /\ (~r.hybrid \/ r.in_init)
  <2>1. Stage(r) = "init" /\ Asked(r, n) = n
    BY <1>4 DEF Stage, Asked
  <2> QED
    BY <1>1, <2>1
<1>5. CASE ~(r.reinit_left > 0) /\ ~(~r.hybrid \/ r.in_init)
  <2>1. Stage(r) = "search" /\ Asked(r, n) = Selected(r, n)
    BY <1>5 DEF Stage, Asked
  <2>2. r.reinit_left = 0
    BY <1>2, <1>5
  <2>3. r.hybrid /\ r.rows + r.reinit_left >= r.num_init
        /\ (r.surrogate /\ r.num_init > 0 => r.fitted)
    BY <1>2, <1>5, <2>2 DEF RunInv
  <2>4. r.rows >= r.num_init
    BY <1>2, <2>2, <2>3
  <2>5. ~(r.pool[n] = 0 \/ (Reads(r) /\ ~r.fitted))
    BY <1>2, <2>3 DEF Reads
  <2>6. Selected(r, n) = n \/ Selected(r, n) = (IF n <= r.pool[n] THEN n ELSE r.pool[n])
    BY <2>5 DEF Selected, AtMost
  <2> QED
    BY <1>1, <1>2, <2>1, <2>3, <2>4, <2>6
<1> QED
  BY <1>3, <1>4, <1>5

LEMMA CountedFacts ==
  ASSUME NEW r, RunInv(r), NEW n \in TellSizes
  PROVE  /\ RunInv(CountedInit(r, n)) \/ r.boundsFit
         /\ CountedInit(r, n) \in Runs
         /\ CountedInit(r, n).completed =
              IF Stage(r) = "init" THEN AtMost(r.completed + n, r.num_init) ELSE r.completed
         /\ \A key \in DOMAIN r \ {"completed"} : CountedInit(r, n)[key] = r[key]
<1> DEFINE more == AtMost(r.completed + n, r.num_init)
           c == [r EXCEPT !.completed = more]
<1>1. r \in Runs /\ r.completed \in Nat /\ r.num_init \in Nat /\ n \in Nat
  BY RunIs, ConfigurationAssumption DEF RunInv
<1>2. more \in Nat
  BY <1>1 DEF AtMost
<1> HIDE DEF more
<1>3. /\ c \in Runs /\ c.completed = more
      /\ \A key \in DOMAIN r \ {"completed"} : c[key] = r[key]
      /\ c.collapsed = r.collapsed /\ c.in_init = r.in_init /\ c.hybrid = r.hybrid
      /\ c.reinit_left = r.reinit_left /\ c.boundsFit = r.boundsFit /\ c.rows = r.rows
      /\ c.surrogate = r.surrogate /\ c.num_init = r.num_init /\ c.fitted = r.fitted
  BY <1>1, <1>2 DEF Runs
<1> HIDE DEF c
<1>4. RunInv(c) \/ r.boundsFit
  BY <1>3 DEF RunInv
<1>5. CASE Stage(r) = "init"
  <2>1. CountedInit(r, n) = c
    BY <1>5 DEF CountedInit, c, more
  <2> QED
    BY <1>3, <1>4, <1>5, <2>1 DEF more
<1>6. CASE Stage(r) # "init"
  <2>1. CountedInit(r, n) = r
    BY <1>6 DEF CountedInit
  <2> QED
    BY <1>1, <1>6, <2>1
<1> QED
  BY <1>5, <1>6

\* A tell that stores its rows, whether or not it collapses a region.
LEMMA ToldFacts ==
  ASSUME NEW r, RunInv(r), NEW n \in TellSizes, NEW t \in Told(r, n)
  PROVE  RunInv(t)
<1> DEFINE c == CountedInit(r, n)
           rows == AtMost(c.rows + n, c.num_init)
           remaining == AtLeast(c.reinit_left - n, 0)
           in_init == c.in_init /\ ~(c.hybrid /\ c.completed >= c.num_init)
<1>1. PICK collapses \in Judging(r) :
        t = [c EXCEPT !.fitted = c.surrogate, !.rows = rows, !.reinit_left = remaining,
                      !.collapsed = collapses, !.in_init = in_init]
  BY DEF Told
<1>2. r \in Runs /\ n \in Nat
  BY ConfigurationAssumption DEF RunInv
<1>3. /\ c \in Runs
      /\ c.completed = IF Stage(r) = "init" THEN AtMost(r.completed + n, r.num_init)
                       ELSE r.completed
      /\ c.hybrid = r.hybrid /\ c.num_init = r.num_init /\ c.surrogate = r.surrogate
      /\ c.boundsFit = r.boundsFit /\ c.in_init = r.in_init /\ c.reinit_left = r.reinit_left
      /\ c.rows = r.rows /\ c.collapsed = r.collapsed
  BY <1>2, CountedFacts, RunIs
<1> HIDE DEF c
<1>4. /\ r.num_init \in Nat /\ r.rows \in Nat /\ r.reinit_left \in Nat /\ r.completed \in Nat
      /\ c.completed \in Nat /\ r.hybrid \in BOOLEAN /\ r.in_init \in BOOLEAN
      /\ r.boundsFit \in BOOLEAN /\ r.surrogate \in BOOLEAN /\ r.collapsed \in BOOLEAN
  BY <1>2, <1>3, RunIs
<1>5. /\ rows = IF r.rows + n <= r.num_init THEN r.rows + n ELSE r.num_init
      /\ remaining = IF r.reinit_left - n >= 0 THEN r.reinit_left - n ELSE 0
  BY <1>3 DEF AtLeast, AtMost
<1>6. rows \in Nat /\ remaining \in Nat /\ in_init \in BOOLEAN /\ collapses \in BOOLEAN
  <2>1. rows \in Nat /\ remaining \in Nat
    BY <1>2, <1>4, <1>5
  <2>2. collapses \in BOOLEAN
    BY <1>4 DEF Judging
  <2>3. in_init \in BOOLEAN
    BY <1>3, <1>4
  <2> QED
    BY <2>1, <2>2, <2>3
<1>7. in_init = (r.in_init /\ ~(r.hybrid /\ c.completed >= r.num_init))
  BY <1>3
<1> HIDE DEF rows, remaining, in_init
<1>8. /\ t \in Runs /\ t.rows = rows /\ t.reinit_left = remaining /\ t.collapsed = collapses
      /\ t.in_init = in_init /\ t.fitted = r.surrogate /\ t.surrogate = r.surrogate
      /\ t.hybrid = r.hybrid /\ t.num_init = r.num_init /\ t.boundsFit = r.boundsFit
      /\ t.completed = c.completed
  BY <1>1, <1>3, <1>6 DEF Runs
<1>9. collapses => ~in_init
  <2>1. CASE Stage(r) = "search"
    BY <1>7, <2>1 DEF Stage
  <2>2. CASE Stage(r) # "search"
    <3>1. collapses = r.collapsed
      BY <2>2 DEF Judging
    <3> QED
      BY <1>7, <3>1 DEF RunInv
  <2> QED
    BY <2>1, <2>2
<1>10. CASE r.in_init
  <2>1. r.reinit_left = 0 /\ (r.boundsFit => r.completed <= r.rows)
    BY <1>10 DEF RunInv
  <2>2. Stage(r) = "init"
    BY <1>10, <2>1 DEF Stage
  <2>3. c.completed = IF r.completed + n <= r.num_init THEN r.completed + n ELSE r.num_init
    BY <1>3, <2>2 DEF AtMost
  <2>4. remaining = 0
    BY <1>2, <1>5, <2>1
  <2>5. r.boundsFit => c.completed <= rows
    BY <1>2, <1>4, <1>5, <2>1, <2>3
  <2>6. CASE in_init
    BY <1>8, <1>9, <2>4, <2>5, <2>6 DEF RunInv
  <2>7. CASE ~in_init
    <3>1. r.hybrid /\ c.completed >= r.num_init
      BY <1>7, <1>10, <2>7
    <3>2. r.boundsFit => rows + remaining >= r.num_init
      BY <1>4, <1>6, <2>4, <2>5, <3>1
    <3> QED
      BY <1>8, <2>7, <3>1, <3>2 DEF RunInv
  <2> QED
    BY <2>6, <2>7
<1>11. CASE ~r.in_init
  <2>1. ~in_init /\ r.hybrid /\ (r.boundsFit => r.rows + r.reinit_left >= r.num_init)
    BY <1>7, <1>11 DEF RunInv
  <2>2. r.boundsFit => rows + remaining >= r.num_init
    BY <1>2, <1>4, <1>5, <2>1
  <2> QED
    BY <1>8, <2>1, <2>2 DEF RunInv
<1> QED
  BY <1>10, <1>11

\* The fields of a form that are not of a part of it.
OwnForm ==
  [init |-> "hybrid", num_init |-> Unset, trust_region |-> "turbo", surrogate |-> "none",
   acquisition |-> "random", candidate_rv |-> Unset, raasp_fast |-> FALSE,
   min_candidates |-> 10, max_candidates |-> 5000,
   num_candidates_per_dim |-> 100, num_candidates_per_arm |-> 0]

\* No part has a field of another.
LEMMA DefaultFormIs ==
  /\ \A key \in DOMAIN EnnForm : key \in DOMAIN DefaultForm /\ DefaultForm[key] = EnnForm[key]
  /\ \A key \in DOMAIN RegionForm :
       key \in DOMAIN DefaultForm /\ DefaultForm[key] = RegionForm[key]
  /\ \A key \in DOMAIN MorboForm :
       key \in DOMAIN DefaultForm /\ DefaultForm[key] = MorboForm[key]
  /\ \A key \in DOMAIN OwnForm : key \in DOMAIN DefaultForm /\ DefaultForm[key] = OwnForm[key]
<1> DEFINE both == EnnForm ++ RegionForm
           parts == both ++ MorboForm
<1>1. DefaultForm = parts ++ OwnForm
  BY DEF DefaultForm, OwnForm
<1>2. /\ DOMAIN RegionForm \cap DOMAIN EnnForm = {}
      /\ DOMAIN MorboForm \cap (DOMAIN EnnForm \cup DOMAIN RegionForm) = {}
      /\ DOMAIN OwnForm \cap (DOMAIN EnnForm \cup DOMAIN RegionForm \cup DOMAIN MorboForm) = {}
  BY DEF EnnForm, RegionForm, MorboForm, OwnForm
<1>3. /\ DOMAIN both = DOMAIN EnnForm \cup DOMAIN RegionForm
      /\ \A key \in DOMAIN EnnForm : both[key] = EnnForm[key]
      /\ \A key \in DOMAIN RegionForm : both[key] = RegionForm[key]
  BY <1>2 DEF ++
<1> HIDE DEF both
<1>4. /\ DOMAIN parts = DOMAIN both \cup DOMAIN MorboForm
      /\ \A key \in DOMAIN both : parts[key] = both[key]
      /\ \A key \in DOMAIN MorboForm : parts[key] = MorboForm[key]
  BY <1>2, <1>3 DEF ++
<1> HIDE DEF parts
<1>5. /\ DOMAIN DefaultForm = DOMAIN parts \cup DOMAIN OwnForm
      /\ \A key \in DOMAIN parts : DefaultForm[key] = parts[key]
      /\ \A key \in DOMAIN OwnForm : DefaultForm[key] = OwnForm[key]
  BY <1>1, <1>2, <1>3, <1>4 DEF ++
<1> QED
  BY <1>3, <1>4, <1>5

LEMMA EmptyIsSeq == <<>> \in Seq(Seq(Nat))
OBVIOUS

\* Every field of a form has its type.
LEMMA FormTyped ==
  ASSUME NEW f \in Forms
  PROVE  /\ \A key \in DOMAIN FormTypes : key \in DOMAIN f /\ f[key] \in FormTypes[key]
         /\ WholeForm(f)
<1> DEFINE typed(g) == \A key \in DOMAIN FormTypes : key \in DOMAIN g /\ g[key] \in FormTypes[key]
<1>1. typed(DefaultForm)
  <2> SUFFICES ASSUME NEW key \in DOMAIN FormTypes
               PROVE  key \in DOMAIN DefaultForm /\ DefaultForm[key] \in FormTypes[key]
    OBVIOUS
  <2>1. CASE key \in DOMAIN EnnForm
    <3>1. DefaultForm[key] = EnnForm[key] /\ key \in DOMAIN DefaultForm
      BY <2>1, DefaultFormIs
    <3>2. /\ EnnForm.k \in FormTypes.k /\ EnnForm.num_fit_samples \in FormTypes.num_fit_samples
          /\ EnnForm.num_fit_candidates \in FormTypes.num_fit_candidates
          /\ EnnForm.infer_aleatoric_variance \in FormTypes.infer_aleatoric_variance
          /\ EnnForm.affine_calibrate \in FormTypes.affine_calibrate
          /\ EnnForm.scale_x \in FormTypes.scale_x
          /\ EnnForm.metric_learning \in FormTypes.metric_learning
          /\ EnnForm.tied_dims \in FormTypes.tied_dims
          /\ EnnForm.index_driver \in FormTypes.index_driver
          /\ EnnForm.enn_storage \in FormTypes.enn_storage
          /\ EnnForm.work_dir \in FormTypes.work_dir /\ EnnForm.y_bounds \in FormTypes.y_bounds
      BY EmptyIsSeq DEF EnnForm, FormTypes, Spellings
    <3>3. DOMAIN EnnForm = {"k", "num_fit_samples", "num_fit_candidates",
                       "infer_aleatoric_variance", "affine_calibrate", "scale_x",
                       "metric_learning", "tied_dims", "index_driver", "enn_storage",
                       "work_dir", "y_bounds"}
      BY DEF EnnForm
    <3> QED
      BY <2>1, <3>1, <3>2, <3>3
  <2>2. CASE key \in DOMAIN RegionForm
    <3>1. DefaultForm[key] = RegionForm[key] /\ key \in DOMAIN DefaultForm
      BY <2>2, DefaultFormIs
    <3>2. /\ RegionForm.length_init \in FormTypes.length_init
          /\ RegionForm.length_min \in FormTypes.length_min
          /\ RegionForm.length_max \in FormTypes.length_max
          /\ RegionForm.noise_aware \in FormTypes.noise_aware
      BY DEF RegionForm, FormTypes
    <3>3. DOMAIN RegionForm = {"length_init", "length_min", "length_max", "noise_aware"}
      BY DEF RegionForm
    <3> QED
      BY <2>2, <3>1, <3>2, <3>3
  <2>3. CASE key \in DOMAIN MorboForm
    <3>1. DefaultForm[key] = MorboForm[key] /\ key \in DOMAIN DefaultForm
      BY <2>3, DefaultFormIs
    <3> QED
      BY <2>3, <3>1 DEF MorboForm, FormTypes, Spellings
  <2>4. CASE key \in DOMAIN OwnForm
    <3>1. DefaultForm[key] = OwnForm[key] /\ key \in DOMAIN DefaultForm
      BY <2>4, DefaultFormIs
    <3>2. /\ OwnForm.init \in FormTypes.init /\ OwnForm.num_init \in FormTypes.num_init
          /\ OwnForm.trust_region \in FormTypes.trust_region
          /\ OwnForm.surrogate \in FormTypes.surrogate
          /\ OwnForm.acquisition \in FormTypes.acquisition
          /\ OwnForm.candidate_rv \in FormTypes.candidate_rv
          /\ OwnForm.raasp_fast \in FormTypes.raasp_fast
          /\ OwnForm.min_candidates \in FormTypes.min_candidates
          /\ OwnForm.max_candidates \in FormTypes.max_candidates
          /\ OwnForm.num_candidates_per_dim \in FormTypes.num_candidates_per_dim
          /\ OwnForm.num_candidates_per_arm \in FormTypes.num_candidates_per_arm
      BY DEF OwnForm, FormTypes, Spellings
    <3>3. DOMAIN OwnForm = {"init", "num_init", "trust_region", "surrogate", "acquisition",
                       "candidate_rv", "raasp_fast", "min_candidates", "max_candidates",
                       "num_candidates_per_dim", "num_candidates_per_arm"}
      BY DEF OwnForm
    <3> QED
      BY <2>4, <3>1, <3>2, <3>3
  <2>5. key \in DOMAIN EnnForm \cup DOMAIN RegionForm \cup DOMAIN MorboForm \cup DOMAIN OwnForm
    BY DEF FormTypes, EnnForm, RegionForm, MorboForm, OwnForm
  <2> QED
    BY <2>1, <2>2, <2>3, <2>4, <2>5
<1>2. \A g \in FactoryForms : typed(g)
  <2> SUFFICES ASSUME NEW g \in FactoryForms, NEW key \in DOMAIN FormTypes
               PROVE  key \in DOMAIN g /\ g[key] \in FormTypes[key]
    OBVIOUS
  <2>1. key \in DOMAIN DefaultForm /\ DefaultForm[key] \in FormTypes[key]
    BY <1>1
  <2>2. CASE g = DefaultForm
    BY <2>1, <2>2
  <2>3. CASE g = [DefaultForm EXCEPT !.surrogate = "enn", !.acquisition = "pareto"]
    <3>1. /\ "enn" \in FormTypes["surrogate"] /\ "pareto" \in FormTypes["acquisition"]
      BY DEF FormTypes, Spellings
    <3> DEFINE one == [DefaultForm EXCEPT !.surrogate = "enn"]
    <3>2. g = [one EXCEPT !.acquisition = "pareto"]
      BY <2>3
    <3>3. key \in DOMAIN one /\ one[key] \in FormTypes[key]
      BY <2>1, <3>1, SMT
    <3> HIDE DEF one
    <3> QED
      BY <3>1, <3>2, <3>3, SMT
  <2>4. CASE g = [DefaultForm EXCEPT !.init = "lhd", !.trust_region = "none",
                                     !.min_candidates = 1, !.max_candidates = 1000000000,
                                     !.num_candidates_per_dim = 1]
    <3>1. /\ "lhd" \in FormTypes["init"] /\ "none" \in FormTypes["trust_region"]
          /\ 1 \in FormTypes["min_candidates"] /\ 1000000000 \in FormTypes["max_candidates"]
          /\ 1 \in FormTypes["num_candidates_per_dim"]
      BY DEF FormTypes
    <3> DEFINE one == [DefaultForm EXCEPT !.init = "lhd"]
               two == [one EXCEPT !.trust_region = "none"]
               three == [two EXCEPT !.min_candidates = 1]
               four == [three EXCEPT !.max_candidates = 1000000000]
    <3>2. g = [four EXCEPT !.num_candidates_per_dim = 1]
      BY <2>4
    <3>3. key \in DOMAIN one /\ one[key] \in FormTypes[key]
      BY <2>1, <3>1, SMT
    <3> HIDE DEF one
    <3>4. key \in DOMAIN two /\ two[key] \in FormTypes[key]
      BY <3>1, <3>3, SMT
    <3> HIDE DEF two
    <3>5. key \in DOMAIN three /\ three[key] \in FormTypes[key]
      BY <3>1, <3>4, SMT
    <3> HIDE DEF three
    <3>6. key \in DOMAIN four /\ four[key] \in FormTypes[key]
      BY <3>1, <3>5, SMT
    <3> HIDE DEF four
    <3> QED
      BY <3>1, <3>2, <3>6, SMT
  <2> QED
    BY <2>2, <2>3, <2>4 DEF FactoryForms
<1>3. PICK first \in FormChanges \cup {<<>>}, second \in FormChanges \cup {<<>>},
           g \in FactoryForms : f = first ++ second ++ g
  BY DEF Forms, Changed
<1>4. ASSUME NEW change \in FormChanges \cup {<<>>}
      PROVE  \A key \in DOMAIN change : change[key] \in FormTypes[key]
  BY ConfigurationAssumption
<1>5. ASSUME NEW key \in DOMAIN FormTypes
      PROVE  key \in DOMAIN f /\ f[key] \in FormTypes[key]
  <2> DEFINE both == first ++ second
  <2>1. key \in DOMAIN g /\ g[key] \in FormTypes[key]
    BY <1>2
  <2>2. f = both ++ g
    BY <1>3
  <2>3. key \in DOMAIN both => both[key] \in FormTypes[key]
    BY <1>4 DEF ++
  <2> HIDE DEF both
  <2> QED
    BY <2>1, <2>2, <2>3 DEF ++
<1>6. WholeForm(f)
  BY DEF Forms
<1> QED
  BY <1>5, <1>6

\* The defaults of a surrogate, beside those of its search.
OwnEnn ==
  [k |-> 10, freeze_params |-> FALSE, index_driver |-> "FLAT", enn_storage |-> "MEMORY",
   work_dir |-> Unset, scale_x |-> FALSE, metric_learning |-> "NONE", y_bounds |-> Unset,
   tied_dims |-> <<>>]

SearchDefaults(entry) == IF entry = "lhd" THEN BaseLhd ELSE BaseTurbo(entry)

\* No part of a factory's defaults has a key of another.
LEMMA BaseIs ==
  ASSUME NEW entry
  PROVE  /\ DOMAIN Base(entry) =
              DOMAIN BaseRegion \cup DOMAIN SearchDefaults(entry)
                \cup (IF entry = "enn" THEN DOMAIN BaseSearch \cup DOMAIN OwnEnn ELSE {})
         /\ \A key \in DOMAIN BaseRegion : Base(entry)[key] = BaseRegion[key]
         /\ \A key \in DOMAIN SearchDefaults(entry) :
              Base(entry)[key] = SearchDefaults(entry)[key]
         /\ entry = "enn" =>
              /\ \A key \in DOMAIN BaseSearch : Base(entry)[key] = BaseSearch[key]
              /\ \A key \in DOMAIN OwnEnn : Base(entry)[key] = OwnEnn[key]
<1> DEFINE first == SearchDefaults(entry)
           both == BaseRegion ++ first
           rest == IF entry = "enn" THEN BaseEnn ELSE <<>>
<1>1. Base(entry) = both ++ rest
  BY DEF Base, SearchDefaults
<1>2. BaseEnn = BaseSearch ++ OwnEnn
  BY DEF BaseEnn, OwnEnn
<1>3. DOMAIN first = {"acquisition", "candidate_rv", "raasp_fast", "min_candidates",
                      "max_candidates", "num_candidates_per_dim", "num_candidates_per_arm",
                      "noise_aware"}
  BY DEF SearchDefaults, BaseTurbo, BaseLhd
<1>4. /\ DOMAIN first \cap DOMAIN BaseRegion = {}
      /\ DOMAIN BaseSearch \cap DOMAIN OwnEnn = {}
      /\ (DOMAIN BaseSearch \cup DOMAIN OwnEnn) \cap (DOMAIN BaseRegion \cup DOMAIN first) = {}
  BY <1>3 DEF BaseRegion, BaseSearch, OwnEnn
<1>5. /\ DOMAIN BaseEnn = DOMAIN BaseSearch \cup DOMAIN OwnEnn
      /\ \A key \in DOMAIN BaseSearch : BaseEnn[key] = BaseSearch[key]
      /\ \A key \in DOMAIN OwnEnn : BaseEnn[key] = OwnEnn[key]
  BY <1>2, <1>4 DEF ++
<1>6. DOMAIN <<>> = {}
  OBVIOUS
<1> HIDE DEF first
<1>7. /\ DOMAIN both = DOMAIN BaseRegion \cup DOMAIN first
      /\ \A key \in DOMAIN BaseRegion : both[key] = BaseRegion[key]
      /\ \A key \in DOMAIN first : both[key] = first[key]
  BY <1>4 DEF ++
<1> HIDE DEF both
<1>8. DOMAIN rest = IF entry = "enn" THEN DOMAIN BaseSearch \cup DOMAIN OwnEnn ELSE {}
  BY <1>5, <1>6
<1>9. entry = "enn" => rest = BaseEnn
  OBVIOUS
<1> HIDE DEF rest
<1>10. /\ DOMAIN Base(entry) = DOMAIN both \cup DOMAIN rest
       /\ \A key \in DOMAIN both : Base(entry)[key] = both[key]
       /\ \A key \in DOMAIN rest : Base(entry)[key] = rest[key]
  <2>1. DOMAIN both \cap DOMAIN rest = {}
    BY <1>4, <1>7, <1>8
  <2> QED
    BY <1>1, <2>1 DEF ++
<1> QED
  BY <1>5, <1>7, <1>8, <1>9, <1>10 DEF first

\* A caller's k is put over the default.
LEMMA WithKFacts ==
  ASSUME NEW entry, NEW k
  PROVE  /\ DOMAIN WithK(Base(entry), k) = DOMAIN Base(entry)
         /\ \A key \in DOMAIN Base(entry) \ {"k"} : WithK(Base(entry), k)[key] = Base(entry)[key]
         /\ entry = "enn" => WithK(Base(entry), k)["k"] = IF k = Unset THEN 10 ELSE k
         /\ "k" \in DOMAIN Base(entry) <=> entry = "enn"
         /\ {"strategy", "num_init"} \cap DOMAIN Base(entry) = {}
<1>1. DOMAIN SearchDefaults(entry) =
        {"acquisition", "candidate_rv", "raasp_fast", "min_candidates", "max_candidates",
         "num_candidates_per_dim", "num_candidates_per_arm", "noise_aware"}
  BY DEF SearchDefaults, BaseTurbo, BaseLhd
<1>6. /\ {"k", "strategy", "num_init"} \cap DOMAIN SearchDefaults(entry) = {}
      /\ {"k", "strategy", "num_init"} \cap DOMAIN BaseRegion = {}
      /\ {"k", "strategy", "num_init"} \cap DOMAIN BaseSearch = {}
      /\ {"strategy", "num_init"} \cap DOMAIN OwnEnn = {} /\ "k" \in DOMAIN OwnEnn
  BY <1>1 DEF BaseRegion, BaseSearch, OwnEnn
<1>2. "k" \in DOMAIN Base(entry) <=> entry = "enn"
  BY <1>6, BaseIs
<1>3. {"strategy", "num_init"} \cap DOMAIN Base(entry) = {}
  BY <1>6, BaseIs
<1>4. entry = "enn" => Base(entry)["k"] = 10
  BY BaseIs DEF OwnEnn
<1> DEFINE base == Base(entry)
<1> HIDE DEF base
<1>5. /\ DOMAIN WithK(base, k) = DOMAIN base
      /\ \A key \in DOMAIN base \ {"k"} : WithK(base, k)[key] = base[key]
      /\ "k" \in DOMAIN base => WithK(base, k)["k"] = IF k = Unset THEN base["k"] ELSE k
  BY DEF WithK, IsEnn, Has
<1> QED
  BY <1>2, <1>3, <1>4, <1>5 DEF base

\* over is a dictionary put over defaults.
Puts(over, keys, base) == over = keys ++ base

\* A configuration of which the optimizer keeps two more fields.
Meet(over, made) ==
  /\ DOMAIN made = {"strategy", "num_init"} /\ DOMAIN made \cap DOMAIN over = {}
  /\ IsEnn(over) => SearchKeys \cup {"enn_storage", "work_dir"} \subseteq DOMAIN over

\* What an optimizer keeps of a configuration: all but the search of a frozen surrogate and
\* the directory of one in memory.
Kept(c, over, env) ==
  /\ \A key \in DOMAIN over :
       \/ c[key] = over[key]
       \/ IsEnn(over) /\ key = "work_dir"
       \/ IsEnn(over) /\ key \in SearchKeys /\ over.freeze_params
  /\ IsEnn(over) =>
       /\ c["work_dir"] = IF over.enn_storage = "DISK" THEN WorkDir(over, env) ELSE Unset
       /\ over.freeze_params => \A key \in SearchKeys : c[key] = Unset
Beside(c, over, made) ==
  /\ DOMAIN c = DOMAIN over \cup DOMAIN made
  /\ \A key \in DOMAIN made : c[key] = made[key]

\* The layout and the fit leave of a configuration what is kept.
LEMMA AppliedFacts ==
  ASSUME NEW base, NEW keys, NEW env, NEW made, NEW over, NEW c,
         Puts(over, keys, base), Puts(c, Applied(base, keys, env), made), Meet(over, made)
  PROVE  Beside(c, over, made) /\ Kept(c, over, env)
<1> USE DEF Meet
<1> DEFINE applied == Applied(base, keys, env)
           search == [key \in SearchKeys |-> IF over.freeze_params THEN Unset ELSE over[key]]
           searched == search ++ over
           place == [work_dir |-> IF searched.enn_storage = "DISK"
                                  THEN WorkDir(searched, env) ELSE Unset]
           placed == place ++ searched
<1>1. applied = IF IsEnn(over) THEN placed ELSE over
  BY DEF Applied, LayoutApplied, FitApplied, Puts
<1>2. "work_dir" \notin SearchKeys /\ "enn_storage" \notin SearchKeys
  BY DEF SearchKeys
<1>3. DOMAIN search = SearchKeys /\ \A key \in SearchKeys :
        search[key] = over[key] \/ over.freeze_params
  OBVIOUS
<1> HIDE DEF search, applied
<1>4. /\ DOMAIN searched = DOMAIN over \cup SearchKeys
      /\ \A key \in SearchKeys : searched[key] = search[key]
      /\ \A key \in DOMAIN over \ SearchKeys : searched[key] = over[key]
  BY <1>3 DEF ++
<1>5. DOMAIN place = {"work_dir"}
      /\ place["work_dir"] =
           IF searched.enn_storage = "DISK" THEN WorkDir(searched, env) ELSE Unset
  OBVIOUS
<1> HIDE DEF searched, place
<1>6. /\ DOMAIN placed = DOMAIN searched \cup {"work_dir"}
      /\ placed["work_dir"] = place["work_dir"]
      /\ \A key \in DOMAIN searched \ {"work_dir"} : placed[key] = searched[key]
  BY <1>5 DEF ++
<1> HIDE DEF placed
<1>7. DOMAIN applied = DOMAIN over
  BY <1>1, <1>4, <1>6
<1>11. c = applied ++ made
  BY DEF Puts, applied
<1>8. /\ DOMAIN c = DOMAIN over \cup DOMAIN made
      /\ \A key \in DOMAIN over : c[key] = applied[key]
      /\ \A key \in DOMAIN made : c[key] = made[key]
  BY <1>7, <1>11 DEF ++
<1>9. ASSUME NEW key \in DOMAIN over
      PROVE  \/ c[key] = over[key]
             \/ IsEnn(over) /\ key = "work_dir"
             \/ IsEnn(over) /\ key \in SearchKeys /\ over.freeze_params
  BY <1>1, <1>3, <1>4, <1>6, <1>8
<1>10. ASSUME IsEnn(over)
       PROVE  c["work_dir"] = IF over.enn_storage = "DISK" THEN WorkDir(over, env) ELSE Unset
  <2>1. c["work_dir"] = place["work_dir"]
    BY <1>1, <1>6, <1>8, <1>10
  <2>2. searched.enn_storage = over.enn_storage
    BY <1>2, <1>4, <1>10
  <2>3. searched.work_dir = over.work_dir
    BY <1>2, <1>4, <1>10
  <2> QED
    BY <1>5, <2>1, <2>2, <2>3 DEF WorkDir
<1>12. ASSUME IsEnn(over), over.freeze_params, NEW key \in SearchKeys
       PROVE  c[key] = Unset
  <2>1. search[key] = Unset
    BY <1>12 DEF search
  <2>2. key # "work_dir" /\ key \in DOMAIN over
    BY <1>2, <1>12
  <2> QED
    BY <1>1, <1>4, <1>6, <1>8, <1>12, <2>1, <2>2
<1> QED
  BY <1>8, <1>9, <1>10, <1>12 DEF Beside, Kept

\* A configuration, from the dictionary over the defaults that it came from.
LEMMA AssembledFacts ==
  ASSUME NEW entry, NEW k, NEW numInit, NEW keys, NEW env, NEW over, NEW c,
         Puts(over, keys, WithK(Base(entry), k)),
         c = Assembled(entry, k, numInit, keys, env),
         {"strategy", "num_init"} \cap DOMAIN over = {},
         IsEnn(over) => SearchKeys \cup {"enn_storage", "work_dir"} \subseteq DOMAIN over
  PROVE  /\ Kept(c, over, env)
         /\ DOMAIN c = DOMAIN over \cup {"strategy", "num_init"}
         /\ c["strategy"] = Strategy(entry)
         /\ c["num_init"] = IF numInit = Unset THEN DefaultNumInit ELSE numInit
<1>1. PICK base : base = WithK(Base(entry), k)
  OBVIOUS
<1>2. PICK made : made = [strategy |-> Strategy(entry),
                          num_init |-> IF numInit = Unset THEN DefaultNumInit ELSE numInit]
  OBVIOUS
<1>3. Puts(over, keys, base)
  BY <1>1
<1>4. Puts(c, Applied(base, keys, env), made)
  BY <1>1, <1>2 DEF Puts, Assembled
<1>5. /\ DOMAIN made = {"strategy", "num_init"}
      /\ made["strategy"] = Strategy(entry)
      /\ made["num_init"] = IF numInit = Unset THEN DefaultNumInit ELSE numInit
  BY <1>2
<1>6. Meet(over, made)
  BY <1>5 DEF Meet
<1>7. Beside(c, over, made) /\ Kept(c, over, env)
  BY <1>3, <1>4, <1>6, AppliedFacts
<1> QED
  BY <1>5, <1>7 DEF Beside

\* A dictionary of known keys over a factory's defaults.
LaidOver(over, keys, entry, k) ==
  /\ DOMAIN over = DOMAIN keys \cup DOMAIN Base(entry)
  /\ \A key \in DOMAIN keys : over[key] = keys[key]
  /\ \A key \in DOMAIN Base(entry) \ DOMAIN keys : over[key] = WithK(Base(entry), k)[key]
  /\ IsEnn(over) <=> entry = "enn"
  /\ {"k", "strategy", "num_init"} \cap DOMAIN keys = {}
  /\ {"strategy", "num_init"} \cap DOMAIN over = {}
  /\ entry = "enn" =>
       SearchKeys \cup {"k", "freeze_params", "enn_storage", "work_dir"} \subseteq DOMAIN over

LEMMA OverDefaults ==
  ASSUME NEW entry, NEW k, NEW keys, KeysKnown(keys), NEW over,
         Puts(over, keys, WithK(Base(entry), k))
  PROVE  LaidOver(over, keys, entry, k)
<1> DEFINE base == WithK(Base(entry), k)
<1>1. DOMAIN base = DOMAIN Base(entry)
  BY WithKFacts
<1>2. {"k", "strategy", "num_init"} \cap DOMAIN keys = {}
  BY DEF KeysKnown, ConfigOverrideKeys, EnnOverrideKeys, CountKeys, LengthKeys, MorboKeys,
         SearchKeys, LayoutKeys
<1> HIDE DEF base
<1>3. /\ DOMAIN over = DOMAIN keys \cup DOMAIN base
      /\ \A key \in DOMAIN keys : over[key] = keys[key]
      /\ \A key \in DOMAIN base \ DOMAIN keys : over[key] = base[key]
  <2>1. over = keys ++ base
    BY DEF base, Puts
  <2> QED
    BY <2>1 DEF ++
<1>4. IsEnn(over) <=> entry = "enn"
  BY <1>1, <1>2, <1>3, WithKFacts DEF IsEnn, Has
<1>5. {"strategy", "num_init"} \cap DOMAIN over = {}
  BY <1>1, <1>2, <1>3, WithKFacts
<1>6. entry = "enn" =>
        SearchKeys \cup {"k", "freeze_params", "enn_storage", "work_dir"}
          \subseteq DOMAIN Base(entry)
  <2>1. /\ SearchKeys \subseteq DOMAIN BaseSearch
        /\ {"k", "freeze_params", "enn_storage", "work_dir"} \subseteq DOMAIN OwnEnn
    BY DEF SearchKeys, BaseSearch, OwnEnn
  <2> QED
    BY <2>1, BaseIs
<1> QED
  BY <1>1, <1>2, <1>3, <1>4, <1>5, <1>6 DEF base, LaidOver

\* A key of a dictionary has a value.
LEMMA KeysHaveValues ==
  ASSUME NEW keys \in Changed({<<>>}, KeyChanges), "work_dir" \in DOMAIN keys
  PROVE  keys["work_dir"] # Unset
<1>1. PICK first \in KeyChanges \cup {<<>>}, second \in KeyChanges \cup {<<>>} :
        keys = first ++ second ++ <<>>
  BY DEF Changed
<1>2. ASSUME NEW change \in KeyChanges \cup {<<>>}, "work_dir" \in DOMAIN change
      PROVE  change["work_dir"] # Unset
  BY <1>2, ConfigurationAssumption
<1> DEFINE both == first ++ second
<1>3. "work_dir" \in DOMAIN both => both["work_dir"] # Unset
  BY <1>2 DEF ++
<1>4. keys = both ++ <<>> /\ DOMAIN <<>> = {}
  BY <1>1
<1> HIDE DEF both
<1> QED
  BY <1>3, <1>4 DEF ++

\* A dictionary that builds an optimizer has every key in force in it.
LEMMA KeysInForce ==
  ASSUME NEW keys \in Changed({<<>>}, KeyChanges), NEW entry, NEW k, NEW numInit, NEW env,
         Created(entry, k, numInit, keys, env) # Denied
  PROVE  \A key \in DOMAIN keys : Created(entry, k, numInit, keys, env)[key] = keys[key]
<1>1. PICK c : c = Assembled(entry, k, numInit, keys, env)
  OBVIOUS
<1>2. /\ KeysKnown(keys) /\ FitWhole(keys) /\ FactoryAccepts(entry, k, keys, env)
      /\ Created(entry, k, numInit, keys, env) = c
  BY <1>1 DEF Created, Parses
<1>3. PICK over : Puts(over, keys, WithK(Base(entry), k))
  BY DEF Puts
<1>4. over = keys ++ WithK(Base(entry), k)
  BY <1>3 DEF Puts
<1>5. KeysKnown(keys)
  BY <1>2
<1>6. /\ DOMAIN over = DOMAIN keys \cup DOMAIN Base(entry)
      /\ \A key \in DOMAIN keys : over[key] = keys[key]
      /\ \A key \in DOMAIN Base(entry) \ DOMAIN keys : over[key] = WithK(Base(entry), k)[key]
      /\ IsEnn(over) <=> entry = "enn"
      /\ {"strategy", "num_init"} \cap DOMAIN over = {}
      /\ entry = "enn" =>
            SearchKeys \cup {"k", "freeze_params", "enn_storage", "work_dir"} \subseteq DOMAIN over
  <2>1. LaidOver(over, keys, entry, k)
    BY <1>3, <1>5, OverDefaults
  <2> QED
    BY <2>1 DEF LaidOver
<1>7. IsEnn(over) => SearchKeys \cup {"enn_storage", "work_dir"} \subseteq DOMAIN over
  BY <1>6
<1>8. {"strategy", "num_init"} \cap DOMAIN over = {}
  BY <1>6
<1>9. /\ \A key \in DOMAIN over :
           \/ c[key] = over[key]
           \/ IsEnn(over) /\ key = "work_dir"
           \/ IsEnn(over) /\ key \in SearchKeys /\ over.freeze_params
      /\ IsEnn(over) =>
           c["work_dir"] = IF over.enn_storage = "DISK" THEN WorkDir(over, env) ELSE Unset
  <2>1. Kept(c, over, env)
    BY <1>1, <1>3, <1>7, <1>8, AssembledFacts
  <2> QED
    BY <2>1 DEF Kept
<1>10. IsEnn(over) /\ "freeze_params" \notin DOMAIN keys => over.freeze_params = FALSE
  <2>1. entry = "enn" => /\ Base(entry)["freeze_params"] = FALSE
                         /\ "freeze_params" \in DOMAIN Base(entry)
    BY BaseIs DEF OwnEnn
  <2> QED
    BY <1>6, <2>1, WithKFacts
<1>11. IsEnn(over) => PlacementHolds(over, env)
  BY <1>2, <1>4, <1>6 DEF FactoryAccepts, EnnAccepted
<1>12. ASSUME NEW key \in DOMAIN keys, IsEnn(over), key \in SearchKeys, over.freeze_params
       PROVE  FALSE
  <2>1. Value(keys, "freeze_params", FALSE) => DOMAIN keys \cap SearchKeys = {}
    BY <1>2 DEF FitWhole
  <2>2. CASE "freeze_params" \in DOMAIN keys
    BY <1>6, <1>12, <2>1, <2>2 DEF Value, Has
  <2>3. CASE "freeze_params" \notin DOMAIN keys
    BY <1>10, <1>12, <2>3
  <2> QED
    BY <2>2, <2>3
<1>13. ASSUME IsEnn(over), "work_dir" \in DOMAIN keys
       PROVE  c["work_dir"] = keys["work_dir"]
  <2>1. keys["work_dir"] # Unset /\ over["work_dir"] = keys["work_dir"]
    BY <1>6, <1>13, KeysHaveValues
  <2> QED
    BY <1>9, <1>11, <1>13, <2>1 DEF PlacementHolds, WorkDir
<1> QED
  BY <1>2, <1>6, <1>9, <1>12, <1>13

\* What an optimizer reads of its configuration whatever is asked and told.
Read == CountKeys \cup {"acquisition"}
Meant(key) == IF key \in CountKeys THEN Nat ELSE Spellings.acquisition

\* Every key that is read has a default of its type.
LEMMA BaseFacts ==
  ASSUME NEW entry
  PROVE  \A key \in Read : key \in DOMAIN Base(entry) /\ Base(entry)[key] \in Meant(key)
<1>1. Spellings.acquisition = {"ucb", "thompson", "random", "pareto"}
  BY DEF Spellings
<1>2. ASSUME NEW key \in Read
      PROVE  LET turbo == BaseTurbo(entry)
             IN  turbo[key] \in Meant(key) /\ key \in DOMAIN turbo
  BY <1>1, SMT DEF Read, Meant, CountKeys, BaseTurbo
<1>3. ASSUME NEW key \in Read
      PROVE  BaseLhd[key] \in Meant(key) /\ key \in DOMAIN BaseLhd
  <2> DEFINE zero == BaseTurbo("lhd")
  <2>1. zero[key] \in Meant(key) /\ key \in DOMAIN zero
    BY <1>1, SMT DEF Read, Meant, CountKeys, BaseTurbo
  <2> DEFINE one == [zero EXCEPT !.candidate_rv = "uniform"]
             two == [one EXCEPT !.min_candidates = 1]
             three == [two EXCEPT !.max_candidates = 1000000000]
  <2>2. BaseLhd = [three EXCEPT !.num_candidates_per_dim = 1]
    BY DEF BaseLhd
  <2> HIDE DEF zero
  <2>3. one[key] \in Meant(key) /\ key \in DOMAIN one
    BY <2>1, SMT DEF Read, CountKeys
  <2> HIDE DEF one
  <2>4. two[key] \in Meant(key) /\ key \in DOMAIN two
    BY <2>3, SMT DEF Read, Meant, CountKeys
  <2> HIDE DEF two
  <2>5. three[key] \in Meant(key) /\ key \in DOMAIN three
    BY <2>4, SMT DEF Read, Meant, CountKeys
  <2> HIDE DEF three
  <2> QED
    BY <2>2, <2>5, SMT DEF Read, Meant, CountKeys
<1>4. \A key \in Read : /\ key \in DOMAIN SearchDefaults(entry)
                        /\ SearchDefaults(entry)[key] \in Meant(key)
  BY <1>2, <1>3 DEF SearchDefaults
<1> QED
  BY <1>4, BaseIs

\* Whatever a dictionary of known keys puts over the defaults, what is read has its type.
LEMMA CreatedFacts ==
  ASSUME NEW entry, NEW k, NEW numInit \in Nat \cup {Unset}, NEW keys, NEW env,
         \A key \in CountKeys \cap DOMAIN keys : keys[key] \in Nat,
         Created(entry, k, numInit, keys, env) # Denied
  PROVE  /\ Created(entry, k, numInit, keys, env)["num_init"] \in Nat
         /\ \A key \in Read : Created(entry, k, numInit, keys, env)[key] \in Meant(key)
<1>1. PICK c : c = Assembled(entry, k, numInit, keys, env)
  OBVIOUS
<1>2. /\ KeysKnown(keys) /\ NamesKnown(keys)
      /\ Created(entry, k, numInit, keys, env) = c
  BY <1>1 DEF Created, Parses
<1>3. PICK over : Puts(over, keys, WithK(Base(entry), k))
  BY DEF Puts
<1>4. LaidOver(over, keys, entry, k)
  BY <1>2, <1>3, OverDefaults
<1>5. /\ {"strategy", "num_init"} \cap DOMAIN over = {}
      /\ IsEnn(over) => SearchKeys \cup {"enn_storage", "work_dir"} \subseteq DOMAIN over
  BY <1>4 DEF LaidOver
<1>6. /\ Kept(c, over, env)
      /\ DOMAIN c = DOMAIN over \cup {"strategy", "num_init"}
      /\ c["strategy"] = Strategy(entry)
      /\ c["num_init"] = IF numInit = Unset THEN DefaultNumInit ELSE numInit
  BY <1>1, <1>3, <1>5, AssembledFacts
<1>7. \A key \in Read \cap DOMAIN keys : keys[key] \in Meant(key)
  <2>1. "acquisition" \in DOMAIN keys => keys["acquisition"] \in Spellings["acquisition"]
    BY <1>2 DEF NamesKnown, Spellings
  <2> QED
    BY <2>1 DEF Read, Meant
<1>8. "k" \notin Read /\ "work_dir" \notin Read /\ Read \cap SearchKeys = {}
  BY DEF Read, CountKeys, SearchKeys
<1>9. \A key \in Read : key \in DOMAIN over /\ over[key] \in Meant(key)
  <2>1. \A key \in Read : WithK(Base(entry), k)[key] = Base(entry)[key]
    BY <1>8, BaseFacts, WithKFacts
  <2> QED
    BY <1>4, <1>7, <2>1, BaseFacts DEF LaidOver
<1>10. \A key \in Read : c[key] = over[key]
  BY <1>6, <1>8, <1>9 DEF Kept
<1>11. c["num_init"] \in Nat
  BY <1>6 DEF DefaultNumInit
<1> QED
  BY <1>2, <1>9, <1>10, <1>11

\* A form that comes from a factory has counts in it, and a number of first points or none.
LEMMA FormFacts ==
  ASSUME NEW f \in Forms
  PROVE  /\ \A key \in CountKeys : f[key] \in Nat
         /\ f["num_init"] \in Nat \cup {Unset}
<1>1. /\ \A key \in CountKeys : key \in DOMAIN FormTypes /\ FormTypes[key] = Nat
      /\ "num_init" \in DOMAIN FormTypes /\ FormTypes["num_init"] = Nat \cup {Unset}
  BY DEF FormTypes, CountKeys
<1> QED
  BY <1>1, FormTyped

\* So has what a caller of the extension puts in a dictionary.
LEMMA KeysFacts ==
  ASSUME NEW keys \in Changed({<<>>}, KeyChanges)
  PROVE  \A key \in CountKeys \cap DOMAIN keys : keys[key] \in Nat
<1>1. PICK first \in KeyChanges \cup {<<>>}, second \in KeyChanges \cup {<<>>} :
        keys = first ++ second ++ <<>>
  BY DEF Changed
<1>2. ASSUME NEW change \in KeyChanges \cup {<<>>}
      PROVE  \A key \in CountKeys \cap DOMAIN change : change[key] \in Nat
  BY ConfigurationAssumption
<1> DEFINE both == first ++ second
<1>3. \A key \in CountKeys \cap DOMAIN both : both[key] \in Nat
  BY <1>2 DEF ++
<1>4. keys = both ++ <<>>
  BY <1>1
<1>5. CountKeys \cap DOMAIN <<>> = {}
  OBVIOUS
<1> HIDE DEF both
<1> QED
  BY <1>3, <1>4, <1>5 DEF ++

\* An optimizer begins in its first sample, with nothing told.
LEMMA FreshFacts ==
  ASSUME NEW c, c["num_init"] \in Nat, \A key \in Read : c[key] \in Meant(key)
  PROVE  RunInv(Fresh(c))
<1> DEFINE pool == [n \in Arms |-> NumCandidates(c, n)]
           boundsFit == IsEnn(c) => c.y_bounds \in {Unset, c.num_metrics}
           enn == IsEnn(c)
<1>1. /\ c.min_candidates \in Nat /\ c.max_candidates \in Nat
      /\ c.num_candidates_per_dim \in Nat /\ c.num_candidates_per_arm \in Nat
      /\ c.acquisition \in Spellings.acquisition
  BY DEF Read, Meant, CountKeys
<1>2. pool \in [Arms -> Int]
  <2> SUFFICES ASSUME NEW n \in Arms
               PROVE  NumCandidates(c, n) \in Int
    OBVIOUS
  <2>1. n \in Nat /\ Inputs \in Nat
    BY ConfigurationAssumption
  <2>2. /\ c.num_candidates_per_dim * Inputs \in Int
        /\ c.num_candidates_per_arm * n \in Int
    BY <1>1, <2>1
  <2> QED
    BY <1>1, <2>2 DEF NumCandidates, AtLeast, AtMost
<1>3. boundsFit \in BOOLEAN /\ enn \in BOOLEAN
  BY DEF IsEnn, Has
<1>4. Fresh(c) =
        [hybrid |-> c.strategy = "hybrid", num_init |-> c.num_init,
         turbo |-> c.trust_region = "turbo", surrogate |-> enn, acquisition |-> c.acquisition,
         pool |-> pool, boundsFit |-> boundsFit, completed |-> 0, in_init |-> TRUE,
         reinit_left |-> 0, fitted |-> FALSE, collapsed |-> FALSE, rows |-> 0]
  BY DEF Fresh
<1> HIDE DEF pool, boundsFit, enn
<1>5. Fresh(c) \in Runs
  BY <1>1, <1>2, <1>3, <1>4 DEF Runs
<1> QED
  BY <1>4, <1>5 DEF RunInv

\* Whoever creates an optimizer has none, and no answer.
LEMMA CreateKeeps ==
  ASSUME ConfigInv, run = Unset, NEW how, NEW c, Create(how, c),
         c # Denied => c["num_init"] \in Nat /\ \A key \in Read : c[key] \in Meant(key)
  PROVE  ConfigInv'
<1>1. run = Unset /\ answer = Unset /\ answer' = Unset
  BY DEF Create, ConfigInv
<1>2. run' = IF c = Denied THEN Unset ELSE Fresh(c)
  BY DEF Create
<1>3. run' # Unset => RunInv(run')
  BY <1>2, FreshFacts
<1> QED
  BY <1>1, <1>3 DEF ConfigInv

LEMMA CreateFromFormKeeps == ConfigInv /\ CreateFromForm => ConfigInv'
<1> SUFFICES ASSUME ConfigInv, CreateFromForm
             PROVE  ConfigInv'
  OBVIOUS
<1>1. PICK f \in Forms, env \in WorkDirs :
        Create([form |-> f, env |-> env],
               IF FormHolds(f, env)
               THEN Created(EntryFor(f), IF f.surrogate = "enn" THEN f.k ELSE Unset, f.num_init,
                            Overrides(f), env)
               ELSE Denied)
  BY DEF CreateFromForm
<1> DEFINE k == IF f.surrogate = "enn" THEN f.k ELSE Unset
           made == Created(EntryFor(f), k, f.num_init, Overrides(f), env)
           c == IF FormHolds(f, env) THEN made ELSE Denied
<1>2. \A key \in CountKeys \cap DOMAIN Overrides(f) : Overrides(f)[key] \in Nat
  <2>1. "freeze_params" \notin CountKeys
    BY DEF CountKeys
  <2> QED
    BY <2>1, FormFacts DEF Overrides, SentValue
<1>3. f.num_init \in Nat \cup {Unset}
  BY FormFacts
<1> HIDE DEF k
<1>4. made # Denied =>
        made["num_init"] \in Nat /\ \A key \in Read : made[key] \in Meant(key)
  BY <1>2, <1>3, CreatedFacts
<1>5. Create([form |-> f, env |-> env], c)
  BY <1>1 DEF k
<1> HIDE DEF made
<1>6. c # Denied => c["num_init"] \in Nat /\ \A key \in Read : c[key] \in Meant(key)
  BY <1>4
<1> HIDE DEF c
<1>7. run = Unset
  BY DEF CreateFromForm
<1> QED
  BY <1>5, <1>6, <1>7, CreateKeeps

LEMMA CreateFromKeysKeeps == ConfigInv /\ CreateFromKeys => ConfigInv'
<1> SUFFICES ASSUME ConfigInv, CreateFromKeys
             PROVE  ConfigInv'
  OBVIOUS
<1>1. PICK entry \in {"enn", "zero", "lhd"}, keys \in Changed({<<>>}, KeyChanges),
           env \in WorkDirs :
        \E k \in IF entry = "enn" THEN Ks ELSE {Unset}, numInit \in Budgets :
          Create([keys |-> keys, env |-> env], Created(entry, k, numInit, keys, env))
  BY DEF CreateFromKeys
<1>2. PICK k \in IF entry = "enn" THEN Ks ELSE {Unset}, numInit \in Budgets :
        Create([keys |-> keys, env |-> env], Created(entry, k, numInit, keys, env))
  BY <1>1
<1>3. numInit \in Nat \cup {Unset}
  BY ConfigurationAssumption
<1> DEFINE c == Created(entry, k, numInit, keys, env)
<1>4. c # Denied => c["num_init"] \in Nat /\ \A key \in Read : c[key] \in Meant(key)
  BY <1>3, KeysFacts, CreatedFacts
<1>5. Create([keys |-> keys, env |-> env], c)
  BY <1>2
<1> HIDE DEF c
<1>6. run = Unset
  BY DEF CreateFromKeys
<1> QED
  BY <1>4, <1>5, <1>6, CreateKeeps

LEMMA AskKeeps == ConfigInv /\ Ask => ConfigInv'
<1> SUFFICES ASSUME ConfigInv, Ask
             PROVE  ConfigInv'
  OBVIOUS
<1>1. PICK n \in Arms : /\ run # Unset /\ run' = Begun(run)
                        /\ answer' = [of |-> Stage(run'), asked |-> n, got |-> Asked(run', n)]
  BY DEF Ask
<1>2. RunInv(run')
  BY <1>1, BegunFacts DEF ConfigInv
<1>3. run' # Unset
  BY <1>2, ConfigurationAssumption DEF RunInv
<1>4. Stage(run') # "tell"
  BY DEF Stage
<1>5. ServesEveryCall'
  <2>1. WellPosed(run') =>
          /\ Asked(run', n) # Denied
          /\ Stage(run') = "search" => run'.hybrid /\ run'.rows >= run'.num_init
          /\ Asked(run', n) \in 1..n
          /\ Asked(run', n) < n =>
               Asked(run', n) = IF Stage(run') = "search" THEN run'.pool[n]
                                ELSE run'.reinit_left
    BY <1>2, AskedFacts
  <2>2. answer'.of = Stage(run') /\ answer'.asked = n /\ answer'.got = Asked(run', n)
    BY <1>1
  <2> QED
    BY <2>1, <2>2 DEF ServesEveryCall, WellPosed, Reads
<1> QED
  BY <1>2, <1>3, <1>5 DEF ConfigInv, RunInv

LEMMA TellKeeps == ConfigInv /\ Tell => ConfigInv'
<1> SUFFICES ASSUME ConfigInv, Tell
             PROVE  ConfigInv'
  OBVIOUS
<1>1. PICK n \in TellSizes :
        /\ run # Unset
        /\ IF TellFails(run)
           THEN /\ run' = CountedInit(run, n)
                /\ answer' = [of |-> "tell", asked |-> n, got |-> Denied]
           ELSE run' \in Told(run, n) /\ answer' = [of |-> "tell", asked |-> n, got |-> n]
  BY DEF Tell
<1>2. RunInv(run) /\ run \in Runs /\ n \in Nat /\ Denied \notin Nat
  BY <1>1, ConfigurationAssumption DEF ConfigInv, RunInv
<1>3. CASE TellFails(run)
  <2>1. /\ run' = CountedInit(run, n) /\ ~run.boundsFit
        /\ answer' = [of |-> "tell", asked |-> n, got |-> Denied]
    BY <1>1, <1>3 DEF TellFails
  <2>2. RunInv(run') /\ run'.boundsFit = run.boundsFit
    BY <1>2, <2>1, CountedFacts, RunIs
  <2>3. ServesEveryCall'
    BY <2>1, <2>2 DEF ServesEveryCall, WellPosed
  <2> QED
    BY <2>2, <2>3, ConfigurationAssumption DEF ConfigInv, RunInv
<1>4. CASE ~TellFails(run)
  <2>1. run' \in Told(run, n) /\ answer' = [of |-> "tell", asked |-> n, got |-> n]
    BY <1>1, <1>4
  <2>2. RunInv(run')
    BY <1>2, <2>1, ToldFacts
  <2>3. ServesEveryCall'
    BY <1>2, <2>1 DEF ServesEveryCall
  <2> QED
    BY <2>2, <2>3, ConfigurationAssumption DEF ConfigInv, RunInv
<1> QED
  BY <1>3, <1>4

LEMMA ConfigKeeps == ConfigInv /\ [ConfigNext]_configVars => ConfigInv'
<1> SUFFICES ASSUME ConfigInv, [ConfigNext]_configVars
             PROVE  ConfigInv'
  OBVIOUS
<1>1. CASE UNCHANGED configVars
  BY <1>1 DEF configVars, ConfigInv, RunInv, ServesEveryCall, WellPosed, Reads
<1> QED
  BY <1>1, CreateFromFormKeeps, CreateFromKeysKeeps, AskKeeps, TellKeeps DEF ConfigNext

----------------------------------------------------------------------------
(* A form that builds an optimizer.                                        *)

\* The places of the members of a sequence of groups.
Places(groups) == UNION {{<<i, j>> : j \in DOMAIN groups[i]} : i \in DOMAIN groups}
Tied(groups, d) == groups[d[1]][d[2]]

LEMMA PlacesAre ==
  ASSUME NEW groups
  PROVE  /\ \A d \in Places(groups) :
              d[1] \in DOMAIN groups /\ d[2] \in DOMAIN groups[d[1]] /\ d = <<d[1], d[2]>>
         /\ \A i \in DOMAIN groups : \A j \in DOMAIN groups[i] : <<i, j>> \in Places(groups)
<1>1. ASSUME NEW d \in Places(groups)
      PROVE  d[1] \in DOMAIN groups /\ d[2] \in DOMAIN groups[d[1]] /\ d = <<d[1], d[2]>>
  <2>1. PICK i \in DOMAIN groups : d \in {<<i, j>> : j \in DOMAIN groups[i]}
    BY DEF Places
  <2>2. PICK j \in DOMAIN groups[i] : d = <<i, j>>
    BY <2>1
  <2> QED
    BY <2>2
<1>2. ASSUME NEW i \in DOMAIN groups, NEW j \in DOMAIN groups[i]
      PROVE  <<i, j>> \in Places(groups)
  BY DEF Places
<1> QED
  BY <1>1, <1>2

LEMMA PlacesFinite ==
  ASSUME NEW groups \in Seq(Seq(Nat))
  PROVE  IsFiniteSet(Places(groups))
<1> DEFINE row(i) == {<<i, j>> : j \in DOMAIN groups[i]}
           rows == {row(i) : i \in DOMAIN groups}
<1>1. \A i \in DOMAIN groups : groups[i] \in Seq(Nat)
  OBVIOUS
<1>2. ASSUME NEW s, s \in Seq(Seq(Nat)) \/ s \in Seq(Nat)
      PROVE  IsFiniteSet(DOMAIN s)
  <2>1. DOMAIN s = 1..Len(s) /\ Len(s) \in Nat
    BY <1>2
  <2> QED
    BY <2>1, FS_Interval
<1>3. ASSUME NEW i \in DOMAIN groups
      PROVE  IsFiniteSet(row(i))
  <2> DEFINE js == DOMAIN groups[i]
             put == [j \in js |-> <<i, j>>]
             placed == row(i)
  <2>1. IsFiniteSet(js)
    BY <1>1, <1>2
  <2>2. put \in Surjection(js, placed)
    BY DEF Surjection
  <2> HIDE DEF js, put, placed
  <2> QED
    BY <2>1, <2>2, FS_Surjection DEF placed
<1>4. IsFiniteSet(rows)
  <2> DEFINE is == DOMAIN groups
             rowOf == [i \in is |-> row(i)]
  <2>1. IsFiniteSet(is)
    BY <1>2
  <2>2. rowOf \in Surjection(is, rows)
    BY DEF Surjection
  <2> HIDE DEF is, rowOf, rows
  <2> QED
    BY <2>1, <2>2, FS_Surjection
<1>5. \A T \in rows : IsFiniteSet(T)
  BY <1>3
<1>6. Places(groups) = UNION rows
  BY DEF Places
<1> HIDE DEF rows
<1> QED
  BY <1>4, <1>5, <1>6, FS_UNION

\* No number is in two places exactly if there are as many numbers as places.
LEMMA PlacesApart ==
  ASSUME NEW groups \in Seq(Seq(Nat))
  PROVE  (Cardinality({Tied(groups, d) : d \in Places(groups)}) = Cardinality(Places(groups)))
           <=> \A d, e \in Places(groups) : Tied(groups, d) = Tied(groups, e) => d = e
<1> DEFINE S == Places(groups)
           T == {Tied(groups, d) : d \in S}
           f == [d \in S |-> Tied(groups, d)]
<1>1. IsFiniteSet(S)
  BY PlacesFinite
<1>2. f \in Surjection(S, T)
  BY DEF Surjection
<1>3. f \in Injection(S, T) <=> \A d, e \in S : Tied(groups, d) = Tied(groups, e) => d = e
  <2>1. f \in [S -> T]
    OBVIOUS
  <2>2. \A d \in S : f[d] = Tied(groups, d)
    OBVIOUS
  <2> HIDE DEF f, T, S
  <2> QED
    BY <2>1, <2>2 DEF Injection, IsInjective
<1> HIDE DEF f, T, S
<1>4. Cardinality(T) = Cardinality(S) <=> f \in Injection(S, T)
  BY <1>1, <1>2, FS_Surjection
<1> QED
  BY <1>3, <1>4 DEF S, T

\* What validate_tied_dims asks of groups is what the form's documentation says of them.
LEMMA TiedSound ==
  ASSUME NEW groups \in Seq(Seq(Nat))
  PROVE  (TiedInRange(groups, Inputs) /\ TiedApart(groups)) <=>
           /\ \A i \in DOMAIN groups : groups[i] # <<>>
           /\ \A d \in Places(groups) : Tied(groups, d) \in 0..(Inputs - 1)
           /\ Cardinality({Tied(groups, d) : d \in Places(groups)}) =
                Cardinality(Places(groups))
<1>1. Inputs \in Nat
  BY ConfigurationAssumption
<1>2. ASSUME NEW i \in DOMAIN groups, NEW j \in DOMAIN groups[i]
      PROVE  groups[i][j] \in Nat
  OBVIOUS
<1>3. TiedInRange(groups, Inputs) <=>
        \A d \in Places(groups) : Tied(groups, d) \in 0..(Inputs - 1)
  <2>1. ASSUME TiedInRange(groups, Inputs), NEW d \in Places(groups)
        PROVE  Tied(groups, d) \in 0..(Inputs - 1)
    <3>1. d[1] \in DOMAIN groups /\ d[2] \in DOMAIN groups[d[1]]
      BY PlacesAre
    <3>2. Tied(groups, d) \in Nat /\ Tied(groups, d) < Inputs
      BY <1>2, <2>1, <3>1 DEF TiedInRange, Tied
    <3> QED
      BY <1>1, <3>2
  <2>2. ASSUME \A d \in Places(groups) : Tied(groups, d) \in 0..(Inputs - 1),
               NEW i \in DOMAIN groups, NEW j \in DOMAIN groups[i]
        PROVE  groups[i][j] < Inputs
    <3>1. Tied(groups, <<i, j>>) = groups[i][j]
      BY DEF Tied
    <3>2. groups[i][j] \in 0..(Inputs - 1)
      BY <2>2, <3>1, PlacesAre
    <3> QED
      BY <1>1, <3>2
  <2> QED
    BY <2>1, <2>2 DEF TiedInRange
<1>4. (\A d, e \in Places(groups) : Tied(groups, d) = Tied(groups, e) => d = e) <=>
        \A i, k \in DOMAIN groups : \A j \in DOMAIN groups[i], l \in DOMAIN groups[k] :
          groups[i][j] = groups[k][l] => i = k /\ j = l
  <2>1. ASSUME \A d, e \in Places(groups) : Tied(groups, d) = Tied(groups, e) => d = e,
               NEW i \in DOMAIN groups, NEW k \in DOMAIN groups,
               NEW j \in DOMAIN groups[i], NEW l \in DOMAIN groups[k],
               groups[i][j] = groups[k][l]
        PROVE  i = k /\ j = l
    <3>1. Tied(groups, <<i, j>>) = Tied(groups, <<k, l>>)
      BY <2>1 DEF Tied
    <3>2. <<i, j>> = <<k, l>>
      BY <2>1, <3>1, PlacesAre
    <3> QED
      BY <3>2
  <2>2. ASSUME \A i, k \in DOMAIN groups : \A j \in DOMAIN groups[i], l \in DOMAIN groups[k] :
                 groups[i][j] = groups[k][l] => i = k /\ j = l,
               NEW d \in Places(groups), NEW e \in Places(groups),
               Tied(groups, d) = Tied(groups, e)
        PROVE  d = e
    <3>1. /\ d[1] \in DOMAIN groups /\ d[2] \in DOMAIN groups[d[1]] /\ d = <<d[1], d[2]>>
          /\ e[1] \in DOMAIN groups /\ e[2] \in DOMAIN groups[e[1]] /\ e = <<e[1], e[2]>>
      BY PlacesAre
    <3>2. d[1] = e[1] /\ d[2] = e[2]
      BY <2>2, <3>1 DEF Tied
    <3> QED
      BY <3>1, <3>2
  <2> QED
    BY <2>1, <2>2
<1> QED
  BY <1>3, <1>4, PlacesApart DEF TiedApart

\* No name is taken for none.
LEMMA NamesAreSet ==
  /\ Unset \notin Spellings.trust_region /\ Unset \notin Spellings.enn_storage
<1>1. "trust_region" \in DOMAIN Spellings /\ "enn_storage" \in DOMAIN Spellings
  BY DEF Spellings
<1> QED
  BY <1>1, ConfigurationAssumption

\* A part that a form has not has the values of no such part.
LEMMA PartsMissing ==
  ASSUME NEW f \in Forms
  PROVE  /\ f.surrogate = "none" => \A key \in DOMAIN EnnForm : f[key] = EnnForm[key]
         /\ f.trust_region = "none" => \A key \in DOMAIN RegionForm : f[key] = RegionForm[key]
         /\ f.trust_region # "morbo" => \A key \in MorboKeys : f[key] = MorboForm[key]
         /\ f.trust_region = "morbo" => f.num_metrics # Unset
<1>1. WholeForm(f) /\ DOMAIN FormTypes \subseteq DOMAIN f
  BY FormTyped
<1>2. DOMAIN EnnForm \cup DOMAIN RegionForm \cup MorboKeys \subseteq DOMAIN FormTypes
  BY DEF EnnForm, RegionForm, MorboKeys, FormTypes
<1>3. ASSUME NEW S, NEW part, Only(f, S) = part, S \subseteq DOMAIN f, NEW key \in S
      PROVE  f[key] = part[key]
  <2>1. Only(f, S)[key] = f[key]
    BY <1>3 DEF Only
  <2> QED
    BY <1>3, <2>1
<1> QED
  BY <1>1, <1>2, <1>3 DEF WholeForm

\* Which fields a form sends, group by group.
LEMMA SentIs ==
  ASSUME NEW f
  PROVE  /\ "acquisition" \in Sent(f) /\ CountKeys \subseteq Sent(f)
         /\ \A key \in {"candidate_rv", "raasp_fast"} :
              key \in Sent(f) <=> f[key] # DefaultForm[key]
         /\ \A key \in LengthKeys \cup {"noise_aware"} :
              key \in Sent(f) <=> f.trust_region # "none" /\ f[key] # DefaultForm[key]
         /\ \A key \in {"trust_region"} \cup MorboKeys :
              key \in Sent(f) <=> f.trust_region = "morbo"
         /\ \A key \in {"index_driver", "scale_x", "metric_learning"} :
              key \in Sent(f) <=> f.surrogate # "none"
         /\ "freeze_params" \in Sent(f) <=> f.surrogate # "none" /\ f.num_fit_samples = Unset
         /\ "num_fit_samples" \in Sent(f) <=> f.surrogate # "none" /\ f.num_fit_samples # Unset
         /\ "infer_aleatoric_variance" \in Sent(f) <=>
              f.surrogate # "none" /\ f.infer_aleatoric_variance # Unset
         /\ \A key \in {"num_fit_candidates", "tied_dims", "affine_calibrate", "y_bounds",
                        "enn_storage", "work_dir"} :
              key \in Sent(f) <=> f.surrogate # "none" /\ f[key] # DefaultForm[key]
<1> DEFINE always == {"acquisition"} \cup CountKeys
           named == SetIn(f, {"candidate_rv", "raasp_fast"})
           region == IF f.trust_region = "none" THEN {}
                     ELSE SetIn(f, LengthKeys \cup {"noise_aware"})
           morbo == IF f.trust_region = "morbo" THEN {"trust_region"} \cup MorboKeys ELSE {}
           fitted == {IF f.num_fit_samples = Unset THEN "freeze_params" ELSE "num_fit_samples"}
           aleatoric == {key \in {"infer_aleatoric_variance"} : f[key] # Unset}
           rest == SetIn(f, {"num_fit_candidates", "tied_dims", "affine_calibrate", "y_bounds",
                             "enn_storage", "work_dir"})
           enn == IF f.surrogate = "none" THEN {}
                  ELSE {"index_driver", "scale_x", "metric_learning"}
                         \cup fitted \cup aleatoric \cup rest
<1>1. Sent(f) = always \cup named \cup region \cup morbo \cup enn
  BY DEF Sent
<1>2. /\ \A key : key \in named <=>
                    key \in {"candidate_rv", "raasp_fast"} /\ f[key] # DefaultForm[key]
      /\ \A key : key \in region <=>
                    /\ key \in LengthKeys \cup {"noise_aware"}
                    /\ f.trust_region # "none" /\ f[key] # DefaultForm[key]
      /\ \A key : key \in morbo <=>
                    f.trust_region = "morbo" /\ key \in {"trust_region"} \cup MorboKeys
      /\ \A key : key \in rest <=>
                    /\ key \in {"num_fit_candidates", "tied_dims", "affine_calibrate", "y_bounds",
                                "enn_storage", "work_dir"}
                    /\ f[key] # DefaultForm[key]
  BY DEF SetIn
<1>3. \A key : key \in enn <=>
        /\ f.surrogate # "none"
        /\ \/ key \in {"index_driver", "scale_x", "metric_learning"}
           \/ key = IF f.num_fit_samples = Unset THEN "freeze_params" ELSE "num_fit_samples"
           \/ key = "infer_aleatoric_variance" /\ f.infer_aleatoric_variance # Unset
           \/ key \in rest
  OBVIOUS
<1> HIDE DEF named, region, morbo, rest, enn
<1> QED
  BY <1>1, <1>2, <1>3 DEF CountKeys, LengthKeys, MorboKeys

\* What a form sends is known and well spelled.
LEMMA SentKnown ==
  ASSUME NEW f \in Forms
  PROVE  /\ DOMAIN Overrides(f) = Sent(f)
         /\ \A key \in Sent(f) : Overrides(f)[key] = IF key = "freeze_params" THEN TRUE ELSE f[key]
         /\ KeysKnown(Overrides(f)) /\ NamesKnown(Overrides(f)) /\ MorboWhole(Overrides(f))
<1> DEFINE keys == Overrides(f)
<1>1. /\ DOMAIN keys = Sent(f)
      /\ \A key \in Sent(f) : keys[key] = IF key = "freeze_params" THEN TRUE ELSE f[key]
  BY DEF Overrides, SentValue
<1> HIDE DEF keys
<1>2. KeysKnown(keys)
  <2>1. Sent(f) \subseteq ConfigOverrideKeys \cup EnnOverrideKeys
    BY DEF Sent, SetIn, ConfigOverrideKeys, EnnOverrideKeys, CountKeys, LengthKeys, MorboKeys,
           SearchKeys, LayoutKeys
  <2> QED
    BY <1>1, <2>1 DEF KeysKnown
<1>3. /\ f.acquisition \in Spellings.acquisition /\ f.rescalarize \in Spellings.rescalarize
      /\ f.index_driver \in Spellings.index_driver
      /\ f.metric_learning \in Spellings.metric_learning
      /\ f.candidate_rv \in {Unset} \cup Spellings.candidate_rv
      /\ f.enn_storage \in {Unset} \cup Spellings.enn_storage
  BY FormTyped DEF FormTypes
<1>4. DefaultForm["candidate_rv"] = Unset /\ DefaultForm["enn_storage"] = Unset
  BY DefaultFormIs DEF EnnForm, OwnForm
<1>5. NamesKnown(keys)
  <2> SUFFICES ASSUME NEW key \in Sent(f), key \in DOMAIN Spellings
               PROVE  keys[key] \in Spellings[key]
    BY <1>1 DEF NamesKnown
  <2>1. DOMAIN Spellings = {"acquisition", "candidate_rv", "trust_region", "rescalarize",
                            "index_driver", "enn_storage", "metric_learning"}
    BY DEF Spellings
  <2>2. keys[key] = f[key]
    BY <1>1, <2>1
  <2>3. "trust_region" \in Sent(f) => f["trust_region"] \in Spellings["trust_region"]
    BY SentIs DEF Spellings
  <2>4. /\ "candidate_rv" \in Sent(f) => f["candidate_rv"] # Unset
        /\ "enn_storage" \in Sent(f) => f["enn_storage"] # Unset
    BY <1>4, SentIs
  <2> QED
    BY <1>3, <2>1, <2>2, <2>3, <2>4
<1>6. MorboWhole(keys)
  <2>1. CASE f.trust_region = "morbo"
    <3>1. {"trust_region", "num_metrics", "alpha"} \subseteq Sent(f)
      BY <2>1, SentIs DEF MorboKeys
    <3>2. keys["trust_region"] = "morbo"
      BY <1>1, <2>1, <3>1
    <3> QED
      BY <1>1, <3>1, <3>2 DEF MorboWhole, Has, Value
  <2>2. CASE f.trust_region # "morbo"
    <3>1. "trust_region" \notin DOMAIN keys /\ DOMAIN keys \cap MorboKeys = {}
      BY <1>1, <2>2, SentIs
    <3>2. Unset # "morbo"
      BY NamesAreSet DEF Spellings
    <3> QED
      BY <3>1, <3>2 DEF MorboWhole, Has, Value
  <2> QED
    BY <2>1, <2>2
<1> QED
  BY <1>1, <1>2, <1>5, <1>6 DEF keys

\* over says what a form does, each default where the form says nothing.
CarriesSearch(over, f) ==
  /\ over.acquisition = f.acquisition /\ over.raasp_fast = f.raasp_fast
  /\ over.noise_aware = f.noise_aware
  /\ \A key \in CountKeys : over[key] = f[key]
  /\ ~(f.init = "lhd" /\ f.surrogate = "enn") =>
       over.candidate_rv = Or(f.candidate_rv, IF f.init = "lhd" THEN "uniform" ELSE "raasp")
CarriesRegion(over, f) ==
  /\ \A key \in LengthKeys : over[key] = StatedLengths(f)[key]
  /\ over.trust_region = IF f.trust_region = "morbo" THEN "morbo" ELSE "turbo"
  /\ f.trust_region = "morbo" => \A key \in MorboKeys : over[key] = f[key]
CarriesEnn(over, f) ==
  /\ over.k = Or(f.k, 10) /\ over.freeze_params = (f.num_fit_samples = Unset)
  /\ over.num_fit_samples = Or(f.num_fit_samples, 10)
  /\ over.num_fit_candidates = Or(f.num_fit_candidates, 30)
  /\ over.infer_aleatoric_variance = Or(f.infer_aleatoric_variance, TRUE)
  /\ over.affine_calibrate = f.affine_calibrate /\ over.scale_x = f.scale_x
  /\ over.metric_learning = f.metric_learning /\ over.tied_dims = f.tied_dims
  /\ over.index_driver = f.index_driver /\ over.enn_storage = Or(f.enn_storage, "MEMORY")
  /\ over.work_dir = f.work_dir /\ over.y_bounds = f.y_bounds

\* The factory that a form goes to.
LEMMA EntryIs ==
  ASSUME NEW f \in Forms, HasFactory(f)
  PROVE  /\ EntryFor(f) = "enn" <=> f.surrogate = "enn"
         /\ EntryFor(f) = "lhd" <=> f.surrogate = "none" /\ f.init = "lhd"
         /\ EntryFor(f) \in {"enn", "zero", "lhd"}
         /\ f.trust_region = "none" <=> f.init = "lhd"
<1>1. /\ f.surrogate \in {"none", "enn"} /\ f.init \in {"hybrid", "lhd"}
      /\ f.trust_region \in {"none", "turbo", "morbo"}
  BY FormTyped DEF FormTypes, Spellings
<1> QED
  BY <1>1 DEF EntryFor, HasFactory

CameOf(over, f) ==
  /\ DOMAIN over = Sent(f) \cup DOMAIN Base(EntryFor(f))
  /\ \A key \in Sent(f) : over[key] = IF key = "freeze_params" THEN TRUE ELSE f[key]
  /\ \A key \in DOMAIN Base(EntryFor(f)) \ Sent(f) :
       over[key] = WithK(Base(EntryFor(f)), f.k)[key]
  /\ IsEnn(over) <=> f.surrogate = "enn"
  /\ {"k", "strategy", "num_init"} \cap Sent(f) = {}
  /\ {"strategy", "num_init"} \cap DOMAIN over = {}
  /\ f.surrogate = "enn" =>
       SearchKeys \cup {"k", "freeze_params", "enn_storage", "work_dir"} \subseteq DOMAIN over

\* What a factory puts a form's fields over, and where it puts them.
LEMMA OverIs ==
  ASSUME NEW f \in Forms, HasFactory(f), NEW over,
         Puts(over, Overrides(f), WithK(Base(EntryFor(f)), f.k))
  PROVE  CameOf(over, f)
<1>1. PICK keys : keys = Overrides(f)
  OBVIOUS
<1>2. /\ DOMAIN keys = Sent(f) /\ KeysKnown(keys)
      /\ \A key \in Sent(f) : keys[key] = IF key = "freeze_params" THEN TRUE ELSE f[key]
  BY <1>1, SentKnown
<1>3. PICK entry : entry = EntryFor(f)
  OBVIOUS
<1>4. Puts(over, keys, WithK(Base(entry), f.k))
  BY <1>1, <1>3
<1>5. /\ DOMAIN over = DOMAIN keys \cup DOMAIN Base(entry)
      /\ \A key \in DOMAIN keys : over[key] = keys[key]
      /\ \A key \in DOMAIN Base(entry) \ DOMAIN keys : over[key] = WithK(Base(entry), f.k)[key]
      /\ IsEnn(over) <=> entry = "enn"
      /\ {"k", "strategy", "num_init"} \cap DOMAIN keys = {}
      /\ {"strategy", "num_init"} \cap DOMAIN over = {}
      /\ entry = "enn" =>
            SearchKeys \cup {"k", "freeze_params", "enn_storage", "work_dir"} \subseteq DOMAIN over
  <2>1. LaidOver(over, keys, entry, f.k)
    BY <1>2, <1>4, OverDefaults
  <2> QED
    BY <2>1 DEF LaidOver
<1> QED
  BY <1>2, <1>3, <1>5, EntryIs DEF CameOf

LEMMA OverCarries ==
  ASSUME NEW f \in Forms, HasFactory(f), NEW over,
         Puts(over, Overrides(f), WithK(Base(EntryFor(f)), f.k))
  PROVE  /\ CarriesSearch(over, f) /\ CarriesRegion(over, f)
         /\ f.surrogate = "enn" => CarriesEnn(over, f)
<1> DEFINE entry == EntryFor(f)
           base == Base(entry)
<1>1. /\ \A key \in Sent(f) : key # "freeze_params" => over[key] = f[key]
      /\ "freeze_params" \in Sent(f) => over["freeze_params"] = TRUE
      /\ \A key \in DOMAIN base \ Sent(f) : key # "k" => over[key] = base[key]
      /\ "k" \notin Sent(f)
      /\ entry = "enn" => over["k"] = IF f.k = Unset THEN 10 ELSE f.k
  <2>1. /\ \A key \in DOMAIN base \ {"k"} : WithK(base, f.k)[key] = base[key]
        /\ entry = "enn" => WithK(base, f.k)["k"] = IF f.k = Unset THEN 10 ELSE f.k
        /\ entry = "enn" => "k" \in DOMAIN base
    BY WithKFacts
  <2>2. CameOf(over, f)
    BY OverIs
  <2>3. entry = "enn" => f.surrogate = "enn"
    BY EntryIs
  <2> QED
    BY <2>1, <2>2, <2>3 DEF CameOf
<1>2. /\ \A key \in DOMAIN BaseRegion : key \in DOMAIN base /\ base[key] = BaseRegion[key]
      /\ \A key \in DOMAIN SearchDefaults(entry) :
           key \in DOMAIN base /\ base[key] = SearchDefaults(entry)[key]
      /\ entry = "enn" =>
           /\ \A key \in DOMAIN BaseSearch : key \in DOMAIN base /\ base[key] = BaseSearch[key]
           /\ \A key \in DOMAIN OwnEnn : key \in DOMAIN base /\ base[key] = OwnEnn[key]
  BY BaseIs
<1>3. /\ entry = "enn" <=> f.surrogate = "enn"
      /\ entry = "lhd" <=> f.surrogate = "none" /\ f.init = "lhd"
      /\ f.trust_region = "none" <=> f.init = "lhd"
  BY EntryIs
<1>4. f.surrogate \in {"none", "enn"} /\ f.init \in {"hybrid", "lhd"}
  BY FormTyped DEF FormTypes
<1> HIDE DEF base, entry
<1>5. CarriesSearch(over, f)
  <2>1. /\ DOMAIN SearchDefaults(entry) =
             {"acquisition", "candidate_rv", "raasp_fast", "min_candidates", "max_candidates",
              "num_candidates_per_dim", "num_candidates_per_arm", "noise_aware"}
        /\ SearchDefaults(entry)["raasp_fast"] = FALSE
        /\ SearchDefaults(entry)["noise_aware"] = FALSE
        /\ SearchDefaults(entry)["candidate_rv"] =
             IF entry = "lhd" THEN "uniform" ELSE "raasp"
    BY DEF SearchDefaults, BaseLhd, BaseTurbo
  <2>2. /\ DefaultForm["candidate_rv"] = Unset /\ DefaultForm["raasp_fast"] = FALSE
        /\ DefaultForm["noise_aware"] = FALSE
    BY DefaultFormIs DEF OwnForm, RegionForm
  <2>3. over.acquisition = f.acquisition
    BY <1>1, SentIs
  <2>4. \A key \in CountKeys : over[key] = f[key]
    BY <1>1, SentIs DEF CountKeys
  <2>5. over.raasp_fast = f.raasp_fast
    BY <1>1, <1>2, <2>1, <2>2, SentIs
  <2>6. over.noise_aware = f.noise_aware
    <3>1. f.trust_region = "none" => f["noise_aware"] = FALSE
      BY PartsMissing DEF RegionForm
    <3> QED
      BY <1>1, <1>2, <2>1, <2>2, <3>1, SentIs
  <2>7. ~(f.init = "lhd" /\ f.surrogate = "enn") =>
          over.candidate_rv = Or(f.candidate_rv, IF f.init = "lhd" THEN "uniform" ELSE "raasp")
    BY <1>1, <1>2, <1>3, <1>4, <2>1, <2>2, SentIs DEF Or
  <2> QED
    BY <2>3, <2>4, <2>5, <2>6, <2>7 DEF CarriesSearch
<1>6. CarriesRegion(over, f)
  <2>1. /\ \A key \in LengthKeys : key \in DOMAIN base /\ base[key] = BaseRegion[key]
        /\ "trust_region" \in DOMAIN base /\ base["trust_region"] = "turbo"
    BY <1>2 DEF BaseRegion, LengthKeys
  <2>2. \A key \in LengthKeys : over[key] = StatedLengths(f)[key]
    <3> SUFFICES ASSUME NEW key \in LengthKeys
                 PROVE  over[key] = StatedLengths(f)[key]
      OBVIOUS
    <3>1. StatedLengths(f)[key] = Or(f[key], BaseRegion[key])
      BY DEF StatedLengths, BaseRegion, LengthKeys
    <3>2. DefaultForm[key] = Unset
      BY DefaultFormIs DEF RegionForm, LengthKeys
    <3>3. f.trust_region = "none" => f[key] = Unset
      BY PartsMissing DEF RegionForm, LengthKeys
    <3>4. key \in Sent(f) <=> f[key] # Unset
      BY <3>2, <3>3, SentIs
    <3>5. key \notin {"freeze_params", "k"}
      BY DEF LengthKeys
    <3> QED
      BY <1>1, <2>1, <3>1, <3>4, <3>5 DEF Or
  <2>3. over.trust_region = IF f.trust_region = "morbo" THEN "morbo" ELSE "turbo"
    BY <1>1, <2>1, SentIs
  <2>4. f.trust_region = "morbo" => \A key \in MorboKeys : over[key] = f[key]
    BY <1>1, SentIs DEF MorboKeys
  <2> QED
    BY <2>2, <2>3, <2>4 DEF CarriesRegion
<1>7. ASSUME f.surrogate = "enn"
      PROVE  CarriesEnn(over, f)
  <2>1. /\ {"num_fit_samples", "num_fit_candidates", "infer_aleatoric_variance",
            "affine_calibrate", "freeze_params", "enn_storage", "work_dir", "tied_dims",
            "y_bounds"} \subseteq DOMAIN base
        /\ base["num_fit_samples"] = 10 /\ base["num_fit_candidates"] = 30
        /\ base["infer_aleatoric_variance"] = TRUE /\ base["affine_calibrate"] = FALSE
        /\ base["freeze_params"] = FALSE /\ base["enn_storage"] = "MEMORY"
        /\ base["work_dir"] = Unset /\ base["tied_dims"] = <<>> /\ base["y_bounds"] = Unset
    BY <1>2, <1>3, <1>7 DEF BaseSearch, OwnEnn
  <2>2. /\ DefaultForm["num_fit_candidates"] = Unset /\ DefaultForm["affine_calibrate"] = FALSE
        /\ DefaultForm["enn_storage"] = Unset /\ DefaultForm["work_dir"] = Unset
        /\ DefaultForm["tied_dims"] = <<>> /\ DefaultForm["y_bounds"] = Unset
    BY DefaultFormIs DEF EnnForm
  <2>3. f.surrogate # "none"
    BY <1>7
  <2>4. over.k = Or(f.k, 10)
    BY <1>1, <1>3, <1>7 DEF Or
  <2>5. over.freeze_params = (f.num_fit_samples = Unset)
    BY <1>1, <2>1, <2>3, SentIs
  <2>6. /\ over.num_fit_samples = Or(f.num_fit_samples, 10)
        /\ over.infer_aleatoric_variance = Or(f.infer_aleatoric_variance, TRUE)
    BY <1>1, <2>1, <2>3, SentIs DEF Or
  <2>7. /\ over.num_fit_candidates = Or(f.num_fit_candidates, 30)
        /\ over.enn_storage = Or(f.enn_storage, "MEMORY")
    BY <1>1, <2>1, <2>2, <2>3, SentIs DEF Or
  <2>8. /\ over.affine_calibrate = f.affine_calibrate /\ over.tied_dims = f.tied_dims
        /\ over.work_dir = f.work_dir /\ over.y_bounds = f.y_bounds
    <3> DEFINE same == {"affine_calibrate", "tied_dims", "work_dir", "y_bounds"}
    <3>1. \A key \in same : key \in Sent(f) <=> f[key] # DefaultForm[key]
      BY <2>3, SentIs
    <3>2. \A key \in same :
            /\ key \in DOMAIN base /\ base[key] = DefaultForm[key]
            /\ key # "freeze_params" /\ key # "k"
      BY <2>1, <2>2
    <3>3. \A key \in same : over[key] = f[key]
      BY <1>1, <3>1, <3>2
    <3> QED
      BY <3>3
  <2>9. /\ over.scale_x = f.scale_x /\ over.metric_learning = f.metric_learning
        /\ over.index_driver = f.index_driver
    BY <1>1, <2>3, SentIs
  <2> QED
    BY <2>4, <2>5, <2>6, <2>7, <2>8, <2>9 DEF CarriesEnn
<1> QED
  BY <1>5, <1>6, <1>7

\* The lengths that a form states are accepted by both sides, or by neither.
LEMMA LengthsSound ==
  ASSUME NEW f \in Forms, HasFactory(f), NEW over, CarriesRegion(over, f)
  PROVE  /\ LengthsHold(StatedLengths(f)) => FormLengthsHold(f)
         /\ LengthsHold(over) <=> LengthsHold(StatedLengths(f))
         /\ Sent(f) \cap LengthKeys = {} => LengthsHold(StatedLengths(f))
<1>1. \A key \in LengthKeys : f[key] \in Nat \cup {Unset}
  BY FormTyped DEF FormTypes, LengthKeys
<1>2. Unset \notin Nat
  BY ConfigurationAssumption
<1>3. /\ StatedLengths(f)["length_init"] = IF f.length_init = Unset THEN 1024 ELSE f.length_init
      /\ StatedLengths(f)["length_min"] = IF f.length_min = Unset THEN 10 ELSE f.length_min
      /\ StatedLengths(f)["length_max"] = IF f.length_max = Unset THEN 2048 ELSE f.length_max
  BY DEF StatedLengths, Or
<1>4. LengthsHold(StatedLengths(f)) => FormLengthsHold(f)
  BY <1>1, <1>2, <1>3 DEF LengthsHold, FormLengthsHold, LengthKeys
<1>5. LengthsHold(over) <=> LengthsHold(StatedLengths(f))
  BY DEF LengthsHold, CarriesRegion, LengthKeys
<1>6. ASSUME Sent(f) \cap LengthKeys = {}
      PROVE  LengthsHold(StatedLengths(f))
  <2>1. \A key \in LengthKeys : f[key] = Unset
    <3> SUFFICES ASSUME NEW key \in LengthKeys
                 PROVE  f[key] = Unset
      OBVIOUS
    <3>1. DefaultForm[key] = Unset /\ RegionForm[key] = Unset /\ key \in DOMAIN RegionForm
      BY DefaultFormIs DEF RegionForm, LengthKeys
    <3> QED
      BY <1>6, <3>1, SentIs, PartsMissing
  <2> QED
    BY <1>3, <2>1 DEF LengthsHold, LengthKeys
<1> QED
  BY <1>4, <1>5, <1>6

\* What a form says of the parts other than its surrogate, in the words of Sound.
PartsSound(f) ==
  /\ f.num_init # 0
  /\ LengthsHold(StatedLengths(f))
  /\ f.trust_region = "morbo" => f.num_metrics > 1 /\ f.alpha > 0
  /\ f.surrogate = "none" => f.acquisition \in {"random", "pareto"}
  /\ f.surrogate = "enn" => f.init # "lhd"
EnnSound(f, env) ==
  /\ f.k # 0 /\ f.num_fit_samples # 0 /\ f.num_fit_candidates # 0
  /\ f.num_fit_samples = Unset =>
       /\ f.acquisition \in {"random", "pareto"}
       /\ f.num_fit_candidates = Unset /\ f.infer_aleatoric_variance = Unset
       /\ ~f.affine_calibrate
  /\ f.enn_storage = "DISK" => f.index_driver = "BPANN_DISK" /\ {f.work_dir, env} # {Unset}
  /\ f.work_dir # Unset => f.enn_storage = "DISK"
  /\ f.metric_learning = "AUTO" => f.enn_storage = "DISK" /\ ~f.scale_x
  /\ f.tied_dims # <<>> => f.metric_learning = "AUTO"
  /\ TiedInRange(f.tied_dims, Inputs) /\ TiedApart(f.tied_dims)

LEMMA SoundIs ==
  ASSUME NEW f \in Forms, NEW env
  PROVE  Sound(f, env) <=> PartsSound(f) /\ (f.surrogate = "enn" => EnnSound(f, env))
<1> DEFINE dims == UNION {{<<i, j>> : j \in DOMAIN f.tied_dims[i]} : i \in DOMAIN f.tied_dims}
           tied == /\ \A i \in DOMAIN f.tied_dims : f.tied_dims[i] # <<>>
                   /\ \A d \in dims : f.tied_dims[d[1]][d[2]] \in 0..(Inputs - 1)
                   /\ Cardinality({f.tied_dims[d[1]][d[2]] : d \in dims}) = Cardinality(dims)
<1>1. PICK groups : groups = f.tied_dims
  OBVIOUS
<1>2. groups \in Seq(Seq(Nat))
  BY <1>1, FormTyped DEF FormTypes
<1>3. dims = Places(groups)
  BY <1>1 DEF Places
<1>4. tied <=> /\ \A i \in DOMAIN groups : groups[i] # <<>>
               /\ \A d \in Places(groups) : Tied(groups, d) \in 0..(Inputs - 1)
               /\ Cardinality({Tied(groups, d) : d \in Places(groups)}) =
                    Cardinality(Places(groups))
  BY <1>1, <1>3, Zenon DEF Tied
<1>5. tied <=> TiedInRange(f.tied_dims, Inputs) /\ TiedApart(f.tied_dims)
  BY <1>1, <1>2, <1>4, TiedSound
<1>6. Sound(f, env) <=>
        /\ PartsSound(f)
        /\ f.surrogate = "enn" =>
             /\ f.k # 0 /\ f.num_fit_samples # 0 /\ f.num_fit_candidates # 0
             /\ f.num_fit_samples = Unset =>
                  /\ f.acquisition \in {"random", "pareto"}
                  /\ f.num_fit_candidates = Unset /\ f.infer_aleatoric_variance = Unset
                  /\ ~f.affine_calibrate
             /\ f.enn_storage = "DISK" =>
                  f.index_driver = "BPANN_DISK" /\ {f.work_dir, env} # {Unset}
             /\ f.work_dir # Unset => f.enn_storage = "DISK"
             /\ f.metric_learning = "AUTO" => f.enn_storage = "DISK" /\ ~f.scale_x
             /\ f.tied_dims # <<>> => f.metric_learning = "AUTO"
             /\ tied
  BY Zenon DEF Sound, PartsSound
<1> HIDE DEF tied
<1> QED
  BY <1>5, <1>6, Zenon DEF EnnSound

\* The fields of a form that a surrogate needs not: the factory asks of them what Sound does.
LEMMA PartsAccepted ==
  ASSUME NEW f \in Forms, HasFactory(f), NEW over,
         Puts(over, Overrides(f), WithK(Base(EntryFor(f)), f.k))
  PROVE  PartsSound(f) <=>
           /\ f.num_init # 0 /\ FormLengthsHold(f)
           /\ f.trust_region = "morbo" => f.num_metrics >= 2 /\ f.alpha > 0
           /\ RulesHold(f.init = "lhd", f.surrogate = "enn", f.acquisition)
           /\ RegionAccepted(over, Overrides(f))
           /\ DOMAIN Overrides(f) \cap EnnOverrideKeys # {} => EntryFor(f) = "enn"
           /\ RulesHold(EntryFor(f) = "lhd", EntryFor(f) = "enn", over.acquisition)
<1>1. /\ f.acquisition \in {"ucb", "thompson", "random", "pareto"}
      /\ f.surrogate \in {"none", "enn"} /\ f.init \in {"hybrid", "lhd"}
      /\ f.num_metrics \in Nat \cup {Unset}
  BY FormTyped DEF FormTypes, Spellings
<1>2. CarriesSearch(over, f) /\ CarriesRegion(over, f)
  BY OverCarries
<1>3. over.acquisition = f.acquisition
  BY <1>2 DEF CarriesSearch
<1>4. /\ over.trust_region = "morbo" <=> f.trust_region = "morbo"
      /\ f.trust_region = "morbo" =>
           over.num_metrics = f.num_metrics /\ f.num_metrics \in Nat
  BY <1>1, <1>2, PartsMissing DEF CarriesRegion, MorboKeys
<1>5. /\ LengthsHold(StatedLengths(f)) => FormLengthsHold(f)
      /\ LengthsHold(over) <=> LengthsHold(StatedLengths(f))
      /\ Sent(f) \cap LengthKeys = {} => LengthsHold(StatedLengths(f))
  BY <1>2, LengthsSound
<1>6. DOMAIN Overrides(f) = Sent(f)
  BY SentKnown
<1>7. Sent(f) \cap EnnOverrideKeys # {} => f.surrogate = "enn"
  <2> SUFFICES ASSUME NEW key \in EnnOverrideKeys, key \in Sent(f)
               PROVE  f.surrogate # "none"
    BY <1>1
  <2>1. key \in {"freeze_params", "y_bounds", "tied_dims", "num_fit_samples",
                 "num_fit_candidates", "infer_aleatoric_variance", "affine_calibrate",
                 "index_driver", "enn_storage", "work_dir", "scale_x", "metric_learning"}
    BY DEF EnnOverrideKeys, SearchKeys, LayoutKeys
  <2> QED
    BY <2>1, SentIs
<1>8. /\ EntryFor(f) = "enn" <=> f.surrogate = "enn"
      /\ EntryFor(f) = "lhd" <=> f.surrogate = "none" /\ f.init = "lhd"
  BY EntryIs
<1>9. RulesHold(f.init = "lhd", f.surrogate = "enn", f.acquisition) <=>
        /\ f.surrogate = "none" => f.acquisition \in {"random", "pareto"}
        /\ f.surrogate = "enn" => f.init # "lhd"
  BY <1>1 DEF RulesHold, NeedsSurrogate
<1>10. RulesHold(f.init = "lhd", f.surrogate = "enn", f.acquisition) =>
         RulesHold(EntryFor(f) = "lhd", EntryFor(f) = "enn", over.acquisition)
  BY <1>1, <1>3, <1>8 DEF RulesHold, NeedsSurrogate
<1>11. f.trust_region = "morbo" => (f.num_metrics >= 2 <=> f.num_metrics > 1)
  BY <1>4
<1>12. LengthsHold(StatedLengths(f)) <=>
         ("trust_region" \in Sent(f) \/ Sent(f) \cap LengthKeys # {} => LengthsHold(over))
         /\ (f.trust_region # "morbo" \/ LengthsHold(StatedLengths(f)))
  BY <1>5, SentIs
<1>13. RegionAccepted(over, Overrides(f)) <=>
         /\ LengthsHold(StatedLengths(f))
         /\ f.trust_region = "morbo" => f.num_metrics >= 2
  <2>1. RegionAccepted(over, Overrides(f)) <=>
          /\ "trust_region" \in Sent(f) \/ Sent(f) \cap LengthKeys # {} => LengthsHold(over)
          /\ over.trust_region = "morbo" => over.num_metrics >= 2
    BY <1>6, Zenon DEF RegionAccepted, Has
  <2>2. "trust_region" \in Sent(f) <=> f.trust_region = "morbo"
    BY SentIs
  <2> QED
    BY <1>4, <1>5, <2>1, <2>2
<1> QED
  BY <1>5, <1>6, <1>7, <1>8, <1>9, <1>10, <1>11, <1>13 DEF PartsSound

\* A surrogate's fields: its form's checks and the factory's together ask of them what
\* Sound does.
LEMMA EnnAcceptedIs ==
  ASSUME NEW f \in Forms, HasFactory(f), NEW env, NEW over, f.surrogate = "enn",
         Puts(over, Overrides(f), WithK(Base(EntryFor(f)), f.k))
  PROVE  EnnSound(f, env) <=>
           EnnFormHolds(f, env) /\ FitWhole(Overrides(f)) /\ EnnAccepted(over, env)
<1>1. CarriesSearch(over, f) /\ CarriesEnn(over, f)
  BY OverCarries
<1>2. /\ f.acquisition \in {"ucb", "thompson", "random", "pareto"}
      /\ f.k \in Nat \cup {Unset}
      /\ f.affine_calibrate \in BOOLEAN /\ f.scale_x \in BOOLEAN
      /\ f.enn_storage \in {Unset, "MEMORY", "DISK"}
      /\ f.metric_learning \in {"NONE", "AUTO"}
  BY FormTyped DEF FormTypes, Spellings
<1>3. Unset \notin Nat
  BY ConfigurationAssumption
<1>4. /\ over.acquisition = f.acquisition /\ over.k = IF f.k = Unset THEN 10 ELSE f.k
      /\ over.freeze_params = (f.num_fit_samples = Unset)
      /\ over.scale_x = f.scale_x /\ over.metric_learning = f.metric_learning
      /\ over.tied_dims = f.tied_dims /\ over.index_driver = f.index_driver
      /\ over.enn_storage = IF f.enn_storage = Unset THEN "MEMORY" ELSE f.enn_storage
      /\ over.work_dir = f.work_dir
  BY <1>1, Zenon DEF CarriesSearch, CarriesEnn, Or
<1>5. NeighborCountHolds(over.k) <=> f.k # 0
  BY <1>2, <1>3, <1>4 DEF NeighborCountHolds
<1>6. "DISK" # Unset
  BY NamesAreSet DEF Spellings
<1>7. PlacementHolds(over, env) <=> PlacementHolds(f, env)
  BY <1>4, <1>6 DEF PlacementHolds, WorkDir
<1>8. PlacementHolds(f, env) <=>
        /\ f.enn_storage = "DISK" => f.index_driver = "BPANN_DISK" /\ {f.work_dir, env} # {Unset}
        /\ f.work_dir # Unset => f.enn_storage = "DISK"
        /\ f.metric_learning = "AUTO" => f.enn_storage = "DISK" /\ ~f.scale_x
  <2>1. WorkDir(f, env) # Unset <=> {f.work_dir, env} # {Unset}
    BY DEF WorkDir
  <2> QED
    BY <2>1 DEF PlacementHolds
<1>9. FitAccepted(over) <=> (f.num_fit_samples = Unset => f.acquisition \in {"random", "pareto"})
  BY <1>2, <1>4 DEF FitAccepted, NeedsSurrogate
<1>10. TiedAccepted(over) <=>
         (f.tied_dims # <<>> => /\ f.metric_learning = "AUTO"
                                /\ TiedInRange(f.tied_dims, Inputs) /\ TiedApart(f.tied_dims))
  BY <1>4 DEF TiedAccepted
<1>11. f.tied_dims = <<>> => TiedInRange(f.tied_dims, Inputs) /\ TiedApart(f.tied_dims)
  BY DEF TiedInRange, TiedApart
<1>12. (\A key \in SearchKeys : f[key] = EnnForm[key]) <=>
         /\ f.num_fit_samples = Unset /\ f.num_fit_candidates = Unset
         /\ f.infer_aleatoric_variance = Unset /\ ~f.affine_calibrate
  <2>1. /\ SearchKeys = {"num_fit_samples", "num_fit_candidates",
                          "infer_aleatoric_variance", "affine_calibrate"}
        /\ EnnForm["num_fit_samples"] = Unset /\ EnnForm["num_fit_candidates"] = Unset
        /\ EnnForm["infer_aleatoric_variance"] = Unset /\ EnnForm["affine_calibrate"] = FALSE
    BY DEF SearchKeys, EnnForm
  <2> QED
    BY <1>2, <2>1
<1>13. EnnFormHolds(f, env) => FitWhole(Overrides(f))
  <2> SUFFICES ASSUME EnnFormHolds(f, env)
               PROVE  FitWhole(Overrides(f))
    OBVIOUS
  <2>1. /\ f.num_fit_samples # 0 /\ f.num_fit_candidates # 0
        /\ f.num_fit_samples = Unset => \A key \in SearchKeys : f[key] = EnnForm[key]
    BY DEF EnnFormHolds
  <2>2. PICK keys : keys = Overrides(f)
    OBVIOUS
  <2>3. /\ DOMAIN keys = Sent(f)
        /\ \A key \in Sent(f) : keys[key] = IF key = "freeze_params" THEN TRUE ELSE f[key]
    BY <2>2, SentKnown
  <2>4. Value(keys, "num_fit_samples", 1) # 0 /\ Value(keys, "num_fit_candidates", 1) # 0
    <3>1. \A key \in {"num_fit_samples", "num_fit_candidates"} :
            key \in DOMAIN keys => keys[key] = f[key]
      BY <2>3
    <3> QED
      BY <2>1, <3>1 DEF Value, Has
  <2>5. ASSUME Value(keys, "freeze_params", FALSE)
        PROVE  DOMAIN keys \cap SearchKeys = {}
    <3>1. "freeze_params" \in Sent(f)
      BY <2>3, <2>5 DEF Value, Has
    <3>2. f.num_fit_samples = Unset
      BY <3>1, SentIs
    <3>3. /\ f.num_fit_candidates = Unset /\ f.infer_aleatoric_variance = Unset
          /\ f.affine_calibrate = FALSE
      BY <1>2, <1>12, <2>1, <3>2
    <3>4. DefaultForm["num_fit_candidates"] = Unset /\ DefaultForm["affine_calibrate"] = FALSE
      BY DefaultFormIs DEF EnnForm
    <3>5. {"num_fit_samples", "num_fit_candidates", "infer_aleatoric_variance",
           "affine_calibrate"} \cap Sent(f) = {}
      BY <3>2, <3>3, <3>4, SentIs
    <3> QED
      BY <2>3, <3>5 DEF SearchKeys
  <2> QED
    BY <2>2, <2>4, <2>5 DEF FitWhole
<1>14. EnnFormHolds(f, env) <=>
         /\ f.num_fit_samples # 0 /\ f.num_fit_candidates # 0
         /\ f.num_fit_samples = Unset =>
              /\ f.num_fit_candidates = Unset /\ f.infer_aleatoric_variance = Unset
              /\ ~f.affine_calibrate
         /\ PlacementHolds(f, env)
         /\ f.tied_dims # <<>> => f.metric_learning = "AUTO" /\ TiedApart(f.tied_dims)
  BY <1>12 DEF EnnFormHolds
<1>15. EnnAccepted(over, env) <=>
         /\ f.k # 0 /\ PlacementHolds(f, env)
         /\ f.num_fit_samples = Unset => f.acquisition \in {"random", "pareto"}
         /\ f.tied_dims # <<>> => /\ f.metric_learning = "AUTO"
                                  /\ TiedInRange(f.tied_dims, Inputs) /\ TiedApart(f.tied_dims)
  BY <1>5, <1>7, <1>9, <1>10 DEF EnnAccepted
<1> QED
  BY <1>8, <1>11, <1>13, <1>14, <1>15 DEF EnnSound

\* A form builds an optimizer exactly if it is sound.
LEMMA SoundBuilds ==
  ASSUME NEW f \in Forms, HasFactory(f), NEW env
  PROVE  Sound(f, env) <=>
           /\ FormHolds(f, env) /\ Parses(Overrides(f))
           /\ FactoryAccepts(EntryFor(f), f.k, Overrides(f), env)
<1>1. PICK over : Puts(over, Overrides(f), WithK(Base(EntryFor(f)), f.k))
  BY DEF Puts
<1>2. Parses(Overrides(f)) <=> FitWhole(Overrides(f))
  BY SentKnown DEF Parses
<1>3. FactoryAccepts(EntryFor(f), f.k, Overrides(f), env) <=>
        /\ RegionAccepted(over, Overrides(f))
        /\ DOMAIN Overrides(f) \cap EnnOverrideKeys # {} => EntryFor(f) = "enn"
        /\ RulesHold(EntryFor(f) = "lhd", EntryFor(f) = "enn", over.acquisition)
        /\ f.surrogate = "enn" => EnnAccepted(over, env)
  BY <1>1, EntryIs DEF FactoryAccepts, Puts
<1>4. f.surrogate # "enn" => FitWhole(Overrides(f))
  <2> SUFFICES ASSUME f.surrogate = "none"
               PROVE  FitWhole(Overrides(f))
    BY FormTyped DEF FormTypes
  <2>1. {"freeze_params", "num_fit_samples", "num_fit_candidates"} \cap Sent(f) = {}
    BY SentIs
  <2>2. DOMAIN Overrides(f) = Sent(f)
    BY SentKnown
  <2> QED
    BY <2>1, <2>2 DEF FitWhole, Value, Has
<1>5. PartsSound(f) <=>
        /\ f.num_init # 0 /\ FormLengthsHold(f)
        /\ f.trust_region = "morbo" => f.num_metrics >= 2 /\ f.alpha > 0
        /\ RulesHold(f.init = "lhd", f.surrogate = "enn", f.acquisition)
        /\ RegionAccepted(over, Overrides(f))
        /\ DOMAIN Overrides(f) \cap EnnOverrideKeys # {} => EntryFor(f) = "enn"
        /\ RulesHold(EntryFor(f) = "lhd", EntryFor(f) = "enn", over.acquisition)
  BY <1>1, PartsAccepted
<1>6. f.surrogate = "enn" =>
        (EnnSound(f, env) <=>
           EnnFormHolds(f, env) /\ FitWhole(Overrides(f)) /\ EnnAccepted(over, env))
  BY <1>1, EnnAcceptedIs
<1> QED
  BY <1>2, <1>3, <1>4, <1>5, <1>6, SoundIs DEF FormHolds

\* c has in it what part says.
Agrees(c, part) == \A key \in DOMAIN part : c[key] = part[key]

LEMMA AgreesBoth ==
  ASSUME NEW c, NEW one, NEW other, Agrees(c, one), Agrees(c, other)
  PROVE  Agrees(c, one ++ other)
BY DEF Agrees, ++

\* What is kept of the fields that a sound form states.
KeptOf(c, over, f, env) ==
  /\ \A key \in {"acquisition", "raasp_fast", "noise_aware", "candidate_rv",
                 "trust_region"} \cup CountKeys \cup LengthKeys \cup MorboKeys :
       c[key] = over[key]
  /\ c["strategy"] = Strategy(EntryFor(f))
  /\ c["num_init"] = IF f.num_init = Unset THEN DefaultNumInit ELSE f.num_init
  /\ IsEnn(c) <=> f.surrogate = "enn"
  /\ f.surrogate = "enn" =>
       /\ \A key \in {"k", "freeze_params", "scale_x", "metric_learning", "tied_dims",
                      "index_driver", "enn_storage", "y_bounds"} : c[key] = over[key]
       /\ \A key \in SearchKeys : c[key] = IF over.freeze_params THEN Unset ELSE over[key]
       /\ over.enn_storage = "DISK" => c["work_dir"] = WorkDir(over, env)

LEMMA FormKept ==
  ASSUME NEW f \in Forms, HasFactory(f), NEW env, NEW over, NEW c,
         Puts(over, Overrides(f), WithK(Base(EntryFor(f)), f.k)),
         c = Assembled(EntryFor(f), f.k, f.num_init, Overrides(f), env)
  PROVE  KeptOf(c, over, f, env)
<1>1. CameOf(over, f)
  BY OverIs
<1>2. PICK entry : entry = EntryFor(f)
  OBVIOUS
<1>3. PICK keys : keys = Overrides(f)
  OBVIOUS
<1>4. PICK k : k = f.k
  OBVIOUS
<1>5. PICK numInit : numInit = f.num_init
  OBVIOUS
<1>6. /\ {"strategy", "num_init"} \cap DOMAIN over = {}
      /\ IsEnn(over) => SearchKeys \cup {"enn_storage", "work_dir"} \subseteq DOMAIN over
  BY <1>1 DEF CameOf
<1>7. Puts(over, keys, WithK(Base(entry), k)) /\ c = Assembled(entry, k, numInit, keys, env)
  BY <1>2, <1>3, <1>4, <1>5
<1>8. /\ Kept(c, over, env)
      /\ DOMAIN c = DOMAIN over \cup {"strategy", "num_init"}
      /\ c["strategy"] = Strategy(entry)
      /\ c["num_init"] = IF numInit = Unset THEN DefaultNumInit ELSE numInit
  BY <1>6, <1>7, AssembledFacts
<1>9. IsEnn(over) <=> f.surrogate = "enn"
  BY <1>1 DEF CameOf
<1>10. /\ {"acquisition", "raasp_fast", "noise_aware", "candidate_rv", "trust_region"}
            \cup CountKeys \cup LengthKeys \cup MorboKeys \subseteq DOMAIN over
       /\ entry = "enn" =>
            {"k", "freeze_params", "scale_x", "metric_learning", "tied_dims", "index_driver",
             "enn_storage", "y_bounds"} \cup SearchKeys \subseteq DOMAIN over
  <2>1. DOMAIN SearchDefaults(entry) =
          {"acquisition", "candidate_rv", "raasp_fast", "min_candidates", "max_candidates",
           "num_candidates_per_dim", "num_candidates_per_arm", "noise_aware"}
    BY DEF SearchDefaults, BaseTurbo, BaseLhd
  <2>2. /\ {"acquisition", "raasp_fast", "noise_aware", "candidate_rv"} \cup CountKeys
             \subseteq DOMAIN SearchDefaults(entry)
        /\ {"trust_region"} \cup LengthKeys \cup MorboKeys \subseteq DOMAIN BaseRegion
    BY <2>1 DEF BaseRegion, CountKeys, LengthKeys, MorboKeys
  <2>3. /\ {"k", "freeze_params", "scale_x", "metric_learning", "tied_dims", "index_driver",
            "enn_storage", "y_bounds"} \subseteq DOMAIN OwnEnn
        /\ SearchKeys \subseteq DOMAIN BaseSearch
    BY DEF OwnEnn, BaseSearch, SearchKeys
  <2>4. DOMAIN Base(entry) \subseteq DOMAIN over
    BY <1>1, <1>2 DEF CameOf
  <2>5. /\ DOMAIN BaseRegion \cup DOMAIN SearchDefaults(entry) \subseteq DOMAIN Base(entry)
        /\ entry = "enn" => DOMAIN BaseSearch \cup DOMAIN OwnEnn \subseteq DOMAIN Base(entry)
    BY BaseIs
  <2> QED
    BY <2>2, <2>3, <2>4, <2>5
<1>11. entry = "enn" <=> f.surrogate = "enn"
  BY <1>2, EntryIs
<1>12. /\ \A key \in {"acquisition", "raasp_fast", "noise_aware", "candidate_rv", "trust_region"}
            \cup CountKeys \cup LengthKeys \cup MorboKeys :
            key # "work_dir" /\ key \notin SearchKeys
       /\ \A key \in {"k", "freeze_params", "scale_x", "metric_learning", "tied_dims",
                      "index_driver", "enn_storage", "y_bounds"} :
            key # "work_dir" /\ key \notin SearchKeys
       /\ "work_dir" \notin SearchKeys
  BY DEF CountKeys, LengthKeys, MorboKeys, SearchKeys
<1>13. /\ \A key \in DOMAIN over :
            key # "work_dir" /\ (key \notin SearchKeys \/ ~IsEnn(over) \/ ~over.freeze_params) =>
              c[key] = over[key]
       /\ IsEnn(over) =>
            /\ c["work_dir"] = IF over.enn_storage = "DISK" THEN WorkDir(over, env) ELSE Unset
            /\ over.freeze_params => \A key \in SearchKeys : c[key] = Unset
  BY <1>8 DEF Kept
<1>14. IsEnn(c) <=> f.surrogate = "enn"
  BY <1>8, <1>9 DEF IsEnn, Has
<1>15. \A key \in {"acquisition", "raasp_fast", "noise_aware", "candidate_rv", "trust_region"}
         \cup CountKeys \cup LengthKeys \cup MorboKeys : c[key] = over[key]
  BY <1>10, <1>12, <1>13
<1>16. ASSUME f.surrogate = "enn"
       PROVE  /\ \A key \in {"k", "freeze_params", "scale_x", "metric_learning", "tied_dims",
                             "index_driver", "enn_storage", "y_bounds"} : c[key] = over[key]
              /\ \A key \in SearchKeys : c[key] = IF over.freeze_params THEN Unset ELSE over[key]
              /\ over.enn_storage = "DISK" => c["work_dir"] = WorkDir(over, env)
  BY <1>9, <1>10, <1>11, <1>12, <1>13, <1>16
<1> QED
  BY <1>2, <1>5, <1>8, <1>14, <1>15, <1>16 DEF KeptOf

\* What a sound form states is in force in the optimizer that it builds.
LEMMA StatedInForce ==
  ASSUME NEW f \in Forms, HasFactory(f), NEW env, Sound(f, env), NEW c,
         c = Assembled(EntryFor(f), f.k, f.num_init, Overrides(f), env)
  PROVE  /\ Agrees(c, Stated(f))
         /\ IsEnn(c) <=> f.surrogate = "enn"
         /\ f.enn_storage = "DISK" => c["work_dir"] = Or(f.work_dir, env)
<1>1. PICK over : Puts(over, Overrides(f), WithK(Base(EntryFor(f)), f.k))
  BY DEF Puts
<1>2. /\ CarriesSearch(over, f) /\ CarriesRegion(over, f)
      /\ f.surrogate = "enn" => CarriesEnn(over, f)
  BY <1>1, OverCarries
<1>3. /\ \A key \in {"acquisition", "raasp_fast", "noise_aware", "candidate_rv",
                     "trust_region"} \cup CountKeys \cup LengthKeys \cup MorboKeys :
           c[key] = over[key]
      /\ c["strategy"] = Strategy(EntryFor(f))
      /\ c["num_init"] = IF f.num_init = Unset THEN DefaultNumInit ELSE f.num_init
      /\ IsEnn(c) <=> f.surrogate = "enn"
      /\ f.surrogate = "enn" =>
           /\ \A key \in {"k", "freeze_params", "scale_x", "metric_learning", "tied_dims",
                          "index_driver", "enn_storage", "y_bounds"} : c[key] = over[key]
           /\ \A key \in SearchKeys : c[key] = IF over.freeze_params THEN Unset ELSE over[key]
           /\ over.enn_storage = "DISK" => c["work_dir"] = WorkDir(over, env)
  <2>1. KeptOf(c, over, f, env)
    BY <1>1, FormKept
  <2> QED
    BY <2>1 DEF KeptOf
<1>4. f.surrogate = "enn" => f.init # "lhd"
  BY SoundIs DEF PartsSound
<1>5. EntryFor(f) = "lhd" <=> f.init = "lhd"
  BY <1>4, EntryIs, FormTyped DEF FormTypes
<1>6. Agrees(c, Only(f, {"acquisition", "raasp_fast", "noise_aware"} \cup CountKeys))
  <2>1. \A key \in {"acquisition", "raasp_fast", "noise_aware"} \cup CountKeys : c[key] = f[key]
    BY <1>2, <1>3 DEF CarriesSearch
  <2> QED
    BY <2>1 DEF Agrees, Only
<1>7. Agrees(c, StatedLengths(f))
  <2>1. DOMAIN StatedLengths(f) = LengthKeys
    BY DEF StatedLengths, LengthKeys
  <2>2. \A key \in LengthKeys : c[key] = StatedLengths(f)[key]
    BY <1>2, <1>3 DEF CarriesRegion
  <2> QED
    BY <2>1, <2>2 DEF Agrees
<1>8. Agrees(c, [strategy |-> IF f.init = "lhd" THEN "init" ELSE "hybrid",
                 num_init |-> Or(f.num_init, 10),
                 candidate_rv |-> Or(f.candidate_rv,
                                     IF f.init = "lhd" THEN "uniform" ELSE "raasp")])
  <2>1. c["strategy"] = IF f.init = "lhd" THEN "init" ELSE "hybrid"
    BY <1>3, <1>5 DEF Strategy
  <2>2. c["num_init"] = Or(f.num_init, 10)
    BY <1>3 DEF Or, DefaultNumInit
  <2>3. c["candidate_rv"] =
          Or(f.candidate_rv, IF f.init = "lhd" THEN "uniform" ELSE "raasp")
    BY <1>2, <1>3, <1>4 DEF CarriesSearch
  <2> QED
    BY <2>1, <2>2, <2>3 DEF Agrees
<1>9. Agrees(c, IF f.trust_region = "morbo" THEN Only(f, {"trust_region"} \cup MorboKeys)
                ELSE [trust_region |-> "turbo"])
  <2>1. CASE f.trust_region = "morbo"
    <3>1. \A key \in {"trust_region"} \cup MorboKeys : c[key] = f[key]
      BY <1>2, <1>3, <2>1 DEF CarriesRegion
    <3>2. Agrees(c, Only(f, {"trust_region"} \cup MorboKeys))
      BY <3>1 DEF Agrees, Only
    <3> QED
      BY <2>1, <3>2
  <2>2. CASE f.trust_region # "morbo"
    <3>1. c["trust_region"] = "turbo"
      BY <1>2, <1>3, <2>2 DEF CarriesRegion
    <3>2. Agrees(c, [trust_region |-> "turbo"])
      BY <3>1 DEF Agrees
    <3> QED
      BY <2>2, <3>2
  <2> QED
    BY <2>1, <2>2
<1>10. Agrees(c, <<>>)
  BY DEF Agrees
<1>11. ASSUME f.surrogate = "enn"
       PROVE  /\ Agrees(c, StatedEnn(f))
              /\ f.enn_storage = "DISK" => c["work_dir"] = Or(f.work_dir, env)
  <2>1. CarriesEnn(over, f)
    BY <1>2, <1>11
  <2>2. Agrees(c, [k |-> Or(f.k, 10), freeze_params |-> f.num_fit_samples = Unset,
                   num_fit_samples |-> f.num_fit_samples,
                   scale_x |-> f.scale_x, metric_learning |-> f.metric_learning,
                   tied_dims |-> f.tied_dims, index_driver |-> f.index_driver,
                   enn_storage |-> Or(f.enn_storage, "MEMORY"), y_bounds |-> f.y_bounds])
    <3>1. c["num_fit_samples"] = f["num_fit_samples"]
      BY <1>3, <1>11, <2>1 DEF CarriesEnn, Or, SearchKeys
    <3>2. /\ c["k"] = Or(f.k, 10) /\ c["freeze_params"] = (f.num_fit_samples = Unset)
          /\ c["scale_x"] = f.scale_x /\ c["metric_learning"] = f.metric_learning
          /\ c["tied_dims"] = f.tied_dims /\ c["index_driver"] = f.index_driver
          /\ c["enn_storage"] = Or(f.enn_storage, "MEMORY") /\ c["y_bounds"] = f.y_bounds
      BY <1>3, <1>11, <2>1 DEF CarriesEnn
    <3> QED
      BY <3>1, <3>2 DEF Agrees
  <2>3. ASSUME f.num_fit_samples # Unset
        PROVE  Agrees(c, [num_fit_candidates |-> Or(f.num_fit_candidates, 30),
                          infer_aleatoric_variance |-> Or(f.infer_aleatoric_variance, TRUE),
                          affine_calibrate |-> f.affine_calibrate])
    <3>1. \A key \in SearchKeys : c[key] = over[key]
      BY <1>3, <1>11, <2>1, <2>3 DEF CarriesEnn
    <3>2. /\ c["num_fit_candidates"] = Or(f.num_fit_candidates, 30)
          /\ c["infer_aleatoric_variance"] = Or(f.infer_aleatoric_variance, TRUE)
          /\ c["affine_calibrate"] = f.affine_calibrate
      BY <2>1, <3>1 DEF CarriesEnn, SearchKeys
    <3> DEFINE part == [num_fit_candidates |-> Or(f.num_fit_candidates, 30),
                        infer_aleatoric_variance |-> Or(f.infer_aleatoric_variance, TRUE),
                        affine_calibrate |-> f.affine_calibrate]
    <3>3. /\ DOMAIN part = {"num_fit_candidates", "infer_aleatoric_variance",
                            "affine_calibrate"}
          /\ part["num_fit_candidates"] = Or(f.num_fit_candidates, 30)
          /\ part["infer_aleatoric_variance"] = Or(f.infer_aleatoric_variance, TRUE)
          /\ part["affine_calibrate"] = f.affine_calibrate
      OBVIOUS
    <3> HIDE DEF part
    <3>4. Agrees(c, part)
      BY <3>2, <3>3 DEF Agrees
    <3> QED
      BY <3>4 DEF part
  <2>4. Agrees(c, IF f.num_fit_samples = Unset THEN <<>>
                  ELSE [num_fit_candidates |-> Or(f.num_fit_candidates, 30),
                        infer_aleatoric_variance |-> Or(f.infer_aleatoric_variance, TRUE),
                        affine_calibrate |-> f.affine_calibrate])
    BY <1>10, <2>3
  <2>5. Agrees(c, StatedEnn(f))
    BY <2>2, <2>4, AgreesBoth DEF StatedEnn
  <2>6. f.enn_storage = "DISK" => c["work_dir"] = Or(f.work_dir, env)
    <3> SUFFICES ASSUME f.enn_storage = "DISK"
                 PROVE  c["work_dir"] = Or(f.work_dir, env)
      OBVIOUS
    <3>1. over.enn_storage = "DISK" /\ over.work_dir = f.work_dir
      BY <2>1, NamesAreSet DEF CarriesEnn, Or, Spellings
    <3> QED
      BY <1>3, <1>11, <3>1 DEF WorkDir, Or
  <2> QED
    BY <2>5, <2>6
<1>12. f.surrogate = "enn" \/ f.enn_storage # "DISK"
  <2>1. f.surrogate \in {"none", "enn"}
    BY FormTyped DEF FormTypes
  <2>2. f.surrogate = "none" => f["enn_storage"] = Unset
    BY PartsMissing DEF EnnForm
  <2> QED
    BY <2>1, <2>2, NamesAreSet DEF Spellings
<1>13. Agrees(c, IF f.surrogate = "enn" THEN StatedEnn(f) ELSE <<>>)
  BY <1>10, <1>11
<1>14. Agrees(c, Stated(f))
  <2> DEFINE first == Only(f, {"acquisition", "raasp_fast", "noise_aware"} \cup CountKeys)
             made == [strategy |-> IF f.init = "lhd" THEN "init" ELSE "hybrid",
                      num_init |-> Or(f.num_init, 10),
                      candidate_rv |-> Or(f.candidate_rv,
                                          IF f.init = "lhd" THEN "uniform" ELSE "raasp")]
             region == IF f.trust_region = "morbo" THEN Only(f, {"trust_region"} \cup MorboKeys)
                       ELSE [trust_region |-> "turbo"]
             enn == IF f.surrogate = "enn" THEN StatedEnn(f) ELSE <<>>
             lengths == StatedLengths(f)
  <2>1. /\ Agrees(c, first) /\ Agrees(c, lengths) /\ Agrees(c, made) /\ Agrees(c, region)
        /\ Agrees(c, enn)
    BY <1>6, <1>7, <1>8, <1>9, <1>13
  <2>2. Stated(f) = first ++ lengths ++ made ++ region ++ enn
    BY DEF Stated
  <2> HIDE DEF first, lengths, made, region, enn
  <2>3. Agrees(c, first ++ lengths)
    BY <2>1, AgreesBoth
  <2>4. Agrees(c, first ++ lengths ++ made)
    BY <2>1, <2>3, AgreesBoth
  <2>5. Agrees(c, first ++ lengths ++ made ++ region)
    BY <2>1, <2>4, AgreesBoth
  <2>6. Agrees(c, first ++ lengths ++ made ++ region ++ enn)
    BY <2>1, <2>5, AgreesBoth
  <2> QED
    BY <2>2, <2>6
<1> QED
  BY <1>3, <1>11, <1>12, <1>14

\* How an optimizer comes to be as its caller configured it, as an invariant of a call.
LEMMA FormBuilt ==
  ASSUME NEW f \in Forms, NEW env \in WorkDirs, HasFactory(f), NEW c,
         c = IF FormHolds(f, env)
             THEN Created(EntryFor(f), IF f.surrogate = "enn" THEN f.k ELSE Unset, f.num_init,
                          Overrides(f), env)
             ELSE Denied
  PROVE  IF Sound(f, env)
         THEN /\ c # Denied
              /\ \A key \in DOMAIN Stated(f) : c[key] = Stated(f)[key]
              /\ IsEnn(c) = (f.surrogate = "enn")
              /\ f.enn_storage = "DISK" => c.work_dir = Or(f.work_dir, env)
         ELSE c = Denied
<1>1. (IF f.surrogate = "enn" THEN f.k ELSE Unset) = f.k
  <2>1. f.surrogate \in {"none", "enn"}
    BY FormTyped DEF FormTypes
  <2>2. f.surrogate = "none" => f["k"] = Unset
    BY PartsMissing DEF EnnForm
  <2> QED
    BY <2>1, <2>2
<1>2. PICK new : new = Assembled(EntryFor(f), f.k, f.num_init, Overrides(f), env)
  OBVIOUS
<1>3. /\ Sound(f, env) => c = new
      /\ ~Sound(f, env) => c = Denied
  BY <1>1, <1>2, SoundBuilds DEF Created
<1>4. ASSUME Sound(f, env)
      PROVE  /\ c # Denied
             /\ \A key \in DOMAIN Stated(f) : c[key] = Stated(f)[key]
             /\ IsEnn(c) = (f.surrogate = "enn")
             /\ f.enn_storage = "DISK" => c.work_dir = Or(f.work_dir, env)
  <2>1. new # Denied
    BY <1>2, DeniedAssumption
  <2>2. /\ Agrees(new, Stated(f))
        /\ IsEnn(new) <=> f.surrogate = "enn"
        /\ f.enn_storage = "DISK" => new["work_dir"] = Or(f.work_dir, env)
    BY <1>2, <1>4, StatedInForce
  <2>3. c = new
    BY <1>3, <1>4
  <2>4. IsEnn(c) \in BOOLEAN
    BY DEF IsEnn, Has
  <2> QED
    BY <2>1, <2>2, <2>3, <2>4 DEF Agrees
<1> QED
  BY <1>3, <1>4

LEMMA BuiltInit == ConfigInit => BuiltAsConfigured
BY DEF ConfigInit, BuiltAsConfigured

LEMMA BuiltKept ==
  ASSUME ConfigNext
  PROVE  BuiltAsConfigured'
<1>1. CASE Ask \/ Tell
  BY <1>1 DEF Ask, Tell, BuiltAsConfigured
<1>2. CASE CreateFromForm
  <2>1. PICK f \in Forms, env \in WorkDirs :
          Create([form |-> f, env |-> env],
                 IF FormHolds(f, env)
                 THEN Created(EntryFor(f), IF f.surrogate = "enn" THEN f.k ELSE Unset,
                              f.num_init, Overrides(f), env)
                 ELSE Denied)
    BY <1>2 DEF CreateFromForm
  <2>2. /\ given' = [form |-> f, env |-> env]
        /\ built' = IF FormHolds(f, env)
                    THEN Created(EntryFor(f), IF f.surrogate = "enn" THEN f.k ELSE Unset,
                                 f.num_init, Overrides(f), env)
                    ELSE Denied
    BY <2>1 DEF Create
  <2>3. given'.form = f /\ given'.env = env /\ "form" \in DOMAIN given'
    BY <2>2
  <2>4. ASSUME HasFactory(f)
        PROVE  IF Sound(f, env)
               THEN /\ built' # Denied
                    /\ \A key \in DOMAIN Stated(f) : built'[key] = Stated(f)[key]
                    /\ IsEnn(built') = (f.surrogate = "enn")
                    /\ f.enn_storage = "DISK" => built'.work_dir = Or(f.work_dir, env)
               ELSE built' = Denied
    BY <2>2, <2>4, FormBuilt
  <2> QED
    BY <2>3, <2>4 DEF BuiltAsConfigured, Has
<1>3. CASE CreateFromKeys
  <2>1. PICK entry \in {"enn", "zero", "lhd"}, keys \in Changed({<<>>}, KeyChanges),
             env \in WorkDirs :
          \E k \in IF entry = "enn" THEN Ks ELSE {Unset}, numInit \in Budgets :
            Create([keys |-> keys, env |-> env], Created(entry, k, numInit, keys, env))
    BY <1>3 DEF CreateFromKeys
  <2>2. PICK k \in IF entry = "enn" THEN Ks ELSE {Unset}, numInit \in Budgets :
          Create([keys |-> keys, env |-> env], Created(entry, k, numInit, keys, env))
    BY <2>1
  <2>3. /\ given' = [keys |-> keys, env |-> env]
        /\ built' = Created(entry, k, numInit, keys, env)
    BY <2>2 DEF Create
  <2>4. given'.keys = keys /\ "form" \notin DOMAIN given'
    BY <2>3
  <2>5. built' # Denied => \A key \in DOMAIN keys : built'[key] = keys[key]
    BY <2>3, KeysInForce
  <2> QED
    BY <2>4, <2>5 DEF BuiltAsConfigured, Has
<1> QED
  BY <1>1, <1>2, <1>3 DEF ConfigNext

----------------------------------------------------------------------------
(* Every behaviour.                                                        *)

FittingInv ==
  /\ IF driver = "incremental" THEN FitInv ELSE fit.frozen = NoFrozen
  /\ IF driver = "surrogate" THEN SurInv ELSE surrogate = Unfitted

LEMMA FittingInitHolds == FittingInit => FittingInv
<1> SUFFICES ASSUME FittingInit
             PROVE  FittingInv
  OBVIOUS
<1>1. FitInit /\ SurrogateInit /\ intact = TRUE
  BY DEF FittingInit
<1>2. fit.frozen = NoFrozen /\ surrogate = Unfitted
  BY <1>1 DEF FitInit, NewFit, SurrogateInit
<1>3. config \in [layout : Layouts, frozen : BOOLEAN, calibrates : BOOLEAN]
  BY <1>1 DEF SurrogateInit
<1>4. config.layout \in LegalLayouts /\ ConfigTyped
  BY <1>3, EnnModelAssumption DEF ConfigTyped
<1>5. ASSUME driver = "incremental"
      PROVE  FitInv
  <2>1. PICK n \in FirstRows : model \in Constructed(NewModel(config.layout, n), {}, n)
    BY <1>5 DEF FittingInit
  <2>2. n \in Nat
    BY EnnModelAssumption
  <2>3. Settled(model) /\ Near(model)
    BY <1>4, <2>1, <2>2, ConstructedFacts
  <2>4. ModelInv
    BY <2>3 DEF ModelInv, Settled
  <2> QED
    BY <1>1, <2>4, FitInitHolds
<1>6. ASSUME driver = "surrogate"
      PROVE  SurInv
  <2>1. model = None
    BY <1>6 DEF FittingInit
  <2>2. IsFit(Unfitted) /\ Unfitted.state = "unfitted" /\ Unfitted.params = None
    BY DEF Unfitted, IsFit
  <2> QED
    BY <1>2, <1>4, <2>1, <2>2 DEF SurInv, Matches, Whole, Unfitted
<1> QED
  BY <1>2, <1>5, <1>6 DEF FittingInv

LEMMA FitNextKeeps ==
  ASSUME FitInv, FitNext
  PROVE  FitInv'
<1>1. CASE \E n \in Batches : FitAdd(n)
  BY <1>1, FitAddKeeps, EnnModelAssumption
<1>2. CASE \E token \in DOMAIN handed, k \in FitKs, seed \in FitSeeds : FitAsk(token, k, seed)
  BY <1>2, FitAskKeeps
<1>3. CASE FitReopen
  BY <1>3, FitReopenKeeps
<1> QED
  BY <1>1, <1>2, <1>3 DEF FitNext

LEMMA SurrogateNextKeeps ==
  ASSUME SurInv, SurrogateNext
  PROVE  SurInv'
BY FitKeeps, FitAppendKeeps, ClearKeeps, EnnModelAssumption DEF SurrogateNext

LEMMA FittingKeeps == FittingInv /\ [FittingNext]_vars => FittingInv'
<1> SUFFICES ASSUME FittingInv, [FittingNext]_vars
             PROVE  FittingInv'
  OBVIOUS
<1>1. CASE driver = "incremental" /\ FitNext /\ UNCHANGED <<driver, surrogateVars>>
  BY <1>1, FitNextKeeps DEF FittingInv, surrogateVars
<1>2. CASE driver = "surrogate" /\ SurrogateNext /\ UNCHANGED <<driver, fitVars>>
  BY <1>2, SurrogateNextKeeps DEF FittingInv, fitVars
<1>3. CASE /\ driver \notin {"incremental", "surrogate"}
           /\ UNCHANGED <<driver, fitVars, surrogateVars>>
  BY <1>3 DEF FittingInv, fitVars, surrogateVars
<1>4. CASE UNCHANGED <<driver, modelVars, fitVars, surrogateVars>>
  <2>1. ASSUME FitInv
        PROVE  FitInv'
    <3>1. ModelInv /\ IsModel(model) /\ model.obs \in Nat /\ model.obs <= model.rows
      BY <2>1 DEF FitInv, ModelInv, IsModel
    <3>2. ModelInv'
      BY <1>4, <3>1, StepKeeps
    <3>3. model.obs <= model.obs
      BY <3>1
    <3> QED
      BY <1>4, <2>1, <3>1, <3>2, <3>3, FitStays DEF modelVars, fitVars
  <2>2. ASSUME SurInv
        PROVE  SurInv'
    BY <1>4, <2>2 DEF SurInv, ConfigTyped, Matches, Fits, Whole, Together, modelVars, surrogateVars
  <2> QED
    BY <1>4, <2>1, <2>2 DEF FittingInv, fitVars, surrogateVars
<1> QED
  BY <1>1, <1>2, <1>3, <1>4 DEF FittingNext, vars

\* What is fitted, and what a fit may still tell, whoever drives the model.
THEOREM FittedAsTold == FittingSpec => []FittingInv
<1> QED
  BY FittingInitHolds, FittingKeeps, PTL DEF FittingSpec

\* IncrementalFit: whatever adds, asks and reopens a caller interleaves, and whichever of
\* them fail, no row is told twice, and what is told are the rows of the tokens presented.
THEOREM TokensAlwaysTellOnce == FittingSpec => []TokensTellOnce
<1>1. FittingInv => TokensTellOnce
  <2>1. FitInv => TokensTellOnce
    BY FitInvTellsOnce
  <2>2. fit.frozen = NoFrozen => TokensTellOnce
    BY DEF TokensTellOnce
  <2> QED
    BY <2>1, <2>2 DEF FittingInv
<1> QED
  BY <1>1, FittedAsTold, PTL

\* ENNSurrogate: whatever fits, appends and clears come before, and whichever of them fail,
\* a surrogate no call of which failed is fitted to the rows of its model.
THEOREM FitStaysWithModel == FittingSpec => []FitsItsModel
<1>1. FittingInv => FitsItsModel
  <2>1. SurInv => FitsItsModel
    BY SurInvFits
  <2>2. surrogate = Unfitted => FitsItsModel
    BY DEF FitsItsModel, Unfitted
  <2> QED
    BY <2>1, <2>2 DEF FittingInv
<1> QED
  BY <1>1, FittedAsTold, PTL

\* Configuration: whatever is set in a form or in a dictionary, in whatever order a caller
\* asks and tells, and whatever region collapses, an optimizer serves every call.
THEOREM EveryCallIsServed == FittingSpec => []ServesEveryCall
<1>1. FittingInit => ConfigInv
  BY DEF FittingInit, ConfigInit, ConfigInv
<1>2. [FittingNext]_vars => [ConfigNext]_configVars
  BY DEF FittingNext, vars
<1>3. ConfigInv => ServesEveryCall
  BY DEF ConfigInv, ServesEveryCall
<1> QED
  BY <1>1, <1>2, <1>3, ConfigKeeps, PTL DEF FittingSpec

\* Configuration: a form builds an optimizer exactly if each of its parts is sound with the
\* defaults of what is not set, whatever is set in it; then every field is in force, set or
\* not.  A dictionary builds an optimizer with every key it has in force, or none.
THEOREM EveryKeyIsInForce == FittingSpec => []BuiltAsConfigured
<1>1. FittingInit => BuiltAsConfigured
  BY BuiltInit DEF FittingInit
<1>2. [FittingNext]_vars => [ConfigNext]_configVars
  BY DEF FittingNext, vars
<1>3. BuiltAsConfigured /\ [ConfigNext]_configVars => BuiltAsConfigured'
  <2>1. UNCHANGED configVars /\ BuiltAsConfigured => BuiltAsConfigured'
    BY DEF configVars, BuiltAsConfigured
  <2> QED
    BY <2>1, BuiltKept
<1> QED
  BY <1>1, <1>2, <1>3, PTL DEF FittingSpec

----------------------------------------------------------------------------
(* Flush thresholds.                                                       *)
(*                                                                         *)
(* ThresholdsFollowFile is about a step; the invariant says what each call *)
(* under way has in hand before it.  A snapshot, and what a call read, are *)
(* thresholds in order (Typed); a call that shared its time with no other  *)
(* that installs still holds the path in force, and what it read, and then *)
(* the snapshot, are what the file in force said at a step of the call     *)
(* (Followed).                                                             *)

InOrder == {b \in [soft : Nat, hard : Nat] : 1 <= b.soft /\ b.soft <= b.hard}
Files == [soft : Nat, hard : Nat \cup {Absent}, fits : BOOLEAN]
Contents == Files \cup {Absent, Garbage}

Calls == [call : {"path", "ensure", "load", "open"}]
         \cup [call : {"thresholds"}, soft : Nat, hard : Nat]
Saves == [call : {"save"}, path : Paths, file : Files]

\* The steps of a load: the file may have to be created first.
Loading == {"load", "create", "fill", "read"}

\* The steps of a call that installs, and what it has in hand at each.
Installing ==
  [at : {"path"}, what : Calls, from : Paths \cup {Absent}, read : InOrder \cup {Absent}]
  \cup [at : Loading, what : Calls, from : Paths, read : InOrder \cup {Absent}]
  \cup {r \in [at : {"install"}, what : Calls, from : Paths, read : InOrder] :
          r.what.call # "load"}
  \cup {r \in [at : {"open"}, what : Calls, from : Paths, read : InOrder] :
          r.what.call \in {"open", "thresholds"}}
Saving == [at : {"write"}, what : Saves, from : {Absent}, read : {Absent}]

Typed ==
  /\ files \in [Paths -> Contents] /\ path \in Paths
  /\ snapshot \in InOrder \cup {Absent}
  /\ opener \in [Openers -> Installing \cup Saving \cup {Resting}]
  /\ opened \in [Openers -> InOrder \cup {Absent}]

Followed ==
  \A c \in Openers : alone[c] /\ UnderWay(c) =>
    /\ \A d \in Openers \ {c} : opener[d].at \in {"rest", "write"}
    /\ opener[c].at \in Loading => opener[c].from = path
    /\ IsAt(c, "install") => opener[c].read \in said[c]
    /\ IsAt(c, "open") => snapshot \in said[c] /\ snapshot # Absent

TuningInv == Typed /\ Followed

----------------------------------------------------------------------------
\* Defaults, and what a file says, are thresholds in order; the load agrees with the file.
LEMMA LoadedInOrder ==
  /\ Defaults \in InOrder
  /\ \A content \in Contents : LoadedTuning(content) \in InOrder
                               /\ Says(content) = LoadedTuning(content)
<1>1. Defaults \in InOrder
  BY TuningAssumption DEF Defaults, Thresholds, InOrder
<1>2. ASSUME NEW content \in Files
      PROVE  LoadedTuning(content) \in InOrder /\ Says(content) = LoadedTuning(content)
  <2>1. HardOf(content) \in Nat /\ content.soft \in Nat
    BY TuningAssumption DEF Files, HardOf, LargerOf
  <2>2. HardOf(content) = (IF content.hard # Absent THEN content.hard
                           ELSE LargerOf(DefaultHard, content.soft))
    BY DEF HardOf
  <2>3. Valid(content) => Thresholds(content.soft, HardOf(content)) \in InOrder
    BY <2>1 DEF Valid, InOrder, Thresholds
  <2>4. Valid(content) <=> content.fits /\ content.soft \in 1..HardOf(content)
    BY <2>1 DEF Valid
  <2> QED
    BY <1>1, <2>2, <2>3, <2>4 DEF LoadedTuning, Says
<1>3. ASSUME NEW content \in {Absent, Garbage}
      PROVE  LoadedTuning(content) \in InOrder /\ Says(content) = LoadedTuning(content)
  BY <1>1 DEF LoadedTuning, Says
<1> QED
  BY <1>1, <1>2, <1>3 DEF Contents

\* A snapshot is in order, and so is what stands for none.
LEMMA CurrentInOrder == Typed => CurrentTuning \in InOrder
BY LoadedInOrder DEF Typed, CurrentTuning

\* The file that is created, and what is left of one that is being written.
LEMMA FilesTyped ==
  /\ DefaultFile \in Contents
  /\ \A file \in Parameters : file \in Files /\ CutShort(file) \subseteq Contents
<1>1. DefaultFile \in Contents
  BY TuningAssumption DEF DefaultFile, Contents, Files
<1>2. ASSUME NEW file \in Parameters PROVE file \in Files
  BY TuningAssumption DEF Parameters, Files
<1>3. ASSUME NEW file \in Parameters, NEW part \in CutShort(file)
      PROVE  part \in Contents
  <2>1. file.soft \in Nat /\ (file.hard # Absent => file.hard \in Nat)
    BY <1>2 DEF Files
  <2>2. CASE part = Garbage
    BY <2>2 DEF Contents
  <2>3. CASE \E s \in 1..file.soft \cup {DefaultSoft} :
               part = [soft |-> s, hard |-> Absent, fits |-> TRUE]
    BY <2>1, <2>3, TuningAssumption DEF Contents, Files
  <2>4. CASE file.hard # Absent /\ \E h \in 1..file.hard :
               part = [soft |-> file.soft, hard |-> h, fits |-> TRUE]
    BY <2>1, <2>4 DEF Contents, Files
  <2> QED
    BY <1>3, <2>2, <2>3, <2>4 DEF CutShort
<1> QED
  BY <1>1, <1>2, <1>3

\* What is left of the created file while it is written.
LEMMA DefaultCutShort == CutShort(DefaultFile) \subseteq Contents
<1> SUFFICES ASSUME NEW part \in CutShort(DefaultFile)
             PROVE  part \in Contents
  OBVIOUS
<1>1. /\ DefaultFile.soft = DefaultSoft /\ DefaultFile.hard = DefaultHard
      /\ DefaultSoft \in Nat /\ DefaultHard \in Nat
  BY TuningAssumption DEF DefaultFile
<1>2. CASE part = Garbage
  BY <1>2 DEF Contents
<1>3. CASE \E s \in 1..DefaultSoft \cup {DefaultSoft} :
             part = [soft |-> s, hard |-> Absent, fits |-> TRUE]
  BY <1>1, <1>3 DEF Contents, Files
<1>4. CASE \E h \in 1..DefaultHard : part = [soft |-> DefaultSoft, hard |-> h, fits |-> TRUE]
  BY <1>1, <1>4 DEF Contents, Files
<1> QED
  BY <1>1, <1>2, <1>3, <1>4 DEF CutShort

\* The thresholds of a backend are given one after the other, and come out as given.
LEMMA SetInOrder ==
  ASSUME NEW b \in InOrder
  PROVE  WithHard(WithSoft(Defaults, b.soft), b.hard) = b
BY TuningAssumption DEF InOrder, WithHard, WithSoft, Defaults, Thresholds, LargerOf

LEMMA InitTuning == TuningInit => TuningInv
BY TuningAssumption
   DEF TuningInit, TuningInv, Typed, Followed, Contents, Resting, UnderWay

----------------------------------------------------------------------------
\* What a call under way has in hand, step by step.
LEMMA InHand ==
  ASSUME Typed, NEW c \in Openers
  PROVE  /\ ~UnderWay(c) => opener[c] = Resting
         /\ IsAt(c, "path") =>
              opener[c] \in [at : {"path"}, what : Calls, from : Paths \cup {Absent},
                             read : InOrder \cup {Absent}]
         /\ opener[c].at \in Loading =>
              opener[c] \in [at : Loading, what : Calls, from : Paths, read : InOrder \cup {Absent}]
         /\ IsAt(c, "install") =>
              /\ opener[c] \in [at : {"install"}, what : Calls, from : Paths, read : InOrder]
              /\ opener[c].what.call # "load"
         /\ IsAt(c, "open") =>
              /\ opener[c] \in [at : {"open"}, what : Calls, from : Paths, read : InOrder]
              /\ opener[c].what.call \in {"open", "thresholds"}
         /\ IsAt(c, "write") => opener[c] \in Saving
BY DEF Typed, UnderWay, IsAt, Installing, Loading, Saving, Resting

\* A call that begins has its first step to take.
LEMMA BegunTyped ==
  ASSUME Typed, NEW c \in Openers, NEW what, NEW step,
         \/ step = "path" /\ what \in Calls
         \/ step = "write" /\ what \in Saves,
         Begin(c, step, what)
  PROVE  /\ opener' \in [Openers -> Installing \cup Saving \cup {Resting}]
         /\ opener'[c].at = step /\ opener[c].at = "rest"
         /\ \A d \in Openers \ {c} : opener'[d] = opener[d]
<1> DEFINE begun == [at |-> step, what |-> what, from |-> Absent, read |-> Absent]
<1>1. begun \in Installing \cup Saving
  BY DEF Installing, Saving
<1>2. opener' = [opener EXCEPT ![c] = begun] /\ opener[c].at = "rest"
  BY DEF Begin, UnderWay
<1>3. begun.at = step
  OBVIOUS
<1> HIDE DEF begun
<1> QED
  BY <1>1, <1>2, <1>3 DEF Typed

\* A call that ends leaves the others as they are.
LEMMA RestedTyped ==
  ASSUME Typed, NEW c \in Openers, Rest(c)
  PROVE  /\ opener' \in [Openers -> Installing \cup Saving \cup {Resting}]
         /\ opener'[c].at = "rest"
         /\ \A d \in Openers \ {c} : opener'[d] = opener[d]
BY DEF Typed, Rest, Resting

\* ReadPath takes the path in force.
LEMMA ReadPathStep ==
  ASSUME Typed, NEW c \in Openers, ReadPath(c)
  PROVE  /\ opener' \in [Openers -> Installing \cup Saving \cup {Resting}]
         /\ opener'[c].at = "load" /\ opener'[c].from = path
         /\ \A d \in Openers \ {c} : opener'[d] = opener[d]
<1>1. /\ opener'[c] = [opener[c] EXCEPT !.from = path, !.at = "load"]
      /\ opener' \in [Openers -> UNION {{opener'[d]} : d \in Openers}]
      /\ \A d \in Openers \ {c} : opener'[d] = opener[d]
  BY DEF ReadPath, Typed
<1>2. opener[c] \in [at : {"path"}, what : Calls, from : Paths \cup {Absent},
                     read : InOrder \cup {Absent}]
  BY InHand DEF ReadPath
<1>3. opener'[c] \in Installing /\ opener'[c].at = "load" /\ opener'[c].from = path
  BY <1>1, <1>2 DEF Installing, Loading, Typed
<1> QED
  BY <1>1, <1>3 DEF Typed

\* The steps that create a missing file keep the path the call has read.
Creates(c) == EnsureExists(c) \/ CreateFile(c) \/ FillFile(c)

LEMMA CreatesStep ==
  ASSUME Typed, NEW c \in Openers, Creates(c)
  PROVE  /\ files' \in [Paths -> Contents]
         /\ opener' \in [Openers -> Installing \cup Saving \cup {Resting}]
         /\ opener[c].at \in Loading /\ opener'[c].at \in Loading
         /\ opener'[c].from = opener[c].from
         /\ \A d \in Openers \ {c} : opener'[d] = opener[d]
         /\ UNCHANGED <<path, snapshot, opened>>
<1>1. opener[c].at \in Loading
  BY DEF Creates, EnsureExists, CreateFile, FillFile, IsAt, Loading
<1>2. opener[c] \in [at : Loading, what : Calls, from : Paths, read : InOrder \cup {Absent}]
  BY <1>1, InHand
<1>3. PICK step \in Loading : opener' = [opener EXCEPT ![c] = [opener[c] EXCEPT !.at = step]]
  BY DEF Creates, EnsureExists, CreateFile, FillFile, Goto, Loading, Typed
<1>4. /\ [opener[c] EXCEPT !.at = step] \in Installing
      /\ [opener[c] EXCEPT !.at = step].at = step
      /\ [opener[c] EXCEPT !.at = step].from = opener[c].from
  BY <1>2 DEF Installing
<1>5. /\ opener'[c] = [opener[c] EXCEPT !.at = step]
      /\ \A d \in Openers \ {c} : opener'[d] = opener[d]
      /\ opener' \in [Openers -> Installing \cup Saving \cup {Resting}]
  BY <1>3, <1>4 DEF Typed
<1>6. /\ DefaultFile \in Contents
      /\ CutShort(DefaultFile) \subseteq Contents
  BY FilesTyped, DefaultCutShort
<1>7. files' \in [Paths -> Contents]
  <2>1. \/ files' = files
        \/ \E part \in Contents : files' = [files EXCEPT ![opener[c].from] = part]
    BY <1>6 DEF Creates, EnsureExists, CreateFile, FillFile
  <2> QED
    BY <1>2, <2>1 DEF Typed
<1>8. UNCHANGED <<path, snapshot, opened>>
  BY DEF Creates, EnsureExists, CreateFile, FillFile
<1> QED
  BY <1>1, <1>4, <1>5, <1>7, <1>8

\* LoadFile: what is read is what the file says.
LEMMA LoadFileStep ==
  ASSUME Typed, NEW c \in Openers, LoadFile(c)
  PROVE  /\ files' = files
         /\ opener[c].at \in Loading
         /\ opener' \in [Openers -> Installing \cup Saving \cup {Resting}]
         /\ \/ opener'[c].at = "rest"
            \/ opener'[c].at = "install" /\ opener'[c].read = Says(files'[opener[c].from])
         /\ \A d \in Openers \ {c} : opener'[d] = opener[d]
<1> DEFINE file == opener[c].from
           read == LoadedTuning(files'[file])
<1>1. /\ opener[c].at \in Loading
      /\ opener[c] \in [at : Loading, what : Calls, from : Paths, read : InOrder \cup {Absent}]
  BY InHand DEF LoadFile, IsAt, Loading
<1>2. file \in Paths
  BY <1>1
<1>3. files' = files /\ files' \in [Paths -> Contents]
  BY DEF LoadFile, Typed
<1>4. read \in InOrder /\ Says(files'[file]) = read
  BY <1>2, <1>3, LoadedInOrder
<1>5. CASE opener[c].what.call = "load"
  BY <1>1, <1>3, <1>5 DEF LoadFile, Typed, Resting
<1>6. CASE opener[c].what.call # "load"
  <2>1. opener' = [opener EXCEPT ![c] = [opener[c] EXCEPT !.read = read, !.at = "install"]]
    BY <1>3, <1>6 DEF LoadFile, Typed
  <2> HIDE DEF read, file
  <2>2. /\ [opener[c] EXCEPT !.read = read, !.at = "install"] \in Installing
        /\ [opener[c] EXCEPT !.read = read, !.at = "install"].at = "install"
        /\ [opener[c] EXCEPT !.read = read, !.at = "install"].read = read
    BY <1>1, <1>4, <1>6 DEF Installing
  <2>3. /\ opener'[c] = [opener[c] EXCEPT !.read = read, !.at = "install"]
        /\ \A d \in Openers \ {c} : opener'[d] = opener[d]
        /\ opener' \in [Openers -> Installing \cup Saving \cup {Resting}]
    BY <2>1, <2>2 DEF Typed
  <2>4. opener'[c].at = "install" /\ opener'[c].read = Says(files'[file])
    BY <1>4, <2>2, <2>3
  <2> QED
    BY <1>1, <1>3, <2>3, <2>4 DEF file
<1> QED
  BY <1>5, <1>6

\* Install: what was read is the snapshot, and ensure_config_file loads once more.
LEMMA InstallStep ==
  ASSUME Typed, NEW c \in Openers, Install(c)
  PROVE  /\ snapshot' \in InOrder /\ snapshot' = opener[c].read
         /\ opener' \in [Openers -> Installing \cup Saving \cup {Resting}]
         /\ opener'[c].at \in {"rest", "path", "open"}
         /\ \A d \in Openers \ {c} : opener'[d] = opener[d]
<1>1. /\ opener[c] \in [at : {"install"}, what : Calls, from : Paths, read : InOrder]
      /\ opener[c].what.call # "load"
  BY InHand DEF Install
<1>2. snapshot' \in InOrder /\ snapshot' = opener[c].read
  BY <1>1 DEF Install
<1>3. CASE opener[c].what.call = "path"
  BY <1>2, <1>3, RestedTyped DEF Install
<1>4. CASE opener[c].what.call = "ensure"
  <2> DEFINE again == [opener[c] EXCEPT !.what.call = "load", !.at = "path"]
  <2>1. opener' = [opener EXCEPT ![c] = again]
    BY <1>4 DEF Install, Typed
  <2>2. opener[c].what \in [call : {"ensure"}]
    BY <1>1, <1>4 DEF Calls
  <2>3. [opener[c].what EXCEPT !.call = "load"] \in Calls
    BY <2>2 DEF Calls
  <2>4. again = [[opener[c] EXCEPT !.what = [opener[c].what EXCEPT !.call = "load"]]
                   EXCEPT !.at = "path"]
    OBVIOUS
  <2>5. again \in Installing /\ again.at = "path"
    BY <1>1, <2>3, <2>4 DEF Installing
  <2> QED
    BY <1>2, <2>1, <2>5 DEF Typed
<1>5. CASE opener[c].what.call \in {"open", "thresholds"}
  <2> DEFINE on == [opener[c] EXCEPT !.at = "open"]
  <2>1. opener' = [opener EXCEPT ![c] = on]
    BY <1>5 DEF Install, Goto, Typed
  <2>2. on \in Installing /\ on.at = "open"
    BY <1>1, <1>5 DEF Installing
  <2> QED
    BY <1>2, <2>1, <2>2 DEF Typed
<1> QED
  BY <1>1, <1>3, <1>4, <1>5 DEF Calls

\* OpenBackend: a call that is given thresholds has those, and one that is not the snapshot's.
LEMMA OpenBackendStep ==
  ASSUME Typed, NEW c \in Openers, OpenBackend(c)
  PROVE  /\ opened' \in [Openers -> InOrder \cup {Absent}]
         /\ \A d \in Openers \ {c} : opened'[d] = opened[d]
         /\ opened'[c] # opened[c] =>
              /\ opened'[c] \in InOrder
              /\ opener[c].what.call = "thresholds" =>
                   opened'[c] = Thresholds(opener[c].what.soft, opener[c].what.hard)
              /\ opener[c].what.call = "open" => opened'[c] = CurrentTuning
<1>1. /\ opener[c] \in [at : {"open"}, what : Calls, from : Paths, read : InOrder]
      /\ opener[c].what.call \in {"open", "thresholds"}
  BY InHand DEF OpenBackend
<1>2. CASE opener[c].what.call = "open"
  <2>1. opened' = [opened EXCEPT ![c] = CurrentTuning]
    BY <1>2, CurrentInOrder, SetInOrder DEF OpenBackend
  <2> QED
    BY <1>2, <2>1, CurrentInOrder DEF Typed
<1>3. CASE opener[c].what.call = "thresholds" /\ ~Refused(opener[c].what)
  <2>1. opener[c].what \in [call : {"thresholds"}, soft : Nat, hard : Nat]
    BY <1>1, <1>3 DEF Calls
  <2> DEFINE stated == Thresholds(opener[c].what.soft, opener[c].what.hard)
  <2>2. /\ stated \in InOrder
        /\ stated.soft = opener[c].what.soft /\ stated.hard = opener[c].what.hard
    BY <1>3, <2>1 DEF Refused, Thresholds, InOrder
  <2> HIDE DEF stated
  <2>3. opened' = [opened EXCEPT ![c] = stated]
    BY <1>3, <2>2, SetInOrder DEF OpenBackend
  <2>4. /\ opened' \in [Openers -> InOrder \cup {Absent}] /\ opened'[c] = stated
        /\ \A d \in Openers \ {c} : opened'[d] = opened[d]
    BY <2>2, <2>3 DEF Typed
  <2> QED
    BY <1>3, <2>2, <2>4 DEF stated
<1>4. CASE opener[c].what.call = "thresholds" /\ Refused(opener[c].what)
  BY <1>4 DEF OpenBackend, Typed
<1> QED
  BY <1>1, <1>2, <1>3, <1>4

----------------------------------------------------------------------------
\* A call that begins to install, or to save.
Begins(c) ==
  SetConfigPath(c) \/ EnsureConfigFile(c) \/ Open(c) \/ OpenWithSoft(c) \/ OpenWithBoth(c)

LEMMA BeginsStep ==
  ASSUME Typed, NEW c \in Openers, Begins(c)
  PROVE  /\ opener' \in [Openers -> Installing \cup Saving \cup {Resting}]
         /\ opener[c].at = "rest" /\ opener'[c].at = "path"
         /\ \A d \in Openers \ {c} : opener'[d] = opener[d]
         /\ path' \in Paths
         /\ UNCHANGED <<files, snapshot, opened>>
<1>1. CASE SetConfigPath(c)
  <2>1. [call |-> "path"] \in Calls
    BY DEF Calls
  <2> QED
    BY <1>1, <2>1, BegunTyped DEF SetConfigPath
<1>2. CASE EnsureConfigFile(c)
  <2>1. [call |-> "ensure"] \in Calls
    BY DEF Calls
  <2> QED
    BY <1>2, <2>1, BegunTyped DEF EnsureConfigFile, Typed
<1>3. CASE Open(c)
  <2>1. [call |-> "open"] \in Calls
    BY DEF Calls
  <2> QED
    BY <1>3, <2>1, BegunTyped DEF Open, Typed
<1>4. CASE OpenWithSoft(c)
  <2>1. PICK soft \in Softs :
          Begin(c, "path", [call |-> "thresholds", soft |-> soft,
                            hard |-> LargerOf(CurrentTuning.hard, soft)])
    BY <1>4 DEF OpenWithSoft
  <2>2. soft \in Nat /\ LargerOf(CurrentTuning.hard, soft) \in Nat
    BY TuningAssumption, CurrentInOrder DEF InOrder, LargerOf
  <2>3. [call |-> "thresholds", soft |-> soft, hard |-> LargerOf(CurrentTuning.hard, soft)]
          \in Calls
    BY <2>2 DEF Calls
  <2>4. UNCHANGED <<files, path, snapshot, opened>>
    BY <1>4 DEF OpenWithSoft
  <2> QED
    BY <2>1, <2>3, <2>4, BegunTyped DEF Typed
<1>5. CASE OpenWithBoth(c)
  <2>1. PICK soft \in Softs, hard \in Hards :
          Begin(c, "path", [call |-> "thresholds", soft |-> soft, hard |-> hard])
    BY <1>5 DEF OpenWithBoth
  <2>2. [call |-> "thresholds", soft |-> soft, hard |-> hard] \in Calls
    BY TuningAssumption DEF Calls
  <2>3. UNCHANGED <<files, path, snapshot, opened>>
    BY <1>5 DEF OpenWithBoth
  <2> QED
    BY <2>1, <2>2, <2>3, BegunTyped DEF Typed
<1> QED
  BY <1>1, <1>2, <1>3, <1>4, <1>5 DEF Begins

\* A save leaves a file cut short, and then the whole of it or what was there.
LEMMA SaveStep ==
  ASSUME Typed, NEW c \in Openers, Save(c) \/ Write(c)
  PROVE  /\ opener' \in [Openers -> Installing \cup Saving \cup {Resting}]
         /\ opener'[c].at \in {"rest", "write"}
         /\ \A d \in Openers \ {c} : opener'[d] = opener[d]
         /\ files' \in [Paths -> Contents]
         /\ UNCHANGED <<path, snapshot, opened>>
<1>1. CASE Save(c)
  <2>1. PICK p \in Paths, file \in {f \in Parameters : Valid(f)} :
          /\ Begin(c, "write", [call |-> "save", path |-> p, file |-> file])
          /\ files' \in {[files EXCEPT ![p] = part] : part \in CutShort(file)}
    BY <1>1 DEF Save
  <2>2. [call |-> "save", path |-> p, file |-> file] \in Saves
    BY FilesTyped DEF Saves
  <2>3. files' \in [Paths -> Contents]
    BY <2>1, FilesTyped DEF Typed
  <2>4. UNCHANGED <<path, snapshot, opened>>
    BY <1>1 DEF Save
  <2> QED
    BY <2>1, <2>2, <2>3, <2>4, BegunTyped
<1>2. CASE Write(c)
  <2>1. opener[c].what \in Saves
    BY <1>2, InHand DEF Write, Saving
  <2>2. files' \in [Paths -> Contents]
    BY <1>2, <2>1 DEF Write, Saves, Typed, Contents
  <2> QED
    BY <1>2, <2>2, RestedTyped DEF Write
<1> QED
  BY <1>1, <1>2

\* No step leaves the files, a snapshot, a call or a backend out of order.
LEMMA TypedStep ==
  ASSUME Typed, TuningNext
  PROVE  Typed'
<1>1. ASSUME NEW c \in Openers, Begins(c)
      PROVE  Typed'
  BY <1>1, BeginsStep DEF Typed
<1>2. ASSUME NEW c \in Openers, Reconfigure(c)
      PROVE  Typed'
  <2>1. PICK soft \in Softs, hard \in Hards :
          opened' = [opened EXCEPT ![c] = Reconfigured(soft, hard)]
    BY <1>2 DEF Reconfigure
  <2>2. Reconfigured(soft, hard) \in InOrder
    BY TuningAssumption DEF Reconfigured, Thresholds, LargerOf, InOrder
  <2>3. UNCHANGED <<files, path, snapshot, opener>>
    BY <1>2 DEF Reconfigure
  <2> QED
    BY <2>1, <2>2, <2>3 DEF Typed
<1>3. ASSUME NEW c \in Openers, ReadPath(c)
      PROVE  Typed'
  BY <1>3, ReadPathStep DEF Typed, ReadPath
<1>4. ASSUME NEW c \in Openers, LoadFile(c)
      PROVE  Typed'
  BY <1>4, LoadFileStep DEF Typed, LoadFile
<1>10. ASSUME NEW c \in Openers, Creates(c)
       PROVE  Typed'
  BY <1>10, CreatesStep DEF Typed
<1>5. ASSUME NEW c \in Openers, Install(c)
      PROVE  Typed'
  BY <1>5, InstallStep DEF Typed, Install
<1>6. ASSUME NEW c \in Openers, OpenBackend(c)
      PROVE  Typed'
  BY <1>6, OpenBackendStep, RestedTyped DEF Typed, OpenBackend
<1>7. ASSUME NEW c \in Openers, Save(c) \/ Write(c)
      PROVE  Typed'
  BY <1>7, SaveStep DEF Typed
<1>8. CASE Edit
  <2>1. PICK p \in Paths, content \in Parameters \cup {Garbage, Absent} :
          files' = [files EXCEPT ![p] = content]
    BY <1>8 DEF Edit
  <2>2. content \in Contents
    BY FilesTyped DEF Contents
  <2> QED
    BY <1>8, <2>1, <2>2 DEF Edit, Typed
<1>9. CASE Restart
  BY <1>9, TuningAssumption DEF Restart, Typed
<1> QED
  BY <1>1, <1>2, <1>3, <1>4, <1>5, <1>6, <1>7, <1>8, <1>9, <1>10
     DEF TuningNext, Begins, Creates

\* What a call has in hand still is what the file in force said, when nobody else installs.
LEMMA FollowedStep ==
  ASSUME Typed, Followed, TuningNext
  PROVE  Followed'
<1> SUFFICES ASSUME NEW c \in Openers, alone'[c], opener'[c].at # "rest"
             PROVE  /\ \A d \in Openers \ {c} : opener'[d].at \in {"rest", "write"}
                    /\ opener'[c].at \in Loading => opener'[c].from = path'
                    /\ opener'[c].at = "install" => opener'[c].read \in said'[c]
                    /\ opener'[c].at = "open" => snapshot' \in said'[c] /\ snapshot' # Absent
  BY DEF Followed, UnderWay, IsAt
<1>1. alone[c] /\ \A d \in Openers \ {c} : opener'[d].at \in {"rest", "write"}
  BY DEF TuningNext, Alone
<1>2. said'[c] = said[c] \cup {Says(files[path]), Says(files'[path'])}
  BY DEF TuningNext
<1>3. UnderWay(c) =>
        /\ \A d \in Openers \ {c} : opener[d].at \in {"rest", "write"}
        /\ opener[c].at \in Loading => opener[c].from = path
        /\ IsAt(c, "install") => opener[c].read \in said[c]
        /\ IsAt(c, "open") => snapshot \in said[c] /\ snapshot # Absent
  BY <1>1 DEF Followed
\* A step of another call, or of the user's editor.
<1>4. ASSUME opener'[c] = opener[c], UNCHANGED <<path, snapshot>>
      PROVE  /\ opener'[c].at \in Loading => opener'[c].from = path'
             /\ opener'[c].at = "install" => opener'[c].read \in said'[c]
             /\ opener'[c].at = "open" => snapshot' \in said'[c] /\ snapshot' # Absent
  BY <1>2, <1>3, <1>4 DEF UnderWay, IsAt, Loading
<1>5. ASSUME NEW d \in Openers, Begins(d)
      PROVE  d = c /\ opener'[c].at = "path"
  BY <1>1, <1>5, BeginsStep
<1>6. ASSUME NEW d \in Openers, Reconfigure(d)
      PROVE  opener'[c] = opener[c] /\ UNCHANGED <<path, snapshot>>
  BY <1>6 DEF Reconfigure
\* Only this call may be at a step that installs.
<1>7. ASSUME NEW d \in Openers, opener[d].at \in Loading \cup {"install"},
             opener'[c].at # "rest", d # c => opener'[c] = opener[c]
      PROVE  d = c
  BY <1>3, <1>7 DEF UnderWay, Loading
<1>8. ASSUME NEW d \in Openers, ReadPath(d)
      PROVE  d = c /\ opener'[c].at = "load" /\ opener'[c].from = path'
  BY <1>1, <1>8, ReadPathStep DEF ReadPath
<1>9. ASSUME NEW d \in Openers, LoadFile(d)
      PROVE  d = c /\ opener'[c].at = "install" /\ opener'[c].read \in said'[c]
  <2>1. d = c
    BY <1>7, <1>9, LoadFileStep
  <2>2. opener[c].from = path /\ path' = path
    BY <1>3, <1>9, <2>1, LoadFileStep DEF LoadFile, UnderWay, Loading
  <2> QED
    BY <1>2, <1>9, <2>1, <2>2, LoadFileStep
<1>10. ASSUME NEW d \in Openers, Install(d)
       PROVE  /\ d = c /\ opener'[c].at \in {"path", "open"}
              /\ snapshot' \in said'[c] /\ snapshot' # Absent
  <2>1. d = c
    BY <1>7, <1>10, InstallStep DEF Install, IsAt
  <2>2. opener[c].read \in said[c]
    BY <1>3, <1>10, <2>1 DEF Install, IsAt, UnderWay
  <2>3. snapshot' # Absent
    BY <1>10, InstallStep, TuningAssumption DEF InOrder
  <2> QED
    BY <1>2, <1>10, <2>1, <2>2, <2>3, InstallStep
<1>11. ASSUME NEW d \in Openers, OpenBackend(d)
       PROVE  opener'[c] = opener[c] /\ UNCHANGED <<path, snapshot>>
  BY <1>11, RestedTyped DEF OpenBackend
<1>12. ASSUME NEW d \in Openers, Save(d) \/ Write(d)
       PROVE  UNCHANGED <<path, snapshot>> /\ (opener'[c] = opener[c] \/ opener'[c].at = "write")
  BY <1>12, SaveStep
<1>13. ASSUME Edit
       PROVE  opener'[c] = opener[c] /\ UNCHANGED <<path, snapshot>>
  BY <1>13 DEF Edit
<1>14. ~Restart
  BY DEF Restart, Resting
<1>15. ASSUME NEW d \in Openers, Creates(d)
       PROVE  d = c /\ opener'[c].at \in Loading /\ opener'[c].from = path'
  <2>1. d = c
    BY <1>7, <1>15, CreatesStep
  <2> QED
    BY <1>3, <1>15, <2>1, CreatesStep DEF UnderWay, Loading
<1> QED
  BY <1>1, <1>4, <1>5, <1>6, <1>8, <1>9, <1>10, <1>11, <1>12, <1>13, <1>14, <1>15
     DEF TuningNext, Begins, Creates, Loading

LEMMA TuningStutters ==
  ASSUME TuningInv, UNCHANGED tuningVars
  PROVE  TuningInv'
<1>1. Typed'
  BY DEF TuningInv, Typed, tuningVars
<1>2. Followed'
  BY DEF TuningInv, Followed, UnderWay, IsAt, tuningVars
<1> QED
  BY <1>1, <1>2 DEF TuningInv

\* At every step, thresholds are in order wherever they are kept, and a call that nobody
\* installs beside has in hand what the file in force said while it ran.
THEOREM ThresholdsInHand == TuningSpec => []TuningInv
<1>1. TuningInv /\ [TuningNext]_tuningVars => TuningInv'
  BY TypedStep, FollowedStep, TuningStutters DEF TuningInv
<1> QED
  BY <1>1, InitTuning, PTL DEF TuningSpec

\* The thresholds of every backend that is opened or reconfigured are in order, are the
\* ones a caller gave, and otherwise are what the file in force said while it was opened.
THEOREM ThresholdsFollow == TuningSpec => ThresholdsFollowFile
<1> DEFINE Followed1(c) ==
      opened'[c] \notin {opened[c], Absent} =>
        LET b == opened'[c]
            what == opener[c].what
        IN /\ 1 <= b.soft /\ b.soft <= b.hard
           /\ UnderWay(c) /\ what.call = "thresholds" => b = Thresholds(what.soft, what.hard)
           /\ UnderWay(c) /\ what.call = "open" /\ alone[c] => b \in said[c]
<1>1. ASSUME TuningInv, TuningNext, NEW c \in Openers
      PROVE  Followed1(c)
  <2> SUFFICES ASSUME opened'[c] \notin {opened[c], Absent}
               PROVE  Followed1(c)
    OBVIOUS
  <2> USE DEF TuningInv
  <2>1. Typed' /\ opened'[c] \in InOrder
    <3>1. Typed'
      BY <1>1, TypedStep
    <3> QED
      BY <3>1 DEF Typed
  <2>2. CASE \E d \in Openers : Reconfigure(d)
    <3>1. ~UnderWay(c)
      BY <1>1, <2>2 DEF Reconfigure, Typed
    <3> QED
      BY <2>1, <3>1 DEF InOrder
  <2>3. CASE \E d \in Openers : OpenBackend(d)
    <3>1. OpenBackend(c)
      BY <1>1, <2>3, OpenBackendStep
    <3>2. alone[c] => CurrentTuning \in said[c]
      BY <1>1, <3>1 DEF Followed, OpenBackend, UnderWay, IsAt, CurrentTuning
    <3> QED
      BY <1>1, <2>1, <3>1, <3>2, OpenBackendStep DEF InOrder
  <2> QED
    <3>1. ASSUME NEW d \in Openers, Begins(d) \/ Save(d) \/ Write(d)
          PROVE  opened' = opened
      BY <1>1, <3>1, BeginsStep, SaveStep
    <3>2. ASSUME NEW d \in Openers, ReadPath(d) \/ Creates(d) \/ LoadFile(d) \/ Install(d)
          PROVE  opened' = opened
      BY <3>2, CreatesStep, <1>1 DEF ReadPath, LoadFile, Install
    <3>3. Edit => opened' = opened
      BY DEF Edit
    <3>4. ~Restart
      BY DEF Restart
    <3> QED
      BY <1>1, <2>2, <2>3, <3>1, <3>2, <3>3, <3>4 DEF TuningNext, Begins, Creates
<1>2. ASSUME UNCHANGED tuningVars, NEW c \in Openers
      PROVE  Followed1(c)
  BY <1>2 DEF tuningVars
<1>3. TuningInv /\ [TuningNext]_tuningVars => \A c \in Openers : Followed1(c)
  BY <1>1, <1>2
<1> QED
  BY <1>3, ThresholdsInHand, PTL DEF TuningSpec, ThresholdsFollowFile

\* The thresholds and the observation files are driven in Fitting as they are on their own,
\* so what is proved of each alone holds there.
THEOREM DrivenAsAlone == FittingSpec => TuningSpec /\ ObsSpec
<1>1. FittingInit => TuningInit /\ ObsInit
  BY DEF FittingInit
<1>2. [FittingNext]_vars => [TuningNext]_tuningVars /\ [ObsNext]_obsVars
  <2> SUFFICES ASSUME [FittingNext]_vars
               PROVE  [TuningNext]_tuningVars /\ [ObsNext]_obsVars
    OBVIOUS
  <2>1. CASE TuningNext /\ UNCHANGED obsVars
    BY <2>1
  <2>2. CASE ObsNext /\ UNCHANGED tuningVars
    BY <2>2
  <2>3. CASE UNCHANGED <<obsVars, tuningVars>>
    BY <2>3
  <2> QED
    BY <2>1, <2>2, <2>3 DEF FittingNext, vars
<1> QED
  BY <1>1, <1>2, PTL DEF FittingSpec, TuningSpec, ObsSpec

----------------------------------------------------------------------------
(* The row reservoir.                                                      *)
(*                                                                         *)
(* A set of rows without the new one is led to by the sequences that led   *)
(* to it before, with a draw at or behind the capacity after them.  A set  *)
(* with the new row is led to by those that led to any of the sets it may  *)
(* have come from, with the one draw that hits the row it lost.  Both are  *)
(* seen - size + 1 times as many as led to one set (ReplacedUniform).     *)

\* Disjoint sets with c elements each, one for every element of X, and G their union.
Parted(G, X, F, c) ==
  /\ \A g : g \in G <=> \E x \in X : g \in F[x]
  /\ \A x \in X : IsFiniteSet(F[x]) /\ Cardinality(F[x]) = c
  /\ \A x, y \in X : x # y => F[x] \cap F[y] = {}

LEMMA EqualParts ==
  ASSUME NEW X, IsFiniteSet(X), NEW c \in Nat, NEW F, NEW G,
         Parted(G, X, F, c)
  PROVE  IsFiniteSet(G) /\ Cardinality(G) = Cardinality(X) * c
<1> DEFINE counted == [x \in X |-> CHOOSE b : b \in Bijection(1..c, F[x])]
           all == [e \in X \X (1..c) |-> counted[e[1]][e[2]]]
<1> USE DEF Parted
<1>1. ASSUME NEW x \in X
      PROVE  counted[x] \in Bijection(1..c, F[x])
  <2>1. ExistsBijection(1..c, F[x])
    BY FS_CardinalityType
  <2> QED
    BY <2>1 DEF ExistsBijection
<1>2. ASSUME NEW x \in X
      PROVE  /\ counted[x] \in [1..c -> F[x]]
             /\ \A i, j \in 1..c : counted[x][i] = counted[x][j] => i = j
             /\ \A g \in F[x] : \E i \in 1..c : counted[x][i] = g
  <2> DEFINE b == counted[x]
  <2>1. b \in Bijection(1..c, F[x])
    BY <1>1
  <2> HIDE DEF b
  <2>2. b \in Injection(1..c, F[x]) /\ b \in Surjection(1..c, F[x])
    BY <2>1 DEF Bijection
  <2>3. /\ b \in [1..c -> F[x]]
        /\ \A i, j \in 1..c : b[i] = b[j] => i = j
        /\ \A g \in F[x] : \E i \in 1..c : b[i] = g
    BY <2>2 DEF Injection, Surjection, IsInjective
  <2> QED
    BY <2>3 DEF b
<1> HIDE DEF counted
<1>3. all \in [X \X (1..c) -> G]
  <2> SUFFICES ASSUME NEW e \in X \X (1..c)
               PROVE  counted[e[1]][e[2]] \in G
    OBVIOUS
  <2>1. e[1] \in X /\ e[2] \in 1..c
    OBVIOUS
  <2> QED
    BY <2>1, <1>2
<1>4. ASSUME NEW e \in X \X (1..c), NEW f \in X \X (1..c), all[e] = all[f]
      PROVE  e = f
  <2>1. e = <<e[1], e[2]>> /\ f = <<f[1], f[2]>> /\ e[1] \in X /\ f[1] \in X
        /\ e[2] \in 1..c /\ f[2] \in 1..c
    OBVIOUS
  <2>2. counted[e[1]][e[2]] = counted[f[1]][f[2]]
    BY <1>4
  <2>3. counted[e[1]][e[2]] \in F[e[1]] /\ counted[f[1]][f[2]] \in F[f[1]]
    <3>1. counted[e[1]] \in [1..c -> F[e[1]]] /\ counted[f[1]] \in [1..c -> F[f[1]]]
      BY <2>1, <1>2
    <3> QED
      BY <2>1, <3>1
  <2>4. e[1] = f[1]
    BY <2>1, <2>2, <2>3
  <2> QED
    BY <2>1, <2>2, <2>4, <1>2
<1>5. ASSUME NEW g \in G
      PROVE  \E e \in X \X (1..c) : all[e] = g
  <2>1. PICK x \in X : g \in F[x]
    OBVIOUS
  <2>2. PICK i \in 1..c : counted[x][i] = g
    BY <2>1, <1>2
  <2>3. <<x, i>> \in X \X (1..c) /\ all[<<x, i>>] = g
    BY <2>2
  <2> QED
    BY <2>3
<1>6. all \in Bijection(X \X (1..c), G)
  <2> HIDE DEF all
  <2> QED
    BY <1>3, <1>4, <1>5, Fun_IsBij
<1>7. /\ IsFiniteSet(X \X (1..c))
      /\ Cardinality(X \X (1..c)) = Cardinality(X) * c
  <2> DEFINE K == 1..c
  <2>1. IsFiniteSet(K) /\ Cardinality(K) = c
    BY FS_Interval
  <2> HIDE DEF K
  <2>2. IsFiniteSet(X \X K) /\ Cardinality(X \X K) = Cardinality(X) * Cardinality(K)
    BY <2>1, FS_Product
  <2> QED
    BY <2>1, <2>2 DEF K
<1> QED
  BY <1>6, <1>7, FS_Bijection DEF ExistsBijection

\* Slots that hold a row each, of those seen.
Held(s, size, seen) ==
  /\ s \in Seq(1..seen) /\ Len(s) = size
  /\ \A i, j \in 1..size : s[i] = s[j] => i = j

Leading(ps, S) == {p \in ps : ToSet(p.slots) = S}

\* Every set of the size is reached by as many of ps as every other.
Uniform(ps, size, seen) ==
  \E c \in Nat \ {0} : \A S \in SUBSET (1..seen) :
    Cardinality(S) = size => Cardinality(Leading(ps, S)) = c

Drawn(ps) == \A p, q \in ps : p.drawn = q.drawn => p = q

\* Every sequence of ps, with one more draw of K after it, which places row n + 1.
Branched(qs, ps, K, n, capacity) ==
  qs = {[drawn |-> <<p.drawn, d>>, slots |-> Placed(p.slots, n + 1, d, capacity)] :
          p \in ps, d \in K}

\* The slots after a draw.
LEMMA PlacedFacts ==
  ASSUME NEW n \in Nat, NEW size \in Nat \ {0}, NEW s, Held(s, size, n), NEW d \in 0..n
  PROVE  LET t == Placed(s, n + 1, d, size)
         IN  /\ Held(t, size, n + 1)
             /\ d >= size => t = s
             /\ d < size => /\ t[d + 1] = n + 1
                            /\ \A i \in (1..size) \ {d + 1} : t[i] = s[i]
<1> DEFINE t == Placed(s, n + 1, d, size)
<1>1. CASE d >= size
  BY <1>1 DEF Placed, Held
<1>2. CASE d < size
  <2>1. t = [s EXCEPT ![d + 1] = n + 1]
    BY <1>2 DEF Placed, Held
  <2>2. s \in [1..size -> 1..n]
    BY DEF Held
  <2>4. \A i \in 1..size : s[i] \in 1..n
    BY <2>2
  <2>3. /\ t \in [1..size -> 1..(n + 1)] /\ t[d + 1] = n + 1
        /\ \A i \in (1..size) \ {d + 1} : t[i] = s[i]
    <3> DEFINE hit == d + 1
    <3>1. hit \in 1..size
      BY <1>2
    <3>2. n + 1 \in 1..(n + 1) /\ 1..n \subseteq 1..(n + 1)
      OBVIOUS
    <3>3. t = [s EXCEPT ![hit] = n + 1]
      BY <2>1
    <3> HIDE DEF hit, t
    <3>4. t \in [1..size -> 1..(n + 1)] /\ t[hit] = n + 1
      BY <2>2, <2>4, <3>1, <3>2, <3>3
    <3>5. \A i \in (1..size) \ {hit} : t[i] = s[i]
      BY <2>2, <3>1, <3>3
    <3> QED
      BY <3>4, <3>5 DEF hit
  <2> HIDE DEF t
  <2>5. t \in Seq(1..(n + 1)) /\ Len(t) = size
    BY <2>3
  <2>6. ASSUME NEW i \in 1..size, NEW j \in 1..size, t[i] = t[j]
        PROVE  i = j
    <3>1. s[i] # n + 1 /\ s[j] # n + 1
      BY <2>4
    <3>2. s[i] = s[j] => i = j
      BY DEF Held
    <3>3. (i = d + 1 \/ t[i] = s[i]) /\ (j = d + 1 \/ t[j] = s[j])
      BY <2>3
    <3> QED
      BY <2>3, <2>6, <3>1, <3>2, <3>3
  <2> QED
    BY <1>2, <2>3, <2>5, <2>6 DEF Held, t
<1> QED
  BY <1>1, <1>2

\* The rows that slots hold.
Filled(s, size) == \A row : row \in ToSet(s) <=> \E i \in 1..size : s[i] = row

LEMMA HeldFacts ==
  ASSUME NEW s, NEW size \in Nat, NEW m \in Nat, Held(s, size, m)
  PROVE  Filled(s, size) /\ \A i \in 1..size : s[i] \in 1..m
<1>1. s \in Seq(1..m) /\ Len(s) = size
  BY DEF Held
<1>2. DOMAIN s = 1..size /\ \A i \in 1..size : s[i] \in 1..m
  BY <1>1
<1> QED
  BY <1>2 DEF Filled, ToSet

\* Algorithm R: a uniform draw keeps a uniform sample uniform.
LEMMA ReplacedUniform ==
  ASSUME NEW ps, IsFiniteSet(ps), Drawn(ps), NEW n \in Nat, NEW size \in Nat \ {0}, size <= n,
         \A p \in ps : Held(p.slots, size, n), Uniform(ps, size, n),
         NEW qs, Branched(qs, ps, 0..n, n, size)
  PROVE  Uniform(qs, size, n + 1)
<1> USE DEF Branched
<1> DEFINE after(p, d) == [drawn |-> <<p.drawn, d>>, slots |-> Placed(p.slots, n + 1, d, size)]
<1>1. PICK c \in Nat \ {0} : \A S \in SUBSET (1..n) :
        Cardinality(S) = size => Cardinality(Leading(ps, S)) = c
  BY DEF Uniform
<1>2. ASSUME NEW p \in ps, NEW e \in ps, NEW d \in 0..n, NEW f \in 0..n, after(p, d) = after(e, f)
      PROVE  p = e /\ d = f
  BY <1>2 DEF Drawn
<1>3. ASSUME NEW p \in ps, NEW d \in 0..n
      PROVE  /\ after(p, d) \in qs
             /\ Held(after(p, d).slots, size, n + 1)
             /\ d >= size => after(p, d).slots = p.slots
             /\ d < size =>
                  /\ after(p, d).slots[d + 1] = n + 1
                  /\ \A i \in (1..size) \ {d + 1} : after(p, d).slots[i] = p.slots[i]
  <2> DEFINE t == Placed(p.slots, n + 1, d, size)
  <2>1. after(p, d).slots = t /\ Held(p.slots, size, n)
    OBVIOUS
  <2>2. /\ Held(t, size, n + 1)
        /\ d >= size => t = p.slots
        /\ d < size => /\ t[d + 1] = n + 1
                       /\ \A i \in (1..size) \ {d + 1} : t[i] = p.slots[i]
    BY <2>1, PlacedFacts
  <2>3. after(p, d) \in qs
    OBVIOUS
  <2> HIDE DEF t, after
  <2> QED
    BY <2>1, <2>2, <2>3
<1>4. \A q \in qs : \E p \in ps, d \in 0..n : q = after(p, d)
  OBVIOUS
<1> HIDE DEF after
<1>5. \A S : IsFiniteSet(Leading(ps, S))
  BY FS_Subset DEF Leading
<1>6. ASSUME NEW p \in ps
      PROVE  /\ Filled(p.slots, size)
             /\ \A i \in 1..size : p.slots[i] \in 1..n
  BY HeldFacts
<1>10. ASSUME NEW p \in ps, NEW d \in 0..n
      PROVE  Filled(after(p, d).slots, size)
  <2> DEFINE s == after(p, d).slots
             more == n + 1
  <2>1. Held(s, size, more)
    BY <1>3
  <2>2. more \in Nat
    OBVIOUS
  <2> HIDE DEF s, more
  <2>3. Filled(s, size)
    BY <2>1, <2>2, HeldFacts
  <2> QED
    BY <2>3 DEF s
<1> SUFFICES ASSUME NEW T \in SUBSET (1..(n + 1)), Cardinality(T) = size
             PROVE  Cardinality(Leading(qs, T)) = (n - size + 1) * c
  <2>1. (n - size + 1) * c \in Nat \ {0}
    OBVIOUS
  <2> QED
    BY <2>1 DEF Uniform
<1>9. IsFiniteSet(1..n) /\ Cardinality(1..n) = n
  BY FS_Interval
<1>7. CASE n + 1 \notin T
  <2>1. T \in SUBSET (1..n)
    BY <1>7
  <2> DEFINE from == Leading(ps, T) \X (size..n)
             next == [e \in from |-> after(e[1], e[2])]
  <2>2. IsFiniteSet(from) /\ Cardinality(from) = (n - size + 1) * c
    <3> DEFINE K == size..n
               P == Leading(ps, T)
    <3>1. IsFiniteSet(K) /\ Cardinality(K) = n - size + 1
      BY FS_Interval
    <3>2. IsFiniteSet(P) /\ Cardinality(P) = c
      BY <1>1, <1>5, <2>1
    <3> HIDE DEF K, P
    <3>3. IsFiniteSet(P \X K) /\ Cardinality(P \X K) = Cardinality(P) * Cardinality(K)
      BY <3>1, <3>2, FS_Product
    <3>4. IsFiniteSet(P \X K) /\ Cardinality(P \X K) = (n - size + 1) * c
      BY <3>1, <3>2, <3>3
    <3> QED
      BY <3>4 DEF P, K
  <2>3. ASSUME NEW p \in Leading(ps, T), NEW d \in size..n
        PROVE  after(p, d) \in Leading(qs, T)
    <3>1. p \in ps /\ ToSet(p.slots) = T /\ d \in 0..n /\ d >= size
      BY DEF Leading
    <3>2. after(p, d).slots = p.slots /\ after(p, d) \in qs
      BY <1>3, <3>1
    <3> QED
      BY <3>1, <3>2 DEF Leading
  <2>4. ASSUME NEW q \in Leading(qs, T)
        PROVE  \E p \in Leading(ps, T), d \in size..n : q = after(p, d)
    <3>1. PICK p \in ps, d \in 0..n : q = after(p, d)
      BY <1>4 DEF Leading
    <3>2. ToSet(q.slots) = T
      BY DEF Leading
    <3>3. d >= size
      <4> SUFFICES ASSUME d < size PROVE FALSE
        OBVIOUS
      <4>1. d + 1 \in 1..size /\ after(p, d).slots[d + 1] = n + 1
        BY <1>3
      <4>2. n + 1 \in ToSet(after(p, d).slots)
        BY <1>10, <4>1 DEF Filled
      <4> QED
        BY <4>2, <3>1, <3>2, <1>7
    <3> QED
      BY <3>1, <3>2, <3>3, <1>3 DEF Leading
  <2>5. next \in [from -> Leading(qs, T)]
    BY <2>3
  <2>6. ASSUME NEW e \in from, NEW f \in from, next[e] = next[f]
        PROVE  e = f
    <3>1. e = <<e[1], e[2]>> /\ f = <<f[1], f[2]>> /\ e[1] \in ps /\ f[1] \in ps
          /\ e[2] \in 0..n /\ f[2] \in 0..n
      BY DEF Leading
    <3> QED
      BY <1>2, <2>6, <3>1
  <2>7. ASSUME NEW q \in Leading(qs, T)
        PROVE  \E e \in from : next[e] = q
    <3>1. PICK p \in Leading(ps, T), d \in size..n : q = after(p, d)
      BY <2>4
    <3>2. <<p, d>> \in from /\ next[<<p, d>>] = q
      BY <3>1
    <3> QED
      BY <3>2
  <2> HIDE DEF next, from
  <2>8. next \in Bijection(from, Leading(qs, T))
    BY <2>5, <2>6, <2>7, Fun_IsBij
  <2> QED
    BY <2>2, <2>8, FS_Bijection DEF ExistsBijection
<1>8. CASE n + 1 \in T
  <2> DEFINE rest == T \ {n + 1}
             others == (1..n) \ rest
             parts == [x \in others |-> Leading(ps, rest \cup {x})]
             from == UNION {parts[x] : x \in others}
             slot == [p \in from |-> CHOOSE d \in 0..(size - 1) : p.slots[d + 1] \notin rest]
             next == [p \in from |-> after(p, slot[p])]
  <2>1. /\ IsFiniteSet(T) /\ IsFiniteSet(rest) /\ Cardinality(rest) = size - 1
        /\ rest \subseteq 1..n /\ T = rest \cup {n + 1} /\ n + 1 \notin 1..n
    <3>1. IsFiniteSet(1..(n + 1))
      BY FS_Interval
    <3>2. IsFiniteSet(T)
      BY <3>1, FS_Subset
    <3>3. IsFiniteSet(rest) /\ Cardinality(rest) = size - 1
      BY <3>2, <1>8, FS_RemoveElement
    <3>4. rest \subseteq 1..n /\ T = rest \cup {n + 1} /\ n + 1 \notin 1..n
      BY <1>8
    <3> HIDE DEF rest
    <3> QED
      BY <3>2, <3>3, <3>4
  <2>2. IsFiniteSet(others) /\ Cardinality(others) = n - size + 1
    <3> DEFINE all == 1..n
    <3>1. IsFiniteSet(all) /\ Cardinality(all) = n
      BY <1>9
    <3>2. others = all \ rest /\ rest \subseteq all
      BY <2>1
    <3> DEFINE united == rest \cup others
               shared == rest \cap others
    <3> HIDE DEF rest, others, all
    <3>3. united = all /\ shared = {} /\ others \in SUBSET all
      BY <3>2
    <3>4. IsFiniteSet(others)
      BY <3>1, <3>3, FS_Subset
    <3>5. Cardinality(united) = Cardinality(rest) + Cardinality(others) - Cardinality(shared)
      BY <2>1, <3>4, FS_Union
    <3> HIDE DEF united, shared
    <3>6. Cardinality(united) = n /\ Cardinality(shared) = 0
      BY <3>1, <3>3, FS_EmptySet
    <3>7. Cardinality(others) \in Nat /\ Cardinality(rest) = size - 1
      BY <2>1, <3>4, FS_CardinalityType
    <3> QED
      BY <3>4, <3>5, <3>6, <3>7
  <2>3. ASSUME NEW x \in others
        PROVE  IsFiniteSet(parts[x]) /\ Cardinality(parts[x]) = c
    <3>2. x \in 1..n /\ x \notin rest
      OBVIOUS
    <3> HIDE DEF rest
    <3>1. Cardinality(rest \cup {x}) = size /\ rest \cup {x} \in SUBSET (1..n)
      BY <2>1, <3>2, FS_AddElement
    <3> QED
      BY <1>1, <1>5, <3>1
  <2>4. ASSUME NEW x \in others, NEW y \in others, x # y
        PROVE  parts[x] \cap parts[y] = {}
    BY <2>4 DEF Leading
  <2>5. IsFiniteSet(from) /\ Cardinality(from) = (n - size + 1) * c
    <3>1. \A p : p \in from <=> \E x \in others : p \in parts[x]
      OBVIOUS
    <3> HIDE DEF others, parts, from
    <3>2. \A x \in others : IsFiniteSet(parts[x]) /\ Cardinality(parts[x]) = c
      BY <2>3
    <3>3. \A x, y \in others : x # y => parts[x] \cap parts[y] = {}
      BY <2>4
    <3>4. IsFiniteSet(others) /\ c \in Nat
      BY <2>2
    <3>5. Parted(from, others, parts, c)
      BY <3>1, <3>2, <3>3 DEF Parted
    <3>6. IsFiniteSet(from) /\ Cardinality(from) = Cardinality(others) * c
      BY <3>4, <3>5, EqualParts
    <3> QED
      BY <2>2, <3>6
  <2>6. ASSUME NEW p \in ps
        PROVE  p \in from <=> \E x \in others : ToSet(p.slots) = rest \cup {x}
    BY DEF Leading
  <2>7. from \subseteq ps
    BY DEF Leading
  <2> HIDE DEF parts, from
  <2>8. ASSUME NEW p \in from
        PROVE  /\ slot[p] \in 0..(size - 1) /\ p.slots[slot[p] + 1] \notin rest
               /\ \A d \in 0..(size - 1) : p.slots[d + 1] \notin rest => d = slot[p]
    <3>1. PICK x \in others : ToSet(p.slots) = rest \cup {x}
      BY <2>6, <2>7
    <3>2. Held(p.slots, size, n)
      BY <2>7
    <3>3. Filled(p.slots, size)
      BY <1>6, <2>7
    <3>4. PICK i \in 1..size : p.slots[i] = x
      BY <3>1, <3>3 DEF Filled
    <3>5. i - 1 \in 0..(size - 1) /\ p.slots[(i - 1) + 1] \notin rest
      BY <3>4
    <3>6. slot[p] \in 0..(size - 1) /\ p.slots[slot[p] + 1] \notin rest
      BY <3>5
    <3>7. ASSUME NEW d \in 0..(size - 1), p.slots[d + 1] \notin rest
          PROVE  d = i - 1
      <4>1. d + 1 \in 1..size /\ p.slots[d + 1] = x
        BY <3>1, <3>3, <3>7 DEF Filled
      <4> QED
        BY <4>1, <3>2, <3>4 DEF Held
    <3> HIDE DEF slot
    <3> QED
      BY <3>6, <3>7
  <2> HIDE DEF slot
  <2>9. ASSUME NEW p \in from
        PROVE  after(p, slot[p]) \in Leading(qs, T)
    <3>1. PICK x \in others : ToSet(p.slots) = rest \cup {x}
      BY <2>6, <2>7
    <3> DEFINE d == slot[p]
               s == after(p, d).slots
    <3>2. d \in 0..n /\ d < size /\ d + 1 \in 1..size /\ p.slots[d + 1] \notin rest
      BY <2>8
    <3>3. /\ after(p, d) \in qs /\ Held(s, size, n + 1) /\ s[d + 1] = n + 1
          /\ \A i \in (1..size) \ {d + 1} : s[i] = p.slots[i]
      BY <1>3, <2>7, <3>2
    <3>4. Held(p.slots, size, n)
      BY <2>7
    <3>5. /\ Filled(p.slots, size)
          /\ Filled(s, size)
      BY <1>6, <1>10, <2>7, <3>2
    <3> HIDE DEF s, d
    <3>6. ASSUME NEW i \in (1..size) \ {d + 1}
          PROVE  p.slots[i] \in rest
      <4> DEFINE hit == d + 1
                 slots == p.slots
      <4>1. hit \in 1..size /\ slots[hit] \notin rest /\ i \in 1..size /\ i # hit
        BY <3>2
      <4>2. Filled(slots, size) /\ ToSet(slots) = rest \cup {x} /\ Held(slots, size, n)
        BY <3>1, <3>4, <3>5
      <4> HIDE DEF hit, slots, rest, others
      <4>3. slots[i] # slots[hit]
        BY <4>1, <4>2 DEF Held
      <4>4. slots[i] \in rest \cup {x} /\ slots[hit] \in rest \cup {x}
        BY <4>1, <4>2 DEF Filled
      <4> QED
        BY <4>1, <4>3, <4>4 DEF slots
    <3>7. ASSUME NEW b \in rest
          PROVE  \E i \in (1..size) \ {d + 1} : p.slots[i] = b
      BY <3>1, <3>2, <3>5 DEF Filled
    <3>8. ToSet(s) = rest \cup {n + 1}
      <4>1. ASSUME NEW row \in ToSet(s)
            PROVE  row \in rest \cup {n + 1}
        BY <3>3, <3>5, <3>6 DEF Filled
      <4>2. ASSUME NEW row \in rest \cup {n + 1}
            PROVE  row \in ToSet(s)
        BY <3>2, <3>3, <3>5, <3>7 DEF Filled
      <4> QED
        BY <4>1, <4>2
    <3> QED
      BY <2>1, <3>3, <3>8 DEF Leading, s, d
  <2>10. ASSUME NEW q \in Leading(qs, T)
         PROVE  \E p \in from : q = after(p, slot[p])
    <3>1. PICK p \in ps, d \in 0..n : q = after(p, d)
      BY <1>4 DEF Leading
    <3> DEFINE s == q.slots
               x == p.slots[d + 1]
    <3>2. ToSet(s) = T /\ Held(p.slots, size, n) /\ Held(s, size, n + 1)
      BY <1>3, <3>1 DEF Leading
    <3>3. /\ Filled(p.slots, size)
          /\ Filled(s, size)
          /\ \A i \in 1..size : p.slots[i] \in 1..n
      BY <1>6, <1>10, <3>1
    <3>4. d < size
      <4> SUFFICES ASSUME d >= size PROVE FALSE
        OBVIOUS
      <4>1. s = p.slots
        BY <1>3, <3>1
      <4> QED
        BY <4>1, <3>2, <3>3, <1>8 DEF Filled
    <3>5. d + 1 \in 1..size /\ s[d + 1] = n + 1
          /\ \A i \in (1..size) \ {d + 1} : s[i] = p.slots[i]
      <4> DEFINE t == after(p, d).slots
      <4>1. /\ t[d + 1] = n + 1
            /\ \A i \in (1..size) \ {d + 1} : t[i] = p.slots[i]
        BY <1>3, <3>1, <3>4
      <4>2. s = t /\ d + 1 \in 1..size
        BY <3>1, <3>4
      <4> HIDE DEF s, t
      <4> QED
        BY <4>1, <4>2
    <3> HIDE DEF s
    <3>6. ASSUME NEW i \in (1..size) \ {d + 1}
          PROVE  p.slots[i] \in rest
      <4>1. s[i] \in T /\ s[i] = p.slots[i] /\ p.slots[i] \in 1..n
        BY <3>2, <3>3, <3>5 DEF Filled
      <4> QED
        BY <4>1
    <3>7. ASSUME NEW b \in rest
          PROVE  \E i \in (1..size) \ {d + 1} : p.slots[i] = b
      <4>1. b \in T /\ b # n + 1
        OBVIOUS
      <4>2. PICK i \in 1..size : s[i] = b
        BY <4>1, <3>2, <3>3 DEF Filled
      <4>3. i # d + 1
        BY <4>1, <4>2, <3>5
      <4> QED
        BY <4>2, <4>3, <3>5
    <3>8. x \in others
      <4>1. x \in 1..n
        BY <3>3, <3>5
      <4>2. x \notin rest
        BY <3>2, <3>5, <3>7 DEF Held
      <4> QED
        BY <4>1, <4>2
    <3>9. ToSet(p.slots) = rest \cup {x}
      <4>1. ASSUME NEW row \in ToSet(p.slots)
            PROVE  row \in rest \cup {x}
        BY <3>3, <3>6 DEF Filled
      <4>2. ASSUME NEW row \in rest \cup {x}
            PROVE  row \in ToSet(p.slots)
        BY <3>3, <3>5, <3>7 DEF Filled
      <4> QED
        BY <4>1, <4>2
    <3>10. p \in from
      BY <2>6, <3>8, <3>9
    <3>11. d = slot[p]
      BY <2>8, <3>4, <3>8, <3>10
    <3> QED
      BY <3>1, <3>10, <3>11
  <2>11. next \in [from -> Leading(qs, T)]
    BY <2>9
  <2>12. ASSUME NEW p \in from, NEW e \in from, next[p] = next[e]
         PROVE  p = e
    <3>1. slot[p] \in 0..n /\ slot[e] \in 0..n
      BY <2>8
    <3> QED
      BY <1>2, <2>7, <2>12, <3>1
  <2>13. \A q \in Leading(qs, T) : \E p \in from : next[p] = q
    BY <2>10
  <2> HIDE DEF next
  <2>14. next \in Bijection(from, Leading(qs, T))
    BY <2>11, <2>12, <2>13, Fun_IsBij
  <2> QED
    BY <2>5, <2>14, FS_Bijection DEF ExistsBijection
<1> QED
  BY <1>7, <1>8

ReservoirTyped ==
  /\ DOMAIN sampler = {"capacity", "seed", "slots", "seen"}
  /\ sampler.capacity \in Nat \ {0} /\ sampler.seen \in Nat
  /\ sampler.slots \in Seq(1..sampler.seen)
  /\ Len(sampler.slots) <= sampler.capacity /\ Len(sampler.slots) <= sampler.seen

\* What any sequence of draws leads to fills as many slots as the reservoir has filled.
PathsTyped(ps, size, n) ==
  /\ IsFiniteSet(ps) /\ ps # {} /\ Drawn(ps)
  /\ \A p \in ps : Held(p.slots, size, n)

\* Until rows are replaced all are held; from then on sets of the size at which they
\* began to be replaced are led to alike.
SamplerInv ==
  LET size == Len(sampler.slots)
  IN  /\ ReservoirTyped
      /\ PathsTyped(paths, size, sampler.seen)
      /\ IF full = 0 THEN size = sampler.seen ELSE full \in Nat /\ full <= size
      /\ full # 0 /\ full = size => Uniform(paths, size, sampler.seen)

\* When every row is held, the set of all rows is the only one of the size.
LEMMA WholeUniform ==
  ASSUME NEW ps, NEW n \in Nat, PathsTyped(ps, n, n)
  PROVE  Uniform(ps, n, n)
<1> DEFINE all == 1..n
<1>1. IsFiniteSet(all) /\ Cardinality(all) = n
  BY FS_Interval
<1>2. ASSUME NEW p \in ps
      PROVE  ToSet(p.slots) = all
  <2> DEFINE s == p.slots
  <2>1. Held(s, n, n)
    BY DEF PathsTyped
  <2> HIDE DEF s
  <2>2. Filled(s, n) /\ \A i \in all : s[i] \in all
    BY <2>1, HeldFacts
  <2>3. s \in [all -> all] /\ \A i, j \in all : s[i] = s[j] => i = j
    BY <2>1 DEF Held
  <2> HIDE DEF all
  <2>4. s \in Injection(all, all)
    BY <2>3, Fun_IsInj
  <2>5. s \in Surjection(all, all)
    BY <2>4, <1>1, FS_Injection
  <2>6. \A row \in all : \E i \in all : s[i] = row
    BY <2>5, Fun_SurjectionProperties
  <2>7. ToSet(s) = all
    <3>1. ASSUME NEW row
          PROVE  row \in ToSet(s) <=> row \in all
      BY <2>2, <2>6 DEF Filled, all
    <3> QED
      BY <3>1
  <2> QED
    BY <2>7 DEF s
<1>3. Leading(ps, all) = ps
  BY <1>2 DEF Leading
<1>4. Cardinality(ps) \in Nat \ {0}
  BY FS_CardinalityType, FS_EmptySet DEF PathsTyped
<1> HIDE DEF all
<1>5. ASSUME NEW S \in SUBSET all, Cardinality(S) = n
      PROVE  Cardinality(Leading(ps, S)) = Cardinality(ps)
  <2>1. S = all
    BY <1>1, <1>5, FS_Subset
  <2> QED
    BY <2>1, <1>3
<1> QED
  BY <1>4, <1>5 DEF Uniform, all

\* The sequences of draws after a row.
LEMMA PathsTypedStep ==
  ASSUME NEW ps, NEW n \in Nat, NEW size \in Nat, PathsTyped(ps, size, n),
         NEW capacity \in Nat, NEW K, IsFiniteSet(K), K # {}, NEW after \in Nat,
         \A p \in ps, d \in K : Held(Placed(p.slots, n + 1, d, capacity), after, n + 1),
         NEW qs, Branched(qs, ps, K, n, capacity)
  PROVE  PathsTyped(qs, after, n + 1)
<1> USE DEF Branched
<1> DEFINE next == [e \in ps \X K |-> [drawn |-> <<e[1].drawn, e[2]>>,
                                       slots |-> Placed(e[1].slots, n + 1, e[2], capacity)]]
           more == n + 1
           from == ps \X K
<1>1. IsFiniteSet(from)
  BY FS_Product DEF PathsTyped
<1>2. next \in [from -> qs]
  OBVIOUS
<1>3. \A q \in qs : \E e \in from : next[e] = q
  <2> SUFFICES ASSUME NEW q \in qs
               PROVE  \E e \in from : next[e] = q
    OBVIOUS
  <2>1. PICK p \in ps, d \in K :
          q = [drawn |-> <<p.drawn, d>>, slots |-> Placed(p.slots, n + 1, d, capacity)]
    OBVIOUS
  <2>2. <<p, d>> \in from /\ next[<<p, d>>] = q
    BY <2>1
  <2> QED
    BY <2>2
<1>4. IsFiniteSet(qs)
  <2> HIDE DEF next, from
  <2>1. next \in Surjection(from, qs)
    BY <1>2, <1>3, Fun_IsSurj
  <2> QED
    BY <2>1, <1>1, FS_Surjection
<1>5. qs # {}
  <2>1. PICK p \in ps, d \in K : TRUE
    BY DEF PathsTyped
  <2>2. [drawn |-> <<p.drawn, d>>, slots |-> Placed(p.slots, n + 1, d, capacity)] \in qs
    OBVIOUS
  <2> QED
    BY <2>2
<1>6. Drawn(qs)
  BY DEF Drawn, PathsTyped
<1>7. \A q \in qs : Held(q.slots, after, more)
  OBVIOUS
<1> HIDE DEF more
<1>8. PathsTyped(qs, after, more)
  BY <1>4, <1>5, <1>6, <1>7 DEF PathsTyped
<1> QED
  BY <1>8 DEF more

\* A row that finds room is appended.
LEMMA RoomFacts ==
  ASSUME NEW n \in Nat, NEW size \in Nat, NEW s, Held(s, size, n), NEW capacity \in Nat,
         size < capacity, NEW d
  PROVE  Held(Placed(s, n + 1, d, capacity), size + 1, n + 1)
<1> DEFINE t == Append(s, n + 1)
<1>1. s \in Seq(1..n) /\ Len(s) = size /\ \A i, j \in 1..size : s[i] = s[j] => i = j
  BY DEF Held
<1>2. Placed(s, n + 1, d, capacity) = t
  BY <1>1 DEF Placed
<1>3. s \in Seq(1..(n + 1))
  BY <1>1
<1>4. t \in Seq(1..(n + 1)) /\ Len(t) = size + 1
  BY <1>1, <1>3
<1>5. t[size + 1] = n + 1 /\ \A i \in 1..size : t[i] = s[i] /\ s[i] \in 1..n
  BY <1>1
<1> HIDE DEF t
<1>6. ASSUME NEW i \in 1..(size + 1), NEW j \in 1..(size + 1), t[i] = t[j]
      PROVE  i = j
  <2>1. (i = size + 1 \/ i \in 1..size) /\ (j = size + 1 \/ j \in 1..size)
    OBVIOUS
  <2> QED
    BY <1>1, <1>5, <1>6, <2>1
<1>7. Held(t, size + 1, n + 1)
  BY <1>4, <1>6 DEF Held
<1> QED
  BY <1>2, <1>7

LEMMA SamplerInvInit == SamplerInit => SamplerInv
<1> SUFFICES ASSUME SamplerInit PROVE SamplerInv
  OBVIOUS
<1>1. PICK c \in Capacities \ {0}, s \in Seeds : sampler = Reservoir(c, s)
  BY DEF SamplerInit
<1>2. c \in Nat \ {0}
  BY ReservoirAssumption
<1>3. sampler.slots = <<>> /\ sampler.seen = 0 /\ ReservoirTyped
  BY <1>1, <1>2 DEF Reservoir, ReservoirTyped
<1>4. paths = {[drawn |-> <<>>, slots |-> <<>>]} /\ full = 0
  BY DEF SamplerInit
<1>5. Held(<<>>, 0, 0)
  BY DEF Held
<1>6. PathsTyped(paths, 0, 0)
  <2> DEFINE p == [drawn |-> <<>>, slots |-> <<>>]
  <2>1. p.slots = <<>>
    OBVIOUS
  <2> HIDE DEF p
  <2>2. IsFiniteSet({p})
    BY FS_Singleton
  <2>3. paths = {p}
    BY <1>4 DEF p
  <2> QED
    BY <1>5, <2>1, <2>2, <2>3 DEF PathsTyped, Drawn
<1> QED
  BY <1>3, <1>4, <1>6 DEF SamplerInv

LEMMA PushRowStep == SamplerInv /\ PushRow => SamplerInv'
<1> SUFFICES ASSUME SamplerInv, PushRow PROVE SamplerInv'
  OBVIOUS
<1> DEFINE n == sampler.seen
           size == Len(sampler.slots)
           capacity == sampler.capacity
           K == Draws(sampler)
           qs == {[drawn |-> <<p.drawn, d>>, slots |-> Placed(p.slots, n + 1, d, capacity)] :
                    p \in paths, d \in K}
<1>1. /\ n \in Nat /\ size \in Nat /\ capacity \in Nat \ {0} /\ sampler.slots \in Seq(1..n)
      /\ size <= capacity /\ size <= n /\ PathsTyped(paths, size, n)
  BY DEF SamplerInv, ReservoirTyped
<1>2. PICK slot \in K : sampler' = Pushed(sampler, n + 1, slot)
  BY DEF PushRow
<1> DEFINE t == Placed(sampler.slots, n + 1, slot, capacity)
<1>3. sampler' = [sampler EXCEPT !.slots = t, !.seen = n + 1]
  BY <1>2 DEF Pushed
<1>4. /\ DOMAIN sampler' = {"capacity", "seed", "slots", "seen"}
      /\ sampler'.capacity = capacity /\ sampler'.seen = n + 1 /\ sampler'.slots = t
  <2> DEFINE more == n + 1
  <2>1. sampler' = [sampler EXCEPT !.slots = t, !.seen = more]
    BY <1>3
  <2>2. DOMAIN sampler = {"capacity", "seed", "slots", "seen"}
    BY DEF SamplerInv, ReservoirTyped
  <2> HIDE DEF t, more
  <2> QED
    BY <2>1, <2>2 DEF more
<1>5. paths' = qs /\ full' = IF full = 0 /\ size = capacity THEN capacity ELSE full
  BY DEF PushRow, PathsAfter
<1>6. CASE size < capacity
  <2>1. K = {size} /\ t = Append(sampler.slots, n + 1)
    BY <1>6 DEF Draws, Placed
  <2>2. t \in Seq(1..(n + 1)) /\ Len(t) = size + 1
    <3> DEFINE s == sampler.slots
    <3>1. s \in Seq(1..n) /\ Len(s) = size /\ s \in Seq(1..(n + 1)) /\ n + 1 \in 1..(n + 1)
      BY <1>1
    <3>2. t = Append(s, n + 1)
      BY <2>1
    <3> HIDE DEF s, t, n, size
    <3> QED
      BY <1>1, <3>1, <3>2
  <2>3. PathsTyped(qs, size + 1, n + 1)
    <3>1. \A p \in paths : Held(p.slots, size, n)
      BY <1>1 DEF PathsTyped
    <3>2. IsFiniteSet(K) /\ K # {}
      BY <2>1, FS_Singleton
    <3>5. Branched(qs, paths, K, n, capacity)
      BY DEF Branched
    <3> HIDE DEF n, size, capacity, K, qs
    <3>3. \A p \in paths, d \in K : Held(Placed(p.slots, n + 1, d, capacity), size + 1, n + 1)
      BY <1>1, <1>6, <3>1, RoomFacts
    <3>4. size + 1 \in Nat
      BY <1>1
    <3> QED
      BY <1>1, <3>2, <3>3, <3>4, <3>5, PathsTypedStep
  <2>4. full' = full
    BY <1>5, <1>6
  <2>5. /\ full = 0 => size = n
        /\ full # 0 => full \in Nat /\ full <= size
    BY DEF SamplerInv
  <2> HIDE DEF t, qs
  <2>6. ReservoirTyped'
    BY <1>1, <1>4, <1>6, <2>2 DEF ReservoirTyped
  <2>7. Len(sampler'.slots) = size + 1 /\ sampler'.seen = n + 1
    BY <1>4, <2>2
  <2>8. PathsTyped(paths', size + 1, n + 1)
    BY <1>5, <2>3
  <2> HIDE DEF n, size, capacity
  <2>9. /\ full' = 0 => size + 1 = n + 1
        /\ full' # 0 => full' \in Nat /\ full' <= size + 1 /\ full' # size + 1
    BY <1>1, <2>4, <2>5
  <2> QED
    BY <2>6, <2>7, <2>8, <2>9 DEF SamplerInv
<1>7. CASE size = capacity
  <2>1. K = 0..n
    BY <1>1, <1>7 DEF Draws
  <2>2. t \in Seq(1..(n + 1)) /\ Len(t) = size
    <3>1. sampler.slots \in Seq(1..(n + 1))
      BY <1>1
    <3>2. CASE slot < capacity
      <4>1. t = [sampler.slots EXCEPT ![slot + 1] = n + 1]
        BY <1>1, <1>7, <3>2 DEF Placed
      <4> QED
        BY <1>1, <3>1, <4>1
    <3>3. CASE ~(slot < capacity)
      BY <1>1, <1>7, <3>1, <3>3 DEF Placed
    <3> QED
      BY <3>2, <3>3
  <2>3. \A p \in paths : Held(p.slots, size, n)
    BY <1>1 DEF PathsTyped
  <2>4. PathsTyped(qs, size, n + 1)
    <3>1. IsFiniteSet(K) /\ K # {}
      <4> HIDE DEF n, K
      <4>1. IsFiniteSet(0..n)
        BY <1>1, FS_Interval
      <4>2. 0 \in 0..n
        BY <1>1
      <4> QED
        BY <2>1, <4>1, <4>2
    <3>3. Branched(qs, paths, K, n, capacity)
      BY DEF Branched
    <3> HIDE DEF n, size, capacity
    <3>2. ASSUME NEW p \in paths, NEW d \in K
          PROVE  Held(Placed(p.slots, n + 1, d, capacity), size, n + 1)
      <4> DEFINE s == p.slots
      <4>1. Held(s, size, n) /\ d \in 0..n /\ size \in Nat \ {0}
        BY <1>1, <1>7, <2>1, <2>3
      <4> HIDE DEF s, K
      <4>2. Held(Placed(s, n + 1, d, size), size, n + 1)
        BY <1>1, <4>1, PlacedFacts
      <4> QED
        BY <1>7, <4>2 DEF s
    <3> HIDE DEF K, qs
    <3> QED
      BY <1>1, <3>1, <3>2, <3>3, PathsTypedStep
  <2>5. Uniform(paths, size, n) => Uniform(qs, size, n + 1)
    <3>1. Branched(qs, paths, 0..n, n, size)
      BY <1>7, <2>1 DEF Branched
    <3>2. size \in Nat \ {0} /\ IsFiniteSet(paths) /\ Drawn(paths)
      BY <1>1, <1>7 DEF PathsTyped
    <3> HIDE DEF n, size, capacity, K, qs
    <3> QED
      BY <1>1, <2>3, <3>1, <3>2, ReplacedUniform
  <2>6. (full = 0 \/ full = size) => Uniform(paths, size, n)
    <3>1. CASE full = 0
      <4>1. size = n
        BY <3>1 DEF SamplerInv
      <4> HIDE DEF n, size
      <4> QED
        BY <1>1, <4>1, WholeUniform
    <3>2. CASE full # 0
      BY <3>2 DEF SamplerInv
    <3> QED
      BY <3>1, <3>2
  <2>7. /\ full' \in Nat /\ full' <= size /\ full' # 0
        /\ full' = size => full = 0 \/ full = size
    <3>1. full # 0 => full \in Nat /\ full <= size
      BY DEF SamplerInv
    <3> QED
      BY <1>1, <1>5, <1>7, <3>1
  <2> HIDE DEF t, qs
  <2>8. ReservoirTyped'
    BY <1>1, <1>4, <1>7, <2>2 DEF ReservoirTyped
  <2>9. Len(sampler'.slots) = size /\ sampler'.seen = n + 1
    BY <1>4, <2>2
  <2>10. PathsTyped(paths', size, n + 1) /\ (full' = size => Uniform(paths', size, n + 1))
    BY <1>5, <2>4, <2>5, <2>6, <2>7
  <2> HIDE DEF n, size, capacity
  <2> QED
    BY <2>7, <2>8, <2>9, <2>10 DEF SamplerInv
<1> QED
  BY <1>1, <1>6, <1>7

LEMMA ConfigureStep == SamplerInv /\ Configure => SamplerInv'
<1> SUFFICES ASSUME SamplerInv, Configure PROVE SamplerInv'
  OBVIOUS
<1>1. PICK seed \in Seeds, capacity \in Capacities :
        Configurable(sampler, seed, capacity) /\ sampler' = Configured(sampler, seed, capacity)
  BY DEF Configure
<1>2. /\ sampler'.slots = sampler.slots /\ sampler'.seen = sampler.seen
      /\ sampler'.capacity = capacity /\ DOMAIN sampler' = DOMAIN sampler
  BY <1>1 DEF Configured, SamplerInv, ReservoirTyped
<1>3. capacity \in Nat \ {0} /\ Len(sampler.slots) <= capacity
  BY <1>1, ReservoirAssumption DEF Configurable, SamplerInv, ReservoirTyped
<1>4. ReservoirTyped'
  BY <1>2, <1>3 DEF SamplerInv, ReservoirTyped
<1>5. UNCHANGED <<paths, full>>
  BY DEF Configure
<1> QED
  BY <1>2, <1>4, <1>5 DEF SamplerInv

LEMMA SampleUniformOf == SamplerInv => SampleUniform
<1> SUFFICES ASSUME SamplerInv, full \in {0, sampler.capacity}
             PROVE  LET held == kSubset(Len(sampler.slots), 1..sampler.seen)
                        ways == [S \in held |-> Cardinality({p \in paths : ToSet(p.slots) = S})]
                    IN \A S, T \in held : ways[S] = ways[T] /\ ways[S] > 0
  BY DEF SampleUniform
<1> DEFINE n == sampler.seen
           size == Len(sampler.slots)
<1>1. n \in Nat /\ size \in Nat /\ PathsTyped(paths, size, n) /\ size <= sampler.capacity
  BY DEF SamplerInv, ReservoirTyped
<1>2. Uniform(paths, size, n)
  <2>1. CASE full = 0
    <3>1. size = n
      BY <2>1 DEF SamplerInv
    <3> HIDE DEF n, size
    <3> QED
      BY <1>1, <3>1, WholeUniform
  <2>2. CASE full # 0
    BY <1>1, <2>2 DEF SamplerInv, ReservoirTyped
  <2> QED
    BY <2>1, <2>2
<1>3. PICK c \in Nat \ {0} : \A S \in SUBSET (1..n) :
        Cardinality(S) = size => Cardinality(Leading(paths, S)) = c
  BY <1>2 DEF Uniform
<1>4. ASSUME NEW S \in kSubset(size, 1..n)
      PROVE  Cardinality({p \in paths : ToSet(p.slots) = S}) = c
  BY <1>3 DEF kSubset, Leading
<1> QED
  BY <1>3, <1>4

\* Algorithm R for every capacity and any number of rows: as long as the reservoir keeps
\* the capacity at which it began to replace rows, every set of rows of the sample's size
\* is led to by as many sequences of draws as every other, whatever is configured between.
THEOREM SampleStaysUniform == FittingSpec => []SampleUniform
<1>1. FittingInit => SamplerInv
  BY SamplerInvInit DEF FittingInit
<1>2. [FittingNext]_vars => [SamplerNext]_samplerVars
  BY DEF FittingNext, vars
<1>3. SamplerInv /\ [SamplerNext]_samplerVars => SamplerInv'
  <2>1. SamplerInv /\ UNCHANGED samplerVars => SamplerInv'
    BY DEF SamplerInv, ReservoirTyped, PathsTyped, samplerVars
  <2> QED
    BY <2>1, PushRowStep, ConfigureStep DEF SamplerNext
<1> QED
  BY <1>1, <1>2, <1>3, SampleUniformOf, PTL DEF FittingSpec
=============================================================================
