------------------------------- MODULE Fitter -------------------------------
(***************************************************************************)
(* ENNFitter (ennbo/src/fitter.rs): what it was told, and what it found.   *)
(*                                                                         *)
(* The y moments are kept as the bag of rows they were summed over.  Which *)
(* scales a search finds is data: found scales and a fitted calibrator are *)
(* given by how many rows the model had then.                              *)
(***************************************************************************)
EXTENDS Integers, Bags

CONSTANTS
  None

NewFitter == [told |-> EmptyBag, params |-> None, calibrator |-> None]

\* tell: the calibrator is of earlier data from here on.
FitterTold(f, rows) ==
  [f EXCEPT !.told = @ (+) SetToBag(rows), !.calibrator = None]

\* ask of a model of n rows, commit_ask included.  The search may fail, and so may the
\* fit of the calibrator once the scales are committed.
FitterAsked(f, n, calibrates, mayFail) ==
  LET scaled     == [f EXCEPT !.params = n]
      calibrated == [scaled EXCEPT !.calibrator = IF calibrates THEN n ELSE None]
      failed(g)  == [fitter |-> g, ok |-> FALSE]
  IN IF n >= 2 /\ f.told = EmptyBag THEN {failed(f)}
     ELSE {[fitter |-> calibrated, ok |-> TRUE]}
          \cup (IF n >= 2 /\ mayFail
                THEN {failed(f)} \cup (IF calibrates THEN {failed(scaled)} ELSE {})
                ELSE {})
=============================================================================
