------------------------------ MODULE MCFlush ------------------------------
(* Instance of FlushController for TLC: one caller, Third, makes only some  *)
(* of the calls that the others make.                                       *)
EXTENDS FlushController, TLC

CONSTANTS Third, ThirdCalls, OtherCalls

MCCalls == [c \in Clients |-> IF c = Third THEN ThirdCalls ELSE OtherCalls]

\* Threads are interchangeable.
Symmetry == Permutations(Clients \ {Third}) \cup Permutations(Workers)
=============================================================================
