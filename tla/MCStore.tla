------------------------------ MODULE MCStore ------------------------------
(* Instance of BpannStore and PageResidency for TLC: the files of a store, or the memory one  *)
(* of its mappings takes.  The two share no state; a behaviour is one of either.              *)
EXTENDS BpannStore, PageResidency

\* Windows of up to two pages and the spare one; some share a bit of the bitmap.
MCBitOf  == [w \in 0..8 |-> w % 3]
MCWordOf == [b \in 0..2 |-> IF b < 1 THEN 0 ELSE 1]

StoreStep == kind = "tree" /\ content = <<>> /\ capacity = FirstCapacity
             /\ Next /\ UNCHANGED residencyVars
PageStep  == pc = "down" /\ fx = <<>> /\ numObs = None /\ crashes = 0
             /\ ResidencyNext /\ UNCHANGED vars

BothInit == Init /\ ResidencyInit
BothNext == StoreStep \/ PageStep

StoreAndPages == BothInit /\ [][BothNext]_<<vars, residencyVars>>
=============================================================================
