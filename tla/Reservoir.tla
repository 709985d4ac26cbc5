------------------------------ MODULE Reservoir ------------------------------
(***************************************************************************)
(* A row reservoir (ennbo/src/reservoir.rs), Algorithm R, which the AUTO   *)
(* metric and the Python sampler share: it fills up to its capacity, then  *)
(* a new row replaces the slot of a uniform draw if there is such a slot.  *)
(***************************************************************************)
EXTENDS Integers, Sequences, SequencesExt

CONSTANTS
  Capacities,  \* the capacities a caller asks for
  Seeds        \* the seeds a caller asks for

ASSUME ReservoirAssumption == Capacities \subseteq Nat /\ Seeds # {}

\* RowReservoir::new
Reservoir(capacity, seed) ==
  [capacity |-> capacity, seed |-> seed, slots |-> <<>>, seen |-> 0]

\* The arguments configure takes.
Configurable(r, seed, capacity) ==
  /\ capacity >= 1
  /\ capacity >= Len(r.slots)
  /\ seed # r.seed => r.seen <= r.capacity

Configured(r, seed, capacity) == [r EXCEPT !.seed = seed, !.capacity = capacity]

\* Mutant: the new row is not among those a draw chooses from.
DrawsOfSeen(r) == IF Len(r.slots) < r.capacity THEN {Len(r.slots)} ELSE 0..(r.seen - 1)

\* What integers_high(num_seen + 1) may return.
Draws(r) == IF Len(r.slots) < r.capacity THEN {Len(r.slots)} ELSE 0..r.seen

Placed(slots, row, slot, capacity) ==
  IF Len(slots) < capacity THEN Append(slots, row)
  ELSE IF slot < capacity THEN [slots EXCEPT ![slot + 1] = row]
  ELSE slots

\* push_row, with the slot the draw names.
Pushed(r, row, slot) ==
  [r EXCEPT !.slots = Placed(r.slots, row, slot, r.capacity), !.seen = @ + 1]
==============================================================================
