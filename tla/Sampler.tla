------------------------------- MODULE Sampler -------------------------------
(***************************************************************************)
(* A reservoir a caller drives (the Python sampler): rows pushed, capacity *)
(* and seed configured at any time.  Beside the one that is, paths has the *)
(* samples that every sequence of draws would have led to.                 *)
(***************************************************************************)
EXTENDS Reservoir, FiniteSetsExt

CONSTANTS
  MaxSeen      \* bound on the rows pushed

ASSUME SamplerAssumption == Capacities \ {0} # {} /\ MaxSeen \in Nat

VARIABLES
  sampler,   \* the reservoir
  paths,     \* history: every sequence of draws, with the slots it leads to
  full       \* history: the capacity at which rows were first replaced, 0 before

samplerVars == <<sampler, paths, full>>

---------------------------------------------------------------------------
SamplerInit ==
  /\ sampler \in {Reservoir(c, s) : c \in Capacities \ {0}, s \in Seeds}
  /\ paths = {[drawn |-> <<>>, slots |-> <<>>]}
  /\ full = 0

\* Every sequence, one draw longer: a pair of the draws before and the last.
PathsAfter(r, row) ==
  {[drawn |-> <<p.drawn, d>>, slots |-> Placed(p.slots, row, d, r.capacity)] :
     p \in paths, d \in Draws(r)}

PushRow ==
  /\ sampler.seen < MaxSeen
  /\ \E slot \in Draws(sampler) : sampler' = Pushed(sampler, sampler.seen + 1, slot)
  /\ paths' = PathsAfter(sampler, sampler.seen + 1)
  /\ full' = IF full = 0 /\ Len(sampler.slots) = sampler.capacity
             THEN sampler.capacity ELSE full

Configure ==
  /\ \E seed \in Seeds, capacity \in Capacities :
       /\ Configurable(sampler, seed, capacity)
       /\ sampler' = Configured(sampler, seed, capacity)
  /\ UNCHANGED <<paths, full>>

SamplerNext == PushRow \/ Configure

---------------------------------------------------------------------------
(* Properties.                                                             *)

\* Algorithm R (reservoir.rs): as long as a reservoir keeps the capacity at which it
\* began to replace rows, every set of rows of the sample's size is reached by as many
\* sequences of draws as every other.
SampleUniform ==
  full \in {0, sampler.capacity} =>
    LET held == kSubset(Len(sampler.slots), 1..sampler.seen)
        ways == [S \in held |-> Cardinality({p \in paths : ToSet(p.slots) = S})]
    IN \A S, T \in held : ways[S] = ways[T] /\ ways[S] > 0
==============================================================================
