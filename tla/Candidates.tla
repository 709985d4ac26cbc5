----------------------------- MODULE Candidates -----------------------------
(***************************************************************************)
(* The random choices candidates are made by (ennbo/src/candidates.rs,     *)
(* calibration.rs).  An outcome comes with the number of draws that lead   *)
(* to it: a bag, in which a draw is uniform over the range the code gives. *)
(***************************************************************************)
EXTENDS Integers, Sequences, SequencesExt, FiniteSetsExt

CONSTANTS
  Word32   \* 2^32: the words an integer is drawn from

ASSUME CandidatesAssumption == Word32 \in Nat \ {0}

\* The outcomes after one more draw d \in D, which turns s into After(s, d).
Drawn(ways, D, After(_, _)) ==
  [t \in {After(s, d) : s \in DOMAIN ways, d \in D} |->
     MapThenSumSet(LAMBDA s : ways[s] * Cardinality({d \in D : After(s, d) = t}), DOMAIN ways)]

Swapped(s, i, j) == [s EXCEPT ![i] = s[j], ![j] = s[i]]
InOrder(n) == [i \in 1..n |-> i]
Certain(s) == [t \in {s} |-> 1]

\* gen_range(0..=i), from the last place down.
Places(n, i) == 1..i

\* The permutation of the strata of one coordinate in generate_lhd.
RECURSIVE Permuted(_, _, _)
Permuted(n, i, ways) ==
  IF i = 1 THEN ways
  ELSE Permuted(n, i - 1, Drawn(ways, Places(n, i), LAMBDA s, d : Swapped(s, i, d)))

Strata(n) == Permuted(n, n, Certain(InOrder(n)))

\* t + gen_range(0..n - t), from the first place up: sample_prefix, and the coordinates
\* of generate_sobol_masked.
RECURSIVE Prefixed(_, _, _, _)
Prefixed(n, k, i, ways) ==
  IF i > k THEN ways
  ELSE Prefixed(n, k, i + 1, Drawn(ways, i..n, LAMBDA s, d : Swapped(s, i, d)))

\* The first k of n, as the sets they make.
Chosen(n, k) ==
  Drawn(Prefixed(n, k, 1, Certain(InOrder(n))), {0},
        LAMBDA s, d : {s[i] : i \in 1..k})

\* sample_prefix
SamplePrefix(n, p) == Chosen(n, Min({p, n}))

\* generate_sobol_masked: the coordinates that leave the centre if the mask drew `heads`.
Masked(n, heads) == Chosen(n, Max({heads, 1}))

---------------------------------------------------------------------------
(* generate_raasp: a coordinate by the distribution of the length scales.  *)

\* The distribution function, or the uniform one if the length scales are all zero.
Cdf(weights) ==
  LET sum(j) == MapThenSumSet(LAMBDA i : weights[i], 1..j)
  IN [j \in DOMAIN weights |-> IF sum(Len(weights)) > 0 THEN sum(j) ELSE j]

\* raasp_dim_from_cdf, for a draw r in halves of a unit of the distribution.
RECURSIVE Bisected(_, _, _, _)
Bisected(cdf, r, lo, hi) ==
  LET mid == (lo + hi) \div 2
  IN IF lo >= hi THEN lo
     ELSE IF r <= 2 * cdf[mid] THEN Bisected(cdf, r, lo, mid)
     ELSE Bisected(cdf, r, mid + 1, hi)

\* A draw falls between two units, each with equal probability.
Perturbed(weights) ==
  LET cdf == Cdf(weights)
      n   == Len(weights)
  IN Drawn(Certain(0), {2 * u - 1 : u \in 1..cdf[n]},
           LAMBDA s, r : Bisected(cdf, r, 1, n))

---------------------------------------------------------------------------
(* NumpyPcg64, whose words are even over all their values.                 *)

\* Mutant: a word is never drawn again.
NoThreshold(word, n) == 0
\* The words that would make the first integers likelier.
Threshold(word, n) == (word - n) % n

\* lemire32, lemire64: the high part of the product, of the words that are kept.
Lemire(word, n) ==
  LET kept == {w \in 0..word - 1 : (w * n) % word >= Threshold(word, n)}
  IN [r \in {(w * n) \div word : w \in kept} |->
        Cardinality({w \in kept : (w * n) \div word = r})]

\* integers_high
IntegersHigh(n) ==
  IF n = 1 THEN Certain(0)
  ELSE IF n = Word32 THEN [r \in 0..n - 1 |-> 1]
  ELSE IF n < Word32 THEN Lemire(Word32, n)
  ELSE Lemire(Word32 * Word32, n)

\* next_u64 takes a word, next_u32 the low half of one and then the high half of the same.
HalvesOf(calls) ==
  LET step(s, c) ==
        IF c = "u32" /\ s.buffered
        THEN [s EXCEPT !.buffered = FALSE, !.used = Append(@, {s.high})]
        ELSE [next     |-> s.next + 1,
              buffered |-> s.buffered \/ c = "u32",
              high     |-> IF c = "u32" THEN <<s.next, "high">> ELSE s.high,
              used     |-> Append(s.used, IF c = "u32" THEN {<<s.next, "low">>}
                                          ELSE {<<s.next, "low">>, <<s.next, "high">>})]
      start == [next |-> 1, buffered |-> FALSE, high |-> <<0, "high">>, used |-> <<>>]
      after == FoldLeft(step, start, calls)
  IN after.used
=============================================================================
