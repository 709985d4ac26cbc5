--------------------------- MODULE OptimizerProofs ---------------------------
(***************************************************************************)
(* Proofs about Optimizer, for every instance: any values, batches, faults *)
(* and number of rows.                                                     *)
(*                                                                         *)
(* The inductive invariant OptInv says what the accounts of the rows agree *)
(* on after every call, failed ones included: the model counts no row that *)
(* is not stored, the tracker was told all of them, the watermark of the   *)
(* region stands at the last row unless a tell failed.  That the incumbent *)
(* is a stored row follows.                                                *)
(*                                                                         *)
(* That tracker and rows agree is more (Synced).  It needs what the        *)
(* tracker is for: dropping rows early never loses one that counts later   *)
(* (KeepOfKept).  With it the steps of the optimizer are those of          *)
(* TurboSearch, unless a model stores rows and fails before it counts      *)
(* them.                                                                   *)
(***************************************************************************)
EXTENDS Optimizer, FiniteSetTheorems, SequenceTheorems, TLAPS

----------------------------------------------------------------------------
(* Least and greatest elements.                                              *)

\* A set of numbers that is not empty has a least one: induction, without an operator
\* as a parameter.
LEMMA LeastNat ==
  ASSUME NEW S \in SUBSET Nat, S # {}
  PROVE  \E m \in S : \A k \in S : m <= k
<1> DEFINE R == {p \in Nat \X Nat : p[1] < p[2]}
<1>0. IsWellFoundedOn(R, Nat)
  BY NatLessThanWellFounded DEF OpToRel
<1>2. \A k, m \in Nat : k < m => <<k, m>> \in R
  OBVIOUS
<1> HIDE DEF R
<1>1. \E m \in S : \A k \in S : <<k, m>> \notin R
  BY <1>0, WFMin
<1>3. \A k, m \in Nat : k < m \/ m <= k
  OBVIOUS
<1> QED BY <1>1, <1>2, <1>3

\* A finite set that a strict order ranks has a first element: the one with the fewest
\* above it.
LEMMA FirstExists ==
  ASSUME NEW S, IsFiniteSet(S), S # {}, NEW R,
         \A x, y, z \in S : <<x, y>> \in R /\ <<y, z>> \in R => <<x, z>> \in R,
         \A x \in S : <<x, x>> \notin R
  PROVE  \E m \in S : \A x \in S : <<x, m>> \notin R
<1> DEFINE Above(m) == {x \in S : <<x, m>> \in R}
<1>1. \A m \in S : IsFiniteSet(Above(m)) /\ Cardinality(Above(m)) \in Nat
  <2>1. \A m \in S : Above(m) \in SUBSET S
    OBVIOUS
  <2> HIDE DEF Above
  <2>2. \A m \in S : IsFiniteSet(Above(m))
    BY <2>1, FS_Subset
  <2> QED BY <2>2, FS_CardinalityType
<1>2. PICK m \in S : \A k \in S : Cardinality(Above(m)) <= Cardinality(Above(k))
  <2> HIDE DEF Above
  <2> DEFINE Ranks == {Cardinality(Above(k)) : k \in S}
  <2>1. Ranks \in SUBSET Nat /\ Ranks # {}
    BY <1>1
  <2>2. PICK r \in Ranks : \A k \in Ranks : r <= k
    BY <2>1, LeastNat
  <2> QED BY <2>2
<1>3. ASSUME NEW x \in S, <<x, m>> \in R
      PROVE  FALSE
  <2>1. Above(x) \in SUBSET Above(m)
    BY <1>3
  <2>2. x \in Above(m) /\ x \notin Above(x)
    BY <1>3
  <2> HIDE DEF Above
  <2>3. /\ Cardinality(Above(x)) <= Cardinality(Above(m))
        /\ Cardinality(Above(x)) # Cardinality(Above(m))
    BY <1>1, <2>1, <2>2, FS_Subset
  <2> QED BY <1>1, <1>2, <2>3
<1> QED BY <1>3

\* The largest of finitely many numbers is one of them.
LEMMA MaxIsGreatest ==
  ASSUME NEW S \in SUBSET Int, IsFiniteSet(S), S # {}
  PROVE  Max(S) \in S /\ \A x \in S : x <= Max(S)
<1> DEFINE R == {p \in S \X S : p[1] > p[2]}
<1>1. \A x, y \in S : <<x, y>> \in R <=> x > y
  OBVIOUS
<1>2. \A x \in S : x \in Int
  OBVIOUS
<1> HIDE DEF R
<1>3. \A x, y, z \in S : <<x, y>> \in R /\ <<y, z>> \in R => <<x, z>> \in R
  BY <1>1, <1>2
<1>4. \A x \in S : <<x, x>> \notin R
  BY <1>1, <1>2
<1>5. \E m \in S : \A x \in S : <<x, m>> \notin R
  BY <1>3, <1>4, FirstExists
<1>6. PICK m \in S : \A x \in S : <<x, m>> \notin R
  BY <1>5
<1>7. \A x \in S : ~(x > m)
  BY <1>1, <1>6
<1>8. \A x \in S : m >= x
  BY <1>2, <1>7
<1> QED BY <1>2, <1>8 DEF Max

\* The largest element is the only one at least as large as all.
LEMMA MaxUnique ==
  ASSUME NEW S \in SUBSET Int, IsFiniteSet(S), NEW m \in S, \A x \in S : x <= m
  PROVE  Max(S) = m
<1>1. Max(S) \in S /\ \A x \in S : x <= Max(S)
  BY MaxIsGreatest
<1>2. m <= Max(S) /\ Max(S) <= m /\ m \in Int /\ Max(S) \in Int
  BY <1>1
<1> QED BY <1>2

\* The rows of a sequence of numbers are finite, and Best is the largest of them.
LEMMA BestIsGreatest ==
  ASSUME NEW s \in Seq(Int), s # <<>>
  PROVE  /\ Best(s) \in Int
         /\ \E i \in 1..Len(s) : s[i] = Best(s)
         /\ \A i \in 1..Len(s) : s[i] <= Best(s)
<1> DEFINE V == {s[i] : i \in DOMAIN s}
<1>1. Len(s) \in Nat /\ DOMAIN s = 1..Len(s) /\ s \in [1..Len(s) -> Int] /\ Len(s) # 0
  BY LenProperties, EmptySeq
<1>2. V \in SUBSET Int /\ V # {}
  BY <1>1
<1>3. IsFiniteSet(V)
  <2>1. IsFiniteSet(1..Len(s))
    BY <1>1, FS_Interval
  <2>2. s \in Surjection(1..Len(s), V)
    BY <1>1 DEF Surjection
  <2> QED BY <2>1, <2>2, FS_Surjection
<1>4. Max(V) \in V /\ \A x \in V : x <= Max(V)
  BY <1>2, <1>3, MaxIsGreatest
<1> QED BY <1>1, <1>4 DEF Best

\* Rows with their values, as the tracker has them.
Pairs == Nat \X Int

\* What the tracker keeps is one of three kinds.
Modes == setup.surrogate \in BOOLEAN /\ setup.noiseAware \in BOOLEAN

\* Outranks is a strict total order on rows.
LEMMA OutranksOrder ==
  /\ \A p \in Pairs : ~Outranks(p, p)
  /\ \A p, q, r \in Pairs : Outranks(p, q) /\ Outranks(q, r) => Outranks(p, r)
  /\ \A p, q \in Pairs : ~Outranks(p, q) => q[2] >= p[2]
<1>1. \A p \in Pairs : p[1] \in Nat /\ p[2] \in Int
  BY DEF Pairs
<1> QED BY <1>1 DEF Outranks

\* What the tracker keeps are some of the entries, and finitely many.
LEMMA KeepSome ==
  ASSUME NEW S, IsFiniteSet(S)
  PROVE  Keep(S) \subseteq S /\ IsFiniteSet(Keep(S))
<1>1. Keep(S) \in SUBSET S
  BY DEF Keep
<1> QED BY <1>1, FS_Subset

\* Of the entries of D, some is outranked by none of them.
LEMMA TopOf ==
  ASSUME NEW D \in SUBSET Pairs, IsFiniteSet(D), D # {}
  PROVE  \E p \in D : \A q \in D : ~Outranks(q, p)
<1> DEFINE R == {p \in D \X D : Outranks(p[1], p[2])}
<1>1. \A x, y \in D : <<x, y>> \in R <=> Outranks(x, y)
  OBVIOUS
<1> HIDE DEF R
<1>2. \A x, y, z \in D : <<x, y>> \in R /\ <<y, z>> \in R => <<x, z>> \in R
  BY <1>1, OutranksOrder
<1>3. \A x \in D : <<x, x>> \notin R
  BY <1>1, OutranksOrder
<1> QED BY <1>1, <1>2, <1>3, FirstExists

\* The tracker keeps a row of the largest value.
LEMMA KeepsBest ==
  ASSUME OptimizerAssumption, Modes, NEW S \in SUBSET Pairs, IsFiniteSet(S), S # {}
  PROVE  \E p \in Keep(S) : \A q \in S : q[2] <= p[2]
<1>1. PICK p \in S : \A q \in S : ~Outranks(q, p)
  BY TopOf
<1>2. \A q \in S : q[2] <= p[2]
  BY <1>1, OutranksOrder DEF Pairs
<1>3. Cardinality({q \in S : Outranks(q, p)}) < K
  <2>1. {q \in S : Outranks(q, p)} = {}
    BY <1>1
  <2>2. 0 < K
    BY DEF OptimizerAssumption
  <2> QED BY <2>1, <2>2, FS_EmptySet
<1>4. p \in Keep(S)
  BY <1>2, <1>3 DEF Keep
<1> QED BY <1>2, <1>4

\* Rows told later never bring back a row that was dropped: keeping the best of what was
\* kept and of the new rows is keeping the best of all rows.
LEMMA KeepOfKept ==
  ASSUME OptimizerAssumption, Modes,
         NEW A \in SUBSET Pairs, IsFiniteSet(A), NEW B \in SUBSET Pairs, IsFiniteSet(B)
  PROVE  Keep(Keep(A) \cup B) = Keep(A \cup B)
<1> DEFINE T == Keep(A) \cup B
           U == A \cup B
<1>1. IsFiniteSet(U) /\ IsFiniteSet(T) /\ T \subseteq U /\ Keep(A) \subseteq A
  <2>1. Keep(A) \subseteq A /\ IsFiniteSet(Keep(A))
    BY KeepSome
  <2> QED BY <2>1, FS_Union
<1>5. U \in SUBSET Pairs /\ T \in SUBSET Pairs
  BY <1>1
<1>2. CASE ~setup.surrogate
  BY <1>2 DEF Keep
<1>3. CASE setup.surrogate /\ setup.noiseAware
  <2> DEFINE Above(S, p) == {q \in S : Outranks(q, p)}
  <2>1. \A S : Keep(S) = {p \in S : Cardinality(Above(S, p)) < K}
    BY <1>3 DEF Keep
  <2>2. ASSUME NEW S \in SUBSET U, NEW p
        PROVE  IsFiniteSet(Above(S, p)) /\ Cardinality(Above(S, p)) \in Nat
    <3>1. Above(S, p) \in SUBSET U
      OBVIOUS
    <3> HIDE DEF Above
    <3> QED BY <1>1, <3>1, FS_Subset, FS_CardinalityType
  <2>3. ASSUME NEW S \in SUBSET U, NEW p, NEW S2 \in SUBSET U, NEW p2,
               Above(S, p) \subseteq Above(S2, p2)
        PROVE  Cardinality(Above(S, p)) <= Cardinality(Above(S2, p2))
    <3> HIDE DEF Above
    <3> QED BY <2>2, <2>3, FS_Subset
  <2>4. K \in Nat
    BY DEF OptimizerAssumption
  <2>5. A \in SUBSET U /\ T \in SUBSET U /\ U \in SUBSET U
    BY <1>1
  <2>6. ASSUME NEW p \in Keep(U)
        PROVE  p \in Keep(T)
    <3>1. p \in U /\ Cardinality(Above(U, p)) < K
      BY <2>1
    <3>2. p \in A => p \in Keep(A)
      <4>0. Above(A, p) \subseteq Above(U, p)
        OBVIOUS
      <4> HIDE DEF Above
      <4>1. Cardinality(Above(A, p)) <= Cardinality(Above(U, p))
        BY <2>3, <2>5, <4>0
      <4>2. Cardinality(Above(A, p)) < K
        BY <2>2, <2>4, <2>5, <3>1, <4>1
      <4> QED BY <2>1, <4>2
    <3>0. Above(T, p) \subseteq Above(U, p)
      BY <1>1
    <3> HIDE DEF Above
    <3>3. Cardinality(Above(T, p)) <= Cardinality(Above(U, p))
      BY <2>3, <2>5, <3>0
    <3>4. Cardinality(Above(T, p)) < K
      BY <2>2, <2>4, <2>5, <3>1, <3>3
    <3>5. p \in T
      BY <3>1, <3>2
    <3> HIDE DEF T
    <3> QED BY <2>1, <3>4, <3>5
  <2>7. ASSUME NEW p \in Keep(T)
        PROVE  p \in Keep(U)
    <3>1. p \in T /\ Cardinality(Above(T, p)) < K
      <4> HIDE DEF T
      <4> QED BY <2>1
    <3>2. p \in U
      BY <2>5, <3>1
    <3> DEFINE D == {q \in A \ Keep(A) : Outranks(q, p)}
    <3>3. CASE D = {}
      <4>1. Above(U, p) \subseteq Above(T, p)
        BY <3>3
      <4> HIDE DEF Above
      <4>2. Cardinality(Above(U, p)) <= Cardinality(Above(T, p))
        BY <2>3, <2>5, <4>1
      <4> HIDE DEF U
      <4>3. Cardinality(Above(U, p)) < K
        BY <2>2, <2>4, <2>5, <3>1, <4>2
      <4> QED BY <2>1, <3>2, <4>3
    <3>4. CASE D # {}
      <4>1. D \in SUBSET A /\ D \in SUBSET Pairs
        OBVIOUS
      <4>2. IsFiniteSet(D)
        BY <4>1, FS_Subset
      <4> HIDE DEF D
      <4>3. PICK q \in D : \A x \in D : ~Outranks(x, q)
        BY <3>4, <4>1, <4>2, TopOf
      <4> USE DEF D
      <4>4. \A x \in A : Outranks(x, q) => x \in T /\ Outranks(x, p)
        <5> SUFFICES ASSUME NEW x \in A, Outranks(x, q)
                     PROVE  x \in T /\ Outranks(x, p)
          OBVIOUS
        <5>1. Outranks(x, p)
          <6>1. Outranks(q, p) /\ q \in Pairs /\ x \in Pairs /\ p \in Pairs
            BY <1>1, <3>1
          <6> QED BY <6>1, OutranksOrder
        <5> QED BY <4>3, <5>1
      <4>5. Cardinality(Above(A, q)) <= Cardinality(Above(T, p))
        <5>1. Above(A, q) \subseteq Above(T, p)
          BY <4>4
        <5> HIDE DEF Above
        <5> QED BY <2>3, <2>5, <5>1
      <4>6. ~(Cardinality(Above(A, q)) < K)
        BY <2>1
      <4> HIDE DEF Above
      <4> QED BY <2>2, <2>4, <2>5, <3>1, <4>5, <4>6
    <3> QED BY <3>3, <3>4
  <2> QED BY <2>6, <2>7
<1>4. CASE setup.surrogate /\ ~setup.noiseAware
  <2>1. \A S : Keep(S) = {p \in S : \A q \in S : q[2] <= p[2]}
    BY <1>4 DEF Keep
  <2>2. \A p \in U : p[2] \in Int
    BY <1>5 DEF Pairs
  <2>3. ASSUME NEW p \in Keep(T), NEW q \in U
        PROVE  q[2] <= p[2]
    <3>1. p \in T /\ \A x \in T : x[2] <= p[2]
      <4> HIDE DEF T
      <4> QED BY <2>1
    <3>2. CASE q \in B
      BY <3>1, <3>2
    <3>3. CASE q \in A
      <4>1. PICK m \in Keep(A) : \A x \in A : x[2] <= m[2]
        BY <3>3, KeepsBest
      <4>2. q[2] <= m[2] /\ m[2] <= p[2] /\ m \in U /\ p \in U
        BY <1>1, <3>1, <3>3, <4>1
      <4> QED BY <2>2, <4>2
    <3> QED BY <3>2, <3>3
  <2>4. ASSUME NEW p \in Keep(U)
        PROVE  p \in Keep(T)
    <3>1. p \in U /\ \A x \in U : x[2] <= p[2]
      <4> HIDE DEF U
      <4> QED BY <2>1
    <3>2. p \in A => p \in Keep(A)
      BY <2>1, <3>1
    <3>3. p \in T /\ \A x \in T : x[2] <= p[2]
      BY <1>1, <3>1, <3>2
    <3> HIDE DEF T
    <3> QED BY <2>1, <3>3
  <2>5. ASSUME NEW p \in Keep(T)
        PROVE  p \in Keep(U)
    <3>1. p \in T
      BY <2>1
    <3>2. p \in U
      BY <1>1, <3>1
    <3> HIDE DEF U
    <3> QED BY <2>1, <2>3, <3>2
  <2> QED BY <2>4, <2>5
<1> QED BY <1>2, <1>3, <1>4 DEF Modes

\* The entries of a batch: its rows with their numbers.
LEMMA EntriesOfBatch ==
  ASSUME NEW n \in Nat, NEW b \in Seq(Int)
  PROVE  /\ Entries(n, b) \in SUBSET Pairs
         /\ IsFiniteSet(Entries(n, b))
         /\ \A p \in Entries(n, b) : p[1] \in n + 1..n + Len(b) /\ p[2] = b[p[1] - n]
         /\ \A i \in 1..Len(b) : <<n + i, b[i]>> \in Entries(n, b)
<1>1. Len(b) \in Nat /\ DOMAIN b = 1..Len(b) /\ b \in [1..Len(b) -> Int]
  BY LenProperties
<1>2. \A i \in 1..Len(b) : n + i \in Nat /\ b[i] \in Int
  BY <1>1
<1>3. Entries(n, b) \in SUBSET Pairs
  BY <1>1, <1>2 DEF Entries, Pairs
<1>4. IsFiniteSet(Entries(n, b))
  <2> DEFINE f == [i \in 1..Len(b) |-> <<n + i, b[i]>>]
  <2>1. IsFiniteSet(1..Len(b))
    BY <1>1, FS_Interval
  <2>2. f \in Surjection(1..Len(b), Entries(n, b))
    BY <1>1 DEF Surjection, Entries
  <2> QED BY <2>1, <2>2, FS_Surjection
<1>5. \A p \in Entries(n, b) : p[1] \in n + 1..n + Len(b) /\ p[2] = b[p[1] - n]
  <2> SUFFICES ASSUME NEW i \in DOMAIN b
               PROVE  n + i \in n + 1..n + Len(b) /\ b[i] = b[n + i - n]
    BY DEF Entries
  <2> QED BY <1>1
<1> QED BY <1>1, <1>3, <1>4, <1>5 DEF Entries

\* The entries of a history and of a batch after it are those of the longer history.
LEMMA EntriesConcat ==
  ASSUME NEW s \in Seq(Int), NEW b \in Seq(Int)
  PROVE  Entries(0, s \o b) = Entries(0, s) \cup Entries(Len(s), b)
<1>1. /\ Len(s) \in Nat /\ DOMAIN s = 1..Len(s)
      /\ Len(b) \in Nat /\ DOMAIN b = 1..Len(b)
  BY LenProperties
<1>2. /\ s \o b \in Seq(Int)
      /\ Len(s \o b) = Len(s) + Len(b)
      /\ \A i \in 1..Len(s) + Len(b) :
           (s \o b)[i] = IF i <= Len(s) THEN s[i] ELSE b[i - Len(s)]
  BY ConcatProperties
<1>3. DOMAIN (s \o b) = 1..Len(s) + Len(b)
  BY <1>2, LenProperties
<1>4. ASSUME NEW p \in Entries(0, s \o b)
      PROVE  p \in Entries(0, s) \cup Entries(Len(s), b)
  <2>1. PICK i \in 1..Len(s) + Len(b) : p = <<0 + i, (s \o b)[i]>>
    BY <1>3 DEF Entries
  <2>2. CASE i <= Len(s)
    <3>1. i \in DOMAIN s /\ p = <<0 + i, s[i]>>
      BY <1>1, <1>2, <2>1, <2>2
    <3> QED BY <3>1 DEF Entries
  <2>3. CASE ~(i <= Len(s))
    <3>1. i - Len(s) \in DOMAIN b /\ p = <<Len(s) + (i - Len(s)), b[i - Len(s)]>>
      BY <1>1, <1>2, <2>1, <2>3
    <3> QED BY <3>1 DEF Entries
  <2> QED BY <2>2, <2>3
<1>5. ASSUME NEW p \in Entries(0, s)
      PROVE  p \in Entries(0, s \o b)
  <2>1. PICK i \in 1..Len(s) : p = <<0 + i, s[i]>>
    BY <1>1 DEF Entries
  <2>2. i \in DOMAIN (s \o b) /\ p = <<0 + i, (s \o b)[i]>>
    BY <1>1, <1>2, <1>3, <2>1
  <2> QED BY <2>2 DEF Entries
<1>6. ASSUME NEW p \in Entries(Len(s), b)
      PROVE  p \in Entries(0, s \o b)
  <2>1. PICK i \in 1..Len(b) : p = <<Len(s) + i, b[i]>>
    BY <1>1 DEF Entries
  <2>2. Len(s) + i \in DOMAIN (s \o b) /\ p = <<0 + (Len(s) + i), (s \o b)[Len(s) + i]>>
    BY <1>1, <1>2, <1>3, <2>1
  <2> QED BY <2>2 DEF Entries
<1> QED BY <1>4, <1>5, <1>6

\* A tracker that is in step stays in step with a batch.
LEMMA RebuiltContinues ==
  ASSUME OptimizerAssumption, Modes, NEW s \in Seq(Int), NEW b \in Seq(Int)
  PROVE  Keep(Keep(Entries(0, s)) \cup Entries(Len(s), b)) = Keep(Entries(0, s \o b))
<1>1. Len(s) \in Nat /\ 0 \in Nat
  BY LenProperties
<1>2. /\ Entries(0, s) \in SUBSET Pairs /\ IsFiniteSet(Entries(0, s))
      /\ Entries(Len(s), b) \in SUBSET Pairs /\ IsFiniteSet(Entries(Len(s), b))
  BY <1>1, EntriesOfBatch
<1>3. Keep(Keep(Entries(0, s)) \cup Entries(Len(s), b))
        = Keep(Entries(0, s) \cup Entries(Len(s), b))
  BY <1>2, KeepOfKept
<1> QED BY <1>3, EntriesConcat

\* The incumbent is a row of the history with its value, whatever the tracker keeps.
LEMMA BestOfIsRow ==
  ASSUME NEW s \in Seq(Int), NEW t, t.entries \in SUBSET Pairs,
         \A p \in t.entries : p[1] \in 1..Len(s)
  PROVE  \/ t.entries = {} /\ BestOf(t, s) = None
         \/ \E i \in 1..Len(s) : /\ BestOf(t, s) = [row |-> i, y |-> s[i]]
                                 /\ \A p \in t.entries : s[p[1]] <= s[i]
<1> DEFINE candidates == {p[1] : p \in t.entries}
           tops       == {c \in candidates : \A d \in candidates : s[d] <= s[c]}
<1>1. Len(s) \in Nat /\ s \in [1..Len(s) -> Int]
  BY LenProperties
<1>2. CASE t.entries = {}
  BY <1>2 DEF BestOf
<1>3. CASE t.entries # {}
  <2>1. candidates \in SUBSET (1..Len(s)) /\ candidates # {}
    BY <1>3
  <2>2. IsFiniteSet(1..Len(s))
    BY <1>1, FS_Interval
  <2>3. tops \in SUBSET (1..Len(s))
    BY <2>1
  <2>4. BestOf(t, s) = [row |-> Max(tops), y |-> s[Max(tops)]]
    BY <2>1 DEF BestOf
  <2>5. \A p \in t.entries : p[1] \in candidates
    OBVIOUS
  <2>6. tops # {}
    <3>1. \A d \in candidates : d \in 1..Len(s) /\ s[d] \in Int
      BY <1>1, <2>1
    <3>2. IsFiniteSet(candidates)
      BY <2>1, <2>2, FS_Subset
    <3> HIDE DEF candidates
    <3> DEFINE R == {p \in candidates \X candidates : s[p[1]] > s[p[2]]}
    <3>3. \A x, y \in candidates : <<x, y>> \in R <=> s[x] > s[y]
      OBVIOUS
    <3> HIDE DEF R
    <3>4. \A x, y, z \in candidates : <<x, y>> \in R /\ <<y, z>> \in R => <<x, z>> \in R
      BY <3>1, <3>3
    <3>5. \A x \in candidates : <<x, x>> \notin R
      BY <3>1, <3>3
    <3>6. PICK m \in candidates : \A x \in candidates : <<x, m>> \notin R
      BY <2>1, <3>2, <3>4, <3>5, FirstExists
    <3>7. \A d \in candidates : ~(s[d] > s[m])
      BY <3>3, <3>6
    <3>8. \A d \in candidates : s[d] <= s[m]
      BY <3>1, <3>7
    <3> QED BY <3>8
  <2> HIDE DEF candidates
  <2>7. IsFiniteSet(tops) /\ tops \in SUBSET Int
    BY <1>1, <2>2, <2>3, FS_Subset
  <2> HIDE DEF tops
  <2>8. Max(tops) \in tops
    BY <2>6, <2>7, MaxIsGreatest
  <2> USE DEF tops
  <2>9. Max(tops) \in 1..Len(s) /\ \A p \in t.entries : s[p[1]] <= s[Max(tops)]
    BY <2>3, <2>5, <2>8
  <2> QED BY <2>4, <2>9
<1> QED BY <1>2, <1>3

\* The incumbent that a rebuilt tracker gives has the best value of the history.
LEMMA RebuiltFindsBest ==
  ASSUME OptimizerAssumption, Modes, NEW s \in Seq(Int), s # <<>>
  PROVE  \E i \in 1..Len(s) : BestOf(Rebuilt(s), s) = [row |-> i, y |-> s[i]] /\ s[i] = Best(s)
<1> DEFINE E == Entries(0, s)
<1>1. Len(s) \in Nat /\ Len(s) # 0 /\ s \in [1..Len(s) -> Int]
  BY LenProperties, EmptySeq
<1>2. /\ E \in SUBSET Pairs /\ IsFiniteSet(E)
      /\ \A p \in E : p[1] \in 1..Len(s) /\ p[2] = s[p[1]]
      /\ \A i \in 1..Len(s) : <<i, s[i]>> \in E
  BY <1>1, EntriesOfBatch
<1>3. Rebuilt(s).entries = Keep(E)
  BY DEF Rebuilt
<1>4. E # {}
  <2>1. 1 \in 1..Len(s)
    BY <1>1
  <2> QED BY <1>2, <2>1
<1> HIDE DEF E
<1>5. Keep(E) \subseteq E
  BY <1>2, KeepSome
<1>6. PICK m \in Keep(E) : \A q \in E : q[2] <= m[2]
  BY <1>2, <1>4, KeepsBest
<1>7. PICK i \in 1..Len(s) :
        BestOf(Rebuilt(s), s) = [row |-> i, y |-> s[i]] /\ \A p \in Keep(E) : s[p[1]] <= s[i]
  BY <1>2, <1>3, <1>5, <1>6, BestOfIsRow
<1>8. PICK j \in 1..Len(s) : s[j] = Best(s)
  BY BestIsGreatest
<1>9. s[j] <= m[2] /\ m[2] <= s[i] /\ s[i] <= s[j]
  <2>1. <<j, s[j]>>[2] <= m[2]
    BY <1>2, <1>6
  <2>2. m[2] = s[m[1]]
    BY <1>2, <1>5
  <2> QED BY <1>7, <1>8, <2>1, <2>2, BestIsGreatest
<1>10. s[i] \in Int /\ s[j] \in Int /\ m[2] \in Int
  BY <1>1, <1>2, <1>5 DEF Pairs
<1>11. s[i] = s[j]
  BY <1>9, <1>10
<1> QED BY <1>7, <1>8, <1>11

\* How an optimizer can be set up, and its use.
Setups == [hybrid : BOOLEAN, surrogate : BOOLEAN, noiseAware : BOOLEAN, use : Uses]

\* The accounts of the rows: the model never counts a row it has not stored, and the
\* tracker was told every stored row, at the least.
Accounts ==
  /\ setup \in Setups
  /\ rows \in Seq(Int) /\ known \in 0..Len(rows) /\ fitted \in BOOLEAN
  /\ tracker \in [count : Nat, entries : SUBSET Pairs]
  /\ Len(rows) <= tracker.count
  /\ IsFiniteSet(tracker.entries)
  /\ \A p \in tracker.entries : p[1] \in 1..tracker.count

\* The region: it is fresh while the sample is told, and a batch is left unjudged only
\* after a tell that failed.
Watermark ==
  /\ tr \in [box : Boxes, best : Int \cup {NegInf}, prev : Nat]
  /\ inInit \in BOOLEAN /\ completed \in Nat /\ reinit \in Nat /\ broken \in BOOLEAN
  /\ tr.prev = 0 <=> tr.best = NegInf
  /\ Sampling => tr = FreshTR
  /\ inInit => reinit = 0
  /\ tr.prev # 0 /\ tr.prev # Len(rows) => broken

\* The incumbent is a stored row that the model counts.
Stored ==
  \/ incumbent = None
  \/ Collapsed
  \/ incumbent.row \in 1..known /\ rows[incumbent.row] = incumbent.y

\* The inductive invariant.
OptInv == Accounts /\ Watermark /\ Stored

----------------------------------------------------------------------------
\* A batch of a tell is a sequence of values, one per row, and not empty.
LEMMA BatchIsSeq ==
  ASSUME OptimizerAssumption, Accounts,
         NEW k \in setup.use.batches, NEW batch \in Samples(k)
  PROVE  batch \in Seq(Int) /\ Len(batch) = k /\ k \in Nat \ {0}
<1>1. setup.use \in Uses
  BY DEF Accounts, Setups
<1>2. setup.use.ys \subseteq Int /\ k \in Nat \ {0}
  BY <1>1 DEF OptimizerAssumption
<1>3. batch \in [1..k -> Int]
  BY <1>2 DEF Samples
<1> QED BY <1>2, <1>3

\* Rows added at the end leave those before them.
LEMMA GrownRows ==
  ASSUME NEW s \in Seq(Int), NEW b \in Seq(Int)
  PROVE  /\ s \o b \in Seq(Int) /\ Len(s \o b) = Len(s) + Len(b)
         /\ Len(s) \in Nat /\ Len(b) \in Nat
         /\ \A i \in 1..Len(s) : (s \o b)[i] = s[i]
         /\ SubSeq(s \o b, 1, Len(s)) = s
<1>1. Len(s) \in Nat /\ Len(b) \in Nat
  BY LenProperties
<1>2. /\ s \o b \in Seq(Int) /\ Len(s \o b) = Len(s) + Len(b)
      /\ \A i \in 1..Len(s) + Len(b) :
           (s \o b)[i] = IF i <= Len(s) THEN s[i] ELSE b[i - Len(s)]
  BY ConcatProperties
<1>3. \A i \in 1..Len(s) : (s \o b)[i] = s[i]
  BY <1>1, <1>2
<1>4. SubSeq(s \o b, 1, Len(s)) = s
  <2>1. \A i \in 1..Len(s) : (s \o b)[i] \in Int
    BY <1>1, <1>2, <1>3, ElementOfSeq
  <2>2. /\ SubSeq(s \o b, 1, Len(s)) \in Seq(Int)
        /\ Len(SubSeq(s \o b, 1, Len(s))) = Len(s)
        /\ \A i \in 1..Len(s) : SubSeq(s \o b, 1, Len(s))[i] = (s \o b)[i]
    <3>1. /\ SubSeq(s \o b, 1, Len(s)) \in Seq(Int)
          /\ Len(SubSeq(s \o b, 1, Len(s))) = IF 1 <= Len(s) THEN Len(s) - 1 + 1 ELSE 0
          /\ \A i \in 1..Len(s) - 1 + 1 : SubSeq(s \o b, 1, Len(s))[i] = (s \o b)[1 + i - 1]
      BY <1>1, <2>1, SubSeqProperties
    <3> QED BY <1>1, <3>1
  <2> QED BY <1>3, <2>2, SeqEqual
<1> QED BY <1>1, <1>2, <1>3, <1>4

\* What the tracker has after a batch.
LEMMA TrackTyped ==
  ASSUME OptimizerAssumption, Accounts, NEW batch \in Seq(Int)
  PROVE  /\ Track(batch) \in [count : Nat, entries : SUBSET Pairs]
         /\ Track(batch).count = tracker.count + Len(batch)
         /\ IsFiniteSet(Track(batch).entries)
         /\ Len(batch) > 0 => Track(batch).entries # {}
         /\ \A p \in Track(batch).entries : p[1] \in 1..tracker.count + Len(batch)
<1>1. Len(batch) \in Nat /\ Len(rows) \in Nat /\ known \in Nat
  BY LenProperties DEF Accounts
<1>2. tracker.count \in Nat /\ tracker.entries \in SUBSET Pairs /\ known <= tracker.count
  BY <1>1 DEF Accounts
<1>3. /\ Entries(known, batch) \in SUBSET Pairs
      /\ IsFiniteSet(Entries(known, batch))
      /\ Len(batch) > 0 => <<known + 1, batch[1]>> \in Entries(known, batch)
      /\ \A p \in Entries(known, batch) : p[1] \in known + 1..known + Len(batch)
  BY <1>1, EntriesOfBatch
<1>4. \A S : Keep(S) \subseteq S
  BY DEF Keep
<1>5. Track(batch).entries \subseteq tracker.entries \cup Entries(known, batch)
  BY <1>4 DEF Track
<1>6. \A p \in tracker.entries : p[1] \in 1..tracker.count
  BY DEF Accounts
<1>7. \A p \in tracker.entries \cup Entries(known, batch) :
        p[1] \in 1..tracker.count + Len(batch)
  BY <1>1, <1>2, <1>3, <1>6
<1>8. Track(batch) \in [count : Nat, entries : SUBSET Pairs]
  BY <1>1, <1>2, <1>3, <1>4 DEF Track
<1> DEFINE T == tracker.entries \cup Entries(known, batch)
<1>9. IsFiniteSet(T) /\ T \in SUBSET Pairs
  BY <1>2, <1>3, FS_Union DEF Accounts
<1>10. IsFiniteSet(Keep(T))
  BY <1>9, KeepSome
<1>11. Len(batch) > 0 => Keep(T) # {}
  <2>1. Len(batch) > 0 => T # {}
    BY <1>3
  <2>2. Modes
    BY DEF Modes, Accounts, Setups
  <2> HIDE DEF T
  <2> QED BY <1>9, <2>1, <2>2, KeepsBest
<1>12. Track(batch).count = tracker.count + Len(batch) /\ Track(batch).entries = Keep(T)
  BY DEF Track
<1> QED BY <1>5, <1>7, <1>8, <1>10, <1>11, <1>12

\* What a rebuilt tracker has.
LEMMA RebuiltTyped ==
  ASSUME OptimizerAssumption, Modes, NEW s \in Seq(Int)
  PROVE  /\ Rebuilt(s) \in [count : Nat, entries : SUBSET Pairs]
         /\ Rebuilt(s).count = Len(s)
         /\ IsFiniteSet(Rebuilt(s).entries)
         /\ Len(s) > 0 => Rebuilt(s).entries # {}
         /\ \A p \in Rebuilt(s).entries : p[1] \in 1..Len(s)
<1>1. Len(s) \in Nat
  BY LenProperties
<1>2. /\ Entries(0, s) \in SUBSET Pairs /\ IsFiniteSet(Entries(0, s))
      /\ \A p \in Entries(0, s) : p[1] \in 1..Len(s)
      /\ Len(s) > 0 => Entries(0, s) # {}
  <2>1. /\ Entries(0, s) \in SUBSET Pairs /\ IsFiniteSet(Entries(0, s))
        /\ \A p \in Entries(0, s) : p[1] \in 0 + 1..0 + Len(s)
        /\ \A i \in 1..Len(s) : <<0 + i, s[i]>> \in Entries(0, s)
    BY <1>1, EntriesOfBatch
  <2>2. Len(s) > 0 => 1 \in 1..Len(s)
    BY <1>1
  <2>3. Len(s) > 0 => Entries(0, s) # {}
    BY <2>1, <2>2
  <2> QED BY <1>1, <2>1, <2>3
<1>3. Keep(Entries(0, s)) \subseteq Entries(0, s) /\ IsFiniteSet(Keep(Entries(0, s)))
  BY <1>2, KeepSome
<1>4. Len(s) > 0 => Keep(Entries(0, s)) # {}
  <2> QED BY <1>2, KeepsBest
<1> QED BY <1>1, <1>2, <1>3, <1>4 DEF Rebuilt

\* A tell whose rows are counted leaves rows, model and tracker with one count, and
\* an incumbent that is one of the rows.
LEMMA RecordKeeps ==
  ASSUME OptimizerAssumption, Accounts, NEW batch \in Seq(Int), Len(batch) > 0,
         Record(batch), setup' = setup
  PROVE  /\ Accounts'
         /\ rows' = rows \o batch /\ Len(rows') = Len(rows) + Len(batch)
         /\ known' = Len(rows') /\ tracker'.count = Len(rows')
         /\ \E i \in 1..known' : incumbent' = [row |-> i, y |-> rows'[i]]
<1>0. Modes
  BY DEF Modes, Accounts, Setups
<1>1. /\ rows \in Seq(Int) /\ Len(rows) \in Nat /\ Len(batch) \in Nat
      /\ rows' = rows \o batch /\ rows' \in Seq(Int) /\ Len(rows') = Len(rows) + Len(batch)
      /\ known' = Len(rows')
  BY GrownRows DEF Accounts, Record
<1>2. /\ tracker' \in [count : Nat, entries : SUBSET Pairs]
      /\ tracker'.count = Len(rows')
      /\ IsFiniteSet(tracker'.entries) /\ tracker'.entries # {}
      /\ \A p \in tracker'.entries : p[1] \in 1..Len(rows')
  <2>1. CASE Track(batch).count # known'
    <3>1. tracker' = Rebuilt(rows')
      BY <2>1 DEF Record
    <3>2. Len(rows') > 0
      BY <1>1
    <3> QED BY <1>0, <1>1, <3>1, <3>2, RebuiltTyped
  <2>2. CASE Track(batch).count = known'
    <3>1. tracker' = Track(batch) /\ tracker.count + Len(batch) = Len(rows')
      BY <1>1, <2>2 DEF Record, Track
    <3> QED BY <1>1, <3>1, TrackTyped
  <2> QED BY <2>1, <2>2
<1>3. Accounts'
  <2>1. known' \in 0..Len(rows')
    BY <1>1
  <2>2. fitted' \in BOOLEAN
    BY DEF Record, Accounts, Setups
  <2> QED BY <1>1, <1>2, <2>1, <2>2 DEF Accounts
<1>4. \E i \in 1..known' : incumbent' = [row |-> i, y |-> rows'[i]]
  <2>1. incumbent' = BestOf(tracker', rows')
    BY DEF Record
  <2>2. tracker'.entries \in SUBSET Pairs /\ tracker'.entries # {}
    BY <1>2
  <2>3. \A p \in tracker'.entries : p[1] \in 1..Len(rows')
    BY <1>2
  <2>4. \E i \in 1..Len(rows') : BestOf(tracker', rows') = [row |-> i, y |-> rows'[i]]
    BY <1>1, <2>2, <2>3, BestOfIsRow
  <2> QED BY <1>1, <2>1, <2>4
<1> QED BY <1>1, <1>2, <1>3, <1>4

\* The box after a judgement.
LEMMA JudgedTyped ==
  ASSUME LengthAssumption, NEW b \in Boxes, NEW improved, NEW tolerance \in Int
  PROVE  Judged(b, improved, tolerance) \in Boxes
<1>1. b.length \in Nat /\ b.succ \in Nat /\ b.fail \in Nat /\ LengthMax \in Nat
  BY DEF Boxes, LengthAssumption
<1>2. b.length \div 2 \in Nat /\ Smaller(2 * b.length, LengthMax) \in Nat
  BY <1>1 DEF Smaller
<1> DEFINE succ == IF improved THEN b.succ + 1 ELSE 0
           fail == IF improved THEN 0 ELSE b.fail + 1
<1>3. succ \in Nat /\ fail \in Nat
  BY <1>1
<1>4. CASE succ >= SuccessTolerance
  <2>1. Judged(b, improved, tolerance)
          = [length |-> Smaller(2 * b.length, LengthMax), succ |-> 0, fail |-> fail]
    BY <1>3, <1>4 DEF Judged, SuccessTolerance
  <2> QED BY <1>2, <1>3, <2>1 DEF Boxes
<1>5. CASE succ < SuccessTolerance /\ fail >= tolerance
  <2>1. Judged(b, improved, tolerance)
          = [length |-> b.length \div 2, succ |-> succ, fail |-> 0]
    BY <1>3, <1>5 DEF Judged, SuccessTolerance
  <2> QED BY <1>2, <1>3, <2>1 DEF Boxes
<1>6. CASE ~(succ >= SuccessTolerance) /\ ~(succ < SuccessTolerance /\ fail >= tolerance)
  <2>1. Judged(b, improved, tolerance) = [length |-> b.length, succ |-> succ, fail |-> fail]
    BY <1>3, <1>6 DEF Judged, SuccessTolerance
  <2> QED BY <1>1, <1>3, <2>1 DEF Boxes
<1> QED BY <1>3, <1>4, <1>5, <1>6 DEF SuccessTolerance

\* The tolerance is a number.
LEMMA ToleranceTyped ==
  ASSUME LengthAssumption, NEW k \in Nat \ {0}
  PROVE  FailureTolerance(k) \in Int
<1>1. Larger(4, NumDim) + k - 1 \in Int
  BY DEF LengthAssumption, Larger
<1> QED BY <1>1 DEF FailureTolerance

\* A batch told to the region either continues its watermark and moves it to the last
\* row, or leaves the region alone.
LEMMA TRToldKeeps ==
  ASSUME OptimizerAssumption, LengthAssumption, Accounts, Watermark,
         NEW batch \in Seq(Int), NEW k \in Nat \ {0}, k = Len(batch), NEW y \in Int
  PROVE  /\ TRTold(rows \o batch, k, y) \in [box : Boxes, best : Int \cup {NegInf}, prev : Nat]
         /\ TRTold(rows \o batch, k, y).prev = 0 <=> TRTold(rows \o batch, k, y).best = NegInf
         /\ \/ TRTold(rows \o batch, k, y).prev = Len(rows \o batch)
            \/ TRTold(rows \o batch, k, y) = tr /\ tr.prev # 0 /\ tr.prev # Len(rows)
<1> DEFINE s == rows \o batch
           t == Seeded(tr, s, k)
           u == TRTold(s, k, y)
<1>1. /\ rows \in Seq(Int) /\ Len(rows) \in Nat /\ Len(s) = Len(rows) + k
      /\ SubSeq(s, 1, Len(rows)) = rows
  BY GrownRows DEF Accounts
<1>2. /\ tr = [box |-> tr.box, best |-> tr.best, prev |-> tr.prev]
      /\ tr.box \in Boxes /\ tr.best \in Int \cup {NegInf} /\ tr.prev \in Nat
      /\ tr.prev = 0 <=> tr.best = NegInf
  BY DEF Watermark
<1>3. NegInf \notin Int /\ FailureTolerance(k) \in Int
  BY ToleranceTyped DEF OptimizerAssumption
<1>4. /\ t.box = tr.box /\ t.best \in Int \cup {NegInf} /\ t.prev \in Nat
      /\ t = [box |-> t.box, best |-> t.best, prev |-> t.prev]
      /\ t.prev = Len(rows) \/ (t = tr /\ tr.prev # 0)
  <2>1. CASE tr.prev # 0
    BY <1>2, <2>1 DEF Seeded
  <2>2. CASE tr.prev = 0
    <3>1. Larger(Len(s) - k, 0) = Len(rows)
      BY <1>1 DEF Larger
    <3>2. t = [tr EXCEPT !.prev = Len(rows),
                         !.best = IF tr.best = NegInf /\ Len(rows) > 0
                                    THEN Best(SubSeq(s, 1, Len(rows))) ELSE tr.best]
      BY <2>2, <3>1 DEF Seeded
    <3>3. Len(rows) > 0 => Best(rows) \in Int
      BY <1>1, EmptySeq, BestIsGreatest
    <3> HIDE DEF s, t
    <3> QED BY <1>1, <1>2, <3>2, <3>3
  <2> QED BY <2>1, <2>2
<1>5. u = Updated(t, Len(s), k, y)
  BY DEF TRTold
<1>6. Judged(t.box, Improves(y, t.best), FailureTolerance(k)) \in Boxes
  BY <1>2, <1>3, <1>4, JudgedTyped
<1>7. Len(s) \in Nat /\ Len(s) # 0
  BY <1>1
<1> HIDE DEF s, t
<1>8. CASE Len(s) # t.prev + k
  <2>1. t = tr /\ tr.prev # 0 /\ tr.prev # Len(rows)
    BY <1>1, <1>4, <1>8
  <2>2. u = tr
    BY <1>5, <1>8, <2>1 DEF Updated
  <2> HIDE DEF u
  <2>3. /\ u \in [box : Boxes, best : Int \cup {NegInf}, prev : Nat]
        /\ u.prev = 0 <=> u.best = NegInf
        /\ u = tr /\ tr.prev # 0 /\ tr.prev # Len(rows)
    BY <1>2, <2>1, <2>2
  <2> QED BY <2>3 DEF u, s
<1>9. CASE Len(s) = t.prev + k /\ t.best = NegInf
  <2>1. u = [box |-> t.box, best |-> y, prev |-> Len(s)]
    BY <1>4, <1>5, <1>9 DEF Updated
  <2> HIDE DEF u
  <2>2. /\ u \in [box : Boxes, best : Int \cup {NegInf}, prev : Nat]
        /\ u.prev = 0 <=> u.best = NegInf
        /\ u.prev = Len(s)
    BY <1>2, <1>3, <1>4, <1>7, <2>1
  <2> QED BY <2>2 DEF u, s
<1>10. CASE Len(s) = t.prev + k /\ t.best # NegInf
  <2>1. u = [box  |-> Judged(t.box, Improves(y, t.best), FailureTolerance(k)),
             best |-> Larger(t.best, y), prev |-> Len(s)]
    BY <1>4, <1>5, <1>10 DEF Updated
  <2>2. Larger(t.best, y) \in Int
    BY <1>4, <1>10 DEF Larger
  <2> HIDE DEF u
  <2>3. /\ u \in [box : Boxes, best : Int \cup {NegInf}, prev : Nat]
        /\ u.prev = 0 <=> u.best = NegInf
        /\ u.prev = Len(s)
    BY <1>3, <1>6, <1>7, <2>1, <2>2
  <2> QED BY <2>3 DEF u, s
<1> QED BY <1>8, <1>9, <1>10

----------------------------------------------------------------------------
\* A fresh region has its first length, no baseline and is not collapsed.
LEMMA FreshTyped ==
  ASSUME LengthAssumption
  PROVE  /\ FreshTR \in [box : Boxes, best : Int \cup {NegInf}, prev : Nat]
         /\ FreshTR.prev = 0 /\ FreshTR.best = NegInf /\ ~NeedsRestart(FreshTR.box)
  BY DEF LengthAssumption, FreshTR, InitialBox, Boxes, NeedsRestart

\* An empty tracker.
LEMMA NothingTracked ==
  /\ NoEntries \in [count : Nat, entries : SUBSET Pairs]
  /\ NoEntries.count = 0 /\ NoEntries.entries = {} /\ IsFiniteSet(NoEntries.entries)
  BY FS_EmptySet DEF NoEntries

\* A new optimizer.
LEMMA OptInvInit ==
  ASSUME OptimizerAssumption, LengthAssumption, Init
  PROVE  OptInv
<1>1. Accounts
  <2>1. rows \in Seq(Int) /\ Len(rows) = 0
    BY EmptySeq DEF Init
  <2>2. setup \in Setups
    BY DEF Init, Setups
  <2>3. tracker = NoEntries /\ known = 0 /\ fitted = FALSE
    BY DEF Init
  <2>4. known \in 0..Len(rows)
    BY <2>1, <2>3
  <2>5. fitted \in BOOLEAN
    BY <2>3
  <2> QED BY <2>1, <2>2, <2>3, <2>4, <2>5, NothingTracked DEF Accounts
<1>2. Watermark
  <2>1. tr = FreshTR /\ inInit \in BOOLEAN /\ completed = 0 /\ reinit = 0 /\ broken = FALSE
    BY DEF Init
  <2> QED BY <2>1, FreshTyped DEF Watermark
<1>3. Stored
  BY DEF Init, Stored
<1> QED BY <1>1, <1>2, <1>3 DEF OptInv

\* An incumbent that is stored is not disturbed by rows added at the end.
LEMMA StoredGrows ==
  ASSUME OptInv, known' \in Nat, known <= known', incumbent' = incumbent, tr'.box = tr.box,
         \A i \in 1..known : rows'[i] = rows[i]
  PROVE  Stored'
<1>1. known \in Nat
  BY LenProperties DEF OptInv, Accounts
<1> QED BY <1>1 DEF OptInv, Stored, Collapsed

\* tell, when it fails after the tracker was told.
LEMMA TellFailsKeeps ==
  ASSUME OptimizerAssumption, LengthAssumption, OptInv, TellFails
  PROVE  OptInv'
<1> USE DEF OptInv
<1>1. PICK k \in setup.use.batches,
           fault \in setup.use.faults \cap {"refused", "append", "fit"} :
        \E batch \in Samples(k) :
          /\ tracker' = Track(batch)
          /\ CountSample(batch)
          /\ rows'   = (IF fault = "refused" THEN rows ELSE rows \o batch)
          /\ known'  = (IF fault = "fit" THEN Len(rows') ELSE known)
          /\ fitted' = (fitted \/ fault = "fit")
          /\ broken' = (broken \/ fault # "refused")
          /\ UNCHANGED <<setup, incumbent, tr, inInit, reinit>>
  BY DEF TellFails
<1>2. PICK batch \in Samples(k) :
          /\ tracker' = Track(batch)
          /\ CountSample(batch)
          /\ rows'   = (IF fault = "refused" THEN rows ELSE rows \o batch)
          /\ known'  = (IF fault = "fit" THEN Len(rows') ELSE known)
          /\ fitted' = (fitted \/ fault = "fit")
          /\ broken' = (broken \/ fault # "refused")
          /\ UNCHANGED <<setup, incumbent, tr, inInit, reinit>>
  BY <1>1
<1>3. batch \in Seq(Int) /\ Len(batch) = k /\ k \in Nat \ {0}
  BY <1>2, BatchIsSeq
<1>0. rows \in Seq(Int) /\ known \in 0..Len(rows)
  BY DEF Accounts
<1>4. /\ Len(rows) \in Nat /\ known \in Nat /\ known <= Len(rows)
      /\ rows \o batch \in Seq(Int) /\ Len(rows \o batch) = Len(rows) + k
      /\ \A i \in 1..Len(rows) : (rows \o batch)[i] = rows[i]
  <2>1. /\ Len(rows) \in Nat
        /\ rows \o batch \in Seq(Int) /\ Len(rows \o batch) = Len(rows) + Len(batch)
        /\ \A i \in 1..Len(rows) : (rows \o batch)[i] = rows[i]
    BY <1>0, <1>3, GrownRows
  <2>2. known \in Nat /\ known <= Len(rows)
    BY <1>0, <2>1
  <2> QED BY <1>3, <2>1, <2>2
<1>5. /\ rows' \in Seq(Int) /\ Len(rows') \in Nat /\ Len(rows) <= Len(rows')
      /\ Len(rows') <= Len(rows) + k
      /\ \A i \in 1..known : rows'[i] = rows[i]
      /\ known' \in 0..Len(rows') /\ known <= known'
  <2>1. CASE fault = "refused"
    BY <1>0, <1>2, <1>3, <1>4, <2>1
  <2>2. CASE fault # "refused"
    BY <1>0, <1>2, <1>3, <1>4, <2>2
  <2> QED BY <2>1, <2>2
<1>6. Accounts'
  <2>1. /\ tracker' \in [count : Nat, entries : SUBSET Pairs]
        /\ tracker'.count = tracker.count + k
        /\ IsFiniteSet(tracker'.entries)
        /\ \A p \in tracker'.entries : p[1] \in 1..tracker.count + k
    BY <1>2, <1>3, TrackTyped
  <2>2. Len(rows') <= tracker'.count
    BY <1>3, <1>4, <1>5, <2>1 DEF Accounts
  <2>3. setup' \in Setups /\ fitted' \in BOOLEAN
    BY <1>2 DEF Accounts
  <2> QED BY <1>5, <2>1, <2>2, <2>3 DEF Accounts
<1>7. Watermark'
  <2>1. completed' \in Nat
    BY <1>2, <1>3 DEF CountSample, Watermark
  <2>2. broken' \in BOOLEAN /\ ((rows' = rows /\ broken' = broken) \/ broken')
    BY <1>2 DEF Watermark
  <2> QED BY <1>2, <2>1, <2>2 DEF Watermark, Sampling
<1>8. Stored'
  <2>1. known' \in Nat /\ tr'.box = tr.box /\ incumbent' = incumbent
    BY <1>2, <1>5
  <2> QED BY <1>5, <2>1, StoredGrows
<1> QED BY <1>6, <1>7, <1>8

\* What a tell that stored and counted its rows has done so far.
LEMMA TellsStored ==
  ASSUME OptimizerAssumption, LengthAssumption, OptInv, setup' = setup,
         NEW k \in setup.use.batches, NEW batch \in Samples(k), Record(batch)
  PROVE  /\ Accounts' /\ Stored'
         /\ batch \in Seq(Int) /\ Len(batch) = k /\ k \in Nat \ {0}
         /\ rows' = rows \o batch /\ Len(rows') = Len(rows) + k /\ Len(rows) \in Nat
         /\ known' = Len(rows')
         /\ completed' \in Nat
         /\ incumbent'.y \in Int
<1> USE DEF OptInv
<1>1. batch \in Seq(Int) /\ Len(batch) = k /\ k \in Nat \ {0}
  BY BatchIsSeq
<1>2. /\ Accounts'
      /\ rows' = rows \o batch /\ Len(rows') = Len(rows) + Len(batch)
      /\ known' = Len(rows')
      /\ \E i \in 1..known' : incumbent' = [row |-> i, y |-> rows'[i]]
  <2>1. Accounts /\ Len(batch) > 0
    BY <1>1
  <2> HIDE DEF OptInv
  <2> QED BY <1>1, <2>1, RecordKeeps
<1>3. Len(rows) \in Nat /\ rows' \in Seq(Int)
  BY <1>2, LenProperties DEF Accounts
<1>4. Stored'
  BY <1>2 DEF Stored
<1>5. completed' \in Nat
  BY <1>1 DEF Record, CountSample, Watermark
<1>6. incumbent'.y \in Int
  BY <1>2, <1>3, ElementOfSeq
<1> QED BY <1>1, <1>2, <1>3, <1>4, <1>5, <1>6

\* tell while the sample is told.
LEMMA TellSampleKeeps ==
  ASSUME OptimizerAssumption, LengthAssumption, OptInv, TellSample
  PROVE  OptInv'
<1>0. PICK k \in setup.use.batches : \E batch \in Samples(k) :
        /\ Record(batch)
        /\ \/ /\ reinit' = IF reinit > 0 THEN ReinitLeft(k) ELSE 0
              /\ inInit' = (inInit /\ (reinit > 0 \/ completed' < NumInit))
              /\ UNCHANGED broken
           \/ ReleaseFails(k) /\ broken' = TRUE /\ UNCHANGED <<reinit, inInit>>
  BY DEF TellSample
<1>1. PICK batch \in Samples(k) :
        /\ Record(batch)
        /\ \/ /\ reinit' = IF reinit > 0 THEN ReinitLeft(k) ELSE 0
              /\ inInit' = (inInit /\ (reinit > 0 \/ completed' < NumInit))
              /\ UNCHANGED broken
           \/ ReleaseFails(k) /\ broken' = TRUE /\ UNCHANGED <<reinit, inInit>>
  BY <1>0
<1>2. Sampling /\ setup' = setup /\ tr' = tr
  BY DEF TellSample
<1>3. Accounts' /\ Stored' /\ k \in Nat \ {0} /\ completed' \in Nat
  BY <1>1, <1>2, TellsStored
<1>4. tr = FreshTR
  BY <1>2 DEF OptInv, Watermark
<1>5. /\ inInit \in BOOLEAN /\ reinit \in Nat /\ broken \in BOOLEAN
      /\ inInit => reinit = 0
  BY DEF OptInv, Watermark
<1>6. /\ inInit' \in BOOLEAN /\ reinit' \in Nat /\ broken' \in BOOLEAN
      /\ inInit' => reinit' = 0
  <2>1. CASE UNCHANGED <<reinit, inInit>> /\ broken' = TRUE
    BY <1>5, <2>1
  <2>2. CASE /\ reinit' = IF reinit > 0 THEN ReinitLeft(k) ELSE 0
             /\ inInit' = (inInit /\ (reinit > 0 \/ completed' < NumInit))
             /\ UNCHANGED broken
    <3>1. reinit' \in Nat
      BY <1>3, <1>5, <2>2 DEF ReinitLeft, Larger
    <3>2. inInit' \in BOOLEAN /\ broken' \in BOOLEAN
      BY <1>5, <2>2
    <3>3. inInit' => reinit' = 0
      BY <1>5, <2>2
    <3> QED BY <3>1, <3>2, <3>3
  <2> QED BY <1>1, <2>1, <2>2
<1>7. Watermark'
  BY <1>2, <1>3, <1>4, <1>6, FreshTyped DEF Watermark
<1> QED BY <1>3, <1>7 DEF OptInv

\* tell after the sample.
LEMMA TellSearchKeeps ==
  ASSUME OptimizerAssumption, LengthAssumption, OptInv, TellSearch
  PROVE  OptInv'
<1>0. PICK k \in setup.use.batches : \E batch \in Samples(k) :
        /\ Record(batch)
        /\ \/ tr' = TRTold(rows', k, incumbent'.y) /\ UNCHANGED broken
           \/ ReleaseFails(k) /\ broken' = TRUE /\ UNCHANGED tr
  BY DEF TellSearch
<1>1. PICK batch \in Samples(k) :
        /\ Record(batch)
        /\ \/ tr' = TRTold(rows', k, incumbent'.y) /\ UNCHANGED broken
           \/ ReleaseFails(k) /\ broken' = TRUE /\ UNCHANGED tr
  BY <1>0
<1>2. ~Sampling /\ setup' = setup /\ inInit' = inInit /\ reinit' = reinit
  BY DEF TellSearch
<1>3. /\ Accounts' /\ Stored' /\ completed' \in Nat /\ incumbent'.y \in Int
      /\ batch \in Seq(Int) /\ Len(batch) = k /\ k \in Nat \ {0} /\ rows' = rows \o batch
  BY <1>1, <1>2, TellsStored
<1>4. Accounts /\ Watermark /\ ~Sampling'
  BY <1>2 DEF OptInv, Sampling
<1>5. Watermark'
  <2>1. CASE tr' = TRTold(rows', k, incumbent'.y) /\ UNCHANGED broken
    <3>1. /\ tr' \in [box : Boxes, best : Int \cup {NegInf}, prev : Nat]
          /\ tr'.prev = 0 <=> tr'.best = NegInf
          /\ \/ tr'.prev = Len(rows')
             \/ tr' = tr /\ tr.prev # 0 /\ tr.prev # Len(rows)
      <4>1. tr' = TRTold(rows \o batch, k, incumbent'.y)
        BY <1>3, <2>1
      <4> DEFINE u == TRTold(rows \o batch, k, incumbent'.y)
      <4>2. k = Len(batch)
        BY <1>3
      <4>3. /\ u \in [box : Boxes, best : Int \cup {NegInf}, prev : Nat]
            /\ u.prev = 0 <=> u.best = NegInf
            /\ u.prev = Len(rows \o batch) \/ (u = tr /\ tr.prev # 0 /\ tr.prev # Len(rows))
        BY <1>3, <1>4, <4>2, TRToldKeeps
      <4> HIDE DEF u
      <4> QED BY <1>3, <4>1, <4>3 DEF u
    <3>2. tr'.prev # 0 /\ tr'.prev # Len(rows') => broken'
      BY <1>4, <2>1, <3>1 DEF Watermark
    <3>3. inInit' \in BOOLEAN /\ reinit' \in Nat /\ broken' \in BOOLEAN /\ (inInit' => reinit' = 0)
      BY <1>2, <1>4, <2>1 DEF Watermark
    <3> QED BY <1>3, <1>4, <3>1, <3>2, <3>3 DEF Watermark
  <2>2. CASE broken' = TRUE /\ UNCHANGED tr
    <3>1. /\ inInit' \in BOOLEAN /\ reinit' \in Nat /\ broken' \in BOOLEAN
          /\ inInit' => reinit' = 0
          /\ tr' = tr /\ broken'
      BY <1>2, <1>4, <2>2 DEF Watermark
    <3> QED BY <1>3, <1>4, <3>1 DEF Watermark
  <2> QED BY <1>1, <2>1, <2>2
<1> QED BY <1>3, <1>5 DEF OptInv

\* ask, when it restarts.
LEMMA AskRestartsKeeps ==
  ASSUME OptimizerAssumption, LengthAssumption, OptInv, AskRestarts
  PROVE  OptInv'
<1>1. /\ rows' = <<>> /\ known' = 0 /\ fitted' = FALSE /\ tracker' = NoEntries
      /\ incumbent' = None /\ reinit' = (IF setup.hybrid THEN NumInit ELSE 0)
      /\ tr' = FreshTR /\ broken' = FALSE /\ setup' = setup
      /\ inInit' = inInit /\ completed' = completed
  BY DEF AskRestarts, RestartedIncumbent, RestartedTR
<1>2. ~inInit
  <2>1. Collapsed
    BY DEF AskRestarts
  <2> QED BY <2>1, FreshTyped DEF OptInv, Watermark, Sampling, Collapsed
<1>3. Accounts'
  <2>1. rows' \in Seq(Int) /\ Len(rows') = 0
    BY <1>1, EmptySeq
  <2>2. known' \in 0..Len(rows')
    BY <1>1, <2>1
  <2>3. setup' \in Setups /\ fitted' \in BOOLEAN
    BY <1>1 DEF OptInv, Accounts
  <2> QED BY <1>1, <2>1, <2>2, <2>3, NothingTracked DEF Accounts
<1>4. Watermark'
  <2>1. reinit' \in Nat
    BY <1>1 DEF OptimizerAssumption
  <2>2. completed' \in Nat /\ inInit' \in BOOLEAN /\ broken' \in BOOLEAN /\ ~inInit'
    BY <1>1, <1>2 DEF OptInv, Watermark
  <2> QED BY <1>1, <2>1, <2>2, FreshTyped DEF Watermark
<1>5. Stored'
  BY <1>1 DEF Stored
<1> QED BY <1>3, <1>4, <1>5 DEF OptInv

\* ask, when the restart fails.
LEMMA AskFailsKeeps ==
  ASSUME OptimizerAssumption, LengthAssumption, OptInv, AskFails
  PROVE  OptInv'
<1>1. /\ rows' = <<>> /\ known' = 0 /\ fitted' = FALSE /\ broken' = TRUE
      /\ UNCHANGED <<setup, tracker, incumbent, tr, inInit, completed, reinit>>
  BY DEF AskFails
<1>2. Accounts'
  <2>1. rows' \in Seq(Int) /\ Len(rows') = 0
    BY <1>1, EmptySeq
  <2>2. known' \in 0..Len(rows') /\ Len(rows') <= tracker'.count
    BY <1>1, <2>1 DEF OptInv, Accounts
  <2>3. setup' \in Setups /\ fitted' \in BOOLEAN
    BY <1>1 DEF OptInv, Accounts
  <2> QED BY <1>1, <2>1, <2>2, <2>3 DEF OptInv, Accounts
<1>3. Watermark'
  BY <1>1 DEF OptInv, Watermark, Sampling
<1>4. Stored'
  BY <1>1 DEF AskFails, Stored, Collapsed
<1> QED BY <1>2, <1>3, <1>4 DEF OptInv

\* The invariant is inductive.
LEMMA OptInvNext ==
  ASSUME OptimizerAssumption, LengthAssumption, OptInv, [Next]_vars
  PROVE  OptInv'
<1>1. CASE UNCHANGED vars
  BY <1>1 DEF vars, OptInv, Accounts, Watermark, Stored, Sampling, Collapsed
<1> QED BY <1>1, TellFailsKeeps, TellSampleKeeps, TellSearchKeeps, AskRestartsKeeps,
           AskFailsKeeps DEF Next

\* The accounts of the rows agree after every call, in every order of calls and failures.
THEOREM OptimizerConsistent == Spec => []OptInv
<1>1. Init => OptInv
  BY OptInvInit, OptimizerAssumption, LengthAssumption
<1>2. OptInv /\ [Next]_vars => OptInv'
  BY OptInvNext, OptimizerAssumption, LengthAssumption
<1> QED BY <1>1, <1>2, PTL DEF Spec

\* The incumbent, the centre of the box, is always a stored and counted row with its value:
\* no order of failed tells and restarts leaves it pointing at a row that is gone.
THEOREM IncumbentIsStored == Spec => []IncumbentStored
<1>1. OptInv => IncumbentStored
  BY DEF OptInv, Stored, IncumbentStored
<1> QED BY <1>1, OptimizerConsistent, PTL

\* The model does not fail between storing rows and counting them (model.rs:303-308). When it
\* does, the tracker may have the count of the model and other rows.
AppendNeverFails == \A use \in Uses : "append" \notin use.faults

\* The model counts every stored row, and the tracker is in step with it.
Synced == known = Len(rows) /\ TrackerSynced

\* A model that counts all rows.
LEMMA CountedAll ==
  ASSUME Accounts, known = Len(rows)
  PROVE  Counted = rows
  BY SubSeqFull DEF Accounts, Counted

\* What a rebuild gives after a step that keeps the strategy.
LEMMA RebuiltAfter ==
  ASSUME Accounts', setup' = setup, known' = Len(rows')
  PROVE  Rebuilt(Counted)' = Rebuilt(rows')
<1>1. Counted' = rows'
  BY SubSeqFull DEF Accounts, Counted
<1> QED BY <1>1 DEF Rebuilt, Keep, Entries, Outranks

\* A tracker that is in step and is told a batch has what a rebuild gives.
LEMMA TrackSynced ==
  ASSUME OptimizerAssumption, OptInv, Synced, NEW batch \in Seq(Int),
         Track(batch).count = Len(rows \o batch)
  PROVE  Track(batch) = Rebuilt(rows \o batch)
<1>1. rows \in Seq(Int) /\ Len(rows \o batch) = Len(rows) + Len(batch)
      /\ Len(rows) \in Nat /\ Len(batch) \in Nat /\ known = Len(rows) /\ tracker.count \in Nat
  BY GrownRows DEF OptInv, Accounts, Synced
<1>2. tracker.count = known
  BY <1>1 DEF Track
<1>3. Counted = rows
  BY CountedAll DEF Synced, OptInv
<1>4. tracker = Rebuilt(rows)
  BY <1>2, <1>3 DEF Synced, TrackerSynced
<1>5. tracker.entries = Keep(Entries(0, rows))
  BY <1>4 DEF Rebuilt
<1>6. Keep(tracker.entries \cup Entries(known, batch)) = Keep(Entries(0, rows \o batch))
  <2>1. Modes
    BY DEF Modes, OptInv, Accounts, Setups
  <2> QED BY <1>1, <1>5, <2>1, RebuiltContinues
<1> QED BY <1>1, <1>2, <1>6 DEF Track, Rebuilt

\* A tracker without entries is what a rebuild of no rows gives.
LEMMA EmptySynced ==
  ASSUME NEW t, t.count = 0, t.entries = {}, t \in [count : Nat, entries : SUBSET Pairs]
  PROVE  t = Rebuilt(<<>>)
<1>1. Entries(0, <<>>) = {}
  <2>1. DOMAIN <<>> = {}
    OBVIOUS
  <2> QED BY <2>1 DEF Entries
<1>2. Keep({}) = {}
  BY DEF Keep
<1>3. Rebuilt(<<>>) = [count |-> 0, entries |-> {}]
  BY <1>1, <1>2, EmptySeq DEF Rebuilt
<1> QED BY <1>3

\* A tell that is counted leaves the tracker as a rebuild would.
LEMMA RecordSyncs ==
  ASSUME OptimizerAssumption, OptInv, Synced, NEW batch \in Seq(Int), Len(batch) > 0,
         Record(batch), setup' = setup
  PROVE  Synced' /\ tracker' = Rebuilt(rows')
<1>1. Accounts' /\ rows' = rows \o batch /\ known' = Len(rows')
  BY RecordKeeps DEF OptInv
<1>2. tracker' = Rebuilt(rows')
  <2>1. CASE Track(batch).count # known'
    BY <2>1 DEF Record
  <2>2. CASE Track(batch).count = known'
    BY <1>1, <2>2, TrackSynced DEF Record
  <2> QED BY <2>1, <2>2
<1> QED BY <1>1, <1>2, RebuiltAfter DEF Synced, TrackerSynced

\* A new optimizer is in step.
LEMMA SyncedInit ==
  ASSUME OptimizerAssumption, LengthAssumption, Init
  PROVE  Synced
<1>1. rows = <<>> /\ known = 0 /\ tracker = NoEntries
  BY DEF Init
<1>2. known = Len(rows)
  BY <1>1, EmptySeq
<1>3. Counted = <<>>
  BY <1>1, <1>2, OptInvInit, CountedAll DEF OptInv
<1>4. tracker = Rebuilt(<<>>)
  BY <1>1, NothingTracked, EmptySynced
<1> QED BY <1>2, <1>3, <1>4 DEF Synced, TrackerSynced

\* A restart brings rows and tracker back in step.
LEMMA RestartSynced ==
  ASSUME OptInv', AskRestarts
  PROVE  Synced'
<1>1. rows' = <<>> /\ known' = 0 /\ tracker' = NoEntries /\ setup' = setup
  BY DEF AskRestarts
<1>2. known' = Len(rows')
  BY <1>1, EmptySeq
<1>3. tracker' = Rebuilt(rows')
  BY <1>1, NothingTracked, EmptySynced
<1> QED BY <1>1, <1>2, <1>3, RebuiltAfter DEF OptInv, Synced, TrackerSynced

\* No step takes rows and tracker out of step, if the model never fails between storing rows
\* and counting them.
LEMMA SyncedNext ==
  ASSUME OptimizerAssumption, LengthAssumption, AppendNeverFails, OptInv, Synced, [Next]_vars
  PROVE  Synced'
<1>0. OptInv'
  BY OptInvNext
<1>1. ASSUME TellFails
      PROVE  Synced'
  <2>1. PICK k \in setup.use.batches,
             fault \in setup.use.faults \cap {"refused", "append", "fit"} :
          \E batch \in Samples(k) :
            /\ tracker' = Track(batch)
            /\ rows'   = (IF fault = "refused" THEN rows ELSE rows \o batch)
            /\ known'  = (IF fault = "fit" THEN Len(rows') ELSE known)
            /\ setup' = setup
    BY <1>1 DEF TellFails
  <2>2. PICK batch \in Samples(k) :
            /\ tracker' = Track(batch)
            /\ rows'   = (IF fault = "refused" THEN rows ELSE rows \o batch)
            /\ known'  = (IF fault = "fit" THEN Len(rows') ELSE known)
            /\ setup' = setup
    BY <2>1
  <2>3. batch \in Seq(Int) /\ Len(batch) = k /\ k \in Nat \ {0}
    BY BatchIsSeq DEF OptInv
  <2>4. fault = "refused" \/ fault = "fit"
    BY DEF AppendNeverFails, OptInv, Accounts, Setups
  <2>5. CASE fault = "refused"
    <3>1. known' = known /\ known = Len(rows) /\ rows' = rows
      BY <2>2, <2>5 DEF Synced
    <3>2. tracker'.count = tracker.count + k
      BY <2>2, <2>3 DEF Track
    <3>3. Len(rows) <= tracker.count /\ tracker.count \in Nat /\ Len(rows) \in Nat
      BY LenProperties DEF OptInv, Accounts
    <3> QED BY <2>3, <3>1, <3>2, <3>3 DEF Synced, TrackerSynced
  <2>6. CASE fault = "fit"
    <3>1. rows' = rows \o batch /\ known' = Len(rows') /\ tracker' = Track(batch) /\ setup' = setup
      BY <2>2, <2>6
    <3>2. tracker'.count = known' => tracker' = Rebuilt(rows')
      BY <2>3, <3>1, TrackSynced
    <3> QED BY <1>0, <3>1, <3>2, RebuiltAfter DEF OptInv, Synced, TrackerSynced
  <2> QED BY <2>4, <2>5, <2>6
<1>2. ASSUME TellSample
      PROVE  Synced'
  <2>1. PICK k \in setup.use.batches : \E batch \in Samples(k) : Record(batch)
    BY <1>2 DEF TellSample
  <2>2. PICK batch \in Samples(k) : Record(batch)
    BY <2>1
  <2>3. setup' = setup
    BY <1>2 DEF TellSample
  <2>4. batch \in Seq(Int) /\ Len(batch) > 0
    BY BatchIsSeq DEF OptInv
  <2> QED BY <2>2, <2>3, <2>4, RecordSyncs
<1>3. ASSUME TellSearch
      PROVE  Synced'
  <2>1. PICK k \in setup.use.batches : \E batch \in Samples(k) : Record(batch)
    BY <1>3 DEF TellSearch
  <2>2. PICK batch \in Samples(k) : Record(batch)
    BY <2>1
  <2>3. setup' = setup
    BY <1>3 DEF TellSearch
  <2>4. batch \in Seq(Int) /\ Len(batch) > 0
    BY BatchIsSeq DEF OptInv
  <2> QED BY <2>2, <2>3, <2>4, RecordSyncs
<1>4. ASSUME AskRestarts
      PROVE  Synced'
  BY <1>0, <1>4, RestartSynced
<1>5. ASSUME AskFails
      PROVE  Synced'
  <2>1. rows' = <<>> /\ known' = 0 /\ tracker' = tracker /\ setup' = setup
    BY <1>5 DEF AskFails
  <2>2. known' = Len(rows')
    BY <2>1, EmptySeq
  <2>3. tracker'.count = 0 => tracker' = Rebuilt(rows')
    <3> SUFFICES ASSUME tracker.count = 0
                 PROVE  tracker = Rebuilt(<<>>)
      BY <2>1
    <3>1. tracker \in [count : Nat, entries : SUBSET Pairs] /\ tracker.entries = {}
      BY DEF OptInv, Accounts
    <3> QED BY <3>1, EmptySynced
  <2> QED BY <1>0, <2>1, <2>2, <2>3, RebuiltAfter DEF OptInv, Synced, TrackerSynced
<1>6. CASE UNCHANGED vars
  <2>1. known' = known /\ rows' = rows /\ tracker' = tracker /\ setup' = setup
    BY <1>6 DEF vars
  <2>2. Rebuilt(Counted)' = Rebuilt(rows') /\ Counted = rows
    BY <1>0, <2>1, RebuiltAfter, CountedAll DEF OptInv, Synced
  <2> QED BY <2>1, <2>2 DEF Synced, TrackerSynced
<1> QED BY <1>1, <1>2, <1>3, <1>4, <1>5, <1>6 DEF Next

\* A tracker of the right count holds what a rebuild would, after any failures of the other
\* kinds: the check of the counts in update_incumbent is enough.
THEOREM TrackerInStep == AppendNeverFails /\ Spec => []TrackerSynced
<1> SUFFICES ASSUME AppendNeverFails
             PROVE  Spec => []TrackerSynced
  OBVIOUS
<1>1. Init => OptInv /\ Synced
  BY OptInvInit, SyncedInit, OptimizerAssumption, LengthAssumption
<1>2. OptInv /\ Synced /\ [Next]_vars => OptInv' /\ Synced'
  BY OptInvNext, SyncedNext, OptimizerAssumption, LengthAssumption
<1>3. Synced => TrackerSynced
  BY DEF Synced
<1> QED BY <1>1, <1>2, <1>3, PTL DEF Spec

\* The operators of the abstract search are those of the region.
LEMMA TurboBest == \A s : Turbo!Best(s) = Best(s)
  BY DEF Turbo!Best, Turbo!Max, Best, Max
\* The same.
LEMMA TurboJudged == \A b, g, n : Turbo!Judged(b, g, n) = Judged(b, g, n)
  BY DEF Turbo!Judged, Judged, Turbo!SuccessTolerance, SuccessTolerance, Turbo!Smaller, Smaller
\* The same.
LEMMA TurboRest ==
  /\ \A n : Turbo!FailureTolerance(n) = FailureTolerance(n)
  /\ \A x, b : Turbo!Improves(x, b) = Improves(x, b)
  /\ \A a, b : Turbo!Larger(a, b) = Larger(a, b)
  /\ \A b : Turbo!NeedsRestart(b) = NeedsRestart(b)
  /\ Turbo!InitialBox = InitialBox
  BY DEF Turbo!FailureTolerance, FailureTolerance, Turbo!Improves, Improves, Turbo!Larger, Larger,
         Turbo!NeedsRestart, NeedsRestart, Turbo!InitialBox, InitialBox, Turbo!Abs, Abs

\* What the abstract search has left of its sample, and the size of the next one.
Left   == IF inInit THEN Larger(NumInit - completed, 1) ELSE reinit
Budget == IF setup.hybrid THEN NumInit ELSE 0

\* Rows are left of the sample exactly while it is told.
LEMMA LeftTyped ==
  ASSUME OptimizerAssumption, OptInv
  PROVE  Left \in Nat /\ (Left > 0 <=> Sampling)
<1>1. inInit \in BOOLEAN /\ completed \in Nat /\ reinit \in Nat /\ NumInit \in Nat
  BY DEF OptInv, Watermark, OptimizerAssumption
<1> QED BY <1>1 DEF Left, Larger, Sampling

\* Rows added at the end, as the abstract search sees them.
LEMMA GrowsBy ==
  ASSUME OptInv, NEW batch \in Seq(Int), Len(batch) > 0, rows' = rows \o batch
  PROVE  Turbo!Grows /\ Turbo!Told = Len(batch)
<1>1. /\ Len(rows') = Len(rows) + Len(batch) /\ Len(rows) \in Nat /\ Len(batch) \in Nat
      /\ SubSeq(rows', 1, Len(rows)) = rows
  BY GrownRows DEF OptInv, Accounts
<1> QED BY <1>1 DEF Turbo!Grows, Turbo!Told

\* A new optimizer is a new search.
LEMMA InitImplements ==
  ASSUME OptimizerAssumption, LengthAssumption, Init
  PROVE  Turbo!Init
<1>1. /\ NumInit \in Nat /\ inInit = setup.hybrid /\ completed = 0 /\ reinit = 0
      /\ setup.hybrid \in BOOLEAN
  BY DEF Init, OptimizerAssumption
<1>2. /\ Budget \in Nat /\ Left \in Nat
      /\ Budget = 0 => Left <= 1
      /\ Budget > 0 => Left = Budget
  BY <1>1 DEF Budget, Left, Larger
<1>3. rows = <<>> /\ tr = FreshTR /\ broken = FALSE
  BY DEF Init
<1> QED BY <1>2, <1>3, TurboRest DEF Turbo!Init, Budget, Left, FreshTR

\* What is left of the sample after a batch that was counted and whose tell went on.
LEMMA SampleLeft ==
  ASSUME OptimizerAssumption, OptInv, Sampling, NEW k \in Nat \ {0},
         completed' = IF inInit /\ reinit = 0 THEN completed + k ELSE completed,
         reinit' = IF reinit > 0 THEN ReinitLeft(k) ELSE 0,
         inInit' = (inInit /\ (reinit > 0 \/ completed' < NumInit))
  PROVE  Left' = Larger(Left - k, 0)
<1>1. inInit \in BOOLEAN /\ completed \in Nat /\ reinit \in Nat /\ NumInit \in Nat
      /\ (inInit => reinit = 0)
  BY DEF OptInv, Watermark, OptimizerAssumption
<1>2. CASE inInit
  <2>1. reinit = 0 /\ reinit' = 0 /\ completed' = completed + k
    BY <1>1, <1>2
  <2>2. inInit' = (completed' < NumInit)
    BY <1>2, <2>1
  <2>3. CASE completed' < NumInit
    <3>1. Left' = Larger(NumInit - completed', 1) /\ Left = Larger(NumInit - completed, 1)
      BY <1>2, <2>2, <2>3 DEF Left
    <3> QED BY <1>1, <2>1, <2>3, <3>1 DEF Larger
  <2>4. CASE ~(completed' < NumInit)
    <3>1. Left' = 0 /\ Left = Larger(NumInit - completed, 1)
      BY <1>2, <2>1, <2>2, <2>4 DEF Left
    <3> QED BY <1>1, <2>1, <2>4, <3>1 DEF Larger
  <2> QED BY <2>3, <2>4
<1>3. CASE ~inInit
  <2>1. reinit > 0 /\ ~inInit' /\ reinit' = ReinitLeft(k)
    BY <1>1, <1>3 DEF Sampling
  <2> QED BY <1>1, <1>3, <2>1 DEF Left, Larger, ReinitLeft
<1> QED BY <1>2, <1>3

\* What is left of the sample after a batch that was counted and whose tell failed.
LEMMA FailLeft ==
  ASSUME OptimizerAssumption, OptInv, NEW k \in Nat \ {0},
         completed' = IF inInit /\ reinit = 0 THEN completed + k ELSE completed,
         reinit' = reinit, inInit' = inInit
  PROVE  Left' \in 0..Left /\ (Left > 0 => Left' > 0)
<1>1. inInit \in BOOLEAN /\ completed \in Nat /\ reinit \in Nat /\ NumInit \in Nat
      /\ (inInit => reinit = 0)
  BY DEF OptInv, Watermark, OptimizerAssumption
<1> QED BY <1>1 DEF Left, Larger

\* A tell that fails, with or without its rows, is a failed tell of the search.
LEMMA FailImplements ==
  ASSUME OptimizerAssumption, OptInv, NEW k \in Nat \ {0},
         NEW batch \in Seq(Int), Len(batch) = k,
         CountSample(batch), reinit' = reinit, inInit' = inInit, setup' = setup, tr' = tr,
         (rows' = rows \o batch /\ broken' = TRUE) \/ (rows' = rows /\ broken' = broken)
  PROVE  Turbo!Fail
<1>1. Left' \in 0..Left /\ (Left > 0 => Left' > 0)
  BY FailLeft DEF CountSample
<1>2. (Turbo!Grows /\ broken') \/ UNCHANGED <<rows, broken>>
  BY GrowsBy
<1> QED BY <1>1, <1>2 DEF Turbo!Fail, Left

\* tell, when it fails after the tracker was told.
LEMMA TellFailsImplements ==
  ASSUME OptimizerAssumption, OptInv, TellFails
  PROVE  Turbo!Fail
<1>1. PICK k \in setup.use.batches,
           fault \in setup.use.faults \cap {"refused", "append", "fit"} :
        \E batch \in Samples(k) :
          /\ CountSample(batch)
          /\ rows'   = (IF fault = "refused" THEN rows ELSE rows \o batch)
          /\ broken' = (broken \/ fault # "refused")
          /\ UNCHANGED <<setup, tr, inInit, reinit>>
  BY DEF TellFails
<1>2. PICK batch \in Samples(k) :
          /\ CountSample(batch)
          /\ rows'   = (IF fault = "refused" THEN rows ELSE rows \o batch)
          /\ broken' = (broken \/ fault # "refused")
          /\ UNCHANGED <<setup, tr, inInit, reinit>>
  BY <1>1
<1>3. batch \in Seq(Int) /\ Len(batch) = k /\ k \in Nat \ {0}
  BY BatchIsSeq DEF OptInv
<1>4. (rows' = rows \o batch /\ broken' = TRUE) \/ (rows' = rows /\ broken' = broken)
  BY <1>2 DEF OptInv, Watermark
<1> QED BY <1>2, <1>3, <1>4, FailImplements

\* tell while the sample is told.
LEMMA TellSampleImplements ==
  ASSUME OptimizerAssumption, OptInv, TellSample
  PROVE  Turbo!Sample \/ Turbo!Fail
<1>0. PICK k \in setup.use.batches : \E batch \in Samples(k) :
        /\ Record(batch)
        /\ \/ /\ reinit' = IF reinit > 0 THEN ReinitLeft(k) ELSE 0
              /\ inInit' = (inInit /\ (reinit > 0 \/ completed' < NumInit))
              /\ UNCHANGED broken
           \/ ReleaseFails(k) /\ broken' = TRUE /\ UNCHANGED <<reinit, inInit>>
  BY DEF TellSample
<1>1. PICK batch \in Samples(k) :
        /\ Record(batch)
        /\ \/ /\ reinit' = IF reinit > 0 THEN ReinitLeft(k) ELSE 0
              /\ inInit' = (inInit /\ (reinit > 0 \/ completed' < NumInit))
              /\ UNCHANGED broken
           \/ ReleaseFails(k) /\ broken' = TRUE /\ UNCHANGED <<reinit, inInit>>
  BY <1>0
<1>2. Sampling /\ setup' = setup /\ tr' = tr
  BY DEF TellSample
<1>3. batch \in Seq(Int) /\ Len(batch) = k /\ k \in Nat \ {0} /\ Len(batch) > 0
  BY BatchIsSeq DEF OptInv
<1>4. CountSample(batch) /\ rows' = rows \o batch
  BY <1>1 DEF Record
<1>5. CASE /\ reinit' = IF reinit > 0 THEN ReinitLeft(k) ELSE 0
           /\ inInit' = (inInit /\ (reinit > 0 \/ completed' < NumInit))
           /\ UNCHANGED broken
  <2>1. Left' = Larger(Left - k, 0)
    BY <1>2, <1>3, <1>4, <1>5, SampleLeft DEF CountSample
  <2>2. Left > 0
    BY <1>2, LeftTyped
  <2>3. Turbo!Grows /\ Turbo!Told = k
    BY <1>3, <1>4, GrowsBy
  <2> QED BY <1>2, <1>5, <2>1, <2>2, <2>3, TurboRest DEF Turbo!Sample, Left
<1>6. CASE broken' = TRUE /\ UNCHANGED <<reinit, inInit>>
  BY <1>2, <1>3, <1>4, <1>6, FailImplements
<1> QED BY <1>1, <1>5, <1>6

\* The incumbent that the region is told has the best value of all rows.
LEMMA ToldBest ==
  ASSUME OptimizerAssumption, OptInv, Synced, NEW batch \in Seq(Int), Len(batch) > 0,
         Record(batch), setup' = setup
  PROVE  incumbent'.y = Best(rows') /\ Best(rows') \in Int
<1>1. tracker' = Rebuilt(rows') /\ incumbent' = BestOf(tracker', rows')
  BY RecordSyncs DEF Record
<1>2. rows' \in Seq(Int) /\ rows' # <<>>
  <2>1. rows' = rows \o batch /\ rows \in Seq(Int)
    BY DEF Record, OptInv, Accounts
  <2>2. rows' \in Seq(Int) /\ Len(rows') = Len(rows) + Len(batch) /\ Len(rows) \in Nat
    BY <2>1, GrownRows
  <2> QED BY <2>2, EmptySeq
<1>3. Modes
  BY DEF Modes, OptInv, Accounts, Setups
<1>4. \E i \in 1..Len(rows') :
        BestOf(Rebuilt(rows'), rows') = [row |-> i, y |-> rows'[i]] /\ rows'[i] = Best(rows')
  BY <1>2, <1>3, RebuiltFindsBest
<1>5. incumbent'.y = Best(rows')
  BY <1>1, <1>4
<1> QED BY <1>2, <1>5, BestIsGreatest

\* tell after the sample: one judgement, of the best row so far against the best before it.
LEMMA TellSearchImplements ==
  ASSUME OptimizerAssumption, LengthAssumption, OptInv, Synced, TellSearch
  PROVE  Turbo!Search \/ Turbo!Unjudged \/ Turbo!Fail
<1>0. PICK k \in setup.use.batches : \E batch \in Samples(k) :
        /\ Record(batch)
        /\ \/ tr' = TRTold(rows', k, incumbent'.y) /\ UNCHANGED broken
           \/ ReleaseFails(k) /\ broken' = TRUE /\ UNCHANGED tr
  BY DEF TellSearch
<1>1. PICK batch \in Samples(k) :
        /\ Record(batch)
        /\ \/ tr' = TRTold(rows', k, incumbent'.y) /\ UNCHANGED broken
           \/ ReleaseFails(k) /\ broken' = TRUE /\ UNCHANGED tr
  BY <1>0
<1>2. ~Sampling /\ setup' = setup /\ inInit' = inInit /\ reinit' = reinit
  BY DEF TellSearch
<1>3. batch \in Seq(Int) /\ Len(batch) = k /\ k \in Nat \ {0} /\ Len(batch) > 0
  BY BatchIsSeq DEF OptInv
<1>4. CountSample(batch) /\ rows' = rows \o batch
  BY <1>1 DEF Record
<1>5. Turbo!Grows /\ Turbo!Told = k
  BY <1>3, <1>4, GrowsBy
<1>6. ~inInit /\ ~inInit' /\ Left = 0 /\ Left' = 0
  <2>1. reinit \in Nat /\ inInit \in BOOLEAN
    BY DEF OptInv, Watermark
  <2> QED BY <1>2, <2>1 DEF Sampling, Left
<1>7. /\ rows \in Seq(Int) /\ Len(rows) \in Nat /\ Len(rows') = Len(rows) + k
      /\ SubSeq(rows', 1, Len(rows)) = rows
      /\ Len(rows) = 0 <=> rows = <<>>
  BY <1>3, <1>4, GrownRows, EmptySeq DEF OptInv, Accounts
<1>8. incumbent'.y = Best(rows') /\ Best(rows') \in Int
  BY <1>1, <1>2, <1>3, ToldBest
<1>9. /\ tr = [box |-> tr.box, best |-> tr.best, prev |-> tr.prev]
      /\ tr.best \in Int \cup {NegInf} /\ tr.prev \in Nat
      /\ tr.prev = 0 <=> tr.best = NegInf
      /\ tr.prev # 0 /\ tr.prev # Len(rows) => broken
  BY DEF OptInv, Watermark
<1>10. NegInf \notin Int
  BY DEF OptimizerAssumption
<1>11. CASE broken' = TRUE /\ UNCHANGED tr
  BY <1>2, <1>3, <1>4, <1>11, FailImplements
<1>12. CASE tr' = TRTold(rows', k, incumbent'.y) /\ UNCHANGED broken
  <2> DEFINE t == Seeded(tr, rows', k)
             y == Best(rows')
  <2>1. tr' = Updated(t, Len(rows'), k, y)
    BY <1>8, <1>12 DEF TRTold
  <2>2. CASE tr.prev # 0 /\ tr.prev # Len(rows)
    <3>1. t = tr
      BY <2>2 DEF Seeded
    <3>2. Len(rows') # tr.prev + k
      BY <1>3, <1>7, <1>9, <2>2
    <3>3. tr' = tr
      BY <2>1, <3>1, <3>2 DEF Updated
    <3>4. Turbo!Unjudged
      BY <1>2, <1>5, <1>6, <1>9, <1>12, <2>2, <3>3 DEF Turbo!Unjudged, Left
    <3> QED BY <3>4
  <2>3. CASE tr.prev = 0 /\ rows = <<>>
    <3>1. t.prev = 0 /\ t.best = NegInf /\ t = [box |-> tr.box, best |-> NegInf, prev |-> 0]
      <4>1. Larger(Len(rows') - k, 0) = 0
        BY <1>3, <1>7, <2>3 DEF Larger
      <4>2. ~(Larger(Len(rows') - k, 0) > 0)
        BY <4>1
      <4> QED BY <1>9, <2>3, <4>1, <4>2 DEF Seeded
    <3>2. tr' = [box |-> tr.box, best |-> y, prev |-> Len(rows')]
      <4>1. Len(rows') = t.prev + k
        BY <1>3, <1>7, <2>3, <3>1
      <4> HIDE DEF t, y
      <4>2. tr' = [t EXCEPT !.best = y, !.prev = Len(rows')]
        BY <2>1, <3>1, <4>1 DEF Updated
      <4>3. t = [box |-> tr.box, best |-> NegInf, prev |-> 0]
        BY <3>1
      <4> QED BY <4>2, <4>3
    <3>3. Turbo!Search
      BY <1>2, <1>5, <1>6, <1>12, <2>3, <3>2, TurboBest DEF Turbo!Search, Left
    <3> QED BY <3>3
  <2>4. CASE rows # <<>> /\ (tr.prev = 0 \/ tr.prev = Len(rows))
    <3> DEFINE before == IF tr.prev = 0 THEN Best(rows) ELSE tr.best
    <3>1. t = [box |-> tr.box, best |-> before, prev |-> Len(rows)]
      <4>1. CASE tr.prev = 0
        <5>1. Larger(Len(rows') - k, 0) = Len(rows) /\ Len(rows) > 0
          BY <1>3, <1>7, <2>4 DEF Larger
        <5> QED BY <1>7, <1>9, <4>1, <5>1 DEF Seeded
      <4>2. CASE tr.prev # 0
        BY <1>9, <2>4, <4>2 DEF Seeded
      <4> QED BY <4>1, <4>2
    <3>2. before # NegInf
      BY <1>9, <1>10, <2>4, BestIsGreatest, <1>7
    <3> HIDE DEF before, t
    <3>3. tr' = [box |-> Judged(tr.box, Improves(y, before), FailureTolerance(k)),
                 best |-> Larger(before, y), prev |-> Len(rows')]
      BY <1>7, <2>1, <3>1, <3>2 DEF Updated
    <3> HIDE DEF y
    <3>4. /\ tr'.box = Judged(tr.box, Improves(y, before), FailureTolerance(k))
          /\ tr'.best = Larger(before, y) /\ tr'.prev = Len(rows')
      BY <3>3
    <3>5. Turbo!Search
      BY <1>2, <1>5, <1>6, <1>12, <2>4, <3>4, TurboBest, TurboJudged, TurboRest
         DEF Turbo!Search, Left, before, y
    <3> QED BY <3>5
  <2> QED BY <2>2, <2>3, <2>4
<1> QED BY <1>1, <1>11, <1>12

\* ask, when it restarts.
LEMMA AskRestartsImplements ==
  ASSUME OptimizerAssumption, LengthAssumption, OptInv, AskRestarts
  PROVE  Turbo!Restart
<1>1. ~inInit
  <2>1. Collapsed
    BY DEF AskRestarts
  <2> QED BY <2>1, FreshTyped DEF OptInv, Watermark, Sampling, Collapsed
<1>2. /\ Collapsed /\ rows' = <<>> /\ reinit' = Budget /\ tr' = FreshTR /\ broken' = FALSE
      /\ setup' = setup /\ inInit' = inInit
  BY DEF AskRestarts, RestartedTR, Budget
<1>3. Left' = Budget
  BY <1>1, <1>2 DEF Left
<1> QED BY <1>2, <1>3, TurboRest DEF Turbo!Restart, Collapsed, FreshTR, Left, Budget

\* ask, when the restart fails.
LEMMA AskFailsImplements ==
  ASSUME AskFails
  PROVE  Turbo!FailRestart
  BY TurboRest DEF AskFails, Turbo!FailRestart, Collapsed

\* The optimizer is the TuRBO search of TurboSearch: the tracker that keeps few rows, the
\* watermark, the seeding of the baseline and the counters of the sample add up to judging every
\* batch once, by the best of the whole history.
THEOREM ImplementsSearch == AppendNeverFails /\ Spec => ImplementsTurbo
<1> SUFFICES ASSUME AppendNeverFails
             PROVE  Spec => ImplementsTurbo
  OBVIOUS
<1>1. Init => OptInv /\ Synced /\ Turbo!Init
  BY OptInvInit, SyncedInit, InitImplements, OptimizerAssumption, LengthAssumption
<1>2. OptInv /\ Synced /\ [Next]_vars => OptInv' /\ Synced'
  BY OptInvNext, SyncedNext, OptimizerAssumption, LengthAssumption
<1>3. OptInv /\ Synced /\ [Next]_vars => [Turbo!Next]_(Turbo!vars)
  <2> SUFFICES ASSUME OptInv, Synced, [Next]_vars
               PROVE  [Turbo!Next]_(Turbo!vars)
    OBVIOUS
  <2>1. CASE UNCHANGED vars
    BY <2>1 DEF vars, Turbo!vars
  <2>2. CASE Next
    BY <2>2, TellFailsImplements, TellSampleImplements, TellSearchImplements,
       AskRestartsImplements, AskFailsImplements, OptimizerAssumption, LengthAssumption
       DEF Next, Turbo!Next
  <2> QED BY <2>1, <2>2
<1> QED BY <1>1, <1>2, <1>3, PTL DEF Spec, ImplementsTurbo, Turbo!Spec

\* Counting up to T in a circle.
LEMMA ModNext ==
  ASSUME NEW r \in Nat, NEW T \in Nat \ {0}
  PROVE  /\ r % T \in 0..T - 1
         /\ (r + 1) % T = IF (r % T) + 1 = T THEN 0 ELSE (r % T) + 1
<1> DEFINE q == r \div T
           m == r % T
           p == (r + 1) \div T
           n == (r + 1) % T
<1>1. q \in Int /\ m \in 0..T - 1 /\ r = T * q + m
  OBVIOUS
<1>2. p \in Int /\ n \in 0..T - 1 /\ r + 1 = T * p + n
  OBVIOUS
<1> HIDE DEF q, m, p, n
<1>3. T * (p - q) = m + 1 - n
  BY <1>1, <1>2
<1>4. p - q >= 0
  <2>1. CASE p - q <= -1
    <3>1. T * (p - q) <= -T
      BY <1>1, <1>2, <2>1
    <3> QED BY <1>1, <1>2, <1>3, <3>1
  <2> QED BY <1>1, <1>2, <2>1
<1>5. p - q <= 1
  <2>1. CASE p - q >= 2
    <3>1. T * (p - q) >= T + T
      BY <1>1, <1>2, <2>1
    <3> QED BY <1>1, <1>2, <1>3, <3>1
  <2> QED BY <1>1, <1>2, <2>1
<1>6. CASE p = q
  BY <1>1, <1>2, <1>3, <1>6 DEF m, n
<1>7. CASE p = q + 1
  <2>1. T = m + 1 - n
    BY <1>1, <1>2, <1>3, <1>7
  <2>2. n = 0 /\ m + 1 = T
    BY <1>1, <1>2, <2>1
  <2> QED BY <1>1, <2>2 DEF m, n
<1>8. p = q \/ p = q + 1
  BY <1>1, <1>2, <1>4, <1>5
<1> QED BY <1>6, <1>7, <1>8

\* Gains and runs, as operators of the rows.
GainIn(s, i) == Improves(Best(SubSeq(s, 1, i)), Best(SubSeq(s, 1, i - 1)))

RunsIn(s, p, g) == {n \in 0..Len(s) - p : \A i \in Len(s) - n + 1..Len(s) : GainIn(s, i) = g}

\* The runs of the region, by its rows.
LEMMA InARowIs ==
  /\ \A g : InARow(g) = Max(RunsIn(rows, Prefix, g))
  /\ setup' = setup => \A g : InARow(g)' = Max(RunsIn(rows', Prefix, g))
<1>1. \A i : Gain(i) = GainIn(rows, i)
  BY DEF Gain, GainIn
<1>2. \A i : Gain(i)' = GainIn(rows', i)
  BY DEF Gain, GainIn
<1>3. setup' = setup => Prefix' = Prefix
  BY DEF Prefix
<1> QED BY <1>1, <1>2, <1>3 DEF InARow, RunsIn

\* A run is a number, and none is longer.
LEMMA RunTyped ==
  ASSUME NEW s \in Seq(Int), NEW p \in Nat, p <= Len(s), NEW g
  PROVE  /\ RunsIn(s, p, g) \in SUBSET Int /\ IsFiniteSet(RunsIn(s, p, g))
         /\ 0 \in RunsIn(s, p, g)
         /\ Max(RunsIn(s, p, g)) \in RunsIn(s, p, g)
         /\ Max(RunsIn(s, p, g)) \in Nat
         /\ \A n \in RunsIn(s, p, g) : n <= Max(RunsIn(s, p, g))
<1>1. Len(s) \in Nat
  BY LenProperties
<1>2. RunsIn(s, p, g) \in SUBSET (0..Len(s) - p) /\ 0 \in RunsIn(s, p, g)
  BY <1>1 DEF RunsIn
<1>3. IsFiniteSet(0..Len(s) - p)
  BY <1>1, FS_Interval
<1>4. IsFiniteSet(RunsIn(s, p, g)) /\ RunsIn(s, p, g) \in SUBSET Int
  BY <1>2, <1>3, FS_Subset
<1>5. /\ Max(RunsIn(s, p, g)) \in RunsIn(s, p, g)
      /\ \A n \in RunsIn(s, p, g) : n <= Max(RunsIn(s, p, g))
  BY <1>2, <1>4, MaxIsGreatest
<1> QED BY <1>2, <1>4, <1>5

\* No row after the prefix: no run.
LEMMA RunStarts ==
  ASSUME NEW s \in Seq(Int), NEW g
  PROVE  Max(RunsIn(s, Len(s), g)) = 0
<1>1. Len(s) \in Nat
  BY LenProperties
<1>2. RunsIn(s, Len(s), g) \subseteq {0}
  BY <1>1 DEF RunsIn
<1> QED BY <1>1, <1>2, RunTyped

\* One row more makes a run longer by one, or ends it.
LEMMA RunGrows ==
  ASSUME NEW s \in Seq(Int), NEW b \in Seq(Int), Len(b) = 1, NEW p \in Nat, p <= Len(s),
         NEW g \in BOOLEAN
  PROVE  Max(RunsIn(s \o b, p, g)) =
           IF Improves(Best(s \o b), Best(s)) = g THEN Max(RunsIn(s, p, g)) + 1 ELSE 0
<1> DEFINE t == s \o b
           S == RunsIn(s, p, g)
           T == RunsIn(t, p, g)
<1>1. /\ t \in Seq(Int) /\ Len(t) = Len(s) + 1 /\ Len(s) \in Nat /\ SubSeq(t, 1, Len(s)) = s
      /\ SubSeq(t, 1, Len(t)) = t
  <2>1. t \in Seq(Int) /\ Len(t) = Len(s) + Len(b) /\ Len(s) \in Nat /\ SubSeq(t, 1, Len(s)) = s
    BY GrownRows
  <2> HIDE DEF t
  <2> QED BY <2>1, SubSeqFull
<1>2. \A i \in 1..Len(s) : SubSeq(t, 1, i) = SubSeq(s, 1, i)
  <2> SUFFICES ASSUME NEW i \in 1..Len(s)
               PROVE  SubSeq(t, 1, i) = SubSeq(s, 1, i)
    OBVIOUS
  <2>1. 1 \in 1..Len(s)
    BY <1>1
  <2> QED BY <2>1, SubSeqOfConcat1
<1>3. SubSeq(t, 1, 0) = SubSeq(s, 1, 0)
  BY SubSeqEmpty
<1>4. \A i \in 1..Len(s) : GainIn(t, i) = GainIn(s, i)
  <2> SUFFICES ASSUME NEW i \in 1..Len(s)
               PROVE  GainIn(t, i) = GainIn(s, i)
    OBVIOUS
  <2>1. i - 1 = 0 \/ i - 1 \in 1..Len(s)
    BY <1>1
  <2>2. SubSeq(t, 1, i - 1) = SubSeq(s, 1, i - 1)
    BY <1>2, <1>3, <2>1
  <2>3. SubSeq(t, 1, i) = SubSeq(s, 1, i)
    BY <1>2
  <2> HIDE DEF t
  <2> QED BY <2>2, <2>3 DEF GainIn
<1>5. GainIn(t, Len(t)) = Improves(Best(t), Best(s))
  <2>1. Len(t) - 1 = Len(s)
    BY <1>1
  <2> QED BY <1>1, <2>1 DEF GainIn
<1> HIDE DEF t
<1>6. /\ S \in SUBSET Int /\ IsFiniteSet(S) /\ Max(S) \in S /\ Max(S) \in Nat
      /\ \A n \in S : n <= Max(S)
  BY RunTyped
<1>7. /\ T \in SUBSET Int /\ IsFiniteSet(T) /\ 0 \in T
  BY <1>1, RunTyped
<1>8. CASE GainIn(t, Len(t)) = g
  <2>1. Max(S) + 1 \in T
    <3>1. Max(S) \in 0..Len(s) - p /\ \A i \in Len(s) - Max(S) + 1..Len(s) : GainIn(s, i) = g
      BY <1>6 DEF RunsIn
    <3> DEFINE M == Max(S)
    <3>2. M \in 0..Len(s) - p /\ \A i \in Len(s) - M + 1..Len(s) : GainIn(s, i) = g
      BY <3>1
    <3> HIDE DEF M
    <3>3. ASSUME NEW i \in Len(t) - (M + 1) + 1..Len(t)
          PROVE  GainIn(t, i) = g
      <4>1. CASE i = Len(t)
        BY <1>8, <4>1
      <4>2. CASE i # Len(t)
        <5>1. i \in Len(s) - M + 1..Len(s) /\ i \in 1..Len(s)
          BY <1>1, <3>2, <4>2
        <5> QED BY <1>4, <3>2, <5>1
      <4> QED BY <4>1, <4>2
    <3>4. M + 1 \in 0..Len(t) - p
      BY <1>1, <3>2
    <3> QED BY <3>3, <3>4 DEF RunsIn, M
  <2>2. ASSUME NEW n \in T
        PROVE  n <= Max(S) + 1
    <3>1. n \in 0..Len(t) - p /\ \A i \in Len(t) - n + 1..Len(t) : GainIn(t, i) = g
      BY DEF RunsIn
    <3>2. CASE n = 0
      BY <1>6, <3>2
    <3>3. CASE n # 0
      <4>1. n - 1 \in 0..Len(s) - p
        BY <1>1, <3>1, <3>3
      <4>2. ASSUME NEW i \in Len(s) - (n - 1) + 1..Len(s)
            PROVE  GainIn(s, i) = g
        <5>1. i \in 1..Len(s) /\ i \in Len(t) - n + 1..Len(t)
          BY <1>1, <3>1, <3>3, <4>1
        <5> QED BY <1>4, <3>1, <5>1
      <4>3. n - 1 \in S
        BY <4>1, <4>2 DEF RunsIn
      <4>4. n - 1 <= Max(S)
        BY <1>6, <4>3
      <4> QED BY <1>6, <3>1, <4>4
    <3> QED BY <3>2, <3>3
  <2> HIDE DEF S, T
  <2>3. Max(T) = Max(S) + 1
    BY <1>7, <2>1, <2>2, MaxUnique
  <2> QED BY <1>5, <1>8, <2>3 DEF S, T, t
<1>9. CASE GainIn(t, Len(t)) # g
  <2>1. ASSUME NEW n \in T
        PROVE  n <= 0
    <3>1. n \in 0..Len(t) - p /\ \A i \in Len(t) - n + 1..Len(t) : GainIn(t, i) = g
      BY DEF RunsIn
    <3>2. Len(t) \notin Len(t) - n + 1..Len(t)
      BY <1>9, <3>1
    <3> QED BY <1>1, <3>1, <3>2
  <2> HIDE DEF T
  <2>2. Max(T) = 0
    BY <1>7, <2>1, MaxUnique
  <2> QED BY <1>5, <1>9, <2>2 DEF T, t
<1> QED BY <1>8, <1>9

\* A caller that tells row by row is never refused a row.
SingleTellsAccepted == \A use \in Uses : use.batches = {1} => "refused" \notin use.faults

\* A region in which no tell failed keeps its accounts in step, whatever failed before.
Unbroken == ~broken => Synced

\* With one row per tell, in a region where none failed: where the sample is, where the
\* watermark is, and what the counters count.
Runs ==
  setup.use.batches = {1} /\ ~broken =>
    /\ inInit => setup.hybrid /\ completed = Len(rows) /\ (completed = 0 \/ completed < NumInit)
    /\ reinit > 0 => setup.hybrid /\ Len(rows) + reinit = NumInit
    /\ ~Sampling =>
         /\ Len(rows) >= Prefix \/ (rows = <<>> /\ Prefix = 1 /\ tr.box = InitialBox)
         /\ tr.prev # 0 => tr.best = Best(rows)
         /\ tr.prev = 0 => Len(rows) <= Prefix
         /\ Len(rows) >= Prefix =>
              /\ tr.box.succ = InARow(TRUE) % SuccessTolerance
              /\ tr.box.fail = InARow(FALSE) % FailureTolerance(1)

\* No step takes a region in which no tell failed out of step.
LEMMA UnbrokenNext ==
  ASSUME OptimizerAssumption, LengthAssumption, OptInv, Unbroken, [Next]_vars
  PROVE  Unbroken'
<1> SUFFICES ASSUME ~broken'
             PROVE  Synced'
  BY DEF Unbroken
<1>0. OptInv'
  BY OptInvNext
<1>1. ASSUME NEW k \in setup.use.batches, NEW batch \in Samples(k),
             Record(batch), setup' = setup, broken' = broken
      PROVE  Synced'
  <2>1. batch \in Seq(Int) /\ Len(batch) > 0
    BY BatchIsSeq DEF OptInv
  <2>2. Synced
    BY <1>1 DEF Unbroken
  <2> QED BY <1>1, <2>1, <2>2, RecordSyncs
<1>2. ASSUME TellFails
      PROVE  Synced'
  <2>0. PICK k \in setup.use.batches,
             fault \in setup.use.faults \cap {"refused", "append", "fit"} :
          \E batch \in Samples(k) :
            /\ tracker' = Track(batch)
            /\ rows'   = (IF fault = "refused" THEN rows ELSE rows \o batch)
            /\ known'  = (IF fault = "fit" THEN Len(rows') ELSE known)
            /\ broken' = (broken \/ fault # "refused")
    BY <1>2 DEF TellFails
  <2>1. fault = "refused" /\ broken' = broken
    BY <2>0 DEF OptInv, Watermark
  <2>2. PICK batch \in Samples(k) :
           tracker' = Track(batch) /\ rows' = rows /\ known' = known /\ broken' = broken
    BY <2>0, <2>1
  <2>3. batch \in Seq(Int) /\ Len(batch) = k /\ k \in Nat \ {0}
    BY BatchIsSeq DEF OptInv
  <2>4. known = Len(rows)
    BY <2>2 DEF Unbroken, Synced
  <2>5. tracker'.count = tracker.count + k
    BY <2>2, <2>3 DEF Track
  <2>6. Len(rows) <= tracker.count /\ tracker.count \in Nat /\ Len(rows) \in Nat
    BY LenProperties DEF OptInv, Accounts
  <2> QED BY <2>2, <2>3, <2>4, <2>5, <2>6 DEF Synced, TrackerSynced
<1>3. ASSUME TellSample
      PROVE  Synced'
  <2>1. PICK k \in setup.use.batches : \E batch \in Samples(k) :
          Record(batch) /\ setup' = setup /\ broken' = broken
    BY <1>3 DEF TellSample
  <2> QED BY <1>1, <2>1
<1>4. ASSUME TellSearch
      PROVE  Synced'
  <2>1. PICK k \in setup.use.batches : \E batch \in Samples(k) :
          Record(batch) /\ setup' = setup /\ broken' = broken
    BY <1>4 DEF TellSearch
  <2> QED BY <1>1, <2>1
<1>5. ASSUME AskRestarts
      PROVE  Synced'
  BY <1>5, RestartSynced, <1>0
<1>6. ~AskFails
  BY DEF AskFails
<1>7. CASE UNCHANGED vars
  <2>1. known' = known /\ rows' = rows /\ tracker' = tracker /\ setup' = setup /\ broken' = broken
    BY <1>7 DEF vars
  <2>2. Synced
    BY <2>1 DEF Unbroken
  <2>3. Rebuilt(Counted)' = Rebuilt(rows') /\ Counted = rows
    BY <1>0, <2>1, <2>2, RebuiltAfter, CountedAll DEF OptInv, Synced
  <2> QED BY <2>1, <2>2, <2>3 DEF Synced, TrackerSynced
<1> QED BY <1>2, <1>3, <1>4, <1>5, <1>6, <1>7 DEF Next

----------------------------------------------------------------------------
\* The rows that are not judged.
LEMMA PrefixTyped ==
  ASSUME OptimizerAssumption, OptInv
  PROVE  Prefix \in Nat \ {0} /\ (setup.hybrid => Prefix >= NumInit)
         /\ (NumInit > 0 /\ setup.hybrid => Prefix = NumInit)
         /\ (setup' = setup => Prefix' = Prefix)
<1>1. NumInit \in Nat
  BY DEF OptimizerAssumption
<1> QED BY <1>1 DEF Prefix, Larger

\* A region whose rows are its sample has no runs.
LEMMA FreshRuns ==
  ASSUME OptimizerAssumption, LengthAssumption, OptInv, OptInv', setup' = setup,
         tr'.box = InitialBox, Len(rows') = Prefix
  PROVE  /\ tr'.box.succ = InARow(TRUE)' % SuccessTolerance
         /\ tr'.box.fail = InARow(FALSE)' % FailureTolerance(1)
<1>1. rows' \in Seq(Int)
  BY DEF OptInv, Accounts
<1>2. InARow(TRUE)' = 0 /\ InARow(FALSE)' = 0
  BY <1>1, InARowIs, RunStarts
<1>3. tr'.box.succ = 0 /\ tr'.box.fail = 0
  BY DEF InitialBox
<1>4. FailureTolerance(1) \in Nat \ {0}
  BY DEF FailureTolerance, Larger, LengthAssumption
<1>5. \A T \in Nat \ {0} : 0 % T = 0
  OBVIOUS
<1>6. SuccessTolerance \in Nat \ {0}
  BY DEF SuccessTolerance
<1>7. 0 % SuccessTolerance = 0 /\ 0 % FailureTolerance(1) = 0
  BY <1>4, <1>5, <1>6
<1> QED BY <1>2, <1>3, <1>7

\* A new optimizer has no runs.
LEMMA RunsInit ==
  ASSUME OptimizerAssumption, LengthAssumption, Init
  PROVE  Runs
<1>1. /\ rows = <<>> /\ inInit = setup.hybrid /\ completed = 0 /\ reinit = 0
      /\ tr = FreshTR /\ Len(rows) = 0 /\ setup.hybrid \in BOOLEAN
  BY EmptySeq DEF Init
<1>2. CASE setup.hybrid
  <2>1. inInit /\ Sampling
    BY <1>1, <1>2 DEF Sampling
  <2> QED BY <1>1, <1>2, <2>1 DEF Runs
<1>3. CASE ~setup.hybrid
  <2>1. ~inInit /\ Prefix = 1
    BY <1>1, <1>3 DEF Prefix
  <2>2. tr.prev = 0 /\ tr.box = InitialBox
    BY <1>1 DEF FreshTR
  <2>3. Len(rows) <= Prefix /\ ~(Len(rows) >= Prefix) /\ ~(reinit > 0)
    BY <1>1, <2>1
  <2> QED BY <1>1, <2>1, <2>2, <2>3 DEF Runs
<1> QED BY <1>2, <1>3

\* The best value never falls while rows are added.
LEMMA BestGrows ==
  ASSUME NEW s \in Seq(Int), s # <<>>, NEW b \in Seq(Int)
  PROVE  Best(s) \in Int /\ Best(s \o b) \in Int /\ Best(s) <= Best(s \o b)
<1>1. /\ s \o b \in Seq(Int) /\ Len(s \o b) = Len(s) + Len(b)
      /\ Len(s) \in Nat /\ Len(b) \in Nat /\ Len(s) # 0
      /\ \A i \in 1..Len(s) : (s \o b)[i] = s[i]
  BY GrownRows, EmptySeq
<1>2. s \o b # <<>>
  BY <1>1, EmptySeq
<1>3. PICK i \in 1..Len(s) : s[i] = Best(s)
  BY BestIsGreatest
<1>4. (s \o b)[i] <= Best(s \o b)
  <2>1. i \in 1..Len(s \o b)
    BY <1>1
  <2> QED BY <1>1, <1>2, <2>1, BestIsGreatest
<1> QED BY <1>1, <1>2, <1>3, <1>4, BestIsGreatest

\* A judgement counts the misses in a circle, and forgets the gains.
LEMMA JudgedMiss ==
  ASSUME NEW b \in Boxes, NEW T \in Nat \ {0}, b.fail \in 0..T - 1
  PROVE  /\ Judged(b, FALSE, T).succ = 0
         /\ Judged(b, FALSE, T).fail = IF b.fail + 1 = T THEN 0 ELSE b.fail + 1
<1>1. CASE b.fail + 1 = T
  <2>1. ~(0 >= 3) /\ 0 < 3 /\ b.fail + 1 >= T
    BY <1>1
  <2>2. Judged(b, FALSE, T) = [length |-> b.length \div 2, succ |-> 0, fail |-> 0]
    BY <2>1 DEF Judged, SuccessTolerance
  <2> DEFINE J == Judged(b, FALSE, T)
  <2>3. J = [length |-> b.length \div 2, succ |-> 0, fail |-> 0]
    BY <2>2
  <2> HIDE DEF J
  <2>4. J.succ = 0 /\ J.fail = IF b.fail + 1 = T THEN 0 ELSE b.fail + 1
    BY <1>1, <2>3
  <2> QED BY <2>4 DEF J
<1>2. CASE b.fail + 1 # T
  <2>1. ~(0 >= 3) /\ ~(b.fail + 1 >= T)
    BY <1>2
  <2>2. Judged(b, FALSE, T) = [length |-> b.length, succ |-> 0, fail |-> b.fail + 1]
    BY <2>1 DEF Judged, SuccessTolerance
  <2> DEFINE J == Judged(b, FALSE, T)
  <2>3. J = [length |-> b.length, succ |-> 0, fail |-> b.fail + 1]
    BY <2>2
  <2> HIDE DEF J
  <2>4. J.succ = 0 /\ J.fail = IF b.fail + 1 = T THEN 0 ELSE b.fail + 1
    BY <1>2, <2>3
  <2> QED BY <2>4 DEF J
<1> QED BY <1>1, <1>2

\* A judgement counts the gains, or the misses, in a circle, and forgets the others.
LEMMA JudgedCounts ==
  ASSUME NEW b \in Boxes, NEW T \in Nat \ {0}, b.succ \in 0..2, b.fail \in 0..T - 1
  PROVE  /\ Judged(b, TRUE, T).succ = IF b.succ + 1 = 3 THEN 0 ELSE b.succ + 1
         /\ Judged(b, TRUE, T).fail = 0
         /\ Judged(b, FALSE, T).succ = 0
         /\ Judged(b, FALSE, T).fail = IF b.fail + 1 = T THEN 0 ELSE b.fail + 1
<1>1. CASE b.succ + 1 = 3
  <2>1. Judged(b, TRUE, T)
          = [length |-> Smaller(2 * b.length, LengthMax), succ |-> 0, fail |-> 0]
    BY <1>1 DEF Judged, SuccessTolerance
  <2> DEFINE J == Judged(b, TRUE, T)
  <2>2. J = [length |-> Smaller(2 * b.length, LengthMax), succ |-> 0, fail |-> 0]
    BY <2>1
  <2> HIDE DEF J
  <2>3. J.succ = (IF b.succ + 1 = 3 THEN 0 ELSE b.succ + 1) /\ J.fail = 0
    BY <1>1, <2>2
  <2> QED BY <2>3, JudgedMiss DEF J
<1>2. CASE b.succ + 1 # 3
  <2>1. ~(b.succ + 1 >= 3) /\ ~(0 >= T)
    BY <1>2
  <2>2. Judged(b, TRUE, T) = [length |-> b.length, succ |-> b.succ + 1, fail |-> 0]
    BY <2>1 DEF Judged, SuccessTolerance
  <2> DEFINE J == Judged(b, TRUE, T)
  <2>3. J = [length |-> b.length, succ |-> b.succ + 1, fail |-> 0]
    BY <2>2
  <2> HIDE DEF J
  <2>4. J.succ = (IF b.succ + 1 = 3 THEN 0 ELSE b.succ + 1) /\ J.fail = 0
    BY <1>2, <2>3
  <2> QED BY <2>4, JudgedMiss DEF J
<1> QED BY <1>1, <1>2

\* ask, when it restarts.
LEMMA RunsRestart ==
  ASSUME OptimizerAssumption, LengthAssumption, OptInv, AskRestarts
  PROVE  Runs'
<1>1. ~inInit
  <2>1. Collapsed
    BY DEF AskRestarts
  <2> QED BY <2>1, FreshTyped DEF OptInv, Watermark, Sampling, Collapsed
<1>2. /\ rows' = <<>> /\ Len(rows') = 0
      /\ reinit' = (IF setup.hybrid THEN NumInit ELSE 0)
      /\ tr'.box = InitialBox /\ tr'.prev = 0 /\ setup' = setup /\ ~inInit'
      /\ NumInit \in Nat
  BY <1>1, EmptySeq DEF AskRestarts, RestartedTR, FreshTR, OptimizerAssumption
<1>3. CASE reinit' > 0
  <2>1. setup'.hybrid /\ Len(rows') + reinit' = NumInit /\ Sampling'
    BY <1>2, <1>3 DEF Sampling
  <2> QED BY <1>2, <2>1 DEF Runs
<1>4. CASE ~(reinit' > 0)
  <2>1. Prefix' = 1
    BY <1>2, <1>4 DEF Prefix, Larger
  <2>2. ~(Len(rows') >= Prefix') /\ Len(rows') <= Prefix'
    BY <1>2, <2>1
  <2> QED BY <1>2, <1>4, <2>1, <2>2 DEF Runs
<1> QED BY <1>3, <1>4

\* tell of one row while the sample is told.
LEMMA RunsSample ==
  ASSUME OptimizerAssumption, LengthAssumption, OptInv, OptInv', Runs, TellSample,
         setup.use.batches = {1}, ~broken'
  PROVE  Runs'
<1>0. PICK batch \in Samples(1) :
        /\ Record(batch)
        /\ reinit' = IF reinit > 0 THEN ReinitLeft(1) ELSE 0
        /\ inInit' = (inInit /\ (reinit > 0 \/ completed' < NumInit))
        /\ broken' = broken
  BY DEF TellSample
<1>1. Sampling /\ setup' = setup /\ tr' = tr /\ tr = FreshTR
  BY DEF TellSample, OptInv, Watermark
<1>2. /\ batch \in Seq(Int) /\ Len(batch) = 1 /\ rows' = rows \o batch
      /\ Len(rows') = Len(rows) + 1 /\ Len(rows) \in Nat
      /\ completed' = IF inInit /\ reinit = 0 THEN completed + 1 ELSE completed
  <2>1. 1 \in setup.use.batches
    OBVIOUS
  <2>2. batch \in Seq(Int) /\ Len(batch) = 1
    BY <2>1, BatchIsSeq DEF OptInv
  <2>3. rows' = rows \o batch /\ rows \in Seq(Int)
    BY <1>0 DEF Record, OptInv, Accounts
  <2>4. completed' = IF inInit /\ reinit = 0 THEN completed + 1 ELSE completed
    BY <1>0, <2>2 DEF Record, CountSample
  <2>5. Len(rows \o batch) = Len(rows) + Len(batch) /\ Len(rows) \in Nat
    BY <2>2, <2>3, GrownRows
  <2> QED BY <2>2, <2>3, <2>4, <2>5
<1>3. /\ inInit \in BOOLEAN /\ reinit \in Nat /\ (inInit => reinit = 0) /\ completed \in Nat
      /\ NumInit \in Nat
  BY DEF OptInv, Watermark, OptimizerAssumption
<1>4. /\ inInit => setup.hybrid /\ completed = Len(rows) /\ (completed = 0 \/ completed < NumInit)
      /\ reinit > 0 => setup.hybrid /\ Len(rows) + reinit = NumInit
  BY <1>0 DEF Runs
<1>5. Prefix' = Prefix
  BY <1>1 DEF Prefix
<1>6. tr'.box = InitialBox /\ tr'.prev = 0
  BY <1>1 DEF FreshTR
<1>7. /\ inInit' => setup'.hybrid /\ completed' = Len(rows') /\ completed' < NumInit
      /\ reinit' > 0 => setup'.hybrid /\ Len(rows') + reinit' = NumInit
      /\ ~Sampling' => Len(rows') = Prefix /\ Prefix \in Nat
  <2>1. CASE inInit
    <3>1. completed' = Len(rows') /\ reinit' = 0 /\ setup'.hybrid
          /\ inInit' = (completed' < NumInit)
      BY <1>0, <1>1, <1>2, <1>3, <1>4, <2>1
    <3>2. completed' \in Nat /\ completed' >= 1 /\ (completed' = 1 \/ completed' <= NumInit)
      BY <1>2, <1>3, <1>4, <2>1
    <3>3. Prefix = Larger(NumInit, 1)
      BY <1>4, <2>1 DEF Prefix
    <3>4. ~(completed' < NumInit) => completed' = Prefix
      BY <1>3, <3>2, <3>3 DEF Larger
    <3>5. ~(reinit' > 0)
      BY <3>1
    <3> QED BY <3>1, <3>2, <3>4, <3>5 DEF Sampling
  <2>2. CASE ~inInit
    <3>1. reinit > 0 /\ ~inInit' /\ reinit' = reinit - 1
      BY <1>0, <1>1, <1>3, <2>2 DEF Sampling, ReinitLeft, Larger
    <3>2. setup.hybrid /\ Len(rows') + reinit' = NumInit
      <4>1. setup.hybrid /\ Len(rows) + reinit = NumInit
        BY <1>4, <3>1
      <4>2. Len(rows') = Len(rows) + 1 /\ Len(rows) \in Nat
        BY <1>2
      <4> QED BY <1>3, <3>1, <4>1, <4>2
    <3>3. Prefix = NumInit
      BY <1>2, <1>3, <3>1, <3>2 DEF Prefix, Larger
    <3>4. ~(reinit' > 0) => Len(rows') = Prefix
      BY <1>3, <3>1, <3>2, <3>3
    <3> QED BY <1>1, <1>3, <3>1, <3>2, <3>3, <3>4 DEF Sampling
  <2> QED BY <2>1, <2>2
<1>8. ~Sampling' => /\ tr'.box.succ = InARow(TRUE)' % SuccessTolerance
                    /\ tr'.box.fail = InARow(FALSE)' % FailureTolerance(1)
  BY <1>1, <1>6, <1>7, FreshRuns
<1>9. ~Sampling' => Len(rows') >= Prefix' /\ Len(rows') <= Prefix'
  BY <1>5, <1>7
<1> QED BY <1>6, <1>7, <1>8, <1>9 DEF Runs

\* In a region where no tell failed, a tell after the sample is a step of the abstract search.
LEMMA SearchStep ==
  ASSUME OptimizerAssumption, LengthAssumption, OptInv, Unbroken, TellSearch, ~broken',
         setup.use.batches = {1}
  PROVE  /\ Turbo!Search /\ Turbo!Told = 1 /\ setup' = setup /\ ~Sampling /\ ~Sampling' /\ ~broken
         /\ reinit' = reinit /\ inInit' = inInit
         /\ \E batch \in Seq(Int) : Len(batch) = 1 /\ rows' = rows \o batch
<1>0. PICK batch \in Samples(1) : Record(batch) /\ broken' = broken
  BY DEF TellSearch
<1>1. ~Sampling /\ setup' = setup /\ inInit' = inInit /\ reinit' = reinit
  BY DEF TellSearch
<1>2. batch \in Seq(Int) /\ Len(batch) = 1 /\ rows' = rows \o batch
  <2>1. 1 \in setup.use.batches
    OBVIOUS
  <2>2. batch \in Seq(Int) /\ Len(batch) = 1
    BY <2>1, BatchIsSeq DEF OptInv
  <2> QED BY <1>0, <2>2 DEF Record
<1>3. ~broken /\ Synced
  BY <1>0 DEF Unbroken
<1>4. Turbo!Search \/ Turbo!Unjudged \/ Turbo!Fail
  BY <1>3, TellSearchImplements
<1>5. ~Turbo!Unjudged
  BY <1>3 DEF Turbo!Unjudged
<1>6. Turbo!Grows /\ Turbo!Told = 1
  <2>1. Len(batch) > 0
    BY <1>2
  <2> QED BY <1>2, <2>1, GrowsBy
<1>7. rows' # rows
  <2>1. rows \in Seq(Int)
    BY DEF OptInv, Accounts
  <2>2. Len(rows \o batch) = Len(rows) + Len(batch) /\ Len(rows) \in Nat
    BY <1>2, <2>1, GrownRows
  <2> QED BY <1>2, <2>2
<1>8. ~Turbo!Fail
  BY <1>7 DEF Turbo!Fail
<1> QED BY <1>1, <1>2, <1>3, <1>4, <1>5, <1>6, <1>8 DEF Sampling

\* tell of one row after the sample.
LEMMA RunsSearch ==
  ASSUME OptimizerAssumption, LengthAssumption, OptInv, OptInv', Unbroken, Runs, TellSearch,
         setup.use.batches = {1}, ~broken'
  PROVE  Runs'
<1>1. /\ Turbo!Search /\ Turbo!Told = 1 /\ setup' = setup /\ ~Sampling /\ ~Sampling' /\ ~broken
      /\ reinit' = reinit /\ inInit' = inInit
  BY SearchStep
<1>2. PICK batch \in Seq(Int) : Len(batch) = 1 /\ rows' = rows \o batch
  BY SearchStep
<1>3. /\ rows \in Seq(Int) /\ Len(rows) \in Nat /\ Len(rows') = Len(rows) + 1
      /\ rows' \in Seq(Int)
      /\ Len(rows) = 0 <=> rows = <<>>
  <2>1. rows \in Seq(Int)
    BY DEF OptInv, Accounts
  <2>2. /\ Len(rows \o batch) = Len(rows) + Len(batch) /\ Len(rows) \in Nat
        /\ rows \o batch \in Seq(Int)
    BY <1>2, <2>1, GrownRows
  <2>3. Len(rows) = 0 <=> rows = <<>>
    BY <2>1, EmptySeq
  <2> QED BY <1>2, <2>1, <2>2, <2>3
<1>4. Prefix \in Nat \ {0} /\ Prefix' = Prefix
  BY <1>1, PrefixTyped
<1>5. /\ Len(rows) >= Prefix \/ (rows = <<>> /\ Prefix = 1 /\ tr.box = InitialBox)
      /\ tr.prev # 0 => tr.best = Best(rows)
      /\ tr.prev = 0 => Len(rows) <= Prefix
      /\ Len(rows) >= Prefix =>
           /\ tr.box.succ = InARow(TRUE) % SuccessTolerance
           /\ tr.box.fail = InARow(FALSE) % FailureTolerance(1)
  BY <1>1 DEF Runs
<1>6. /\ tr'.prev = Len(rows')
      /\ rows = <<>> => tr'.best = Best(rows') /\ tr'.box = tr.box
      /\ rows # <<>> =>
           LET before == IF tr.prev = 0 THEN Best(rows) ELSE tr.best
           IN /\ tr'.best = Larger(before, Best(rows'))
              /\ tr'.box = Judged(tr.box, Improves(Best(rows'), before), FailureTolerance(1))
  BY <1>1, TurboBest, TurboJudged, TurboRest DEF Turbo!Search
<1>7. tr'.prev # 0 /\ Len(rows') >= Prefix
  BY <1>3, <1>4, <1>5, <1>6
<1>8. tr'.best = Best(rows')
  <2>1. CASE rows = <<>>
    BY <1>6, <2>1
  <2>2. CASE rows # <<>>
    <3>1. tr'.best = Larger(Best(rows), Best(rows'))
      BY <1>5, <1>6, <2>2
    <3> QED BY <1>2, <1>3, <2>2, <3>1, BestGrows DEF Larger
  <2> QED BY <2>1, <2>2
<1>9. /\ tr'.box.succ = InARow(TRUE)' % SuccessTolerance
      /\ tr'.box.fail = InARow(FALSE)' % FailureTolerance(1)
  <2>1. CASE rows = <<>>
    <3>1. tr'.box = InitialBox /\ Len(rows') = Prefix
      BY <1>3, <1>4, <1>5, <1>6, <2>1
    <3> QED BY <1>1, <3>1, FreshRuns
  <2>2. CASE rows # <<>>
    <3> DEFINE g == Improves(Best(rows'), Best(rows))
               a == Max(RunsIn(rows, Prefix, TRUE))
               c == Max(RunsIn(rows, Prefix, FALSE))
               T == FailureTolerance(1)
    <3>1. tr'.box = Judged(tr.box, g, T)
      BY <1>5, <1>6, <2>2
    <3>2. g \in BOOLEAN
      BY DEF Improves
    <3>3. T \in Nat \ {0}
      BY DEF FailureTolerance, Larger, LengthAssumption
    <3>4. Prefix <= Len(rows)
      BY <1>3, <1>4, <1>5, <2>2
    <3>5. a \in Nat /\ c \in Nat
      BY <1>3, <1>4, <3>4, RunTyped
    <3>6. tr.box.succ = a % SuccessTolerance /\ tr.box.fail = c % T
      BY <1>3, <1>4, <1>5, <3>4, InARowIs
    <3>7. /\ InARow(TRUE)' = IF g = TRUE THEN a + 1 ELSE 0
          /\ InARow(FALSE)' = IF g = FALSE THEN c + 1 ELSE 0
      <4>1. /\ InARow(TRUE)' = Max(RunsIn(rows', Prefix, TRUE))
            /\ InARow(FALSE)' = Max(RunsIn(rows', Prefix, FALSE))
        BY <1>1, InARowIs
      <4>2. /\ Max(RunsIn(rows', Prefix, TRUE)) = IF g = TRUE THEN a + 1 ELSE 0
            /\ Max(RunsIn(rows', Prefix, FALSE)) = IF g = FALSE THEN c + 1 ELSE 0
        BY <1>2, <1>3, <1>4, <3>4, RunGrows
      <4> QED BY <4>1, <4>2
    <3>8. tr.box \in Boxes
      BY DEF OptInv, Watermark
    <3>9. 0 % SuccessTolerance = 0 /\ 0 % T = 0
      <4>1. \A n \in Nat \ {0} : 0 % n = 0
        OBVIOUS
      <4>2. SuccessTolerance \in Nat \ {0}
        BY DEF SuccessTolerance
      <4> HIDE DEF T
      <4> QED BY <3>3, <4>1, <4>2
    <3> HIDE DEF g, a, c, T
    <3> DEFINE S == SuccessTolerance
    <3> HIDE DEF S
    <3>10. S = 3 /\ S \in Nat \ {0}
      BY DEF S, SuccessTolerance
    <3>11. /\ a % S \in 0..S - 1 /\ (a + 1) % S = IF (a % S) + 1 = S THEN 0 ELSE (a % S) + 1
          /\ c % T \in 0..T - 1 /\ (c + 1) % T = IF (c % T) + 1 = T THEN 0 ELSE (c % T) + 1
      BY <3>3, <3>5, <3>10, ModNext
    <3>12. tr.box.succ = a % S /\ tr.box.fail = c % T
      BY <3>6 DEF S
    <3>13. /\ tr.box.succ \in 0..2
           /\ (a + 1) % S = IF tr.box.succ + 1 = 3 THEN 0 ELSE tr.box.succ + 1
          /\ tr.box.fail \in 0..T - 1
          /\ (c + 1) % T = IF tr.box.fail + 1 = T THEN 0 ELSE tr.box.fail + 1
      BY <3>10, <3>11, <3>12
    <3>14. /\ Judged(tr.box, TRUE, T).succ = IF tr.box.succ + 1 = 3 THEN 0 ELSE tr.box.succ + 1
          /\ Judged(tr.box, TRUE, T).fail = 0
          /\ Judged(tr.box, FALSE, T).succ = 0
          /\ Judged(tr.box, FALSE, T).fail = IF tr.box.fail + 1 = T THEN 0 ELSE tr.box.fail + 1
      BY <3>3, <3>8, <3>13, JudgedCounts
    <3>15. /\ Judged(tr.box, TRUE, T).succ = (a + 1) % SuccessTolerance
           /\ Judged(tr.box, TRUE, T).fail = 0
           /\ Judged(tr.box, FALSE, T).succ = 0
           /\ Judged(tr.box, FALSE, T).fail = (c + 1) % T
      BY <3>13, <3>14, Zenon DEF S
    <3>16. CASE g = TRUE
      <4>1. InARow(TRUE)' = a + 1 /\ InARow(FALSE)' = 0
        BY <3>7, <3>16
      <4>2. tr'.box = Judged(tr.box, TRUE, T)
        BY <3>1, <3>16
      <4> QED BY <3>9, <3>15, <4>1, <4>2, Zenon DEF T
    <3>17. CASE g = FALSE
      <4>1. InARow(TRUE)' = 0 /\ InARow(FALSE)' = c + 1
        BY <3>7, <3>17
      <4>2. tr'.box = Judged(tr.box, FALSE, T)
        BY <3>1, <3>17
      <4> QED BY <3>9, <3>15, <4>1, <4>2, Zenon DEF T
    <3> QED BY <3>2, <3>16, <3>17
  <2> QED BY <2>1, <2>2
<1>10. ~inInit' /\ ~(reinit' > 0)
  BY <1>1 DEF Sampling
<1> QED BY <1>4, <1>7, <1>8, <1>9, <1>10 DEF Runs

\* No step takes the counters from the runs.
LEMMA RunsNext ==
  ASSUME OptimizerAssumption, LengthAssumption, SingleTellsAccepted, OptInv, Unbroken, Runs,
         [Next]_vars
  PROVE  Runs'
<1> SUFFICES ASSUME setup'.use.batches = {1}, ~broken'
             PROVE  Runs'
  BY DEF Runs
<1>0. OptInv'
  BY OptInvNext
<1>1. CASE UNCHANGED vars
  <2>1. /\ setup' = setup /\ rows' = rows /\ broken' = broken /\ inInit' = inInit
        /\ reinit' = reinit /\ completed' = completed /\ tr' = tr
    BY <1>1 DEF vars
  <2>2. InARow(TRUE)' = InARow(TRUE) /\ InARow(FALSE)' = InARow(FALSE) /\ Prefix' = Prefix
    BY <2>1, InARowIs DEF Prefix
  <2> QED BY <2>1, <2>2 DEF Runs, Sampling
<1>2. ~TellFails
  <2> SUFFICES ASSUME TellFails
               PROVE  FALSE
    OBVIOUS
  <2>1. setup' = setup
    BY DEF TellFails
  <2>2. "refused" \notin setup.use.faults
    BY <2>1 DEF SingleTellsAccepted, OptInv, Accounts, Setups
  <2>3. \E fault \in setup.use.faults \cap {"refused", "append", "fit"} :
          broken' = (broken \/ fault # "refused")
    BY DEF TellFails
  <2> QED BY <2>2, <2>3
<1>3. CASE TellSample
  BY <1>0, <1>3, RunsSample DEF TellSample
<1>4. CASE TellSearch
  BY <1>0, <1>4, RunsSearch DEF TellSearch
<1>5. CASE AskRestarts
  BY <1>5, RunsRestart
<1>6. ~AskFails
  BY DEF AskFails
<1> QED BY <1>1, <1>2, <1>3, <1>4, <1>5, <1>6 DEF Next

\* What every region in which no tell failed can count on, whatever failed before it.
LEMMA UnbrokenInvariant == Spec => [](OptInv /\ Unbroken)
<1>1. Init => OptInv /\ Unbroken
  BY OptInvInit, SyncedInit, OptimizerAssumption, LengthAssumption DEF Unbroken
<1>2. OptInv /\ Unbroken /\ [Next]_vars => OptInv' /\ Unbroken'
  BY OptInvNext, UnbrokenNext, OptimizerAssumption, LengthAssumption
<1> QED BY <1>1, <1>2, PTL DEF Spec

\* Whatever fails: a region in which no tell failed after it stored rows has its tracker in step.
THEOREM TrackerInStepUnbroken == Spec => [](~broken => TrackerSynced)
<1>1. OptInv /\ Unbroken => (~broken => TrackerSynced)
  BY DEF Unbroken, Synced
<1> QED BY <1>1, UnbrokenInvariant, PTL

\* With one row per tell the counters are the lengths of the runs of gains and misses since
\* the sample, whatever fails, unless the model refuses a row of the sample: then the strategy
\* counts a row the region does not have.
THEOREM CountersCountRuns == SingleTellsAccepted /\ Spec => []CountersAreRuns
<1> SUFFICES ASSUME SingleTellsAccepted
             PROVE  Spec => []CountersAreRuns
  OBVIOUS
<1>1. Init => Runs
  BY RunsInit, OptimizerAssumption, LengthAssumption
<1>2. Runs /\ (OptInv /\ Unbroken) /\ [Next]_vars => Runs'
  BY RunsNext, OptimizerAssumption, LengthAssumption
<1>3. Runs /\ (OptInv /\ Unbroken) => CountersAreRuns
  <2> SUFFICES ASSUME Runs, OptInv, setup.use.batches = {1}, ~broken, ~Sampling, Len(rows) > Prefix
               PROVE  /\ tr.box.succ = InARow(TRUE) % SuccessTolerance
                      /\ tr.box.fail = InARow(FALSE) % FailureTolerance(1)
    BY DEF CountersAreRuns
  <2>1. Len(rows) \in Nat /\ Prefix \in Nat
    BY LenProperties, PrefixTyped, OptimizerAssumption DEF OptInv, Accounts
  <2>2. Len(rows) >= Prefix
    BY <2>1
  <2> QED BY <2>2 DEF Runs
<1> QED BY <1>1, <1>2, <1>3, UnbrokenInvariant, PTL DEF Spec
=============================================================================
