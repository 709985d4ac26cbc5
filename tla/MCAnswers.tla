----------------------------- MODULE MCAnswers -----------------------------
(* Instances of Answers for TLC. *)
EXTENDS Answers

UpTo(S, n) == UNION {[1..m -> S] : m \in 0..n}

\* Up to three rows in any order, and four in a rising one.
SomePoints ==
  UpTo({0, 1, 3}, 3) \cup {p \in [1..4 -> {0, 1, 3}] : \A i \in 1..3 : p[i] <= p[i + 1]}
SomeBatches == UpTo({0, 2}, 2) \ {<<>>}
SomeWhatIfs == UpTo({0, 2}, 1) \cup {<<0, 2>>, <<2, 2>>}

SomeParams == {[k |-> 1, epi |-> 1, ale |-> 0], [k |-> 2, epi |-> 0, ale |-> 1]}

Single == [1..4 -> [1..1 -> 0..2]]
Double == [1..3 -> [1..2 -> 0..1]]
SomePredictions == (Single \X [1..4 -> [1..1 -> 0..1]]) \cup (Double \X Double)

SomeScores == [1..2 -> UpTo(0..2, 3) \ UpTo(0..2, 1)] \cup {[a \in 1..3 |-> <<0, 1>>]}
EvenScores == {s \in SomeScores : \A a \in DOMAIN s : Len(s[a]) = Len(s[1])}

Plane == (0..3) \X (0..3)
SomeObjectives == UpTo(Plane, 3)
SomeWeights == UpTo(0..2, 4) \ {<<>>}

\* Up to three rows of a fit.
SomeTargets ==
  UNION {[1..n -> 0..2] \X [1..n -> 0..2] \X [1..n -> 0..1] : n \in 1..3}
SomeCalibrators == [a : {-1, 0}, b : {0, 1, 2}, c : 0..2]
\* In quarters of a unit.
SomeBounds ==
  {[lo |-> l, hi |-> h] : l \in {None, 0}, h \in {None, 2, 4}}
\* Multiples of what every mean of some of them is divided by, twice over: points apart,
\* in a row, and equal.
Unit == 12960
SomePaged ==
  {[points |-> [i \in DOMAIN s |-> Unit * s[i]], capacity |-> c] :
     <<s, c>> \in ({<<0>>, <<0, 5>>, <<3, 3, 3>>, <<7, 0, 1, 0>>, <<1, 2, 4, 8, 16>>} \X {1, 2})
                   \cup ({<<0, 10, 1, 11, 20, 21>>, <<5, 5, 5, 5, 0, 5>>} \X {2})}
\* One and two drawn candidates, with noise and without.
SomeDrawn ==
  {<<[k |-> 1, epi |-> 1, ale |-> 1]>>,
   <<[k |-> 2, epi |-> 1, ale |-> 0], [k |-> 2, epi |-> 2, ale |-> 1]>>}

\* Columns that rise, or have two values or one; and a group of two that
\* is a category.
SomeColumns ==
  {<<0, 1, 2, 3, 4, 5>>, <<1, 0, 1, 0, 1, 0>>, <<2, 2, 2, 2, 2, 2>>}
Category == <<0, 0, 1, 1, 0, 1>>
SomeOutputs == {<<0, 0, 1, 0, 1, 2>>, <<0, 1, 0, 1, 0, 1>>, Category}
SomeTied == {<<>>, <<<<3, 4>>>>, <<<<4, 3>>, <<1>>>>, <<<<2>>, <<3>>>>, <<<<1, 3>>, <<3>>>>, <<<<5>>>>}
Table(a, b) == [i \in 1..6 |-> <<a[i], b[i], Category[i], 1 - Category[i]>>]
SomeLearnings ==
  {[x |-> Table(a, b), y |-> [i \in 1..6 |-> <<o[i]>>], tied |-> t, k |-> 2] :
     a \in SomeColumns, b \in {<<1, 0, 1, 0, 2, 0>>}, o \in SomeOutputs, t \in SomeTied}
  \cup {[x |-> Table(a, a), y |-> [i \in 1..6 |-> <<o[i], p[i]>>], tied |-> t, k |-> 2] :
           a \in SomeColumns, o \in SomeOutputs, p \in {<<0, 0, 0, 1, 1, 1>>}, t \in {<<>>, <<<<3, 4>>>>}}
  \cup {[x |-> SubSeq(Table(<<0, 1, 2, 3, 4, 5>>, <<5, 3, 4, 2, 1, 0>>), 1, n),
          y |-> [i \in 1..n |-> <<i>>], tied |-> <<>>, k |-> 2] : n \in {2, 3}}
SomeReals == {-2, 0, 1, 2, 3, 5}
\* One arm, of any draw, and two.
SomeArmDraws == {<<z>> : z \in [1..2 -> SomeReals]} \cup [1..2 -> [1..2 -> {-2, 1, 5}]]
=============================================================================
