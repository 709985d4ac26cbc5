------------------------------- MODULE MCTree -------------------------------
(* Instances of Tree and TreeSearch for TLC. *)
EXTENDS TreeSearch

\* One unit of coordinate is 840, so that means of up to eight rows are whole.
Units(s) == [i \in DOMAIN s |-> 840 * s[i]]

\* Rows in order, from the middle outwards, in two clusters, equal, back and
\* forth (the fifth splits the root), apart.
EightRows == {Units(s) : s \in {
  <<0, 1, 2, 3, 4, 5, 6, 7>>, <<4, 5, 3, 6, 2, 7, 1, 8>>, <<0, 9, 1, 9, 0, 8, 2, 9>>,
  <<1, 1, 1, 1, 1, 0, 1, 5>>, <<0, 1, 2, 0, 1, 4, 3, 6>>, <<0, 1, 2, 4, 6, 15, 2, 7>>}}

AskedAbout == {0, 840 * 4, 840 * 6 + 420}
=============================================================================
