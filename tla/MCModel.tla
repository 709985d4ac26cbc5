------------------------------ MODULE MCModel ------------------------------
(* Instance of EnnModel for TLC. *)
EXTENDS EnnModel

\* Points that spread, one coordinate after the other, and come back.
Spreading ==
  << <<0, 0>>, <<2, 1>>, <<8, 0>>, <<32, 1>>, <<0, 8>> >>
Steady == << <<1, 1>>, <<3, 1>>, <<2, 1>>, <<60, 1>> >>
Points == {Spreading, Steady}

Scale(i, j) == <<i, j>>
LearnedScales == {Scale(1, 3), Scale(6, 0)}
CalledScales == {Scale(0, 2)}

AllLayouts == LegalLayouts
TwoDims == {1, 2}
=============================================================================
