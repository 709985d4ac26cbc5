-------------------------------- MODULE MCMorbo --------------------------------
\* Rows of two metrics, one of them best in neither, and two weight vectors.
EXTENDS Morbo

MCPoints  == {<<0, 2>>, <<2, 1>>, <<1, 1>>}
MCWeights == {<<1, 3>>, <<2, 2>>}
=============================================================================
