--------------------------- MODULE MCAsyncPlanning ---------------------------
EXTENDS AsyncPlanning, TLC

\* Both arms reach into the middle place.
Middle == {<<2, 2>>}
Symmetry == Permutations(Arms)
=============================================================================
