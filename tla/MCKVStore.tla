----------------------------- MODULE MCKVStore -----------------------------
\* An instance of KVStore whose keys split leaves and branches in every way.
EXTENDS KVStore, TLC

MCKeys == {<<1, 1>>, <<1, 1, 1>>, <<1, 2>>}
Symmetry == Permutations(Values)
MCStarts == {<<>>, <<1, 1, 1>>}
=============================================================================
