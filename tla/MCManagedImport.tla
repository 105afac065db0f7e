-------------------------- MODULE MCManagedImport --------------------------
EXTENDS ManagedImport, TLC

CONSTANTS f1, f2, w1, w2

TwoFiles == {f1, f2}
TwoWorkers == {w1, w2}
Symmetry == Permutations(TwoFiles) \cup Permutations(TwoWorkers)
=============================================================================
