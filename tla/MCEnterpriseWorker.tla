------------------------- MODULE MCEnterpriseWorker -------------------------
EXTENDS EnterpriseWorker, TLC

Symmetry == Permutations(Threads)
=============================================================================
