--------------------------- MODULE MCLeaseHistory ---------------------------
EXTENDS LeaseHistory, TLC
WorkerSymmetry == Permutations(Workers)
=============================================================================
