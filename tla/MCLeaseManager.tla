--------------------------- MODULE MCLeaseManager ---------------------------
EXTENDS LeaseManager, TLC
WorkerSymmetry == Permutations(Workers)
=============================================================================
