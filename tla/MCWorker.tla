------------------------------ MODULE MCWorker ------------------------------
EXTENDS Worker, TLC
=============================================================================
