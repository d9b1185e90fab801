------------------------------ MODULE MCWorker ------------------------------
EXTENDS WorkerLedger, TLC

CONSTANTS w1, w2, bulk1, single1, junk

MCWorkers == {w1, w2}
MCPermutations == Permutations(MCWorkers)
=============================================================================
