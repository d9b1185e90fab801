----------------------------- MODULE MCBulkJob -----------------------------
EXTENDS BulkJob, TLC

CONSTANTS a, b, c, known

MCPermutations == Permutations(Address)
=============================================================================
