------------------------------ MODULE MCLegacy ------------------------------
EXTENDS LegacyBulk, TLC

Symmetry == Permutations(Address)
=============================================================================
