----------------------------- MODULE MCAccounts -----------------------------
EXTENDS Accounts, TLC

CONSTANTS r1, r2, t1, t2, u1, u2

MCRequests == {r1, r2}
MCTokens == {t1, t2}
MCUsers == {u1, u2}
MCPermutations ==
  Permutations(MCRequests) \cup Permutations(MCTokens) \cup Permutations(MCUsers)
=============================================================================
