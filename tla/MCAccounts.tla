----------------------------- MODULE MCAccounts -----------------------------
EXTENDS Accounts, TLC
AccountSymmetry == Permutations(Req) \cup Permutations(Subject)
=============================================================================
