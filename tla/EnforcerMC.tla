----------------------------- MODULE EnforcerMC -----------------------------
EXTENDS EnforcerAudit, TLC

\* A request is its verdict and its place in the orders.
Alike == Permutations(Requests)
=============================================================================
