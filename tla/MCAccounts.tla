------------------------------ MODULE MCAccounts ------------------------------
EXTENDS Accounts, TLC

CONSTANTS l1, l2, web, desktop

\* Requests are alike, and so are programs.
Symmetry == Permutations({l1, l2}) \cup Permutations({web, desktop})
===============================================================================
