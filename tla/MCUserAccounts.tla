--------------------------- MODULE MCUserAccounts ---------------------------
(* Two requests at a time on the users table and three browsers.             *)
EXTENDS UserAccounts, TLC

Symmetry == Permutations(Requests) \cup Permutations(Browsers) \cup Permutations(Names)
              \cup Permutations(Codes)
=============================================================================
