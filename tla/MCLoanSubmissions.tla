-------------------------- MODULE MCLoanSubmissions --------------------------
(* Two tabs behind one address, and two administrators.                      *)
EXTENDS LoanSubmissions, TLC
CONSTANTS t1, t2, x1, a1, a2

MCIp == (t1 :> x1) @@ (t2 :> x1)

\* Both tabs have the same address.
Alike == Permutations(Tabs) \cup Permutations(Admins)
=============================================================================
