----------------------------- MODULE MCLoanPage -----------------------------
(* Two boxes to merge, the three teasers of the script, two clicks.        *)
EXTENDS LoanPage
=============================================================================
