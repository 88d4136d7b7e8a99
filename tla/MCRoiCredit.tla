----------------------------- MODULE MCRoiCredit -----------------------------
(* Two investments of one user.                                              *)
EXTENDS RoiCredit, TLC
CONSTANTS u1, i1, i2, w1, w2

MCOwner == (i1 :> u1) @@ (i2 :> u1)
=============================================================================
