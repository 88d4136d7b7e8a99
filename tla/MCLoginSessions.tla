--------------------------- MODULE MCLoginSessions ---------------------------
(* Two browsers behind one address and user agent, and a third one.          *)
EXTENDS LoginSessions, TLC
CONSTANTS b1, b2, b3, m, a, f1, f2

MCFp == (b1 :> f1) @@ (b2 :> f2) @@ (b3 :> f2)
=============================================================================
