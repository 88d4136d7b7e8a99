----------------------------- MODULE MCRetryQueue -----------------------------
(* Two workers, a task of any kind and a mail.                               *)
EXTENDS RetryQueue
CONSTANTS t1, e1, w1, w2
=============================================================================
