-------------------------- MODULE MCAdaptiveLimiter ---------------------------
(* TLC instance of AdaptiveLimiter.                                         *)
EXTENDS AdaptiveLimiter

CONSTANTS r1, r2, r3
===============================================================================
