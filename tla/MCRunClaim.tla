----------------------------- MODULE MCRunClaim -----------------------------
(* Three calls on one pair, with a staleness window of two ticks. *)
EXTENDS RunClaim

CONSTANTS c1, c2, c3
=============================================================================
