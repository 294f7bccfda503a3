--------------------------- MODULE MCRequestLimits --------------------------
(* What is reported is below zero, below 80% of five contexts, or at it.    *)
EXTENDS RequestLimits

MCValues == {-1, 3, 4}
=============================================================================
