---------------------------- MODULE MCBatchImage ----------------------------
(* A job with a hold of two, next to another job's hold of two; its results *)
(* cost one, or three, which is more than its hold.                         *)
EXTENDS BatchImage

CONSTANTS w1, w2

MCWorkers == {w1, w2}
MCFunds   == {1, 2}
MCCosts   == {1, 3}

=============================================================================
