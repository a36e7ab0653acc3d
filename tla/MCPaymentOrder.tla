-------------------------- MODULE MCPaymentOrder --------------------------
(* PaymentOrder for TLC.  Orders share nothing but the workers, so one      *)
(* order suffices; its type is chosen by Init.                              *)
EXTENDS PaymentOrder, TLC

WorkerSymmetry == Permutations(Workers)

=============================================================================
