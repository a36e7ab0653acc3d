--------------------------- MODULE MCPaymentRefund ---------------------------
(***************************************************************************)
(* PaymentRefund for TLC: admin requests are interchangeable.              *)
(***************************************************************************)
EXTENDS PaymentRefund, TLC

AdminSymmetry == Permutations(Admins)

=============================================================================
