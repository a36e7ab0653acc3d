---------------------------- MODULE MCIdempotency ----------------------------
(* Instance of Idempotency for TLC. *)
EXTENDS Idempotency, TLC

\* The processes run the same code.
ProcSymmetry == Permutations(Procs)

=============================================================================
