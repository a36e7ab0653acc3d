------------------------- MODULE MCConcurrencySlots -------------------------
(* Instance of ConcurrencySlots for TLC. *)
EXTENDS ConcurrencySlots, TLC

CONSTANTS u, a, x   \* a user, an account and an API key

\* All requests are the user's, with one API key.
OneUser   == [p \in Procs |-> u]
OneKey    == [p \in Procs |-> x]

\* The account takes fewer requests than the user may send.
SmallLimits == (u :> 2) @@ (a :> 1) @@ (x :> 0)

\* The requests run the same code.
ProcSymmetry == Permutations(Procs)

=============================================================================
