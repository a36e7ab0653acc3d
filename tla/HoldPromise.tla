---------------------------- MODULE HoldPromise ----------------------------
(***************************************************************************)
(* What a user is promised of a batch image job and of the money frozen    *)
(* for it, with no workers, queue, lock, provider or billing claims: the   *)
(* amount is frozen once; a job that was delivered was paid for, at the    *)
(* price of its results; a job that is given up costs nothing; and the     *)
(* hold is ended once, by the payment or by its return.  BatchImage        *)
(* implements it.                                                          *)
(*                                                                         *)
(* Three failures are excused.  After one of them a hold may be ended by   *)
(* both, and a job that was given up may have been paid for.  Each still   *)
(* happens at most once, so that the damage is one hold.                   *)
(***************************************************************************)
EXTENDS Integers

CONSTANTS
    Hold,     \* the amount that is frozen
    Prices,   \* what a job's results may cost
    NoPrice,
    Funds,    \* balances that the user may have at first
    Others    \* what is frozen for the user's other jobs

VARIABLES
    phase,     \* "none", "accepted", "running", "settling", "delivered" or "refunded"
    price,     \* of the results, or NoPrice
    held,      \* the amount was frozen
    charged,   \* the price was taken from it, and the rest returned
    returned,  \* all of it was returned
    balance,
    frozen,
    excused    \* one of the failures has happened

money == <<held, charged, returned, balance, frozen>>
vars  == <<phase, price, money, excused>>

Accept ==
    /\ phase = "none"
    /\ phase' = "accepted"
    /\ UNCHANGED <<price, money, excused>>

\* The job may have been given up by now.
Freeze ==
    /\ ~held /\ ~charged /\ ~returned
    /\ phase \in {"accepted", "refunded"}
    /\ balance >= Hold
    /\ held' = TRUE
    /\ balance' = balance - Hold
    /\ frozen' = frozen + Hold
    /\ UNCHANGED <<phase, price, charged, returned, excused>>

Run ==
    /\ phase = "accepted"
    /\ held /\ ~returned
    /\ phase' = "running"
    /\ UNCHANGED <<price, money, excused>>

\* Results may be counted again until the settlement begins.
Price ==
    /\ phase = "running" /\ ~charged
    /\ price' \in Prices
    /\ UNCHANGED <<phase, money, excused>>

Settle ==
    /\ phase = "running"
    /\ price \in Prices
    /\ returned => excused
    /\ phase' = "settling"
    /\ UNCHANGED <<price, money, excused>>

\* The payment itself may be misreported.
Charge ==
    /\ held /\ ~charged
    /\ price \in Prices /\ price <= Hold
    /\ excused \/ (phase = "settling" /\ ~returned)
    /\ charged' = TRUE
    /\ balance' = balance + (Hold - price)
    /\ frozen' = frozen - Hold
    /\ excused => excused'
    /\ UNCHANGED <<phase, price, held, returned>>

Deliver ==
    /\ phase = "settling"
    /\ charged
    /\ returned => excused
    /\ phase' = "delivered"
    /\ UNCHANGED <<price, money, excused>>

\* While the job is running its hold stays, and so it does while the settlement
\* can still succeed; what is settled is refunded only after the return.
Refund ==
    /\ \/ phase \in {"accepted", "running"}
       \/ phase = "settling" /\ ((returned /\ ~charged) \/ excused)
    /\ phase' = "refunded"
    /\ UNCHANGED <<price, money, excused>>

Return ==
    /\ held /\ ~returned
    /\ excused \/ (phase \in {"accepted", "settling", "refunded"} /\ ~charged)
    /\ returned' = TRUE
    /\ balance' = balance + Hold
    /\ frozen' = frozen - Hold
    /\ UNCHANGED <<phase, price, held, charged, excused>>

Excuse ==
    /\ excused' = TRUE
    /\ UNCHANGED <<phase, price, money>>

Init ==
    /\ phase = "none"
    /\ price = NoPrice
    /\ held = FALSE /\ charged = FALSE /\ returned = FALSE
    /\ balance \in Funds
    /\ frozen = Others
    /\ excused = FALSE

Next ==
    \/ Accept \/ Freeze \/ Run \/ Price \/ Settle \/ Charge \/ Deliver \/ Refund \/ Return
    \/ Excuse

Spec == Init /\ [][Next]_vars

=============================================================================
