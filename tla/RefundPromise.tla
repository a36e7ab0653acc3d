--------------------------- MODULE RefundPromise ---------------------------
(***************************************************************************)
(* What the user and the shop are promised of a refund, with no requests,  *)
(* plans, audit records or statuses of failure: what the order granted is  *)
(* taken back at most once, and only for a refund that is under way or     *)
(* done; the gateway is asked only while the order is locked for it; a     *)
(* refunded order stays refunded, by an amount that the gateway has paid.  *)
(* PaymentRefund implements it.                                            *)
(*                                                                         *)
(* A deduction that was lost track of voids what is said of the            *)
(* deduction, an order that was overrun what is said of the lock, and a    *)
(* blurred amount what is said of the payment, each that and no more.      *)
(***************************************************************************)
EXTENDS Integers

CONSTANT Amount   \* what the order granted

VARIABLES
    phase,     \* "open", "refunding", "pending" or "refunded"
    amount,    \* of the refund that is done, or zero
    taken,     \* from the user and not returned
    asked,     \* refunds of each amount the gateway has begun and not refused
    paid,      \* how many of them it has paid
    external,  \* the refund goes through a gateway
    once,      \* the gateway makes no second refund of an amount
    damaged,   \* a deduction was lost track of, or the order was overrun
    overrun,   \* the order was set back under a refund
    blurred    \* refunds of two amounts were left pending or asked about

gateway == <<asked, paid, external, once>>
excuses == <<damaged, overrun, blurred>>
vars    == <<phase, amount, taken, gateway, excuses>>

Amounts == 1 .. Amount

Locked == phase = "refunding" \/ overrun

\* Nothing has been taken.
Untouched == damaged \/ taken = 0

Lock ==
    /\ phase \in {"open", "pending"}
    /\ Untouched
    /\ phase' = "refunding"
    /\ UNCHANGED <<amount, taken, gateway, excuses>>

TakeBack ==
    /\ Locked
    /\ Untouched
    /\ damaged \/ taken' \in 0 .. Amount
    /\ UNCHANGED <<phase, amount, gateway, excuses>>

\* All of it is returned.
Return ==
    /\ Locked
    /\ damaged \/ taken' = 0
    /\ UNCHANGED <<phase, amount, gateway, excuses>>

\* A deduction or its return fails, perhaps after it was made: which it was is
\* not known, and nothing makes up for it.
Lose ==
    /\ Locked
    /\ damaged' = TRUE
    /\ UNCHANGED <<phase, amount, gateway, overrun, blurred>>

Ask ==
    /\ Locked /\ external
    /\ \E x \in Amounts :
        /\ once => asked[x] = 0
        /\ asked' = [asked EXCEPT ![x] = @ + 1]
        /\ paid' \in {paid, [paid EXCEPT ![x] = @ + 1]}
    /\ UNCHANGED <<phase, amount, taken, external, once, excuses>>

\* Whatever has become of the order in the meantime.
Answer ==
    /\ \E x \in Amounts :
        /\ paid[x] < asked[x]
        /\ \/ paid' = [paid EXCEPT ![x] = @ + 1] /\ UNCHANGED asked
           \/ asked' = [asked EXCEPT ![x] = @ - 1] /\ UNCHANGED paid
    /\ UNCHANGED <<phase, amount, taken, external, once, excuses>>

\* The gateway is asked what became of another amount than was left pending.
Blur ==
    /\ blurred' = TRUE
    /\ UNCHANGED <<phase, amount, taken, gateway, damaged, overrun>>

Hang ==
    /\ Locked
    /\ Untouched
    /\ phase' = "pending"
    /\ amount' = 0
    /\ blurred => blurred'
    /\ UNCHANGED <<taken, gateway, damaged, overrun>>

GiveUp ==
    /\ Locked \/ phase = "pending"
    /\ Untouched
    /\ phase' = "open"
    /\ amount' = 0
    /\ UNCHANGED <<taken, gateway, excuses>>

\* For a refund that was pending, the deduction is part of the same step.
Settle ==
    /\ Locked \/ phase = "pending"
    /\ phase' = "refunded"
    /\ amount' \in Amounts
    /\ external => paid[amount'] > 0 \/ blurred
    /\ \/ damaged
       \/ phase = "refunding" /\ taken' = taken
       \/ phase = "pending" /\ taken = 0 /\ taken' \in 0 .. Amount
    /\ UNCHANGED <<gateway, excuses>>

\* An answer about a pending refund comes when the order is no longer pending.
Overrun ==
    /\ phase' = "open"
    /\ amount' = 0
    /\ overrun' = TRUE
    /\ damaged' = TRUE
    /\ UNCHANGED <<taken, gateway, blurred>>

Init ==
    /\ phase = "open"
    /\ amount = 0
    /\ taken = 0
    /\ asked = [x \in Amounts |-> 0]
    /\ paid = [x \in Amounts |-> 0]
    /\ external \in BOOLEAN /\ once \in BOOLEAN
    /\ damaged = FALSE /\ overrun = FALSE /\ blurred = FALSE

Next ==
    \/ Lock \/ TakeBack \/ Return \/ Lose \/ Ask \/ Answer \/ Blur \/ Hang \/ GiveUp
    \/ Settle \/ Overrun

Spec == Init /\ [][Next]_vars

=============================================================================
