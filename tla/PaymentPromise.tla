--------------------------- MODULE PaymentPromise ---------------------------
(***************************************************************************)
(* What the payment system promises of an order, with no workers, leases,  *)
(* redeem codes or audit records: money received makes the order owed,     *)
(* what is owed is granted once, the inviter gets at most one rebate, and  *)
(* only a granted order is settled.  An order whose creation is not known  *)
(* to have succeeded may be reopened once.  PaymentOrder implements it.    *)
(***************************************************************************)
EXTENDS Naturals

CONSTANT Orders

VARIABLES
    received,  \* the customer's matching payment has arrived
    phase,     \* "unpaid", "owed" or "settled"
    unsure,    \* the order's creation has not ended yet
    goods,     \* times the goods were granted
    shared     \* times the inviter was paid

vars == <<received, phase, unsure, goods, shared>>

\* The payment of an order whose creation failed makes it owed at once.
Receive(o) ==
    /\ ~received[o]
    /\ phase[o] = "unpaid"
    /\ received' = [received EXCEPT ![o] = TRUE]
    /\ \E p \in {"unpaid", "owed"} : phase' = [phase EXCEPT ![o] = p]
    /\ UNCHANGED <<unsure, goods, shared>>

Accept(o) ==
    /\ received[o]
    /\ phase[o] = "unpaid"
    /\ phase' = [phase EXCEPT ![o] = "owed"]
    /\ UNCHANGED <<received, unsure, goods, shared>>

Grant(o) ==
    /\ phase[o] = "owed"
    /\ goods[o] = 0
    /\ goods' = [goods EXCEPT ![o] = 1]
    /\ UNCHANGED <<received, phase, unsure, shared>>

\* A straggler may still pay the inviter after the order is settled.
Share(o) ==
    /\ goods[o] = 1
    /\ shared[o] = 0
    /\ shared' = [shared EXCEPT ![o] = 1]
    /\ UNCHANGED <<received, phase, unsure, goods>>

Settle(o) ==
    /\ phase[o] = "owed"
    /\ goods[o] = 1
    /\ phase' = [phase EXCEPT ![o] = "settled"]
    /\ UNCHANGED <<received, unsure, goods, shared>>

\* The creation ends.  If it failed, an order that was paid meanwhile is owed
\* again, even if it was settled.
EndCreation(o) ==
    /\ unsure[o]
    /\ unsure' = [unsure EXCEPT ![o] = FALSE]
    /\ \/ UNCHANGED phase
       \/ received[o] /\ phase' = [phase EXCEPT ![o] = "owed"]
    /\ UNCHANGED <<received, goods, shared>>

\* An order granted by an older release starts out owed and granted.
Init ==
    \E old \in SUBSET Orders :
        /\ received = [o \in Orders |-> o \in old]
        /\ phase = [o \in Orders |-> IF o \in old THEN "owed" ELSE "unpaid"]
        /\ unsure = [o \in Orders |-> o \notin old]
        /\ goods = [o \in Orders |-> IF o \in old THEN 1 ELSE 0]
        /\ shared = [o \in Orders |-> 0]

Next ==
    \E o \in Orders :
        \/ Receive(o) \/ Accept(o) \/ Grant(o) \/ Share(o) \/ Settle(o)
        \/ EndCreation(o)

Spec == Init /\ [][Next]_vars

=============================================================================
