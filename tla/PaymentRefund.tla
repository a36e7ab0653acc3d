---------------------------- MODULE PaymentRefund ----------------------------
(***************************************************************************)
(* The refund of one completed payment order: the user's request, an       *)
(* admin's refund (lock, deduction, gateway call, rollback) and the later  *)
(* finalisation of a refund the gateway answered with "pending".           *)
(* Source: backend/internal/service/payment_refund.go.                     *)
(*                                                                         *)
(* An admin is a goroutine serving one admin request.  Every SQL statement *)
(* and gateway call is a step.  The deduction takes back what the order    *)
(* granted: an amount of the user's balance, or days of a subscription.    *)
(* Stripe, Airwallex and WeChat Pay key a refund by order and amount, so   *)
(* that a repeated one is found; Alipay gets a new key with every call and *)
(* EasyPay none, so that every call is a new refund.                       *)
(***************************************************************************)
EXTENDS Integers, FiniteSets, FiniteSetsExt

CONSTANTS
    Admins,      \* goroutines that serve admin requests
    Amount,      \* what the order granted, in units of balance or in days
    MaxHeld,     \* bound on the user's balance or days of subscription
    MaxCalls,    \* bound on the admin requests
    MaxFaults    \* bound on failed statements, lost answers and crashes

ASSUME AmountAssumption == Amount \in Nat \ {0}
ASSUME BoundsAssumption == MaxHeld \in Nat /\ MaxCalls \in Nat /\ MaxFaults \in Nat

VARIABLES
    kind,            \* order_type
    traded,          \* the order has a payment_trade_no
    keyed,           \* its provider keys refunds by amount and can be queried
    status,          \* payment_orders.status
    refundAmount,    \* payment_orders.refund_amount
    held,            \* the user's balance, or the days left of the subscription
    revoked,         \* the subscription was deleted
    rollbackFailed,  \* audit REFUND_ROLLBACK_FAILED
    pending,         \* audit REFUND_PENDING: refund ID and deductionRollbackOK
    succeeded,       \* audit REFUND_SUCCESS
    upstream,        \* the gateway's refunds of each amount: how many are
                     \* undecided, how many paid, and whether one was refused
    pc,              \* next statement of each admin request
    plan,            \* RefundPlan of each admin request
    calls,           \* admin requests still allowed
    faults,          \* failures still allowed
    taken,           \* history: deducted and not returned, for this order
    hung,            \* history: amounts left pending, or asked about instead
    lapses           \* history: what went wrong beyond repair

row    == <<status, refundAmount>>
goods  == <<held, revoked, taken>>
audit  == <<rollbackFailed, pending, succeeded>>
fixed  == <<kind, traded, keyed>>
thread == <<pc, plan>>
limits == <<calls, faults>>
past   == <<hung, lapses>>
vars   == <<row, goods, audit, fixed, thread, limits, upstream, past>>

Refundable == {"COMPLETED", "REFUND_REQUESTED", "REFUND_PENDING", "REFUND_FAILED"}
Refunded   == {"REFUNDED", "PARTIALLY_REFUNDED"}
Statuses   == Refundable \cup Refunded \cup {"REFUNDING"}
Amounts    == 1 .. Amount
Plan       == [from : Statuses, amount : 0 .. Amount, deduct : 0 .. Amount,
               id : 0 .. Amount, ok : BOOLEAN]
NoPlan     == [from |-> "COMPLETED", amount |-> 0, deduct |-> 0, id |-> 0, ok |-> TRUE]
NoDetail   == [id |-> 0, ok |-> TRUE]  \* also what a missing record reads as
\* The statements of ExecuteRefund behind its lock.
Executing ==
    {"check", "deduct", "gateway", "succeed", "unwind", "markPending", "rollback",
     "restore", "markFailed"}
Labels == Executing \cup
    {"idle", "lock", "auditPending", "detail", "query", "finalizeOk", "finalizeFail"}
Answers    == {"pending", "refunded", "failed"}
NoRefund == [open |-> 0, paid |-> 0, refused |-> FALSE]
\* "rollback": a deduction could not be returned; "untracked": it was made, and
\* an error reported; "stale": a finalisation overwrote a newer status.
Lapses == {"rollback", "untracked", "stale"}

-----------------------------------------------------------------------------
(* Shared pieces.                                                          *)

Goto(a, label) ==
    /\ pc' = [pc EXCEPT ![a] = label]
    /\ UNCHANGED plan

Return(a) ==
    /\ pc' = [pc EXCEPT ![a] = "idle"]
    /\ plan' = [plan EXCEPT ![a] = NoPlan]

Call ==
    /\ calls > 0
    /\ calls' = calls - 1
    /\ UNCHANGED faults

Fault ==
    /\ faults > 0
    /\ faults' = faults - 1
    /\ UNCHANGED calls

\* The status markRefundOk gives an order.
FinalStatus(amount) == IF amount < Amount THEN "PARTIALLY_REFUNDED" ELSE "REFUNDED"

\* What a deduction of amount d really takes: DeductAvailableBalance stops at
\* zero, and a subscription that would expire is revoked.
Available(d) == IF d < held THEN d ELSE held

\* The deduction itself; a subscription left without days is deleted.
Take(d) ==
    /\ held' = held - Available(d)
    /\ taken' = taken + Available(d)
    /\ revoked' = (revoked \/ (kind = "subscription" /\ d >= held /\ d > 0))

-----------------------------------------------------------------------------
(* RequestRefund and PrepareRefund.                                        *)

\* The balance was compared before, and may have changed since.
RequestRefund ==
    /\ kind = "balance"
    /\ status = "COMPLETED"
    /\ status' = "REFUND_REQUESTED"
    /\ refundAmount' = Amount
    /\ UNCHANGED <<goods, audit, fixed, thread, limits, upstream, past>>

\* prepDeduct: how much the plan will deduct.  Without force a balance that
\* is too small, or a missing subscription, ends the request.
PlannedDeduction(amount) ==
    CASE kind = "balance"      -> Available(amount)
      [] kind = "subscription" -> IF revoked \/ held = 0 THEN 0 ELSE Amount

PrepareRefund(a) ==
    /\ pc[a] = "idle"
    /\ status \in Refundable
    /\ Call
    /\ \E amount \in Amounts, deduct \in BOOLEAN :
        plan' = [plan EXCEPT ![a] =
                    [from |-> status, amount |-> amount, id |-> 0, ok |-> TRUE,
                     deduct |-> IF deduct THEN PlannedDeduction(amount) ELSE 0]]
    /\ pc' = [pc EXCEPT ![a] = "lock"]
    /\ UNCHANGED <<row, goods, audit, fixed, upstream, past>>

-----------------------------------------------------------------------------
(* ExecuteRefund.                                                          *)

\* Mutation: the UPDATE does not look at the status.
LockAnyStatus == TRUE

\* Mutation: a partial refund can be continued.
LockPartial == status \in Refundable \cup {"PARTIALLY_REFUNDED"}

\* The WHERE clause of the lock.
MayLock == status \in Refundable

LockOrder(a) ==
    /\ pc[a] = "lock"
    /\ \/ /\ MayLock
          /\ status' = "REFUNDING"
          /\ Goto(a, IF plan[a].deduct > 0 THEN "check" ELSE "gateway")
       \/ /\ ~MayLock
          /\ Return(a)
          /\ UNCHANGED status
    /\ UNCHANGED <<refundAmount, goods, audit, fixed, limits, upstream, past>>

\* A deduction that could not be rolled back is not repeated.
CheckRollbackFailed(a) ==
    /\ pc[a] = "check"
    /\ \/ /\ ~rollbackFailed
          /\ Goto(a, "deduct")
       \/ /\ rollbackFailed
          /\ plan' = [plan EXCEPT ![a].deduct = 0]
          /\ pc' = [pc EXCEPT ![a] = "gateway"]
    /\ UNCHANGED <<row, goods, audit, fixed, limits, upstream, past>>

\* The plan remembers what was taken, for a rollback.  The days of an expired
\* or deleted subscription cannot be shortened: the refund is given up.
Deduct(a) ==
    /\ pc[a] = "deduct"
    /\ IF kind = "subscription" /\ (revoked \/ held = 0)
       THEN Goto(a, "restore") /\ UNCHANGED goods
       ELSE /\ Take(plan[a].deduct)
            /\ plan' = [plan EXCEPT ![a].deduct =
                           IF kind = "balance" THEN Available(@) ELSE @]
            /\ pc' = [pc EXCEPT ![a] = "gateway"]
    /\ UNCHANGED <<row, audit, fixed, limits, upstream, past>>

\* What the gateway says of the refund of an amount.
Known(amount) ==
    IF upstream[amount].paid > 0 THEN "refunded"
    ELSE IF upstream[amount].open > 0 THEN "pending"
    ELSE IF upstream[amount].refused THEN "failed" ELSE "none"

\* Mutation: every call has a key of its own.
NewKeyEachTime(amount) == FALSE

\* The key of the call is that of a refund the gateway has.
Repeated(amount) == keyed /\ Known(amount) \in {"pending", "refunded"}

\* The gateway refuses to refund more than was paid.
Unrefused(x) == x * (upstream[x].open + upstream[x].paid)
WithinPayment(amount) == amount + MapThenSumSet(Unrefused, Amounts) <= Amount

\* EasyPay reports anything but a new refund as an error.
WithoutNewRefund(amount) == IF keyed THEN Known(amount) ELSE "failed"

\* The gateway starts a refund, finds the one it has under the same key, or
\* refuses.
GatewayActs(amount, answer) ==
    IF WithinPayment(amount) /\ ~Repeated(amount)
    THEN upstream' = [upstream EXCEPT
            ![amount].open    = IF answer = "pending" THEN @ + 1 ELSE @,
            ![amount].paid    = IF answer = "refunded" THEN @ + 1 ELSE @,
            ![amount].refused = answer = "failed"]
    ELSE /\ answer = WithoutNewRefund(amount)
         /\ UNCHANGED upstream

\* Mutation: a pending refund counts as done.
NextAsDone(s) == IF s \in {"refunded", "pending"} THEN "succeed" ELSE "rollback"

\* finishRefund and handleGwFail, by the gateway's answer.
AfterGateway(s) ==
    CASE s = "refunded" -> "succeed"
      [] s = "pending"  -> "unwind"
      [] OTHER          -> "rollback"

GwRefund(a) ==
    /\ pc[a] = "gateway"
    /\ \/ /\ ~traded
          /\ Goto(a, "succeed")
          /\ UNCHANGED <<upstream, limits>>
       \/ /\ traded
          /\ \E answer \in Answers :
                /\ GatewayActs(plan[a].amount, answer)
                /\ Goto(a, AfterGateway(answer))
          /\ UNCHANGED limits
       \/ /\ traded             \* the answer is lost, the refund perhaps made
          /\ Fault
          /\ \E answer \in Answers : GatewayActs(plan[a].amount, answer)
          /\ Goto(a, "rollback")
    /\ UNCHANGED <<row, goods, audit, fixed, past>>

MarkRefundOk(a) ==
    /\ pc[a] = "succeed"
    /\ status' = FinalStatus(plan[a].amount)
    /\ refundAmount' = plan[a].amount
    /\ succeeded' = TRUE
    /\ Return(a)
    /\ UNCHANGED <<goods, rollbackFailed, pending, fixed, limits, upstream, past>>

-----------------------------------------------------------------------------
(* RollbackRefund, before a pending or a failed refund is recorded.        *)

\* Mutation: a rollback that returns nothing.
ReturnNothing(d) == 0

\* What the rollback gives back.
ReturnDeduction(d) == d

RollbackOk(a) ==
    /\ ~(plan[a].deduct > 0 /\ kind = "subscription" /\ revoked)
    /\ held' = held + ReturnDeduction(plan[a].deduct)
    /\ taken' = taken - ReturnDeduction(plan[a].deduct)
    /\ UNCHANGED <<revoked, rollbackFailed, lapses, limits>>

\* A deleted subscription cannot be extended; any other failure is a fault,
\* perhaps of a statement that was committed.
RollbackFails(a) ==
    /\ plan[a].deduct > 0
    /\ \/ /\ kind = "subscription" /\ revoked
          /\ UNCHANGED <<goods, limits>>
       \/ /\ Fault
          /\ UNCHANGED goods
       \/ /\ Fault
          /\ ~(kind = "subscription" /\ revoked)
          /\ held' = held + plan[a].deduct
          /\ taken' = taken - plan[a].deduct
          /\ UNCHANGED revoked
    /\ rollbackFailed' = TRUE
    /\ lapses' = lapses \cup {"rollback"}

\* The first half of markRefundPending.
UnwindPending(a) ==
    /\ pc[a] = "unwind"
    /\ \/ /\ RollbackOk(a)
          /\ plan' = [plan EXCEPT ![a].deduct = 0]
       \/ /\ RollbackFails(a)
          /\ plan' = [plan EXCEPT ![a].ok = FALSE]
    /\ pc' = [pc EXCEPT ![a] = "markPending"]
    /\ UNCHANGED <<row, pending, succeeded, fixed, upstream, hung>>

MarkRefundPending(a) ==
    /\ pc[a] = "markPending"
    /\ status' = "REFUND_PENDING"
    /\ refundAmount' = plan[a].amount
    /\ hung' = hung \cup {plan[a].amount}
    /\ Goto(a, "auditPending")
    /\ UNCHANGED <<goods, audit, fixed, limits, upstream, lapses>>

\* The unique index on (order_id, action) keeps the first record only.
AuditPending(a) ==
    /\ pc[a] = "auditPending"
    /\ pending' = IF pending = NoDetail
                  THEN [id |-> plan[a].amount, ok |-> plan[a].ok] ELSE pending
    /\ Return(a)
    /\ UNCHANGED <<row, goods, rollbackFailed, succeeded, fixed, limits, upstream, past>>

\* handleGwFail.
RollbackRefund(a) ==
    /\ pc[a] = "rollback"
    /\ \/ RollbackOk(a) /\ Goto(a, "restore")
       \/ RollbackFails(a) /\ Goto(a, "markFailed")
    /\ UNCHANGED <<row, pending, succeeded, fixed, upstream, hung>>

RestoreStatus(a) ==
    /\ pc[a] = "restore"
    /\ status' = IF plan[a].from = "REFUND_REQUESTED"
                 THEN "REFUND_REQUESTED" ELSE "COMPLETED"
    /\ Return(a)
    /\ UNCHANGED <<refundAmount, goods, audit, fixed, limits, upstream, past>>

MarkRefundFailed(a) ==
    /\ pc[a] = "markFailed"
    /\ status' = "REFUND_FAILED"
    /\ Return(a)
    /\ UNCHANGED <<refundAmount, goods, audit, fixed, limits, upstream, past>>

-----------------------------------------------------------------------------
(* QueryAndFinalizeRefund.                                                 *)

StartFinalize(a) ==
    /\ pc[a] = "idle"
    /\ status = "REFUND_PENDING"
    /\ keyed
    /\ Call
    /\ plan' = [plan EXCEPT ![a] =
                   [from |-> status, amount |-> refundAmount, deduct |-> 0,
                    id |-> 0, ok |-> TRUE]]
    /\ pc' = [pc EXCEPT ![a] = "detail"]
    /\ UNCHANGED <<row, goods, audit, fixed, upstream, past>>

\* The refund a query is about when the ID of the pending one is not known, if
\* any: WeChat Pay's ID is made of the amount granted, which is that of the
\* refund only if no fee or rate lies between the two, and Stripe reports the
\* newest refund of the payment, whichever amount that has.
GuessedRefund(a, x) == x = plan[a].amount \/ Known(x) # "none"

GuessRefund(a) ==
    \/ /\ \E x \in Amounts :
            /\ GuessedRefund(a, x)
            /\ plan' = [plan EXCEPT ![a].id = x]
            /\ hung' = hung \cup {x}
       /\ pc' = [pc EXCEPT ![a] = "query"]
    \/ /\ Return(a)
       /\ UNCHANGED hung

\* latestRefundPendingDetail.  Without a record the deduction counts as rolled
\* back; Airwallex refuses to guess.
LatestRefundPendingDetail(a) ==
    /\ pc[a] = "detail"
    /\ \/ /\ pending.id # 0
          /\ plan' = [plan EXCEPT ![a].id = pending.id, ![a].ok = pending.ok]
          /\ pc' = [pc EXCEPT ![a] = "query"]
          /\ UNCHANGED hung
       \/ /\ pending.id = 0
          /\ GuessRefund(a)
    /\ UNCHANGED <<row, goods, audit, fixed, limits, upstream, lapses>>

\* refundFinalizePlan: the deduction was returned when the refund was left
\* pending, so it is made now.
FinalDeduction(p) ==
    IF ~p.ok THEN 0
    ELSE IF kind = "balance" THEN p.amount
    ELSE PlannedDeduction(p.amount)

QueryRefund(a) ==
    /\ pc[a] = "query"
    /\ \/ /\ Known(plan[a].id) = "refunded"
          /\ plan' = [plan EXCEPT ![a].deduct = FinalDeduction(plan[a])]
          /\ pc' = [pc EXCEPT ![a] = "finalizeOk"]
       \/ /\ Known(plan[a].id) = "failed"
          /\ Goto(a, "finalizeFail")
       \/ /\ Known(plan[a].id) \in {"none", "pending"}
          /\ Return(a)
    /\ UNCHANGED <<row, goods, audit, fixed, limits, upstream, past>>

\* The claim of finalizePendingRefundSuccess.
MayFinalize == status = "REFUND_PENDING"

\* One transaction claims the order, deducts, and records the success; a
\* second REFUND_SUCCESS record, or an expired subscription, aborts it.
FinalizePendingRefundSuccess(a) ==
    LET d == plan[a].deduct
        commits == /\ MayFinalize
                   /\ ~succeeded
                   /\ ~(d > 0 /\ kind = "subscription" /\ (revoked \/ held = 0))
    IN
    /\ pc[a] = "finalizeOk"
    /\ \/ /\ commits
          /\ Take(d)
          /\ status' = FinalStatus(plan[a].amount)
          /\ refundAmount' = plan[a].amount
          /\ succeeded' = TRUE
       \/ /\ ~commits
          /\ UNCHANGED <<row, goods, succeeded>>
    /\ Return(a)
    /\ UNCHANGED <<rollbackFailed, pending, fixed, limits, upstream, past>>

\* The status is set by id: the order may have moved on since it was read.
FinalizeRefundFailed(a) ==
    /\ pc[a] = "finalizeFail"
    /\ status' = "REFUND_FAILED"
    /\ lapses' = IF status = "REFUND_PENDING" THEN lapses ELSE lapses \cup {"stale"}
    /\ Return(a)
    /\ UNCHANGED <<refundAmount, goods, audit, fixed, limits, upstream, hung>>

-----------------------------------------------------------------------------
(* Failures and surroundings.                                              *)

\* An error of the deduction ends the refund, and the status is restored, also
\* when the deduction was committed: the balance was updated and the answer
\* lost, the subscription shortened and not read back, or deleted and a cache
\* not told.
DeductFails(a) ==
    /\ pc[a] = "deduct"
    /\ Fault
    /\ \/ UNCHANGED <<goods, lapses>>
       \/ /\ ~(kind = "subscription" /\ (revoked \/ held = 0))
          /\ Take(plan[a].deduct)
          /\ lapses' = lapses \cup {"untracked"}
    /\ Goto(a, "restore")
    /\ UNCHANGED <<row, audit, fixed, upstream, hung>>

\* Reads whose error the code ignores: an unreadable audit log counts as empty,
\* an unreadable record as missing.  After an error of any other statement the
\* request ends, as after a Crash before or behind it.
ReadFails(a) ==
    /\ Fault
    /\ \/ pc[a] = "check" /\ Goto(a, "deduct") /\ UNCHANGED hung
       \/ pc[a] = "detail" /\ GuessRefund(a)
    /\ UNCHANGED <<row, goods, audit, fixed, upstream, lapses>>

Crash(a) ==
    /\ pc[a] # "idle"
    /\ Fault
    /\ Return(a)
    /\ UNCHANGED <<row, goods, audit, fixed, upstream, past>>

GatewaySettles ==
    /\ \E x \in Amounts :
        /\ upstream[x].open > 0
        /\ \/ upstream' = [upstream EXCEPT ![x].open = @ - 1, ![x].paid = @ + 1]
           \/ upstream' = [upstream EXCEPT ![x].open = @ - 1, ![x].refused = TRUE]
    /\ UNCHANGED <<row, goods, audit, fixed, thread, limits, past>>

\* The user spends, or time passes; the user buys more.
UserSpends ==
    /\ held > 0
    /\ held' = held - 1
    /\ UNCHANGED <<revoked, taken, row, audit, fixed, thread, limits, upstream, past>>

UserBuys ==
    /\ held < MaxHeld
    /\ ~revoked
    /\ held' = held + 1
    /\ UNCHANGED <<revoked, taken, row, audit, fixed, thread, limits, upstream, past>>

-----------------------------------------------------------------------------
Init ==
    /\ kind \in {"balance", "subscription"}
    /\ traded \in BOOLEAN
    /\ keyed \in {FALSE, traded}
    /\ status = "COMPLETED"
    /\ refundAmount = 0
    /\ held \in 0 .. MaxHeld
    /\ revoked = FALSE
    /\ rollbackFailed = FALSE
    /\ pending = NoDetail
    /\ succeeded = FALSE
    /\ upstream = [x \in Amounts |-> NoRefund]
    /\ pc = [a \in Admins |-> "idle"]
    /\ plan = [a \in Admins |-> NoPlan]
    /\ calls = MaxCalls
    /\ faults = MaxFaults
    /\ taken = 0
    /\ hung = {}
    /\ lapses = {}

ExecuteRefund(a) ==
    \/ LockOrder(a)
    \/ CheckRollbackFailed(a)
    \/ Deduct(a)
    \/ GwRefund(a)
    \/ MarkRefundOk(a)
    \/ UnwindPending(a)
    \/ MarkRefundPending(a)
    \/ AuditPending(a)
    \/ RollbackRefund(a)
    \/ RestoreStatus(a)
    \/ MarkRefundFailed(a)

QueryAndFinalizeRefund(a) ==
    \/ StartFinalize(a)
    \/ LatestRefundPendingDetail(a)
    \/ QueryRefund(a)
    \/ FinalizePendingRefundSuccess(a)
    \/ FinalizeRefundFailed(a)

Next ==
    \/ \E a \in Admins :
        \/ PrepareRefund(a)
        \/ ExecuteRefund(a)
        \/ QueryAndFinalizeRefund(a)
        \/ DeductFails(a)
        \/ ReadFails(a)
        \/ Crash(a)
    \/ RequestRefund
    \/ GatewaySettles
    \/ UserSpends
    \/ UserBuys

Spec == Init /\ [][Next]_vars

-----------------------------------------------------------------------------
(* Properties.                                                             *)

RowTypes ==
    /\ kind \in {"balance", "subscription"}
    /\ traded \in BOOLEAN
    /\ keyed \in BOOLEAN
    /\ status \in Statuses
    /\ refundAmount \in 0 .. Amount

GoodsTypes ==
    /\ held \in Nat
    /\ revoked \in BOOLEAN
    /\ taken \in Int

AuditTypes ==
    /\ rollbackFailed \in BOOLEAN
    /\ pending \in [id : 0 .. Amount, ok : BOOLEAN]
    /\ succeeded \in BOOLEAN

ThreadTypes ==
    /\ pc \in [Admins -> Labels]
    /\ plan \in [Admins -> Plan]

UpstreamTypes ==
    upstream \in [Amounts -> [open : Nat, paid : Nat, refused : BOOLEAN]]

PastTypes ==
    /\ calls \in Nat
    /\ faults \in Nat
    /\ hung \subseteq 0 .. Amount
    /\ lapses \subseteq Lapses

\* Every variable has its type.
TypeOK ==
    /\ RowTypes
    /\ GoodsTypes
    /\ AuditTypes
    /\ ThreadTypes
    /\ UpstreamTypes
    /\ PastTypes

\* As long as no rollback failed, no deduction was committed under an error and
\* no finalisation wrote over an order that had moved on, an order that is not
\* being refunded and was not refunded has cost the user nothing, however
\* attempts failed, hung or were repeated.
NothingTakenUnrefunded ==
    (lapses = {} /\ status \in Refundable) => taken = 0

\* Under the same conditions the user never loses more than the order granted,
\* though every attempt deducts before it knows the gateway's answer.
DeductedOnce ==
    lapses = {} => taken \in 0 .. Amount

OneAmountHung == \A x, y \in hung : x = y

\* As long as no refund of a second amount was left pending, whose record the
\* first one's hides, or asked about for want of a record, a refunded order was
\* refunded by the gateway, for the amount recorded.
RefundedMeansPaidBack ==
    (OneAmountHung /\ status \in Refunded /\ traded)
        => upstream[refundAmount].paid > 0

\* As long as no finalisation wrote over an order that had moved on, a refund
\* is final: no stale plan or rollback takes the status back.
RefundIsFinal ==
    [][("stale" \notin lapses' /\ status \in Refunded) => status' = status]_vars

\* Under the same condition the status is a lock: only one admin request at a
\* time is between the lock and the final status, and it finds REFUNDING there.
OneRefundAtATime ==
    "stale" \notin lapses =>
        \A a \in Admins : pc[a] \in Executing =>
            /\ status = "REFUNDING"
            /\ \A b \in Admins \ {a} : pc[b] \notin Executing

\* "Only PARTIALLY_REFUNDED / REFUNDED have real refund amounts", whichever
\* attempts were left pending before.
RefundAmountIsReal ==
    (status \in Refunded /\ traded) => upstream[refundAmount].paid > 0


-----------------------------------------------------------------------------
(* Why: the inductive invariant.                                           *)

\* A failed rollback leaves its record.
RollbackRecorded ==
    /\ rollbackFailed => "rollback" \in lapses
    /\ \A a \in Admins : pc[a] = "markFailed" => "rollback" \in lapses

\* What the running refund has taken is what its plan would return, unless it
\* deleted the subscription, which no rollback can undo.
PlanMatchesTaken ==
    lapses = {} =>
        /\ status \in Refundable => taken = 0
        /\ taken \in 0 .. Amount
        /\ \A a \in Admins :
            /\ pc[a] \in {"check", "deduct", "markPending", "restore"} => taken = 0
            /\ pc[a] \in {"gateway", "succeed", "unwind", "rollback"} =>
                \/ taken = plan[a].deduct
                \/ kind = "subscription" /\ revoked /\ plan[a].deduct > 0

\* Every refund amount a finalisation works with was once left pending, and a
\* request that reports success saw the gateway's.
AmountsAreHung ==
    /\ hung \subseteq Amounts
    /\ status \in Refunded => refundAmount \in Amounts
    /\ status = "REFUND_PENDING" => refundAmount \in hung
    /\ pending # NoDetail => pending.id \in hung
    /\ \A a \in Admins :
        /\ pc[a] = "lock" \/ pc[a] \in Executing => plan[a].amount \in Amounts
        /\ pc[a] \in {"auditPending", "detail", "query", "finalizeOk", "finalizeFail"} =>
            plan[a].amount \in hung
        /\ pc[a] \in {"query", "finalizeOk"} => plan[a].id \in hung
        /\ pc[a] = "succeed" /\ traded => upstream[plan[a].amount].paid > 0
        /\ pc[a] = "finalizeOk" => upstream[plan[a].id].paid > 0

\* The status lock, the money and the amounts agree; this is inductive.
Inv ==
    /\ TypeOK
    /\ OneRefundAtATime
    /\ RollbackRecorded
    /\ PlanMatchesTaken
    /\ AmountsAreHung
    /\ RefundedMeansPaidBack

-----------------------------------------------------------------------------
(* The refinement of RefundPromise.                                        *)

PhaseOf(s) ==
    CASE s \in Refunded       -> "refunded"
      [] s = "REFUND_PENDING" -> "pending"
      [] s = "REFUNDING"      -> "refunding"
      [] OTHER                -> "open"

Promise == INSTANCE RefundPromise WITH
    phase    <- PhaseOf(status),
    amount   <- IF status \in Refunded THEN refundAmount ELSE 0,
    asked    <- [x \in Amounts |-> upstream[x].open + upstream[x].paid],
    paid     <- [x \in Amounts |-> upstream[x].paid],
    external <- traded,
    once     <- keyed,
    damaged  <- lapses # {},
    overrun  <- "stale" \in lapses,
    blurred  <- ~OneAmountHung

\* The statements of all requests, whichever fail and whoever crashes, amount
\* to a refund that takes and pays once, behind the lock, and is final.  In
\* particular no stale plan or rollback takes a refunded status back, as long
\* as no finalisation wrote over an order that had moved on.
KeepsPromise == Promise!Spec

=============================================================================
