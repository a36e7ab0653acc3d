---------------------------- MODULE PaymentOrder ----------------------------
(***************************************************************************)
(* The life of a payment order, from PENDING to COMPLETED: the end of its  *)
(* creation, provider webhooks, upstream reconciliation, user and admin    *)
(* cancellation, expiry, admin retry, and the fulfilment that grants what  *)
(* was bought.  Source: backend/internal/service/payment_order.go          *)
(* (CreateOrder, invokeProvider), payment_fulfillment.go,                  *)
(* payment_order_lifecycle.go, redeem_service.go (Redeem, CreateCode) and  *)
(* handler/payment_webhook_handler.go.                                     *)
(*                                                                         *)
(* A worker is a goroutine that runs one of those operations on one order. *)
(* Every SQL statement, transaction or provider call is one step, so any   *)
(* other worker can run between two statements, and a worker can fail at   *)
(* any statement or die between two.                                       *)
(*                                                                         *)
(* Timestamps.  The code only ever compares payment_orders.updated_at with *)
(* "five minutes ago" (the expiry grace and the lease duration are both    *)
(* five minutes) and with a version a worker read earlier.  aged[o] is the *)
(* first comparison, holders[o] the second: the workers whose lease        *)
(* version is the row's present updated_at.  Each UPDATE of the row moves  *)
(* updated_at, so it empties holders[o] and clears aged[o].                *)
(***************************************************************************)
EXTENDS Naturals, FiniteSets

CONSTANTS
    Orders,      \* payment orders
    Workers,     \* goroutines of all server instances
    None,        \* the job of an idle worker
    MaxFaults,   \* bound on failed statements, crashes and stalls
    LostReads    \* whether the reads whose error is swallowed may fail

ASSUME FaultsAssumption == MaxFaults \in Nat
ASSUME LostReadsAssumption == LostReads \in BOOLEAN
ASSUME NoneAssumption == None \notin [op : STRING, order : Orders, backfill : BOOLEAN]

VARIABLES
    kind,      \* order_type: what the order buys; never changes
    status,    \* payment_orders.status
    aged,      \* updated_at is more than five minutes ago
    holders,   \* workers whose lease version equals updated_at
    tradeNo,   \* payment_trade_no already is the upstream trade number
    paidAt,    \* paid_at is set
    due,       \* expires_at has passed
    code,      \* the redeem code of a balance order
    note,      \* the user's subscription carries the order's note
    audit,     \* audit actions of the order that decide something
    provider,  \* what the payment provider knows of the order
    creating,  \* what CreateOrder has still to do for the order
    acked,     \* the provider got a success answer to its webhook
    pc,        \* next statement of each worker
    job,       \* operation and order of each worker
    faults,    \* failures still allowed
    granted,   \* history: times balance or subscription days were granted
    rebates    \* history: times the inviter's rebate was accrued

row     == <<status, aged, holders>>
grants  == <<code, note, audit, granted, rebates>>
payment == <<tradeNo, paidAt>>
world   == <<kind, due, provider, creating>>
thread  == <<pc, job, acked>>
vars    == <<row, payment, grants, world, thread, faults>>

OrderTypes == {"balance", "subscription"}
Unpaid     == {"PENDING", "CANCELLED", "EXPIRED"}
Owed       == {"PAID", "RECHARGING", "FAILED"}
Settled    == {"COMPLETED", "REFUND_REQUESTED"}
Started    == {"RECHARGING", "FAILED"} \cup Settled  \* fulfilment has begun
Statuses   == Unpaid \cup Owed \cup Settled
CodeStates == {"none", "unused", "used"}
AuditActions ==
    {"SUBSCRIPTION_ASSIGNED", "AFFILIATE_REBATE_APPLIED", "AFFILIATE_REBATE_SKIPPED"}
RebateActions == {"AFFILIATE_REBATE_APPLIED", "AFFILIATE_REBATE_SKIPPED"}
Cancelling == {"cancel", "expire"}
Ops        == {"webhook", "retry", "reconcile"} \cup Cancelling
Job        == [op : Ops, order : Orders, backfill : BOOLEAN]
\* The statements a worker runs holding a fulfilment lease.
Fulfilling ==
    {"lookup", "create", "redeem", "assign", "grant", "rebate", "claim", "settle",
     "complete", "lost", "fail"}
\* The statements it runs once the payment was confirmed or found recorded.
Confident == {"recheck", "load", "acquire", "contended", "reload"} \cup Fulfilling
Labels ==
    {"idle", "query", "persist", "close", "cancel", "toPaid"} \cup Confident

-----------------------------------------------------------------------------
(* What every statement has in common.                                     *)

\* An UPDATE of the row that sets its status; updated_at moves with it.
SetStatus(o, s) ==
    /\ status' = [status EXCEPT ![o] = s]
    /\ aged' = [aged EXCEPT ![o] = FALSE]
    /\ holders' = [holders EXCEPT ![o] = {}]

Goto(w, label) ==
    /\ pc' = [pc EXCEPT ![w] = label]
    /\ UNCHANGED <<job, acked>>

\* The operation ends; a webhook answered without error is acknowledged.
Answer(w, ok) ==
    /\ pc' = [pc EXCEPT ![w] = "idle"]
    /\ job' = [job EXCEPT ![w] = None]
    /\ acked' = [acked EXCEPT ![job[w].order] =
                    @ \/ (ok /\ job[w].op = "webhook")]

\* The operation ends without having written the row.
Return(w, ok) ==
    /\ Answer(w, ok)
    /\ holders' = [o \in Orders |-> holders[o] \ {w}]
    /\ UNCHANGED <<status, aged>>

Fault ==
    /\ faults > 0
    /\ faults' = faults - 1

\* After a commit: the code goes on, or a call behind the commit fails.
Committed(w, label) ==
    \/ Goto(w, label) /\ UNCHANGED faults
    \/ Fault /\ Goto(w, "fail")

-----------------------------------------------------------------------------
(* The end of CreateOrder, once the PENDING order is committed.            *)

\* invokeProvider creates the payment upstream and stores its address in the
\* row by id: only then can the customer pay.  Either may fail, and the store
\* may report an error though it was made.
InvokeProvider(o) ==
    /\ creating[o] = "invoke"
    /\ \/ /\ provider' = [provider EXCEPT ![o] = "open"]
          /\ SetStatus(o, status[o])
          /\ \E known \in BOOLEAN : tradeNo' = [tradeNo EXCEPT ![o] = known]
          /\ \/ creating' = [creating EXCEPT ![o] = "done"] /\ UNCHANGED faults
             \/ creating' = [creating EXCEPT ![o] = "undo"] /\ Fault
       \/ /\ creating' = [creating EXCEPT ![o] = "undo"]
          /\ Fault
          /\ UNCHANGED <<provider, row, tradeNo>>
    /\ UNCHANGED <<kind, due, paidAt, grants, thread>>

\* CreateOrder gives up: FAILED by id, whatever happened to the row meanwhile.
FailCreation(o) ==
    /\ creating[o] = "undo"
    /\ SetStatus(o, "FAILED")
    /\ creating' = [creating EXCEPT ![o] = "done"]
    /\ UNCHANGED <<kind, due, provider, payment, grants, thread, faults>>

\* The process dies before either write, or the error of the second is ignored.
AbandonCreation(o) ==
    /\ creating[o] # "done"
    /\ creating' = [creating EXCEPT ![o] = "done"]
    /\ Fault
    /\ UNCHANGED <<kind, due, provider, row, payment, grants, thread>>

-----------------------------------------------------------------------------
(* Starting an operation.                                                  *)

Begin(w, op, o, label) ==
    /\ pc[w] = "idle"
    /\ pc' = [pc EXCEPT ![w] = label]
    /\ job' = [job EXCEPT ![w] = [op |-> op, order |-> o, backfill |-> FALSE]]
    /\ UNCHANGED <<acked, row, payment, grants, world, faults>>

\* handleNotify: the provider reports a payment, first or again.
HandleNotify(w, o) ==
    /\ provider[o] \in {"paid", "mispaid"}
    /\ Begin(w, "webhook", o, "toPaid")

\* Mutation: a FAILED order may be retried whether or not it was paid.
RetryUnpaid(w, o) ==
    /\ status[o] \in Owed
    /\ Begin(w, "retry", o, "load")

RetryFulfillment(w, o) ==
    /\ paidAt[o]
    /\ status[o] \in Owed
    /\ Begin(w, "retry", o, "load")

\* VerifyOrderByOutTradeNo takes both; the background reconciliation only
\* PENDING orders before their deadline, which adds no behaviour.
MayReconcile(o) == status[o] \in {"PENDING", "EXPIRED"}

\* CancelOrder and AdminCancelOrder.
MayUserCancel(o) == status[o] = "PENDING"

\* ExpireTimedOutOrders.
MayExpire(o) == status[o] = "PENDING" /\ due[o]

\* The operations that ask the provider first, from a row read before.
MayCheck(op, o) ==
    \/ op = "reconcile" /\ MayReconcile(o)
    \/ op = "cancel" /\ MayUserCancel(o)
    \/ op = "expire" /\ MayExpire(o)

StartCheck(w, o) ==
    /\ pc[w] = "idle"
    /\ \E op \in Ops \ {"webhook", "retry"} :
        /\ MayCheck(op, o)
        /\ pc' = [pc EXCEPT ![w] = "query"]
        /\ job' = [job EXCEPT ![w] =
                      [op |-> op, order |-> o, backfill |-> ~tradeNo[o]]]
    /\ UNCHANGED <<acked, row, payment, grants, world, faults>>

-----------------------------------------------------------------------------
(* checkPaidWithOptions and cancelCore.                                    *)

QueryOrder(w) ==
    LET o == job[w].order IN
    /\ pc[w] = "query"
    /\ \/ /\ provider[o] \in {"paid", "mispaid"}
          /\ Goto(w, IF job[w].backfill THEN "persist" ELSE "toPaid")
          /\ UNCHANGED row
       \/ /\ provider[o] \notin {"paid", "mispaid"}
          /\ IF job[w].op \in Cancelling
             THEN Goto(w, "close") /\ UNCHANGED row
             ELSE Return(w, TRUE)
    /\ UNCHANGED <<payment, grants, world, faults>>

\* The upstream trade number is stored by id, whatever the status is by now.
PersistTradeNo(w) ==
    LET o == job[w].order IN
    /\ pc[w] = "persist"
    /\ SetStatus(o, status[o])
    /\ tradeNo' = [tradeNo EXCEPT ![o] = TRUE]
    /\ Goto(w, "toPaid")
    /\ UNCHANGED <<paidAt, grants, world, faults>>

\* CancelPayment is best effort, and not every provider has it.
CancelPayment(w) ==
    LET o == job[w].order IN
    /\ pc[w] = "close"
    /\ \/ UNCHANGED provider
       \/ /\ provider[o] = "open"
          /\ provider' = [provider EXCEPT ![o] = "closed"]
    /\ Goto(w, "cancel")
    /\ UNCHANGED <<row, payment, grants, kind, due, creating, faults>>

\* Mutation: the UPDATE of cancelCore without its status condition.
CancelAnyStatus(o) == TRUE

\* The WHERE clause of cancelCore.
MayCancel(o) == status[o] = "PENDING"

CancelTarget(op) == IF op = "expire" THEN "EXPIRED" ELSE "CANCELLED"

CancelCore(w) ==
    LET o == job[w].order IN
    /\ pc[w] = "cancel"
    /\ \/ /\ MayCancel(o)
          /\ SetStatus(o, CancelTarget(job[w].op))
          /\ Answer(w, TRUE)
       \/ /\ ~MayCancel(o)
          /\ Return(w, TRUE)
    /\ UNCHANGED <<payment, grants, world, faults>>

-----------------------------------------------------------------------------
(* HandlePaymentNotification up to the fulfilment lease.                   *)

\* The WHERE clause of toPaid: late payments revive an order, but an
\* expired one only within the grace period.
Payable(o) ==
    \/ status[o] \in {"PENDING", "CANCELLED"}
    \/ status[o] = "EXPIRED" /\ ~aged[o]

\* Mutation: the amount is not compared.
AcceptAnyAmount(o) == provider[o] \in {"paid", "mispaid"}

\* confirmPayment's checks of provider, metadata and amount.
Confirmed(o) == provider[o] = "paid"

ToPaid(w) ==
    LET o == job[w].order IN
    /\ pc[w] = "toPaid"
    /\ \/ /\ ~Confirmed(o)
          /\ Return(w, FALSE)
          /\ UNCHANGED payment
       \/ /\ Confirmed(o)
          /\ Payable(o)
          /\ SetStatus(o, "PAID")
          /\ tradeNo' = [tradeNo EXCEPT ![o] = TRUE]
          /\ paidAt' = [paidAt EXCEPT ![o] = TRUE]
          /\ Goto(w, "load")
       \/ /\ Confirmed(o)
          /\ ~Payable(o)
          /\ Goto(w, "recheck")
          /\ UNCHANGED <<row, payment>>
    /\ UNCHANGED <<grants, world, faults>>

AlreadyProcessed(w) ==
    LET o == job[w].order IN
    /\ pc[w] = "recheck"
    /\ IF status[o] \in Owed
       THEN Goto(w, "load") /\ UNCHANGED row
       ELSE Return(w, TRUE)
    /\ UNCHANGED <<payment, grants, world, faults>>

\* executeFulfillment and the first half of Execute*Fulfillment.
ExecuteFulfillment(w) ==
    LET o == job[w].order IN
    /\ pc[w] = "load"
    /\ IF status[o] \in Owed
       THEN Goto(w, "acquire") /\ UNCHANGED row
       ELSE Return(w, status[o] = "COMPLETED")
    /\ UNCHANGED <<payment, grants, world, faults>>

\* Mutation: the lease is taken whatever the status.
LeaseIgnoringStatus(o) == TRUE

\* Mutation: an abandoned lease is never taken over.
LeaseNeverStale(o) == status[o] \in {"PAID", "FAILED"}

\* The WHERE clause of acquirePaymentFulfillmentLease.
LeaseFree(o) ==
    \/ status[o] \in {"PAID", "FAILED"}
    \/ status[o] = "RECHARGING" /\ aged[o]

AcquireLease(w) ==
    LET o == job[w].order IN
    /\ pc[w] = "acquire"
    /\ \/ /\ LeaseFree(o)
          /\ SetStatus(o, "RECHARGING")
          /\ Goto(w, "reload")
       \/ /\ ~LeaseFree(o)
          /\ Goto(w, "contended")
          /\ UNCHANGED row
    /\ UNCHANGED <<payment, grants, world, faults>>

\* No row was updated: nil when the order is COMPLETED by now, else CONFLICT.
LeaseContended(w) ==
    /\ pc[w] = "contended"
    /\ Return(w, status[job[w].order] = "COMPLETED")
    /\ UNCHANGED <<payment, grants, world, faults>>

\* The claimed row is read again; its updated_at becomes the lease version.
ReloadLease(w) ==
    LET o == job[w].order IN
    /\ pc[w] = "reload"
    /\ \/ /\ status[o] = "RECHARGING"
          /\ holders' = [holders EXCEPT ![o] = @ \cup {w}]
          /\ Goto(w, IF kind[o] = "balance" THEN "lookup" ELSE "assign")
          /\ UNCHANGED <<status, aged>>
       \/ /\ status[o] # "RECHARGING"
          /\ Return(w, FALSE)
    /\ UNCHANGED <<payment, grants, world, faults>>

-----------------------------------------------------------------------------
(* doBalance: the redeem code is the idempotency key of the credit.        *)

\* Mutation: any existing code counts as redeemed.
ResolveExistingAsDone(c) == IF c = "none" THEN "create" ELSE "rebate"

\* resolveRedeemAction, as the statement to run next.
ResolveRedeemAction(c) ==
    CASE c = "none"   -> "create"
      [] c = "unused" -> "redeem"
      [] c = "used"   -> "rebate"

LookupCode(w) ==
    /\ pc[w] = "lookup"
    /\ Goto(w, ResolveRedeemAction(code[job[w].order]))
    /\ UNCHANGED <<row, payment, grants, world, faults>>

\* The unique index on redeem codes refuses a second one.
CreateCode(w) ==
    LET o == job[w].order IN
    /\ pc[w] = "create"
    /\ \/ /\ code[o] = "none"
          /\ code' = [code EXCEPT ![o] = "unused"]
          /\ Goto(w, "redeem")
       \/ /\ code[o] # "none"
          /\ Goto(w, "fail")
          /\ UNCHANGED code
    /\ UNCHANGED <<row, payment, note, audit, granted, rebates, world, faults>>

\* Mutation: the code is used without the status = 'unused' condition.
UsableTwice(o) == code[o] # "none"

\* CanUse and the WHERE status = 'unused' of redeemRepo.Use.
CanUse(o) == code[o] = "unused"

\* One transaction marks the code used and credits the balance.  Whoever
\* finds the code used, or its Redis lock taken, fails.
Redeem(w) ==
    LET o == job[w].order IN
    /\ pc[w] = "redeem"
    /\ \/ /\ CanUse(o)
          /\ code' = [code EXCEPT ![o] = "used"]
          /\ granted' = [granted EXCEPT ![o] = @ + 1]
          /\ Committed(w, "rebate")
       \/ /\ \/ ~CanUse(o)
             \/ \E v \in Workers \ {w} : pc[v] = "redeem" /\ job[v].order = o
          /\ Goto(w, "fail")
          /\ UNCHANGED <<code, granted, faults>>
    /\ UNCHANGED <<row, payment, note, audit, rebates, world>>

-----------------------------------------------------------------------------
(* doSub: the SUBSCRIPTION_ASSIGNED audit record is the idempotency key.   *)

HasAssignmentAudit(o) == "SUBSCRIPTION_ASSIGNED" \in audit[o]

CheckAssigned(w) ==
    /\ pc[w] = "assign"
    /\ IF HasAssignmentAudit(job[w].order)
       THEN Committed(w, "rebate")
       ELSE Goto(w, "grant") /\ UNCHANGED faults
    /\ UNCHANGED <<row, payment, grants, world>>

\* The transaction assigns or extends, leaves the order's note on the
\* subscription and inserts the audit record.  A concurrent insert makes the
\* unique index roll it back; a note without an audit record (an assignment
\* of an older release) is only recorded.
AssignSubscription(w) ==
    LET o == job[w].order IN
    /\ pc[w] = "grant"
    /\ IF HasAssignmentAudit(o)
       THEN UNCHANGED <<note, audit, granted>>
       ELSE /\ audit' = [audit EXCEPT ![o] = @ \cup {"SUBSCRIPTION_ASSIGNED"}]
            /\ note' = [note EXCEPT ![o] = TRUE]
            /\ granted' = [granted EXCEPT ![o] = IF note[o] THEN @ ELSE @ + 1]
    /\ Committed(w, "rebate")
    /\ UNCHANGED <<row, payment, code, rebates, world>>

-----------------------------------------------------------------------------
(* applyAffiliateRebateForOrder, under READ COMMITTED: the NOT EXISTS of    *)
(* the claim sees what is committed when the statement starts; the insert   *)
(* then waits for a transaction that inserted the same key, and conflicts   *)
(* only if that key is still APPLIED after the other commits.               *)

RebateSettled(o) == audit[o] \cap RebateActions # {}

CheckRebate(w) ==
    /\ pc[w] = "rebate"
    /\ Goto(w, IF RebateSettled(job[w].order) THEN "complete" ELSE "claim")
    /\ UNCHANGED <<row, payment, grants, world, faults>>

\* Mutation: no unique index serialises the claims.
ClaimUnlocked(w) == TRUE

\* No other transaction holds an uncommitted claim on the order.
ClaimFree(w) ==
    \A v \in Workers \ {w} : ~(pc[v] = "settle" /\ job[v].order = job[w].order)

ClaimRebate(w) ==
    /\ pc[w] = "claim"
    /\ ClaimFree(w)
    /\ Goto(w, IF "AFFILIATE_REBATE_APPLIED" \in audit[job[w].order]
               THEN "complete" ELSE "settle")
    /\ UNCHANGED <<row, payment, grants, world, faults>>

\* AccrueInviteRebateForOrder pays the inviter, or there is none to pay and
\* the claim is renamed to SKIPPED, which the unique index may refuse.
SettleRebate(w) ==
    LET o == job[w].order IN
    /\ pc[w] = "settle"
    /\ \/ /\ rebates' = [rebates EXCEPT ![o] = @ + 1]
          /\ audit' = [audit EXCEPT ![o] = @ \cup {"AFFILIATE_REBATE_APPLIED"}]
          /\ Goto(w, "complete")
       \/ /\ "AFFILIATE_REBATE_SKIPPED" \notin audit[o]
          /\ audit' = [audit EXCEPT ![o] = @ \cup {"AFFILIATE_REBATE_SKIPPED"}]
          /\ Goto(w, "complete")
          /\ UNCHANGED rebates
       \/ /\ "AFFILIATE_REBATE_SKIPPED" \in audit[o]
          /\ Goto(w, "fail")
          /\ UNCHANGED <<audit, rebates>>
    /\ UNCHANGED <<row, payment, code, note, granted, world, faults>>

-----------------------------------------------------------------------------
(* Ending a fulfilment.                                                    *)

\* The WHERE clause of markCompleted and markFailed.
HoldsLease(w) ==
    /\ status[job[w].order] = "RECHARGING"
    /\ w \in holders[job[w].order]

MarkCompleted(w) ==
    /\ pc[w] = "complete"
    /\ IF HoldsLease(w)
       THEN SetStatus(job[w].order, "COMPLETED") /\ Answer(w, TRUE)
       ELSE Goto(w, "lost") /\ UNCHANGED row
    /\ UNCHANGED <<payment, grants, world, faults>>

\* Nothing was updated: fine if someone else completed the order.
LeaseLost(w) ==
    /\ pc[w] = "lost"
    /\ IF status[job[w].order] = "COMPLETED"
       THEN Return(w, TRUE)
       ELSE Goto(w, "fail") /\ UNCHANGED row
    /\ UNCHANGED <<payment, grants, world, faults>>

MarkFailed(w) ==
    /\ pc[w] = "fail"
    /\ IF HoldsLease(w)
       THEN SetStatus(job[w].order, "FAILED") /\ Answer(w, FALSE)
       ELSE Return(w, FALSE)
    /\ UNCHANGED <<payment, grants, world, faults>>

-----------------------------------------------------------------------------
(* Failures.                                                               *)

\* A statement returns an error; where the code goes depends on the caller.
StatementFails(w) ==
    /\ Fault
    /\ \/ /\ pc[w] \in {"toPaid", "load", "acquire", "contended", "reload",
                        "cancel", "fail"}
          /\ Return(w, FALSE)
       \/ /\ pc[w] \in Fulfilling \ {"lookup", "fail"}
          /\ Goto(w, "fail")
          /\ UNCHANGED row
       \/ /\ pc[w] = "lookup"     \* a lookup error counts as "no such code"
          /\ Goto(w, "create")
          /\ UNCHANGED row
       \/ /\ pc[w] = "persist"    \* logged only
          /\ Goto(w, "toPaid")
          /\ UNCHANGED row
       \/ /\ pc[w] = "query"      \* an unknown upstream counts as unpaid
          /\ IF job[w].op \in Cancelling
             THEN Goto(w, "cancel") /\ UNCHANGED row
             ELSE Return(w, TRUE)
    /\ UNCHANGED <<payment, grants, world>>

\* confirmPayment and alreadyProcessed answer nil when they cannot read the
\* order, so the provider takes the notification for delivered.
SwallowedRead(w) ==
    /\ LostReads
    /\ Fault
    /\ pc[w] \in {"toPaid", "recheck"}
    /\ Return(w, TRUE)
    /\ UNCHANGED <<payment, grants, world>>

\* The process dies, or its request context is cancelled.
Crash(w) ==
    /\ pc[w] # "idle"
    /\ Fault
    /\ Return(w, FALSE)
    /\ UNCHANGED <<payment, grants, world>>

-----------------------------------------------------------------------------
(* The surroundings.                                                       *)

CustomerPays(o) ==
    /\ provider[o] = "open"
    /\ \E p \in {"paid", "mispaid"} : provider' = [provider EXCEPT ![o] = p]
    /\ UNCHANGED <<kind, due, creating, row, payment, grants, thread, faults>>

\* A live worker has taken the fulfilment lease.
Leased(o) ==
    \/ holders[o] # {}
    \/ \E w \in Workers : pc[w] = "reload" /\ job[w].order = o

\* Five minutes pass without an update of the row.
Age(o) ==
    /\ ~aged[o]
    /\ ~Leased(o)
    /\ aged' = [aged EXCEPT ![o] = TRUE]
    /\ UNCHANGED <<status, holders, payment, grants, world, thread, faults>>

\* They pass while a live worker has the lease: the worker stalls.
Stall(o) ==
    /\ ~aged[o]
    /\ Leased(o)
    /\ Fault
    /\ aged' = [aged EXCEPT ![o] = TRUE]
    /\ UNCHANGED <<status, holders, payment, grants, world, thread>>

PassDeadline(o) ==
    /\ ~due[o]
    /\ due' = [due EXCEPT ![o] = TRUE]
    /\ UNCHANGED <<kind, provider, creating, row, payment, grants, thread, faults>>

RequestRefund(o) ==
    /\ kind[o] = "balance"
    /\ status[o] = "COMPLETED"
    /\ SetStatus(o, "REFUND_REQUESTED")
    /\ UNCHANGED <<payment, grants, world, thread, faults>>

-----------------------------------------------------------------------------
\* Orders start PENDING, committed and not yet known to the provider.  A
\* subscription order may also come from a release that assigned before it
\* recorded the assignment, and failed in between.
Init ==
    /\ kind \in [Orders -> OrderTypes]
    /\ \E legacy \in SUBSET {o \in Orders : kind[o] = "subscription"} :
        /\ status = [o \in Orders |-> IF o \in legacy THEN "FAILED" ELSE "PENDING"]
        /\ note = [o \in Orders |-> o \in legacy]
        /\ granted = [o \in Orders |-> IF o \in legacy THEN 1 ELSE 0]
        /\ provider = [o \in Orders |-> IF o \in legacy THEN "paid" ELSE "none"]
        /\ creating = [o \in Orders |-> IF o \in legacy THEN "done" ELSE "invoke"]
        /\ tradeNo = [o \in Orders |-> o \in legacy]
        /\ paidAt = [o \in Orders |-> o \in legacy]
    /\ aged = [o \in Orders |-> FALSE]
    /\ holders = [o \in Orders |-> {}]
    /\ due = [o \in Orders |-> FALSE]
    /\ code = [o \in Orders |-> "none"]
    /\ audit = [o \in Orders |-> {}]
    /\ acked = [o \in Orders |-> FALSE]
    /\ pc = [w \in Workers |-> "idle"]
    /\ job = [w \in Workers |-> None]
    /\ faults = MaxFaults
    /\ rebates = [o \in Orders |-> 0]

\* The next statement of a running worker.
Step(w) ==
    \/ QueryOrder(w)
    \/ PersistTradeNo(w)
    \/ CancelPayment(w)
    \/ CancelCore(w)
    \/ ToPaid(w)
    \/ AlreadyProcessed(w)
    \/ ExecuteFulfillment(w)
    \/ AcquireLease(w)
    \/ LeaseContended(w)
    \/ ReloadLease(w)
    \/ LookupCode(w)
    \/ CreateCode(w)
    \/ Redeem(w)
    \/ CheckAssigned(w)
    \/ AssignSubscription(w)
    \/ CheckRebate(w)
    \/ ClaimRebate(w)
    \/ SettleRebate(w)
    \/ MarkCompleted(w)
    \/ LeaseLost(w)
    \/ MarkFailed(w)

Start(w, o) ==
    \/ HandleNotify(w, o)
    \/ RetryFulfillment(w, o)
    \/ StartCheck(w, o)

Failure(w) ==
    \/ StatementFails(w)
    \/ SwallowedRead(w)
    \/ Crash(w)

Creation(o) ==
    \/ InvokeProvider(o)
    \/ FailCreation(o)
    \/ AbandonCreation(o)

Surroundings(o) ==
    \/ CustomerPays(o)
    \/ Age(o)
    \/ Stall(o)
    \/ PassDeadline(o)
    \/ RequestRefund(o)

Next ==
    \/ \E w \in Workers : Step(w) \/ Failure(w)
    \/ \E w \in Workers, o \in Orders : Start(w, o)
    \/ \E o \in Orders : Creation(o) \/ Surroundings(o)

Spec == Init /\ [][Next]_vars

\* The provider delivers a webhook until it gets a success answer.
Redeliver(o) == ~acked[o] /\ \E w \in Workers : HandleNotify(w, o)

Fairness ==
    /\ \A w \in Workers : WF_vars(Step(w))
    /\ \A o \in Orders : SF_vars(Redeliver(o)) /\ WF_vars(Age(o))

FairSpec == Spec /\ Fairness

-----------------------------------------------------------------------------
(* Properties.                                                             *)

RowTypes ==
    /\ status \in [Orders -> Statuses]
    /\ aged \in [Orders -> BOOLEAN]
    /\ holders \in [Orders -> SUBSET Workers]

ThreadTypes ==
    /\ pc \in [Workers -> Labels]
    /\ job \in [Workers -> Job \cup {None}]
    /\ \A w \in Workers : pc[w] # "idle" => job[w] \in Job
    /\ acked \in [Orders -> BOOLEAN]

GrantTypes ==
    /\ code \in [Orders -> CodeStates]
    /\ note \in [Orders -> BOOLEAN]
    /\ audit \in [Orders -> SUBSET AuditActions]
    /\ granted \in [Orders -> Nat]
    /\ rebates \in [Orders -> Nat]

WorldTypes ==
    /\ kind \in [Orders -> OrderTypes]
    /\ due \in [Orders -> BOOLEAN]
    /\ provider \in [Orders -> {"none", "open", "paid", "mispaid", "closed"}]
    /\ creating \in [Orders -> {"invoke", "undo", "done"}]
    /\ tradeNo \in [Orders -> BOOLEAN]
    /\ paidAt \in [Orders -> BOOLEAN]
    /\ faults \in Nat

\* Every variable has its type, and a running worker has a job.
TypeOK == RowTypes /\ ThreadTypes /\ GrantTypes /\ WorldTypes

\* However webhooks, retries, stolen leases, crashes and errors behind a
\* commit interleave, what the order bought is granted at most once.
GrantedOnce == \A o \in Orders : granted[o] <= 1

\* The inviter is paid at most once for an order, though two workers may
\* both pass the NOT EXISTS of the claim.
RebateOnce == \A o \in Orders : rebates[o] <= 1

\* An order is COMPLETED only after it was granted and its rebate decided,
\* whoever granted and whoever completed.
CompletedMeansGranted ==
    \A o \in Orders : status[o] \in Settled => granted[o] = 1 /\ RebateSettled(o)

\* Nothing is granted without a matching payment, though CreateOrder leaves
\* FAILED orders nobody paid and an admin may retry a FAILED order; and an
\* order whose goods were granted is never shown as unpaid: a cancellation, an
\* expiry or a late recovery never overwrites it.
GrantedMeansPaid ==
    \A o \in Orders :
        granted[o] > 0 =>
            provider[o] = "paid" /\ status[o] \in Started

\* A step takes an order forward only: never from paid to unpaid, never from
\* completed back to fulfilment, whatever stale row the worker started from.
\* One step does: CreateOrder writes FAILED by id on an order whose creation
\* reported an error, also if it was paid and completed meanwhile.
Rank(s) == CASE s \in Unpaid -> 0 [] s \in Owed -> 1 [] s \in Settled -> 2

ForwardOnly ==
    [][\A o \in Orders :
        \/ Rank(status'[o]) >= Rank(status[o])
        \/ creating[o] = "undo" /\ status'[o] = "FAILED"]_vars


\* Until the provider's notification of a matching payment is answered with
\* success it is delivered again, and that alone brings the order to COMPLETED,
\* through failed statements, crashes and abandoned leases, or the payment came
\* too late for an expired order, which is answered with success too.
NotificationSettles ==
    \A o \in Orders :
        (provider[o] = "paid" /\ ~acked[o]) ~>
            (status[o] \in Settled \/ (status[o] = "EXPIRED" /\ acked[o]))

\* "If the user has actually paid but the callback was delayed, the system
\* will reconcile automatically".
PaidIsReconciled == \A o \in Orders : provider[o] = "paid" ~> status[o] \in Settled

-----------------------------------------------------------------------------
(* Why the grants are made once: the inductive invariant.                  *)

\* The idempotency key of each grant tells exactly whether it was made.
KeysMatchGrants ==
    \A o \in Orders :
        /\ kind[o] = "balance" => granted[o] = IF code[o] = "used" THEN 1 ELSE 0
        /\ kind[o] = "subscription" =>
            /\ granted[o] = IF note[o] THEN 1 ELSE 0
            /\ HasAssignmentAudit(o) => note[o]
        /\ rebates[o] = IF "AFFILIATE_REBATE_APPLIED" \in audit[o] THEN 1 ELSE 0

\* The matching payment of the order has arrived.
PaidFor(o) == provider[o] = "paid"

\* Statuses that no order has without a payment.
Claimed(s) == s \notin Unpaid \cup {"FAILED"}

\* What a worker has established about its order stays true of it, though
\* other workers and other operations run meanwhile.
WorkerIsRight(w) ==
    LET o == job[w].order IN
    /\ pc[w] \in {"lookup", "create", "redeem"} => kind[o] = "balance"
    /\ pc[w] \in {"assign", "grant"} => kind[o] = "subscription"
    /\ pc[w] \in {"rebate", "claim", "settle", "complete", "lost"} => granted[o] = 1
    /\ pc[w] \in {"complete", "lost"} => RebateSettled(o)
    /\ pc[w] \in Fulfilling \cup {"reload"} => status[o] \in Started
    /\ pc[w] \in Confident => PaidFor(o)

WorkersAreRight == \A w \in Workers : WorkerIsRight(w)

\* An uncommitted rebate claim is the only one, and none is committed.
ClaimIsExclusive ==
    \A w \in Workers :
        pc[w] = "settle" =>
            /\ "AFFILIATE_REBATE_APPLIED" \notin audit[job[w].order]
            /\ ClaimFree(w)

\* A FAILED order need not be paid.  Any other that left the unpaid statuses
\* is, and so is one with a paid_at, whatever its status.
OwedMeansPaid ==
    \A o \in Orders :
        /\ Claimed(status[o]) => PaidFor(o)
        /\ paidAt[o] => PaidFor(o)

\* Nobody can pay before the address of the payment is in the row.
CreationFirst == \A o \in Orders : creating[o] = "invoke" => provider[o] = "none"

\* Idempotency keys, workers, claims and statuses agree: together with the
\* invariants above this is inductive.
Inv ==
    /\ TypeOK
    /\ KeysMatchGrants
    /\ WorkersAreRight
    /\ ClaimIsExclusive
    /\ OwedMeansPaid
    /\ CreationFirst
    /\ CompletedMeansGranted
    /\ GrantedMeansPaid

-----------------------------------------------------------------------------
(* The refinement of PaymentPromise.                                       *)

\* A FAILED order nobody paid is as unpaid as a cancelled one.
Phase(s, paid) ==
    CASE s \in Unpaid \/ ~paid -> "unpaid"
      [] s \in Owed /\ paid     -> "owed"
      [] s \in Settled /\ paid  -> "settled"

Promise == INSTANCE PaymentPromise WITH
    received <- [o \in Orders |-> PaidFor(o)],
    phase    <- [o \in Orders |-> Phase(status[o], PaidFor(o))],
    unsure   <- [o \in Orders |-> creating[o] # "done"],
    goods    <- granted,
    shared   <- rebates

\* Statement by statement, the code takes only steps the abstract system
\* allows: no grant before a payment, none twice, no completion before it.
KeepsPromise == Promise!Spec

=============================================================================
