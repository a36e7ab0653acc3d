------------------------- MODULE PaymentOrderProofs -------------------------
(***************************************************************************)
(* Proofs about PaymentOrder, for any set of orders, any number of         *)
(* workers and any number of failures.                                     *)
(***************************************************************************)
EXTENDS PaymentOrder, TLAPS

\* A running worker works on an order.
LEMMA JobOrder ==
    ASSUME ThreadTypes, NEW w \in Workers, pc[w] # "idle"
    PROVE  job[w] \in Job /\ job[w].order \in Orders
BY DEF ThreadTypes, Job

\* Going to the next statement keeps the types of the workers.
LEMMA GotoTypes ==
    ASSUME ThreadTypes, NEW w \in Workers, NEW l \in Labels, pc[w] # "idle",
           Goto(w, l)
    PROVE  ThreadTypes'
BY DEF ThreadTypes, Goto

\* Ending an operation keeps the types of the workers.
LEMMA AnswerTypes ==
    ASSUME ThreadTypes, NEW w \in Workers, NEW ok \in BOOLEAN, pc[w] # "idle",
           Answer(w, ok)
    PROVE  ThreadTypes'
<1>1. "idle" \in Labels
    BY DEF Labels
<1>2. pc' \in [Workers -> Labels]
    BY <1>1 DEF ThreadTypes, Answer
<1>3. job' \in [Workers -> Job \cup {None}]
    BY DEF ThreadTypes, Answer
<1>4. \A v \in Workers : pc'[v] # "idle" => job'[v] \in Job
    BY DEF ThreadTypes, Answer
<1>5. acked' \in [Orders -> BOOLEAN]
    BY JobOrder DEF ThreadTypes, Answer
<1> QED
    BY <1>2, <1>3, <1>4, <1>5 DEF ThreadTypes

\* An update of the row keeps the types of the row.
LEMMA SetStatusTypes ==
    ASSUME RowTypes, NEW o \in Orders, NEW s \in Statuses, SetStatus(o, s)
    PROVE  RowTypes'
BY DEF RowTypes, SetStatus

\* Ending an operation without an update keeps both.
LEMMA ReturnTypes ==
    ASSUME ThreadTypes, RowTypes, NEW w \in Workers, NEW ok \in BOOLEAN,
           pc[w] # "idle", Return(w, ok)
    PROVE  ThreadTypes' /\ RowTypes'
BY AnswerTypes DEF RowTypes, Return

\* Whether or not the call behind a commit fails, the types are kept.
LEMMA CommittedTypes ==
    ASSUME ThreadTypes, NEW w \in Workers, NEW l \in Labels, pc[w] # "idle",
           faults \in Nat, Committed(w, l)
    PROVE  ThreadTypes' /\ faults' \in Nat
<1>1. "fail" \in Labels
    BY DEF Labels, Confident, Fulfilling
<1> QED
    BY <1>1, GotoTypes DEF Committed, Fault

\* Every statement, failure and event keeps the types.
LEMMA TypeNext == TypeOK /\ [Next]_vars => TypeOK'
<1> SUFFICES ASSUME TypeOK, [Next]_vars PROVE TypeOK'
    OBVIOUS
<1>a. RowTypes /\ ThreadTypes /\ GrantTypes /\ WorldTypes
    BY DEF TypeOK
<1>b. \A l \in {"query", "persist", "close", "cancel", "toPaid", "recheck", "load",
                "acquire", "contended", "reload", "lookup", "create", "redeem",
                "assign", "grant", "rebate", "claim", "settle", "complete", "lost",
                "fail"} : l \in Labels
    BY DEF Labels, Confident, Fulfilling
<1>c. \A s \in {"PENDING", "CANCELLED", "EXPIRED", "PAID", "RECHARGING", "FAILED",
                "COMPLETED", "REFUND_REQUESTED"} : s \in Statuses
    BY DEF Statuses, Unpaid, Owed, Settled
<1>1. ASSUME NEW w \in Workers, QueryOrder(w) PROVE TypeOK'
    BY <1>1, <1>a, <1>b, <1>c, JobOrder, GotoTypes, AnswerTypes, SetStatusTypes,
       ReturnTypes, CommittedTypes
       DEF QueryOrder, row, grants, payment, world, TypeOK, RowTypes, GrantTypes, WorldTypes
<1>2. ASSUME NEW w \in Workers, PersistTradeNo(w) PROVE TypeOK'
    BY <1>2, <1>a, <1>b, <1>c, JobOrder, GotoTypes, AnswerTypes, SetStatusTypes,
       ReturnTypes, CommittedTypes
       DEF PersistTradeNo, row, grants, payment, world, TypeOK, RowTypes, GrantTypes, WorldTypes
<1>3. ASSUME NEW w \in Workers, CancelPayment(w) PROVE TypeOK'
    BY <1>3, <1>a, <1>b, <1>c, JobOrder, GotoTypes, AnswerTypes, SetStatusTypes,
       ReturnTypes, CommittedTypes
       DEF CancelPayment, row, grants, payment, world, TypeOK, RowTypes, GrantTypes, WorldTypes
<1>4. ASSUME NEW w \in Workers, CancelCore(w) PROVE TypeOK'
    BY <1>4, <1>a, <1>b, <1>c, JobOrder, GotoTypes, AnswerTypes, SetStatusTypes,
       ReturnTypes, CommittedTypes
       DEF CancelCore, CancelTarget, row, grants, payment, world, TypeOK, RowTypes, GrantTypes,
           WorldTypes
<1>5. ASSUME NEW w \in Workers, ToPaid(w) PROVE TypeOK'
    BY <1>5, <1>a, <1>b, <1>c, JobOrder, GotoTypes, AnswerTypes, SetStatusTypes,
       ReturnTypes, CommittedTypes
       DEF ToPaid, row, grants, payment, world, TypeOK, RowTypes, GrantTypes, WorldTypes
<1>6. ASSUME NEW w \in Workers, AlreadyProcessed(w) PROVE TypeOK'
    BY <1>6, <1>a, <1>b, <1>c, JobOrder, GotoTypes, AnswerTypes, SetStatusTypes,
       ReturnTypes, CommittedTypes
       DEF AlreadyProcessed, row, grants, payment, world, TypeOK, RowTypes, GrantTypes,
           WorldTypes
<1>7. ASSUME NEW w \in Workers, ExecuteFulfillment(w) PROVE TypeOK'
    BY <1>7, <1>a, <1>b, <1>c, JobOrder, GotoTypes, AnswerTypes, SetStatusTypes,
       ReturnTypes, CommittedTypes
       DEF ExecuteFulfillment, row, grants, payment, world, TypeOK, RowTypes, GrantTypes,
           WorldTypes
<1>8. ASSUME NEW w \in Workers, AcquireLease(w) PROVE TypeOK'
    BY <1>8, <1>a, <1>b, <1>c, JobOrder, GotoTypes, AnswerTypes, SetStatusTypes,
       ReturnTypes, CommittedTypes
       DEF AcquireLease, row, grants, payment, world, TypeOK, RowTypes, GrantTypes, WorldTypes
<1>9. ASSUME NEW w \in Workers, LeaseContended(w) PROVE TypeOK'
    BY <1>9, <1>a, <1>b, <1>c, JobOrder, GotoTypes, AnswerTypes, SetStatusTypes,
       ReturnTypes, CommittedTypes
       DEF LeaseContended, row, grants, payment, world, TypeOK, RowTypes, GrantTypes, WorldTypes
<1>10. ASSUME NEW w \in Workers, ReloadLease(w) PROVE TypeOK'
  <2> DEFINE o == job[w].order
  <2>1. pc[w] # "idle" /\ o \in Orders
      BY <1>10, <1>a, JobOrder DEF ReloadLease
  <2>2. CASE status[o] = "RECHARGING"
    <3>1. ThreadTypes'
        BY <1>10, <1>a, <1>b, <2>1, <2>2, GotoTypes DEF ReloadLease, Return
    <3>2. RowTypes'
        BY <1>10, <1>a, <2>1, <2>2 DEF ReloadLease, RowTypes
    <3> QED
        BY <1>10, <1>a, <3>1, <3>2
           DEF ReloadLease, grants, payment, world, TypeOK, GrantTypes, WorldTypes
  <2>3. CASE status[o] # "RECHARGING"
      BY <1>10, <1>a, <2>1, <2>3, ReturnTypes
         DEF ReloadLease, grants, payment, world, TypeOK, GrantTypes, WorldTypes
  <2> QED
      BY <2>2, <2>3
<1>11. ASSUME NEW w \in Workers, LookupCode(w) PROVE TypeOK'
  <2>1. ResolveRedeemAction(code[job[w].order]) \in Labels
      BY <1>11, <1>a, <1>b, JobOrder
         DEF LookupCode, ResolveRedeemAction, GrantTypes, CodeStates
  <2>2. ThreadTypes'
      BY <1>11, <1>a, <2>1, GotoTypes DEF LookupCode
  <2> QED
      BY <1>11, <1>a, <2>2
         DEF LookupCode, row, grants, payment, world, TypeOK, RowTypes, GrantTypes, WorldTypes
<1>12. ASSUME NEW w \in Workers, CreateCode(w) PROVE TypeOK'
  <2>1. ThreadTypes'
      BY <1>12, <1>a, <1>b, GotoTypes DEF CreateCode
  <2>2. GrantTypes'
      BY <1>12, <1>a, JobOrder DEF CreateCode, GrantTypes, CodeStates
  <2> QED
      BY <1>12, <1>a, <2>1, <2>2
         DEF CreateCode, row, payment, world, TypeOK, RowTypes, WorldTypes
<1>13. ASSUME NEW w \in Workers, Redeem(w) PROVE TypeOK'
  <2>1. ThreadTypes' /\ faults' \in Nat
      BY <1>13, <1>a, <1>b, GotoTypes, CommittedTypes DEF Redeem, WorldTypes
  <2>2. GrantTypes'
      BY <1>13, <1>a, JobOrder DEF Redeem, GrantTypes, CodeStates
  <2> QED
      BY <1>13, <1>a, <2>1, <2>2 DEF Redeem, row, payment, world, TypeOK, RowTypes, WorldTypes
<1>14. ASSUME NEW w \in Workers, CheckAssigned(w) PROVE TypeOK'
    BY <1>14, <1>a, <1>b, <1>c, JobOrder, GotoTypes, AnswerTypes, SetStatusTypes,
       ReturnTypes, CommittedTypes
       DEF CheckAssigned, row, grants, payment, world, TypeOK, RowTypes, GrantTypes, WorldTypes
<1>15. ASSUME NEW w \in Workers, AssignSubscription(w) PROVE TypeOK'
  <2>1. ThreadTypes' /\ faults' \in Nat
      BY <1>15, <1>a, <1>b, CommittedTypes DEF AssignSubscription, WorldTypes
  <2>2. GrantTypes'
    <3>1. job[w].order \in Orders
        BY <1>15, <1>a, JobOrder DEF AssignSubscription
    <3>2. audit' \in [Orders -> SUBSET AuditActions]
        BY <1>15, <1>a, <3>1 DEF AssignSubscription, GrantTypes, AuditActions
    <3>3. granted' \in [Orders -> Nat] /\ note' \in [Orders -> BOOLEAN]
      <4>1. CASE HasAssignmentAudit(job[w].order)
          BY <1>15, <1>a, <4>1 DEF AssignSubscription, GrantTypes
      <4>2. CASE ~HasAssignmentAudit(job[w].order)
        <5>1. granted[job[w].order] \in Nat
            BY <1>a, <3>1 DEF GrantTypes
        <5>2. (IF note[job[w].order] THEN granted[job[w].order]
                                    ELSE granted[job[w].order] + 1) \in Nat
            BY <5>1
        <5> QED
            BY <1>15, <1>a, <3>1, <4>2, <5>2 DEF AssignSubscription, GrantTypes
      <4> QED
          BY <4>1, <4>2
    <3> QED
        BY <1>15, <1>a, <3>2, <3>3 DEF AssignSubscription, GrantTypes
  <2> QED
      BY <1>15, <1>a, <2>1, <2>2
         DEF AssignSubscription, row, payment, world, TypeOK, RowTypes, WorldTypes
<1>16. ASSUME NEW w \in Workers, CheckRebate(w) PROVE TypeOK'
    BY <1>16, <1>a, <1>b, <1>c, JobOrder, GotoTypes, AnswerTypes, SetStatusTypes,
       ReturnTypes, CommittedTypes
       DEF CheckRebate, row, grants, payment, world, TypeOK, RowTypes, GrantTypes, WorldTypes
<1>17. ASSUME NEW w \in Workers, ClaimRebate(w) PROVE TypeOK'
    BY <1>17, <1>a, <1>b, <1>c, JobOrder, GotoTypes, AnswerTypes, SetStatusTypes,
       ReturnTypes, CommittedTypes
       DEF ClaimRebate, row, grants, payment, world, TypeOK, RowTypes, GrantTypes, WorldTypes
<1>18. ASSUME NEW w \in Workers, SettleRebate(w) PROVE TypeOK'
  <2>1. ThreadTypes'
      BY <1>18, <1>a, <1>b, GotoTypes DEF SettleRebate
  <2>2. GrantTypes'
      BY <1>18, <1>a, JobOrder DEF SettleRebate, GrantTypes, AuditActions
  <2> QED
      BY <1>18, <1>a, <2>1, <2>2
         DEF SettleRebate, row, payment, world, TypeOK, RowTypes, WorldTypes
<1>19. ASSUME NEW w \in Workers, MarkCompleted(w) PROVE TypeOK'
    BY <1>19, <1>a, <1>b, <1>c, JobOrder, GotoTypes, AnswerTypes, SetStatusTypes,
       ReturnTypes, CommittedTypes
       DEF MarkCompleted, row, grants, payment, world, TypeOK, RowTypes, GrantTypes, WorldTypes
<1>20. ASSUME NEW w \in Workers, LeaseLost(w) PROVE TypeOK'
    BY <1>20, <1>a, <1>b, <1>c, JobOrder, GotoTypes, AnswerTypes, SetStatusTypes,
       ReturnTypes, CommittedTypes
       DEF LeaseLost, row, grants, payment, world, TypeOK, RowTypes, GrantTypes, WorldTypes
<1>21. ASSUME NEW w \in Workers, MarkFailed(w) PROVE TypeOK'
    BY <1>21, <1>a, <1>b, <1>c, JobOrder, GotoTypes, AnswerTypes, SetStatusTypes,
       ReturnTypes, CommittedTypes
       DEF MarkFailed, row, grants, payment, world, TypeOK, RowTypes, GrantTypes, WorldTypes
<1>22. ASSUME NEW w \in Workers, StatementFails(w) PROVE TypeOK'
  <2>1. ThreadTypes' /\ RowTypes'
      BY <1>22, <1>a, <1>b, GotoTypes, ReturnTypes
         DEF StatementFails, row, RowTypes, Fulfilling
  <2>2. faults' \in Nat
      BY <1>22, <1>a DEF StatementFails, Fault, WorldTypes
  <2> QED
      BY <1>22, <1>a, <2>1, <2>2
         DEF StatementFails, grants, payment, world, TypeOK, GrantTypes, WorldTypes
<1>23. ASSUME NEW w \in Workers, SwallowedRead(w) PROVE TypeOK'
  <2>1. ThreadTypes' /\ RowTypes'
      BY <1>23, <1>a, <1>b, GotoTypes, ReturnTypes DEF SwallowedRead, row, RowTypes
  <2>2. faults' \in Nat
      BY <1>23, <1>a DEF SwallowedRead, Fault, WorldTypes
  <2> QED
      BY <1>23, <1>a, <2>1, <2>2
         DEF SwallowedRead, grants, payment, world, TypeOK, GrantTypes, WorldTypes
<1>24. ASSUME NEW w \in Workers, Crash(w) PROVE TypeOK'
  <2>1. ThreadTypes' /\ RowTypes'
      BY <1>24, <1>a, <1>b, GotoTypes, ReturnTypes DEF Crash, row, RowTypes
  <2>2. faults' \in Nat
      BY <1>24, <1>a DEF Crash, Fault, WorldTypes
  <2> QED
      BY <1>24, <1>a, <2>1, <2>2
         DEF Crash, grants, payment, world, TypeOK, GrantTypes, WorldTypes
<1>25. ASSUME NEW w \in Workers, NEW o \in Orders, HandleNotify(w, o) PROVE TypeOK'
    BY <1>25, <1>a, <1>b
       DEF HandleNotify, Begin, row, grants, payment, world, TypeOK, RowTypes, GrantTypes,
           WorldTypes, ThreadTypes, Job, Ops, Cancelling
<1>26. ASSUME NEW w \in Workers, NEW o \in Orders, RetryFulfillment(w, o) PROVE TypeOK'
    BY <1>26, <1>a, <1>b
       DEF RetryFulfillment, Begin, row, grants, payment, world, TypeOK, RowTypes, GrantTypes,
           WorldTypes, ThreadTypes, Job, Ops, Cancelling
<1>27. ASSUME NEW w \in Workers, NEW o \in Orders, StartCheck(w, o) PROVE TypeOK'
    BY <1>27, <1>a, <1>b
       DEF StartCheck, Begin, row, grants, payment, world, TypeOK, RowTypes, GrantTypes,
           WorldTypes, ThreadTypes, Job, Ops, Cancelling
<1>28. ASSUME NEW o \in Orders, CustomerPays(o) PROVE TypeOK'
    BY <1>28, <1>a, <1>c, SetStatusTypes
       DEF CustomerPays, Fault, row, grants, payment, world, thread, TypeOK, RowTypes,
           GrantTypes, WorldTypes, ThreadTypes
<1>29. ASSUME NEW o \in Orders, Age(o) PROVE TypeOK'
    BY <1>29, <1>a, <1>c, SetStatusTypes
       DEF Age, Fault, row, grants, payment, world, thread, TypeOK, RowTypes, GrantTypes,
           WorldTypes, ThreadTypes
<1>30. ASSUME NEW o \in Orders, Stall(o) PROVE TypeOK'
    BY <1>30, <1>a, <1>c, SetStatusTypes
       DEF Stall, Fault, row, grants, payment, world, thread, TypeOK, RowTypes, GrantTypes,
           WorldTypes, ThreadTypes
<1>31. ASSUME NEW o \in Orders, PassDeadline(o) PROVE TypeOK'
    BY <1>31, <1>a, <1>c, SetStatusTypes
       DEF PassDeadline, Fault, row, grants, payment, world, thread, TypeOK, RowTypes,
           GrantTypes, WorldTypes, ThreadTypes
<1>32. ASSUME NEW o \in Orders, RequestRefund(o) PROVE TypeOK'
    BY <1>32, <1>a, <1>c, SetStatusTypes
       DEF RequestRefund, Fault, row, grants, payment, world, thread, TypeOK, RowTypes,
           GrantTypes, WorldTypes, ThreadTypes
<1>33. CASE UNCHANGED vars
    BY <1>33, <1>a
       DEF vars, row, grants, payment, world, thread, TypeOK, RowTypes, GrantTypes, WorldTypes,
           ThreadTypes
<1>34. ASSUME NEW o \in Orders, InvokeProvider(o) PROVE TypeOK'
    BY <1>34, <1>a, <1>c, SetStatusTypes
       DEF InvokeProvider, Fault, row, grants, payment, thread, TypeOK, RowTypes, GrantTypes,
           WorldTypes, ThreadTypes
<1>35. ASSUME NEW o \in Orders, FailCreation(o) PROVE TypeOK'
    BY <1>35, <1>a, <1>c, SetStatusTypes
       DEF FailCreation, Fault, row, grants, payment, thread, TypeOK, RowTypes, GrantTypes,
           WorldTypes, ThreadTypes
<1>36. ASSUME NEW o \in Orders, AbandonCreation(o) PROVE TypeOK'
    BY <1>36, <1>a, <1>c, SetStatusTypes
       DEF AbandonCreation, Fault, row, grants, payment, thread, TypeOK, RowTypes, GrantTypes,
           WorldTypes, ThreadTypes
<1> QED
    BY <1>1, <1>2, <1>3, <1>4, <1>5, <1>6, <1>7, <1>8, <1>9, <1>10, <1>11, <1>12, <1>13,
       <1>14, <1>15, <1>16, <1>17, <1>18, <1>19, <1>20, <1>21, <1>22, <1>23, <1>24, <1>25,
       <1>26, <1>27, <1>28, <1>29, <1>30, <1>31, <1>32, <1>33, <1>34, <1>35, <1>36
       DEF Next, Step, Start, Failure, Creation, Surroundings

-----------------------------------------------------------------------------
(* The inductive invariant.                                                *)

\* What no step takes back: the type of the order, its grant, its rebate
\* decision, its payment, that its fulfilment began, and that nobody pays
\* before its creation got that far.
Lasting(o) ==
    /\ kind'[o] = kind[o]
    /\ granted[o] = 1 => granted'[o] = 1
    /\ RebateSettled(o) => RebateSettled(o)'
    /\ status[o] \in Started => status'[o] \in Started
    /\ provider[o] = "paid" => provider'[o] = "paid"
    /\ creating'[o] = "invoke" => provider'[o] = "none"

\* No step takes back what lasts.
LEMMA LastingNext ==
    ASSUME Inv, [Next]_vars, NEW p \in Orders
    PROVE  Lasting(p)
<1>a. RowTypes /\ ThreadTypes /\ GrantTypes /\ WorldTypes
    BY DEF Inv, TypeOK
<1>b. creating[p] = "invoke" => provider[p] = "none"
    BY DEF Inv, CreationFirst
<1> USE <1>a, <1>b DEF Lasting
<1>1. ASSUME NEW w \in Workers, QueryOrder(w) PROVE Lasting(p)
    BY <1>1, JobOrder
       DEF QueryOrder, SetStatus, Return, RowTypes, row, grants, payment, world, RebateSettled
<1>2. ASSUME NEW w \in Workers, PersistTradeNo(w) PROVE Lasting(p)
    BY <1>2, JobOrder
       DEF PersistTradeNo, SetStatus, Return, RowTypes, row, grants, payment, world,
           RebateSettled
<1>3. ASSUME NEW w \in Workers, CancelPayment(w) PROVE Lasting(p)
    BY <1>3, JobOrder
       DEF CancelPayment, SetStatus, Return, RowTypes, row, grants, payment, world,
           RebateSettled, WorldTypes
<1>4. ASSUME NEW w \in Workers, CancelCore(w) PROVE Lasting(p)
    BY <1>4, JobOrder
       DEF CancelCore, SetStatus, Return, RowTypes, row, grants, payment, world, RebateSettled,
           MayCancel, Started, Settled
<1>5. ASSUME NEW w \in Workers, ToPaid(w) PROVE Lasting(p)
    BY <1>5, JobOrder
       DEF ToPaid, SetStatus, Return, RowTypes, row, grants, payment, world, RebateSettled,
           Payable, Started, Settled
<1>6. ASSUME NEW w \in Workers, AlreadyProcessed(w) PROVE Lasting(p)
    BY <1>6, JobOrder
       DEF AlreadyProcessed, SetStatus, Return, RowTypes, row, grants, payment, world,
           RebateSettled
<1>7. ASSUME NEW w \in Workers, ExecuteFulfillment(w) PROVE Lasting(p)
    BY <1>7, JobOrder
       DEF ExecuteFulfillment, SetStatus, Return, RowTypes, row, grants, payment, world,
           RebateSettled
<1>8. ASSUME NEW w \in Workers, AcquireLease(w) PROVE Lasting(p)
    BY <1>8, JobOrder
       DEF AcquireLease, SetStatus, Return, RowTypes, row, grants, payment, world,
           RebateSettled, Started
<1>9. ASSUME NEW w \in Workers, LeaseContended(w) PROVE Lasting(p)
    BY <1>9, JobOrder
       DEF LeaseContended, SetStatus, Return, RowTypes, row, grants, payment, world,
           RebateSettled
<1>10. ASSUME NEW w \in Workers, ReloadLease(w) PROVE Lasting(p)
    BY <1>10, JobOrder
       DEF ReloadLease, SetStatus, Return, RowTypes, row, grants, payment, world, RebateSettled
<1>11. ASSUME NEW w \in Workers, LookupCode(w) PROVE Lasting(p)
    BY <1>11, JobOrder
       DEF LookupCode, SetStatus, Return, RowTypes, row, grants, payment, world, RebateSettled
<1>12. ASSUME NEW w \in Workers, CreateCode(w) PROVE Lasting(p)
    BY <1>12, JobOrder
       DEF CreateCode, SetStatus, Return, RowTypes, row, grants, payment, world, RebateSettled
<1>13. ASSUME NEW w \in Workers, Redeem(w) PROVE Lasting(p)
    BY <1>13, JobOrder
       DEF Redeem, SetStatus, Return, RowTypes, row, grants, payment, world, RebateSettled, Inv,
           WorkersAreRight, WorkerIsRight, KeysMatchGrants, CanUse, GrantTypes
<1>14. ASSUME NEW w \in Workers, CheckAssigned(w) PROVE Lasting(p)
    BY <1>14, JobOrder
       DEF CheckAssigned, SetStatus, Return, RowTypes, row, grants, payment, world,
           RebateSettled
<1>15. ASSUME NEW w \in Workers, AssignSubscription(w) PROVE Lasting(p)
    BY <1>15, JobOrder
       DEF AssignSubscription, SetStatus, Return, RowTypes, row, grants, payment, world,
           RebateSettled, Inv, WorkersAreRight, WorkerIsRight, KeysMatchGrants, GrantTypes,
           HasAssignmentAudit
<1>16. ASSUME NEW w \in Workers, CheckRebate(w) PROVE Lasting(p)
    BY <1>16, JobOrder
       DEF CheckRebate, SetStatus, Return, RowTypes, row, grants, payment, world, RebateSettled
<1>17. ASSUME NEW w \in Workers, ClaimRebate(w) PROVE Lasting(p)
    BY <1>17, JobOrder
       DEF ClaimRebate, SetStatus, Return, RowTypes, row, grants, payment, world, RebateSettled
<1>18. ASSUME NEW w \in Workers, SettleRebate(w) PROVE Lasting(p)
    BY <1>18, JobOrder
       DEF SettleRebate, SetStatus, Return, RowTypes, row, grants, payment, world,
           RebateSettled, GrantTypes
<1>19. ASSUME NEW w \in Workers, MarkCompleted(w) PROVE Lasting(p)
    BY <1>19, JobOrder
       DEF MarkCompleted, SetStatus, Return, RowTypes, row, grants, payment, world,
           RebateSettled, Started, Settled
<1>20. ASSUME NEW w \in Workers, LeaseLost(w) PROVE Lasting(p)
    BY <1>20, JobOrder
       DEF LeaseLost, SetStatus, Return, RowTypes, row, grants, payment, world, RebateSettled
<1>21. ASSUME NEW w \in Workers, MarkFailed(w) PROVE Lasting(p)
    BY <1>21, JobOrder
       DEF MarkFailed, SetStatus, Return, RowTypes, row, grants, payment, world, RebateSettled,
           Started
<1>22. ASSUME NEW w \in Workers, StatementFails(w) PROVE Lasting(p)
    BY <1>22, JobOrder
       DEF StatementFails, SetStatus, Return, RowTypes, row, grants, payment, world,
           RebateSettled
<1>23. ASSUME NEW w \in Workers, SwallowedRead(w) PROVE Lasting(p)
    BY <1>23, JobOrder
       DEF SwallowedRead, SetStatus, Return, RowTypes, row, grants, payment, world,
           RebateSettled
<1>24. ASSUME NEW w \in Workers, Crash(w) PROVE Lasting(p)
    BY <1>24, JobOrder
       DEF Crash, SetStatus, Return, RowTypes, row, grants, payment, world, RebateSettled
<1>25. ASSUME NEW w \in Workers, NEW o \in Orders, HandleNotify(w, o) PROVE Lasting(p)
    BY <1>25 DEF HandleNotify, Begin, row, grants, payment, world, RebateSettled
<1>26. ASSUME NEW w \in Workers, NEW o \in Orders, RetryFulfillment(w, o) PROVE Lasting(p)
    BY <1>26 DEF RetryFulfillment, Begin, row, grants, payment, world, RebateSettled
<1>27. ASSUME NEW w \in Workers, NEW o \in Orders, StartCheck(w, o) PROVE Lasting(p)
    BY <1>27 DEF StartCheck, Begin, row, grants, payment, world, RebateSettled
<1>28. ASSUME NEW o \in Orders, CustomerPays(o) PROVE Lasting(p)
    BY <1>28
       DEF CustomerPays, SetStatus, RowTypes, WorldTypes, row, grants, payment, world,
           RebateSettled, Started, Settled
<1>29. ASSUME NEW o \in Orders, Age(o) PROVE Lasting(p)
    BY <1>29
       DEF Age, SetStatus, RowTypes, WorldTypes, row, grants, payment, world, RebateSettled,
           Started, Settled
<1>30. ASSUME NEW o \in Orders, Stall(o) PROVE Lasting(p)
    BY <1>30
       DEF Stall, SetStatus, RowTypes, WorldTypes, row, grants, payment, world, RebateSettled,
           Started, Settled
<1>31. ASSUME NEW o \in Orders, PassDeadline(o) PROVE Lasting(p)
    BY <1>31
       DEF PassDeadline, SetStatus, RowTypes, WorldTypes, row, grants, payment, world,
           RebateSettled, Started, Settled
<1>32. ASSUME NEW o \in Orders, RequestRefund(o) PROVE Lasting(p)
    BY <1>32
       DEF RequestRefund, SetStatus, RowTypes, WorldTypes, row, grants, payment, world,
           RebateSettled, Started, Settled
<1>33. CASE UNCHANGED vars
    BY <1>33 DEF vars, row, grants, payment, world, RebateSettled
<1>34. ASSUME NEW o \in Orders, InvokeProvider(o) PROVE Lasting(p)
    BY <1>34
       DEF InvokeProvider, SetStatus, RowTypes, WorldTypes, row, grants, RebateSettled, Started
<1>35. ASSUME NEW o \in Orders, FailCreation(o) PROVE Lasting(p)
    BY <1>35
       DEF FailCreation, SetStatus, RowTypes, WorldTypes, row, grants, RebateSettled, Started
<1>36. ASSUME NEW o \in Orders, AbandonCreation(o) PROVE Lasting(p)
    BY <1>36
       DEF AbandonCreation, SetStatus, RowTypes, WorldTypes, row, grants, RebateSettled, Started
<1> QED
    BY <1>1, <1>2, <1>3, <1>4, <1>5, <1>6, <1>7, <1>8, <1>9, <1>10, <1>11, <1>12, <1>13,
       <1>14, <1>15, <1>16, <1>17, <1>18, <1>19, <1>20, <1>21, <1>22, <1>23, <1>24, <1>25,
       <1>26, <1>27, <1>28, <1>29, <1>30, <1>31, <1>32, <1>33, <1>34, <1>35, <1>36
       DEF Next, Step, Start, Failure, Creation, Surroundings

\* Only the four statements that write a key or make a grant matter to the
\* keys, and each does both or neither.
LEMMA KeysNext ==
    ASSUME Inv, [Next]_vars
    PROVE  KeysMatchGrants'
<1>a. RowTypes /\ ThreadTypes /\ GrantTypes /\ WorldTypes
    BY DEF Inv, TypeOK
<1>b. KeysMatchGrants /\ WorkersAreRight /\ ClaimIsExclusive
    BY DEF Inv
<1>1. ASSUME UNCHANGED <<grants, kind>> PROVE KeysMatchGrants'
    BY <1>1, <1>b DEF grants, KeysMatchGrants, HasAssignmentAudit
<1>2. ASSUME NEW w \in Workers, CreateCode(w) PROVE KeysMatchGrants'
    BY <1>2, <1>a, <1>b, JobOrder
       DEF CreateCode, world, KeysMatchGrants, HasAssignmentAudit, GrantTypes
<1>3. ASSUME NEW w \in Workers, Redeem(w) PROVE KeysMatchGrants'
    BY <1>3, <1>a, <1>b, JobOrder
       DEF Redeem, CanUse, world, KeysMatchGrants, HasAssignmentAudit, GrantTypes,
           WorkersAreRight, WorkerIsRight
<1>4. ASSUME NEW w \in Workers, AssignSubscription(w) PROVE KeysMatchGrants'
    BY <1>4, <1>a, <1>b, JobOrder
       DEF AssignSubscription, world, KeysMatchGrants, HasAssignmentAudit, GrantTypes,
           WorkersAreRight, WorkerIsRight
<1>5. ASSUME NEW w \in Workers, SettleRebate(w) PROVE KeysMatchGrants'
    BY <1>5, <1>a, <1>b, JobOrder
       DEF SettleRebate, world, KeysMatchGrants, HasAssignmentAudit, GrantTypes,
           ClaimIsExclusive
<1>6. ASSUME NEW w \in Workers, QueryOrder(w) PROVE UNCHANGED <<grants, kind>>
    BY <1>6 DEF QueryOrder, grants, payment, world
<1>7. ASSUME NEW w \in Workers, PersistTradeNo(w) PROVE UNCHANGED <<grants, kind>>
    BY <1>7 DEF PersistTradeNo, grants, payment, world
<1>8. ASSUME NEW w \in Workers, CancelPayment(w) PROVE UNCHANGED <<grants, kind>>
    BY <1>8 DEF CancelPayment, grants, payment, world
<1>9. ASSUME NEW w \in Workers, CancelCore(w) PROVE UNCHANGED <<grants, kind>>
    BY <1>9 DEF CancelCore, grants, payment, world
<1>10. ASSUME NEW w \in Workers, ToPaid(w) PROVE UNCHANGED <<grants, kind>>
    BY <1>10 DEF ToPaid, grants, payment, world
<1>11. ASSUME NEW w \in Workers, AlreadyProcessed(w) PROVE UNCHANGED <<grants, kind>>
    BY <1>11 DEF AlreadyProcessed, grants, payment, world
<1>12. ASSUME NEW w \in Workers, ExecuteFulfillment(w) PROVE UNCHANGED <<grants, kind>>
    BY <1>12 DEF ExecuteFulfillment, grants, payment, world
<1>13. ASSUME NEW w \in Workers, AcquireLease(w) PROVE UNCHANGED <<grants, kind>>
    BY <1>13 DEF AcquireLease, grants, payment, world
<1>14. ASSUME NEW w \in Workers, LeaseContended(w) PROVE UNCHANGED <<grants, kind>>
    BY <1>14 DEF LeaseContended, grants, payment, world
<1>15. ASSUME NEW w \in Workers, ReloadLease(w) PROVE UNCHANGED <<grants, kind>>
    BY <1>15 DEF ReloadLease, grants, payment, world
<1>16. ASSUME NEW w \in Workers, LookupCode(w) PROVE UNCHANGED <<grants, kind>>
    BY <1>16 DEF LookupCode, grants, payment, world
<1>17. ASSUME NEW w \in Workers, CheckAssigned(w) PROVE UNCHANGED <<grants, kind>>
    BY <1>17 DEF CheckAssigned, grants, payment, world
<1>18. ASSUME NEW w \in Workers, CheckRebate(w) PROVE UNCHANGED <<grants, kind>>
    BY <1>18 DEF CheckRebate, grants, payment, world
<1>19. ASSUME NEW w \in Workers, ClaimRebate(w) PROVE UNCHANGED <<grants, kind>>
    BY <1>19 DEF ClaimRebate, grants, payment, world
<1>20. ASSUME NEW w \in Workers, MarkCompleted(w) PROVE UNCHANGED <<grants, kind>>
    BY <1>20 DEF MarkCompleted, grants, payment, world
<1>21. ASSUME NEW w \in Workers, LeaseLost(w) PROVE UNCHANGED <<grants, kind>>
    BY <1>21 DEF LeaseLost, grants, payment, world
<1>22. ASSUME NEW w \in Workers, MarkFailed(w) PROVE UNCHANGED <<grants, kind>>
    BY <1>22 DEF MarkFailed, grants, payment, world
<1>23. ASSUME NEW w \in Workers, StatementFails(w) PROVE UNCHANGED <<grants, kind>>
    BY <1>23 DEF StatementFails, grants, payment, world
<1>24. ASSUME NEW w \in Workers, SwallowedRead(w) PROVE UNCHANGED <<grants, kind>>
    BY <1>24 DEF SwallowedRead, grants, payment, world
<1>25. ASSUME NEW w \in Workers, Crash(w) PROVE UNCHANGED <<grants, kind>>
    BY <1>25 DEF Crash, grants, payment, world
<1>26. ASSUME NEW w \in Workers, NEW o \in Orders, HandleNotify(w, o) PROVE UNCHANGED <<grants, kind>>
    BY <1>26 DEF HandleNotify, Begin, grants, payment, world
<1>27. ASSUME NEW w \in Workers, NEW o \in Orders, RetryFulfillment(w, o) PROVE UNCHANGED <<grants, kind>>
    BY <1>27 DEF RetryFulfillment, Begin, grants, payment, world
<1>28. ASSUME NEW w \in Workers, NEW o \in Orders, StartCheck(w, o) PROVE UNCHANGED <<grants, kind>>
    BY <1>28 DEF StartCheck, Begin, grants, payment, world
<1>29. ASSUME NEW o \in Orders, CustomerPays(o) PROVE UNCHANGED <<grants, kind>>
    BY <1>29 DEF CustomerPays, grants, payment, world
<1>30. ASSUME NEW o \in Orders, Age(o) PROVE UNCHANGED <<grants, kind>>
    BY <1>30 DEF Age, grants, payment, world
<1>31. ASSUME NEW o \in Orders, Stall(o) PROVE UNCHANGED <<grants, kind>>
    BY <1>31 DEF Stall, grants, payment, world
<1>32. ASSUME NEW o \in Orders, PassDeadline(o) PROVE UNCHANGED <<grants, kind>>
    BY <1>32 DEF PassDeadline, grants, payment, world
<1>33. ASSUME NEW o \in Orders, RequestRefund(o) PROVE UNCHANGED <<grants, kind>>
    BY <1>33 DEF RequestRefund, grants, payment, world
<1>34. CASE UNCHANGED vars
    BY <1>1, <1>34 DEF vars, world, grants
<1>35. ASSUME NEW o \in Orders, InvokeProvider(o) PROVE UNCHANGED <<grants, kind>>
    BY <1>35 DEF InvokeProvider, grants
<1>36. ASSUME NEW o \in Orders, FailCreation(o) PROVE UNCHANGED <<grants, kind>>
    BY <1>36 DEF FailCreation, grants
<1>37. ASSUME NEW o \in Orders, AbandonCreation(o) PROVE UNCHANGED <<grants, kind>>
    BY <1>37 DEF AbandonCreation, grants
<1> QED
    BY <1>1, <1>2, <1>3, <1>4, <1>5, <1>6, <1>7, <1>8, <1>9, <1>10, <1>11, <1>12, <1>13,
       <1>14, <1>15, <1>16, <1>17, <1>18, <1>19, <1>20, <1>21, <1>22, <1>23, <1>24, <1>25,
       <1>26, <1>27, <1>28, <1>29, <1>30, <1>31, <1>32, <1>33, <1>34, <1>35, <1>36,
       <1>37 DEF Next, Step, Start, Failure, Creation, Surroundings

\* A worker that did not move is still right, by what lasts.
LEMMA OthersStayRight ==
    ASSUME Inv, [Next]_vars, NEW v \in Workers, pc'[v] = pc[v], job'[v] = job[v]
    PROVE  WorkerIsRight(v)'
<1>1. CASE pc[v] = "idle"
    BY <1>1 DEF WorkerIsRight, Fulfilling, Confident
<1>2. CASE pc[v] # "idle"
  <2>1. job[v].order \in Orders
      BY <1>2, JobOrder DEF Inv, TypeOK
  <2>2. WorkerIsRight(v) /\ Lasting(job[v].order)
      BY <2>1, LastingNext DEF Inv, WorkersAreRight
  <2> QED
      BY <2>1, <2>2 DEF WorkerIsRight, Lasting, RebateSettled, PaidFor
<1> QED
    BY <1>1, <1>2

\* A worker that moves has established what its next statement relies on.
LEMMA WorkersNext ==
    ASSUME Inv, [Next]_vars
    PROVE  WorkersAreRight'
<1>a. RowTypes /\ ThreadTypes /\ GrantTypes /\ WorldTypes
    BY DEF Inv, TypeOK
<1>b. KeysMatchGrants /\ WorkersAreRight /\ OwedMeansPaid
    BY DEF Inv
<1>c. ASSUME NEW w \in Workers, WorkerIsRight(w)',
             \A v \in Workers \ {w} : pc'[v] = pc[v] /\ job'[v] = job[v]
      PROVE  WorkersAreRight'
    BY <1>c, OthersStayRight DEF WorkersAreRight
<1>d. ASSUME UNCHANGED <<pc, job>> PROVE WorkersAreRight'
    BY <1>d, OthersStayRight DEF WorkersAreRight
<1>1. ASSUME NEW w \in Workers, QueryOrder(w) PROVE WorkersAreRight'
  <2>1. \A v \in Workers \ {w} : pc'[v] = pc[v] /\ job'[v] = job[v]
      BY <1>1, <1>a DEF QueryOrder, Goto, Answer, Return, Committed, ThreadTypes
  <2>2. WorkerIsRight(w)'
      BY <1>1, <1>a, <1>b, JobOrder
         DEF QueryOrder, Goto, Answer, Return, Committed, SetStatus, ThreadTypes, RowTypes,
             row, grants, payment, world, WorkersAreRight, WorkerIsRight, Confident,
             PaidFor, RebateSettled, Fulfilling, Started, Settled
  <2> QED
      BY <1>c, <2>1, <2>2
<1>2. ASSUME NEW w \in Workers, PersistTradeNo(w) PROVE WorkersAreRight'
  <2>1. \A v \in Workers \ {w} : pc'[v] = pc[v] /\ job'[v] = job[v]
      BY <1>2, <1>a DEF PersistTradeNo, Goto, Answer, Return, Committed, ThreadTypes
  <2>2. WorkerIsRight(w)'
      BY <1>2, <1>a, <1>b, JobOrder
         DEF PersistTradeNo, Goto, Answer, Return, Committed, SetStatus, ThreadTypes,
             RowTypes, row, grants, payment, world, WorkersAreRight, WorkerIsRight,
             Confident, PaidFor, RebateSettled, Fulfilling, Started, Settled
  <2> QED
      BY <1>c, <2>1, <2>2
<1>3. ASSUME NEW w \in Workers, CancelPayment(w) PROVE WorkersAreRight'
  <2>1. \A v \in Workers \ {w} : pc'[v] = pc[v] /\ job'[v] = job[v]
      BY <1>3, <1>a DEF CancelPayment, Goto, Answer, Return, Committed, ThreadTypes
  <2>2. WorkerIsRight(w)'
      BY <1>3, <1>a, <1>b, JobOrder
         DEF CancelPayment, Goto, Answer, Return, Committed, SetStatus, ThreadTypes,
             RowTypes, row, grants, payment, world, WorkersAreRight, WorkerIsRight,
             Confident, PaidFor, RebateSettled, Fulfilling, Started, Settled
  <2> QED
      BY <1>c, <2>1, <2>2
<1>4. ASSUME NEW w \in Workers, CancelCore(w) PROVE WorkersAreRight'
  <2>1. \A v \in Workers \ {w} : pc'[v] = pc[v] /\ job'[v] = job[v]
      BY <1>4, <1>a DEF CancelCore, Goto, Answer, Return, Committed, ThreadTypes
  <2>2. WorkerIsRight(w)'
      BY <1>4, <1>a, <1>b, JobOrder
         DEF CancelCore, Goto, Answer, Return, Committed, SetStatus, ThreadTypes, RowTypes,
             row, grants, payment, world, WorkersAreRight, WorkerIsRight, Confident,
             PaidFor, RebateSettled, Fulfilling, Started, Settled
  <2> QED
      BY <1>c, <2>1, <2>2
<1>5. ASSUME NEW w \in Workers, ToPaid(w) PROVE WorkersAreRight'
  <2>1. \A v \in Workers \ {w} : pc'[v] = pc[v] /\ job'[v] = job[v]
      BY <1>5, <1>a DEF ToPaid, Goto, Answer, Return, Committed, ThreadTypes
  <2>2. WorkerIsRight(w)'
      BY <1>5, <1>a, <1>b, JobOrder
         DEF ToPaid, Confirmed, Goto, Answer, Return, Committed, SetStatus, ThreadTypes,
             RowTypes, row, grants, payment, world, WorkersAreRight, WorkerIsRight,
             Confident, PaidFor, RebateSettled, Fulfilling, Started, Settled
  <2> QED
      BY <1>c, <2>1, <2>2
<1>6. ASSUME NEW w \in Workers, AlreadyProcessed(w) PROVE WorkersAreRight'
  <2>1. \A v \in Workers \ {w} : pc'[v] = pc[v] /\ job'[v] = job[v]
      BY <1>6, <1>a DEF AlreadyProcessed, Goto, Answer, Return, Committed, ThreadTypes
  <2>2. WorkerIsRight(w)'
      BY <1>6, <1>a, <1>b, JobOrder
         DEF AlreadyProcessed, Goto, Answer, Return, Committed, SetStatus, ThreadTypes,
             RowTypes, row, grants, payment, world, WorkersAreRight, WorkerIsRight,
             Confident, PaidFor, RebateSettled, Fulfilling, Started, Settled
  <2> QED
      BY <1>c, <2>1, <2>2
<1>7. ASSUME NEW w \in Workers, ExecuteFulfillment(w) PROVE WorkersAreRight'
  <2>1. \A v \in Workers \ {w} : pc'[v] = pc[v] /\ job'[v] = job[v]
      BY <1>7, <1>a DEF ExecuteFulfillment, Goto, Answer, Return, Committed, ThreadTypes
  <2>2. WorkerIsRight(w)'
      BY <1>7, <1>a, <1>b, JobOrder
         DEF ExecuteFulfillment, Goto, Answer, Return, Committed, SetStatus, ThreadTypes,
             RowTypes, row, grants, payment, world, WorkersAreRight, WorkerIsRight,
             Confident, PaidFor, RebateSettled, Fulfilling, Started, Settled
  <2> QED
      BY <1>c, <2>1, <2>2
<1>8. ASSUME NEW w \in Workers, AcquireLease(w) PROVE WorkersAreRight'
  <2>1. \A v \in Workers \ {w} : pc'[v] = pc[v] /\ job'[v] = job[v]
      BY <1>8, <1>a DEF AcquireLease, Goto, Answer, Return, Committed, ThreadTypes
  <2>2. WorkerIsRight(w)'
      BY <1>8, <1>a, <1>b, JobOrder
         DEF AcquireLease, Goto, Answer, Return, Committed, SetStatus, ThreadTypes,
             RowTypes, row, grants, payment, world, WorkersAreRight, WorkerIsRight,
             Confident, PaidFor, RebateSettled, Fulfilling, Started, Settled
  <2> QED
      BY <1>c, <2>1, <2>2
<1>9. ASSUME NEW w \in Workers, LeaseContended(w) PROVE WorkersAreRight'
  <2>1. \A v \in Workers \ {w} : pc'[v] = pc[v] /\ job'[v] = job[v]
      BY <1>9, <1>a DEF LeaseContended, Goto, Answer, Return, Committed, ThreadTypes
  <2>2. WorkerIsRight(w)'
      BY <1>9, <1>a, <1>b, JobOrder
         DEF LeaseContended, Goto, Answer, Return, Committed, SetStatus, ThreadTypes,
             RowTypes, row, grants, payment, world, WorkersAreRight, WorkerIsRight,
             Confident, PaidFor, RebateSettled, Fulfilling, Started, Settled
  <2> QED
      BY <1>c, <2>1, <2>2
<1>10. ASSUME NEW w \in Workers, ReloadLease(w) PROVE WorkersAreRight'
  <2>1. \A v \in Workers \ {w} : pc'[v] = pc[v] /\ job'[v] = job[v]
      BY <1>10, <1>a DEF ReloadLease, Goto, Answer, Return, Committed, ThreadTypes
  <2>2. WorkerIsRight(w)'
      BY <1>10, <1>a, <1>b, JobOrder
         DEF ReloadLease, Goto, Answer, Return, Committed, SetStatus, ThreadTypes, RowTypes,
             row, grants, payment, world, WorkersAreRight, WorkerIsRight, Confident,
             PaidFor, RebateSettled, Fulfilling, Started, Settled, OrderTypes, WorldTypes
  <2> QED
      BY <1>c, <2>1, <2>2
<1>11. ASSUME NEW w \in Workers, LookupCode(w) PROVE WorkersAreRight'
  <2>1. \A v \in Workers \ {w} : pc'[v] = pc[v] /\ job'[v] = job[v]
      BY <1>11, <1>a DEF LookupCode, Goto, Answer, Return, Committed, ThreadTypes
  <2>2. WorkerIsRight(w)'
      BY <1>11, <1>a, <1>b, JobOrder
         DEF LookupCode, Goto, Answer, Return, Committed, SetStatus, ThreadTypes, RowTypes,
             row, grants, payment, world, WorkersAreRight, WorkerIsRight, Confident,
             PaidFor, RebateSettled, Fulfilling, Started, Settled, ResolveRedeemAction,
             KeysMatchGrants, GrantTypes, CodeStates
  <2> QED
      BY <1>c, <2>1, <2>2
<1>12. ASSUME NEW w \in Workers, CreateCode(w) PROVE WorkersAreRight'
  <2>1. \A v \in Workers \ {w} : pc'[v] = pc[v] /\ job'[v] = job[v]
      BY <1>12, <1>a DEF CreateCode, Goto, Answer, Return, Committed, ThreadTypes
  <2>2. WorkerIsRight(w)'
      BY <1>12, <1>a, <1>b, JobOrder
         DEF CreateCode, Goto, Answer, Return, Committed, SetStatus, ThreadTypes, RowTypes,
             row, grants, payment, world, WorkersAreRight, WorkerIsRight, Confident,
             PaidFor, RebateSettled, Fulfilling, Started, Settled
  <2> QED
      BY <1>c, <2>1, <2>2
<1>13. ASSUME NEW w \in Workers, Redeem(w) PROVE WorkersAreRight'
  <2>1. \A v \in Workers \ {w} : pc'[v] = pc[v] /\ job'[v] = job[v]
      BY <1>13, <1>a DEF Redeem, Goto, Answer, Return, Committed, ThreadTypes
  <2>2. WorkerIsRight(w)'
      BY <1>13, <1>a, <1>b, JobOrder
         DEF Redeem, Goto, Answer, Return, Committed, SetStatus, ThreadTypes, RowTypes, row,
             grants, payment, world, WorkersAreRight, WorkerIsRight, Confident, PaidFor,
             RebateSettled, Fulfilling, Started, Settled, KeysMatchGrants, CanUse,
             GrantTypes
  <2> QED
      BY <1>c, <2>1, <2>2
<1>14. ASSUME NEW w \in Workers, CheckAssigned(w) PROVE WorkersAreRight'
  <2>1. \A v \in Workers \ {w} : pc'[v] = pc[v] /\ job'[v] = job[v]
      BY <1>14, <1>a DEF CheckAssigned, Goto, Answer, Return, Committed, ThreadTypes
  <2>2. WorkerIsRight(w)'
      BY <1>14, <1>a, <1>b, JobOrder
         DEF CheckAssigned, Goto, Answer, Return, Committed, SetStatus, ThreadTypes,
             RowTypes, row, grants, payment, world, WorkersAreRight, WorkerIsRight,
             Confident, PaidFor, RebateSettled, Fulfilling, Started, Settled,
             KeysMatchGrants, GrantTypes
  <2> QED
      BY <1>c, <2>1, <2>2
<1>15. ASSUME NEW w \in Workers, AssignSubscription(w) PROVE WorkersAreRight'
  <2>1. \A v \in Workers \ {w} : pc'[v] = pc[v] /\ job'[v] = job[v]
      BY <1>15, <1>a DEF AssignSubscription, Goto, Answer, Return, Committed, ThreadTypes
  <2>2. WorkerIsRight(w)'
      BY <1>15, <1>a, <1>b, JobOrder
         DEF AssignSubscription, Goto, Answer, Return, Committed, SetStatus, ThreadTypes,
             RowTypes, row, grants, payment, world, WorkersAreRight, WorkerIsRight,
             Confident, PaidFor, RebateSettled, Fulfilling, Started, Settled,
             KeysMatchGrants, GrantTypes, HasAssignmentAudit
  <2> QED
      BY <1>c, <2>1, <2>2
<1>16. ASSUME NEW w \in Workers, CheckRebate(w) PROVE WorkersAreRight'
  <2>1. \A v \in Workers \ {w} : pc'[v] = pc[v] /\ job'[v] = job[v]
      BY <1>16, <1>a DEF CheckRebate, Goto, Answer, Return, Committed, ThreadTypes
  <2>2. WorkerIsRight(w)'
      BY <1>16, <1>a, <1>b, JobOrder
         DEF CheckRebate, Goto, Answer, Return, Committed, SetStatus, ThreadTypes, RowTypes,
             row, grants, payment, world, WorkersAreRight, WorkerIsRight, Confident,
             PaidFor, RebateSettled, Fulfilling, Started, Settled
  <2> QED
      BY <1>c, <2>1, <2>2
<1>17. ASSUME NEW w \in Workers, ClaimRebate(w) PROVE WorkersAreRight'
  <2>1. \A v \in Workers \ {w} : pc'[v] = pc[v] /\ job'[v] = job[v]
      BY <1>17, <1>a DEF ClaimRebate, Goto, Answer, Return, Committed, ThreadTypes
  <2>2. WorkerIsRight(w)'
      BY <1>17, <1>a, <1>b, JobOrder
         DEF ClaimRebate, Goto, Answer, Return, Committed, SetStatus, ThreadTypes, RowTypes,
             row, grants, payment, world, WorkersAreRight, WorkerIsRight, Confident,
             PaidFor, RebateSettled, Fulfilling, Started, Settled, RebateActions
  <2> QED
      BY <1>c, <2>1, <2>2
<1>18. ASSUME NEW w \in Workers, SettleRebate(w) PROVE WorkersAreRight'
  <2>1. \A v \in Workers \ {w} : pc'[v] = pc[v] /\ job'[v] = job[v]
      BY <1>18, <1>a DEF SettleRebate, Goto, Answer, Return, Committed, ThreadTypes
  <2>2. job[w].order \in Orders /\ job'[w] = job[w]
      BY <1>18, <1>a, JobOrder DEF SettleRebate, Goto
  <2>3. pc'[w] = "complete" => RebateSettled(job[w].order)'
    <3>1. pc'[w] = "complete" => \E a \in RebateActions : a \in audit'[job[w].order]
        BY <1>18, <1>a, <2>2 DEF SettleRebate, Goto, ThreadTypes, GrantTypes, RebateActions
    <3> QED
        BY <2>2, <3>1 DEF RebateSettled
  <2>4. pc'[w] \in {"complete", "fail"}
      BY <1>18, <1>a DEF SettleRebate, Goto, ThreadTypes
  <2>5. /\ granted'[job[w].order] = 1 /\ status'[job[w].order] \in Started
        /\ PaidFor(job[w].order)'
    <3>1. WorkerIsRight(w) /\ pc[w] = "settle"
        BY <1>18, <1>b DEF SettleRebate, WorkersAreRight
    <3>2. UNCHANGED <<granted, status, provider>>
        BY <1>18 DEF SettleRebate, row, world
    <3> QED
        BY <2>2, <3>1, <3>2 DEF WorkerIsRight, Fulfilling, Confident, PaidFor
  <2>6. WorkerIsRight(w)'
      BY <2>2, <2>3, <2>4, <2>5 DEF WorkerIsRight, Fulfilling, PaidFor
  <2> QED
      BY <1>c, <2>1, <2>6
<1>19. ASSUME NEW w \in Workers, MarkCompleted(w) PROVE WorkersAreRight'
  <2>1. \A v \in Workers \ {w} : pc'[v] = pc[v] /\ job'[v] = job[v]
      BY <1>19, <1>a DEF MarkCompleted, Goto, Answer, Return, Committed, ThreadTypes
  <2>2. WorkerIsRight(w)'
      BY <1>19, <1>a, <1>b, JobOrder
         DEF MarkCompleted, Goto, Answer, Return, Committed, SetStatus, ThreadTypes,
             RowTypes, row, grants, payment, world, WorkersAreRight, WorkerIsRight,
             Confident, PaidFor, RebateSettled, Fulfilling, Started, Settled
  <2> QED
      BY <1>c, <2>1, <2>2
<1>20. ASSUME NEW w \in Workers, LeaseLost(w) PROVE WorkersAreRight'
  <2>1. \A v \in Workers \ {w} : pc'[v] = pc[v] /\ job'[v] = job[v]
      BY <1>20, <1>a DEF LeaseLost, Goto, Answer, Return, Committed, ThreadTypes
  <2>2. WorkerIsRight(w)'
      BY <1>20, <1>a, <1>b, JobOrder
         DEF LeaseLost, Goto, Answer, Return, Committed, SetStatus, ThreadTypes, RowTypes,
             row, grants, payment, world, WorkersAreRight, WorkerIsRight, Confident,
             PaidFor, RebateSettled, Fulfilling, Started, Settled
  <2> QED
      BY <1>c, <2>1, <2>2
<1>21. ASSUME NEW w \in Workers, MarkFailed(w) PROVE WorkersAreRight'
  <2>1. \A v \in Workers \ {w} : pc'[v] = pc[v] /\ job'[v] = job[v]
      BY <1>21, <1>a DEF MarkFailed, Goto, Answer, Return, Committed, ThreadTypes
  <2>2. WorkerIsRight(w)'
      BY <1>21, <1>a, <1>b, JobOrder
         DEF MarkFailed, Goto, Answer, Return, Committed, SetStatus, ThreadTypes, RowTypes,
             row, grants, payment, world, WorkersAreRight, WorkerIsRight, Confident,
             PaidFor, RebateSettled, Fulfilling, Started, Settled
  <2> QED
      BY <1>c, <2>1, <2>2
<1>22. ASSUME NEW w \in Workers, StatementFails(w) PROVE WorkersAreRight'
  <2>1. \A v \in Workers \ {w} : pc'[v] = pc[v] /\ job'[v] = job[v]
      BY <1>22, <1>a DEF StatementFails, Goto, Answer, Return, Committed, ThreadTypes
  <2>2. WorkerIsRight(w)'
      BY <1>22, <1>a, <1>b, JobOrder
         DEF StatementFails, Goto, Answer, Return, Committed, SetStatus, ThreadTypes,
             RowTypes, row, grants, payment, world, WorkersAreRight, WorkerIsRight,
             Confident, PaidFor, RebateSettled, Fulfilling, Started, Settled
  <2> QED
      BY <1>c, <2>1, <2>2
<1>23. ASSUME NEW w \in Workers, SwallowedRead(w) PROVE WorkersAreRight'
  <2>1. \A v \in Workers \ {w} : pc'[v] = pc[v] /\ job'[v] = job[v]
      BY <1>23, <1>a DEF SwallowedRead, Goto, Answer, Return, Committed, ThreadTypes
  <2>2. WorkerIsRight(w)'
      BY <1>23, <1>a, <1>b, JobOrder
         DEF SwallowedRead, Goto, Answer, Return, Committed, SetStatus, ThreadTypes,
             RowTypes, row, grants, payment, world, WorkersAreRight, WorkerIsRight,
             Confident, PaidFor, RebateSettled, Fulfilling, Started, Settled
  <2> QED
      BY <1>c, <2>1, <2>2
<1>24. ASSUME NEW w \in Workers, Crash(w) PROVE WorkersAreRight'
  <2>1. \A v \in Workers \ {w} : pc'[v] = pc[v] /\ job'[v] = job[v]
      BY <1>24, <1>a DEF Crash, Goto, Answer, Return, Committed, ThreadTypes
  <2>2. WorkerIsRight(w)'
      BY <1>24, <1>a, <1>b, JobOrder
         DEF Crash, Goto, Answer, Return, Committed, SetStatus, ThreadTypes, RowTypes, row,
             grants, payment, world, WorkersAreRight, WorkerIsRight, Confident, PaidFor,
             RebateSettled, Fulfilling, Started, Settled
  <2> QED
      BY <1>c, <2>1, <2>2
<1>25. ASSUME NEW w \in Workers, NEW o \in Orders, HandleNotify(w, o) PROVE WorkersAreRight'
  <2>1. \A v \in Workers \ {w} : pc'[v] = pc[v] /\ job'[v] = job[v]
      BY <1>25, <1>a DEF HandleNotify, Begin, ThreadTypes
  <2>2. WorkerIsRight(w)'
      BY <1>25, <1>a, <1>b, JobOrder
         DEF HandleNotify, Begin, SetStatus, ThreadTypes, RowTypes, row, grants, payment,
             world, WorkersAreRight, WorkerIsRight, Confident, PaidFor, RebateSettled,
             Fulfilling, Started, Settled
  <2> QED
      BY <1>c, <2>1, <2>2
<1>26. ASSUME NEW w \in Workers, NEW o \in Orders, RetryFulfillment(w, o) PROVE WorkersAreRight'
  <2>1. \A v \in Workers \ {w} : pc'[v] = pc[v] /\ job'[v] = job[v]
      BY <1>26, <1>a DEF RetryFulfillment, Begin, ThreadTypes
  <2>2. WorkerIsRight(w)'
      BY <1>26, <1>a, <1>b, JobOrder
         DEF RetryFulfillment, OwedMeansPaid, Begin, SetStatus, ThreadTypes, RowTypes, row,
             grants, payment, world, WorkersAreRight, WorkerIsRight, Confident, PaidFor,
             RebateSettled, Fulfilling, Started, Settled
  <2> QED
      BY <1>c, <2>1, <2>2
<1>27. ASSUME NEW w \in Workers, NEW o \in Orders, StartCheck(w, o) PROVE WorkersAreRight'
  <2>1. \A v \in Workers \ {w} : pc'[v] = pc[v] /\ job'[v] = job[v]
      BY <1>27, <1>a DEF StartCheck, Begin, ThreadTypes
  <2>2. WorkerIsRight(w)'
      BY <1>27, <1>a, <1>b, JobOrder
         DEF StartCheck, Begin, SetStatus, ThreadTypes, RowTypes, row, grants, payment,
             world, WorkersAreRight, WorkerIsRight, Confident, PaidFor, RebateSettled,
             Fulfilling, Started, Settled
  <2> QED
      BY <1>c, <2>1, <2>2
<1>28. ASSUME NEW o \in Orders, CustomerPays(o) PROVE WorkersAreRight'
    BY <1>d, <1>28 DEF CustomerPays, thread
<1>29. ASSUME NEW o \in Orders, Age(o) PROVE WorkersAreRight'
    BY <1>d, <1>29 DEF Age, thread
<1>30. ASSUME NEW o \in Orders, Stall(o) PROVE WorkersAreRight'
    BY <1>d, <1>30 DEF Stall, thread
<1>31. ASSUME NEW o \in Orders, PassDeadline(o) PROVE WorkersAreRight'
    BY <1>d, <1>31 DEF PassDeadline, thread
<1>32. ASSUME NEW o \in Orders, RequestRefund(o) PROVE WorkersAreRight'
    BY <1>d, <1>32 DEF RequestRefund, thread
<1>33. CASE UNCHANGED vars
    BY <1>d, <1>33 DEF vars, thread
<1>34. ASSUME NEW o \in Orders, InvokeProvider(o) PROVE WorkersAreRight'
    BY <1>d, <1>34 DEF InvokeProvider, thread
<1>35. ASSUME NEW o \in Orders, FailCreation(o) PROVE WorkersAreRight'
    BY <1>d, <1>35 DEF FailCreation, thread
<1>36. ASSUME NEW o \in Orders, AbandonCreation(o) PROVE WorkersAreRight'
    BY <1>d, <1>36 DEF AbandonCreation, thread
<1> QED
    BY <1>1, <1>2, <1>3, <1>4, <1>5, <1>6, <1>7, <1>8, <1>9, <1>10, <1>11, <1>12, <1>13,
       <1>14, <1>15, <1>16, <1>17, <1>18, <1>19, <1>20, <1>21, <1>22, <1>23, <1>24, <1>25,
       <1>26, <1>27, <1>28, <1>29, <1>30, <1>31, <1>32, <1>33, <1>34, <1>35, <1>36
       DEF Next, Step, Start, Failure, Creation, Surroundings

\* The claim is taken only when no other transaction has it, and no one but
\* its holder commits a rebate.
LEMMA ClaimsNext ==
    ASSUME Inv, [Next]_vars
    PROVE  ClaimIsExclusive'
<1>a. RowTypes /\ ThreadTypes /\ GrantTypes /\ WorldTypes
    BY DEF Inv, TypeOK
<1>b. ClaimIsExclusive
    BY DEF Inv
<1>c. ASSUME NEW w \in Workers, pc'[w] # "settle",
             \A v \in Workers \ {w} : pc'[v] = pc[v] /\ job'[v] = job[v],
             \A o \in Orders : "AFFILIATE_REBATE_APPLIED" \notin audit[o]
                                => "AFFILIATE_REBATE_APPLIED" \notin audit'[o]
      PROVE  ClaimIsExclusive'
    BY <1>a, <1>b, <1>c, JobOrder DEF ClaimIsExclusive, ClaimFree
<1>d. ASSUME UNCHANGED <<pc, job, audit>> PROVE ClaimIsExclusive'
    BY <1>b, <1>d DEF ClaimIsExclusive, ClaimFree
<1>1. ASSUME NEW w \in Workers, QueryOrder(w) PROVE ClaimIsExclusive'
    BY <1>1, <1>a, <1>c DEF QueryOrder, Goto, Answer, Return, Committed, ThreadTypes, grants
<1>2. ASSUME NEW w \in Workers, PersistTradeNo(w) PROVE ClaimIsExclusive'
    BY <1>2, <1>a, <1>c
       DEF PersistTradeNo, Goto, Answer, Return, Committed, ThreadTypes, grants
<1>3. ASSUME NEW w \in Workers, CancelPayment(w) PROVE ClaimIsExclusive'
    BY <1>3, <1>a, <1>c
       DEF CancelPayment, Goto, Answer, Return, Committed, ThreadTypes, grants
<1>4. ASSUME NEW w \in Workers, CancelCore(w) PROVE ClaimIsExclusive'
    BY <1>4, <1>a, <1>c DEF CancelCore, Goto, Answer, Return, Committed, ThreadTypes, grants
<1>5. ASSUME NEW w \in Workers, ToPaid(w) PROVE ClaimIsExclusive'
    BY <1>5, <1>a, <1>c DEF ToPaid, Goto, Answer, Return, Committed, ThreadTypes, grants
<1>6. ASSUME NEW w \in Workers, AlreadyProcessed(w) PROVE ClaimIsExclusive'
    BY <1>6, <1>a, <1>c
       DEF AlreadyProcessed, Goto, Answer, Return, Committed, ThreadTypes, grants
<1>7. ASSUME NEW w \in Workers, ExecuteFulfillment(w) PROVE ClaimIsExclusive'
    BY <1>7, <1>a, <1>c
       DEF ExecuteFulfillment, Goto, Answer, Return, Committed, ThreadTypes, grants
<1>8. ASSUME NEW w \in Workers, AcquireLease(w) PROVE ClaimIsExclusive'
    BY <1>8, <1>a, <1>c
       DEF AcquireLease, Goto, Answer, Return, Committed, ThreadTypes, grants
<1>9. ASSUME NEW w \in Workers, LeaseContended(w) PROVE ClaimIsExclusive'
    BY <1>9, <1>a, <1>c
       DEF LeaseContended, Goto, Answer, Return, Committed, ThreadTypes, grants
<1>10. ASSUME NEW w \in Workers, ReloadLease(w) PROVE ClaimIsExclusive'
    BY <1>10, <1>a, <1>c
       DEF ReloadLease, Goto, Answer, Return, Committed, ThreadTypes, grants
<1>11. ASSUME NEW w \in Workers, LookupCode(w) PROVE ClaimIsExclusive'
    BY <1>11, <1>a, <1>c, JobOrder
       DEF LookupCode, Goto, Answer, Return, Committed, ThreadTypes, grants,
           ResolveRedeemAction, GrantTypes, CodeStates
<1>12. ASSUME NEW w \in Workers, CreateCode(w) PROVE ClaimIsExclusive'
    BY <1>12, <1>a, <1>c
       DEF CreateCode, Goto, Answer, Return, Committed, ThreadTypes, grants
<1>13. ASSUME NEW w \in Workers, Redeem(w) PROVE ClaimIsExclusive'
    BY <1>13, <1>a, <1>c DEF Redeem, Goto, Answer, Return, Committed, ThreadTypes, grants
<1>14. ASSUME NEW w \in Workers, CheckAssigned(w) PROVE ClaimIsExclusive'
    BY <1>14, <1>a, <1>c
       DEF CheckAssigned, Goto, Answer, Return, Committed, ThreadTypes, grants
<1>15. ASSUME NEW w \in Workers, AssignSubscription(w) PROVE ClaimIsExclusive'
    BY <1>15, <1>a, <1>c, JobOrder
       DEF AssignSubscription, Goto, Answer, Return, Committed, ThreadTypes, grants,
           GrantTypes
<1>16. ASSUME NEW w \in Workers, CheckRebate(w) PROVE ClaimIsExclusive'
    BY <1>16, <1>a, <1>c
       DEF CheckRebate, Goto, Answer, Return, Committed, ThreadTypes, grants
<1>17. ASSUME NEW w \in Workers, ClaimRebate(w) PROVE ClaimIsExclusive'
    BY <1>17, <1>a, <1>b, JobOrder
       DEF ClaimRebate, Goto, ThreadTypes, grants, ClaimIsExclusive, ClaimFree
<1>18. ASSUME NEW w \in Workers, SettleRebate(w) PROVE ClaimIsExclusive'
  <2>1. job[w].order \in Orders
      BY <1>18, <1>a, JobOrder DEF SettleRebate
  <2>2. pc'[w] # "settle" /\ job' = job
      BY <1>18, <1>a DEF SettleRebate, Goto, ThreadTypes
  <2>3. \A v \in Workers \ {w} : pc'[v] = pc[v]
      BY <1>18, <1>a DEF SettleRebate, Goto, ThreadTypes
  <2>4. \A o \in Orders \ {job[w].order} : audit'[o] = audit[o]
      BY <1>18, <1>a, <2>1 DEF SettleRebate, GrantTypes
  <2>5. \A v \in Workers \ {w} : pc[v] = "settle" => job[v].order # job[w].order
      BY <1>18, <1>b DEF SettleRebate, ClaimIsExclusive, ClaimFree
  <2> QED
      BY <1>a, <1>b, <2>2, <2>3, <2>4, <2>5, JobOrder DEF ClaimIsExclusive, ClaimFree
<1>19. ASSUME NEW w \in Workers, MarkCompleted(w) PROVE ClaimIsExclusive'
    BY <1>19, <1>a, <1>c
       DEF MarkCompleted, Goto, Answer, Return, Committed, ThreadTypes, grants
<1>20. ASSUME NEW w \in Workers, LeaseLost(w) PROVE ClaimIsExclusive'
    BY <1>20, <1>a, <1>c DEF LeaseLost, Goto, Answer, Return, Committed, ThreadTypes, grants
<1>21. ASSUME NEW w \in Workers, MarkFailed(w) PROVE ClaimIsExclusive'
    BY <1>21, <1>a, <1>c
       DEF MarkFailed, Goto, Answer, Return, Committed, ThreadTypes, grants
<1>22. ASSUME NEW w \in Workers, StatementFails(w) PROVE ClaimIsExclusive'
    BY <1>22, <1>a, <1>c
       DEF StatementFails, Goto, Answer, Return, Committed, ThreadTypes, grants
<1>23. ASSUME NEW w \in Workers, SwallowedRead(w) PROVE ClaimIsExclusive'
    BY <1>23, <1>a, <1>c
       DEF SwallowedRead, Goto, Answer, Return, Committed, ThreadTypes, grants
<1>24. ASSUME NEW w \in Workers, Crash(w) PROVE ClaimIsExclusive'
    BY <1>24, <1>a, <1>c DEF Crash, Goto, Answer, Return, Committed, ThreadTypes, grants
<1>25. ASSUME NEW w \in Workers, NEW o \in Orders, HandleNotify(w, o) PROVE ClaimIsExclusive'
    BY <1>25, <1>a, <1>c DEF HandleNotify, Begin, ThreadTypes, grants
<1>26. ASSUME NEW w \in Workers, NEW o \in Orders, RetryFulfillment(w, o) PROVE ClaimIsExclusive'
    BY <1>26, <1>a, <1>c DEF RetryFulfillment, Begin, ThreadTypes, grants
<1>27. ASSUME NEW w \in Workers, NEW o \in Orders, StartCheck(w, o) PROVE ClaimIsExclusive'
    BY <1>27, <1>a, <1>c DEF StartCheck, Begin, ThreadTypes, grants
<1>28. ASSUME NEW o \in Orders, CustomerPays(o) PROVE ClaimIsExclusive'
    BY <1>d, <1>28 DEF CustomerPays, thread, grants
<1>29. ASSUME NEW o \in Orders, Age(o) PROVE ClaimIsExclusive'
    BY <1>d, <1>29 DEF Age, thread, grants
<1>30. ASSUME NEW o \in Orders, Stall(o) PROVE ClaimIsExclusive'
    BY <1>d, <1>30 DEF Stall, thread, grants
<1>31. ASSUME NEW o \in Orders, PassDeadline(o) PROVE ClaimIsExclusive'
    BY <1>d, <1>31 DEF PassDeadline, thread, grants
<1>32. ASSUME NEW o \in Orders, RequestRefund(o) PROVE ClaimIsExclusive'
    BY <1>d, <1>32 DEF RequestRefund, thread, grants
<1>33. CASE UNCHANGED vars
    BY <1>d, <1>33 DEF vars, thread, grants
<1>34. ASSUME NEW o \in Orders, InvokeProvider(o) PROVE ClaimIsExclusive'
    BY <1>d, <1>34 DEF InvokeProvider, thread, grants
<1>35. ASSUME NEW o \in Orders, FailCreation(o) PROVE ClaimIsExclusive'
    BY <1>d, <1>35 DEF FailCreation, thread, grants
<1>36. ASSUME NEW o \in Orders, AbandonCreation(o) PROVE ClaimIsExclusive'
    BY <1>d, <1>36 DEF AbandonCreation, thread, grants
<1> QED
    BY <1>1, <1>2, <1>3, <1>4, <1>5, <1>6, <1>7, <1>8, <1>9, <1>10, <1>11, <1>12, <1>13,
       <1>14, <1>15, <1>16, <1>17, <1>18, <1>19, <1>20, <1>21, <1>22, <1>23, <1>24, <1>25,
       <1>26, <1>27, <1>28, <1>29, <1>30, <1>31, <1>32, <1>33, <1>34, <1>35, <1>36
       DEF Next, Step, Start, Failure, Creation, Surroundings

\* A status is reached only from what justifies it.
LEMMA StatusNext ==
    ASSUME Inv, [Next]_vars
    PROVE  OwedMeansPaid' /\ CompletedMeansGranted' /\ GrantedMeansPaid'
<1>a. RowTypes /\ ThreadTypes /\ GrantTypes /\ WorldTypes
    BY DEF Inv, TypeOK
<1>b. OwedMeansPaid /\ CompletedMeansGranted /\ GrantedMeansPaid /\ WorkersAreRight
    BY DEF Inv
<1> DEFINE Good == OwedMeansPaid' /\ CompletedMeansGranted' /\ GrantedMeansPaid'
<1>c. ASSUME UNCHANGED <<status, granted, paidAt>> PROVE Good
    BY <1>b, <1>c, LastingNext
       DEF OwedMeansPaid, CompletedMeansGranted, GrantedMeansPaid, Lasting, RebateSettled,
           PaidFor
<1>d. ASSUME NEW o \in Orders, NEW s \in Statuses, status' = [status EXCEPT ![o] = s],
             granted' = granted, paidAt' = paidAt,
             Claimed(s) => PaidFor(o),
             s \in Settled => granted[o] = 1 /\ RebateSettled(o),
             granted[o] > 0 => s \in Started
      PROVE  Good
    BY <1>a, <1>b, <1>d, LastingNext
       DEF OwedMeansPaid, CompletedMeansGranted, GrantedMeansPaid, Lasting, RowTypes,
           PaidFor
<1>1. ASSUME NEW w \in Workers, QueryOrder(w) PROVE Good
    BY <1>1, <1>c DEF QueryOrder, Return, row, grants, payment
<1>2. ASSUME NEW w \in Workers, PersistTradeNo(w) PROVE Good
    BY <1>2, <1>a, <1>b, <1>c, <1>d, JobOrder
       DEF PersistTradeNo, SetStatus, Return, row, grants, payment, Statuses, Unpaid, Owed,
           Settled, Started, RowTypes, GrantTypes, Claimed, PaidFor, OwedMeansPaid,
           CompletedMeansGranted, GrantedMeansPaid, WorkersAreRight, WorkerIsRight
<1>3. ASSUME NEW w \in Workers, CancelPayment(w) PROVE Good
    BY <1>3, <1>c DEF CancelPayment, Return, row, grants, payment
<1>4. ASSUME NEW w \in Workers, CancelCore(w) PROVE Good
  <2> DEFINE o == job[w].order
             s == CancelTarget(job[w].op)
  <2>1. o \in Orders
      BY <1>4, <1>a, JobOrder DEF CancelCore
  <2>2. CASE MayCancel(o)
    <3>1. status' = [status EXCEPT ![o] = s] /\ UNCHANGED <<granted, paidAt>>
        BY <1>4, <2>2 DEF CancelCore, SetStatus, grants, payment
    <3>2. s \in Statuses /\ ~Claimed(s) /\ s \notin Settled
        BY DEF CancelTarget, Statuses, Unpaid, Settled, Claimed
    <3>3. ~(granted[o] > 0)
        BY <1>b, <2>1, <2>2 DEF MayCancel, GrantedMeansPaid, Started, Settled
    <3> QED
        BY <1>d, <2>1, <3>1, <3>2, <3>3
  <2>3. CASE ~MayCancel(o)
      BY <1>4, <1>c, <2>3 DEF CancelCore, Return, grants, payment
  <2> QED
      BY <2>2, <2>3
<1>5. ASSUME NEW w \in Workers, ToPaid(w) PROVE Good
  <2> DEFINE o == job[w].order
  <2>1. o \in Orders
      BY <1>5, <1>a, JobOrder DEF ToPaid
  <2>2. CASE Confirmed(o) /\ Payable(o)
    <3>1. /\ status' = [status EXCEPT ![o] = "PAID"] /\ paidAt' = [paidAt EXCEPT ![o] = TRUE]
          /\ UNCHANGED <<granted, provider>>
        BY <1>5, <2>2 DEF ToPaid, SetStatus, grants, world
    <3>2. "PAID" \in Statuses /\ "PAID" \notin Settled /\ PaidFor(o)
        BY <2>2 DEF Statuses, Owed, Settled, Confirmed, PaidFor
    <3>3. ~(granted[o] > 0)
        BY <1>b, <2>1, <2>2 DEF Payable, GrantedMeansPaid, Started, Settled
    <3>4. OwedMeansPaid'
        BY <1>a, <1>b, <2>1, <3>1, <3>2 DEF OwedMeansPaid, PaidFor, RowTypes, WorldTypes
    <3>5. CompletedMeansGranted' /\ GrantedMeansPaid'
        BY <1>a, <1>b, <2>1, <3>1, <3>2, <3>3, LastingNext
           DEF CompletedMeansGranted, GrantedMeansPaid, Lasting, RowTypes
    <3> QED
        BY <3>4, <3>5
  <2>3. CASE ~(Confirmed(o) /\ Payable(o))
      BY <1>5, <1>c, <2>3 DEF ToPaid, Return, row, grants, payment
  <2> QED
      BY <2>2, <2>3
<1>6. ASSUME NEW w \in Workers, AlreadyProcessed(w) PROVE Good
    BY <1>6, <1>c DEF AlreadyProcessed, Return, row, grants, payment
<1>7. ASSUME NEW w \in Workers, ExecuteFulfillment(w) PROVE Good
    BY <1>7, <1>c DEF ExecuteFulfillment, Return, row, grants, payment
<1>8. ASSUME NEW w \in Workers, AcquireLease(w) PROVE Good
  <2> DEFINE o == job[w].order
  <2>1. o \in Orders /\ PaidFor(o)
      BY <1>8, <1>a, <1>b, JobOrder
         DEF AcquireLease, WorkersAreRight, WorkerIsRight, Confident
  <2>2. CASE LeaseFree(o)
    <3>1. status' = [status EXCEPT ![o] = "RECHARGING"] /\ UNCHANGED <<granted, paidAt>>
        BY <1>8, <2>2 DEF AcquireLease, SetStatus, grants, payment
    <3>2. "RECHARGING" \in Statuses /\ "RECHARGING" \in Started /\ "RECHARGING" \notin Settled
        BY DEF Statuses, Owed, Settled, Started
    <3> QED
        BY <1>d, <2>1, <3>1, <3>2
  <2>3. CASE ~LeaseFree(o)
      BY <1>8, <1>c, <2>3 DEF AcquireLease, row, grants, payment
  <2> QED
      BY <2>2, <2>3
<1>9. ASSUME NEW w \in Workers, LeaseContended(w) PROVE Good
    BY <1>9, <1>c DEF LeaseContended, Return, row, grants, payment
<1>10. ASSUME NEW w \in Workers, ReloadLease(w) PROVE Good
    BY <1>10, <1>c DEF ReloadLease, Return, row, grants, payment
<1>11. ASSUME NEW w \in Workers, LookupCode(w) PROVE Good
    BY <1>11, <1>c DEF LookupCode, Return, row, grants, payment
<1>12. ASSUME NEW w \in Workers, CreateCode(w) PROVE Good
    BY <1>12, <1>c DEF CreateCode, Return, row, grants, payment
<1>13. ASSUME NEW w \in Workers, Redeem(w) PROVE Good
  <2>1. job[w].order \in Orders /\ status[job[w].order] \in Started
      BY <1>13, <1>a, <1>b, JobOrder DEF Redeem, WorkersAreRight, WorkerIsRight, Fulfilling
  <2>2. /\ status' = status /\ provider' = provider /\ paidAt' = paidAt
        /\ PaidFor(job[w].order)
      BY <1>13, <1>b
         DEF Redeem, row, payment, world, WorkersAreRight, WorkerIsRight, Confident, Fulfilling
  <2>3. \A o \in Orders \ {job[w].order} : granted'[o] = granted[o]
      BY <1>13, <1>a, <2>1 DEF Redeem, GrantTypes
  <2>4. OwedMeansPaid'
    <3>1. OwedMeansPaid /\ status' = status /\ provider' = provider /\ paidAt' = paidAt
        BY <1>b, <2>2
    <3> QED
        BY <3>1 DEF OwedMeansPaid, PaidFor, Claimed
  <2>5. CompletedMeansGranted'
      BY <1>b, <2>2, LastingNext DEF CompletedMeansGranted, Lasting
  <2>6. GrantedMeansPaid'
    <3>1. /\ GrantedMeansPaid /\ status' = status /\ provider' = provider
          /\ provider[job[w].order] = "paid"
        BY <1>b, <2>2 DEF PaidFor
    <3> QED
        BY <2>1, <2>3, <3>1 DEF GrantedMeansPaid
  <2> QED
      BY <2>4, <2>5, <2>6
<1>14. ASSUME NEW w \in Workers, CheckAssigned(w) PROVE Good
    BY <1>14, <1>c DEF CheckAssigned, Return, row, grants, payment
<1>15. ASSUME NEW w \in Workers, AssignSubscription(w) PROVE Good
  <2>1. job[w].order \in Orders /\ status[job[w].order] \in Started
      BY <1>15, <1>a, <1>b, JobOrder
         DEF AssignSubscription, WorkersAreRight, WorkerIsRight, Fulfilling
  <2>2. /\ status' = status /\ provider' = provider /\ paidAt' = paidAt
        /\ PaidFor(job[w].order)
      BY <1>15, <1>b
         DEF AssignSubscription, row, payment, world, WorkersAreRight, WorkerIsRight,
             Confident, Fulfilling
  <2>3. \A o \in Orders \ {job[w].order} : granted'[o] = granted[o]
      BY <1>15, <1>a, <2>1 DEF AssignSubscription, GrantTypes
  <2>4. OwedMeansPaid'
    <3>1. OwedMeansPaid /\ status' = status /\ provider' = provider /\ paidAt' = paidAt
        BY <1>b, <2>2
    <3> QED
        BY <3>1 DEF OwedMeansPaid, PaidFor, Claimed
  <2>5. CompletedMeansGranted'
      BY <1>b, <2>2, LastingNext DEF CompletedMeansGranted, Lasting
  <2>6. GrantedMeansPaid'
    <3>1. /\ GrantedMeansPaid /\ status' = status /\ provider' = provider
          /\ provider[job[w].order] = "paid"
        BY <1>b, <2>2 DEF PaidFor
    <3> QED
        BY <2>1, <2>3, <3>1 DEF GrantedMeansPaid
  <2> QED
      BY <2>4, <2>5, <2>6
<1>16. ASSUME NEW w \in Workers, CheckRebate(w) PROVE Good
    BY <1>16, <1>c DEF CheckRebate, Return, row, grants, payment
<1>17. ASSUME NEW w \in Workers, ClaimRebate(w) PROVE Good
    BY <1>17, <1>c DEF ClaimRebate, Return, row, grants, payment
<1>18. ASSUME NEW w \in Workers, SettleRebate(w) PROVE Good
    BY <1>18, <1>c DEF SettleRebate, Return, row, grants, payment
<1>19. ASSUME NEW w \in Workers, MarkCompleted(w) PROVE Good
  <2> DEFINE o == job[w].order
  <2>1. o \in Orders
      BY <1>19, <1>a, JobOrder DEF MarkCompleted
  <2>2. CASE HoldsLease(w)
    <3>1. status' = [status EXCEPT ![o] = "COMPLETED"] /\ UNCHANGED <<granted, paidAt>>
        BY <1>19, <2>2 DEF MarkCompleted, SetStatus, grants, payment
    <3>2. "COMPLETED" \in Statuses /\ "COMPLETED" \in Started /\ PaidFor(o)
        BY <1>b, <2>1, <2>2
           DEF HoldsLease, Statuses, Owed, Settled, Started, Unpaid, OwedMeansPaid, Claimed
    <3>3. "COMPLETED" \in Settled => granted[o] = 1 /\ RebateSettled(o)
        BY <1>19, <1>b DEF MarkCompleted, WorkersAreRight, WorkerIsRight, Settled
    <3> QED
        BY <1>d, <2>1, <3>1, <3>2, <3>3
  <2>3. CASE ~HoldsLease(w)
      BY <1>19, <1>c, <2>3 DEF MarkCompleted, Return, row, grants, payment
  <2> QED
      BY <2>2, <2>3
<1>20. ASSUME NEW w \in Workers, LeaseLost(w) PROVE Good
    BY <1>20, <1>c DEF LeaseLost, Return, row, grants, payment
<1>21. ASSUME NEW w \in Workers, MarkFailed(w) PROVE Good
  <2> DEFINE o == job[w].order
  <2>1. o \in Orders
      BY <1>21, <1>a, JobOrder DEF MarkFailed
  <2>2. CASE HoldsLease(w)
    <3>1. status' = [status EXCEPT ![o] = "FAILED"] /\ UNCHANGED <<granted, paidAt>>
        BY <1>21, <2>2 DEF MarkFailed, SetStatus, grants, payment
    <3>2. "FAILED" \in Statuses /\ "FAILED" \in Started /\ PaidFor(o)
        BY <1>b, <2>1, <2>2
           DEF HoldsLease, Statuses, Owed, Settled, Started, Unpaid, OwedMeansPaid, Claimed
    <3>3. "FAILED" \in Settled => granted[o] = 1 /\ RebateSettled(o)
        BY <1>21, <1>b DEF MarkFailed, WorkersAreRight, WorkerIsRight, Settled
    <3> QED
        BY <1>d, <2>1, <3>1, <3>2, <3>3
  <2>3. CASE ~HoldsLease(w)
      BY <1>21, <1>c, <2>3 DEF MarkFailed, Return, row, grants, payment
  <2> QED
      BY <2>2, <2>3
<1>22. ASSUME NEW w \in Workers, StatementFails(w) PROVE Good
    BY <1>22, <1>c DEF StatementFails, Return, row, grants, payment
<1>23. ASSUME NEW w \in Workers, SwallowedRead(w) PROVE Good
    BY <1>23, <1>c DEF SwallowedRead, Return, row, grants, payment
<1>24. ASSUME NEW w \in Workers, Crash(w) PROVE Good
    BY <1>24, <1>c DEF Crash, Return, row, grants, payment
<1>25. ASSUME NEW w \in Workers, NEW o \in Orders, HandleNotify(w, o) PROVE Good
    BY <1>25, <1>c DEF HandleNotify, Begin, row, grants, payment
<1>26. ASSUME NEW w \in Workers, NEW o \in Orders, RetryFulfillment(w, o) PROVE Good
    BY <1>26, <1>c DEF RetryFulfillment, Begin, row, grants, payment
<1>27. ASSUME NEW w \in Workers, NEW o \in Orders, StartCheck(w, o) PROVE Good
    BY <1>27, <1>c DEF StartCheck, Begin, row, grants, payment
<1>28. ASSUME NEW o \in Orders, CustomerPays(o) PROVE Good
    BY <1>28, <1>c DEF CustomerPays, row, grants, payment
<1>29. ASSUME NEW o \in Orders, Age(o) PROVE Good
    BY <1>29, <1>c DEF Age, row, grants, payment
<1>30. ASSUME NEW o \in Orders, Stall(o) PROVE Good
    BY <1>30, <1>c DEF Stall, row, grants, payment
<1>31. ASSUME NEW o \in Orders, PassDeadline(o) PROVE Good
    BY <1>31, <1>c DEF PassDeadline, row, grants, payment
<1>32. ASSUME NEW o \in Orders, RequestRefund(o) PROVE Good
    BY <1>32, <1>a, <1>b, <1>c, <1>d, JobOrder
       DEF RequestRefund, SetStatus, Return, row, grants, payment, Statuses, Unpaid, Owed,
           Settled, Started, RowTypes, GrantTypes, Claimed, PaidFor, OwedMeansPaid,
           CompletedMeansGranted, GrantedMeansPaid, WorkersAreRight, WorkerIsRight
<1>33. CASE UNCHANGED vars
    BY <1>c, <1>33 DEF vars, row, grants, payment
<1>34. ASSUME NEW o \in Orders, InvokeProvider(o) PROVE Good
  <2>1. status' = status /\ UNCHANGED <<granted, paidAt>>
      BY <1>34, <1>a DEF InvokeProvider, SetStatus, row, grants, RowTypes
  <2> QED
      BY <1>c, <2>1
<1>35. ASSUME NEW o \in Orders, FailCreation(o) PROVE Good
  <2>1. /\ status' = [status EXCEPT ![o] = "FAILED"]
        /\ UNCHANGED <<granted, paidAt>>
      BY <1>35 DEF FailCreation, SetStatus, grants, payment
  <2>2. /\ "FAILED" \in Statuses /\ "FAILED" \in Started /\ "FAILED" \notin Settled
        /\ ~Claimed("FAILED")
      BY DEF Statuses, Owed, Settled, Started, Claimed
  <2> QED
      BY <1>d, <2>1, <2>2
<1>36. ASSUME NEW o \in Orders, AbandonCreation(o) PROVE Good
    BY <1>36, <1>c DEF AbandonCreation, row, grants, payment
<1> QED
    BY <1>1, <1>2, <1>3, <1>4, <1>5, <1>6, <1>7, <1>8, <1>9, <1>10, <1>11, <1>12, <1>13,
       <1>14, <1>15, <1>16, <1>17, <1>18, <1>19, <1>20, <1>21, <1>22, <1>23, <1>24, <1>25,
       <1>26, <1>27, <1>28, <1>29, <1>30, <1>31, <1>32, <1>33, <1>34, <1>35, <1>36
       DEF Next, Step, Start, Failure, Creation, Surroundings

\* Nobody pays an order whose creation has not got to the provider.
LEMMA CreationNext ==
    ASSUME Inv, [Next]_vars
    PROVE  CreationFirst'
BY LastingNext DEF CreationFirst, Lasting

\* The invariant holds at the start, for fresh and for legacy orders.
LEMMA InvInit == Init => Inv
<1> SUFFICES ASSUME Init PROVE Inv
    OBVIOUS
<1>1. PICK legacy \in SUBSET {o \in Orders : kind[o] = "subscription"} :
        /\ status = [o \in Orders |-> IF o \in legacy THEN "FAILED" ELSE "PENDING"]
        /\ note = [o \in Orders |-> o \in legacy]
        /\ granted = [o \in Orders |-> IF o \in legacy THEN 1 ELSE 0]
        /\ provider = [o \in Orders |-> IF o \in legacy THEN "paid" ELSE "none"]
        /\ creating = [o \in Orders |-> IF o \in legacy THEN "done" ELSE "invoke"]
        /\ tradeNo = [o \in Orders |-> o \in legacy]
        /\ paidAt = [o \in Orders |-> o \in legacy]
    BY DEF Init
<1>2. RowTypes
    BY <1>1 DEF Init, RowTypes, Statuses, Unpaid, Owed
<1>3. ThreadTypes
    BY DEF Init, ThreadTypes, Labels
<1>4. GrantTypes
    BY <1>1 DEF Init, GrantTypes, CodeStates
<1>5. WorldTypes
    BY <1>1, FaultsAssumption DEF Init, WorldTypes
<1>6. KeysMatchGrants
    BY <1>1 DEF Init, KeysMatchGrants, HasAssignmentAudit
<1>7. WorkersAreRight /\ ClaimIsExclusive
    BY DEF Init, WorkersAreRight, WorkerIsRight, ClaimIsExclusive, Fulfilling, Confident
<1>8. OwedMeansPaid /\ CreationFirst
  <2>1. ~Claimed("FAILED") /\ ~Claimed("PENDING")
      BY DEF Claimed, Unpaid
  <2> QED
      BY <1>1, <2>1 DEF OwedMeansPaid, CreationFirst, PaidFor
<1>9. CompletedMeansGranted /\ GrantedMeansPaid
    BY <1>1 DEF CompletedMeansGranted, GrantedMeansPaid, Settled, Started
<1> QED
    BY <1>2, <1>3, <1>4, <1>5, <1>6, <1>7, <1>8, <1>9 DEF Inv, TypeOK

\* The invariant holds of every reachable state: keys, workers, claims and
\* statuses agree whatever the interleaving and the failures.
THEOREM Invariance == Spec => []Inv
<1>1. Inv /\ [Next]_vars => Inv'
    BY TypeNext, KeysNext, WorkersNext, ClaimsNext, StatusNext, CreationNext DEF Inv
<1> QED
    BY <1>1, InvInit, PTL DEF Spec

\* Every variable keeps its type.
THEOREM TypeCorrect == Spec => []TypeOK
<1>1. Inv => TypeOK
    BY DEF Inv
<1> QED
    BY <1>1, Invariance, PTL

\* Balance and subscription days are granted at most once per order.
THEOREM GrantOnce == Spec => []GrantedOnce
<1>1. Inv => GrantedOnce
    BY DEF Inv, TypeOK, WorldTypes, GrantTypes, KeysMatchGrants, GrantedOnce, OrderTypes
<1> QED
    BY <1>1, Invariance, PTL

\* The inviter's rebate is accrued at most once per order.
THEOREM ShareOnce == Spec => []RebateOnce
<1>1. Inv => RebateOnce
    BY DEF Inv, KeysMatchGrants, RebateOnce
<1> QED
    BY <1>1, Invariance, PTL

\* A COMPLETED order was granted and its rebate decided.
THEOREM CompletionIsEarned == Spec => []CompletedMeansGranted
<1>1. Inv => CompletedMeansGranted
    BY DEF Inv
<1> QED
    BY <1>1, Invariance, PTL

\* Grants follow matching payments and are never shown as unpaid.
THEOREM GrantIsPaid == Spec => []GrantedMeansPaid
<1>1. Inv => GrantedMeansPaid
    BY DEF Inv
<1> QED
    BY <1>1, Invariance, PTL

-----------------------------------------------------------------------------
(* PaymentOrder implements PaymentPromise.                                 *)

\* A step is invisible to the promise when it keeps the phases, the payments
\* and the grants.
LEMMA Invisible ==
    ASSUME \A o \in Orders : Phase(status'[o], PaidFor(o)') = Phase(status[o], PaidFor(o)),
           \A o \in Orders : PaidFor(o)' = PaidFor(o),
           \A o \in Orders : (creating'[o] # "done") = (creating[o] # "done"),
           granted' = granted, rebates' = rebates
    PROVE  UNCHANGED Promise!vars
<1>1. [o \in Orders |-> Phase(status[o], PaidFor(o))]' =
        [o \in Orders |-> Phase(status[o], PaidFor(o))]
    OBVIOUS
<1>2. [o \in Orders |-> PaidFor(o)]' = [o \in Orders |-> PaidFor(o)]
    OBVIOUS
<1>3. [o \in Orders |-> creating[o] # "done"]' = [o \in Orders |-> creating[o] # "done"]
    OBVIOUS
<1> QED
    BY <1>1, <1>2, <1>3 DEF Promise!vars

\* Every step of the code is a step of the promise, or invisible to it.
LEMMA Simulation ==
    ASSUME Inv, [Next]_vars
    PROVE  Promise!Next \/ UNCHANGED Promise!vars
<1>a. RowTypes /\ ThreadTypes /\ GrantTypes /\ WorldTypes
    BY DEF Inv, TypeOK
<1>b. /\ KeysMatchGrants /\ OwedMeansPaid /\ CompletedMeansGranted /\ GrantedMeansPaid
      /\ WorkersAreRight /\ ClaimIsExclusive /\ CreationFirst
    BY DEF Inv
<1> DEFINE Good == Promise!Next \/ UNCHANGED Promise!vars
<1>c. ASSUME UNCHANGED <<status, provider, creating, granted, rebates>> PROVE Good
    BY <1>c, Invisible DEF PaidFor
<1>d. ASSUME NEW o \in Orders, NEW s \in Statuses, status' = [status EXCEPT ![o] = s],
             Phase(s, PaidFor(o)) = Phase(status[o], PaidFor(o)),
             UNCHANGED <<provider, creating, granted, rebates>>
      PROVE  Good
  <2>1. \A q \in Orders : PaidFor(q)' = PaidFor(q)
      BY <1>d DEF PaidFor
  <2>2. \A q \in Orders : Phase(status'[q], PaidFor(q)') = Phase(status[q], PaidFor(q))
      BY <1>a, <1>d, <2>1 DEF RowTypes
  <2> QED
      BY <1>d, <2>1, <2>2, Invisible
\* A worker that has confirmed the payment works on a paid order.
<1>e. ASSUME NEW w \in Workers, pc[w] \in Confident PROVE PaidFor(job[w].order)
    BY <1>b, <1>e DEF WorkersAreRight, WorkerIsRight
\* A creation that ends and leaves the rest alone is one that ends well.
<1>f. ASSUME NEW o \in Orders, creating[o] # "done",
             creating' = [creating EXCEPT ![o] = "done"],
             \A q \in Orders : Phase(status'[q], PaidFor(q)') = Phase(status[q], PaidFor(q)),
             \A q \in Orders : PaidFor(q)' = PaidFor(q),
             UNCHANGED <<granted, rebates>>
      PROVE  Good
  <2>1. [q \in Orders |-> creating[q] # "done"]' =
          [[q \in Orders |-> creating[q] # "done"] EXCEPT ![o] = FALSE]
      BY <1>a, <1>f DEF WorldTypes
  <2>2. [q \in Orders |-> Phase(status[q], PaidFor(q))]' =
          [q \in Orders |-> Phase(status[q], PaidFor(q))]
      BY <1>f
  <2>3. [q \in Orders |-> PaidFor(q)]' = [q \in Orders |-> PaidFor(q)]
      BY <1>f
  <2>4. Promise!EndCreation(o)
      BY <1>f, <2>1, <2>2, <2>3 DEF Promise!EndCreation
  <2> QED
      BY <2>4 DEF Promise!Next
<1>1. ASSUME NEW w \in Workers, QueryOrder(w) PROVE Good
    BY <1>1, <1>c DEF QueryOrder, Return, row, grants, payment, world
<1>2. ASSUME NEW w \in Workers, PersistTradeNo(w) PROVE Good
  <2>1. job[w].order \in Orders /\ status[job[w].order] \in Statuses
      BY <1>2, <1>a, JobOrder DEF PersistTradeNo, RowTypes
  <2> QED
      BY <1>2, <1>d, <2>1 DEF PersistTradeNo, SetStatus, grants, payment, world
<1>3. ASSUME NEW w \in Workers, CancelPayment(w) PROVE Good
  <2>1. job[w].order \in Orders
      BY <1>3, <1>a, JobOrder DEF CancelPayment
  <2>2. \A o \in Orders : PaidFor(o)' = PaidFor(o)
      BY <1>3, <1>a, <2>1 DEF CancelPayment, WorldTypes, PaidFor
  <2>3. UNCHANGED <<status, creating, granted, rebates>>
      BY <1>3 DEF CancelPayment, row, grants
  <2> QED
      BY <2>2, <2>3, Invisible
<1>4. ASSUME NEW w \in Workers, CancelCore(w) PROVE Good
  <2>1. job[w].order \in Orders
      BY <1>4, <1>a, JobOrder DEF CancelCore
  <2>2. CASE MayCancel(job[w].order)
    <3>1. \A s \in {"EXPIRED", "CANCELLED"} :
            /\ s \in Statuses
            /\ Phase(s, PaidFor(job[w].order)) =
                Phase(status[job[w].order], PaidFor(job[w].order))
        BY <2>2 DEF MayCancel, Phase, Statuses, Unpaid, Owed, Settled
    <3> QED
        BY <1>4, <1>d, <2>1, <2>2, <3>1
           DEF CancelCore, CancelTarget, SetStatus, grants, payment, world
  <2>3. CASE ~MayCancel(job[w].order)
      BY <1>4, <1>c, <2>3 DEF CancelCore, Return, grants, payment, world
  <2> QED
      BY <2>2, <2>3
<1>5. ASSUME NEW w \in Workers, ToPaid(w) PROVE Good
  <2> DEFINE o == job[w].order
  <2>1. o \in Orders
      BY <1>5, <1>a, JobOrder DEF ToPaid
  <2>2. CASE Confirmed(o) /\ Payable(o)
    <3>1. /\ status' = [status EXCEPT ![o] = "PAID"]
          /\ UNCHANGED <<provider, creating, granted, rebates>>
        BY <1>5, <2>2 DEF ToPaid, SetStatus, grants, payment, world
    <3>2. PaidFor(o) /\ Phase("PAID", TRUE) = "owed" /\ Phase(status[o], TRUE) = "unpaid"
        BY <2>2 DEF Phase, PaidFor, Payable, Confirmed, Unpaid, Owed, Settled
    <3>3. [q \in Orders |-> Phase(status[q], PaidFor(q))]' =
            [[q \in Orders |-> Phase(status[q], PaidFor(q))] EXCEPT ![o] = "owed"]
        BY <1>a, <2>1, <3>1, <3>2 DEF RowTypes, PaidFor
    <3>4. Promise!Accept(o)
        BY <2>1, <3>1, <3>2, <3>3 DEF Promise!Accept, PaidFor
    <3> QED
        BY <2>1, <3>4 DEF Promise!Next
  <2>3. CASE ~(Confirmed(o) /\ Payable(o))
      BY <1>5, <1>c, <2>3 DEF ToPaid, Return, row, grants, payment, world
  <2> QED
      BY <2>2, <2>3
<1>6. ASSUME NEW w \in Workers, AlreadyProcessed(w) PROVE Good
    BY <1>6, <1>c DEF AlreadyProcessed, Return, row, grants, payment, world
<1>7. ASSUME NEW w \in Workers, ExecuteFulfillment(w) PROVE Good
    BY <1>7, <1>c DEF ExecuteFulfillment, Return, row, grants, payment, world
<1>8. ASSUME NEW w \in Workers, AcquireLease(w) PROVE Good
  <2>1. job[w].order \in Orders
      BY <1>8, <1>a, JobOrder DEF AcquireLease
  <2>2. CASE LeaseFree(job[w].order)
    <3>0. PaidFor(job[w].order)
        BY <1>8, <1>e DEF AcquireLease, Confident
    <3>1. /\ "RECHARGING" \in Statuses
          /\ Phase("RECHARGING", PaidFor(job[w].order)) =
                Phase(status[job[w].order], PaidFor(job[w].order))
        BY <2>2, <3>0 DEF LeaseFree, Phase, Statuses, Unpaid, Owed, Settled
    <3> QED
        BY <1>8, <1>d, <2>1, <2>2, <3>1 DEF AcquireLease, SetStatus, grants, payment, world
  <2>3. CASE ~LeaseFree(job[w].order)
      BY <1>8, <1>c, <2>3 DEF AcquireLease, row, grants, payment, world
  <2> QED
      BY <2>2, <2>3
<1>9. ASSUME NEW w \in Workers, LeaseContended(w) PROVE Good
    BY <1>9, <1>c DEF LeaseContended, Return, row, grants, payment, world
<1>10. ASSUME NEW w \in Workers, ReloadLease(w) PROVE Good
    BY <1>10, <1>c DEF ReloadLease, Return, row, grants, payment, world
<1>11. ASSUME NEW w \in Workers, LookupCode(w) PROVE Good
    BY <1>11, <1>c DEF LookupCode, Return, row, grants, payment, world
<1>12. ASSUME NEW w \in Workers, CreateCode(w) PROVE Good
    BY <1>12, <1>c DEF CreateCode, Return, row, grants, payment, world
<1>13. ASSUME NEW w \in Workers, Redeem(w) PROVE Good
  <2> DEFINE o == job[w].order
  <2>1. o \in Orders
      BY <1>13, <1>a, JobOrder DEF Redeem
  <2>2. UNCHANGED <<status, provider, creating, rebates>>
      BY <1>13 DEF Redeem, row, payment, world
  <2>3. CASE granted' = granted
      BY <1>c, <2>2, <2>3
  <2>4. CASE granted' # granted
    <3>1. granted' = [granted EXCEPT ![o] = granted[o] + 1] /\ granted[o] = 0
        BY <1>13, <1>a, <1>b, <2>1, <2>4
           DEF Redeem, CanUse, KeysMatchGrants, WorkersAreRight, WorkerIsRight, GrantTypes
    <3>2. status[o] \in Started /\ status[o] \notin Settled
        BY <1>13, <1>b, <2>1, <3>1
           DEF Redeem, WorkersAreRight, WorkerIsRight, Fulfilling, CompletedMeansGranted
    <3>3. PaidFor(o) /\ Phase(status[o], PaidFor(o)) = "owed"
        BY <1>13, <1>e, <3>2
           DEF Redeem, Confident, Fulfilling, Phase, Started, Unpaid, Owed
    <3>4. Promise!Grant(o)
        BY <2>1, <2>2, <3>1, <3>3 DEF Promise!Grant, PaidFor
    <3> QED
        BY <2>1, <3>4 DEF Promise!Next
  <2> QED
      BY <2>3, <2>4
<1>14. ASSUME NEW w \in Workers, CheckAssigned(w) PROVE Good
    BY <1>14, <1>c DEF CheckAssigned, Return, row, grants, payment, world
<1>15. ASSUME NEW w \in Workers, AssignSubscription(w) PROVE Good
  <2> DEFINE o == job[w].order
  <2>1. o \in Orders
      BY <1>15, <1>a, JobOrder DEF AssignSubscription
  <2>2. UNCHANGED <<status, provider, creating, rebates>>
      BY <1>15 DEF AssignSubscription, row, payment, world
  <2>3. CASE granted' = granted
      BY <1>c, <2>2, <2>3
  <2>4. CASE granted' # granted
    <3>1. granted' = [granted EXCEPT ![o] = granted[o] + 1] /\ granted[o] = 0
        BY <1>15, <1>a, <1>b, <2>1, <2>4
           DEF AssignSubscription, HasAssignmentAudit, KeysMatchGrants, WorkersAreRight,
               WorkerIsRight, GrantTypes
    <3>2. status[o] \in Started /\ status[o] \notin Settled
        BY <1>15, <1>b, <2>1, <3>1
           DEF AssignSubscription, WorkersAreRight, WorkerIsRight, Fulfilling,
               CompletedMeansGranted
    <3>3. PaidFor(o) /\ Phase(status[o], PaidFor(o)) = "owed"
        BY <1>15, <1>e, <3>2
           DEF AssignSubscription, Confident, Fulfilling, Phase, Started, Unpaid, Owed
    <3>4. Promise!Grant(o)
        BY <2>1, <2>2, <3>1, <3>3 DEF Promise!Grant, PaidFor
    <3> QED
        BY <2>1, <3>4 DEF Promise!Next
  <2> QED
      BY <2>3, <2>4
<1>16. ASSUME NEW w \in Workers, CheckRebate(w) PROVE Good
    BY <1>16, <1>c DEF CheckRebate, Return, row, grants, payment, world
<1>17. ASSUME NEW w \in Workers, ClaimRebate(w) PROVE Good
    BY <1>17, <1>c DEF ClaimRebate, Return, row, grants, payment, world
<1>18. ASSUME NEW w \in Workers, SettleRebate(w) PROVE Good
  <2> DEFINE o == job[w].order
  <2>1. o \in Orders
      BY <1>18, <1>a, JobOrder DEF SettleRebate
  <2>2. UNCHANGED <<status, provider, creating, granted>>
      BY <1>18 DEF SettleRebate, row, payment, world
  <2>3. CASE rebates' = [rebates EXCEPT ![o] = @ + 1]
    <3>1. granted[o] = 1 /\ rebates[o] = 0
        BY <1>18, <1>b, <2>1
           DEF SettleRebate, WorkersAreRight, WorkerIsRight, KeysMatchGrants,
               ClaimIsExclusive
    <3>2. Promise!Share(o)
        BY <2>2, <2>3, <3>1 DEF Promise!Share, PaidFor
    <3> QED
        BY <2>1, <3>2 DEF Promise!Next
  <2>4. CASE rebates' = rebates
      BY <1>c, <2>2, <2>4
  <2> QED
      BY <1>18, <2>3, <2>4 DEF SettleRebate
<1>19. ASSUME NEW w \in Workers, MarkCompleted(w) PROVE Good
  <2> DEFINE o == job[w].order
  <2>1. o \in Orders
      BY <1>19, <1>a, JobOrder DEF MarkCompleted
  <2>2. CASE HoldsLease(w)
    <3>1. /\ status' = [status EXCEPT ![o] = "COMPLETED"]
          /\ UNCHANGED <<provider, creating, granted, rebates>>
        BY <1>19, <2>2 DEF MarkCompleted, SetStatus, grants, payment, world
    <3>2. PaidFor(o) /\ Phase("COMPLETED", TRUE) = "settled" /\ Phase(status[o], TRUE) = "owed"
        BY <1>19, <1>e, <2>2
           DEF MarkCompleted, Confident, Fulfilling, Phase, HoldsLease, Unpaid, Owed, Settled
    <3>3. granted[o] = 1
        BY <1>19, <1>b DEF MarkCompleted, WorkersAreRight, WorkerIsRight
    <3>4. [q \in Orders |-> Phase(status[q], PaidFor(q))]' =
            [[q \in Orders |-> Phase(status[q], PaidFor(q))] EXCEPT ![o] = "settled"]
        BY <1>a, <2>1, <3>1, <3>2 DEF RowTypes, PaidFor
    <3>5. Promise!Settle(o)
        BY <2>1, <3>1, <3>2, <3>3, <3>4 DEF Promise!Settle, PaidFor
    <3> QED
        BY <2>1, <3>5 DEF Promise!Next
  <2>3. CASE ~HoldsLease(w)
      BY <1>19, <1>c, <2>3 DEF MarkCompleted, row, grants, payment, world
  <2> QED
      BY <2>2, <2>3
<1>20. ASSUME NEW w \in Workers, LeaseLost(w) PROVE Good
    BY <1>20, <1>c DEF LeaseLost, Return, row, grants, payment, world
<1>21. ASSUME NEW w \in Workers, MarkFailed(w) PROVE Good
  <2>1. job[w].order \in Orders
      BY <1>21, <1>a, JobOrder DEF MarkFailed
  <2>2. CASE HoldsLease(w)
    <3>0. PaidFor(job[w].order)
        BY <1>21, <1>e DEF MarkFailed, Confident, Fulfilling
    <3>1. /\ "FAILED" \in Statuses
          /\ Phase("FAILED", PaidFor(job[w].order)) =
                Phase(status[job[w].order], PaidFor(job[w].order))
        BY <2>2, <3>0 DEF HoldsLease, Phase, Statuses, Unpaid, Owed, Settled
    <3> QED
        BY <1>21, <1>d, <2>1, <2>2, <3>1 DEF MarkFailed, SetStatus, grants, payment, world
  <2>3. CASE ~HoldsLease(w)
      BY <1>21, <1>c, <2>3 DEF MarkFailed, Return, grants, payment, world
  <2> QED
      BY <2>2, <2>3
<1>22. ASSUME NEW w \in Workers, StatementFails(w) PROVE Good
    BY <1>22, <1>c DEF StatementFails, Return, row, grants, payment, world
<1>23. ASSUME NEW w \in Workers, SwallowedRead(w) PROVE Good
    BY <1>23, <1>c DEF SwallowedRead, Return, row, grants, payment, world
<1>24. ASSUME NEW w \in Workers, Crash(w) PROVE Good
    BY <1>24, <1>c DEF Crash, Return, row, grants, payment, world
<1>25. ASSUME NEW w \in Workers, NEW o \in Orders, HandleNotify(w, o) PROVE Good
    BY <1>25, <1>c DEF HandleNotify, Begin, row, grants, payment, world
<1>26. ASSUME NEW w \in Workers, NEW o \in Orders, RetryFulfillment(w, o) PROVE Good
    BY <1>26, <1>c DEF RetryFulfillment, Begin, row, grants, payment, world
<1>27. ASSUME NEW w \in Workers, NEW o \in Orders, StartCheck(w, o) PROVE Good
    BY <1>27, <1>c DEF StartCheck, Begin, row, grants, payment, world
<1>28. ASSUME NEW o \in Orders, CustomerPays(o) PROVE Good
  <2>1. UNCHANGED <<status, creating, granted, rebates>>
      BY <1>28 DEF CustomerPays, row, grants
  <2>2. CASE provider' = [provider EXCEPT ![o] = "paid"]
    <3>1. [q \in Orders |-> PaidFor(q)]' = [[q \in Orders |-> PaidFor(q)] EXCEPT ![o] = TRUE]
        BY <1>28, <1>a, <2>2 DEF WorldTypes, PaidFor
    <3>2. ~PaidFor(o) /\ Phase(status[o], PaidFor(o)) = "unpaid"
        BY <1>28 DEF CustomerPays, PaidFor, Phase
    <3>3. Phase(status[o], TRUE) \in {"unpaid", "owed"}
        BY <1>28, <1>a, <1>b, <3>2
           DEF OwedMeansPaid, Claimed, Phase, RowTypes, Statuses, Unpaid, Owed, Settled
    <3>4. [q \in Orders |-> Phase(status[q], PaidFor(q))]' =
            [[q \in Orders |-> Phase(status[q], PaidFor(q))] EXCEPT
                ![o] = Phase(status[o], TRUE)]
        BY <1>28, <1>a, <2>1, <2>2 DEF WorldTypes, PaidFor
    <3>5. Promise!Receive(o)
        BY <1>28, <2>1, <3>1, <3>2, <3>3, <3>4 DEF Promise!Receive
    <3> QED
        BY <1>28, <3>5 DEF Promise!Next
  <2>3. CASE provider' = [provider EXCEPT ![o] = "mispaid"]
    <3>1. \A q \in Orders : PaidFor(q)' = PaidFor(q)
        BY <1>28, <1>a, <2>3 DEF CustomerPays, WorldTypes, PaidFor
    <3> QED
        BY <2>1, <3>1, Invisible
  <2> QED
      BY <1>28, <2>2, <2>3 DEF CustomerPays
<1>29. ASSUME NEW o \in Orders, Age(o) PROVE Good
    BY <1>29, <1>c DEF Age, row, grants, payment, world
<1>30. ASSUME NEW o \in Orders, Stall(o) PROVE Good
    BY <1>30, <1>c DEF Stall, row, grants, payment, world
<1>31. ASSUME NEW o \in Orders, PassDeadline(o) PROVE Good
    BY <1>31, <1>c DEF PassDeadline, row, grants, payment, world
<1>32. ASSUME NEW o \in Orders, RequestRefund(o) PROVE Good
  <2>1. /\ "REFUND_REQUESTED" \in Statuses
        /\ Phase("REFUND_REQUESTED", PaidFor(o)) = Phase(status[o], PaidFor(o))
      BY <1>32 DEF RequestRefund, Phase, Statuses, Unpaid, Owed, Settled
  <2> QED
      BY <1>32, <1>d, <2>1 DEF RequestRefund, SetStatus, grants, payment, world
<1>33. CASE UNCHANGED vars
    BY <1>c, <1>33 DEF vars, row, grants, payment, world
<1>34. ASSUME NEW o \in Orders, InvokeProvider(o) PROVE Good
  <2>1. status' = status /\ UNCHANGED <<granted, rebates>>
      BY <1>34, <1>a DEF InvokeProvider, SetStatus, row, grants, RowTypes
  <2>2. \A q \in Orders : PaidFor(q)' = PaidFor(q)
      BY <1>34, <1>a, <1>b DEF InvokeProvider, CreationFirst, WorldTypes, PaidFor
  <2>3. CASE creating' = [creating EXCEPT ![o] = "undo"]
    <3>1. \A q \in Orders : (creating'[q] # "done") = (creating[q] # "done")
        BY <1>34, <1>a, <2>3 DEF InvokeProvider, WorldTypes
    <3> QED
        BY <2>1, <2>2, <3>1, Invisible
  <2>4. CASE creating' = [creating EXCEPT ![o] = "done"]
      BY <1>34, <1>f, <2>1, <2>2, <2>4 DEF InvokeProvider
  <2> QED
      BY <1>34, <2>3, <2>4 DEF InvokeProvider
<1>35. ASSUME NEW o \in Orders, FailCreation(o) PROVE Good
  <2>1. /\ status' = [status EXCEPT ![o] = "FAILED"]
        /\ creating' = [creating EXCEPT ![o] = "done"]
        /\ UNCHANGED <<provider, granted, rebates>>
      BY <1>35 DEF FailCreation, SetStatus, grants
  <2>2. \A q \in Orders : PaidFor(q)' = PaidFor(q)
      BY <2>1 DEF PaidFor
  <2>3. CASE ~PaidFor(o)
    <3>1. Phase(status[o], PaidFor(o)) = "unpaid" /\ Phase("FAILED", PaidFor(o)) = "unpaid"
        BY <2>3 DEF Phase
    <3>2. \A q \in Orders : Phase(status'[q], PaidFor(q)') = Phase(status[q], PaidFor(q))
        BY <1>a, <2>1, <2>2, <3>1 DEF RowTypes
    <3> QED
        BY <1>35, <1>f, <2>1, <2>2, <3>2 DEF FailCreation
  <2>4. CASE PaidFor(o)
    <3>1. Phase("FAILED", TRUE) = "owed"
        BY DEF Phase, Unpaid, Owed, Settled
    <3>2. [q \in Orders |-> Phase(status[q], PaidFor(q))]' =
            [[q \in Orders |-> Phase(status[q], PaidFor(q))] EXCEPT ![o] = "owed"]
        BY <1>a, <2>1, <2>2, <2>4, <3>1 DEF RowTypes
    <3>3. [q \in Orders |-> creating[q] # "done"]' =
            [[q \in Orders |-> creating[q] # "done"] EXCEPT ![o] = FALSE]
        BY <1>a, <2>1 DEF WorldTypes
    <3>4. [q \in Orders |-> PaidFor(q)]' = [q \in Orders |-> PaidFor(q)]
        BY <2>2
    <3>5. Promise!EndCreation(o)
        BY <1>35, <2>1, <2>4, <3>2, <3>3, <3>4 DEF FailCreation, Promise!EndCreation
    <3> QED
        BY <3>5 DEF Promise!Next
  <2> QED
      BY <2>3, <2>4
<1>36. ASSUME NEW o \in Orders, AbandonCreation(o) PROVE Good
  <2>1. UNCHANGED <<status, provider, granted, rebates>>
      BY <1>36 DEF AbandonCreation, row, grants
  <2> QED
      BY <1>36, <1>f, <2>1 DEF AbandonCreation, PaidFor
<1> QED
    BY <1>1, <1>2, <1>3, <1>4, <1>5, <1>6, <1>7, <1>8, <1>9, <1>10, <1>11, <1>12, <1>13,
       <1>14, <1>15, <1>16, <1>17, <1>18, <1>19, <1>20, <1>21, <1>22, <1>23, <1>24, <1>25,
       <1>26, <1>27, <1>28, <1>29, <1>30, <1>31, <1>32, <1>33, <1>34, <1>35, <1>36
       DEF Next, Step, Start, Failure, Creation, Surroundings

\* Initial orders are initial orders of the promise.
LEMMA PromiseInit == Init => Promise!Init
<1> SUFFICES ASSUME Init PROVE Promise!Init
    OBVIOUS
<1>1. PICK legacy \in SUBSET {o \in Orders : kind[o] = "subscription"} :
        /\ status = [o \in Orders |-> IF o \in legacy THEN "FAILED" ELSE "PENDING"]
        /\ note = [o \in Orders |-> o \in legacy]
        /\ granted = [o \in Orders |-> IF o \in legacy THEN 1 ELSE 0]
        /\ provider = [o \in Orders |-> IF o \in legacy THEN "paid" ELSE "none"]
        /\ creating = [o \in Orders |-> IF o \in legacy THEN "done" ELSE "invoke"]
        /\ tradeNo = [o \in Orders |-> o \in legacy]
        /\ paidAt = [o \in Orders |-> o \in legacy]
    BY DEF Init
<1>2. legacy \in SUBSET Orders
    BY <1>1
<1>3. Phase("FAILED", TRUE) = "owed" /\ Phase("PENDING", FALSE) = "unpaid"
    BY DEF Phase, Unpaid, Owed, Settled
<1>4. [o \in Orders |-> Phase(status[o], PaidFor(o))] =
        [o \in Orders |-> IF o \in legacy THEN "owed" ELSE "unpaid"]
    BY <1>1, <1>3 DEF PaidFor
<1>5. [o \in Orders |-> PaidFor(o)] = [o \in Orders |-> o \in legacy]
    BY <1>1 DEF PaidFor
<1>7. [o \in Orders |-> creating[o] # "done"] = [o \in Orders |-> o \notin legacy]
    BY <1>1
<1>6. rebates = [o \in Orders |-> 0]
    BY DEF Init
<1> QED
    BY <1>1, <1>2, <1>4, <1>5, <1>6, <1>7 DEF Promise!Init

\* Statement by statement, the code keeps the abstract promise.
THEOREM Refinement == Spec => KeepsPromise
<1>1. Inv /\ [Next]_vars => [Promise!Next]_(Promise!vars)
    BY Simulation
<1> QED
    BY <1>1, PromiseInit, Invariance, PTL DEF Spec, KeepsPromise, Promise!Spec

\* Every write of the status but the one of a failed creation goes forward.
LEMMA StatusForward ==
    ASSUME Inv, [Next]_vars
    PROVE  \A o \in Orders :
              \/ Rank(status'[o]) >= Rank(status[o])
              \/ creating[o] = "undo" /\ status'[o] = "FAILED"
<1>a. RowTypes /\ ThreadTypes
    BY DEF Inv, TypeOK
<1>b. \A s \in Statuses : Rank(s) \in 0..2
    BY DEF Rank, Statuses, Unpaid, Owed, Settled
<1> DEFINE Good == \A q \in Orders : \/ Rank(status'[q]) >= Rank(status[q])
                                     \/ creating[q] = "undo" /\ status'[q] = "FAILED"
<1>c. ASSUME status' = status PROVE Good
    BY <1>a, <1>b, <1>c DEF RowTypes
<1>d. ASSUME NEW o \in Orders, NEW s \in Statuses, status' = [status EXCEPT ![o] = s],
             Rank(s) >= Rank(status[o])
      PROVE  Good
    BY <1>a, <1>b, <1>d DEF RowTypes
<1>e. /\ \A s \in Unpaid : Rank(s) = 0 /\ s \in Statuses
      /\ \A s \in Owed : Rank(s) = 1 /\ s \in Statuses
      /\ \A s \in Settled : Rank(s) = 2 /\ s \in Statuses
    BY DEF Rank, Statuses, Unpaid, Owed, Settled
<1>1. ASSUME NEW w \in Workers, QueryOrder(w) PROVE Good
    BY <1>1, <1>c DEF QueryOrder, Return, row
<1>2. ASSUME NEW w \in Workers, PersistTradeNo(w) PROVE Good
  <2>1. status' = status
      BY <1>2, <1>a, JobOrder DEF PersistTradeNo, SetStatus, RowTypes, row
  <2> QED
      BY <1>c, <2>1
<1>3. ASSUME NEW w \in Workers, CancelPayment(w) PROVE Good
    BY <1>3, <1>c DEF CancelPayment, Return, row
<1>4. ASSUME NEW w \in Workers, CancelCore(w) PROVE Good
  <2> DEFINE o == job[w].order
  <2>1. o \in Orders
      BY <1>4, <1>a, JobOrder DEF CancelCore
  <2>2. CASE MayCancel(o)
    <3>1. status' = [status EXCEPT ![o] = CancelTarget(job[w].op)]
        BY <1>4, <2>2 DEF CancelCore, SetStatus
    <3>2. status[o] \in Unpaid /\ CancelTarget(job[w].op) \in Unpaid
        BY <2>2
           DEF MayCancel, CancelTarget, Unpaid, Owed, Settled <3>3. CancelTarget(job[w].op)
               \in Statuses /\ Rank(CancelTarget(job[w].op)) >= Rank(status[o])
        BY <1>e, <3>2
    <3> QED
        BY <1>d, <2>1, <3>1, <3>3
  <2>3. CASE ~(MayCancel(o))
      BY <1>4, <1>c, <2>3 DEF CancelCore, Return, row
  <2> QED
      BY <2>2, <2>3
<1>5. ASSUME NEW w \in Workers, ToPaid(w) PROVE Good
  <2> DEFINE o == job[w].order
  <2>1. o \in Orders
      BY <1>5, <1>a, JobOrder DEF ToPaid
  <2>2. CASE Confirmed(o) /\ Payable(o)
    <3>1. status' = [status EXCEPT ![o] = "PAID"]
        BY <1>5, <2>2 DEF ToPaid, SetStatus
    <3>2. status[o] \in Unpaid /\ "PAID" \in Owed
        BY <2>2 DEF Payable, Unpaid, Owed, Settled
    <3>3. "PAID" \in Statuses /\ Rank("PAID") >= Rank(status[o])
        BY <1>e, <3>2
    <3> QED
        BY <1>d, <2>1, <3>1, <3>3
  <2>3. CASE ~(Confirmed(o) /\ Payable(o))
      BY <1>5, <1>c, <2>3 DEF ToPaid, Return, row
  <2> QED
      BY <2>2, <2>3
<1>6. ASSUME NEW w \in Workers, AlreadyProcessed(w) PROVE Good
    BY <1>6, <1>c DEF AlreadyProcessed, Return, row
<1>7. ASSUME NEW w \in Workers, ExecuteFulfillment(w) PROVE Good
    BY <1>7, <1>c DEF ExecuteFulfillment, Return, row
<1>8. ASSUME NEW w \in Workers, AcquireLease(w) PROVE Good
  <2> DEFINE o == job[w].order
  <2>1. o \in Orders
      BY <1>8, <1>a, JobOrder DEF AcquireLease
  <2>2. CASE LeaseFree(o)
    <3>1. status' = [status EXCEPT ![o] = "RECHARGING"]
        BY <1>8, <2>2 DEF AcquireLease, SetStatus
    <3>2. status[o] \in Owed /\ "RECHARGING" \in Owed
        BY <2>2 DEF LeaseFree, Unpaid, Owed, Settled
    <3>3. "RECHARGING" \in Statuses /\ Rank("RECHARGING") >= Rank(status[o])
        BY <1>e, <3>2
    <3> QED
        BY <1>d, <2>1, <3>1, <3>3
  <2>3. CASE ~(LeaseFree(o))
      BY <1>8, <1>c, <2>3 DEF AcquireLease, Return, row
  <2> QED
      BY <2>2, <2>3
<1>9. ASSUME NEW w \in Workers, LeaseContended(w) PROVE Good
    BY <1>9, <1>c DEF LeaseContended, Return, row
<1>10. ASSUME NEW w \in Workers, ReloadLease(w) PROVE Good
    BY <1>10, <1>c DEF ReloadLease, Return, row
<1>11. ASSUME NEW w \in Workers, LookupCode(w) PROVE Good
    BY <1>11, <1>c DEF LookupCode, Return, row
<1>12. ASSUME NEW w \in Workers, CreateCode(w) PROVE Good
    BY <1>12, <1>c DEF CreateCode, Return, row
<1>13. ASSUME NEW w \in Workers, Redeem(w) PROVE Good
    BY <1>13, <1>c DEF Redeem, Return, row
<1>14. ASSUME NEW w \in Workers, CheckAssigned(w) PROVE Good
    BY <1>14, <1>c DEF CheckAssigned, Return, row
<1>15. ASSUME NEW w \in Workers, AssignSubscription(w) PROVE Good
    BY <1>15, <1>c DEF AssignSubscription, Return, row
<1>16. ASSUME NEW w \in Workers, CheckRebate(w) PROVE Good
    BY <1>16, <1>c DEF CheckRebate, Return, row
<1>17. ASSUME NEW w \in Workers, ClaimRebate(w) PROVE Good
    BY <1>17, <1>c DEF ClaimRebate, Return, row
<1>18. ASSUME NEW w \in Workers, SettleRebate(w) PROVE Good
    BY <1>18, <1>c DEF SettleRebate, Return, row
<1>19. ASSUME NEW w \in Workers, MarkCompleted(w) PROVE Good
  <2> DEFINE o == job[w].order
  <2>1. o \in Orders
      BY <1>19, <1>a, JobOrder DEF MarkCompleted
  <2>2. CASE HoldsLease(w)
    <3>1. status' = [status EXCEPT ![o] = "COMPLETED"]
        BY <1>19, <2>2 DEF MarkCompleted, SetStatus
    <3>2. status[o] \in Owed /\ "COMPLETED" \in Settled
        BY <2>2 DEF HoldsLease, Unpaid, Owed, Settled
    <3>3. "COMPLETED" \in Statuses /\ Rank("COMPLETED") >= Rank(status[o])
        BY <1>e, <3>2
    <3> QED
        BY <1>d, <2>1, <3>1, <3>3
  <2>3. CASE ~(HoldsLease(w))
      BY <1>19, <1>c, <2>3 DEF MarkCompleted, Return, row
  <2> QED
      BY <2>2, <2>3
<1>20. ASSUME NEW w \in Workers, LeaseLost(w) PROVE Good
    BY <1>20, <1>c DEF LeaseLost, Return, row
<1>21. ASSUME NEW w \in Workers, MarkFailed(w) PROVE Good
  <2> DEFINE o == job[w].order
  <2>1. o \in Orders
      BY <1>21, <1>a, JobOrder DEF MarkFailed
  <2>2. CASE HoldsLease(w)
    <3>1. status' = [status EXCEPT ![o] = "FAILED"]
        BY <1>21, <2>2 DEF MarkFailed, SetStatus
    <3>2. status[o] \in Owed /\ "FAILED" \in Owed
        BY <2>2 DEF HoldsLease, Unpaid, Owed, Settled
    <3>3. "FAILED" \in Statuses /\ Rank("FAILED") >= Rank(status[o])
        BY <1>e, <3>2
    <3> QED
        BY <1>d, <2>1, <3>1, <3>3
  <2>3. CASE ~(HoldsLease(w))
      BY <1>21, <1>c, <2>3 DEF MarkFailed, Return, row
  <2> QED
      BY <2>2, <2>3
<1>22. ASSUME NEW w \in Workers, StatementFails(w) PROVE Good
    BY <1>22, <1>c DEF StatementFails, Return, row
<1>23. ASSUME NEW w \in Workers, SwallowedRead(w) PROVE Good
    BY <1>23, <1>c DEF SwallowedRead, Return, row
<1>24. ASSUME NEW w \in Workers, Crash(w) PROVE Good
    BY <1>24, <1>c DEF Crash, Return, row
<1>25. ASSUME NEW w \in Workers, NEW o \in Orders, HandleNotify(w, o) PROVE Good
    BY <1>25, <1>c DEF HandleNotify, Begin, row
<1>26. ASSUME NEW w \in Workers, NEW o \in Orders, RetryFulfillment(w, o) PROVE Good
    BY <1>26, <1>c DEF RetryFulfillment, Begin, row
<1>27. ASSUME NEW w \in Workers, NEW o \in Orders, StartCheck(w, o) PROVE Good
    BY <1>27, <1>c DEF StartCheck, Begin, row
<1>28. ASSUME NEW o \in Orders, CustomerPays(o) PROVE Good
    BY <1>28, <1>c DEF CustomerPays, Return, row
<1>29. ASSUME NEW o \in Orders, Age(o) PROVE Good
    BY <1>29, <1>c DEF Age, Return, row
<1>30. ASSUME NEW o \in Orders, Stall(o) PROVE Good
    BY <1>30, <1>c DEF Stall, Return, row
<1>31. ASSUME NEW o \in Orders, PassDeadline(o) PROVE Good
    BY <1>31, <1>c DEF PassDeadline, Return, row
<1>32. ASSUME NEW o \in Orders, RequestRefund(o) PROVE Good
  <2>1. status[o] \in Settled /\ "REFUND_REQUESTED" \in Settled
      BY <1>32 DEF RequestRefund, Settled
  <2>2. "REFUND_REQUESTED" \in Statuses /\ Rank("REFUND_REQUESTED") >= Rank(status[o])
      BY <1>e, <2>1
  <2> QED
      BY <1>32, <1>d, <2>2 DEF RequestRefund, SetStatus
<1>33. ASSUME NEW o \in Orders, InvokeProvider(o) PROVE Good
  <2>1. status' = status
      BY <1>33, <1>a, JobOrder DEF InvokeProvider, SetStatus, RowTypes, row
  <2> QED
      BY <1>c, <2>1
<1>34. ASSUME NEW o \in Orders, FailCreation(o) PROVE Good
    BY <1>34, <1>a, <1>b DEF FailCreation, SetStatus, RowTypes
<1>35. ASSUME NEW o \in Orders, AbandonCreation(o) PROVE Good
    BY <1>35, <1>c DEF AbandonCreation, Return, row
<1>36. CASE UNCHANGED vars
    BY <1>c, <1>36 DEF vars, row
<1> QED
    BY <1>1, <1>2, <1>3, <1>4, <1>5, <1>6, <1>7, <1>8, <1>9, <1>10, <1>11, <1>12, <1>13,
       <1>14, <1>15, <1>16, <1>17, <1>18, <1>19, <1>20, <1>21, <1>22, <1>23, <1>24, <1>25,
       <1>26, <1>27, <1>28, <1>29, <1>30, <1>31, <1>32, <1>33, <1>34, <1>35, <1>36
       DEF Next, Step, Start, Failure, Creation, Surroundings

\* No step but the FAILED of a creation takes an order back.
THEOREM Forward == Spec => ForwardOnly
<1> DEFINE Fwd == \A o \in Orders :
                    \/ Rank(status'[o]) >= Rank(status[o])
                    \/ creating[o] = "undo" /\ status'[o] = "FAILED"
<1>1. Inv /\ [Next]_vars => Fwd
    BY StatusForward
<1>2. Inv /\ [Next]_vars => [Fwd]_vars
    BY <1>1
<1> QED
    BY <1>2, Invariance, PTL DEF Spec, ForwardOnly

=============================================================================
