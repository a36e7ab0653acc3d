------------------------- MODULE PaymentRefundProofs -------------------------
(***************************************************************************)
(* Proofs about PaymentRefund, for any amount, any number of admin         *)
(* requests and any number of failures.                                    *)
(***************************************************************************)
EXTENDS PaymentRefund, TLAPS

\* Going to the next statement keeps the types of the requests.
LEMMA GotoTypes ==
    ASSUME ThreadTypes, NEW a \in Admins, NEW l \in Labels, Goto(a, l)
    PROVE  ThreadTypes'
BY DEF ThreadTypes, Goto

\* So does the end of a request.
LEMMA ReturnTypes ==
    ASSUME ThreadTypes, NEW a \in Admins, Return(a)
    PROVE  ThreadTypes'
BY AmountAssumption DEF ThreadTypes, Return, Labels, NoPlan, Plan, Statuses, Refundable

\* So does a statement that changes what the plan deducts.
LEMMA DeductTypes ==
    ASSUME ThreadTypes, NEW a \in Admins, NEW l \in Labels, NEW d \in 0 .. Amount,
           plan' = [plan EXCEPT ![a].deduct = d], pc' = [pc EXCEPT ![a] = l]
    PROVE  ThreadTypes'
BY DEF ThreadTypes, Plan

\* So does a statement that writes down a failed rollback.
LEMMA OkTypes ==
    ASSUME ThreadTypes, NEW a \in Admins, NEW l \in Labels,
           plan' = [plan EXCEPT ![a].ok = FALSE], pc' = [pc EXCEPT ![a] = l]
    PROVE  ThreadTypes'
BY DEF ThreadTypes, Plan

\* A deduction never takes more than was asked for, nor more than there is.
LEMMA AvailableRange ==
    ASSUME GoodsTypes, NEW d \in 0 .. Amount
    PROVE  Available(d) \in 0 .. Amount /\ Available(d) <= held /\ Available(d) <= d
BY AmountAssumption DEF GoodsTypes, Available

\* A deduction keeps the types of the goods.
LEMMA TakeTypes ==
    ASSUME GoodsTypes, NEW d \in 0 .. Amount, Take(d)
    PROVE  GoodsTypes'
BY AvailableRange DEF GoodsTypes, Take

\* What a plan deducts is at most what the order granted.
LEMMA PlannedRange ==
    ASSUME GoodsTypes, RowTypes, NEW x \in 0 .. Amount
    PROVE  PlannedDeduction(x) \in 0 .. Amount
BY AmountAssumption, AvailableRange DEF RowTypes, PlannedDeduction

\* The gateway never takes a refund back.
LEMMA GatewayKeeps ==
    ASSUME UpstreamTypes, NEW x \in 0 .. Amount, NEW answer, GatewayActs(x, answer)
    PROVE  /\ UpstreamTypes'
           /\ \A y \in Amounts : upstream[y].paid > 0 => upstream'[y].paid > 0
<1>1. CASE WithinPayment(x) /\ ~Repeated(x)
  <2> DEFINE r == [open |-> IF answer = "pending" THEN upstream[x].open + 1
                            ELSE upstream[x].open,
                   paid |-> IF answer = "refunded" THEN upstream[x].paid + 1
                            ELSE upstream[x].paid,
                   refused |-> (answer = "failed")]
  <2>1. x \in Amounts => upstream' = [upstream EXCEPT ![x] = r]
      BY <1>1 DEF GatewayActs, UpstreamTypes
  <2>2. x \in Amounts => r \in [open : Nat, paid : Nat, refused : BOOLEAN]
      BY DEF UpstreamTypes
  <2>3. x \in Amounts => (upstream[x].paid > 0 => r.paid > 0)
      BY DEF UpstreamTypes
  <2>4. x \notin Amounts => upstream' = upstream
      BY <1>1 DEF GatewayActs, UpstreamTypes
  <2> HIDE DEF r
  <2> QED
      BY <2>1, <2>2, <2>3, <2>4 DEF UpstreamTypes
<1>2. CASE ~(WithinPayment(x) /\ ~Repeated(x))
    BY <1>2 DEF GatewayActs, UpstreamTypes
<1> QED
    BY <1>1, <1>2

\* Nor when it settles one.
LEMMA SettleKeeps ==
    ASSUME UpstreamTypes, GatewaySettles
    PROVE  /\ UpstreamTypes'
           /\ \A y \in Amounts : upstream[y].paid > 0 => upstream'[y].paid > 0
<1>1. PICK x \in Amounts :
        /\ upstream[x].open > 0
        /\ \/ upstream' = [upstream EXCEPT ![x].open = @ - 1, ![x].paid = @ + 1]
           \/ upstream' = [upstream EXCEPT ![x].open = @ - 1, ![x].refused = TRUE]
    BY DEF GatewaySettles
<1> DEFINE p == [open |-> upstream[x].open - 1, paid |-> upstream[x].paid + 1,
                 refused |-> upstream[x].refused]
           q == [open |-> upstream[x].open - 1, paid |-> upstream[x].paid,
                 refused |-> TRUE]
<1>2. upstream' = [upstream EXCEPT ![x] = p] \/ upstream' = [upstream EXCEPT ![x] = q]
    BY <1>1 DEF UpstreamTypes
<1>3. /\ p \in [open : Nat, paid : Nat, refused : BOOLEAN]
      /\ q \in [open : Nat, paid : Nat, refused : BOOLEAN]
    BY <1>1 DEF UpstreamTypes
<1>4. upstream[x].paid > 0 => p.paid > 0 /\ q.paid > 0
    BY <1>1 DEF UpstreamTypes
<1> HIDE DEF p, q
<1> QED
    BY <1>2, <1>3, <1>4 DEF UpstreamTypes

\* An answer "refunded" means that the gateway has paid.
LEMMA AnswerIsTrue ==
    ASSUME UpstreamTypes, NEW x \in Amounts, GatewayActs(x, "refunded")
    PROVE  upstream'[x].paid > 0
<1>1. CASE WithinPayment(x) /\ ~Repeated(x)
    BY <1>1 DEF GatewayActs, UpstreamTypes
<1>2. CASE ~(WithinPayment(x) /\ ~Repeated(x))
  <2>1. UNCHANGED upstream /\ Known(x) = "refunded"
      BY <1>2 DEF GatewayActs, WithoutNewRefund
  <2> QED
      BY <2>1 DEF Known
<1> QED
    BY <1>1, <1>2

\* A guessed refund, or none, keeps the types of the requests.
LEMMA GuessTypes ==
    ASSUME ThreadTypes, NEW a \in Admins, GuessRefund(a), hung \subseteq 0 .. Amount
    PROVE  ThreadTypes' /\ hung' \subseteq 0 .. Amount
<1>1. CASE Return(a) /\ UNCHANGED hung
    BY <1>1, ReturnTypes
<1>2. CASE /\ pc' = [pc EXCEPT ![a] = "query"]
           /\ \E x \in Amounts : /\ plan' = [plan EXCEPT ![a].id = x]
                                 /\ hung' = hung \cup {x}
  <2>1. PICK x \in Amounts : plan' = [plan EXCEPT ![a].id = x] /\ hung' = hung \cup {x}
      BY <1>2
  <2>2. x \in 0 .. Amount
      BY DEF Amounts
  <2>3. ThreadTypes'
      BY <1>2, <2>1, <2>2 DEF ThreadTypes, Plan, Labels
  <2> QED
      BY <2>1, <2>2, <2>3
<1> QED
    BY <1>1, <1>2 DEF GuessRefund

\* What a guess does to the labels and plans.
LEMMA GuessFacts ==
    ASSUME ThreadTypes, NEW a \in Admins, GuessRefund(a)
    PROVE  /\ \A b \in Admins \ {a} : pc'[b] = pc[b] /\ plan'[b] = plan[b]
           /\ hung \subseteq hung'
           /\ pc'[a] \in {"query", "idle"}
           /\ pc'[a] = "query" =>
                /\ plan'[a].amount = plan[a].amount
                /\ plan'[a].id \in Amounts /\ hung' = hung \cup {plan'[a].id}
           /\ pc'[a] = "idle" => plan'[a] = NoPlan /\ hung' = hung
<1>1. CASE Return(a) /\ UNCHANGED hung
    BY <1>1 DEF Return, ThreadTypes
<1>2. CASE /\ pc' = [pc EXCEPT ![a] = "query"]
           /\ \E x \in Amounts : /\ plan' = [plan EXCEPT ![a].id = x]
                                 /\ hung' = hung \cup {x}
  <2>1. PICK x \in Amounts : plan' = [plan EXCEPT ![a].id = x] /\ hung' = hung \cup {x}
      BY <1>2
  <2>2. plan'[a].id = x /\ plan'[a].amount = plan[a].amount
      BY <2>1 DEF ThreadTypes, Plan
  <2> QED
      BY <1>2, <2>1, <2>2 DEF ThreadTypes
<1> QED
    BY <1>1, <1>2 DEF GuessRefund

\* A rollback keeps the types, whether it succeeds or fails.
LEMMA RollbackTypes ==
    ASSUME GoodsTypes, PastTypes, rollbackFailed \in BOOLEAN, NEW a \in Admins,
           plan[a].deduct \in 0 .. Amount, hung' = hung,
           RollbackOk(a) \/ RollbackFails(a)
    PROVE  GoodsTypes' /\ PastTypes' /\ rollbackFailed' \in BOOLEAN
<1>1. CASE RollbackOk(a)
  <2>1. GoodsTypes'
      BY <1>1 DEF RollbackOk, ReturnDeduction, GoodsTypes
  <2> QED
      BY <1>1, <2>1 DEF RollbackOk, limits, PastTypes
<1>2. CASE RollbackFails(a)
  <2>0. rollbackFailed' \in BOOLEAN
      BY <1>2, Zenon DEF RollbackFails
  <2>1. GoodsTypes' /\ rollbackFailed' \in BOOLEAN
      BY <1>2, <2>0 DEF RollbackFails, goods, GoodsTypes
  <2>2. lapses' \subseteq Lapses
      BY <1>2 DEF RollbackFails, PastTypes, Lapses
  <2>3. calls' \in Nat /\ faults' \in Nat
      BY <1>2 DEF RollbackFails, Fault, limits, PastTypes
  <2> QED
      BY <2>1, <2>2, <2>3 DEF PastTypes
<1> QED
    BY <1>1, <1>2


\* Every statement, failure and event keeps the types.
LEMMA TypeNext == TypeOK /\ [Next]_vars => TypeOK'
<1> SUFFICES ASSUME TypeOK, [Next]_vars PROVE TypeOK'
    OBVIOUS
<1>1. ASSUME NEW a \in Admins, PrepareRefund(a) PROVE TypeOK'
  <2>1. ThreadTypes'
    <3>1. PICK amount \in Amounts, deduct \in BOOLEAN :
            plan' = [plan EXCEPT ![a] =
                        [from |-> status, amount |-> amount, id |-> 0, ok |-> TRUE,
                         deduct |-> IF deduct THEN PlannedDeduction(amount) ELSE 0]]
        BY <1>1 DEF PrepareRefund
    <3>2. PlannedDeduction(amount) \in 0 .. Amount
        BY AmountAssumption, PlannedRange DEF Amounts, TypeOK
    <3> QED
        BY <1>1, <3>1, <3>2, AmountAssumption
           DEF PrepareRefund, TypeOK, RowTypes, ThreadTypes, Plan, Amounts, Labels,
               Executing
  <2>2. RowTypes' /\ GoodsTypes' /\ AuditTypes' /\ UpstreamTypes' /\ PastTypes'
      BY <1>1, AmountAssumption
         DEF PrepareRefund, Call, PlannedDeduction, Available, row, goods, audit, fixed,
             thread, limits, past, TypeOK, RowTypes, GoodsTypes, AuditTypes, UpstreamTypes,
             PastTypes, Statuses, Refundable, Refunded, ThreadTypes, Plan, Lapses
  <2> QED
      BY <2>1, <2>2 DEF TypeOK
<1>2. ASSUME NEW a \in Admins, LockOrder(a) PROVE TypeOK'
  <2>1. ThreadTypes'
      BY <1>2, GotoTypes, ReturnTypes DEF LockOrder, TypeOK, Labels, Executing
  <2>2. RowTypes' /\ GoodsTypes' /\ AuditTypes' /\ UpstreamTypes' /\ PastTypes'
      BY <1>2, AmountAssumption
         DEF LockOrder, MayLock, Goto, Return, row, goods, audit, fixed, thread, limits,
             past, TypeOK, RowTypes, GoodsTypes, AuditTypes, UpstreamTypes, PastTypes,
             Statuses, Refundable, Refunded, ThreadTypes, Plan, Lapses
  <2> QED
      BY <2>1, <2>2 DEF TypeOK
<1>3. ASSUME NEW a \in Admins, CheckRollbackFailed(a) PROVE TypeOK'
  <2>1. ThreadTypes'
      BY <1>3, GotoTypes, DeductTypes, AmountAssumption
         DEF CheckRollbackFailed, TypeOK, Labels, Executing
  <2>2. RowTypes' /\ GoodsTypes' /\ AuditTypes' /\ UpstreamTypes' /\ PastTypes'
      BY <1>3, AmountAssumption
         DEF CheckRollbackFailed, Goto, row, goods, audit, fixed, thread, limits, past,
             TypeOK, RowTypes, GoodsTypes, AuditTypes, UpstreamTypes, PastTypes, Statuses,
             Refundable, Refunded, ThreadTypes, Plan, Lapses
  <2> QED
      BY <2>1, <2>2 DEF TypeOK
<1>4. ASSUME NEW a \in Admins, Deduct(a) PROVE TypeOK'
  <2>0. plan[a].deduct \in 0 .. Amount
      BY DEF TypeOK, ThreadTypes, Plan
  <2>1. ThreadTypes' /\ GoodsTypes'
    <3>1. CASE kind = "subscription" /\ (revoked \/ held = 0)
        BY <1>4, <3>1, GotoTypes DEF Deduct, TypeOK, GoodsTypes, goods, Labels, Executing
    <3>2. CASE ~(kind = "subscription" /\ (revoked \/ held = 0))
      <4> DEFINE d == IF kind = "balance" THEN Available(plan[a].deduct) ELSE plan[a].deduct
      <4>1. plan' = [plan EXCEPT ![a].deduct = d]
          BY <1>4, <3>2 DEF Deduct, TypeOK, ThreadTypes, Plan
      <4>2. d \in 0 .. Amount
          BY <2>0, AvailableRange DEF TypeOK
      <4>3. pc' = [pc EXCEPT ![a] = "gateway"] /\ "gateway" \in Labels
          BY <1>4, <3>2 DEF Deduct, Labels, Executing
      <4> HIDE DEF d
      <4>4. ThreadTypes'
          BY <4>1, <4>2, <4>3, DeductTypes DEF TypeOK
      <4>5. GoodsTypes'
          BY <1>4, <2>0, <3>2, TakeTypes DEF Deduct, TypeOK
      <4> QED
          BY <4>4, <4>5
    <3> QED
        BY <3>1, <3>2
  <2>2. RowTypes' /\ AuditTypes' /\ UpstreamTypes' /\ PastTypes'
      BY <1>4
         DEF Deduct, row, audit, fixed, limits, past, TypeOK, RowTypes, AuditTypes,
             UpstreamTypes, PastTypes
  <2> QED
      BY <2>1, <2>2 DEF TypeOK
<1>5. ASSUME NEW a \in Admins, GwRefund(a) PROVE TypeOK'
  <2>0. plan[a].amount \in 0 .. Amount
      BY DEF TypeOK, ThreadTypes, Plan
  <2>1. ThreadTypes'
    <3>1. \A s : AfterGateway(s) \in Labels
        BY DEF AfterGateway, Labels, Executing
    <3> QED
        BY <1>5, <3>1, GotoTypes DEF GwRefund, TypeOK, Labels, Executing
  <2>2. UpstreamTypes'
      BY <1>5, <2>0, GatewayKeeps DEF GwRefund, TypeOK, UpstreamTypes
  <2>3. RowTypes' /\ GoodsTypes' /\ AuditTypes' /\ PastTypes'
      BY <1>5
         DEF GwRefund, Fault, row, goods, audit, fixed, limits, past, TypeOK, RowTypes,
             GoodsTypes, AuditTypes, PastTypes
  <2> QED
      BY <2>1, <2>2, <2>3 DEF TypeOK
<1>6. ASSUME NEW a \in Admins, MarkRefundOk(a) PROVE TypeOK'
    BY <1>6, AmountAssumption
       DEF MarkRefundOk, FinalStatus, Return, row, goods, audit, fixed, thread, limits,
           past, TypeOK, RowTypes, GoodsTypes, AuditTypes, UpstreamTypes, PastTypes,
           ThreadTypes, Plan, Amounts, Labels, Executing, Statuses, Refundable, Refunded,
           Lapses, NoPlan, NoDetail
<1>7. ASSUME NEW a \in Admins, UnwindPending(a) PROVE TypeOK'
  <2>0. plan[a].deduct \in 0 .. Amount
      BY DEF TypeOK, ThreadTypes, Plan
  <2>1. ThreadTypes'
    <3>1. "markPending" \in Labels /\ 0 \in 0 .. Amount
        BY AmountAssumption DEF Labels, Executing
    <3> QED
        BY <1>7, <3>1, DeductTypes, OkTypes DEF UnwindPending, TypeOK
  <2>2. RowTypes' /\ GoodsTypes' /\ AuditTypes' /\ UpstreamTypes' /\ PastTypes'
    <3>1. GoodsTypes' /\ PastTypes' /\ rollbackFailed' \in BOOLEAN
        BY <1>7, <2>0, RollbackTypes DEF UnwindPending, TypeOK, AuditTypes
    <3>2. RowTypes' /\ UpstreamTypes' /\ pending' = pending /\ succeeded' = succeeded
        BY <1>7 DEF UnwindPending, row, fixed, TypeOK, RowTypes, UpstreamTypes
    <3> QED
        BY <3>1, <3>2 DEF TypeOK, AuditTypes
  <2> QED
      BY <2>1, <2>2 DEF TypeOK
<1>8. ASSUME NEW a \in Admins, MarkRefundPending(a) PROVE TypeOK'
  <2>1. ThreadTypes'
      BY <1>8, GotoTypes DEF MarkRefundPending, TypeOK, Labels, Executing
  <2>2. RowTypes' /\ GoodsTypes' /\ AuditTypes' /\ UpstreamTypes' /\ PastTypes'
      BY <1>8, AmountAssumption
         DEF MarkRefundPending, Goto, row, goods, audit, fixed, thread, limits, past,
             TypeOK, RowTypes, GoodsTypes, AuditTypes, UpstreamTypes, PastTypes, Statuses,
             Refundable, Refunded, ThreadTypes, Plan, Lapses
  <2> QED
      BY <2>1, <2>2 DEF TypeOK
<1>9. ASSUME NEW a \in Admins, AuditPending(a) PROVE TypeOK'
    BY <1>9, AmountAssumption
       DEF AuditPending, Return, row, goods, audit, fixed, thread, limits, past, TypeOK,
           RowTypes, GoodsTypes, AuditTypes, UpstreamTypes, PastTypes, ThreadTypes, Plan,
           Amounts, Labels, Executing, Statuses, Refundable, Refunded, Lapses, NoPlan,
           NoDetail
<1>10. ASSUME NEW a \in Admins, RollbackRefund(a) PROVE TypeOK'
  <2>0. plan[a].deduct \in 0 .. Amount
      BY DEF TypeOK, ThreadTypes, Plan
  <2>1. ThreadTypes'
      BY <1>10, GotoTypes DEF RollbackRefund, TypeOK, Labels, Executing
  <2>2. RowTypes' /\ GoodsTypes' /\ AuditTypes' /\ UpstreamTypes' /\ PastTypes'
    <3>1. GoodsTypes' /\ PastTypes' /\ rollbackFailed' \in BOOLEAN
        BY <1>10, <2>0, RollbackTypes DEF RollbackRefund, TypeOK, AuditTypes
    <3>2. RowTypes' /\ UpstreamTypes' /\ pending' = pending /\ succeeded' = succeeded
        BY <1>10 DEF RollbackRefund, row, fixed, TypeOK, RowTypes, UpstreamTypes
    <3> QED
        BY <3>1, <3>2 DEF TypeOK, AuditTypes
  <2> QED
      BY <2>1, <2>2 DEF TypeOK
<1>11. ASSUME NEW a \in Admins, RestoreStatus(a) PROVE TypeOK'
    BY <1>11, AmountAssumption
       DEF RestoreStatus, Return, row, goods, audit, fixed, thread, limits, past, TypeOK,
           RowTypes, GoodsTypes, AuditTypes, UpstreamTypes, PastTypes, ThreadTypes, Plan,
           Amounts, Labels, Executing, Statuses, Refundable, Refunded, Lapses, NoPlan,
           NoDetail
<1>12. ASSUME NEW a \in Admins, MarkRefundFailed(a) PROVE TypeOK'
    BY <1>12, AmountAssumption
       DEF MarkRefundFailed, Return, row, goods, audit, fixed, thread, limits, past,
           TypeOK, RowTypes, GoodsTypes, AuditTypes, UpstreamTypes, PastTypes, ThreadTypes,
           Plan, Amounts, Labels, Executing, Statuses, Refundable, Refunded, Lapses,
           NoPlan, NoDetail
<1>13. ASSUME NEW a \in Admins, StartFinalize(a) PROVE TypeOK'
    BY <1>13, AmountAssumption
       DEF StartFinalize, Call, row, goods, audit, fixed, thread, limits, past, TypeOK,
           RowTypes, GoodsTypes, AuditTypes, UpstreamTypes, PastTypes, ThreadTypes, Plan,
           Amounts, Labels, Executing, Statuses, Refundable, Refunded, Lapses, NoPlan,
           NoDetail
<1>14. ASSUME NEW a \in Admins, LatestRefundPendingDetail(a) PROVE TypeOK'
  <2>1. ThreadTypes' /\ hung' \subseteq 0 .. Amount
    <3>1. CASE GuessRefund(a)
        BY <3>1, GuessTypes DEF TypeOK, PastTypes
    <3>2. CASE /\ plan' = [plan EXCEPT ![a].id = pending.id, ![a].ok = pending.ok]
               /\ pc' = [pc EXCEPT ![a] = "query"]
               /\ UNCHANGED hung
      <4> DEFINE p == [plan[a] EXCEPT !.id = pending.id, !.ok = pending.ok]
      <4>1. plan[a] \in Plan /\ pending.id \in 0 .. Amount /\ pending.ok \in BOOLEAN
          BY DEF TypeOK, AuditTypes, ThreadTypes
      <4>2. plan' = [plan EXCEPT ![a] = p]
          BY <3>2 DEF TypeOK, ThreadTypes, Plan
      <4>3. p \in Plan
          BY <4>1 DEF Plan
      <4> HIDE DEF p
      <4> QED
          BY <3>2, <4>2, <4>3 DEF TypeOK, ThreadTypes, PastTypes, Labels
    <3> QED
        BY <1>14, <3>1, <3>2 DEF LatestRefundPendingDetail
  <2>2. RowTypes' /\ GoodsTypes' /\ AuditTypes' /\ UpstreamTypes' /\ PastTypes'
      BY <1>14, <2>1
         DEF LatestRefundPendingDetail, row, goods, audit, fixed, limits, TypeOK, RowTypes,
             GoodsTypes, AuditTypes, UpstreamTypes, PastTypes
  <2> QED
      BY <2>1, <2>2 DEF TypeOK
<1>15. ASSUME NEW a \in Admins, QueryRefund(a) PROVE TypeOK'
  <2>1. ThreadTypes'
    <3>1. plan[a] \in Plan /\ plan[a].amount \in 0 .. Amount
        BY DEF TypeOK, ThreadTypes, Plan
    <3>2. FinalDeduction(plan[a]) \in 0 .. Amount
        BY <3>1, PlannedRange, AmountAssumption DEF FinalDeduction, TypeOK
    <3> QED
        BY <1>15, <3>2, GotoTypes, ReturnTypes, DeductTypes DEF QueryRefund, TypeOK, Labels
  <2>2. RowTypes' /\ GoodsTypes' /\ AuditTypes' /\ UpstreamTypes' /\ PastTypes'
      BY <1>15, AmountAssumption
         DEF QueryRefund, FinalDeduction, PlannedDeduction, Available, Goto, Return, row,
             goods, audit, fixed, thread, limits, past, TypeOK, RowTypes, GoodsTypes,
             AuditTypes, UpstreamTypes, PastTypes, Statuses, Refundable, Refunded,
             ThreadTypes, Plan, Lapses
  <2> QED
      BY <2>1, <2>2 DEF TypeOK
<1>16. ASSUME NEW a \in Admins, FinalizePendingRefundSuccess(a) PROVE TypeOK'
  <2>0. plan[a].deduct \in 0 .. Amount /\ plan[a].amount \in 0 .. Amount
      BY DEF TypeOK, ThreadTypes, Plan
  <2>1. ThreadTypes' /\ GoodsTypes'
      BY <1>16, <2>0, ReturnTypes, TakeTypes
         DEF FinalizePendingRefundSuccess, TypeOK, GoodsTypes, goods
  <2>2. RowTypes' /\ AuditTypes' /\ UpstreamTypes' /\ PastTypes'
      BY <1>16, <2>0
         DEF FinalizePendingRefundSuccess, FinalStatus, row, audit, fixed, limits, past,
             TypeOK, RowTypes, AuditTypes, UpstreamTypes, PastTypes, Statuses, Refunded
  <2> QED
      BY <2>1, <2>2 DEF TypeOK
<1>17. ASSUME NEW a \in Admins, FinalizeRefundFailed(a) PROVE TypeOK'
    BY <1>17, AmountAssumption
       DEF FinalizeRefundFailed, Return, row, goods, audit, fixed, thread, limits, past,
           TypeOK, RowTypes, GoodsTypes, AuditTypes, UpstreamTypes, PastTypes, ThreadTypes,
           Plan, Amounts, Labels, Executing, Statuses, Refundable, Refunded, Lapses,
           NoPlan, NoDetail
<1>18. ASSUME NEW a \in Admins, DeductFails(a) PROVE TypeOK'
  <2>0. plan[a].deduct \in 0 .. Amount
      BY DEF TypeOK, ThreadTypes, Plan
  <2>1. ThreadTypes'
      BY <1>18, GotoTypes DEF DeductFails, TypeOK, Labels, Executing
  <2>2. GoodsTypes'
      BY <1>18, <2>0, TakeTypes DEF DeductFails, TypeOK, GoodsTypes, goods
  <2>3. RowTypes' /\ AuditTypes' /\ UpstreamTypes' /\ PastTypes'
      BY <1>18
         DEF DeductFails, Fault, row, audit, fixed, TypeOK, RowTypes, AuditTypes,
             UpstreamTypes, PastTypes, Lapses
  <2> QED
      BY <2>1, <2>2, <2>3 DEF TypeOK
<1>25. ASSUME NEW a \in Admins, ReadFails(a) PROVE TypeOK'
  <2>1. ThreadTypes' /\ hung' \subseteq 0 .. Amount
      BY <1>25, GotoTypes, GuessTypes
         DEF ReadFails, TypeOK, PastTypes, Labels, Executing
  <2>2. RowTypes' /\ GoodsTypes' /\ AuditTypes' /\ UpstreamTypes' /\ PastTypes'
      BY <1>25, <2>1
         DEF ReadFails, Fault, row, goods, audit, fixed, TypeOK, RowTypes, GoodsTypes,
             AuditTypes, UpstreamTypes, PastTypes
  <2> QED
      BY <2>1, <2>2 DEF TypeOK
<1>19. ASSUME NEW a \in Admins, Crash(a) PROVE TypeOK'
    BY <1>19, AmountAssumption
       DEF Crash, Fault, Return, row, goods, audit, fixed, thread, limits, past, TypeOK,
           RowTypes, GoodsTypes, AuditTypes, UpstreamTypes, PastTypes, ThreadTypes, Plan,
           Amounts, Labels, Executing, Statuses, Refundable, Refunded, Lapses, NoPlan,
           NoDetail
<1>20. ASSUME RequestRefund PROVE TypeOK'
    BY <1>20, AmountAssumption
       DEF RequestRefund, row, goods, audit, fixed, thread, limits, past, TypeOK, RowTypes,
           GoodsTypes, AuditTypes, UpstreamTypes, PastTypes, ThreadTypes, Plan, Amounts,
           Labels, Executing, Statuses, Refundable, Refunded, Lapses, NoPlan, NoDetail
<1>21. ASSUME GatewaySettles PROVE TypeOK'
  <2>1. UpstreamTypes'
      BY <1>21, SettleKeeps DEF TypeOK
  <2>2. RowTypes' /\ GoodsTypes' /\ AuditTypes' /\ ThreadTypes' /\ PastTypes'
      BY <1>21
         DEF GatewaySettles, row, goods, audit, fixed, thread, limits, past, TypeOK,
             RowTypes, GoodsTypes, AuditTypes, ThreadTypes, PastTypes
  <2> QED
      BY <2>1, <2>2 DEF TypeOK
<1>22. ASSUME UserSpends PROVE TypeOK'
    BY <1>22, AmountAssumption
       DEF UserSpends, row, goods, audit, fixed, thread, limits, past, TypeOK, RowTypes,
           GoodsTypes, AuditTypes, UpstreamTypes, PastTypes, ThreadTypes, Plan, Amounts,
           Labels, Executing, Statuses, Refundable, Refunded, Lapses, NoPlan, NoDetail
<1>23. ASSUME UserBuys PROVE TypeOK'
    BY <1>23, AmountAssumption
       DEF UserBuys, row, goods, audit, fixed, thread, limits, past, TypeOK, RowTypes,
           GoodsTypes, AuditTypes, UpstreamTypes, PastTypes, ThreadTypes, Plan, Amounts,
           Labels, Executing, Statuses, Refundable, Refunded, Lapses, NoPlan, NoDetail
<1>24. ASSUME UNCHANGED vars PROVE TypeOK'
    BY <1>24, AmountAssumption
       DEF vars, row, goods, audit, fixed, thread, limits, past, TypeOK, RowTypes,
           GoodsTypes, AuditTypes, UpstreamTypes, PastTypes, ThreadTypes, Plan, Amounts,
           Labels, Executing, Statuses, Refundable, Refunded, Lapses, NoPlan, NoDetail
<1> QED
    BY <1>1, <1>2, <1>3, <1>4, <1>5, <1>6, <1>7, <1>8, <1>9, <1>10, <1>11, <1>12, <1>13,
       <1>14, <1>15, <1>16, <1>17, <1>18, <1>19, <1>20, <1>21, <1>22, <1>23, <1>24, <1>25
       DEF Next, ExecuteRefund, QueryAndFinalizeRefund

\* The status lock keeps other requests out.
LEMMA LockNext == TypeOK /\ OneRefundAtATime /\ [Next]_vars => OneRefundAtATime'
<1> SUFFICES ASSUME TypeOK, OneRefundAtATime, [Next]_vars PROVE OneRefundAtATime'
    OBVIOUS
<1>1. ASSUME NEW a \in Admins, PrepareRefund(a) PROVE OneRefundAtATime'
    BY <1>1
       DEF PrepareRefund, Call, PlannedDeduction, Available, row, goods, audit, fixed,
           thread, limits, past, TypeOK, RowTypes, ThreadTypes, OneRefundAtATime,
           Executing, Labels, Refundable, Refunded, Statuses
<1>2. ASSUME NEW a \in Admins, LockOrder(a) PROVE OneRefundAtATime'
    BY <1>2
       DEF LockOrder, MayLock, Goto, Return, row, goods, audit, fixed, thread, limits,
           past, TypeOK, RowTypes, ThreadTypes, OneRefundAtATime, Executing, Labels,
           Refundable, Refunded, Statuses
<1>3. ASSUME NEW a \in Admins, CheckRollbackFailed(a) PROVE OneRefundAtATime'
    BY <1>3
       DEF CheckRollbackFailed, Goto, row, goods, audit, fixed, thread, limits, past,
           TypeOK, RowTypes, ThreadTypes, OneRefundAtATime, Executing, Labels, Refundable,
           Refunded, Statuses
<1>4. ASSUME NEW a \in Admins, Deduct(a) PROVE OneRefundAtATime'
    BY <1>4
       DEF Deduct, Goto, Take, Available, row, goods, audit, fixed, thread, limits, past,
           TypeOK, RowTypes, ThreadTypes, OneRefundAtATime, Executing, Labels, Refundable,
           Refunded, Statuses
<1>5. ASSUME NEW a \in Admins, GwRefund(a) PROVE OneRefundAtATime'
    BY <1>5
       DEF GwRefund, Goto, Fault, GatewayActs, AfterGateway, row, goods, audit, fixed,
           thread, limits, past, TypeOK, RowTypes, ThreadTypes, OneRefundAtATime,
           Executing, Labels, Refundable, Refunded, Statuses
<1>6. ASSUME NEW a \in Admins, MarkRefundOk(a) PROVE OneRefundAtATime'
    BY <1>6
       DEF MarkRefundOk, FinalStatus, Return, row, goods, audit, fixed, thread, limits,
           past, TypeOK, RowTypes, ThreadTypes, OneRefundAtATime, Executing, Labels,
           Refundable, Refunded, Statuses
<1>7. ASSUME NEW a \in Admins, UnwindPending(a) PROVE OneRefundAtATime'
    BY <1>7
       DEF UnwindPending, RollbackOk, RollbackFails, ReturnDeduction, Fault, row, goods,
           audit, fixed, thread, limits, past, TypeOK, RowTypes, ThreadTypes,
           OneRefundAtATime, Executing, Labels, Refundable, Refunded, Statuses
<1>8. ASSUME NEW a \in Admins, MarkRefundPending(a) PROVE OneRefundAtATime'
    BY <1>8
       DEF MarkRefundPending, Goto, row, goods, audit, fixed, thread, limits, past, TypeOK,
           RowTypes, ThreadTypes, OneRefundAtATime, Executing, Labels, Refundable,
           Refunded, Statuses
<1>9. ASSUME NEW a \in Admins, AuditPending(a) PROVE OneRefundAtATime'
    BY <1>9
       DEF AuditPending, Return, row, goods, audit, fixed, thread, limits, past, TypeOK,
           RowTypes, ThreadTypes, OneRefundAtATime, Executing, Labels, Refundable,
           Refunded, Statuses
<1>10. ASSUME NEW a \in Admins, RollbackRefund(a) PROVE OneRefundAtATime'
    BY <1>10
       DEF RollbackRefund, RollbackOk, RollbackFails, ReturnDeduction, Fault, Goto, row,
           goods, audit, fixed, thread, limits, past, TypeOK, RowTypes, ThreadTypes,
           OneRefundAtATime, Executing, Labels, Refundable, Refunded, Statuses
<1>11. ASSUME NEW a \in Admins, RestoreStatus(a) PROVE OneRefundAtATime'
    BY <1>11
       DEF RestoreStatus, Return, row, goods, audit, fixed, thread, limits, past, TypeOK,
           RowTypes, ThreadTypes, OneRefundAtATime, Executing, Labels, Refundable,
           Refunded, Statuses
<1>12. ASSUME NEW a \in Admins, MarkRefundFailed(a) PROVE OneRefundAtATime'
    BY <1>12
       DEF MarkRefundFailed, Return, row, goods, audit, fixed, thread, limits, past,
           TypeOK, RowTypes, ThreadTypes, OneRefundAtATime, Executing, Labels, Refundable,
           Refunded, Statuses
<1>13. ASSUME NEW a \in Admins, StartFinalize(a) PROVE OneRefundAtATime'
    BY <1>13
       DEF StartFinalize, Call, row, goods, audit, fixed, thread, limits, past, TypeOK,
           RowTypes, ThreadTypes, OneRefundAtATime, Executing, Labels, Refundable,
           Refunded, Statuses
<1>14. ASSUME NEW a \in Admins, LatestRefundPendingDetail(a) PROVE OneRefundAtATime'
    BY <1>14
       DEF LatestRefundPendingDetail, GuessRefund, Return, row, goods, audit, fixed, thread,
           limits, past,
           TypeOK, RowTypes, ThreadTypes, OneRefundAtATime, Executing, Labels, Refundable,
           Refunded, Statuses
<1>15. ASSUME NEW a \in Admins, QueryRefund(a) PROVE OneRefundAtATime'
    BY <1>15
       DEF QueryRefund, FinalDeduction, PlannedDeduction, Available, Goto, Return, row,
           goods, audit, fixed, thread, limits, past, TypeOK, RowTypes, ThreadTypes,
           OneRefundAtATime, Executing, Labels, Refundable, Refunded, Statuses
<1>16. ASSUME NEW a \in Admins, FinalizePendingRefundSuccess(a) PROVE OneRefundAtATime'
    BY <1>16
       DEF FinalizePendingRefundSuccess, MayFinalize, Take, Available, FinalStatus, Return,
           row, goods, audit, fixed, thread, limits, past, TypeOK, RowTypes, ThreadTypes,
           OneRefundAtATime, Executing, Labels, Refundable, Refunded, Statuses
<1>17. ASSUME NEW a \in Admins, FinalizeRefundFailed(a) PROVE OneRefundAtATime'
    BY <1>17
       DEF FinalizeRefundFailed, Return, row, goods, audit, fixed, thread, limits, past,
           TypeOK, RowTypes, ThreadTypes, OneRefundAtATime, Executing, Labels, Refundable,
           Refunded, Statuses
<1>18. ASSUME NEW a \in Admins, DeductFails(a) PROVE OneRefundAtATime'
    BY <1>18
       DEF DeductFails, Fault, Take, Available, Goto, row, goods, audit, fixed, thread, limits,
           past,
           TypeOK, RowTypes, ThreadTypes, OneRefundAtATime, Executing, Labels, Refundable,
           Refunded, Statuses
<1>25. ASSUME NEW a \in Admins, ReadFails(a) PROVE OneRefundAtATime'
    BY <1>25
       DEF ReadFails, Fault, GuessRefund, Return, Goto, row, goods, audit, fixed, thread,
           limits, past,
           TypeOK, RowTypes, ThreadTypes, OneRefundAtATime, Executing, Labels, Refundable,
           Refunded, Statuses
<1>19. ASSUME NEW a \in Admins, Crash(a) PROVE OneRefundAtATime'
    BY <1>19
       DEF Crash, Fault, Return, row, goods, audit, fixed, thread, limits, past, TypeOK,
           RowTypes, ThreadTypes, OneRefundAtATime, Executing, Labels, Refundable,
           Refunded, Statuses
<1>20. ASSUME RequestRefund PROVE OneRefundAtATime'
    BY <1>20
       DEF RequestRefund, row, goods, audit, fixed, thread, limits, past, TypeOK, RowTypes,
           ThreadTypes, OneRefundAtATime, Executing, Labels, Refundable, Refunded, Statuses
<1>21. ASSUME GatewaySettles PROVE OneRefundAtATime'
    BY <1>21
       DEF GatewaySettles, row, goods, audit, fixed, thread, limits, past, TypeOK,
           RowTypes, ThreadTypes, OneRefundAtATime, Executing, Labels, Refundable,
           Refunded, Statuses
<1>22. ASSUME UserSpends PROVE OneRefundAtATime'
    BY <1>22
       DEF UserSpends, row, goods, audit, fixed, thread, limits, past, TypeOK, RowTypes,
           ThreadTypes, OneRefundAtATime, Executing, Labels, Refundable, Refunded, Statuses
<1>23. ASSUME UserBuys PROVE OneRefundAtATime'
    BY <1>23
       DEF UserBuys, row, goods, audit, fixed, thread, limits, past, TypeOK, RowTypes,
           ThreadTypes, OneRefundAtATime, Executing, Labels, Refundable, Refunded, Statuses
<1>24. ASSUME UNCHANGED vars PROVE OneRefundAtATime'
    BY <1>24
       DEF vars, row, goods, audit, fixed, thread, limits, past, TypeOK, RowTypes,
           ThreadTypes, OneRefundAtATime, Executing, Labels, Refundable, Refunded, Statuses
<1> QED
    BY <1>1, <1>2, <1>3, <1>4, <1>5, <1>6, <1>7, <1>8, <1>9, <1>10, <1>11, <1>12, <1>13,
       <1>14, <1>15, <1>16, <1>17, <1>18, <1>19, <1>20, <1>21, <1>22, <1>23, <1>24, <1>25
       DEF Next, ExecuteRefund, QueryAndFinalizeRefund

\* A failed rollback stays on record.
LEMMA RecordNext == TypeOK /\ RollbackRecorded /\ [Next]_vars => RollbackRecorded'
<1> SUFFICES ASSUME TypeOK, RollbackRecorded, [Next]_vars PROVE RollbackRecorded'
    OBVIOUS
<1>1. ASSUME NEW a \in Admins, PrepareRefund(a) PROVE RollbackRecorded'
    BY <1>1
       DEF PrepareRefund, Call, PlannedDeduction, Available, row, goods, audit, fixed,
           thread, limits, past, TypeOK, AuditTypes, ThreadTypes, PastTypes,
           RollbackRecorded, Labels, Executing
<1>2. ASSUME NEW a \in Admins, LockOrder(a) PROVE RollbackRecorded'
    BY <1>2
       DEF LockOrder, MayLock, Goto, Return, row, goods, audit, fixed, thread, limits,
           past, TypeOK, AuditTypes, ThreadTypes, PastTypes, RollbackRecorded, Labels,
           Executing
<1>3. ASSUME NEW a \in Admins, CheckRollbackFailed(a) PROVE RollbackRecorded'
    BY <1>3
       DEF CheckRollbackFailed, Goto, row, goods, audit, fixed, thread, limits, past,
           TypeOK, AuditTypes, ThreadTypes, PastTypes, RollbackRecorded, Labels, Executing
<1>4. ASSUME NEW a \in Admins, Deduct(a) PROVE RollbackRecorded'
    BY <1>4
       DEF Deduct, Goto, Take, Available, row, goods, audit, fixed, thread, limits, past,
           TypeOK, AuditTypes, ThreadTypes, PastTypes, RollbackRecorded, Labels, Executing
<1>5. ASSUME NEW a \in Admins, GwRefund(a) PROVE RollbackRecorded'
    BY <1>5
       DEF GwRefund, Goto, Fault, GatewayActs, AfterGateway, row, goods, audit, fixed,
           thread, limits, past, TypeOK, AuditTypes, ThreadTypes, PastTypes,
           RollbackRecorded, Labels, Executing
<1>6. ASSUME NEW a \in Admins, MarkRefundOk(a) PROVE RollbackRecorded'
    BY <1>6
       DEF MarkRefundOk, FinalStatus, Return, row, goods, audit, fixed, thread, limits,
           past, TypeOK, AuditTypes, ThreadTypes, PastTypes, RollbackRecorded, Labels,
           Executing
<1>7. ASSUME NEW a \in Admins, UnwindPending(a) PROVE RollbackRecorded'
    BY <1>7
       DEF UnwindPending, RollbackOk, RollbackFails, ReturnDeduction, Fault, row, goods,
           audit, fixed, thread, limits, past, TypeOK, AuditTypes, ThreadTypes, PastTypes,
           RollbackRecorded, Labels, Executing
<1>8. ASSUME NEW a \in Admins, MarkRefundPending(a) PROVE RollbackRecorded'
    BY <1>8
       DEF MarkRefundPending, Goto, row, goods, audit, fixed, thread, limits, past, TypeOK,
           AuditTypes, ThreadTypes, PastTypes, RollbackRecorded, Labels, Executing
<1>9. ASSUME NEW a \in Admins, AuditPending(a) PROVE RollbackRecorded'
    BY <1>9
       DEF AuditPending, Return, row, goods, audit, fixed, thread, limits, past, TypeOK,
           AuditTypes, ThreadTypes, PastTypes, RollbackRecorded, Labels, Executing
<1>10. ASSUME NEW a \in Admins, RollbackRefund(a) PROVE RollbackRecorded'
    BY <1>10
       DEF RollbackRefund, RollbackOk, RollbackFails, ReturnDeduction, Fault, Goto, row,
           goods, audit, fixed, thread, limits, past, TypeOK, AuditTypes, ThreadTypes,
           PastTypes, RollbackRecorded, Labels, Executing
<1>11. ASSUME NEW a \in Admins, RestoreStatus(a) PROVE RollbackRecorded'
    BY <1>11
       DEF RestoreStatus, Return, row, goods, audit, fixed, thread, limits, past, TypeOK,
           AuditTypes, ThreadTypes, PastTypes, RollbackRecorded, Labels, Executing
<1>12. ASSUME NEW a \in Admins, MarkRefundFailed(a) PROVE RollbackRecorded'
    BY <1>12
       DEF MarkRefundFailed, Return, row, goods, audit, fixed, thread, limits, past,
           TypeOK, AuditTypes, ThreadTypes, PastTypes, RollbackRecorded, Labels, Executing
<1>13. ASSUME NEW a \in Admins, StartFinalize(a) PROVE RollbackRecorded'
    BY <1>13
       DEF StartFinalize, Call, row, goods, audit, fixed, thread, limits, past, TypeOK,
           AuditTypes, ThreadTypes, PastTypes, RollbackRecorded, Labels, Executing
<1>14. ASSUME NEW a \in Admins, LatestRefundPendingDetail(a) PROVE RollbackRecorded'
    BY <1>14
       DEF LatestRefundPendingDetail, GuessRefund, Return, row, goods, audit, fixed, thread,
           limits, past,
           TypeOK, AuditTypes, ThreadTypes, PastTypes, RollbackRecorded, Labels, Executing
<1>15. ASSUME NEW a \in Admins, QueryRefund(a) PROVE RollbackRecorded'
    BY <1>15
       DEF QueryRefund, FinalDeduction, PlannedDeduction, Available, Goto, Return, row,
           goods, audit, fixed, thread, limits, past, TypeOK, AuditTypes, ThreadTypes,
           PastTypes, RollbackRecorded, Labels, Executing
<1>16. ASSUME NEW a \in Admins, FinalizePendingRefundSuccess(a) PROVE RollbackRecorded'
    BY <1>16
       DEF FinalizePendingRefundSuccess, MayFinalize, Take, Available, FinalStatus, Return,
           row, goods, audit, fixed, thread, limits, past, TypeOK, AuditTypes, ThreadTypes,
           PastTypes, RollbackRecorded, Labels, Executing
<1>17. ASSUME NEW a \in Admins, FinalizeRefundFailed(a) PROVE RollbackRecorded'
    BY <1>17
       DEF FinalizeRefundFailed, Return, row, goods, audit, fixed, thread, limits, past,
           TypeOK, AuditTypes, ThreadTypes, PastTypes, RollbackRecorded, Labels, Executing
<1>18. ASSUME NEW a \in Admins, DeductFails(a) PROVE RollbackRecorded'
    BY <1>18
       DEF DeductFails, Fault, Take, Available, Goto, row, goods, audit, fixed, thread, limits,
           past,
           TypeOK, AuditTypes, ThreadTypes, PastTypes, RollbackRecorded, Labels, Executing
<1>25. ASSUME NEW a \in Admins, ReadFails(a) PROVE RollbackRecorded'
    BY <1>25
       DEF ReadFails, Fault, GuessRefund, Return, Goto, row, goods, audit, fixed, thread,
           limits, past,
           TypeOK, AuditTypes, ThreadTypes, PastTypes, RollbackRecorded, Labels, Executing
<1>19. ASSUME NEW a \in Admins, Crash(a) PROVE RollbackRecorded'
    BY <1>19
       DEF Crash, Fault, Return, row, goods, audit, fixed, thread, limits, past, TypeOK,
           AuditTypes, ThreadTypes, PastTypes, RollbackRecorded, Labels, Executing
<1>20. ASSUME RequestRefund PROVE RollbackRecorded'
    BY <1>20
       DEF RequestRefund, row, goods, audit, fixed, thread, limits, past, TypeOK,
           AuditTypes, ThreadTypes, PastTypes, RollbackRecorded, Labels, Executing
<1>21. ASSUME GatewaySettles PROVE RollbackRecorded'
    BY <1>21
       DEF GatewaySettles, row, goods, audit, fixed, thread, limits, past, TypeOK,
           AuditTypes, ThreadTypes, PastTypes, RollbackRecorded, Labels, Executing
<1>22. ASSUME UserSpends PROVE RollbackRecorded'
    BY <1>22
       DEF UserSpends, row, goods, audit, fixed, thread, limits, past, TypeOK, AuditTypes,
           ThreadTypes, PastTypes, RollbackRecorded, Labels, Executing
<1>23. ASSUME UserBuys PROVE RollbackRecorded'
    BY <1>23
       DEF UserBuys, row, goods, audit, fixed, thread, limits, past, TypeOK, AuditTypes,
           ThreadTypes, PastTypes, RollbackRecorded, Labels, Executing
<1>24. ASSUME UNCHANGED vars PROVE RollbackRecorded'
    BY <1>24
       DEF vars, row, goods, audit, fixed, thread, limits, past, TypeOK, AuditTypes,
           ThreadTypes, PastTypes, RollbackRecorded, Labels, Executing
<1> QED
    BY <1>1, <1>2, <1>3, <1>4, <1>5, <1>6, <1>7, <1>8, <1>9, <1>10, <1>11, <1>12, <1>13,
       <1>14, <1>15, <1>16, <1>17, <1>18, <1>19, <1>20, <1>21, <1>22, <1>23, <1>24, <1>25
       DEF Next, ExecuteRefund, QueryAndFinalizeRefund

\* What is taken follows the plan of the running refund.
LEMMA MoneyNext == Inv /\ [Next]_vars => PlanMatchesTaken'
<1> SUFFICES ASSUME Inv, [Next]_vars PROVE PlanMatchesTaken'
    OBVIOUS
<1>1. ASSUME NEW a \in Admins, PrepareRefund(a) PROVE PlanMatchesTaken'
    BY <1>1, AmountAssumption
       DEF PrepareRefund, Call, PlannedDeduction, Available, row, goods, audit, fixed,
           thread, limits, past, Inv, TypeOK, RowTypes, GoodsTypes, ThreadTypes, PastTypes,
           OneRefundAtATime, RollbackRecorded, PlanMatchesTaken, Executing, Labels,
           Refundable, Refunded, Statuses, Plan, Amounts, NoPlan
<1>2. ASSUME NEW a \in Admins, LockOrder(a) PROVE PlanMatchesTaken'
    BY <1>2, AmountAssumption
       DEF LockOrder, MayLock, Goto, Return, row, goods, audit, fixed, thread, limits,
           past, Inv, TypeOK, RowTypes, GoodsTypes, ThreadTypes, PastTypes,
           OneRefundAtATime, RollbackRecorded, PlanMatchesTaken, Executing, Labels,
           Refundable, Refunded, Statuses, Plan, Amounts, NoPlan
<1>3. ASSUME NEW a \in Admins, CheckRollbackFailed(a) PROVE PlanMatchesTaken'
    BY <1>3, AmountAssumption
       DEF CheckRollbackFailed, Goto, row, goods, audit, fixed, thread, limits, past, Inv,
           TypeOK, RowTypes, GoodsTypes, ThreadTypes, PastTypes, OneRefundAtATime,
           RollbackRecorded, PlanMatchesTaken, Executing, Labels, Refundable, Refunded,
           Statuses, Plan, Amounts, NoPlan
<1>4. ASSUME NEW a \in Admins, Deduct(a) PROVE PlanMatchesTaken'
  <2>0. plan[a].deduct \in 0 .. Amount /\ pc[a] = "deduct" /\ GoodsTypes /\ taken \in Int
      BY <1>4 DEF Deduct, Inv, TypeOK, ThreadTypes, GoodsTypes, Plan
  <2> SUFFICES ASSUME lapses = {}
               PROVE  /\ status' \in Refundable => taken' = 0
                      /\ taken' \in 0 .. Amount
                      /\ \A b \in Admins :
                          /\ pc'[b] \in {"check", "deduct", "markPending", "restore"} => taken' = 0
                          /\ pc'[b] \in {"gateway", "succeed", "unwind", "rollback"} =>
                              \/ taken' = plan'[b].deduct
                              \/ kind' = "subscription" /\ revoked' /\ plan'[b].deduct > 0
      BY <1>4 DEF Deduct, past, PlanMatchesTaken
  <2>1. taken = 0 /\ status = "REFUNDING" /\ \A b \in Admins \ {a} : pc[b] \notin Executing
      BY <2>0 DEF Inv, PlanMatchesTaken, OneRefundAtATime, Executing
  <2>2. \A b \in Admins \ {a} : pc'[b] \notin Executing
      BY <1>4, <2>1 DEF Deduct, Goto, Inv, TypeOK, ThreadTypes
  <2>3. status' = "REFUNDING" /\ "REFUNDING" \notin Refundable
      BY <1>4, <2>1 DEF Deduct, row, Refundable
  <2>4. CASE kind = "subscription" /\ (revoked \/ held = 0)
    <3>1. taken' = 0 /\ pc'[a] = "restore"
        BY <1>4, <2>1, <2>4 DEF Deduct, Goto, goods, Inv, TypeOK, ThreadTypes
    <3> QED
        BY <2>2, <2>3, <3>1, AmountAssumption DEF Executing
  <2>5. CASE ~(kind = "subscription" /\ (revoked \/ held = 0))
    <3> DEFINE d == plan[a].deduct
    <3>1. taken' = Available(d) /\ Available(d) \in 0 .. Amount
        BY <1>4, <2>0, <2>1, <2>5, AvailableRange DEF Deduct, Take
    <3>2. pc'[a] = "gateway" /\ kind' = kind
        BY <1>4, <2>5 DEF Deduct, fixed, Inv, TypeOK, ThreadTypes
    <3>3. plan'[a].deduct = IF kind = "balance" THEN Available(d) ELSE d
        BY <1>4, <2>5 DEF Deduct, Inv, TypeOK, ThreadTypes, Plan
    <3>4. \/ taken' = plan'[a].deduct
          \/ kind' = "subscription" /\ revoked' /\ plan'[a].deduct > 0
      <4>1. CASE kind = "balance"
          BY <3>1, <3>3, <4>1
      <4>2. CASE kind = "subscription" /\ d < held
          BY <3>1, <3>3, <4>2 DEF Available
      <4>3. CASE kind = "subscription" /\ ~(d < held)
        <5>1. held > 0 /\ Available(d) = held /\ d >= held /\ d > 0
            BY <2>0, <2>5, <4>3 DEF Available, GoodsTypes
        <5>2. revoked' = (revoked \/ (kind = "subscription" /\ d >= held /\ d > 0))
            BY <1>4, <2>5 DEF Deduct, Take
        <5> QED
            BY <3>2, <3>3, <4>3, <5>1, <5>2
      <4> QED
          BY <4>1, <4>2, <4>3 DEF Inv, TypeOK, RowTypes
    <3> QED
        BY <2>2, <2>3, <3>1, <3>2, <3>4 DEF Executing
  <2> QED
      BY <2>4, <2>5
<1>5. ASSUME NEW a \in Admins, GwRefund(a) PROVE PlanMatchesTaken'
    BY <1>5, AmountAssumption
       DEF GwRefund, Goto, Fault, GatewayActs, AfterGateway, row, goods, audit, fixed,
           thread, limits, past, Inv, TypeOK, RowTypes, GoodsTypes, ThreadTypes, PastTypes,
           OneRefundAtATime, RollbackRecorded, PlanMatchesTaken, Executing, Labels,
           Refundable, Refunded, Statuses, Plan, Amounts, NoPlan
<1>6. ASSUME NEW a \in Admins, MarkRefundOk(a) PROVE PlanMatchesTaken'
    BY <1>6, AmountAssumption
       DEF MarkRefundOk, FinalStatus, Return, row, goods, audit, fixed, thread, limits,
           past, Inv, TypeOK, RowTypes, GoodsTypes, ThreadTypes, PastTypes,
           OneRefundAtATime, RollbackRecorded, PlanMatchesTaken, Executing, Labels,
           Refundable, Refunded, Statuses, Plan, Amounts, NoPlan
<1>7. ASSUME NEW a \in Admins, UnwindPending(a) PROVE PlanMatchesTaken'
    BY <1>7, AmountAssumption
       DEF UnwindPending, RollbackOk, RollbackFails, ReturnDeduction, Fault, row, goods,
           audit, fixed, thread, limits, past, Inv, TypeOK, RowTypes, GoodsTypes,
           ThreadTypes, PastTypes, OneRefundAtATime, RollbackRecorded, PlanMatchesTaken,
           Executing, Labels, Refundable, Refunded, Statuses, Plan, Amounts, NoPlan
<1>8. ASSUME NEW a \in Admins, MarkRefundPending(a) PROVE PlanMatchesTaken'
    BY <1>8, AmountAssumption
       DEF MarkRefundPending, Goto, row, goods, audit, fixed, thread, limits, past, Inv,
           TypeOK, RowTypes, GoodsTypes, ThreadTypes, PastTypes, OneRefundAtATime,
           RollbackRecorded, PlanMatchesTaken, Executing, Labels, Refundable, Refunded,
           Statuses, Plan, Amounts, NoPlan
<1>9. ASSUME NEW a \in Admins, AuditPending(a) PROVE PlanMatchesTaken'
    BY <1>9, AmountAssumption
       DEF AuditPending, Return, row, goods, audit, fixed, thread, limits, past, Inv,
           TypeOK, RowTypes, GoodsTypes, ThreadTypes, PastTypes, OneRefundAtATime,
           RollbackRecorded, PlanMatchesTaken, Executing, Labels, Refundable, Refunded,
           Statuses, Plan, Amounts, NoPlan
<1>10. ASSUME NEW a \in Admins, RollbackRefund(a) PROVE PlanMatchesTaken'
    BY <1>10, AmountAssumption
       DEF RollbackRefund, RollbackOk, RollbackFails, ReturnDeduction, Fault, Goto, row,
           goods, audit, fixed, thread, limits, past, Inv, TypeOK, RowTypes, GoodsTypes,
           ThreadTypes, PastTypes, OneRefundAtATime, RollbackRecorded, PlanMatchesTaken,
           Executing, Labels, Refundable, Refunded, Statuses, Plan, Amounts, NoPlan
<1>11. ASSUME NEW a \in Admins, RestoreStatus(a) PROVE PlanMatchesTaken'
    BY <1>11, AmountAssumption
       DEF RestoreStatus, Return, row, goods, audit, fixed, thread, limits, past, Inv,
           TypeOK, RowTypes, GoodsTypes, ThreadTypes, PastTypes, OneRefundAtATime,
           RollbackRecorded, PlanMatchesTaken, Executing, Labels, Refundable, Refunded,
           Statuses, Plan, Amounts, NoPlan
<1>12. ASSUME NEW a \in Admins, MarkRefundFailed(a) PROVE PlanMatchesTaken'
    BY <1>12, AmountAssumption
       DEF MarkRefundFailed, Return, row, goods, audit, fixed, thread, limits, past, Inv,
           TypeOK, RowTypes, GoodsTypes, ThreadTypes, PastTypes, OneRefundAtATime,
           RollbackRecorded, PlanMatchesTaken, Executing, Labels, Refundable, Refunded,
           Statuses, Plan, Amounts, NoPlan
<1>13. ASSUME NEW a \in Admins, StartFinalize(a) PROVE PlanMatchesTaken'
    BY <1>13, AmountAssumption
       DEF StartFinalize, Call, row, goods, audit, fixed, thread, limits, past, Inv,
           TypeOK, RowTypes, GoodsTypes, ThreadTypes, PastTypes, OneRefundAtATime,
           RollbackRecorded, PlanMatchesTaken, Executing, Labels, Refundable, Refunded,
           Statuses, Plan, Amounts, NoPlan
<1>14. ASSUME NEW a \in Admins, LatestRefundPendingDetail(a) PROVE PlanMatchesTaken'
    BY <1>14, AmountAssumption
       DEF LatestRefundPendingDetail, GuessRefund, Return, row, goods, audit, fixed, thread,
           limits, past, Inv,
           TypeOK, RowTypes, GoodsTypes, ThreadTypes, PastTypes, OneRefundAtATime,
           RollbackRecorded, PlanMatchesTaken, Executing, Labels, Refundable, Refunded,
           Statuses, Plan, Amounts, NoPlan
<1>15. ASSUME NEW a \in Admins, QueryRefund(a) PROVE PlanMatchesTaken'
    BY <1>15, AmountAssumption
       DEF QueryRefund, FinalDeduction, PlannedDeduction, Available, Goto, Return, row,
           goods, audit, fixed, thread, limits, past, Inv, TypeOK, RowTypes, GoodsTypes,
           ThreadTypes, PastTypes, OneRefundAtATime, RollbackRecorded, PlanMatchesTaken,
           Executing, Labels, Refundable, Refunded, Statuses, Plan, Amounts, NoPlan
<1>16. ASSUME NEW a \in Admins, FinalizePendingRefundSuccess(a) PROVE PlanMatchesTaken'
    BY <1>16, AmountAssumption
       DEF FinalizePendingRefundSuccess, MayFinalize, Take, Available, FinalStatus, Return,
           row, goods, audit, fixed, thread, limits, past, Inv, TypeOK, RowTypes,
           GoodsTypes, ThreadTypes, PastTypes, OneRefundAtATime, RollbackRecorded,
           PlanMatchesTaken, Executing, Labels, Refundable, Refunded, Statuses, Plan,
           Amounts, NoPlan
<1>17. ASSUME NEW a \in Admins, FinalizeRefundFailed(a) PROVE PlanMatchesTaken'
    BY <1>17, AmountAssumption
       DEF FinalizeRefundFailed, Return, row, goods, audit, fixed, thread, limits, past,
           Inv, TypeOK, RowTypes, GoodsTypes, ThreadTypes, PastTypes, OneRefundAtATime,
           RollbackRecorded, PlanMatchesTaken, Executing, Labels, Refundable, Refunded,
           Statuses, Plan, Amounts, NoPlan
<1>18. ASSUME NEW a \in Admins, DeductFails(a) PROVE PlanMatchesTaken'
    BY <1>18, AmountAssumption
       DEF DeductFails, Fault, Take, Available, Goto, row, goods, audit, fixed, thread, limits,
           past,
           Inv, TypeOK, RowTypes, GoodsTypes, ThreadTypes, PastTypes, OneRefundAtATime,
           RollbackRecorded, PlanMatchesTaken, Executing, Labels, Refundable, Refunded,
           Statuses, Plan, Amounts, NoPlan
<1>25. ASSUME NEW a \in Admins, ReadFails(a) PROVE PlanMatchesTaken'
    BY <1>25, AmountAssumption
       DEF ReadFails, Fault, GuessRefund, Return, Goto, row, goods, audit, fixed, thread,
           limits, past,
           Inv, TypeOK, RowTypes, GoodsTypes, ThreadTypes, PastTypes, OneRefundAtATime,
           RollbackRecorded, PlanMatchesTaken, Executing, Labels, Refundable, Refunded,
           Statuses, Plan, Amounts, NoPlan
<1>19. ASSUME NEW a \in Admins, Crash(a) PROVE PlanMatchesTaken'
    BY <1>19, AmountAssumption
       DEF Crash, Fault, Return, row, goods, audit, fixed, thread, limits, past, Inv,
           TypeOK, RowTypes, GoodsTypes, ThreadTypes, PastTypes, OneRefundAtATime,
           RollbackRecorded, PlanMatchesTaken, Executing, Labels, Refundable, Refunded,
           Statuses, Plan, Amounts, NoPlan
<1>20. ASSUME RequestRefund PROVE PlanMatchesTaken'
    BY <1>20, AmountAssumption
       DEF RequestRefund, row, goods, audit, fixed, thread, limits, past, Inv, TypeOK,
           RowTypes, GoodsTypes, ThreadTypes, PastTypes, OneRefundAtATime,
           RollbackRecorded, PlanMatchesTaken, Executing, Labels, Refundable, Refunded,
           Statuses, Plan, Amounts, NoPlan
<1>21. ASSUME GatewaySettles PROVE PlanMatchesTaken'
    BY <1>21, AmountAssumption
       DEF GatewaySettles, row, goods, audit, fixed, thread, limits, past, Inv, TypeOK,
           RowTypes, GoodsTypes, ThreadTypes, PastTypes, OneRefundAtATime,
           RollbackRecorded, PlanMatchesTaken, Executing, Labels, Refundable, Refunded,
           Statuses, Plan, Amounts, NoPlan
<1>22. ASSUME UserSpends PROVE PlanMatchesTaken'
    BY <1>22, AmountAssumption
       DEF UserSpends, row, goods, audit, fixed, thread, limits, past, Inv, TypeOK,
           RowTypes, GoodsTypes, ThreadTypes, PastTypes, OneRefundAtATime,
           RollbackRecorded, PlanMatchesTaken, Executing, Labels, Refundable, Refunded,
           Statuses, Plan, Amounts, NoPlan
<1>23. ASSUME UserBuys PROVE PlanMatchesTaken'
    BY <1>23, AmountAssumption
       DEF UserBuys, row, goods, audit, fixed, thread, limits, past, Inv, TypeOK, RowTypes,
           GoodsTypes, ThreadTypes, PastTypes, OneRefundAtATime, RollbackRecorded,
           PlanMatchesTaken, Executing, Labels, Refundable, Refunded, Statuses, Plan,
           Amounts, NoPlan
<1>24. ASSUME UNCHANGED vars PROVE PlanMatchesTaken'
    BY <1>24, AmountAssumption
       DEF vars, row, goods, audit, fixed, thread, limits, past, Inv, TypeOK, RowTypes,
           GoodsTypes, ThreadTypes, PastTypes, OneRefundAtATime, RollbackRecorded,
           PlanMatchesTaken, Executing, Labels, Refundable, Refunded, Statuses, Plan,
           Amounts, NoPlan
<1> QED
    BY <1>1, <1>2, <1>3, <1>4, <1>5, <1>6, <1>7, <1>8, <1>9, <1>10, <1>11, <1>12, <1>13,
       <1>14, <1>15, <1>16, <1>17, <1>18, <1>19, <1>20, <1>21, <1>22, <1>23, <1>24, <1>25
       DEF Next, ExecuteRefund, QueryAndFinalizeRefund

\* The amounts a finalisation works with were left pending before.
LEMMA AmountsNext == Inv /\ [Next]_vars => AmountsAreHung'
<1> SUFFICES ASSUME Inv, [Next]_vars PROVE AmountsAreHung'
    OBVIOUS
<1>1. ASSUME NEW a \in Admins, PrepareRefund(a) PROVE AmountsAreHung'
    BY <1>1, AmountAssumption
       DEF PrepareRefund, Call, PlannedDeduction, Available, row, goods, audit, fixed,
           thread, limits, past, Inv, TypeOK, RowTypes, AuditTypes, ThreadTypes,
           UpstreamTypes, PastTypes, AmountsAreHung, Executing, Labels, Plan, Amounts,
           NoDetail, NoPlan, Statuses, Refundable, Refunded
<1>2. ASSUME NEW a \in Admins, LockOrder(a) PROVE AmountsAreHung'
  <2>1. \A b \in Admins \ {a} : pc'[b] = pc[b] /\ plan'[b] = plan[b]
      BY <1>2 DEF LockOrder, Goto, Return, Inv, TypeOK, ThreadTypes
  <2>2. pc[a] = "lock" /\ pc'[a] \in {"check", "gateway", "idle"}
      BY <1>2 DEF LockOrder, Goto, Return, Inv, TypeOK, ThreadTypes
  <2>3. pc'[a] # "idle" => plan'[a] = plan[a]
      BY <1>2 DEF LockOrder, Goto, Return, Inv, TypeOK, ThreadTypes
  <2>4. status' = status \/ status' = "REFUNDING"
      BY <1>2 DEF LockOrder
  <2>5. UNCHANGED <<refundAmount, pending, hung, traded, upstream>>
      BY <1>2 DEF LockOrder, audit, fixed, past
  <2> QED
      BY <2>1, <2>2, <2>3, <2>4, <2>5 DEF Inv, AmountsAreHung, Executing, Refunded
<1>3. ASSUME NEW a \in Admins, CheckRollbackFailed(a) PROVE AmountsAreHung'
  <2>1. \A b \in Admins : plan'[b].amount = plan[b].amount /\ plan'[b].id = plan[b].id
      BY <1>3 DEF CheckRollbackFailed, Goto, Inv, TypeOK, ThreadTypes, Plan
  <2>2. \A b \in Admins \ {a} : pc'[b] = pc[b]
      BY <1>3 DEF CheckRollbackFailed, Goto, Inv, TypeOK, ThreadTypes
  <2>3. pc[a] = "check" /\ pc'[a] \in {"deduct", "gateway"}
      BY <1>3 DEF CheckRollbackFailed, Goto, Inv, TypeOK, ThreadTypes
  <2> QED
      BY <1>3, <2>1, <2>2, <2>3
         DEF CheckRollbackFailed, row, fixed, past, audit, Inv, AmountsAreHung, Executing
<1>4. ASSUME NEW a \in Admins, Deduct(a) PROVE AmountsAreHung'
  <2>1. \A b \in Admins : plan'[b].amount = plan[b].amount /\ plan'[b].id = plan[b].id
      BY <1>4 DEF Deduct, Goto, Inv, TypeOK, ThreadTypes, Plan
  <2>2. \A b \in Admins \ {a} : pc'[b] = pc[b]
      BY <1>4 DEF Deduct, Goto, Inv, TypeOK, ThreadTypes
  <2>3. pc[a] = "deduct" /\ pc'[a] \in {"restore", "gateway"}
      BY <1>4 DEF Deduct, Goto, Inv, TypeOK, ThreadTypes
  <2> QED
      BY <1>4, <2>1, <2>2, <2>3
         DEF Deduct, row, fixed, past, audit, Inv, AmountsAreHung, Executing
<1>5. ASSUME NEW a \in Admins, GwRefund(a) PROVE AmountsAreHung'
  <2>0. plan[a].amount \in Amounts /\ pc[a] = "gateway" /\ plan' = plan
      BY <1>5 DEF GwRefund, Goto, Inv, AmountsAreHung, Executing
  <2>1. \A y \in Amounts : upstream[y].paid > 0 => upstream'[y].paid > 0
      BY <1>5, <2>0, GatewayKeeps DEF GwRefund, Inv, TypeOK, Amounts
  <2>2. \A b \in Admins \ {a} : pc'[b] = pc[b]
      BY <1>5 DEF GwRefund, Goto, Inv, TypeOK, ThreadTypes
  <2>3. /\ pc'[a] \in {"succeed", "unwind", "rollback"}
        /\ pc'[a] = "succeed" /\ traded => upstream'[plan[a].amount].paid > 0
      BY <1>5, <2>0, AnswerIsTrue DEF GwRefund, Goto, AfterGateway, Inv, TypeOK, ThreadTypes
  <2>4. UNCHANGED <<status, refundAmount, pending, hung, traded>>
      BY <1>5 DEF GwRefund, row, audit, fixed, past
  <2>5. \A b \in Admins \ {a} :
            /\ pc[b] = "succeed" => plan[b].amount \in Amounts
            /\ pc[b] = "finalizeOk" => plan[b].id \in Amounts
      BY DEF Inv, AmountsAreHung, Executing
  <2> QED
      BY <2>0, <2>1, <2>2, <2>3, <2>4, <2>5 DEF Inv, AmountsAreHung, Executing
<1>6. ASSUME NEW a \in Admins, MarkRefundOk(a) PROVE AmountsAreHung'
    BY <1>6, AmountAssumption
       DEF MarkRefundOk, FinalStatus, Return, row, goods, audit, fixed, thread, limits,
           past, Inv, TypeOK, RowTypes, AuditTypes, ThreadTypes, UpstreamTypes, PastTypes,
           AmountsAreHung, Executing, Labels, Plan, Amounts, NoDetail, NoPlan, Statuses,
           Refundable, Refunded
<1>7. ASSUME NEW a \in Admins, UnwindPending(a) PROVE AmountsAreHung'
  <2>1. \A b \in Admins : plan'[b].amount = plan[b].amount /\ plan'[b].id = plan[b].id
      BY <1>7 DEF UnwindPending, Inv, TypeOK, ThreadTypes, Plan
  <2>2. \A b \in Admins \ {a} : pc'[b] = pc[b]
      BY <1>7 DEF UnwindPending, Inv, TypeOK, ThreadTypes
  <2>3. pc[a] = "unwind" /\ pc'[a] = "markPending"
      BY <1>7 DEF UnwindPending, Inv, TypeOK, ThreadTypes
  <2>4. UNCHANGED <<status, refundAmount, pending, hung, traded, upstream>>
      BY <1>7 DEF UnwindPending, row, fixed
  <2> QED
      BY <2>1, <2>2, <2>3, <2>4 DEF Inv, AmountsAreHung, Executing
<1>8. ASSUME NEW a \in Admins, MarkRefundPending(a) PROVE AmountsAreHung'
    BY <1>8, AmountAssumption
       DEF MarkRefundPending, Goto, row, goods, audit, fixed, thread, limits, past, Inv,
           TypeOK, RowTypes, AuditTypes, ThreadTypes, UpstreamTypes, PastTypes,
           AmountsAreHung, Executing, Labels, Plan, Amounts, NoDetail, NoPlan, Statuses,
           Refundable, Refunded
<1>9. ASSUME NEW a \in Admins, AuditPending(a) PROVE AmountsAreHung'
    BY <1>9, AmountAssumption
       DEF AuditPending, Return, row, goods, audit, fixed, thread, limits, past, Inv,
           TypeOK, RowTypes, AuditTypes, ThreadTypes, UpstreamTypes, PastTypes,
           AmountsAreHung, Executing, Labels, Plan, Amounts, NoDetail, NoPlan, Statuses,
           Refundable, Refunded
<1>10. ASSUME NEW a \in Admins, RollbackRefund(a) PROVE AmountsAreHung'
    BY <1>10, AmountAssumption
       DEF RollbackRefund, RollbackOk, RollbackFails, ReturnDeduction, Fault, Goto, row,
           goods, audit, fixed, thread, limits, past, Inv, TypeOK, RowTypes, AuditTypes,
           ThreadTypes, UpstreamTypes, PastTypes, AmountsAreHung, Executing, Labels, Plan,
           Amounts, NoDetail, NoPlan, Statuses, Refundable, Refunded
<1>11. ASSUME NEW a \in Admins, RestoreStatus(a) PROVE AmountsAreHung'
    BY <1>11, AmountAssumption
       DEF RestoreStatus, Return, row, goods, audit, fixed, thread, limits, past, Inv,
           TypeOK, RowTypes, AuditTypes, ThreadTypes, UpstreamTypes, PastTypes,
           AmountsAreHung, Executing, Labels, Plan, Amounts, NoDetail, NoPlan, Statuses,
           Refundable, Refunded
<1>12. ASSUME NEW a \in Admins, MarkRefundFailed(a) PROVE AmountsAreHung'
    BY <1>12, AmountAssumption
       DEF MarkRefundFailed, Return, row, goods, audit, fixed, thread, limits, past, Inv,
           TypeOK, RowTypes, AuditTypes, ThreadTypes, UpstreamTypes, PastTypes,
           AmountsAreHung, Executing, Labels, Plan, Amounts, NoDetail, NoPlan, Statuses,
           Refundable, Refunded
<1>13. ASSUME NEW a \in Admins, StartFinalize(a) PROVE AmountsAreHung'
    BY <1>13, AmountAssumption
       DEF StartFinalize, Call, row, goods, audit, fixed, thread, limits, past, Inv,
           TypeOK, RowTypes, AuditTypes, ThreadTypes, UpstreamTypes, PastTypes,
           AmountsAreHung, Executing, Labels, Plan, Amounts, NoDetail, NoPlan, Statuses,
           Refundable, Refunded
<1>14. ASSUME NEW a \in Admins, LatestRefundPendingDetail(a) PROVE AmountsAreHung'
  <2>1. UNCHANGED <<status, refundAmount, pending, traded, upstream>> /\ pc[a] = "detail"
      BY <1>14 DEF LatestRefundPendingDetail, row, audit, fixed
  <2>2. CASE GuessRefund(a)
      BY <2>1, <2>2, GuessFacts
         DEF Inv, TypeOK, AmountsAreHung, Executing, Amounts
  <2>3. CASE /\ pending.id # 0
             /\ plan' = [plan EXCEPT ![a].id = pending.id, ![a].ok = pending.ok]
             /\ pc' = [pc EXCEPT ![a] = "query"]
             /\ UNCHANGED hung
    <3>1. \A b \in Admins : plan'[b].amount = plan[b].amount
        BY <2>3 DEF Inv, TypeOK, ThreadTypes, Plan
    <3>2. \A b \in Admins \ {a} : pc'[b] = pc[b] /\ plan'[b] = plan[b]
        BY <2>3 DEF Inv, TypeOK, ThreadTypes
    <3>3. pc'[a] = "query" /\ plan'[a].id = pending.id
        BY <2>3 DEF Inv, TypeOK, ThreadTypes, Plan
    <3>4. pending.id \in hung
        BY <2>3 DEF Inv, AmountsAreHung, NoDetail
    <3> QED
      <4>1. hung \subseteq Amounts /\ hung' = hung
          BY <2>3 DEF Inv, AmountsAreHung
      <4>2. status' \in Refunded => refundAmount' \in Amounts
          BY <2>1 DEF Inv, AmountsAreHung
      <4>3. /\ status' = "REFUND_PENDING" => refundAmount' \in hung'
            /\ pending' # NoDetail => pending'.id \in hung'
          BY <2>1, <4>1 DEF Inv, AmountsAreHung
      <4>4. plan'[a].amount \in hung'
          BY <2>1, <3>1, <4>1 DEF Inv, AmountsAreHung
      <4> QED
          BY <2>1, <3>2, <3>3, <3>4, <4>1, <4>2, <4>3, <4>4
             DEF Inv, AmountsAreHung, Executing
  <2> QED
      BY <1>14, <2>2, <2>3 DEF LatestRefundPendingDetail
<1>15. ASSUME NEW a \in Admins, QueryRefund(a) PROVE AmountsAreHung'
  <2>1. \A b \in Admins : pc'[b] # "idle" =>
            plan'[b].amount = plan[b].amount /\ plan'[b].id = plan[b].id
      BY <1>15 DEF QueryRefund, Goto, Return, Inv, TypeOK, ThreadTypes, Plan
  <2>2. \A b \in Admins \ {a} : pc'[b] = pc[b]
      BY <1>15 DEF QueryRefund, Goto, Return, Inv, TypeOK, ThreadTypes
  <2>3. /\ pc[a] = "query"
        /\ pc'[a] \in {"finalizeOk", "finalizeFail", "idle"}
        /\ pc'[a] = "finalizeOk" => upstream[plan[a].id].paid > 0
      BY <1>15 DEF QueryRefund, Known, Goto, Return, Inv, TypeOK, ThreadTypes
  <2>4. UNCHANGED <<status, refundAmount, pending, hung, traded, upstream>>
      BY <1>15 DEF QueryRefund, row, audit, fixed, past
  <2> QED
      BY <2>1, <2>2, <2>3, <2>4 DEF Inv, AmountsAreHung, Executing
<1>16. ASSUME NEW a \in Admins, FinalizePendingRefundSuccess(a) PROVE AmountsAreHung'
    BY <1>16, AmountAssumption
       DEF FinalizePendingRefundSuccess, MayFinalize, Take, Available, FinalStatus, Return,
           row, goods, audit, fixed, thread, limits, past, Inv, TypeOK, RowTypes,
           AuditTypes, ThreadTypes, UpstreamTypes, PastTypes, AmountsAreHung, Executing,
           Labels, Plan, Amounts, NoDetail, NoPlan, Statuses, Refundable, Refunded
<1>17. ASSUME NEW a \in Admins, FinalizeRefundFailed(a) PROVE AmountsAreHung'
    BY <1>17, AmountAssumption
       DEF FinalizeRefundFailed, Return, row, goods, audit, fixed, thread, limits, past,
           Inv, TypeOK, RowTypes, AuditTypes, ThreadTypes, UpstreamTypes, PastTypes,
           AmountsAreHung, Executing, Labels, Plan, Amounts, NoDetail, NoPlan, Statuses,
           Refundable, Refunded
<1>18. ASSUME NEW a \in Admins, DeductFails(a) PROVE AmountsAreHung'
  <2>1. /\ plan' = plan
        /\ \A b \in Admins \ {a} : pc'[b] = pc[b]
        /\ pc[a] = "deduct" /\ pc'[a] = "restore"
      BY <1>18 DEF DeductFails, Goto, Inv, TypeOK, ThreadTypes
  <2>2. UNCHANGED <<status, refundAmount, pending, hung, traded, upstream>>
      BY <1>18 DEF DeductFails, row, audit, fixed
  <2> QED
      BY <2>1, <2>2 DEF Inv, AmountsAreHung, Executing
<1>25. ASSUME NEW a \in Admins, ReadFails(a) PROVE AmountsAreHung'
  <2>1. UNCHANGED <<status, refundAmount, pending, traded, upstream>>
      BY <1>25 DEF ReadFails, row, audit, fixed
  <2>2. CASE pc[a] = "check" /\ Goto(a, "deduct") /\ UNCHANGED hung
    <3>1. /\ plan' = plan /\ pc'[a] = "deduct"
          /\ \A b \in Admins \ {a} : pc'[b] = pc[b]
        BY <2>2 DEF Goto, Inv, TypeOK, ThreadTypes
    <3> QED
        BY <2>1, <2>2, <3>1 DEF Inv, AmountsAreHung, Executing
  <2>3. CASE pc[a] = "detail" /\ GuessRefund(a)
      BY <2>1, <2>3, GuessFacts
         DEF Inv, TypeOK, AmountsAreHung, Executing, Amounts
  <2> QED
      BY <1>25, <2>2, <2>3 DEF ReadFails
<1>19. ASSUME NEW a \in Admins, Crash(a) PROVE AmountsAreHung'
    BY <1>19, AmountAssumption
       DEF Crash, Fault, Return, row, goods, audit, fixed, thread, limits, past, Inv,
           TypeOK, RowTypes, AuditTypes, ThreadTypes, UpstreamTypes, PastTypes,
           AmountsAreHung, Executing, Labels, Plan, Amounts, NoDetail, NoPlan, Statuses,
           Refundable, Refunded
<1>20. ASSUME RequestRefund PROVE AmountsAreHung'
    BY <1>20, AmountAssumption
       DEF RequestRefund, row, goods, audit, fixed, thread, limits, past, Inv, TypeOK,
           RowTypes, AuditTypes, ThreadTypes, UpstreamTypes, PastTypes, AmountsAreHung,
           Executing, Labels, Plan, Amounts, NoDetail, NoPlan, Statuses, Refundable,
           Refunded
<1>21. ASSUME GatewaySettles PROVE AmountsAreHung'
  <2>1. \A y \in Amounts : upstream[y].paid > 0 => upstream'[y].paid > 0
      BY <1>21, SettleKeeps DEF Inv, TypeOK
  <2>2. UNCHANGED <<status, refundAmount, pending, hung, traded, pc, plan>>
      BY <1>21 DEF GatewaySettles, row, audit, fixed, thread, past
  <2>3. \A b \in Admins :
            /\ pc[b] = "succeed" => plan[b].amount \in Amounts
            /\ pc[b] = "finalizeOk" => plan[b].id \in Amounts
      BY DEF Inv, AmountsAreHung, Executing
  <2> QED
      BY <2>1, <2>2, <2>3 DEF Inv, AmountsAreHung
<1>22. ASSUME UserSpends PROVE AmountsAreHung'
    BY <1>22, AmountAssumption
       DEF UserSpends, row, goods, audit, fixed, thread, limits, past, Inv, TypeOK,
           RowTypes, AuditTypes, ThreadTypes, UpstreamTypes, PastTypes, AmountsAreHung,
           Executing, Labels, Plan, Amounts, NoDetail, NoPlan, Statuses, Refundable,
           Refunded
<1>23. ASSUME UserBuys PROVE AmountsAreHung'
    BY <1>23, AmountAssumption
       DEF UserBuys, row, goods, audit, fixed, thread, limits, past, Inv, TypeOK, RowTypes,
           AuditTypes, ThreadTypes, UpstreamTypes, PastTypes, AmountsAreHung, Executing,
           Labels, Plan, Amounts, NoDetail, NoPlan, Statuses, Refundable, Refunded
<1>24. ASSUME UNCHANGED vars PROVE AmountsAreHung'
    BY <1>24, AmountAssumption
       DEF vars, row, goods, audit, fixed, thread, limits, past, Inv, TypeOK, RowTypes,
           AuditTypes, ThreadTypes, UpstreamTypes, PastTypes, AmountsAreHung, Executing,
           Labels, Plan, Amounts, NoDetail, NoPlan, Statuses, Refundable, Refunded
<1> QED
    BY <1>1, <1>2, <1>3, <1>4, <1>5, <1>6, <1>7, <1>8, <1>9, <1>10, <1>11, <1>12, <1>13,
       <1>14, <1>15, <1>16, <1>17, <1>18, <1>19, <1>20, <1>21, <1>22, <1>23, <1>24, <1>25
       DEF Next, ExecuteRefund, QueryAndFinalizeRefund

\* A refunded order stays refunded by the gateway.
LEMMA PaidBackNext == Inv /\ [Next]_vars => RefundedMeansPaidBack'
<1> SUFFICES ASSUME Inv, [Next]_vars PROVE RefundedMeansPaidBack'
    OBVIOUS
<1>1. ASSUME NEW a \in Admins, PrepareRefund(a) PROVE RefundedMeansPaidBack'
    BY <1>1, AmountAssumption
       DEF PrepareRefund, Call, PlannedDeduction, Available, row, goods, audit, fixed,
           thread, limits, past, Inv, TypeOK, RowTypes, ThreadTypes, UpstreamTypes,
           PastTypes, AmountsAreHung, RefundedMeansPaidBack, OneAmountHung, Amounts,
           Refunded, Refundable, Statuses, Labels, Executing, Plan
<1>2. ASSUME NEW a \in Admins, LockOrder(a) PROVE RefundedMeansPaidBack'
    BY <1>2, AmountAssumption
       DEF LockOrder, MayLock, Goto, Return, row, goods, audit, fixed, thread, limits,
           past, Inv, TypeOK, RowTypes, ThreadTypes, UpstreamTypes, PastTypes,
           AmountsAreHung, RefundedMeansPaidBack, OneAmountHung, Amounts, Refunded,
           Refundable, Statuses, Labels, Executing, Plan
<1>3. ASSUME NEW a \in Admins, CheckRollbackFailed(a) PROVE RefundedMeansPaidBack'
    BY <1>3, AmountAssumption
       DEF CheckRollbackFailed, Goto, row, goods, audit, fixed, thread, limits, past, Inv,
           TypeOK, RowTypes, ThreadTypes, UpstreamTypes, PastTypes, AmountsAreHung,
           RefundedMeansPaidBack, OneAmountHung, Amounts, Refunded, Refundable, Statuses,
           Labels, Executing, Plan
<1>4. ASSUME NEW a \in Admins, Deduct(a) PROVE RefundedMeansPaidBack'
    BY <1>4, AmountAssumption
       DEF Deduct, Goto, Take, Available, row, goods, audit, fixed, thread, limits, past,
           Inv, TypeOK, RowTypes, ThreadTypes, UpstreamTypes, PastTypes, AmountsAreHung,
           RefundedMeansPaidBack, OneAmountHung, Amounts, Refunded, Refundable, Statuses,
           Labels, Executing, Plan
<1>5. ASSUME NEW a \in Admins, GwRefund(a) PROVE RefundedMeansPaidBack'
  <2>0. plan[a].amount \in 0 .. Amount
      BY DEF Inv, TypeOK, ThreadTypes, Plan
  <2>1. \A y \in Amounts : upstream[y].paid > 0 => upstream'[y].paid > 0
      BY <1>5, <2>0, GatewayKeeps DEF GwRefund, Inv, TypeOK
  <2>2. UNCHANGED <<status, refundAmount, hung, traded>>
      BY <1>5 DEF GwRefund, row, fixed, past
  <2>3. status \in Refunded => refundAmount \in Amounts
      BY DEF Inv, AmountsAreHung
  <2> QED
      BY <2>1, <2>2, <2>3 DEF Inv, RefundedMeansPaidBack, OneAmountHung
<1>6. ASSUME NEW a \in Admins, MarkRefundOk(a) PROVE RefundedMeansPaidBack'
    BY <1>6, AmountAssumption
       DEF MarkRefundOk, FinalStatus, Return, row, goods, audit, fixed, thread, limits,
           past, Inv, TypeOK, RowTypes, ThreadTypes, UpstreamTypes, PastTypes,
           AmountsAreHung, RefundedMeansPaidBack, OneAmountHung, Amounts, Refunded,
           Refundable, Statuses, Labels, Executing, Plan
<1>7. ASSUME NEW a \in Admins, UnwindPending(a) PROVE RefundedMeansPaidBack'
    BY <1>7, AmountAssumption
       DEF UnwindPending, RollbackOk, RollbackFails, ReturnDeduction, Fault, row, goods,
           audit, fixed, thread, limits, past, Inv, TypeOK, RowTypes, ThreadTypes,
           UpstreamTypes, PastTypes, AmountsAreHung, RefundedMeansPaidBack, OneAmountHung,
           Amounts, Refunded, Refundable, Statuses, Labels, Executing, Plan
<1>8. ASSUME NEW a \in Admins, MarkRefundPending(a) PROVE RefundedMeansPaidBack'
    BY <1>8, AmountAssumption
       DEF MarkRefundPending, Goto, row, goods, audit, fixed, thread, limits, past, Inv,
           TypeOK, RowTypes, ThreadTypes, UpstreamTypes, PastTypes, AmountsAreHung,
           RefundedMeansPaidBack, OneAmountHung, Amounts, Refunded, Refundable, Statuses,
           Labels, Executing, Plan
<1>9. ASSUME NEW a \in Admins, AuditPending(a) PROVE RefundedMeansPaidBack'
    BY <1>9, AmountAssumption
       DEF AuditPending, Return, row, goods, audit, fixed, thread, limits, past, Inv,
           TypeOK, RowTypes, ThreadTypes, UpstreamTypes, PastTypes, AmountsAreHung,
           RefundedMeansPaidBack, OneAmountHung, Amounts, Refunded, Refundable, Statuses,
           Labels, Executing, Plan
<1>10. ASSUME NEW a \in Admins, RollbackRefund(a) PROVE RefundedMeansPaidBack'
    BY <1>10, AmountAssumption
       DEF RollbackRefund, RollbackOk, RollbackFails, ReturnDeduction, Fault, Goto, row,
           goods, audit, fixed, thread, limits, past, Inv, TypeOK, RowTypes, ThreadTypes,
           UpstreamTypes, PastTypes, AmountsAreHung, RefundedMeansPaidBack, OneAmountHung,
           Amounts, Refunded, Refundable, Statuses, Labels, Executing, Plan
<1>11. ASSUME NEW a \in Admins, RestoreStatus(a) PROVE RefundedMeansPaidBack'
    BY <1>11, AmountAssumption
       DEF RestoreStatus, Return, row, goods, audit, fixed, thread, limits, past, Inv,
           TypeOK, RowTypes, ThreadTypes, UpstreamTypes, PastTypes, AmountsAreHung,
           RefundedMeansPaidBack, OneAmountHung, Amounts, Refunded, Refundable, Statuses,
           Labels, Executing, Plan
<1>12. ASSUME NEW a \in Admins, MarkRefundFailed(a) PROVE RefundedMeansPaidBack'
    BY <1>12, AmountAssumption
       DEF MarkRefundFailed, Return, row, goods, audit, fixed, thread, limits, past, Inv,
           TypeOK, RowTypes, ThreadTypes, UpstreamTypes, PastTypes, AmountsAreHung,
           RefundedMeansPaidBack, OneAmountHung, Amounts, Refunded, Refundable, Statuses,
           Labels, Executing, Plan
<1>13. ASSUME NEW a \in Admins, StartFinalize(a) PROVE RefundedMeansPaidBack'
    BY <1>13, AmountAssumption
       DEF StartFinalize, Call, row, goods, audit, fixed, thread, limits, past, Inv,
           TypeOK, RowTypes, ThreadTypes, UpstreamTypes, PastTypes, AmountsAreHung,
           RefundedMeansPaidBack, OneAmountHung, Amounts, Refunded, Refundable, Statuses,
           Labels, Executing, Plan
<1>14. ASSUME NEW a \in Admins, LatestRefundPendingDetail(a) PROVE RefundedMeansPaidBack'
    BY <1>14, AmountAssumption
       DEF LatestRefundPendingDetail, GuessRefund, Return, row, goods, audit, fixed, thread,
           limits, past, Inv,
           TypeOK, RowTypes, ThreadTypes, UpstreamTypes, PastTypes, AmountsAreHung,
           RefundedMeansPaidBack, OneAmountHung, Amounts, Refunded, Refundable, Statuses,
           Labels, Executing, Plan
<1>15. ASSUME NEW a \in Admins, QueryRefund(a) PROVE RefundedMeansPaidBack'
    BY <1>15, AmountAssumption
       DEF QueryRefund, FinalDeduction, PlannedDeduction, Available, Goto, Return, row,
           goods, audit, fixed, thread, limits, past, Inv, TypeOK, RowTypes, ThreadTypes,
           UpstreamTypes, PastTypes, AmountsAreHung, RefundedMeansPaidBack, OneAmountHung,
           Amounts, Refunded, Refundable, Statuses, Labels, Executing, Plan
<1>16. ASSUME NEW a \in Admins, FinalizePendingRefundSuccess(a) PROVE RefundedMeansPaidBack'
    BY <1>16, AmountAssumption
       DEF FinalizePendingRefundSuccess, MayFinalize, Take, Available, FinalStatus, Return,
           row, goods, audit, fixed, thread, limits, past, Inv, TypeOK, RowTypes,
           ThreadTypes, UpstreamTypes, PastTypes, AmountsAreHung, RefundedMeansPaidBack,
           OneAmountHung, Amounts, Refunded, Refundable, Statuses, Labels, Executing, Plan
<1>17. ASSUME NEW a \in Admins, FinalizeRefundFailed(a) PROVE RefundedMeansPaidBack'
    BY <1>17, AmountAssumption
       DEF FinalizeRefundFailed, Return, row, goods, audit, fixed, thread, limits, past,
           Inv, TypeOK, RowTypes, ThreadTypes, UpstreamTypes, PastTypes, AmountsAreHung,
           RefundedMeansPaidBack, OneAmountHung, Amounts, Refunded, Refundable, Statuses,
           Labels, Executing, Plan
<1>18. ASSUME NEW a \in Admins, DeductFails(a) PROVE RefundedMeansPaidBack'
    BY <1>18, AmountAssumption
       DEF DeductFails, Fault, Take, Available, Goto, row, goods, audit, fixed, thread, limits,
           past,
           Inv, TypeOK, RowTypes, ThreadTypes, UpstreamTypes, PastTypes, AmountsAreHung,
           RefundedMeansPaidBack, OneAmountHung, Amounts, Refunded, Refundable, Statuses,
           Labels, Executing, Plan
<1>25. ASSUME NEW a \in Admins, ReadFails(a) PROVE RefundedMeansPaidBack'
    BY <1>25, AmountAssumption
       DEF ReadFails, Fault, GuessRefund, Return, Goto, row, goods, audit, fixed, thread,
           limits, past,
           Inv, TypeOK, RowTypes, ThreadTypes, UpstreamTypes, PastTypes, AmountsAreHung,
           RefundedMeansPaidBack, OneAmountHung, Amounts, Refunded, Refundable, Statuses,
           Labels, Executing, Plan
<1>19. ASSUME NEW a \in Admins, Crash(a) PROVE RefundedMeansPaidBack'
    BY <1>19, AmountAssumption
       DEF Crash, Fault, Return, row, goods, audit, fixed, thread, limits, past, Inv,
           TypeOK, RowTypes, ThreadTypes, UpstreamTypes, PastTypes, AmountsAreHung,
           RefundedMeansPaidBack, OneAmountHung, Amounts, Refunded, Refundable, Statuses,
           Labels, Executing, Plan
<1>20. ASSUME RequestRefund PROVE RefundedMeansPaidBack'
    BY <1>20, AmountAssumption
       DEF RequestRefund, row, goods, audit, fixed, thread, limits, past, Inv, TypeOK,
           RowTypes, ThreadTypes, UpstreamTypes, PastTypes, AmountsAreHung,
           RefundedMeansPaidBack, OneAmountHung, Amounts, Refunded, Refundable, Statuses,
           Labels, Executing, Plan
<1>21. ASSUME GatewaySettles PROVE RefundedMeansPaidBack'
  <2>1. \A y \in Amounts : upstream[y].paid > 0 => upstream'[y].paid > 0
      BY <1>21, SettleKeeps DEF Inv, TypeOK
  <2>2. UNCHANGED <<status, refundAmount, hung, traded>>
      BY <1>21 DEF GatewaySettles, row, fixed, past
  <2>3. status \in Refunded => refundAmount \in Amounts
      BY DEF Inv, AmountsAreHung
  <2> QED
      BY <2>1, <2>2, <2>3 DEF Inv, RefundedMeansPaidBack, OneAmountHung
<1>22. ASSUME UserSpends PROVE RefundedMeansPaidBack'
    BY <1>22, AmountAssumption
       DEF UserSpends, row, goods, audit, fixed, thread, limits, past, Inv, TypeOK,
           RowTypes, ThreadTypes, UpstreamTypes, PastTypes, AmountsAreHung,
           RefundedMeansPaidBack, OneAmountHung, Amounts, Refunded, Refundable, Statuses,
           Labels, Executing, Plan
<1>23. ASSUME UserBuys PROVE RefundedMeansPaidBack'
    BY <1>23, AmountAssumption
       DEF UserBuys, row, goods, audit, fixed, thread, limits, past, Inv, TypeOK, RowTypes,
           ThreadTypes, UpstreamTypes, PastTypes, AmountsAreHung, RefundedMeansPaidBack,
           OneAmountHung, Amounts, Refunded, Refundable, Statuses, Labels, Executing, Plan
<1>24. ASSUME UNCHANGED vars PROVE RefundedMeansPaidBack'
    BY <1>24, AmountAssumption
       DEF vars, row, goods, audit, fixed, thread, limits, past, Inv, TypeOK, RowTypes,
           ThreadTypes, UpstreamTypes, PastTypes, AmountsAreHung, RefundedMeansPaidBack,
           OneAmountHung, Amounts, Refunded, Refundable, Statuses, Labels, Executing, Plan
<1> QED
    BY <1>1, <1>2, <1>3, <1>4, <1>5, <1>6, <1>7, <1>8, <1>9, <1>10, <1>11, <1>12, <1>13,
       <1>14, <1>15, <1>16, <1>17, <1>18, <1>19, <1>20, <1>21, <1>22, <1>23, <1>24, <1>25
       DEF Next, ExecuteRefund, QueryAndFinalizeRefund

\* The initial states satisfy the invariant.
LEMMA InvInit == Init => Inv
<1> SUFFICES ASSUME Init PROVE Inv
    OBVIOUS
<1>1. TypeOK
  <2>1. RowTypes
    <3>1. traded \in BOOLEAN /\ keyed \in BOOLEAN
        BY Zenon DEF Init
    <3> QED
        BY <3>1, AmountAssumption DEF Init, RowTypes, Statuses, Refundable
  <2>2. AuditTypes
    <3>1. pending \in [id : 0 .. Amount, ok : BOOLEAN]
        BY AmountAssumption DEF Init, NoDetail
    <3>2. rollbackFailed \in BOOLEAN /\ succeeded \in BOOLEAN
        BY Zenon DEF Init
    <3> QED
        BY <3>1, <3>2 DEF AuditTypes
  <2>3. GoodsTypes
    <3>1. held \in Nat /\ taken \in Int
        BY BoundsAssumption DEF Init
    <3>2. revoked \in BOOLEAN
        BY Zenon DEF Init
    <3> QED
        BY <3>1, <3>2 DEF GoodsTypes
  <2>4. UpstreamTypes /\ PastTypes
      BY AmountAssumption, BoundsAssumption DEF Init, UpstreamTypes, PastTypes, NoRefund
  <2>5. NoPlan \in Plan
      BY AmountAssumption DEF NoPlan, Plan, Statuses, Refundable
  <2>6. ThreadTypes
      BY <2>5 DEF Init, ThreadTypes, Labels
  <2> QED
      BY <2>1, <2>2, <2>3, <2>4, <2>6 DEF TypeOK
<1>2. OneRefundAtATime /\ RollbackRecorded /\ PlanMatchesTaken /\ AmountsAreHung
    BY AmountAssumption
       DEF Init, OneRefundAtATime, RollbackRecorded, PlanMatchesTaken, AmountsAreHung,
           Executing, NoDetail, NoPlan, Refunded, Refundable
<1>3. RefundedMeansPaidBack
    BY DEF Init, RefundedMeansPaidBack, Refunded
<1> QED
    BY <1>1, <1>2, <1>3 DEF Inv

\* The invariant holds for every amount, any number of admin requests and any
\* number of failures.
THEOREM Invariance == Spec => []Inv
<1>1. Inv /\ [Next]_vars => Inv'
    BY TypeNext, LockNext, RecordNext, MoneyNext, AmountsNext, PaidBackNext DEF Inv
<1> QED
    BY <1>1, InvInit, PTL DEF Spec

\* Type correctness.
THEOREM TypeCorrect == Spec => []TypeOK
<1>1. Inv => TypeOK
    BY DEF Inv
<1> QED
    BY <1>1, Invariance, PTL

\* Without a failed rollback, a deduction committed under an error or a stale
\* finalisation, an order that is not being refunded and was not refunded cost
\* the user nothing.
THEOREM NothingTaken == Spec => []NothingTakenUnrefunded
<1>1. Inv => NothingTakenUnrefunded
    BY DEF Inv, PlanMatchesTaken, NothingTakenUnrefunded
<1> QED
    BY <1>1, Invariance, PTL

\* Without them the user never loses more than the order granted.
THEOREM Deduction == Spec => []DeductedOnce
<1>1. Inv => DeductedOnce
    BY DEF Inv, PlanMatchesTaken, DeductedOnce
<1> QED
    BY <1>1, Invariance, PTL

\* The status is a lock around a running refund.
THEOREM Exclusion == Spec => []OneRefundAtATime
<1>1. Inv => OneRefundAtATime
    BY DEF Inv
<1> QED
    BY <1>1, Invariance, PTL

\* A refunded order was refunded by the gateway.
THEOREM PaidBack == Spec => []RefundedMeansPaidBack
<1>1. Inv => RefundedMeansPaidBack
    BY DEF Inv
<1> QED
    BY <1>1, Invariance, PTL

\* Without a stale finalisation a refund is final.
THEOREM Finality == Spec => RefundIsFinal
<1>1. Inv /\ [Next]_vars =>
        (("stale" \notin lapses' /\ status \in Refunded) => status' = status)
  <2> SUFFICES ASSUME Inv, [Next]_vars, "stale" \notin lapses', status \in Refunded
               PROVE  status' = status
      OBVIOUS
  <2>1. "stale" \notin lapses /\ \A a \in Admins : pc[a] \notin Executing
    <3>1. lapses \subseteq lapses'
        BY
           DEF Next, ExecuteRefund, QueryAndFinalizeRefund, PrepareRefund, LockOrder,
               CheckRollbackFailed, Deduct, GwRefund, MarkRefundOk, UnwindPending,
               MarkRefundPending, AuditPending, RollbackRefund, RestoreStatus,
               MarkRefundFailed, StartFinalize, LatestRefundPendingDetail, QueryRefund,
               FinalizePendingRefundSuccess, FinalizeRefundFailed, DeductFails, ReadFails, Crash,
               RequestRefund, GatewaySettles, UserSpends, UserBuys, RollbackOk,
               RollbackFails, past, vars
    <3> QED
        BY <3>1 DEF Inv, OneRefundAtATime, Refunded
  <2>2. status \notin Refundable /\ status # "REFUND_PENDING" /\ status # "COMPLETED"
      BY DEF Refunded, Refundable
  <2>3. ASSUME NEW a \in Admins, ExecuteRefund(a) PROVE status' = status
      BY <2>1, <2>2, <2>3
         DEF ExecuteRefund, Executing, LockOrder, MayLock, CheckRollbackFailed, Deduct,
             GwRefund, MarkRefundOk, UnwindPending, MarkRefundPending, AuditPending,
             RollbackRefund, RestoreStatus, MarkRefundFailed, row
  <2>4. ASSUME NEW a \in Admins, QueryAndFinalizeRefund(a) PROVE status' = status
    <3>1. ~FinalizeRefundFailed(a)
        BY <2>2 DEF FinalizeRefundFailed
    <3> QED
        BY <2>2, <2>4, <3>1
           DEF QueryAndFinalizeRefund, StartFinalize, LatestRefundPendingDetail,
               QueryRefund, FinalizePendingRefundSuccess, MayFinalize, row
  <2>5. ASSUME NEW a \in Admins, PrepareRefund(a) \/ DeductFails(a) \/ ReadFails(a) \/ Crash(a)
        PROVE  status' = status
      BY <2>5 DEF PrepareRefund, DeductFails, ReadFails, Crash, row
  <2>6. ASSUME RequestRefund \/ GatewaySettles \/ UserSpends \/ UserBuys
        PROVE  status' = status
      BY <2>2, <2>6 DEF RequestRefund, GatewaySettles, UserSpends, UserBuys, row
  <2>7. ASSUME UNCHANGED vars PROVE status' = status
      BY <2>7 DEF vars, row
  <2> QED
      BY <2>3, <2>4, <2>5, <2>6, <2>7 DEF Next
<1> QED
    BY <1>1, Invariance, PTL DEF Spec, RefundIsFinal

-----------------------------------------------------------------------------
(* The refinement of RefundPromise.                                        *)

\* The initial states are initial states of the promise.
LEMMA PromiseInit == Init => Promise!Init
<1> SUFFICES ASSUME Init PROVE Promise!Init
    OBVIOUS
<1>1. /\ [x \in Amounts |-> upstream[x].open + upstream[x].paid] = [x \in 1 .. Amount |-> 0]
      /\ [x \in Amounts |-> upstream[x].paid] = [x \in 1 .. Amount |-> 0]
    BY DEF Init, Amounts, NoRefund
<1>2. traded \in BOOLEAN /\ keyed \in BOOLEAN
    BY DEF Init
<1>3. ~(lapses # {}) /\ ~("stale" \in lapses) /\ OneAmountHung
    BY DEF Init, OneAmountHung
<1>4. PhaseOf(status) = "open" /\ status \notin Refunded /\ taken = 0
    BY DEF Init, PhaseOf, Refunded
<1> QED
    BY <1>1, <1>2, <1>3, <1>4 DEF Promise!Init, Promise!Amounts

\* The phases of the statuses.
LEMMA Phases ==
    /\ \A s \in Refunded : PhaseOf(s) = "refunded"
    /\ PhaseOf("REFUND_PENDING") = "pending" /\ "REFUND_PENDING" \notin Refunded
    /\ PhaseOf("REFUNDING") = "refunding" /\ "REFUNDING" \notin Refunded
    /\ \A s \in {"COMPLETED", "REFUND_REQUESTED", "REFUND_FAILED"} :
            PhaseOf(s) = "open" /\ s \notin Refunded
BY DEF PhaseOf, Refunded

\* A step that leaves the status, the amount and the gateway alone.
LEMMA SameOrder ==
    /\ UNCHANGED row =>
        /\ PhaseOf(status)' = PhaseOf(status)
        /\ (IF status \in Refunded THEN refundAmount ELSE 0)'
                = IF status \in Refunded THEN refundAmount ELSE 0
    /\ UNCHANGED <<upstream, traded, keyed>> => UNCHANGED Promise!gateway
    /\ UNCHANGED <<hung, lapses>> => UNCHANGED Promise!excuses
BY DEF row, PhaseOf, OneAmountHung, Promise!gateway, Promise!excuses

\* Behind the lock the order is locked, for the promise too.
LEMMA LockedBehind ==
    ASSUME Inv, NEW a \in Admins, pc[a] \in Executing
    PROVE  Promise!Locked
BY Phases DEF Inv, OneRefundAtATime, Promise!Locked

\* Nothing is taken of an order that waits, nor where a request has returned it
\* or not taken it yet.
LEMMA UntouchedThen ==
    ASSUME Inv
    PROVE  /\ status \in Refundable => Promise!Untouched
           /\ \A a \in Admins :
                pc[a] \in {"check", "deduct", "markPending", "restore", "markFailed"} =>
                    Promise!Untouched
BY DEF Inv, PlanMatchesTaken, RollbackRecorded, Promise!Untouched

\* Statements that change nothing the promise speaks of.
LEMMA Silent ==
    ASSUME Inv,
           \/ \E a \in Admins :
                \/ PrepareRefund(a) \/ CheckRollbackFailed(a) \/ AuditPending(a)
                \/ StartFinalize(a) \/ QueryRefund(a) \/ Crash(a)
           \/ UserBuys \/ UserSpends \/ UNCHANGED vars
    PROVE  UNCHANGED Promise!vars
<1>1. UNCHANGED row /\ UNCHANGED <<upstream, traded, keyed>> /\ UNCHANGED <<hung, lapses>>
      /\ taken' = taken
    BY DEF PrepareRefund, CheckRollbackFailed, AuditPending, StartFinalize,
           QueryRefund, Crash, UserBuys, UserSpends, vars, row, goods, fixed, past
<1> QED
    BY <1>1, SameOrder DEF Promise!vars

\* The question about a pending refund, perhaps about another amount.
LEMMA GuessStep ==
    ASSUME Inv, NEW a \in Admins, LatestRefundPendingDetail(a) \/ ReadFails(a)
    PROVE  Promise!Blur \/ UNCHANGED Promise!vars
<1>1. UNCHANGED row /\ UNCHANGED <<upstream, traded, keyed>> /\ lapses' = lapses
      /\ taken' = taken
    BY DEF LatestRefundPendingDetail, ReadFails, goods, fixed
<1>2. hung \subseteq hung'
    BY GuessFacts DEF LatestRefundPendingDetail, ReadFails, Inv, TypeOK
<1>3. CASE OneAmountHung' = OneAmountHung
    BY <1>1, <1>3, SameOrder DEF Promise!vars, Promise!excuses
<1>4. CASE ~OneAmountHung'
    BY <1>1, <1>4, SameOrder DEF Promise!Blur
<1> QED
    BY <1>2, <1>3, <1>4 DEF OneAmountHung

\* The lock.
LEMMA LockStep ==
    ASSUME Inv, NEW a \in Admins, LockOrder(a)
    PROVE  Promise!Lock \/ UNCHANGED Promise!vars
<1>1. UNCHANGED <<upstream, traded, keyed>> /\ UNCHANGED <<hung, lapses>> /\ taken' = taken
    BY DEF LockOrder, goods, fixed, past
<1>2. CASE status' = status
    BY <1>1, <1>2, SameOrder DEF LockOrder, row, Promise!vars
<1>3. CASE MayLock /\ status' = "REFUNDING"
  <2>1. status \in Refundable /\ status \notin Refunded
      BY <1>3 DEF MayLock, Refundable, Refunded
  <2>2. PhaseOf(status) \in {"open", "pending"}
      BY <2>1, Phases DEF Refundable
  <2> QED
      BY <1>1, <1>3, <2>1, <2>2, Phases, SameOrder, UntouchedThen DEF Promise!Lock
<1> QED
    BY <1>2, <1>3 DEF LockOrder

\* The deduction.
LEMMA DeductStep ==
    ASSUME Inv, NEW a \in Admins, Deduct(a)
    PROVE  Promise!TakeBack \/ UNCHANGED Promise!vars
<1>1. UNCHANGED row /\ UNCHANGED <<upstream, traded, keyed>> /\ UNCHANGED <<hung, lapses>>
    BY DEF Deduct, fixed, past
<1>2. CASE UNCHANGED goods
    BY <1>1, <1>2, SameOrder DEF goods, Promise!vars
<1>3. CASE Take(plan[a].deduct)
  <2>1. Promise!Locked /\ Promise!Untouched
      BY LockedBehind, UntouchedThen DEF Deduct, Executing
  <2>2. Available(plan[a].deduct) \in 0 .. Amount
      BY AvailableRange DEF Inv, TypeOK, ThreadTypes, Plan
  <2>3. lapses # {} \/ taken' \in 0 .. Amount
      BY <1>3, <2>1, <2>2 DEF Take, Promise!Untouched
  <2> QED
      BY <1>1, <2>1, <2>3, SameOrder DEF Promise!TakeBack
<1> QED
    BY <1>2, <1>3 DEF Deduct

\* The deduction that fails, perhaps after it was committed.
LEMMA DeductFailsStep ==
    ASSUME Inv, NEW a \in Admins, DeductFails(a)
    PROVE  Promise!Lose \/ UNCHANGED Promise!vars
<1>1. UNCHANGED row /\ UNCHANGED <<upstream, traded, keyed>> /\ hung' = hung
    BY DEF DeductFails, fixed
<1>2. CASE UNCHANGED goods /\ UNCHANGED lapses
    BY <1>1, <1>2, SameOrder DEF goods, Promise!vars
<1>3. CASE lapses' = lapses \cup {"untracked"}
  <2>1. (lapses # {})' = TRUE /\ ("stale" \in lapses)' = ("stale" \in lapses)
      BY <1>3
  <2>2. OneAmountHung' = OneAmountHung
      BY <1>1 DEF OneAmountHung
  <2>3. Promise!Locked
      BY LockedBehind DEF DeductFails, Executing
  <2> QED
      BY <1>1, <2>1, <2>2, <2>3, SameOrder DEF Promise!Lose
<1> QED
    BY <1>2, <1>3 DEF DeductFails

\* The call of the gateway.
LEMMA GatewayStep ==
    ASSUME Inv, NEW a \in Admins, GwRefund(a)
    PROVE  Promise!Ask \/ UNCHANGED Promise!vars
<1>1. UNCHANGED row /\ UNCHANGED <<hung, lapses>> /\ taken' = taken
      /\ traded' = traded /\ keyed' = keyed
    BY DEF GwRefund, goods, fixed, past
<1>2. CASE UNCHANGED upstream
    BY <1>1, <1>2, SameOrder DEF Promise!vars
<1>3. CASE traded /\ \E answer \in Answers : GatewayActs(plan[a].amount, answer)
  <2> DEFINE x == plan[a].amount
             A == [y \in Amounts |-> upstream[y].open + upstream[y].paid]
             P == [y \in Amounts |-> upstream[y].paid]
  <2>1. x \in Amounts /\ Promise!Locked
      BY LockedBehind DEF GwRefund, Inv, AmountsAreHung, Executing
  <2>2. upstream \in [Amounts -> [open : Nat, paid : Nat, refused : BOOLEAN]]
      BY DEF Inv, TypeOK, UpstreamTypes
  <2>3. PICK answer \in Answers : GatewayActs(x, answer)
      BY <1>3
  <2>4. CASE ~(WithinPayment(x) /\ ~Repeated(x))
      BY <1>2, <2>3, <2>4 DEF GatewayActs
  <2>5. CASE WithinPayment(x) /\ ~Repeated(x)
    <3>1. keyed => A[x] = 0
      <4>1. keyed => ~(upstream[x].paid > 0) /\ ~(upstream[x].open > 0)
        <5>1. keyed => Known(x) # "refunded" /\ Known(x) # "pending"
            BY <2>5 DEF Repeated
        <5> QED
            BY <5>1 DEF Known
      <4>2. upstream[x].paid \in Nat /\ upstream[x].open \in Nat
          BY <2>1, <2>2
      <4>3. A[x] = upstream[x].open + upstream[x].paid
          BY <2>1
      <4> QED
          BY <4>1, <4>2, <4>3
    <3>2. upstream' = [upstream EXCEPT
            ![x].open    = IF answer = "pending" THEN @ + 1 ELSE @,
            ![x].paid    = IF answer = "refunded" THEN @ + 1 ELSE @,
            ![x].refused = answer = "failed"]
        BY <2>3, <2>5 DEF GatewayActs
    <3>3. /\ \A y \in Amounts \ {x} : upstream'[y] = upstream[y]
          /\ upstream'[x].open = IF answer = "pending" THEN upstream[x].open + 1
                                 ELSE upstream[x].open
          /\ upstream'[x].paid = IF answer = "refunded" THEN upstream[x].paid + 1
                                 ELSE upstream[x].paid
        BY <2>1, <2>2, <3>2
    <3>4. CASE answer = "failed"
      <4>1. UNCHANGED <<A, P>>
          BY <3>3, <3>4
      <4> QED
          BY <1>1, <4>1, SameOrder DEF Promise!vars, Promise!gateway
    <3>5. CASE answer # "failed"
      <4>1. A' = [A EXCEPT ![x] = @ + 1]
        <5>1. upstream'[x].open + upstream'[x].paid
                = (upstream[x].open + upstream[x].paid) + 1
            BY <2>1, <2>2, <3>3, <3>5 DEF Answers
        <5> QED
            BY <3>3, <5>1
      <4>2. P' \in {P, [P EXCEPT ![x] = @ + 1]}
        <5>1. CASE answer = "refunded"
            BY <3>3, <5>1
        <5>2. CASE answer # "refunded"
            BY <3>3, <5>2
        <5> QED
            BY <5>1, <5>2
      <4> HIDE DEF x
      <4> QED
          BY <1>1, <1>3, <2>1, <3>1, <4>1, <4>2, SameOrder
             DEF Promise!Ask, Promise!Amounts, Amounts
    <3> QED
        BY <3>4, <3>5
  <2> QED
      BY <2>4, <2>5
<1> QED
    BY <1>2, <1>3 DEF GwRefund

\* The answer of the gateway to a refund that was pending there.
LEMMA AnswerStep ==
    ASSUME Inv, GatewaySettles
    PROVE  Promise!Answer
<1> DEFINE A == [y \in Amounts |-> upstream[y].open + upstream[y].paid]
           P == [y \in Amounts |-> upstream[y].paid]
<1>1. UNCHANGED row /\ UNCHANGED <<hung, lapses>> /\ taken' = taken
      /\ traded' = traded /\ keyed' = keyed
    BY DEF GatewaySettles, goods, fixed, past
<1>2. PICK x \in Amounts :
        /\ upstream[x].open > 0
        /\ \/ upstream' = [upstream EXCEPT ![x].open = @ - 1, ![x].paid = @ + 1]
           \/ upstream' = [upstream EXCEPT ![x].open = @ - 1, ![x].refused = TRUE]
    BY DEF GatewaySettles
<1>3. upstream \in [Amounts -> [open : Nat, paid : Nat, refused : BOOLEAN]]
    BY DEF Inv, TypeOK, UpstreamTypes
<1>4. P[x] < A[x]
    BY <1>2, <1>3
<1>5. /\ \A y \in Amounts \ {x} : upstream'[y] = upstream[y]
      /\ upstream'[x].open = upstream[x].open - 1
      /\ upstream'[x].paid = upstream[x].paid + 1 \/ upstream'[x].paid = upstream[x].paid
    BY <1>2, <1>3
<1>6. CASE upstream'[x].paid = upstream[x].paid + 1
  <2>1. upstream'[x].open + upstream'[x].paid = upstream[x].open + upstream[x].paid
      BY <1>3, <1>5, <1>6
  <2>2. A' = A /\ P' = [P EXCEPT ![x] = @ + 1]
      BY <1>5, <1>6, <2>1
  <2> QED
      BY <1>1, <1>4, <2>2, SameOrder DEF Promise!Answer, Promise!Amounts, Amounts
<1>7. CASE upstream'[x].paid = upstream[x].paid
  <2>1. upstream'[x].open + upstream'[x].paid = (upstream[x].open + upstream[x].paid) - 1
      BY <1>3, <1>5, <1>7
  <2>2. P' = P /\ A' = [A EXCEPT ![x] = @ - 1]
      BY <1>5, <1>7, <2>1
  <2> QED
      BY <1>1, <1>4, <2>2, SameOrder DEF Promise!Answer, Promise!Amounts, Amounts
<1> QED
    BY <1>5, <1>6, <1>7

\* The order is refunded by the request that holds the lock.
LEMMA OkStep ==
    ASSUME Inv, NEW a \in Admins, MarkRefundOk(a)
    PROVE  Promise!Settle
<1>1. UNCHANGED <<upstream, traded, keyed>> /\ UNCHANGED <<hung, lapses>> /\ taken' = taken
      /\ status' \in Refunded /\ refundAmount' = plan[a].amount /\ pc[a] = "succeed"
    BY DEF MarkRefundOk, FinalStatus, Refunded, goods, fixed, past
<1>2. plan[a].amount \in Amounts /\ (traded => upstream[plan[a].amount].paid > 0)
    BY <1>1 DEF Inv, AmountsAreHung, Executing
<1>3. lapses # {} \/ PhaseOf(status) = "refunding"
    BY <1>1, LockedBehind DEF Executing, Promise!Locked
<1>4. Promise!Locked
    BY <1>1, LockedBehind DEF Executing
<1> QED
    BY <1>1, <1>2, <1>3, <1>4, Phases, SameOrder
       DEF Promise!Settle, Promise!Amounts, Amounts

\* The rollback, whether it returns the deduction or fails.
LEMMA RollbackStep ==
    ASSUME Inv, NEW a \in Admins, UnwindPending(a) \/ RollbackRefund(a)
    PROVE  Promise!Return \/ Promise!Lose
<1>1. UNCHANGED row /\ UNCHANGED <<upstream, traded, keyed>> /\ hung' = hung
      /\ pc[a] \in {"unwind", "rollback"}
    BY DEF UnwindPending, RollbackRefund, fixed
<1>2. Promise!Locked
    BY <1>1, LockedBehind DEF Executing
<1>3. CASE RollbackOk(a)
  <2>1. lapses' = lapses /\ taken' = taken - plan[a].deduct
      BY <1>3 DEF RollbackOk, ReturnDeduction
  <2>2. lapses = {} => taken = plan[a].deduct
      BY <1>1, <1>3 DEF RollbackOk, Inv, PlanMatchesTaken
  <2>3. plan[a].deduct \in Int
      BY DEF Inv, TypeOK, ThreadTypes, Plan
  <2>4. lapses # {} \/ taken' = 0
      BY <2>1, <2>2, <2>3
  <2> QED
      BY <1>1, <1>2, <2>1, <2>4, SameOrder DEF Promise!Return
<1>4. CASE RollbackFails(a)
  <2>1. lapses' = lapses \cup {"rollback"}
      BY <1>4 DEF RollbackFails
  <2>2. (lapses # {})' = TRUE /\ ("stale" \in lapses)' = ("stale" \in lapses)
      BY <2>1
  <2>3. OneAmountHung' = OneAmountHung
      BY <1>1 DEF OneAmountHung
  <2> QED
      BY <1>1, <1>2, <2>1, <2>2, <2>3, SameOrder DEF Promise!Lose
<1> QED
    BY <1>3, <1>4 DEF UnwindPending, RollbackRefund

\* The refund is left pending; its amount joins those left before.
LEMMA HangStep ==
    ASSUME Inv, NEW a \in Admins, MarkRefundPending(a)
    PROVE  Promise!Hang
<1>1. UNCHANGED <<upstream, traded, keyed>> /\ lapses' = lapses /\ taken' = taken
      /\ status' = "REFUND_PENDING" /\ pc[a] = "markPending" /\ hung \subseteq hung'
    BY DEF MarkRefundPending, goods, fixed
<1>2. Promise!Locked /\ Promise!Untouched
    BY <1>1, LockedBehind, UntouchedThen DEF Executing
<1>3. ~OneAmountHung => ~OneAmountHung'
    BY <1>1 DEF OneAmountHung
<1> QED
    BY <1>1, <1>2, <1>3, Phases, SameOrder DEF Promise!Hang

\* The order is given back with nothing taken, or after a failed rollback.
LEMMA GiveUpStep ==
    ASSUME Inv, NEW a \in Admins, RestoreStatus(a) \/ MarkRefundFailed(a)
    PROVE  Promise!GiveUp
<1>1. UNCHANGED <<upstream, traded, keyed>> /\ UNCHANGED <<hung, lapses>> /\ taken' = taken
      /\ status' \in {"COMPLETED", "REFUND_REQUESTED", "REFUND_FAILED"}
      /\ pc[a] \in {"restore", "markFailed"}
    BY DEF RestoreStatus, MarkRefundFailed, goods, fixed, past
<1>2. Promise!Locked /\ Promise!Untouched
    BY <1>1, LockedBehind, UntouchedThen DEF Executing
<1> QED
    BY <1>1, <1>2, Phases, SameOrder DEF Promise!GiveUp

\* A pending refund is finalised: claim, deduction and status in one step.
LEMMA FinalizeStep ==
    ASSUME Inv, NEW a \in Admins, FinalizePendingRefundSuccess(a)
    PROVE  Promise!Settle \/ UNCHANGED Promise!vars
<1>1. UNCHANGED <<upstream, traded, keyed>> /\ UNCHANGED <<hung, lapses>> /\ pc[a] = "finalizeOk"
    BY DEF FinalizePendingRefundSuccess, fixed, past
<1>2. CASE UNCHANGED <<row, goods, succeeded>>
    BY <1>1, <1>2, SameOrder DEF goods, Promise!vars
<1>3. CASE /\ MayFinalize /\ Take(plan[a].deduct)
           /\ status' = FinalStatus(plan[a].amount) /\ refundAmount' = plan[a].amount
  <2>1. status' \in Refunded /\ status = "REFUND_PENDING" /\ status \in Refundable
      BY <1>3 DEF FinalStatus, Refunded, MayFinalize, Refundable
  <2>2. plan[a].amount \in Amounts
      BY <1>1 DEF Inv, AmountsAreHung
  <2>3. traded => upstream[plan[a].amount].paid > 0 \/ ~OneAmountHung
      BY <1>1, <2>2 DEF Inv, AmountsAreHung, OneAmountHung
  <2>4. Available(plan[a].deduct) \in 0 .. Amount
      BY AvailableRange DEF Inv, TypeOK, ThreadTypes, Plan
  <2>5. lapses # {} \/ (taken = 0 /\ taken' \in 0 .. Amount)
      BY <1>3, <2>1, <2>4, UntouchedThen DEF Take, Promise!Untouched
  <2> QED
      BY <1>1, <1>3, <2>1, <2>2, <2>3, <2>5, Phases, SameOrder
         DEF Promise!Settle, Promise!Amounts, Amounts
<1> QED
    BY <1>2, <1>3 DEF FinalizePendingRefundSuccess

\* A refund that the gateway refused is closed, or the order overrun.
LEMMA RefusedStep ==
    ASSUME Inv, NEW a \in Admins, FinalizeRefundFailed(a)
    PROVE  Promise!GiveUp \/ Promise!Overrun
<1>1. UNCHANGED <<upstream, traded, keyed>> /\ hung' = hung /\ taken' = taken
      /\ status' = "REFUND_FAILED"
    BY DEF FinalizeRefundFailed, goods, fixed
<1>2. CASE status = "REFUND_PENDING"
  <2>1. lapses' = lapses /\ Promise!Untouched
      BY <1>2, UntouchedThen DEF FinalizeRefundFailed, Refundable
  <2> QED
      BY <1>1, <1>2, <2>1, Phases, SameOrder DEF Promise!GiveUp
<1>3. CASE status # "REFUND_PENDING"
  <2>1. ("stale" \in lapses)' = TRUE /\ (lapses # {})' = TRUE
      BY <1>3 DEF FinalizeRefundFailed
  <2>2. OneAmountHung' = OneAmountHung
      BY <1>1 DEF OneAmountHung
  <2> QED
      BY <1>1, <2>1, <2>2, Phases, SameOrder DEF Promise!Overrun
<1> QED
    BY <1>2, <1>3

\* The user's request for a refund leaves the order open.
LEMMA RequestStep ==
    ASSUME RequestRefund
    PROVE  UNCHANGED Promise!vars
<1>1. UNCHANGED <<upstream, traded, keyed>> /\ UNCHANGED <<hung, lapses>> /\ taken' = taken
      /\ status = "COMPLETED" /\ status' = "REFUND_REQUESTED"
    BY DEF RequestRefund, goods, fixed, past
<1> QED
    BY <1>1, Phases, SameOrder DEF Promise!vars

\* Every step is a step of the promise, or leaves what it speaks of alone.
LEMMA Simulation == Inv /\ [Next]_vars => [Promise!Next]_(Promise!vars)
<1> SUFFICES ASSUME Inv, [Next]_vars PROVE [Promise!Next]_(Promise!vars)
    OBVIOUS
<1>1. ASSUME NEW a \in Admins, ExecuteRefund(a) PROVE [Promise!Next]_(Promise!vars)
    BY <1>1, LockStep, Silent, DeductStep, GatewayStep, OkStep, RollbackStep, HangStep,
       GiveUpStep
       DEF ExecuteRefund, Promise!Next
<1>2. ASSUME NEW a \in Admins, QueryAndFinalizeRefund(a)
      PROVE  [Promise!Next]_(Promise!vars)
    BY <1>2, Silent, GuessStep, FinalizeStep, RefusedStep
       DEF QueryAndFinalizeRefund, Promise!Next
<1>3. ASSUME NEW a \in Admins, PrepareRefund(a) \/ DeductFails(a) \/ ReadFails(a) \/ Crash(a)
      PROVE  [Promise!Next]_(Promise!vars)
    BY <1>3, Silent, DeductFailsStep, GuessStep DEF Promise!Next
<1>4. CASE RequestRefund \/ GatewaySettles \/ UserSpends \/ UserBuys \/ UNCHANGED vars
    BY <1>4, RequestStep, AnswerStep, Silent DEF Promise!Next
<1> QED
    BY <1>1, <1>2, <1>3, <1>4 DEF Next

\* The refund implements RefundPromise.
THEOREM Refinement == Spec => KeepsPromise
<1>1. Init => Promise!Init
    BY PromiseInit
<1>2. Inv /\ [Next]_vars => [Promise!Next]_(Promise!vars)
    BY Simulation
<1> QED
    BY <1>1, <1>2, Invariance, PTL DEF Spec, KeepsPromise, Promise!Spec

=============================================================================
