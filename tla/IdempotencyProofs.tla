-------------------------- MODULE IdempotencyProofs --------------------------
(***************************************************************************)
(* Proofs about Idempotency, for any number of processes, any fingerprints *)
(* and any times that satisfy TimesAssumption.                             *)
(***************************************************************************)
EXTENDS Idempotency, TLAPS

\* The cleanup takes away a record that is over, or none, unless it takes one that
\* was claimed after its snapshot; then it is a lapse.
LEMMA CleanupEffect ==
    ASSUME TypeOK, DeleteExpired
    PROVE  /\ victim' = 0 /\ lapsed' \in BOOLEAN
           /\ row' = row \/ (row' \in Rows /\ row'.id = 0 /\ row'.status = "none")
           /\ lapsed' = lapsed \/ (lapsed' = TRUE /\ ~lapsed)
           /\ ~lapsed' => ~lapsed /\ (row' = row \/ row.expires <= clock)
           /\ UNCHANGED <<kind, nextId, clock, pc, call, calls, faults, effects, recorded>>
<1>1. lapsed \in BOOLEAN /\ row.expires \in Nat /\ clock \in Nat
    BY DEF TypeOK, RowTypes, Rows
<1>2. row' = row \/ (row' \in Rows /\ row'.id = 0 /\ row'.status = "none")
    BY DEF DeleteExpired, NoRow, Rows
<1>3. CASE row.id = victim /\ row.expires > clock
  <2>1. lapsed' = TRUE
      BY <1>3 DEF DeleteExpired
  <2> QED
      BY <1>1, <1>2, <1>3, <2>1 DEF DeleteExpired, limits
<1>4. CASE ~(row.id = victim /\ row.expires > clock)
  <2>1. lapsed' = lapsed
      BY <1>1, <1>4, Zenon DEF DeleteExpired
  <2>2. row' = row \/ row.expires <= clock
      BY <1>1, <1>4 DEF DeleteExpired
  <2> QED
      BY <1>1, <1>2, <2>1, <2>2 DEF DeleteExpired, limits
<1> QED
    BY <1>3, <1>4


\* The sequence starts at one.
LEMMA NextIdPositive == TypeOK => nextId \in Nat /\ 0 < nextId
BY DEF TypeOK, RowTypes

\* What an UPDATE leaves in the record.
LEMMA UpdatedRow ==
    ASSUME RowTypes, NEW st \in Statuses, NEW lk \in Nat, NEW ex \in Nat,
           row' = Updated(st, lk, ex)
    PROVE  /\ row' \in Rows
           /\ row'.id = row.id /\ row'.print = row.print
           /\ row'.status = st /\ row'.locked = lk /\ row'.expires = ex
BY DEF RowTypes, Rows, Updated

\* The times that the statements write.
LEMMA TimesTypes ==
    ASSUME TypeOK, NEW p \in Procs
    PROVE  /\ call[p].at \in Nat /\ call[p].id \in Nat /\ clock \in Nat /\ row.id \in Nat
           /\ call[p].at + Lease \in Nat /\ call[p].at + TTL \in Nat
           /\ NewExpiry(p) \in Nat /\ RetryAt \in Nat /\ RenewedLock \in Nat
           /\ clock + TTL \in Nat
BY TimesAssumption
   DEF TypeOK, RowTypes, CallTypes, Rows, CallRecords, NewExpiry, RetryAt, RenewedLock

\* A step of one process keeps the types of the processes.
LEMMA StepTypes ==
    ASSUME CallTypes, NEW p \in Procs, NEW l \in Labels, NEW c \in CallRecords,
           pc' = [pc EXCEPT ![p] = l], call' = [call EXCEPT ![p] = c]
    PROVE  CallTypes'
BY DEF CallTypes

\* Going to the next statement keeps the types.
LEMMA GotoTypes ==
    ASSUME CallTypes, NEW p \in Procs, NEW l \in Labels, Goto(p, l)
    PROVE  CallTypes'
BY DEF CallTypes, Goto

\* So does the end of a request.
LEMMA ReturnTypes ==
    ASSUME CallTypes, NEW p \in Procs, Return(p)
    PROVE  CallTypes'
BY DEF CallTypes, Return, Labels, NoCall, CallRecords

\* So does a claim.
LEMMA ClaimTypes ==
    ASSUME CallTypes, NEW p \in Procs, clock \in Nat, row'.id \in Nat, Claim(p)
    PROVE  CallTypes'
<1> DEFINE c == [call[p] EXCEPT !.id = row'.id,
                                !.due = clock + (IF kind = "lock" THEN Renew ELSE Run)]
<1>1. c \in CallRecords
  <2>1. clock + (IF kind = "lock" THEN Renew ELSE Run) \in Nat
      BY TimesAssumption
  <2> QED
      BY <2>1 DEF CallTypes, CallRecords
<1>2. pc' = [pc EXCEPT ![p] = "run"] /\ call' = [call EXCEPT ![p] = c]
    BY DEF Claim, CallTypes
<1> QED
    BY <1>1, <1>2, StepTypes DEF Labels, Running

\* What a claim changes.
LEMMA ClaimEffect ==
    ASSUME CallTypes, NEW p \in Procs, Claim(p)
    PROVE  /\ pc'[p] = "run" /\ recorded' = 0
           /\ call'[p].id = row'.id /\ call'[p].print = call[p].print
           /\ call'[p].at = call[p].at /\ call'[p].lost = call[p].lost
           /\ kind = "lock" => call'[p].due = clock + Renew
           /\ kind # "lock" => call'[p].due = clock + Run
           /\ \A q \in Procs : q # p => call'[q] = call[q] /\ pc'[q] = pc[q]
BY DEF Claim, CallTypes, CallRecords

\* What the end of a request changes.
LEMMA ReturnEffect ==
    ASSUME CallTypes, NEW p \in Procs, Return(p)
    PROVE  /\ pc'[p] = "idle" /\ call'[p] = NoCall
           /\ \A q \in Procs : q # p => call'[q] = call[q] /\ pc'[q] = pc[q]
BY DEF Return, CallTypes

\* What a successful TryReclaim leaves in the record.
LEMMA ReclaimedRow ==
    ASSUME TypeOK, NEW p \in Procs, TryReclaim(p), Reclaimable(p)
    PROVE  /\ row.id = call[p].id /\ row.status = call[p].from
           /\ row.locked <= call[p].at
           /\ row'.id = row.id /\ row'.print = row.print /\ row'.status = "processing"
           /\ row'.locked = call[p].at + Lease /\ row'.expires = call[p].at + TTL
           /\ Claim(p)
BY UpdatedRow, TimesTypes DEF TryReclaim, Reclaimable, TypeOK, Statuses

\* What a failed TryReclaim changes.
LEMMA NotReclaimed ==
    ASSUME TypeOK, NEW p \in Procs, TryReclaim(p), ~Reclaimable(p)
    PROVE  /\ row' = row /\ recorded' = recorded
           /\ \/ pc'[p] = "getLatest" /\ call'[p] = call[p]
              \/ pc'[p] = "idle" /\ call'[p] = NoCall
           /\ \A q \in Procs : q # p => call'[q] = call[q] /\ pc'[q] = pc[q]
BY DEF TryReclaim, Goto, Return, TypeOK, CallTypes

\* What a record that a request goes on with is like.
LEMMA NextFound ==
    ASSUME NEW p \in Procs
    PROVE  /\ NextOfRequest(p) # "idle" => row.id # 0 /\ row.print = call[p].print
           /\ NextOfRequest(p) = "reclaimExpired" => row.expires <= call[p].at
           /\ NextOfLock(p) # "idle" => row.id # 0
BY DEF NextOfRequest, NextOfLock, SamePayload, Expired

\* What reading the record changes.
LEMMA FoundEffect ==
    ASSUME TypeOK, NEW p \in Procs, GetByScopeAndKeyHash(p)
    PROVE  /\ \/ pc'[p] = "idle" /\ call'[p] = NoCall
              \/ /\ pc'[p] = IF kind = "request" THEN NextOfRequest(p) ELSE NextOfLock(p)
                 /\ pc'[p] \in {"reclaimExpired", "reclaim"}
                 /\ call'[p].id = row.id /\ call'[p].from = row.status
                 /\ call'[p].print = call[p].print /\ call'[p].at = call[p].at
                 /\ call'[p].due = call[p].due /\ call'[p].lost = call[p].lost
           /\ \A q \in Procs : q # p => call'[q] = call[q] /\ pc'[q] = pc[q]
<1>1. CASE Return(p)
    BY <1>1, ReturnEffect DEF TypeOK
<1>2. CASE ~Return(p)
    BY <1>2
       DEF GetByScopeAndKeyHash, NextOfRequest, NextOfLock, TypeOK, CallTypes, CallRecords
<1> QED
    BY <1>1, <1>2

\* What MarkSucceeded leaves in the record.
LEMMA SucceededRow ==
    ASSUME TypeOK, NEW p \in Procs, MarkSucceeded(p)
    PROVE  /\ row'.id = row.id /\ row'.print = row.print
           /\ \/ /\ row.id = call[p].id
                 /\ row'.status = "succeeded" /\ row'.expires = NewExpiry(p)
                 /\ recorded' = call[p].at
              \/ row.id # call[p].id /\ row' = row /\ recorded' = recorded
BY UpdatedRow, TimesTypes DEF MarkSucceeded, TypeOK, Statuses

\* What MarkFailedRetryable leaves in the record.
LEMMA FailedRow ==
    ASSUME TypeOK, NEW p \in Procs, MarkFailedRetryable(p)
    PROVE  /\ row'.id = row.id /\ row'.print = row.print
           /\ row'.status = "failed_retryable" \/ row' = row
BY UpdatedRow, TimesTypes DEF MarkFailedRetryable, TypeOK, Statuses

\* What a renewal changes.
LEMMA RenewedRow ==
    ASSUME TypeOK, NEW p \in Procs, ExtendProcessingLock(p)
    PROVE  /\ row'.id = row.id /\ row'.print = row.print /\ row'.status = row.status
           /\ call'[p].id = call[p].id /\ call'[p].print = call[p].print
           /\ call'[p].at = call[p].at
           /\ \A q \in Procs : q # p => call'[q] = call[q]
           /\ ~lapsed' =>
                /\ row'.locked = clock + Lease /\ row'.expires = clock + TTL
                /\ call'[p].due = clock + Renew /\ call'[p].lost = call[p].lost
                /\ ~lapsed
<1>1. CASE row' = Updated("processing", RenewedLock, clock + TTL) /\ row.status = "processing"
           /\ call' = [call EXCEPT ![p].due = clock + Renew] /\ lapsed' = lapsed
    BY <1>1, UpdatedRow, TimesTypes
       DEF TypeOK, CallTypes, CallRecords, Statuses, RenewedLock
<1>2. CASE row' = row /\ lapsed' = TRUE
    BY <1>2 DEF ExtendProcessingLock, TypeOK, CallTypes, CallRecords
<1> QED
    BY <1>1, <1>2 DEF ExtendProcessingLock

\* Nobody runs when a record can be reclaimed.
LEMMA Nobody ==
    ASSUME Inv, ~lapsed, NEW p \in Procs, TryReclaim(p), Reclaimable(p), NEW q \in Procs
    PROVE  pc[q] \notin Running
<1> SUFFICES ASSUME pc[q] \in Running PROVE FALSE
    OBVIOUS
<1>1. row.status = "processing" /\ row.locked <= call[p].at /\ call[p].at <= clock
    BY ReclaimedRow DEF Inv, OwnsRecord, NobodyLate
<1>2. CASE kind = "lock"
    BY <1>1, <1>2, TimesTypes
       DEF Inv, TypeOK, RowTypes, Rows, CallTypes, CallRecords, OwnsRecord, NobodyLate
<1>3. CASE kind = "request"
  <2>1. pc[p] = "reclaimExpired"
      BY <1>1, <1>3 DEF TryReclaim, Reclaimable, Inv, RetriesFailure
  <2>2. call[p].at <= call[q].at + Delay /\ row.locked = call[q].at + Lease
      BY <1>3, <2>1 DEF Inv, FoundBeforeClaim, OwnsRecord
  <2> QED
      BY <1>1, <2>2, TimesTypes, TimesAssumption DEF Inv
<1> QED
    BY <1>2, <1>3 DEF Inv, TypeOK, RowTypes


\* Every statement and event keeps the types.
LEMMA TypeNext == TypeOK /\ [Next]_vars => TypeOK'
<1> SUFFICES ASSUME TypeOK, [Next]_vars PROVE TypeOK'
    OBVIOUS
<1>1. ASSUME NEW p \in Procs, Begin(p) PROVE TypeOK'
  <2>1. PICK f \in Prints : call' = [call EXCEPT ![p] = [NoCall EXCEPT !.print = f, !.at = clock]]
      BY <1>1 DEF Begin
  <2>2. [NoCall EXCEPT !.print = f, !.at = clock] \in CallRecords
      BY DEF NoCall, CallRecords, TypeOK, RowTypes
  <2>3. CallTypes'
      BY <1>1, <2>1, <2>2, StepTypes DEF Begin, TypeOK, Labels, Claiming
  <2>4. \A q \in Procs : call'[q].id < nextId
      BY <2>1, NextIdPositive DEF TypeOK, CallTypes, NoCall
  <2> QED
      BY <1>1, <2>3, <2>4 DEF Begin, TypeOK, RowTypes, history
<1>2. ASSUME NEW p \in Procs, CreateProcessing(p) PROVE TypeOK'
  <2>1. CASE row.id = 0
    <3>1. RowTypes'
        BY <1>2, <2>1, TimesAssumption
           DEF CreateProcessing, NextVal, TypeOK, RowTypes, Rows, Statuses, CallTypes,
               CallRecords
    <3>2. CallTypes'
        BY <1>2, <2>1, <3>1, ClaimTypes DEF CreateProcessing, TypeOK, RowTypes, Rows
    <3>3. \A q \in Procs : call'[q].id < nextId'
        BY <1>2, <2>1, <3>1
           DEF CreateProcessing, NextVal, Claim, TypeOK, RowTypes, CallTypes, CallRecords
    <3> QED
        BY <1>2, <2>1, <3>1, <3>2, <3>3
           DEF CreateProcessing, NextVal, Claim, TypeOK, RowTypes, limits
  <2>2. CASE row.id # 0
    <3>1. CallTypes'
        BY <1>2, <2>2, GotoTypes DEF CreateProcessing, TypeOK, Labels, Claiming
    <3> QED
        BY <1>2, <2>2, <3>1 DEF CreateProcessing, Goto, TypeOK, RowTypes, limits
  <2> QED
      BY <2>1, <2>2
<1>3. ASSUME NEW p \in Procs, GetByScopeAndKeyHash(p) PROVE TypeOK'
  <2>1. CASE Return(p)
    <3>1. CallTypes'
        BY <2>1, ReturnTypes DEF TypeOK
    <3>2. \A q \in Procs : call'[q].id < nextId
        BY <2>1, NextIdPositive DEF Return, NoCall, TypeOK, CallTypes
    <3> QED
        BY <1>3, <3>1, <3>2 DEF GetByScopeAndKeyHash, TypeOK, RowTypes, limits, history
  <2>2. CASE call' = [call EXCEPT ![p].id = row.id, ![p].from = row.status]
    <3> DEFINE c == [call[p] EXCEPT !.id = row.id, !.from = row.status]
    <3>1. c \in CallRecords
        BY DEF TypeOK, RowTypes, CallTypes, Rows, CallRecords
    <3>2. call' = [call EXCEPT ![p] = c]
        BY <2>2 DEF TypeOK, CallTypes
    <3>3. PICK l \in {"idle", "reclaimExpired", "reclaim"} : pc' = [pc EXCEPT ![p] = l]
        BY <1>3 DEF GetByScopeAndKeyHash, NextOfRequest, NextOfLock, Return
    <3>4. CallTypes'
        BY <3>1, <3>2, <3>3, StepTypes DEF TypeOK, Labels, Claiming
    <3>5. \A q \in Procs : call'[q].id < nextId
        BY <3>2 DEF TypeOK, RowTypes, CallTypes, CallRecords
    <3> QED
        BY <1>3, <3>4, <3>5 DEF GetByScopeAndKeyHash, TypeOK, RowTypes, limits, history
  <2> QED
      BY <1>3, <2>1, <2>2 DEF GetByScopeAndKeyHash
<1>4. ASSUME NEW p \in Procs, TryReclaim(p) PROVE TypeOK'
  <2>1. CASE Reclaimable(p)
    <3>1. RowTypes' /\ row'.id = row.id
        BY <1>4, <2>1, UpdatedRow, TimesTypes DEF TryReclaim, TypeOK, RowTypes, Statuses
    <3>2. CallTypes'
        BY <1>4, <2>1, <3>1, ClaimTypes DEF TryReclaim, TypeOK, RowTypes, Rows
    <3>3. \A q \in Procs : call'[q].id < nextId
        BY <1>4, <2>1, <3>1 DEF TryReclaim, Claim, TypeOK, RowTypes, CallTypes, CallRecords
    <3> QED
        BY <1>4, <2>1, <3>1, <3>2, <3>3 DEF TryReclaim, Claim, TypeOK, limits
  <2>2. CASE ~Reclaimable(p)
    <3>1. CallTypes'
        BY <1>4, <2>2, GotoTypes, ReturnTypes DEF TryReclaim, TypeOK, Labels, Claiming
    <3>2. \A q \in Procs : call'[q].id < nextId
        BY <1>4, <2>2, NextIdPositive
           DEF TryReclaim, Goto, Return, NoCall, TypeOK, RowTypes, CallTypes, CallRecords
    <3> QED
        BY <1>4, <2>2, <3>1, <3>2 DEF TryReclaim, TypeOK, RowTypes, limits
  <2> QED
      BY <2>1, <2>2
<1>5. ASSUME NEW p \in Procs, Executed(p) PROVE TypeOK'
    BY <1>5, TimesAssumption
       DEF Executed, Goto, limits, history, TypeOK, RowTypes, CallTypes, Rows, CallRecords,
           Labels, Claiming, Running, Statuses, NoRow, NoCall
<1>6. ASSUME NEW p \in Procs, MarkSucceeded(p) PROVE TypeOK'
  <2>1. CallTypes'
      BY <1>6, ReturnTypes DEF MarkSucceeded, TypeOK
  <2>2. RowTypes' /\ row'.id = row.id
      BY <1>6, UpdatedRow, TimesTypes DEF MarkSucceeded, TypeOK, RowTypes, Statuses
  <2>3. \A q \in Procs : call'[q].id < nextId
      BY <1>6, NextIdPositive DEF MarkSucceeded, Return, NoCall, TypeOK, CallTypes
  <2>4. recorded' \in Nat
      BY <1>6 DEF MarkSucceeded, TypeOK, CallTypes, CallRecords
  <2> QED
      BY <1>6, <2>1, <2>2, <2>3, <2>4 DEF MarkSucceeded, TypeOK, limits
<1>7. ASSUME NEW p \in Procs, MarkFailedRetryable(p) PROVE TypeOK'
  <2>1. CallTypes'
      BY <1>7, ReturnTypes DEF MarkFailedRetryable, TypeOK
  <2>2. RowTypes' /\ row'.id = row.id
      BY <1>7, UpdatedRow, TimesTypes DEF MarkFailedRetryable, TypeOK, RowTypes, Statuses
  <2>3. \A q \in Procs : call'[q].id < nextId
      BY <1>7, NextIdPositive DEF MarkFailedRetryable, Return, NoCall, TypeOK, CallTypes
  <2> QED
      BY <1>7, <2>1, <2>2, <2>3 DEF MarkFailedRetryable, TypeOK, limits, history
<1>8. ASSUME NEW p \in Procs, ExtendProcessingLock(p) PROVE TypeOK'
  <2>1. RowTypes' /\ row'.id = row.id
      BY <1>8, UpdatedRow, TimesTypes DEF ExtendProcessingLock, TypeOK, RowTypes, Statuses
  <2>2. PICK c \in CallRecords : call' = [call EXCEPT ![p] = c] /\ c.id = call[p].id
    <3>1. call[p] \in CallRecords /\ clock \in Nat
        BY DEF TypeOK, RowTypes, CallTypes
    <3>2. CASE call' = [call EXCEPT ![p].due = clock + Renew]
      <4> DEFINE c == [call[p] EXCEPT !.due = clock + Renew]
      <4>1. c \in CallRecords /\ c.id = call[p].id
          BY <3>1, TimesAssumption DEF CallRecords
      <4>2. call' = [call EXCEPT ![p] = c]
          BY <3>2 DEF TypeOK, CallTypes
      <4> QED
          BY <4>1, <4>2
    <3>3. CASE call' = [call EXCEPT ![p].lost = TRUE]
      <4> DEFINE c == [call[p] EXCEPT !.lost = TRUE]
      <4>1. c \in CallRecords /\ c.id = call[p].id
          BY <3>1 DEF CallRecords
      <4>2. call' = [call EXCEPT ![p] = c]
          BY <3>3 DEF TypeOK, CallTypes
      <4> QED
          BY <4>1, <4>2
    <3> QED
        BY <1>8, <3>2, <3>3 DEF ExtendProcessingLock
  <2>3. CallTypes'
      BY <1>8, <2>2 DEF ExtendProcessingLock, TypeOK, CallTypes
  <2>4. \A q \in Procs : call'[q].id < nextId
      BY <2>2 DEF TypeOK, CallTypes
  <2>5. calls' \in Nat /\ faults' \in Nat
      BY <1>8 DEF ExtendProcessingLock, Fault, limits, TypeOK
  <2>6. lapsed' \in BOOLEAN
      BY <1>8, Zenon DEF ExtendProcessingLock, TypeOK
  <2> QED
      BY <1>8, <2>1, <2>3, <2>4, <2>5, <2>6 DEF ExtendProcessingLock, TypeOK
<1>9. ASSUME NEW p \in Procs, Crash(p) PROVE TypeOK'
    BY <1>9, TimesAssumption
       DEF Crash, Fault, Return, limits, history, TypeOK, RowTypes, CallTypes, Rows,
           CallRecords, Labels, Claiming, Running, Statuses, NoRow, NoCall
<1>10. ASSUME DeleteExpired PROVE TypeOK'
  <2>1. row' \in Rows
      BY <1>10, CleanupEffect DEF TypeOK, RowTypes
  <2>2. victim' \in Nat
      BY <1>10, CleanupEffect
  <2>3. RowTypes'
      BY <1>10, <2>1, <2>2, CleanupEffect DEF TypeOK, RowTypes
  <2>4. CallTypes'
      BY <1>10, CleanupEffect DEF TypeOK, CallTypes
  <2>5. row'.id < nextId'
      BY <1>10, CleanupEffect, NextIdPositive DEF TypeOK
  <2> QED
      BY <1>10, <2>3, <2>4, <2>5, CleanupEffect DEF TypeOK
<1>11. ASSUME Tick PROVE TypeOK'
    BY <1>11, TimesAssumption
       DEF Tick, OnTime, limits, history, TypeOK, RowTypes, CallTypes, Rows, CallRecords,
           Labels, Claiming, Running, Statuses, NoRow, NoCall
<1>12. ASSUME Stall PROVE TypeOK'
    BY <1>12, TimesAssumption
       DEF Stall, Fault, limits, history, TypeOK, RowTypes, CallTypes, Rows, CallRecords,
           Labels, Claiming, Running, Statuses, NoRow, NoCall
<1>13. ASSUME UNCHANGED vars PROVE TypeOK'
    BY <1>13, TimesAssumption
       DEF vars, limits, history, TypeOK, RowTypes, CallTypes, Rows, CallRecords, Labels,
           Claiming, Running, Statuses, NoRow, NoCall
<1>14. ASSUME SelectExpired PROVE TypeOK'
    BY <1>14, TimesAssumption
       DEF SelectExpired, limits, history, TypeOK, RowTypes, CallTypes, Rows, CallRecords, Labels,
           Claiming, Running, Statuses, NoRow, NoCall
<1> QED
    BY <1>1, <1>2, <1>3, <1>4, <1>5, <1>6, <1>7, <1>8, <1>9, <1>10, <1>11, <1>12, <1>13,
       <1>14
       DEF Next

\* A request only gets hold of a record of its payload.
LEMMA PayloadNext == TypeOK /\ PayloadMatches /\ [Next]_vars => PayloadMatches'
<1> SUFFICES ASSUME TypeOK, PayloadMatches, [Next]_vars PROVE PayloadMatches'
    OBVIOUS
<1>1. ASSUME NEW p \in Procs, Begin(p) PROVE PayloadMatches'
    BY <1>1
       DEF Begin, limits, history, TypeOK, RowTypes, CallTypes, Rows, CallRecords,
           PayloadMatches, Found, Labels, Claiming, Running, NoRow, NoCall
<1>2. ASSUME NEW p \in Procs, CreateProcessing(p) PROVE PayloadMatches'
    BY <1>2
       DEF CreateProcessing, NextVal, Claim, Goto, limits, history, TypeOK, RowTypes,
           CallTypes, Rows, CallRecords, PayloadMatches, Found, Labels, Claiming, Running,
           NoRow, NoCall
<1>3. ASSUME NEW p \in Procs, GetByScopeAndKeyHash(p) PROVE PayloadMatches'
  <2> SUFFICES ASSUME NEW q \in Procs
               PROVE  /\ pc'[q] \in Found => call'[q].id # 0
                      /\ kind' = "request" /\ pc'[q] \in Found /\ row'.id = call'[q].id =>
                              row'.print = call'[q].print
                      /\ kind' = "request" /\ pc'[q] = "markOk" => call'[q].print \in effects'
      BY DEF PayloadMatches
  <2>1. kind' = kind /\ row' = row /\ effects' = effects
      BY <1>3 DEF GetByScopeAndKeyHash, history
  <2>2. CASE q = p
      BY <1>3, <2>1, <2>2, FoundEffect, NextFound DEF Found, Running, TypeOK, RowTypes
  <2>3. CASE q # p
      BY <1>3, <2>1, <2>3, FoundEffect DEF PayloadMatches
  <2> QED
      BY <2>2, <2>3
<1>4. ASSUME NEW p \in Procs, TryReclaim(p) PROVE PayloadMatches'
  <2>1. CASE Reclaimable(p)
      BY <1>4, <2>1, ReclaimedRow, ClaimEffect
         DEF TryReclaim, PayloadMatches, Found, Running, TypeOK
  <2>2. CASE ~Reclaimable(p)
      BY <1>4, <2>2, NotReclaimed DEF TryReclaim, PayloadMatches, Found, Running
  <2> QED
      BY <2>1, <2>2
<1>5. ASSUME NEW p \in Procs, Executed(p) PROVE PayloadMatches'
    BY <1>5
       DEF Executed, Goto, limits, history, TypeOK, RowTypes, CallTypes, Rows, CallRecords,
           PayloadMatches, Found, Labels, Claiming, Running, NoRow, NoCall
<1>6. ASSUME NEW p \in Procs, MarkSucceeded(p) PROVE PayloadMatches'
    BY <1>6, SucceededRow, ReturnEffect
       DEF MarkSucceeded, PayloadMatches, Found, Running, TypeOK
<1>7. ASSUME NEW p \in Procs, MarkFailedRetryable(p) PROVE PayloadMatches'
    BY <1>7, FailedRow, ReturnEffect
       DEF MarkFailedRetryable, PayloadMatches, Found, Running, TypeOK, history
<1>8. ASSUME NEW p \in Procs, ExtendProcessingLock(p) PROVE PayloadMatches'
    BY <1>8, RenewedRow DEF ExtendProcessingLock, PayloadMatches, Found, Running
<1>9. ASSUME NEW p \in Procs, Crash(p) PROVE PayloadMatches'
    BY <1>9
       DEF Crash, Fault, Return, limits, history, TypeOK, RowTypes, CallTypes, Rows,
           CallRecords, PayloadMatches, Found, Labels, Claiming, Running, NoRow, NoCall
<1>10. ASSUME DeleteExpired PROVE PayloadMatches'
    BY <1>10, CleanupEffect DEF PayloadMatches, Found, Running
<1>11. ASSUME Tick PROVE PayloadMatches'
    BY <1>11
       DEF Tick, OnTime, limits, history, TypeOK, RowTypes, CallTypes, Rows, CallRecords,
           PayloadMatches, Found, Labels, Claiming, Running, NoRow, NoCall
<1>12. ASSUME Stall PROVE PayloadMatches'
    BY <1>12
       DEF Stall, Fault, limits, history, TypeOK, RowTypes, CallTypes, Rows, CallRecords,
           PayloadMatches, Found, Labels, Claiming, Running, NoRow, NoCall
<1>13. ASSUME UNCHANGED vars PROVE PayloadMatches'
    BY <1>13
       DEF vars, limits, history, TypeOK, RowTypes, CallTypes, Rows, CallRecords,
           PayloadMatches, Found, Labels, Claiming, Running, NoRow, NoCall
<1>14. ASSUME SelectExpired PROVE PayloadMatches'
    BY <1>14
       DEF SelectExpired, limits, history, TypeOK, RowTypes, CallTypes, Rows, CallRecords,
           PayloadMatches, Found, Labels, Claiming, Running, NoRow, NoCall
<1> QED
    BY <1>1, <1>2, <1>3, <1>4, <1>5, <1>6, <1>7, <1>8, <1>9, <1>10, <1>11, <1>12, <1>13,
       <1>14
       DEF Next

\* Only an execution that succeeded is recorded as one.
LEMMA DoneNext == TypeOK /\ PayloadMatches /\ RecordedMeansDone /\ [Next]_vars => RecordedMeansDone'
<1> SUFFICES ASSUME TypeOK, PayloadMatches, RecordedMeansDone, [Next]_vars PROVE RecordedMeansDone'
    OBVIOUS
<1>1. ASSUME NEW p \in Procs, Begin(p) PROVE RecordedMeansDone'
    BY <1>1
       DEF Begin, limits, history, TypeOK, RowTypes, CallTypes, Rows, CallRecords,
           PayloadMatches, RecordedMeansDone, Labels, Claiming, Running, NoRow, NoCall
<1>2. ASSUME NEW p \in Procs, CreateProcessing(p) PROVE RecordedMeansDone'
    BY <1>2
       DEF CreateProcessing, NextVal, Claim, Goto, limits, history, TypeOK, RowTypes,
           CallTypes, Rows, CallRecords, PayloadMatches, RecordedMeansDone, Labels,
           Claiming, Running, NoRow, NoCall
<1>3. ASSUME NEW p \in Procs, GetByScopeAndKeyHash(p) PROVE RecordedMeansDone'
    BY <1>3
       DEF GetByScopeAndKeyHash, NextOfRequest, NextOfLock, SamePayload, Expired, Return,
           limits, history, TypeOK, RowTypes, CallTypes, Rows, CallRecords, PayloadMatches,
           RecordedMeansDone, Labels, Claiming, Running, NoRow, NoCall
<1>4. ASSUME NEW p \in Procs, TryReclaim(p) PROVE RecordedMeansDone'
  <2>1. CASE Reclaimable(p)
      BY <1>4, <2>1, ReclaimedRow DEF TryReclaim, RecordedMeansDone
  <2>2. CASE ~Reclaimable(p)
      BY <1>4, <2>2, NotReclaimed DEF TryReclaim, RecordedMeansDone
  <2> QED
      BY <2>1, <2>2
<1>5. ASSUME NEW p \in Procs, Executed(p) PROVE RecordedMeansDone'
    BY <1>5
       DEF Executed, Goto, limits, history, TypeOK, RowTypes, CallTypes, Rows, CallRecords,
           PayloadMatches, RecordedMeansDone, Labels, Claiming, Running, NoRow, NoCall
<1>6. ASSUME NEW p \in Procs, MarkSucceeded(p) PROVE RecordedMeansDone'
    BY <1>6, SucceededRow
       DEF MarkSucceeded, PayloadMatches, RecordedMeansDone, Running, Found
<1>7. ASSUME NEW p \in Procs, MarkFailedRetryable(p) PROVE RecordedMeansDone'
    BY <1>7, FailedRow DEF MarkFailedRetryable, RecordedMeansDone, history
<1>8. ASSUME NEW p \in Procs, ExtendProcessingLock(p) PROVE RecordedMeansDone'
    BY <1>8, RenewedRow DEF ExtendProcessingLock, RecordedMeansDone
<1>9. ASSUME NEW p \in Procs, Crash(p) PROVE RecordedMeansDone'
    BY <1>9
       DEF Crash, Fault, Return, limits, history, TypeOK, RowTypes, CallTypes, Rows,
           CallRecords, PayloadMatches, RecordedMeansDone, Labels, Claiming, Running,
           NoRow, NoCall
<1>10. ASSUME DeleteExpired PROVE RecordedMeansDone'
    BY <1>10, CleanupEffect DEF RecordedMeansDone
<1>11. ASSUME Tick PROVE RecordedMeansDone'
    BY <1>11
       DEF Tick, OnTime, limits, history, TypeOK, RowTypes, CallTypes, Rows, CallRecords,
           PayloadMatches, RecordedMeansDone, Labels, Claiming, Running, NoRow, NoCall
<1>12. ASSUME Stall PROVE RecordedMeansDone'
    BY <1>12
       DEF Stall, Fault, limits, history, TypeOK, RowTypes, CallTypes, Rows, CallRecords,
           PayloadMatches, RecordedMeansDone, Labels, Claiming, Running, NoRow, NoCall
<1>13. ASSUME UNCHANGED vars PROVE RecordedMeansDone'
    BY <1>13
       DEF vars, limits, history, TypeOK, RowTypes, CallTypes, Rows, CallRecords,
           PayloadMatches, RecordedMeansDone, Labels, Claiming, Running, NoRow, NoCall
<1>14. ASSUME SelectExpired PROVE RecordedMeansDone'
    BY <1>14
       DEF SelectExpired, limits, history, TypeOK, RowTypes, CallTypes, Rows, CallRecords,
           PayloadMatches, RecordedMeansDone, Labels, Claiming, Running, NoRow, NoCall
<1> QED
    BY <1>1, <1>2, <1>3, <1>4, <1>5, <1>6, <1>7, <1>8, <1>9, <1>10, <1>11, <1>12, <1>13,
       <1>14
       DEF Next

\* A retry of a failure found it failed.
LEMMA RetryNext == TypeOK /\ RetriesFailure /\ [Next]_vars => RetriesFailure'
<1> SUFFICES ASSUME TypeOK, RetriesFailure, [Next]_vars PROVE RetriesFailure'
    OBVIOUS
<1>1. ASSUME NEW p \in Procs, Begin(p) PROVE RetriesFailure'
    BY <1>1
       DEF Begin, limits, history, TypeOK, RowTypes, CallTypes, Rows, CallRecords,
           RetriesFailure, Labels, Claiming, Running, NoCall
<1>2. ASSUME NEW p \in Procs, CreateProcessing(p) PROVE RetriesFailure'
    BY <1>2
       DEF CreateProcessing, NextVal, Claim, Goto, limits, history, TypeOK, RowTypes,
           CallTypes, Rows, CallRecords, RetriesFailure, Labels, Claiming, Running, NoCall
<1>3. ASSUME NEW p \in Procs, GetByScopeAndKeyHash(p) PROVE RetriesFailure'
    BY <1>3
       DEF GetByScopeAndKeyHash, NextOfRequest, NextOfLock, SamePayload, Expired, Return,
           limits, history, TypeOK, RowTypes, CallTypes, Rows, CallRecords, RetriesFailure,
           Labels, Claiming, Running, NoCall
<1>4. ASSUME NEW p \in Procs, TryReclaim(p) PROVE RetriesFailure'
  <2>1. CASE Reclaimable(p)
      BY <1>4, <2>1, ReclaimedRow, ClaimEffect DEF TryReclaim, RetriesFailure, TypeOK
  <2>2. CASE ~Reclaimable(p)
      BY <1>4, <2>2, NotReclaimed DEF TryReclaim, RetriesFailure
  <2> QED
      BY <2>1, <2>2
<1>5. ASSUME NEW p \in Procs, Executed(p) PROVE RetriesFailure'
    BY <1>5
       DEF Executed, Goto, limits, history, TypeOK, RowTypes, CallTypes, Rows, CallRecords,
           RetriesFailure, Labels, Claiming, Running, NoCall
<1>6. ASSUME NEW p \in Procs, MarkSucceeded(p) PROVE RetriesFailure'
    BY <1>6
       DEF MarkSucceeded, NewExpiry, Return, limits, history, TypeOK, RowTypes, CallTypes,
           Rows, CallRecords, RetriesFailure, Labels, Claiming, Running, NoCall
<1>7. ASSUME NEW p \in Procs, MarkFailedRetryable(p) PROVE RetriesFailure'
    BY <1>7
       DEF MarkFailedRetryable, NewExpiry, RetryAt, Return, limits, history, TypeOK,
           RowTypes, CallTypes, Rows, CallRecords, RetriesFailure, Labels, Claiming,
           Running, NoCall
<1>8. ASSUME NEW p \in Procs, ExtendProcessingLock(p) PROVE RetriesFailure'
    BY <1>8
       DEF ExtendProcessingLock, RenewedLock, Fault, limits, history, TypeOK, RowTypes,
           CallTypes, Rows, CallRecords, RetriesFailure, Labels, Claiming, Running, NoCall
<1>9. ASSUME NEW p \in Procs, Crash(p) PROVE RetriesFailure'
    BY <1>9
       DEF Crash, Fault, Return, limits, history, TypeOK, RowTypes, CallTypes, Rows,
           CallRecords, RetriesFailure, Labels, Claiming, Running, NoCall
<1>10. ASSUME DeleteExpired PROVE RetriesFailure'
    BY <1>10, CleanupEffect
       DEF limits, history, TypeOK, RowTypes, CallTypes, Rows, CallRecords,
           RetriesFailure, Labels, Claiming, Running, NoCall
<1>11. ASSUME Tick PROVE RetriesFailure'
    BY <1>11
       DEF Tick, OnTime, limits, history, TypeOK, RowTypes, CallTypes, Rows, CallRecords,
           RetriesFailure, Labels, Claiming, Running, NoCall
<1>12. ASSUME Stall PROVE RetriesFailure'
    BY <1>12
       DEF Stall, Fault, limits, history, TypeOK, RowTypes, CallTypes, Rows, CallRecords,
           RetriesFailure, Labels, Claiming, Running, NoCall
<1>13. ASSUME UNCHANGED vars PROVE RetriesFailure'
    BY <1>13
       DEF vars, limits, history, TypeOK, RowTypes, CallTypes, Rows, CallRecords,
           RetriesFailure, Labels, Claiming, Running, NoCall
<1>14. ASSUME SelectExpired PROVE RetriesFailure'
    BY <1>14
       DEF SelectExpired, limits, history, TypeOK, RowTypes, CallTypes, Rows, CallRecords,
           RetriesFailure, Labels, Claiming, Running, NoCall
<1> QED
    BY <1>1, <1>2, <1>3, <1>4, <1>5, <1>6, <1>7, <1>8, <1>9, <1>10, <1>11, <1>12, <1>13,
       <1>14
       DEF Next

\* Time waits for everybody.
LEMMA TimeNext == Inv /\ [Next]_vars => NobodyLate'
<1> SUFFICES ASSUME Inv, [Next]_vars PROVE NobodyLate'
    OBVIOUS
<1>1. ASSUME NEW p \in Procs, Begin(p) PROVE NobodyLate'
    BY <1>1, TimesAssumption
       DEF Begin, limits, history, Inv, TypeOK, RowTypes, CallTypes, Rows, CallRecords,
           Labels, Claiming, Running, NoRow, NoCall, NobodyLate
<1>2. ASSUME NEW p \in Procs, CreateProcessing(p) PROVE NobodyLate'
  <2> SUFFICES ASSUME ~lapsed', NEW q \in Procs
               PROVE  /\ ~call'[q].lost
                      /\ call'[q].at <= clock'
                      /\ pc'[q] \in Claiming =>
                            call'[q].at > 0 /\ clock' <= call'[q].at + Delay
                      /\ pc'[q] \in Running =>
                            /\ call'[q].at > 0
                            /\ clock' <= call'[q].due
                            /\ kind' = "request" => call'[q].due <= call'[q].at + Delay + Run
      BY DEF NobodyLate
  <2>1. kind' = kind /\ clock' = clock /\ ~lapsed
      BY <1>2, ClaimEffect DEF CreateProcessing, Inv, TypeOK
  <2>2. CASE q # p
      BY <1>2, <2>1, <2>2, ClaimEffect
         DEF CreateProcessing, Goto, Inv, TypeOK, CallTypes, NobodyLate, Claiming, Running
  <2>3. CASE q = p
      BY <1>2, <2>1, <2>3, ClaimEffect, TimesTypes, TimesAssumption
         DEF CreateProcessing, Goto, Inv, TypeOK, CallTypes, NobodyLate, Claiming, Running
  <2> QED
      BY <2>2, <2>3
<1>3. ASSUME NEW p \in Procs, GetByScopeAndKeyHash(p) PROVE NobodyLate'
    BY <1>3, TimesAssumption
       DEF GetByScopeAndKeyHash, NextOfRequest, NextOfLock, SamePayload, Expired, Return,
           limits, history, Inv, TypeOK, RowTypes, CallTypes, Rows, CallRecords, Labels,
           Claiming, Running, NoRow, NoCall, NobodyLate
<1>4. ASSUME NEW p \in Procs, TryReclaim(p) PROVE NobodyLate'
  <2> SUFFICES ASSUME ~lapsed', NEW q \in Procs
               PROVE  /\ ~call'[q].lost
                      /\ call'[q].at <= clock'
                      /\ pc'[q] \in Claiming =>
                            call'[q].at > 0 /\ clock' <= call'[q].at + Delay
                      /\ pc'[q] \in Running =>
                            /\ call'[q].at > 0
                            /\ clock' <= call'[q].due
                            /\ kind' = "request" => call'[q].due <= call'[q].at + Delay + Run
      BY DEF NobodyLate
  <2>1. kind' = kind /\ clock' = clock /\ ~lapsed
      BY <1>4, ReclaimedRow, NotReclaimed, ClaimEffect DEF TryReclaim, Inv, TypeOK
  <2>2. CASE q # p
      BY <1>4, <2>1, <2>2, ReclaimedRow, NotReclaimed, ClaimEffect
         DEF TryReclaim, NoCall, Inv, TypeOK, NobodyLate, Claiming, Running
  <2>3. CASE q = p
      BY <1>4, <2>1, <2>3, ReclaimedRow, NotReclaimed, ClaimEffect, TimesTypes,
         TimesAssumption
         DEF TryReclaim, NoCall, Inv, TypeOK, NobodyLate, Claiming, Running
  <2> QED
      BY <2>2, <2>3
<1>5. ASSUME NEW p \in Procs, Executed(p) PROVE NobodyLate'
    BY <1>5, TimesAssumption
       DEF Executed, Goto, limits, history, Inv, TypeOK, RowTypes, CallTypes, Rows,
           CallRecords, Labels, Claiming, Running, NoRow, NoCall, NobodyLate
<1>6. ASSUME NEW p \in Procs, MarkSucceeded(p) PROVE NobodyLate'
    BY <1>6, TimesAssumption
       DEF MarkSucceeded, NewExpiry, Return, limits, history, Inv, TypeOK, RowTypes,
           CallTypes, Rows, CallRecords, Labels, Claiming, Running, NoRow, NoCall,
           NobodyLate
<1>7. ASSUME NEW p \in Procs, MarkFailedRetryable(p) PROVE NobodyLate'
    BY <1>7, TimesAssumption
       DEF MarkFailedRetryable, NewExpiry, RetryAt, Return, limits, history, Inv, TypeOK,
           RowTypes, CallTypes, Rows, CallRecords, Labels, Claiming, Running, NoRow,
           NoCall, NobodyLate
<1>8. ASSUME NEW p \in Procs, ExtendProcessingLock(p) PROVE NobodyLate'
  <2> SUFFICES ASSUME ~lapsed', NEW q \in Procs
               PROVE  /\ ~call'[q].lost
                      /\ call'[q].at <= clock'
                      /\ pc'[q] \in Claiming =>
                            call'[q].at > 0 /\ clock' <= call'[q].at + Delay
                      /\ pc'[q] \in Running =>
                            /\ call'[q].at > 0
                            /\ clock' <= call'[q].due
                            /\ kind' = "request" => call'[q].due <= call'[q].at + Delay + Run
      BY DEF NobodyLate
  <2>1. kind' = kind /\ clock' = clock /\ ~lapsed
      BY <1>8, RenewedRow DEF ExtendProcessingLock, Inv, TypeOK
  <2>2. CASE q # p
      BY <1>8, <2>1, <2>2, RenewedRow
         DEF ExtendProcessingLock, Inv, NobodyLate, Claiming, Running
  <2>3. CASE q = p
    <3>1. pc'[p] = "run" /\ pc[p] = "run" /\ kind = "lock" /\ ~call[p].lost
        BY <1>8 DEF ExtendProcessingLock
    <3>2. call[p].at > 0 /\ call[p].at <= clock
        BY <2>1, <3>1 DEF Inv, NobodyLate, Running
    <3>3. call'[p].at = call[p].at /\ call'[p].due = clock + Renew /\ ~call'[p].lost
        BY <1>8, <3>1, RenewedRow DEF Inv
    <3>4. clock <= clock + Renew
        BY TimesTypes, TimesAssumption DEF Inv
    <3> QED
        BY <2>1, <2>3, <3>1, <3>2, <3>3, <3>4 DEF Claiming
  <2> QED
      BY <2>2, <2>3
<1>9. ASSUME NEW p \in Procs, Crash(p) PROVE NobodyLate'
    BY <1>9, TimesAssumption
       DEF Crash, Fault, Return, limits, history, Inv, TypeOK, RowTypes, CallTypes, Rows,
           CallRecords, Labels, Claiming, Running, NoRow, NoCall, NobodyLate
<1>10. ASSUME DeleteExpired PROVE NobodyLate'
    BY <1>10, CleanupEffect, TimesAssumption
       DEF limits, history, Inv, TypeOK, RowTypes, CallTypes, Rows,
           CallRecords, Labels, Claiming, Running, NoRow, NoCall, NobodyLate
<1>11. ASSUME Tick PROVE NobodyLate'
    BY <1>11, TimesAssumption
       DEF Tick, OnTime, limits, history, Inv, TypeOK, RowTypes, CallTypes, Rows,
           CallRecords, Labels, Claiming, Running, NoRow, NoCall, NobodyLate
<1>12. ASSUME Stall PROVE NobodyLate'
    BY <1>12, TimesAssumption
       DEF Stall, Fault, limits, history, Inv, TypeOK, RowTypes, CallTypes, Rows,
           CallRecords, Labels, Claiming, Running, NoRow, NoCall, NobodyLate
<1>13. ASSUME UNCHANGED vars PROVE NobodyLate'
    BY <1>13, TimesAssumption
       DEF vars, limits, history, Inv, TypeOK, RowTypes, CallTypes, Rows, CallRecords,
           Labels, Claiming, Running, NoRow, NoCall, NobodyLate
<1>14. ASSUME SelectExpired PROVE NobodyLate'
    BY <1>14, TimesAssumption
       DEF SelectExpired, limits, history, Inv, TypeOK, RowTypes, CallTypes, Rows, CallRecords,
           Labels, Claiming, Running, NoRow, NoCall, NobodyLate
<1> QED
    BY <1>1, <1>2, <1>3, <1>4, <1>5, <1>6, <1>7, <1>8, <1>9, <1>10, <1>11, <1>12, <1>13,
       <1>14
       DEF Next

\* A running process keeps the record.
LEMMA OwnerNext == Inv /\ [Next]_vars => OwnsRecord'
<1> SUFFICES ASSUME Inv, [Next]_vars PROVE OwnsRecord'
    OBVIOUS
<1>1. ASSUME NEW p \in Procs, Begin(p) PROVE OwnsRecord'
    BY <1>1, TimesAssumption
       DEF Begin, limits, history, Inv, TypeOK, RowTypes, CallTypes, Rows, CallRecords,
           Labels, Claiming, Running, NoRow, NoCall, NobodyLate, OwnsRecord, OneAtATime,
           FoundBeforeClaim, RetriesFailure
<1>2. ASSUME NEW p \in Procs, CreateProcessing(p) PROVE OwnsRecord'
    BY <1>2, TimesAssumption
       DEF CreateProcessing, NextVal, Claim, Goto, limits, history, Inv, TypeOK, RowTypes,
           CallTypes, Rows, CallRecords, Labels, Claiming, Running, NoRow, NoCall,
           NobodyLate, OwnsRecord, OneAtATime, FoundBeforeClaim, RetriesFailure
<1>3. ASSUME NEW p \in Procs, GetByScopeAndKeyHash(p) PROVE OwnsRecord'
    BY <1>3, TimesAssumption
       DEF GetByScopeAndKeyHash, NextOfRequest, NextOfLock, SamePayload, Expired, Return,
           limits, history, Inv, TypeOK, RowTypes, CallTypes, Rows, CallRecords, Labels,
           Claiming, Running, NoRow, NoCall, NobodyLate, OwnsRecord, OneAtATime,
           FoundBeforeClaim, RetriesFailure
<1>4. ASSUME NEW p \in Procs, TryReclaim(p) PROVE OwnsRecord'
  <2>1. CASE Reclaimable(p)
    <3> SUFFICES ASSUME ~lapsed', NEW q \in Procs, pc'[q] \in Running
                 PROVE  /\ row'.id = call'[q].id
                        /\ row'.id # 0
                        /\ row'.status = "processing"
                        /\ kind' = "request" => row'.locked = call'[q].at + Lease
                                                 /\ row'.expires = call'[q].at + TTL
                        /\ kind' = "lock" => call'[q].due < row'.locked
                                              /\ row'.locked <= row'.expires
        BY DEF OwnsRecord
    <3>1. ~lapsed /\ kind' = kind
        BY <1>4 DEF TryReclaim
    <3>2. q = p
        BY <1>4, <2>1, <3>1, Nobody, ReclaimedRow, ClaimEffect DEF Inv, TypeOK
    <3>3. row.id # 0
        BY <1>4, <2>1, ReclaimedRow DEF TryReclaim, Inv, PayloadMatches, Found
    <3>4. kind = "lock" => clock <= call[p].at + Delay /\ call'[p].due = clock + Renew
        BY <1>4, <2>1, <3>1, ReclaimedRow, ClaimEffect
           DEF TryReclaim, Inv, TypeOK, NobodyLate, Claiming
    <3> QED
        BY <1>4, <2>1, <3>1, <3>2, <3>3, <3>4, ReclaimedRow, ClaimEffect, TimesTypes,
           TimesAssumption
           DEF Inv, TypeOK
  <2>2. CASE ~Reclaimable(p)
      BY <1>4, <2>2, NotReclaimed DEF TryReclaim, Inv, OwnsRecord, Running
  <2> QED
      BY <2>1, <2>2
<1>5. ASSUME NEW p \in Procs, Executed(p) PROVE OwnsRecord'
    BY <1>5, TimesAssumption
       DEF Executed, Goto, limits, history, Inv, TypeOK, RowTypes, CallTypes, Rows,
           CallRecords, Labels, Claiming, Running, NoRow, NoCall, NobodyLate, OwnsRecord,
           OneAtATime, FoundBeforeClaim, RetriesFailure
<1>6. ASSUME NEW p \in Procs, MarkSucceeded(p) PROVE OwnsRecord'
    BY <1>6, TimesAssumption
       DEF MarkSucceeded, NewExpiry, Return, limits, history, Inv, TypeOK, RowTypes,
           CallTypes, Rows, CallRecords, Labels, Claiming, Running, NoRow, NoCall,
           NobodyLate, OwnsRecord, OneAtATime, FoundBeforeClaim, RetriesFailure
<1>7. ASSUME NEW p \in Procs, MarkFailedRetryable(p) PROVE OwnsRecord'
    BY <1>7, TimesAssumption
       DEF MarkFailedRetryable, NewExpiry, RetryAt, Return, limits, history, Inv, TypeOK,
           RowTypes, CallTypes, Rows, CallRecords, Labels, Claiming, Running, NoRow,
           NoCall, NobodyLate, OwnsRecord, OneAtATime, FoundBeforeClaim, RetriesFailure
<1>8. ASSUME NEW p \in Procs, ExtendProcessingLock(p) PROVE OwnsRecord'
  <2> SUFFICES ASSUME ~lapsed', NEW q \in Procs, pc'[q] \in Running
               PROVE  /\ row'.id = call'[q].id
                      /\ row'.id # 0
                      /\ row'.status = "processing"
                      /\ call'[q].due < row'.locked /\ row'.locked <= row'.expires
      BY <1>8 DEF ExtendProcessingLock, OwnsRecord
  <2>1. ~lapsed /\ pc' = pc
      BY <1>8, RenewedRow DEF ExtendProcessingLock, Inv
  <2>2. q = p
      BY <1>8, <2>1 DEF ExtendProcessingLock, Inv, OneAtATime, Running
  <2> QED
      BY <1>8, <2>1, <2>2, RenewedRow, TimesTypes, TimesAssumption DEF Inv, OwnsRecord
<1>9. ASSUME NEW p \in Procs, Crash(p) PROVE OwnsRecord'
    BY <1>9, TimesAssumption
       DEF Crash, Fault, Return, limits, history, Inv, TypeOK, RowTypes, CallTypes, Rows,
           CallRecords, Labels, Claiming, Running, NoRow, NoCall, NobodyLate, OwnsRecord,
           OneAtATime, FoundBeforeClaim, RetriesFailure
<1>10. ASSUME DeleteExpired PROVE OwnsRecord'
  <2>1. ASSUME ~lapsed', NEW p \in Procs, pc'[p] \in Running PROVE row' = row
    <3>1. ~lapsed /\ pc[p] \in Running /\ (row' = row \/ row.expires <= clock)
        BY <1>10, <2>1, CleanupEffect DEF Inv
    <3>2. clock <= call[p].due /\ (kind = "request" => call[p].due <= call[p].at + Delay + Run)
        BY <3>1 DEF Inv, NobodyLate
    <3>3. /\ kind = "request" => row.expires = call[p].at + TTL
          /\ kind = "lock" => call[p].due < row.locked /\ row.locked <= row.expires
        BY <3>1 DEF Inv, OwnsRecord
    <3>4. ~(row.expires <= clock)
        BY <3>2, <3>3, TimesAssumption
           DEF Inv, TypeOK, RowTypes, CallTypes, Rows, CallRecords
    <3> QED
        BY <3>1, <3>4
  <2> QED
      BY <1>10, <2>1, CleanupEffect DEF Inv, OwnsRecord
<1>11. ASSUME Tick PROVE OwnsRecord'
    BY <1>11, TimesAssumption
       DEF Tick, OnTime, limits, history, Inv, TypeOK, RowTypes, CallTypes, Rows,
           CallRecords, Labels, Claiming, Running, NoRow, NoCall, NobodyLate, OwnsRecord,
           OneAtATime, FoundBeforeClaim, RetriesFailure
<1>12. ASSUME Stall PROVE OwnsRecord'
    BY <1>12, TimesAssumption
       DEF Stall, Fault, limits, history, Inv, TypeOK, RowTypes, CallTypes, Rows,
           CallRecords, Labels, Claiming, Running, NoRow, NoCall, NobodyLate, OwnsRecord,
           OneAtATime, FoundBeforeClaim, RetriesFailure
<1>13. ASSUME UNCHANGED vars PROVE OwnsRecord'
    BY <1>13, TimesAssumption
       DEF vars, limits, history, Inv, TypeOK, RowTypes, CallTypes, Rows, CallRecords,
           Labels, Claiming, Running, NoRow, NoCall, NobodyLate, OwnsRecord, OneAtATime,
           FoundBeforeClaim, RetriesFailure
<1>14. ASSUME SelectExpired PROVE OwnsRecord'
    BY <1>14, TimesAssumption
       DEF SelectExpired, limits, history, Inv, TypeOK, RowTypes, CallTypes, Rows, CallRecords,
           Labels, Claiming, Running, NoRow, NoCall, NobodyLate, OwnsRecord, OneAtATime,
           FoundBeforeClaim, RetriesFailure
<1> QED
    BY <1>1, <1>2, <1>3, <1>4, <1>5, <1>6, <1>7, <1>8, <1>9, <1>10, <1>11, <1>12, <1>13,
       <1>14
       DEF Next

\* Nobody claims a record that a running process owns.
LEMMA OneNext == Inv /\ [Next]_vars => OneAtATime'
<1> SUFFICES ASSUME Inv, [Next]_vars PROVE OneAtATime'
    OBVIOUS
<1>1. ASSUME NEW p \in Procs, Begin(p) PROVE OneAtATime'
    BY <1>1, TimesAssumption
       DEF Begin, limits, history, Inv, TypeOK, RowTypes, CallTypes, Rows, CallRecords,
           Labels, Claiming, Running, NoRow, NoCall, NobodyLate, OwnsRecord, OneAtATime,
           FoundBeforeClaim, RetriesFailure
<1>2. ASSUME NEW p \in Procs, CreateProcessing(p) PROVE OneAtATime'
    BY <1>2, TimesAssumption
       DEF CreateProcessing, NextVal, Claim, Goto, limits, history, Inv, TypeOK, RowTypes,
           CallTypes, Rows, CallRecords, Labels, Claiming, Running, NoRow, NoCall,
           NobodyLate, OwnsRecord, OneAtATime, FoundBeforeClaim, RetriesFailure
<1>3. ASSUME NEW p \in Procs, GetByScopeAndKeyHash(p) PROVE OneAtATime'
    BY <1>3, TimesAssumption
       DEF GetByScopeAndKeyHash, NextOfRequest, NextOfLock, SamePayload, Expired, Return,
           limits, history, Inv, TypeOK, RowTypes, CallTypes, Rows, CallRecords, Labels,
           Claiming, Running, NoRow, NoCall, NobodyLate, OwnsRecord, OneAtATime,
           FoundBeforeClaim, RetriesFailure
<1>4. ASSUME NEW p \in Procs, TryReclaim(p) PROVE OneAtATime'
  <2>1. CASE Reclaimable(p)
      BY <1>4, <2>1, Nobody, ReclaimedRow, ClaimEffect
         DEF TryReclaim, Inv, TypeOK, OneAtATime
  <2>2. CASE ~Reclaimable(p)
      BY <1>4, <2>2, NotReclaimed DEF TryReclaim, Inv, OneAtATime, Running
  <2> QED
      BY <2>1, <2>2
<1>5. ASSUME NEW p \in Procs, Executed(p) PROVE OneAtATime'
    BY <1>5, TimesAssumption
       DEF Executed, Goto, limits, history, Inv, TypeOK, RowTypes, CallTypes, Rows,
           CallRecords, Labels, Claiming, Running, NoRow, NoCall, NobodyLate, OwnsRecord,
           OneAtATime, FoundBeforeClaim, RetriesFailure
<1>6. ASSUME NEW p \in Procs, MarkSucceeded(p) PROVE OneAtATime'
    BY <1>6, TimesAssumption
       DEF MarkSucceeded, NewExpiry, Return, limits, history, Inv, TypeOK, RowTypes,
           CallTypes, Rows, CallRecords, Labels, Claiming, Running, NoRow, NoCall,
           NobodyLate, OwnsRecord, OneAtATime, FoundBeforeClaim, RetriesFailure
<1>7. ASSUME NEW p \in Procs, MarkFailedRetryable(p) PROVE OneAtATime'
    BY <1>7, TimesAssumption
       DEF MarkFailedRetryable, NewExpiry, RetryAt, Return, limits, history, Inv, TypeOK,
           RowTypes, CallTypes, Rows, CallRecords, Labels, Claiming, Running, NoRow,
           NoCall, NobodyLate, OwnsRecord, OneAtATime, FoundBeforeClaim, RetriesFailure
<1>8. ASSUME NEW p \in Procs, ExtendProcessingLock(p) PROVE OneAtATime'
    BY <1>8, TimesAssumption
       DEF ExtendProcessingLock, RenewedLock, Fault, limits, history, Inv, TypeOK,
           RowTypes, CallTypes, Rows, CallRecords, Labels, Claiming, Running, NoRow,
           NoCall, NobodyLate, OwnsRecord, OneAtATime, FoundBeforeClaim, RetriesFailure
<1>9. ASSUME NEW p \in Procs, Crash(p) PROVE OneAtATime'
    BY <1>9, TimesAssumption
       DEF Crash, Fault, Return, limits, history, Inv, TypeOK, RowTypes, CallTypes, Rows,
           CallRecords, Labels, Claiming, Running, NoRow, NoCall, NobodyLate, OwnsRecord,
           OneAtATime, FoundBeforeClaim, RetriesFailure
<1>10. ASSUME DeleteExpired PROVE OneAtATime'
    BY <1>10, CleanupEffect, TimesAssumption
       DEF limits, history, Inv, TypeOK, RowTypes, CallTypes, Rows,
           CallRecords, Labels, Claiming, Running, NoRow, NoCall, NobodyLate, OwnsRecord,
           OneAtATime, FoundBeforeClaim, RetriesFailure
<1>11. ASSUME Tick PROVE OneAtATime'
    BY <1>11, TimesAssumption
       DEF Tick, OnTime, limits, history, Inv, TypeOK, RowTypes, CallTypes, Rows,
           CallRecords, Labels, Claiming, Running, NoRow, NoCall, NobodyLate, OwnsRecord,
           OneAtATime, FoundBeforeClaim, RetriesFailure
<1>12. ASSUME Stall PROVE OneAtATime'
    BY <1>12, TimesAssumption
       DEF Stall, Fault, limits, history, Inv, TypeOK, RowTypes, CallTypes, Rows,
           CallRecords, Labels, Claiming, Running, NoRow, NoCall, NobodyLate, OwnsRecord,
           OneAtATime, FoundBeforeClaim, RetriesFailure
<1>13. ASSUME UNCHANGED vars PROVE OneAtATime'
    BY <1>13, TimesAssumption
       DEF vars, limits, history, Inv, TypeOK, RowTypes, CallTypes, Rows, CallRecords,
           Labels, Claiming, Running, NoRow, NoCall, NobodyLate, OwnsRecord, OneAtATime,
           FoundBeforeClaim, RetriesFailure
<1>14. ASSUME SelectExpired PROVE OneAtATime'
    BY <1>14, TimesAssumption
       DEF SelectExpired, limits, history, Inv, TypeOK, RowTypes, CallTypes, Rows, CallRecords,
           Labels, Claiming, Running, NoRow, NoCall, NobodyLate, OwnsRecord, OneAtATime,
           FoundBeforeClaim, RetriesFailure
<1> QED
    BY <1>1, <1>2, <1>3, <1>4, <1>5, <1>6, <1>7, <1>8, <1>9, <1>10, <1>11, <1>12, <1>13,
       <1>14
       DEF Next

\* Whoever found an expired record found it before its next claim.
LEMMA FoundNext == Inv /\ [Next]_vars => FoundBeforeClaim'
<1> SUFFICES ASSUME Inv, [Next]_vars PROVE FoundBeforeClaim'
    OBVIOUS
<1>1. ASSUME NEW p \in Procs, Begin(p) PROVE FoundBeforeClaim'
    BY <1>1, TimesAssumption
       DEF Begin, limits, history, Inv, TypeOK, RowTypes, CallTypes, Rows, CallRecords,
           Labels, Claiming, Running, NoRow, NoCall, NobodyLate, OwnsRecord,
           FoundBeforeClaim, OneAtATime, ResponseKept
<1>2. ASSUME NEW p \in Procs, CreateProcessing(p) PROVE FoundBeforeClaim'
    BY <1>2, TimesAssumption
       DEF CreateProcessing, NextVal, Claim, Goto, limits, history, Inv, TypeOK, RowTypes,
           CallTypes, Rows, CallRecords, Labels, Claiming, Running, NoRow, NoCall,
           NobodyLate, OwnsRecord, FoundBeforeClaim, OneAtATime, ResponseKept
<1>3. ASSUME NEW p \in Procs, GetByScopeAndKeyHash(p) PROVE FoundBeforeClaim'
  <2> SUFFICES ASSUME ~lapsed', kind' = "request", NEW r \in Procs, NEW q \in Procs,
                      pc'[r] = "reclaimExpired"
               PROVE  /\ pc'[q] \in Running => call'[r].at <= call'[q].at + Delay
                      /\ recorded' # 0 =>
                            call'[r].at <= recorded' + Delay \/ recorded' + TTL <= call'[r].at
      BY DEF FoundBeforeClaim
  <2>1. /\ ~lapsed /\ kind = "request" /\ recorded' = recorded
        /\ pc'[q] \in Running => q # p /\ pc[q] \in Running /\ call'[q] = call[q]
      BY <1>3, FoundEffect DEF GetByScopeAndKeyHash, Inv, history, Running
  <2>2. CASE r # p
      BY <1>3, <2>1, <2>2, FoundEffect DEF Inv, FoundBeforeClaim
  <2>3. CASE r = p
    <3>1. /\ row.id # 0 /\ row.expires <= call[p].at
          /\ call'[p].at = call[p].at /\ call[p].at <= clock
        BY <1>3, <2>1, <2>3, FoundEffect, NextFound DEF Inv, NobodyLate, NoCall
    <3>2. ASSUME pc'[q] \in Running PROVE FALSE
      <4>1. row.expires = call[q].at + TTL /\ clock <= call[q].at + Delay + Run
          BY <2>1, <3>2, TimesTypes, TimesAssumption
             DEF Inv, OwnsRecord, NobodyLate, TypeOK, CallTypes, CallRecords
      <4> QED
          BY <3>1, <4>1, TimesTypes, TimesAssumption DEF Inv
    <3>3. recorded # 0 => recorded + TTL <= call[p].at
        BY <2>1, <3>1 DEF Inv, ResponseKept
    <3> QED
        BY <2>1, <2>3, <3>1, <3>2, <3>3
  <2> QED
      BY <2>2, <2>3
<1>4. ASSUME NEW p \in Procs, TryReclaim(p) PROVE FoundBeforeClaim'
    BY <1>4, TimesAssumption
       DEF TryReclaim, Reclaimable, Claim, Goto, Return, limits, history, Inv, TypeOK,
           RowTypes, CallTypes, Rows, CallRecords, Labels, Claiming, Running, NoRow,
           NoCall, NobodyLate, OwnsRecord, FoundBeforeClaim, OneAtATime, ResponseKept
<1>5. ASSUME NEW p \in Procs, Executed(p) PROVE FoundBeforeClaim'
    BY <1>5, TimesAssumption
       DEF Executed, Goto, limits, history, Inv, TypeOK, RowTypes, CallTypes, Rows,
           CallRecords, Labels, Claiming, Running, NoRow, NoCall, NobodyLate, OwnsRecord,
           FoundBeforeClaim, OneAtATime, ResponseKept
<1>6. ASSUME NEW p \in Procs, MarkSucceeded(p) PROVE FoundBeforeClaim'
    BY <1>6, TimesAssumption
       DEF MarkSucceeded, NewExpiry, Return, limits, history, Inv, TypeOK, RowTypes,
           CallTypes, Rows, CallRecords, Labels, Claiming, Running, NoRow, NoCall,
           NobodyLate, OwnsRecord, FoundBeforeClaim, OneAtATime, ResponseKept
<1>7. ASSUME NEW p \in Procs, MarkFailedRetryable(p) PROVE FoundBeforeClaim'
    BY <1>7, TimesAssumption
       DEF MarkFailedRetryable, NewExpiry, RetryAt, Return, limits, history, Inv, TypeOK,
           RowTypes, CallTypes, Rows, CallRecords, Labels, Claiming, Running, NoRow,
           NoCall, NobodyLate, OwnsRecord, FoundBeforeClaim, OneAtATime, ResponseKept
<1>8. ASSUME NEW p \in Procs, ExtendProcessingLock(p) PROVE FoundBeforeClaim'
    BY <1>8, TimesAssumption
       DEF ExtendProcessingLock, RenewedLock, Fault, limits, history, Inv, TypeOK,
           RowTypes, CallTypes, Rows, CallRecords, Labels, Claiming, Running, NoRow,
           NoCall, NobodyLate, OwnsRecord, FoundBeforeClaim, OneAtATime, ResponseKept
<1>9. ASSUME NEW p \in Procs, Crash(p) PROVE FoundBeforeClaim'
    BY <1>9, TimesAssumption
       DEF Crash, Fault, Return, limits, history, Inv, TypeOK, RowTypes, CallTypes, Rows,
           CallRecords, Labels, Claiming, Running, NoRow, NoCall, NobodyLate, OwnsRecord,
           FoundBeforeClaim, OneAtATime, ResponseKept
<1>10. ASSUME DeleteExpired PROVE FoundBeforeClaim'
    BY <1>10, CleanupEffect, TimesAssumption
       DEF limits, history, Inv, TypeOK, RowTypes, CallTypes, Rows,
           CallRecords, Labels, Claiming, Running, NoRow, NoCall, NobodyLate, OwnsRecord,
           FoundBeforeClaim, OneAtATime, ResponseKept
<1>11. ASSUME Tick PROVE FoundBeforeClaim'
    BY <1>11, TimesAssumption
       DEF Tick, OnTime, limits, history, Inv, TypeOK, RowTypes, CallTypes, Rows,
           CallRecords, Labels, Claiming, Running, NoRow, NoCall, NobodyLate, OwnsRecord,
           FoundBeforeClaim, OneAtATime, ResponseKept
<1>12. ASSUME Stall PROVE FoundBeforeClaim'
    BY <1>12, TimesAssumption
       DEF Stall, Fault, limits, history, Inv, TypeOK, RowTypes, CallTypes, Rows,
           CallRecords, Labels, Claiming, Running, NoRow, NoCall, NobodyLate, OwnsRecord,
           FoundBeforeClaim, OneAtATime, ResponseKept
<1>13. ASSUME UNCHANGED vars PROVE FoundBeforeClaim'
    BY <1>13, TimesAssumption
       DEF vars, limits, history, Inv, TypeOK, RowTypes, CallTypes, Rows, CallRecords,
           Labels, Claiming, Running, NoRow, NoCall, NobodyLate, OwnsRecord,
           FoundBeforeClaim, OneAtATime, ResponseKept
<1>14. ASSUME SelectExpired PROVE FoundBeforeClaim'
    BY <1>14, TimesAssumption
       DEF SelectExpired, limits, history, Inv, TypeOK, RowTypes, CallTypes, Rows, CallRecords,
           Labels, Claiming, Running, NoRow, NoCall, NobodyLate, OwnsRecord,
           FoundBeforeClaim, OneAtATime, ResponseKept
<1> QED
    BY <1>1, <1>2, <1>3, <1>4, <1>5, <1>6, <1>7, <1>8, <1>9, <1>10, <1>11, <1>12, <1>13,
       <1>14
       DEF Next

\* A stored response stays until it expires.
LEMMA KeptNext == Inv /\ [Next]_vars => ResponseKept'
<1> SUFFICES ASSUME Inv, [Next]_vars PROVE ResponseKept'
    OBVIOUS
<1>1. ASSUME NEW p \in Procs, Begin(p) PROVE ResponseKept'
    BY <1>1, TimesAssumption
       DEF Begin, limits, history, Inv, TypeOK, RowTypes, CallTypes, Rows, CallRecords,
           Labels, Claiming, Running, NoRow, NoCall, NobodyLate, OwnsRecord, OneAtATime,
           ResponseKept
<1>2. ASSUME NEW p \in Procs, CreateProcessing(p) PROVE ResponseKept'
    BY <1>2, TimesAssumption
       DEF CreateProcessing, NextVal, Claim, Goto, limits, history, Inv, TypeOK, RowTypes,
           CallTypes, Rows, CallRecords, Labels, Claiming, Running, NoRow, NoCall,
           NobodyLate, OwnsRecord, OneAtATime, ResponseKept
<1>3. ASSUME NEW p \in Procs, GetByScopeAndKeyHash(p) PROVE ResponseKept'
    BY <1>3, TimesAssumption
       DEF GetByScopeAndKeyHash, NextOfRequest, NextOfLock, SamePayload, Expired, Return,
           limits, history, Inv, TypeOK, RowTypes, CallTypes, Rows, CallRecords, Labels,
           Claiming, Running, NoRow, NoCall, NobodyLate, OwnsRecord, OneAtATime,
           ResponseKept
<1>4. ASSUME NEW p \in Procs, TryReclaim(p) PROVE ResponseKept'
    BY <1>4, TimesAssumption
       DEF TryReclaim, Reclaimable, Claim, Goto, Return, limits, history, Inv, TypeOK,
           RowTypes, CallTypes, Rows, CallRecords, Labels, Claiming, Running, NoRow,
           NoCall, NobodyLate, OwnsRecord, OneAtATime, ResponseKept
<1>5. ASSUME NEW p \in Procs, Executed(p) PROVE ResponseKept'
    BY <1>5, TimesAssumption
       DEF Executed, Goto, limits, history, Inv, TypeOK, RowTypes, CallTypes, Rows,
           CallRecords, Labels, Claiming, Running, NoRow, NoCall, NobodyLate, OwnsRecord,
           OneAtATime, ResponseKept
<1>6. ASSUME NEW p \in Procs, MarkSucceeded(p) PROVE ResponseKept'
    BY <1>6, SucceededRow, TimesTypes
       DEF MarkSucceeded, NewExpiry, Inv, OwnsRecord, ResponseKept, Running
<1>7. ASSUME NEW p \in Procs, MarkFailedRetryable(p) PROVE ResponseKept'
    BY <1>7, TimesAssumption
       DEF MarkFailedRetryable, NewExpiry, RetryAt, Return, limits, history, Inv, TypeOK,
           RowTypes, CallTypes, Rows, CallRecords, Labels, Claiming, Running, NoRow,
           NoCall, NobodyLate, OwnsRecord, OneAtATime, ResponseKept
<1>8. ASSUME NEW p \in Procs, ExtendProcessingLock(p) PROVE ResponseKept'
    BY <1>8, TimesAssumption
       DEF ExtendProcessingLock, RenewedLock, Fault, limits, history, Inv, TypeOK,
           RowTypes, CallTypes, Rows, CallRecords, Labels, Claiming, Running, NoRow,
           NoCall, NobodyLate, OwnsRecord, OneAtATime, ResponseKept
<1>9. ASSUME NEW p \in Procs, Crash(p) PROVE ResponseKept'
    BY <1>9, TimesAssumption
       DEF Crash, Fault, Return, limits, history, Inv, TypeOK, RowTypes, CallTypes, Rows,
           CallRecords, Labels, Claiming, Running, NoRow, NoCall, NobodyLate, OwnsRecord,
           OneAtATime, ResponseKept
<1>10. ASSUME DeleteExpired PROVE ResponseKept'
  <2>1. CASE row' = row
      BY <1>10, <2>1, CleanupEffect DEF Inv, ResponseKept
  <2>2. CASE row' # row
    <3>1. row'.id = 0 /\ (~lapsed' => ~lapsed /\ row.expires <= clock)
        BY <1>10, <2>2, CleanupEffect DEF Inv
    <3> QED
        BY <1>10, <3>1, CleanupEffect, TimesAssumption
           DEF Inv, TypeOK, RowTypes, Rows, ResponseKept
  <2> QED
      BY <2>1, <2>2
<1>11. ASSUME Tick PROVE ResponseKept'
    BY <1>11, TimesAssumption
       DEF Tick, OnTime, limits, history, Inv, TypeOK, RowTypes, CallTypes, Rows,
           CallRecords, Labels, Claiming, Running, NoRow, NoCall, NobodyLate, OwnsRecord,
           OneAtATime, ResponseKept
<1>12. ASSUME Stall PROVE ResponseKept'
    BY <1>12, TimesAssumption
       DEF Stall, Fault, limits, history, Inv, TypeOK, RowTypes, CallTypes, Rows,
           CallRecords, Labels, Claiming, Running, NoRow, NoCall, NobodyLate, OwnsRecord,
           OneAtATime, ResponseKept
<1>13. ASSUME UNCHANGED vars PROVE ResponseKept'
    BY <1>13, TimesAssumption
       DEF vars, limits, history, Inv, TypeOK, RowTypes, CallTypes, Rows, CallRecords,
           Labels, Claiming, Running, NoRow, NoCall, NobodyLate, OwnsRecord, OneAtATime,
           ResponseKept
<1>14. ASSUME SelectExpired PROVE ResponseKept'
    BY <1>14, TimesAssumption
       DEF SelectExpired, limits, history, Inv, TypeOK, RowTypes, CallTypes, Rows, CallRecords,
           Labels, Claiming, Running, NoRow, NoCall, NobodyLate, OwnsRecord, OneAtATime,
           ResponseKept
<1> QED
    BY <1>1, <1>2, <1>3, <1>4, <1>5, <1>6, <1>7, <1>8, <1>9, <1>10, <1>11, <1>12, <1>13,
       <1>14
       DEF Next

\* Every statement and event keeps the accounts.
LEMMA AccountedNext == Inv /\ [Next]_vars => Accounted'
<1> SUFFICES ASSUME Inv, [Next]_vars PROVE Accounted'
    OBVIOUS
<1> USE DEF Accounted
<1>1. ASSUME NEW p \in Procs, Begin(p) PROVE Accounted'
    BY <1>1 DEF Begin, history, Inv, TypeOK, CallTypes, NoCall
<1>2. ASSUME NEW p \in Procs, CreateProcessing(p) PROVE Accounted'
  <2>1. CASE row.id = 0
    <3>1. row'.status = "processing" /\ Claim(p) /\ lapsed' = lapsed
        BY <1>2, <2>1 DEF CreateProcessing
    <3> QED
        BY <1>2, <3>1, ClaimEffect DEF CreateProcessing, Inv, TypeOK
  <2>2. CASE row.id # 0
      BY <1>2, <2>2 DEF CreateProcessing, Goto, Inv, TypeOK, CallTypes
  <2> QED
      BY <2>1, <2>2
<1>3. ASSUME NEW p \in Procs, GetByScopeAndKeyHash(p) PROVE Accounted'
    BY <1>3, FoundEffect DEF GetByScopeAndKeyHash, history, Inv
<1>4. ASSUME NEW p \in Procs, TryReclaim(p) PROVE Accounted'
  <2>1. CASE Reclaimable(p)
      BY <1>4, <2>1, ReclaimedRow, ClaimEffect DEF TryReclaim, Inv, TypeOK
  <2>2. CASE ~Reclaimable(p)
      BY <1>4, <2>2, NotReclaimed DEF TryReclaim, Inv
  <2> QED
      BY <2>1, <2>2
<1>5. ASSUME NEW p \in Procs, Executed(p) PROVE Accounted'
    BY <1>5 DEF Executed, Goto, Inv, TypeOK, CallTypes
<1>6. ASSUME NEW p \in Procs, MarkSucceeded(p) PROVE Accounted'
    BY <1>6, SucceededRow, ReturnEffect, TimesTypes
       DEF MarkSucceeded, Inv, TypeOK, NobodyLate, OwnsRecord, Running
<1>7. ASSUME NEW p \in Procs, MarkFailedRetryable(p) PROVE Accounted'
    BY <1>7, FailedRow, ReturnEffect DEF MarkFailedRetryable, history, Inv, TypeOK
<1>8. ASSUME NEW p \in Procs, ExtendProcessingLock(p) PROVE Accounted'
    BY <1>8, RenewedRow DEF ExtendProcessingLock, Inv
<1>9. ASSUME NEW p \in Procs, Crash(p) PROVE Accounted'
    BY <1>9, ReturnEffect DEF Crash, history, Inv, TypeOK
<1>10. ASSUME DeleteExpired PROVE Accounted'
    BY <1>10, CleanupEffect DEF Inv
<1>11. ASSUME SelectExpired \/ Tick \/ Stall \/ UNCHANGED vars PROVE Accounted'
    BY <1>11 DEF SelectExpired, Tick, Stall, vars, history, Inv
<1> QED
    BY <1>1, <1>2, <1>3, <1>4, <1>5, <1>6, <1>7, <1>8, <1>9, <1>10, <1>11 DEF Next

\* The initial state satisfies the invariant.
LEMMA InvInit == Init => Inv
<1> SUFFICES ASSUME Init PROVE Inv
    OBVIOUS
<1>1. NoRow \in Rows /\ NoRow.id = 0
    BY DEF NoRow, Rows
<1>2. NoCall \in CallRecords /\ NoCall.id = 0
    BY DEF NoCall, CallRecords
<1>3. TypeOK
  <2>1. RowTypes /\ row.id = 0
      BY <1>1 DEF Init, RowTypes
  <2>2. CallTypes
      BY <1>2 DEF Init, CallTypes, Labels
  <2>3. \A p \in Procs : call[p].id = 0
      BY <1>2 DEF Init
  <2>4. calls \in Nat /\ faults \in Nat /\ effects \subseteq Prints \cup {0}
        /\ recorded \in Nat /\ nextId = 1
      BY BoundsAssumption DEF Init
  <2>5. lapsed \in BOOLEAN
      BY DEF Init
  <2> QED
      BY <2>1, <2>2, <2>3, <2>4, <2>5 DEF TypeOK
<1>4. \A p \in Procs : pc[p] = "idle" /\ call[p] = NoCall
    BY DEF Init
<1> QED
    BY <1>3, <1>4
       DEF Init, Inv, Found, TypeOK, RowTypes, CallTypes, Rows, CallRecords, Labels,
           Claiming, Running, Statuses, NoRow, NoCall, OneAtATime, PayloadMatches,
           RecordedMeansDone, NobodyLate, OwnsRecord, FoundBeforeClaim, RetriesFailure,
           ResponseKept, Accounted

\* The invariant is inductive, so it always holds.
THEOREM Invariance == Spec => []Inv
<1>1. Init => Inv
    BY InvInit
<1>2. Inv /\ [Next]_vars => Inv'
  <2> SUFFICES ASSUME Inv, [Next]_vars PROVE Inv'
      OBVIOUS
  <2>1. TypeOK' /\ PayloadMatches' /\ RecordedMeansDone' /\ RetriesFailure'
      BY TypeNext, PayloadNext, DoneNext, RetryNext DEF Inv
  <2>2. NobodyLate' /\ OwnsRecord' /\ OneAtATime'
      BY TimeNext, OwnerNext, OneNext
  <2>3. FoundBeforeClaim' /\ ResponseKept' /\ Accounted'
      BY FoundNext, KeptNext, AccountedNext
  <2> QED
      BY <2>1, <2>2, <2>3 DEF Inv
<1> QED
    BY <1>1, <1>2, PTL DEF Spec

\* Every variable keeps its type.
THEOREM TypeCorrect == Spec => []TypeOK
<1>1. Inv => TypeOK
    BY DEF Inv
<1> QED
    BY <1>1, Invariance, PTL

\* While everybody is on time, one process at a time executes.
THEOREM Exclusion == Spec => []OneAtATime
<1>1. Inv => OneAtATime
    BY DEF Inv
<1> QED
    BY <1>1, Invariance, PTL

\* A request executes only under a record of its own payload.
THEOREM Payload == Spec => []OneRequestPerKey
<1>1. Inv => OneRequestPerKey
    BY DEF Inv, PayloadMatches, Found, OneRequestPerKey
<1> QED
    BY <1>1, Invariance, PTL

\* A stored response is that of a successful execution of the same payload.
THEOREM StoredIsDone == Spec => []RecordedMeansDone
<1>1. Inv => RecordedMeansDone
    BY DEF Inv
<1> QED
    BY <1>1, Invariance, PTL

\* While everybody is on time, an operation whose response is stored is
\* repeated only at the edges of the record's lifetime.
THEOREM NoRepetition == Spec => NotRepeated
<1>1. Inv /\ [Next]_vars =>
        ((~lapsed /\ kind = "request" /\ recorded # 0 /\ recorded' = 0) =>
            \/ clock >= recorded + TTL
            \/ clock <= recorded + 2 * Delay)
  <2> SUFFICES ASSUME Inv, [Next]_vars, ~lapsed, kind = "request", recorded # 0, recorded' = 0
               PROVE  clock >= recorded + TTL \/ clock <= recorded + 2 * Delay
      OBVIOUS
  <2>0. /\ recorded \in Nat /\ clock \in Nat
        /\ \A p \in Procs : call[p].at \in Nat
      BY TimesTypes DEF Inv, TypeOK, RowTypes
  <2>1. ASSUME NEW p \in Procs, CreateProcessing(p)
        PROVE  clock >= recorded + TTL
    <3>1. row.id = 0
        BY <2>1 DEF CreateProcessing
    <3> QED
        BY <2>0, <3>1, TimesAssumption DEF Inv, ResponseKept
  <2>2. ASSUME NEW p \in Procs, TryReclaim(p)
        PROVE  clock >= recorded + TTL \/ clock <= recorded + 2 * Delay
    <3>1. row.status = call[p].from
        BY <2>2 DEF TryReclaim, Reclaimable
    <3>2. CASE pc[p] = "reclaimExpired"
        BY <2>0, <3>2, TimesAssumption DEF Inv, NobodyLate, FoundBeforeClaim, Claiming
    <3>3. CASE pc[p] = "reclaim"
        BY <2>0, <3>1, <3>3, TimesAssumption DEF Inv, RetriesFailure, ResponseKept
    <3> QED
        BY <2>2, <3>2, <3>3 DEF TryReclaim
  <2>3. ASSUME NEW p \in Procs, MarkSucceeded(p)
        PROVE  FALSE
      BY <2>0, <2>3 DEF MarkSucceeded, Inv, NobodyLate, Running
  <2>4. ASSUME recorded' = recorded
        PROVE  FALSE
      BY <2>4
  <2>5. ASSUME NEW p \in Procs,
               Begin(p) \/ GetByScopeAndKeyHash(p) \/ Executed(p) \/ MarkFailedRetryable(p)
                   \/ ExtendProcessingLock(p) \/ Crash(p)
        PROVE  FALSE
      BY <2>4, <2>5
         DEF Begin, GetByScopeAndKeyHash, Executed, MarkFailedRetryable,
             ExtendProcessingLock, Crash, history
  <2>6. ASSUME SelectExpired \/ DeleteExpired \/ Tick \/ Stall \/ UNCHANGED vars
        PROVE  FALSE
      BY <2>4, <2>6 DEF SelectExpired, DeleteExpired, Tick, Stall, vars, history
  <2> QED
      BY <2>1, <2>2, <2>3, <2>5, <2>6 DEF Next
<1> QED
    BY <1>1, Invariance, PTL DEF Spec, NotRepeated

-----------------------------------------------------------------------------
(* The refinement of ExecuteOnce.                                          *)

\* The initial states are initial states of the promise.
LEMMA PromiseInit == Init => Promise!Init
BY DEF Init, Promise!Init, Executions, Answer, Running, NoRow

\* A process that does not run, and still does not after the step, is no
\* execution; nor is anybody else's execution touched.
LEMMA NoExecution ==
    ASSUME CallTypes, NEW p \in Procs, pc[p] \notin Running, pc'[p] \notin Running,
           \A q \in Procs : q # p => call'[q] = call[q] /\ pc'[q] = pc[q]
    PROVE  Executions' = Executions
BY DEF Executions

\* A claim starts an execution.
LEMMA StartsExecution ==
    ASSUME CallTypes, NEW p \in Procs, pc[p] \notin Running, Claim(p)
    PROVE  Executions' = Executions \cup {<<p, call[p].print>>}
BY ClaimEffect DEF Executions, Running

\* The end of a request's execution ends this one alone.
LEMMA EndsExecution ==
    ASSUME CallTypes, NEW p \in Procs, pc[p] \in Running, Return(p)
    PROVE  /\ <<p, call[p].print>> \in Executions
           /\ Executions' = Executions \ {<<p, call[p].print>>}
BY ReturnEffect DEF Executions, Running

\* Whoever claims the record is alone, and finds no response that could still
\* be replayed, unless somebody is late.
LEMMA ClaimAllowed ==
    ASSUME Inv, ~lapsed, NEW p \in Procs,
           \/ CreateProcessing(p) /\ row.id = 0
           \/ TryReclaim(p) /\ Reclaimable(p)
    PROVE  Executions = {} /\ Promise!Void
<1>1. CASE CreateProcessing(p) /\ row.id = 0
  <2>1. \A q \in Procs : pc[q] \notin Running
      BY <1>1 DEF Inv, OwnsRecord
  <2>2. CASE Answer = {}
      BY <2>1, <2>2 DEF Executions, Promise!Void
  <2>3. CASE Answer # {}
    <3>1. kind = "request" /\ recorded # 0
        BY <2>3 DEF Answer, Inv, Accounted
    <3>2. recorded + TTL <= clock
        BY <1>1, <3>1 DEF Inv, ResponseKept
    <3>3. clock >= recorded + TTL
        BY <3>2, TimesAssumption DEF Inv, TypeOK, RowTypes
    <3> QED
        BY <2>1, <3>1, <3>3 DEF Executions, Promise!Void
  <2> QED
      BY <2>2, <2>3
<1>2. CASE TryReclaim(p) /\ Reclaimable(p)
  <2>1. \A q \in Procs : pc[q] \notin Running
      BY <1>2, Nobody
  <2>2. CASE Answer = {}
      BY <2>1, <2>2 DEF Executions, Promise!Void
  <2>3. CASE Answer # {}
    <3>1. kind = "request" /\ recorded # 0 /\ row.status = "succeeded"
        BY <2>3 DEF Answer, Inv, Accounted
    <3>2. pc[p] = "reclaimExpired"
        BY <1>2, <3>1 DEF TryReclaim, Reclaimable, Inv, RetriesFailure
    <3>3. call[p].at <= recorded + Delay \/ recorded + TTL <= call[p].at
        BY <3>1, <3>2 DEF Inv, FoundBeforeClaim
    <3>4. call[p].at <= clock /\ clock <= call[p].at + Delay
        BY <3>2 DEF Inv, NobodyLate, Claiming
    <3>5. clock >= recorded + TTL \/ clock <= recorded + 2 * Delay
        BY <3>3, <3>4, TimesTypes, TimesAssumption DEF Inv, TypeOK
    <3> QED
        BY <2>1, <3>1, <3>5 DEF Executions, Promise!Void
  <2> QED
      BY <2>2, <2>3
<1> QED
    BY <1>1, <1>2

\* Every step is a step of the promise, or leaves what it speaks of alone.
LEMMA Simulation == Inv /\ [Next]_vars => [Promise!Next]_(Promise!vars)
<1> SUFFICES ASSUME Inv, [Next]_vars PROVE [Promise!Next]_(Promise!vars)
    OBVIOUS
<1>t. TypeOK /\ CallTypes
    BY DEF Inv, TypeOK
<1>1. ASSUME NEW p \in Procs, Begin(p) PROVE UNCHANGED Promise!vars
  <2>1. Executions' = Executions
      BY <1>t, <1>1, NoExecution DEF Begin, CallTypes, Running
  <2> QED
      BY <1>1, <2>1 DEF Begin, history, Answer, Promise!vars
<1>2. ASSUME NEW p \in Procs,
             \/ CreateProcessing(p) /\ row.id = 0
             \/ TryReclaim(p) /\ Reclaimable(p)
      PROVE  Promise!Start(p, call[p].print) /\ call[p].print \in Prints
  <2>1. Claim(p) /\ row'.status = "processing" /\ pc[p] \in Claiming
        /\ UNCHANGED <<kind, clock, effects, lapsed>>
      BY <1>t, <1>2, ReclaimedRow DEF CreateProcessing, TryReclaim, Claiming
  <2>2. call[p].print \in Prints
      BY <2>1 DEF Inv, Accounted, Claiming
  <2>3. Executions' = Executions \cup {<<p, call[p].print>>}
      BY <1>t, <2>1, StartsExecution DEF Claiming, Running
  <2>4. Answer' = {}
      BY <2>1 DEF Answer
  <2>5. lapsed \/ (Executions = {} /\ Promise!Void)
      BY <1>2, ClaimAllowed
  <2> QED
      BY <2>1, <2>2, <2>3, <2>4, <2>5 DEF Promise!Start
<1>3. ASSUME NEW p \in Procs,
             \/ CreateProcessing(p) /\ row.id # 0
             \/ TryReclaim(p) /\ ~Reclaimable(p)
             \/ GetByScopeAndKeyHash(p)
      PROVE  UNCHANGED Promise!vars
  <2>1. UNCHANGED <<kind, row, clock, history>>
      BY <1>3 DEF CreateProcessing, TryReclaim, GetByScopeAndKeyHash, history
  <2>2. pc[p] \notin Running /\ pc'[p] \notin Running
        /\ \A q \in Procs : q # p => call'[q] = call[q] /\ pc'[q] = pc[q]
    <3>1. CASE CreateProcessing(p) /\ row.id # 0
        BY <1>t, <3>1 DEF CreateProcessing, Goto, CallTypes, Running
    <3>2. CASE TryReclaim(p) /\ ~Reclaimable(p)
        BY <1>t, <3>2, NotReclaimed DEF TryReclaim, Running
    <3>3. CASE GetByScopeAndKeyHash(p)
        BY <1>t, <3>3, FoundEffect DEF GetByScopeAndKeyHash, Running
    <3> QED
        BY <1>3, <3>1, <3>2, <3>3
  <2>3. Executions' = Executions
      BY <1>t, <2>2, NoExecution
  <2> QED
      BY <2>1, <2>3 DEF history, Answer, Promise!vars
<1>4. ASSUME NEW p \in Procs, Executed(p)
      PROVE  /\ call[p].print \in Prints
             /\ Promise!Succeed(p, call[p].print) \/ UNCHANGED Promise!vars
  <2>1. Executions' = Executions /\ <<p, call[p].print>> \in Executions
      BY <1>t, <1>4 DEF Executed, Goto, CallTypes, Executions, Running
  <2>2. call[p].print \in Prints
      BY <1>4 DEF Executed, Inv, Accounted
  <2>3. Answer' = Answer /\ UNCHANGED <<kind, recorded, clock, lapsed>>
      BY <1>4 DEF Executed, Answer
  <2> QED
      BY <1>4, <2>1, <2>2, <2>3 DEF Executed, Promise!Succeed, Promise!vars
<1>5. ASSUME NEW p \in Procs, MarkSucceeded(p)
      PROVE  /\ call[p].print \in Prints
             /\ Promise!Keep(p, call[p].print) \/ Promise!End(p, call[p].print)
  <2>1. /\ pc[p] = "markOk" /\ pc[p] \in Running /\ Return(p)
        /\ UNCHANGED <<kind, clock, effects, lapsed>>
      BY <1>5 DEF MarkSucceeded, Running
  <2>2. call[p].print \in Prints
      BY <2>1 DEF Inv, Accounted
  <2>3. /\ <<p, call[p].print>> \in Executions
        /\ Executions' = Executions \ {<<p, call[p].print>>}
      BY <1>t, <2>1, EndsExecution
  <2>4. CASE kind = "request" /\ row.id = call[p].id
    <3>1. row'.status = "succeeded" /\ row'.print = row.print /\ recorded' = call[p].at
        BY <1>t, <1>5, <2>4, SucceededRow
    <3>2. row.print = call[p].print /\ call[p].print \in effects
        BY <2>1, <2>4 DEF Inv, PayloadMatches, Found
    <3>3. Answer' = {call[p].print}
        BY <2>1, <2>4, <3>1, <3>2 DEF Answer
    <3>4. ~lapsed => Answer = {} /\ call[p].at \in 1 .. clock
      <4>1. ~lapsed => row.status = "processing" /\ call[p].at > 0 /\ call[p].at <= clock
          BY <2>1 DEF Inv, OwnsRecord, NobodyLate
      <4> QED
          BY <1>t, <4>1, TimesTypes DEF Answer
    <3> QED
        BY <2>1, <2>2, <2>3, <2>4, <3>1, <3>2, <3>3, <3>4 DEF Promise!Keep
  <2>5. CASE ~(kind = "request" /\ row.id = call[p].id)
    <3>1. Answer' = Answer
        BY <1>t, <1>5, <2>1, <2>5, SucceededRow DEF Answer
    <3>2. kind = "request" => recorded' = recorded
        BY <1>5, <2>5 DEF MarkSucceeded
    <3> QED
        BY <2>1, <2>2, <2>3, <3>1, <3>2 DEF Promise!End
  <2> QED
      BY <2>4, <2>5
<1>6. ASSUME NEW p \in Procs, MarkFailedRetryable(p)
      PROVE  call[p].print \in Prints /\ Promise!End(p, call[p].print)
  <2>1. /\ pc[p] = "markFailed" /\ pc[p] \in Running /\ Return(p)
        /\ UNCHANGED <<kind, clock, history>>
      BY <1>6 DEF MarkFailedRetryable, Running
  <2>2. call[p].print \in Prints
      BY <2>1 DEF Inv, Accounted
  <2>3. /\ <<p, call[p].print>> \in Executions
        /\ Executions' = Executions \ {<<p, call[p].print>>}
      BY <1>t, <2>1, EndsExecution
  <2>4. Answer' = Answer \/ (lapsed /\ Answer' = {})
    <3>1. ~lapsed => row.status = "processing"
        BY <2>1 DEF Inv, OwnsRecord
    <3> QED
        BY <1>t, <1>6, <2>1, <3>1, FailedRow DEF Answer
  <2> QED
      BY <2>1, <2>2, <2>3, <2>4 DEF Promise!End, history
<1>7. ASSUME NEW p \in Procs, ExtendProcessingLock(p)
      PROVE  Promise!BeLate \/ UNCHANGED Promise!vars
  <2>1. /\ kind' = kind /\ kind = "lock" /\ pc' = pc
        /\ UNCHANGED <<clock, effects, recorded>>
        /\ lapsed' = lapsed \/ lapsed' = TRUE
      BY <1>7 DEF ExtendProcessingLock
  <2>2. Executions' = Executions
      BY <1>t, <1>7, <2>1, RenewedRow DEF Executions
  <2> QED
      BY <2>1, <2>2 DEF Answer, Promise!BeLate, Promise!vars
<1>8. ASSUME NEW p \in Procs, Crash(p)
      PROVE  \/ UNCHANGED Promise!vars
             \/ call[p].print \in Prints /\ Promise!End(p, call[p].print)
  <2>1. UNCHANGED <<kind, row, clock, history>> /\ Return(p) /\ pc[p] # "idle"
      BY <1>8 DEF Crash
  <2>2. CASE pc[p] \in Running
      BY <1>t, <2>1, <2>2, EndsExecution DEF history, Answer, Promise!End, Inv, Accounted
  <2>3. CASE pc[p] \notin Running
    <3>1. Executions' = Executions
        BY <1>t, <2>1, <2>3, ReturnEffect, NoExecution DEF Running
    <3> QED
        BY <2>1, <3>1 DEF history, Answer, Promise!vars
  <2> QED
      BY <2>2, <2>3
<1>9. ASSUME DeleteExpired
      PROVE  Promise!Forget \/ Promise!BeLate \/ UNCHANGED Promise!vars
  <2>1. Executions' = Executions /\ UNCHANGED <<kind, clock, effects, recorded>>
      BY <1>t, <1>9, CleanupEffect DEF Executions
  <2>2. Answer' = Answer \/ Answer' = {}
      BY <1>t, <1>9, CleanupEffect DEF Answer
  <2>3. CASE lapsed' = TRUE /\ ~lapsed
      BY <2>1, <2>2, <2>3 DEF Promise!BeLate
  <2>4. CASE lapsed' = lapsed /\ Answer' = Answer
      BY <2>1, <2>4 DEF Promise!vars
  <2>5. CASE lapsed' = lapsed /\ Answer' # Answer
    <3>1. kind = "request" /\ row.status = "succeeded" /\ Answer' = {}
        BY <2>2, <2>5 DEF Answer
    <3>2. lapsed \/ row.expires <= clock
        BY <1>t, <1>9, <2>1, <2>5, CleanupEffect DEF Answer
    <3>3. lapsed \/ clock >= recorded + TTL
        BY <3>1, <3>2, TimesAssumption
           DEF Inv, TypeOK, RowTypes, Rows, Accounted, ResponseKept
    <3> QED
        BY <2>1, <2>5, <3>1, <3>3 DEF Promise!Forget
  <2> QED
      BY <1>t, <1>9, <2>3, <2>4, <2>5, CleanupEffect
<1>10. ASSUME Tick PROVE Promise!Tick
    BY <1>10 DEF Tick, history, Executions, Answer, Promise!Tick
<1>11. ASSUME Stall PROVE Promise!BeLate
    BY <1>11 DEF Stall, Executions, Answer, Promise!BeLate
<1>12. ASSUME SelectExpired \/ UNCHANGED vars PROVE UNCHANGED Promise!vars
    BY <1>12 DEF SelectExpired, vars, history, Executions, Answer, Promise!vars
<1>13. CASE \E p \in Procs : CreateProcessing(p) \/ TryReclaim(p)
    BY <1>13, <1>2, <1>3 DEF Promise!Next
<1>14. CASE \E p \in Procs : Begin(p) \/ GetByScopeAndKeyHash(p)
    BY <1>14, <1>1, <1>3
<1>15. CASE \E p \in Procs : \/ Executed(p) \/ MarkSucceeded(p) \/ MarkFailedRetryable(p)
                              \/ ExtendProcessingLock(p) \/ Crash(p)
    BY <1>15, <1>4, <1>5, <1>6, <1>7, <1>8 DEF Promise!Next
<1>16. CASE DeleteExpired \/ Tick \/ Stall
    BY <1>16, <1>9, <1>10, <1>11 DEF Promise!Next
<1>17. CASE SelectExpired \/ UNCHANGED vars
    BY <1>17, <1>12
<1> QED
    BY <1>13, <1>14, <1>15, <1>16, <1>17 DEF Next

\* The statements of Execute, Acquire, the renewals and the cleanup implement
\* ExecuteOnce: one execution at a time, and no other while its response lives.
THEOREM Refinement == Spec => KeepsPromise
<1>1. Init => Promise!Init
    BY PromiseInit
<1>2. Inv /\ [Next]_vars => [Promise!Next]_(Promise!vars)
    BY Simulation
<1> QED
    BY <1>1, <1>2, Invariance, PTL DEF Spec, KeepsPromise, Promise!Spec

=============================================================================
