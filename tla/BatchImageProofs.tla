-------------------------- MODULE BatchImageProofs --------------------------
(***************************************************************************)
(* Proofs about BatchImage, for any number of workers, retries and         *)
(* failures, any cost and any hold.                                        *)
(***************************************************************************)
EXTENDS BatchImage, TLAPS

\* A worker is none of the clients, and every process is one or the other.
LEMMA Apart ==
    /\ "submit" \in Procs /\ "user" \in Procs /\ "recovery" \in Procs
    /\ \A w \in Workers : w \in Procs /\ w # "submit" /\ w # "user" /\ w # "recovery"
    /\ NoWorker \notin Workers
BY BatchAssumption DEF Procs, Clients

\* The names that steps put into the sets.
LEMMA Names ==
    /\ "hold" \in HoldRequests /\ "capture" \in HoldRequests /\ "release" \in HoldRequests
    /\ "holdUnknown" \in Lapses /\ "releasedEarly" \in Lapses /\ "captureUnknown" \in Lapses
    /\ "overlap" \in Lapses /\ "stranded" \in Lapses /\ "unqueued" \in Lapses
    /\ "recoded" \in Lapses
    /\ "name" \in Columns /\ "deleted" \in Columns /\ "settleErr" \in Columns
    /\ "delayed" \in Keys /\ "active" \in Keys /\ "inflight" \in Keys
BY DEF HoldRequests, Lapses, Columns, Keys


\* Every step keeps the types.
LEMMA TypeOKStep ==
    TypeOK /\ [Next]_vars => TypeOK'
<1> SUFFICES ASSUME TypeOK, [Next]_vars
             PROVE  TypeOK'
    OBVIOUS
<1> USE BatchAssumption, LedgerAssumption, Apart
<1>1. ASSUME CreateJob PROVE TypeOK'
    BY <1>1, Names
       DEF CreateJob, Goto, TypeOK, LedgerTypeOK, Statuses, Unsubmitted, Processing,
           Refundable, Terminal, Labels, Critical, Settling, queue, ledger
<1>2. ASSUME ReserveHold PROVE TypeOK'
    BY <1>2, Names
       DEF ReserveHold, Goto, Fault, ReserveBatchImageBalance, ReserveRefused, TypeOK,
           LedgerTypeOK, Statuses, Unsubmitted, Processing, Refundable, Terminal, Labels,
           Critical, Settling, row, queue, ledger
<1>3. ASSUME CreatePendingItems PROVE TypeOK'
    BY <1>3, Names
       DEF CreatePendingItems, Goto, Fault, TypeOK, LedgerTypeOK, Statuses, Unsubmitted,
           Processing, Refundable, Terminal, Labels, Critical, Settling, row, queue, ledger
<1>4. ASSUME StartUpload PROVE TypeOK'
    BY <1>4, Names
       DEF StartUpload, Goto, Fault, Transition, CanTransition, TypeOK, LedgerTypeOK,
           Statuses, Unsubmitted, Processing, Refundable, Terminal, Labels, Critical,
           Settling, row, queue, ledger
<1>5. ASSUME ProviderSubmit PROVE TypeOK'
    BY <1>5, Names
       DEF ProviderSubmit, Goto, TypeOK, LedgerTypeOK, Statuses, Unsubmitted, Processing,
           Refundable, Terminal, Labels, Critical, Settling, RemoteStates, row, queue,
           ledger
<1>6. ASSUME UpdateProviderSubmit PROVE TypeOK'
    BY <1>6, Names
       DEF UpdateProviderSubmit, Goto, Fault, Lapse, SetProviderSubmit, CanTransition,
           TypeOK, LedgerTypeOK, Statuses, Unsubmitted, Processing, Refundable, Terminal,
           Labels, Critical, Settling, row, queue, ledger
<1>7. ASSUME AbortOrphanProviderJob PROVE TypeOK'
    BY <1>7, Names
       DEF AbortOrphanProviderJob, Goto, ProviderCancel, TypeOK, LedgerTypeOK, Statuses,
           Unsubmitted, Processing, Refundable, Terminal, Labels, Critical, Settling,
           RemoteStates, row, queue, ledger
<1>8. ASSUME EnqueueSubmitted PROVE TypeOK'
    BY <1>8, Names
       DEF EnqueueSubmitted, Goto, Fault, Lapse, Enqueue, TypeOK, LedgerTypeOK, Statuses,
           Unsubmitted, Processing, Refundable, Terminal, Labels, Critical, Settling, row,
           queue, ledger
<1>9. ASSUME RecordFailed PROVE TypeOK'
    BY <1>9, Names
       DEF RecordFailed, Goto, Fault, RecordSubmitFailure, TypeOK, LedgerTypeOK, Statuses,
           Unsubmitted, Processing, Refundable, Terminal, Labels, Critical, Settling, row,
           queue, ledger
<1>10. ASSUME HidePreUpstreamSubmitFailure PROVE TypeOK'
    BY <1>10, Names
       DEF HidePreUpstreamSubmitFailure, Goto, Fault, MarkUserDeleted, TypeOK,
           LedgerTypeOK, Statuses, Unsubmitted, Processing, Refundable, Terminal, Labels,
           Critical, Settling, row, queue, ledger
<1>11. ASSUME SubmitDies PROVE TypeOK'
    BY <1>11, Names
       DEF SubmitDies, Goto, Fault, TypeOK, LedgerTypeOK, Statuses, Unsubmitted,
           Processing, Refundable, Terminal, Labels, Critical, Settling, row, queue, ledger
<1>12. ASSUME CancelReads PROVE TypeOK'
    BY <1>12, Names
       DEF CancelReads, Goto, TypeOK, LedgerTypeOK, Statuses, Unsubmitted, Processing,
           Refundable, Terminal, Labels, Critical, Settling, row, queue, ledger
<1>13. ASSUME CancelAtProvider PROVE TypeOK'
    BY <1>13, Names
       DEF CancelAtProvider, Goto, ProviderCancel, TypeOK, LedgerTypeOK, Statuses,
           Unsubmitted, Processing, Refundable, Terminal, Labels, Critical, Settling,
           RemoteStates, row, queue, ledger
<1>14. ASSUME CancelEnqueues PROVE TypeOK'
    BY <1>14, Names
       DEF CancelEnqueues, Goto, Fault, Enqueue, TypeOK, LedgerTypeOK, Statuses,
           Unsubmitted, Processing, Refundable, Terminal, Labels, Critical, Settling, row,
           queue, ledger
<1>15. ASSUME CancelTransition PROVE TypeOK'
    BY <1>15, Names
       DEF CancelTransition, Goto, Fault, Lapse, Transition, CanTransition, TypeOK,
           LedgerTypeOK, Statuses, Unsubmitted, Processing, Refundable, Terminal, Labels,
           Critical, Settling, row, queue, ledger
<1>16. ASSUME ResubmitReads PROVE TypeOK'
    BY <1>16, Names
       DEF ResubmitReads, Goto, TypeOK, LedgerTypeOK, Statuses, Unsubmitted, Processing,
           Refundable, Terminal, Labels, Critical, Settling, row, queue, ledger
<1>17. ASSUME ResubmitEnqueues PROVE TypeOK'
    BY <1>17, Names
       DEF ResubmitEnqueues, Goto, Fault, Enqueue, TypeOK, LedgerTypeOK, Statuses,
           Unsubmitted, Processing, Refundable, Terminal, Labels, Critical, Settling, row,
           queue, ledger
<1>18. ASSUME DeleteRecord PROVE TypeOK'
    BY <1>18, Names DEF DeleteRecord, MarkUserDeleted, TypeOK, LedgerTypeOK, queue, ledger
<1>19. ASSUME FailStaleUnsubmitted PROVE TypeOK'
    BY <1>19, Names
       DEF FailStaleUnsubmitted, Goto, Fault, Lapse, Transition, CanTransition, TypeOK,
           LedgerTypeOK, Statuses, Unsubmitted, Processing, Refundable, Terminal, Labels,
           Critical, Settling, queue, ledger
<1>20. ASSUME NEW w \in Workers, WorkerReserves(w) PROVE TypeOK'
    BY <1>20, Names
       DEF WorkerReserves, Goto, Reserve, TypeOK, LedgerTypeOK, Statuses, Unsubmitted,
           Processing, Refundable, Terminal, Labels, Critical, Settling, row, ledger
<1>21. ASSUME NEW w \in Workers, WorkerLocks(w) PROVE TypeOK'
    BY <1>21, Names
       DEF WorkerLocks, Goto, Fault, RequeueAfter, TypeOK, LedgerTypeOK, Statuses,
           Unsubmitted, Processing, Refundable, Terminal, Labels, Critical, Settling, row,
           queue, ledger
<1>22. ASSUME NEW w \in Workers, PipelineReads(w) PROVE TypeOK'
    BY <1>22, Names
       DEF PipelineReads, Goto, TypeOK, LedgerTypeOK, Statuses, Unsubmitted, Processing,
           Refundable, Terminal, Labels, Critical, Settling, row, queue, ledger
<1>23. ASSUME NEW w \in Workers, ProcessReads(w) \/ ProcessFails(w) PROVE TypeOK'
    BY <1>23, Names
       DEF ProcessReads, ProcessFails, Goto, TypeOK, LedgerTypeOK, Statuses, Unsubmitted,
           Processing,
           Refundable, Terminal, Labels, Critical, Settling, row, queue, ledger
<1>24. ASSUME NEW w \in Workers, PollProvider(w) PROVE TypeOK'
    BY <1>24, Names
       DEF PollProvider, Goto, Fault, WorkerTransition, Transition, CanTransition, TypeOK,
           LedgerTypeOK, Statuses, Unsubmitted, Processing, Refundable, Terminal, Labels,
           Critical, Settling, row, queue, ledger
<1>25. ASSUME NEW w \in Workers, IndexResults(w) PROVE TypeOK'
    BY <1>25, Names
       DEF IndexResults, Goto, Fault, ReplaceItems, TypeOK, LedgerTypeOK, Statuses,
           Unsubmitted, Processing, Refundable, Terminal, Labels, Critical, Settling, row,
           queue, ledger
<1>26. ASSUME NEW w \in Workers, FailIndex(w) PROVE TypeOK'
    BY <1>26, Names
       DEF FailIndex, Goto, Fault, WorkerTransition, Transition, CanTransition, TypeOK,
           LedgerTypeOK, Statuses, Unsubmitted, Processing, Refundable, Terminal, Labels,
           Critical, Settling, row, queue, ledger
<1>27. ASSUME NEW w \in Workers, StartSettling(w) PROVE TypeOK'
    BY <1>27, Names
       DEF StartSettling, Goto, Fault, WorkerTransition, Transition, CanTransition, TypeOK,
           LedgerTypeOK, Statuses, Unsubmitted, Processing, Refundable, Terminal, Labels,
           Critical, Settling, row, queue, ledger
<1>28. ASSUME NEW w \in Workers, SettleReads(w) PROVE TypeOK'
    BY <1>28, Names
       DEF SettleReads, Goto, Exhausted, TypeOK, LedgerTypeOK, Statuses, Unsubmitted,
           Processing, Refundable, Terminal, Labels, Critical, Settling, row, queue, ledger
<1>29. ASSUME NEW w \in Workers, CaptureHold(w) PROVE TypeOK'
    BY <1>29, Names
       DEF CaptureHold, Goto, Fault, CaptureBatchImageBalance, CaptureRefused, TypeOK,
           LedgerTypeOK, Statuses, Unsubmitted, Processing, Refundable, Terminal, Labels,
           Critical, Settling, row, queue, ledger
<1>30. ASSUME NEW w \in Workers, RecordSettlementFailure(w) PROVE TypeOK'
    BY <1>30, Names
       DEF RecordSettlementFailure, Goto, Fault, SetSettlementFailed, TypeOK, LedgerTypeOK,
           Statuses, Unsubmitted, Processing, Refundable, Terminal, Labels, Critical,
           Settling, row, queue, ledger
<1>31. ASSUME NEW w \in Workers, FailExhausted(w) PROVE TypeOK'
    BY <1>31, Names
       DEF FailExhausted, Goto, Fault, WorkerTransition, Transition, CanTransition, TypeOK,
           LedgerTypeOK, Statuses, Unsubmitted, Processing, Refundable, Terminal, Labels,
           Critical, Settling, row, queue, ledger
<1>32. ASSUME NEW w \in Workers, RecordReleaseFailed(w) PROVE TypeOK'
    BY <1>32, Names
       DEF RecordReleaseFailed, Goto, Fault, SetSettlementFailed, TypeOK, LedgerTypeOK,
           Statuses, Unsubmitted, Processing, Refundable, Terminal, Labels, Critical,
           Settling, row, queue, ledger
<1>33. ASSUME NEW w \in Workers, MarkSettled(w) PROVE TypeOK'
    BY <1>33, Names
       DEF MarkSettled, Goto, Fault, WorkerTransition, Transition, CanTransition, TypeOK,
           LedgerTypeOK, Statuses, Unsubmitted, Processing, Refundable, Terminal, Labels,
           Critical, Settling, row, queue, ledger
<1>34. ASSUME NEW w \in Workers, WorkerAcks(w) PROVE TypeOK'
    BY <1>34, Names
       DEF WorkerAcks, Goto, Fault, Ack, TypeOK, LedgerTypeOK, Statuses, Unsubmitted,
           Processing, Refundable, Terminal, Labels, Critical, Settling, row, queue, ledger
<1>35. ASSUME NEW w \in Workers, WorkerRequeues(w) PROVE TypeOK'
    BY <1>35, Names
       DEF WorkerRequeues, Goto, Fault, RequeueAfter, TypeOK, LedgerTypeOK, Statuses,
           Unsubmitted, Processing, Refundable, Terminal, Labels, Critical, Settling, row,
           queue, ledger
<1>36. ASSUME NEW w \in Workers, WorkerUnlocks(w) PROVE TypeOK'
    BY <1>36, Names
       DEF WorkerUnlocks, Goto, Fault, TypeOK, LedgerTypeOK, Statuses, Unsubmitted,
           Processing, Refundable, Terminal, Labels, Critical, Settling, row, queue, ledger
<1>37. ASSUME NEW w \in Workers, WorkerDies(w) PROVE TypeOK'
    BY <1>37, Names
       DEF WorkerDies, Goto, Fault, TypeOK, LedgerTypeOK, Statuses, Unsubmitted,
           Processing, Refundable, Terminal, Labels, Critical, Settling, row, queue, ledger
<1>38. ASSUME NEW p \in Clients, EnqueueBillingRetry(p) PROVE TypeOK'
    BY <1>38, Names
       DEF EnqueueBillingRetry, Goto, Fault, Lapse, Enqueue, TypeOK, LedgerTypeOK, Labels,
           row, queue, ledger, Clients, Procs
<1>39. ASSUME NEW p \in {"submit", "user"}, RecordQueueFailed(p) PROVE TypeOK'
    BY <1>39, Names
       DEF RecordQueueFailed, Goto, Fault, RecordSubmitFailure, TypeOK, LedgerTypeOK,
           Statuses, Unsubmitted, Processing, Refundable, Terminal, Labels, Critical,
           Settling, row, queue, ledger
<1>40. ASSUME NEW p \in {"user", "recovery"}, ClientDies(p) PROVE TypeOK'
    BY <1>40, Names
       DEF ClientDies, Goto, Fault, TypeOK, LedgerTypeOK, Statuses, Unsubmitted,
           Processing, Refundable, Terminal, Labels, Critical, Settling, row, queue, ledger
<1>41. ASSUME ReleaseHold("submit", "release", "recordFailed", "recordUnreleased")
      PROVE  TypeOK'
    BY <1>41, Names
       DEF ReleaseHold, Goto, Fault, ReleaseBatchImageBalance, ReleaseRefused, TypeOK,
           LedgerTypeOK, Statuses, Unsubmitted, Processing, Refundable, Terminal, Labels,
           Critical, Settling, row, queue, ledger
<1>42. ASSUME ReleaseHold("submit", "releaseReturn", "done", "recordUnreleased")
      PROVE  TypeOK'
    BY <1>42, Names
       DEF ReleaseHold, Goto, Fault, ReleaseBatchImageBalance, ReleaseRefused, TypeOK,
           LedgerTypeOK, Statuses, Unsubmitted, Processing, Refundable, Terminal, Labels,
           Critical, Settling, row, queue, ledger
<1>43. ASSUME ReleaseHold("user", "release", "idle", "retry") PROVE TypeOK'
    BY <1>43, Names
       DEF ReleaseHold, Goto, Fault, ReleaseBatchImageBalance, ReleaseRefused, TypeOK,
           LedgerTypeOK, Statuses, Unsubmitted, Processing, Refundable, Terminal, Labels,
           Critical, Settling, row, queue, ledger
<1>44. ASSUME ReleaseHold("recovery", "release", "idle", "retry") PROVE TypeOK'
    BY <1>44, Names
       DEF ReleaseHold, Goto, Fault, ReleaseBatchImageBalance, ReleaseRefused, TypeOK,
           LedgerTypeOK, Statuses, Unsubmitted, Processing, Refundable, Terminal, Labels,
           Critical, Settling, row, queue, ledger
<1>45. ASSUME NEW w \in Workers, ReleaseHold(w, "terminalRelease", "ack", "requeue")
      PROVE  TypeOK'
    BY <1>45, Names
       DEF ReleaseHold, Goto, Fault, ReleaseBatchImageBalance, ReleaseRefused, TypeOK,
           LedgerTypeOK, Statuses, Unsubmitted, Processing, Refundable, Terminal, Labels,
           Critical, Settling, row, queue, ledger
<1>46. ASSUME NEW w \in Workers, ReleaseHold(w, "exhaust", "exhaustFail", "exhaustRecord")
      PROVE  TypeOK'
    BY <1>46, Names
       DEF ReleaseHold, Goto, Fault, ReleaseBatchImageBalance, ReleaseRefused, TypeOK,
           LedgerTypeOK, Statuses, Unsubmitted, Processing, Refundable, Terminal, Labels,
           Critical, Settling, row, queue, ledger
<1>47. ASSUME MoveDueDelayedToReady PROVE TypeOK'
    BY <1>47, Names DEF MoveDueDelayedToReady, TypeOK, LedgerTypeOK, row, ledger
<1>48. ASSUME RecoverStaleActive PROVE TypeOK'
    BY <1>48, Names DEF RecoverStaleActive, Fault, TypeOK, LedgerTypeOK, row, ledger
<1>49. ASSUME LockExpires PROVE TypeOK'
    BY <1>49, Names DEF LockExpires, Fault, Lapse, TypeOK, LedgerTypeOK, row, queue, ledger
<1>50. ASSUME ProviderFinishes PROVE TypeOK'
    BY <1>50, Names
       DEF ProviderFinishes, TypeOK, LedgerTypeOK, Statuses, Unsubmitted, Processing,
           Refundable, Terminal, Labels, Critical, Settling, RemoteStates, row, queue,
           ledger
<1>51. ASSUME OutputCleanup PROVE TypeOK'
    BY <1>51, Names
       DEF OutputCleanup, Transition, CanTransition, TypeOK, LedgerTypeOK, Statuses,
           Unsubmitted, Processing, Refundable, Terminal, Labels, Critical, Settling,
           queue, ledger
<1>52. ASSUME UNCHANGED vars PROVE TypeOK'
    BY <1>52, Names DEF vars, TypeOK, LedgerTypeOK, row, queue, ledger
<1> QED
    BY <1>1, <1>2, <1>3, <1>4, <1>5, <1>6, <1>7, <1>8, <1>9, <1>10, <1>11, <1>12, <1>13,
       <1>14, <1>15, <1>16, <1>17, <1>18, <1>19, <1>20, <1>21, <1>22, <1>23, <1>24, <1>25,
       <1>26, <1>27, <1>28, <1>29, <1>30, <1>31, <1>32, <1>33, <1>34, <1>35, <1>36, <1>37,
       <1>38, <1>39, <1>40, <1>41, <1>42, <1>43, <1>44, <1>45, <1>46, <1>47, <1>48, <1>49,
       <1>50, <1>51, <1>52
       DEF Next, SubmitNext, UserNext, RecoveryNext, WorkerNext, Clients

\* Submit gives the job its name, and its hold, at the right time.
LEMMA SubmitInvStep ==
    TypeOK /\ SubmitInv /\ ReleaseInv /\ SettleInv /\ [Next]_vars
    => SubmitInv'
<1> SUFFICES ASSUME TypeOK, SubmitInv, ReleaseInv, SettleInv, [Next]_vars
             PROVE  SubmitInv'
    OBVIOUS
<1> USE BatchAssumption, LedgerAssumption, Apart
<1>1. ASSUME CreateJob PROVE SubmitInv'
    BY <1>1
       DEF CreateJob, Goto, SubmitInv, named, TypeOK, Unnamed, WithHold, Unsubmitted,
           Processing, Refundable, Terminal, Settled, queue, ledger
<1>2. ASSUME ReserveHold PROVE SubmitInv'
    BY <1>2
       DEF ReserveHold, Goto, Fault, ReserveBatchImageBalance, ReserveRefused, SubmitInv,
           named, TypeOK, Unnamed, WithHold, Unsubmitted, Processing, Refundable, Terminal,
           Settled, row, queue, ledger
<1>3. ASSUME CreatePendingItems PROVE SubmitInv'
    BY <1>3
       DEF CreatePendingItems, Goto, Fault, SubmitInv, named, TypeOK, Unnamed, WithHold,
           Unsubmitted, Processing, Refundable, Terminal, Settled, row, queue, ledger
<1>4. ASSUME StartUpload PROVE SubmitInv'
    BY <1>4
       DEF StartUpload, Goto, Fault, Transition, CanTransition, SubmitInv, named, TypeOK,
           Unnamed, WithHold, Unsubmitted, Processing, Refundable, Terminal, Settled, row,
           queue, ledger
<1>5. ASSUME ProviderSubmit PROVE SubmitInv'
    BY <1>5
       DEF ProviderSubmit, Goto, SubmitInv, named, TypeOK, Unnamed, WithHold, Unsubmitted,
           Processing, Refundable, Terminal, Settled, row, queue, ledger
<1>6. ASSUME UpdateProviderSubmit PROVE SubmitInv'
    BY <1>6
       DEF UpdateProviderSubmit, Goto, Fault, Lapse, SetProviderSubmit, CanTransition,
           SubmitInv, named, TypeOK, Unnamed, WithHold, Unsubmitted, Processing,
           Refundable, Terminal, Settled, row, queue, ledger
<1>7. ASSUME AbortOrphanProviderJob PROVE SubmitInv'
    BY <1>7
       DEF AbortOrphanProviderJob, Goto, ProviderCancel, SubmitInv, named, TypeOK, Unnamed,
           WithHold, Unsubmitted, Processing, Refundable, Terminal, Settled, row, queue,
           ledger
<1>8. ASSUME EnqueueSubmitted PROVE SubmitInv'
    BY <1>8
       DEF EnqueueSubmitted, Goto, Fault, Lapse, Enqueue, SubmitInv, named, TypeOK,
           Unnamed, WithHold, Unsubmitted, Processing, Refundable, Terminal, Settled, row,
           queue, ledger
<1>9. ASSUME RecordFailed PROVE SubmitInv'
    BY <1>9
       DEF RecordFailed, Goto, Fault, RecordSubmitFailure, SubmitInv, named, TypeOK,
           Unnamed, WithHold, Unsubmitted, Processing, Refundable, Terminal, Settled, row,
           queue, ledger
<1>10. ASSUME HidePreUpstreamSubmitFailure PROVE SubmitInv'
    BY <1>10
       DEF HidePreUpstreamSubmitFailure, Goto, Fault, MarkUserDeleted, SubmitInv, named,
           TypeOK, Unnamed, WithHold, Unsubmitted, Processing, Refundable, Terminal,
           Settled, row, queue, ledger
<1>11. ASSUME SubmitDies PROVE SubmitInv'
    BY <1>11
       DEF SubmitDies, Goto, Fault, SubmitInv, named, TypeOK, Unnamed, WithHold,
           Unsubmitted, Processing, Refundable, Terminal, Settled, row, queue, ledger
<1>12. ASSUME CancelTransition PROVE SubmitInv'
    BY <1>12
       DEF CancelTransition, Goto, Fault, Lapse, Transition, CanTransition, SubmitInv,
           named, TypeOK, Unnamed, WithHold, Unsubmitted, Processing, Refundable, Terminal,
           Settled, row, queue, ledger
<1>13. ASSUME DeleteRecord PROVE SubmitInv'
    BY <1>13 DEF DeleteRecord, MarkUserDeleted, SubmitInv, named, queue, ledger
<1>14. ASSUME FailStaleUnsubmitted PROVE SubmitInv'
    BY <1>14
       DEF FailStaleUnsubmitted, Goto, Fault, Lapse, Transition, CanTransition, SubmitInv,
           named, TypeOK, Unnamed, WithHold, Unsubmitted, Processing, Refundable, Terminal,
           Settled, queue, ledger
<1>15. ASSUME NEW w \in Workers, PollProvider(w) PROVE SubmitInv'
    BY <1>15
       DEF PollProvider, Goto, Fault, WorkerTransition, Transition, CanTransition,
           SubmitInv, named, TypeOK, Unnamed, WithHold, Unsubmitted, Processing,
           Refundable, Terminal, Settled, row, queue, ledger
<1>16. ASSUME NEW w \in Workers, FailIndex(w) PROVE SubmitInv'
    BY <1>16
       DEF FailIndex, Goto, Fault, WorkerTransition, Transition, CanTransition, SubmitInv,
           named, TypeOK, Unnamed, WithHold, Unsubmitted, Processing, Refundable, Terminal,
           Settled, row, queue, ledger
<1>17. ASSUME NEW w \in Workers, StartSettling(w) PROVE SubmitInv'
    BY <1>17
       DEF StartSettling, Goto, Fault, WorkerTransition, Transition, CanTransition,
           SubmitInv, named, TypeOK, Unnamed, WithHold, Unsubmitted, Processing,
           Refundable, Terminal, Settled, row, queue, ledger
<1>18. ASSUME NEW w \in Workers, CaptureHold(w) PROVE SubmitInv'
    BY <1>18
       DEF CaptureHold, Goto, Fault, CaptureBatchImageBalance, CaptureRefused, SubmitInv,
           named, TypeOK, Unnamed, WithHold, Unsubmitted, Processing, Refundable, Terminal,
           Settled, ReleaseInv, Releasing, GivenUp, SettleInv, Settling, Clients, hidden,
           settleErr, row, queue, ledger
<1>19. ASSUME NEW w \in Workers, RecordSettlementFailure(w) PROVE SubmitInv'
    BY <1>19
       DEF RecordSettlementFailure, Goto, Fault, SetSettlementFailed, SubmitInv, named,
           TypeOK, Unnamed, WithHold, Unsubmitted, Processing, Refundable, Terminal,
           Settled, row, queue, ledger
<1>20. ASSUME NEW w \in Workers, FailExhausted(w) PROVE SubmitInv'
    BY <1>20
       DEF FailExhausted, Goto, Fault, WorkerTransition, Transition, CanTransition,
           SubmitInv, named, TypeOK, Unnamed, WithHold, Unsubmitted, Processing,
           Refundable, Terminal, Settled, row, queue, ledger
<1>21. ASSUME NEW w \in Workers, RecordReleaseFailed(w) PROVE SubmitInv'
    BY <1>21
       DEF RecordReleaseFailed, Goto, Fault, SetSettlementFailed, SubmitInv, named, row,
           queue, ledger
<1>22. ASSUME NEW w \in Workers, MarkSettled(w) PROVE SubmitInv'
    BY <1>22
       DEF MarkSettled, Goto, Fault, WorkerTransition, Transition, CanTransition,
           SubmitInv, named, TypeOK, Unnamed, WithHold, Unsubmitted, Processing,
           Refundable, Terminal, Settled, row, queue, ledger
<1>23. ASSUME NEW p \in Clients, EnqueueBillingRetry(p) PROVE SubmitInv'
    BY <1>23
       DEF EnqueueBillingRetry, Goto, Fault, Lapse, Enqueue, SubmitInv, named, TypeOK,
           Unnamed, WithHold, Unsubmitted, Processing, Refundable, Terminal, Settled, row,
           queue, ledger
<1>24. ASSUME NEW p \in {"submit", "user"}, RecordQueueFailed(p) PROVE SubmitInv'
    BY <1>24
       DEF RecordQueueFailed, Goto, Fault, RecordSubmitFailure, SubmitInv, named, TypeOK,
           Unnamed, WithHold, Unsubmitted, Processing, Refundable, Terminal, Settled, row,
           queue, ledger
<1>25. ASSUME NEW p \in {"user", "recovery"}, ClientDies(p) PROVE SubmitInv'
    BY <1>25 DEF ClientDies, Goto, Fault, SubmitInv, named, row, queue, ledger
<1>26. ASSUME ReleaseHold("submit", "release", "recordFailed", "recordUnreleased")
      PROVE  SubmitInv'
    BY <1>26
       DEF ReleaseHold, Goto, Fault, ReleaseBatchImageBalance, ReleaseRefused, SubmitInv,
           named, TypeOK, Unnamed, WithHold, Unsubmitted, Processing, Refundable, Terminal,
           Settled, row, queue, ledger
<1>27. ASSUME ReleaseHold("submit", "releaseReturn", "done", "recordUnreleased")
      PROVE  SubmitInv'
    BY <1>27
       DEF ReleaseHold, Goto, Fault, ReleaseBatchImageBalance, ReleaseRefused, SubmitInv,
           named, TypeOK, Unnamed, WithHold, Unsubmitted, Processing, Refundable, Terminal,
           Settled, row, queue, ledger
<1>28. ASSUME ReleaseHold("user", "release", "idle", "retry") PROVE SubmitInv'
    BY <1>28
       DEF ReleaseHold, Goto, Fault, ReleaseBatchImageBalance, ReleaseRefused, SubmitInv,
           named, TypeOK, Unnamed, WithHold, Unsubmitted, Processing, Refundable, Terminal,
           Settled, ReleaseInv, Releasing, GivenUp, SettleInv, Settling, Clients, hidden,
           settleErr, row, queue, ledger
<1>29. ASSUME ReleaseHold("recovery", "release", "idle", "retry") PROVE SubmitInv'
    BY <1>29
       DEF ReleaseHold, Goto, Fault, ReleaseBatchImageBalance, ReleaseRefused, SubmitInv,
           named, TypeOK, Unnamed, WithHold, Unsubmitted, Processing, Refundable, Terminal,
           Settled, ReleaseInv, Releasing, GivenUp, SettleInv, Settling, Clients, hidden,
           settleErr, row, queue, ledger
<1>30. ASSUME NEW w \in Workers, ReleaseHold(w, "terminalRelease", "ack", "requeue")
      PROVE  SubmitInv'
    BY <1>30
       DEF ReleaseHold, Goto, Fault, ReleaseBatchImageBalance, ReleaseRefused, SubmitInv,
           named, TypeOK, Unnamed, WithHold, Unsubmitted, Processing, Refundable, Terminal,
           Settled, ReleaseInv, Releasing, GivenUp, SettleInv, Settling, Clients, hidden,
           settleErr, row, queue, ledger
<1>31. ASSUME NEW w \in Workers, ReleaseHold(w, "exhaust", "exhaustFail", "exhaustRecord")
      PROVE  SubmitInv'
    BY <1>31
       DEF ReleaseHold, Goto, Fault, ReleaseBatchImageBalance, ReleaseRefused, SubmitInv,
           named, TypeOK, Unnamed, WithHold, Unsubmitted, Processing, Refundable, Terminal,
           Settled, ReleaseInv, Releasing, GivenUp, SettleInv, Settling, Clients, hidden,
           settleErr, row, queue, ledger
<1>32. ASSUME LockExpires PROVE SubmitInv'
    BY <1>32 DEF LockExpires, Fault, Lapse, SubmitInv, named, row, queue, ledger
<1>33. ASSUME OutputCleanup PROVE SubmitInv'
    BY <1>33
       DEF OutputCleanup, Transition, CanTransition, SubmitInv, named, TypeOK, Unnamed,
           WithHold, Unsubmitted, Processing, Refundable, Terminal, Settled, queue, ledger
<1>34. ASSUME \/ CancelReads \/ CancelAtProvider \/ CancelEnqueues \/ ResubmitReads
             \/ ResubmitEnqueues \/ MoveDueDelayedToReady \/ RecoverStaleActive
             \/ ProviderFinishes \/ UNCHANGED vars
      PROVE  UNCHANGED <<claims, columns, lapses, status, pc["submit"]>>
    BY <1>34
       DEF CancelReads, Goto, row, queue, ledger, CancelAtProvider, ProviderCancel,
           CancelEnqueues, Fault, Enqueue, ResubmitReads, ResubmitEnqueues,
           MoveDueDelayedToReady, RecoverStaleActive, ProviderFinishes, TypeOK, vars
<1>35. ASSUME NEW w \in Workers,
             \/ WorkerReserves(w) \/ WorkerLocks(w) \/ PipelineReads(w)
             \/ ProcessReads(w)
             \/ ProcessFails(w) \/ IndexResults(w) \/ SettleReads(w) \/ WorkerAcks(w)
             \/ WorkerRequeues(w) \/ WorkerUnlocks(w) \/ WorkerDies(w)
      PROVE  UNCHANGED <<claims, columns, lapses, status, pc["submit"]>>
    BY <1>35
       DEF WorkerReserves, Goto, Reserve, row, ledger, WorkerLocks, Fault, RequeueAfter,
           queue, PipelineReads, ProcessReads, ProcessFails, IndexResults, ReplaceItems,
           SettleReads,
           Exhausted, WorkerAcks, Ack, WorkerRequeues, WorkerUnlocks, WorkerDies, TypeOK
<1>36. ASSUME UNCHANGED <<claims, columns, lapses, status, pc["submit"]>>
      PROVE  SubmitInv'
    BY <1>36 DEF SubmitInv, named
<1> QED
    BY <1>1, <1>2, <1>3, <1>4, <1>5, <1>6, <1>7, <1>8, <1>9, <1>10, <1>11, <1>12, <1>13,
       <1>14, <1>15, <1>16, <1>17, <1>18, <1>19, <1>20, <1>21, <1>22, <1>23, <1>24, <1>25,
       <1>26, <1>27, <1>28, <1>29, <1>30, <1>31, <1>32, <1>33, <1>34, <1>35, <1>36
       DEF Next, SubmitNext, UserNext, RecoveryNext, WorkerNext, Clients

\* The hold is released for a job that has failed or is given up.
LEMMA ReleaseInvStep ==
    TypeOK /\ SubmitInv /\ ReleaseInv /\ SettleInv /\ LockInv /\ EndInv /\ [Next]_vars
    => ReleaseInv'
<1> SUFFICES ASSUME TypeOK, SubmitInv, ReleaseInv, SettleInv, LockInv, EndInv, [Next]_vars
             PROVE  ReleaseInv'
    OBVIOUS
<1> USE BatchAssumption, LedgerAssumption, Apart
<1>1. ASSUME CreateJob PROVE ReleaseInv'
    BY <1>1
       DEF CreateJob, Goto, ReleaseInv, Releasing, Sound, Intact, Exhausted, named,
           settleErr, TypeOK, GivenUp, Unsubmitted, Processing, Refundable, Terminal,
           Settled, SubmitInv, Unnamed, WithHold, SettleInv, Settling, LockInv, Done,
           Critical, EndInv, Clients, hidden, queue, ledger
<1>2. ASSUME ReserveHold PROVE ReleaseInv'
    BY <1>2
       DEF ReserveHold, Goto, Fault, ReserveBatchImageBalance, ReserveRefused, ReleaseInv,
           Releasing, Sound, Intact, Exhausted, named, settleErr, TypeOK, GivenUp,
           Unsubmitted, Processing, Refundable, Terminal, Settled, SubmitInv, Unnamed,
           WithHold, SettleInv, Settling, LockInv, Done, Critical, EndInv, Clients, hidden,
           row, queue, ledger
<1>3. ASSUME CreatePendingItems PROVE ReleaseInv'
    BY <1>3
       DEF CreatePendingItems, Goto, Fault, ReleaseInv, Releasing, Sound, Intact,
           Exhausted, named, settleErr, TypeOK, GivenUp, Unsubmitted, Processing,
           Refundable, Terminal, Settled, row, queue, ledger
<1>4. ASSUME StartUpload PROVE ReleaseInv'
    BY <1>4
       DEF StartUpload, Goto, Fault, Transition, CanTransition, ReleaseInv, Releasing,
           Sound, Intact, Exhausted, named, settleErr, TypeOK, GivenUp, Unsubmitted,
           Processing, Refundable, Terminal, Settled, row, queue, ledger
<1>5. ASSUME ProviderSubmit PROVE ReleaseInv'
    BY <1>5
       DEF ProviderSubmit, Goto, ReleaseInv, Releasing, Sound, Intact, Exhausted, named,
           settleErr, TypeOK, GivenUp, Unsubmitted, Processing, Refundable, Terminal,
           Settled, row, queue, ledger
<1>6. ASSUME UpdateProviderSubmit PROVE ReleaseInv'
    BY <1>6
       DEF UpdateProviderSubmit, Goto, Fault, Lapse, SetProviderSubmit, CanTransition,
           ReleaseInv, Releasing, Sound, Intact, Exhausted, named, settleErr, TypeOK,
           GivenUp, Unsubmitted, Processing, Refundable, Terminal, Settled, row, queue,
           ledger
<1>7. ASSUME AbortOrphanProviderJob PROVE ReleaseInv'
    BY <1>7
       DEF AbortOrphanProviderJob, Goto, ProviderCancel, ReleaseInv, Releasing, Sound,
           Intact, Exhausted, named, settleErr, TypeOK, GivenUp, Unsubmitted, Processing,
           Refundable, Terminal, Settled, row, queue, ledger
<1>8. ASSUME EnqueueSubmitted PROVE ReleaseInv'
    BY <1>8
       DEF EnqueueSubmitted, Goto, Fault, Lapse, Enqueue, ReleaseInv, Releasing, Sound,
           Intact, Exhausted, named, settleErr, TypeOK, GivenUp, Unsubmitted, Processing,
           Refundable, Terminal, Settled, row, queue, ledger
<1>9. ASSUME RecordFailed PROVE ReleaseInv'
    BY <1>9
       DEF RecordFailed, Goto, Fault, RecordSubmitFailure, ReleaseInv, Releasing, Sound,
           Intact, Exhausted, named, settleErr, TypeOK, GivenUp, Unsubmitted, Processing,
           Refundable, Terminal, Settled, row, queue, ledger
<1>10. ASSUME HidePreUpstreamSubmitFailure PROVE ReleaseInv'
    BY <1>10
       DEF HidePreUpstreamSubmitFailure, Goto, Fault, MarkUserDeleted, ReleaseInv,
           Releasing, Sound, Intact, Exhausted, named, settleErr, TypeOK, GivenUp,
           Unsubmitted, Processing, Refundable, Terminal, Settled, row, queue, ledger
<1>11. ASSUME SubmitDies PROVE ReleaseInv'
    BY <1>11
       DEF SubmitDies, Goto, Fault, ReleaseInv, Releasing, Sound, Intact, Exhausted, named,
           settleErr, TypeOK, GivenUp, Unsubmitted, Processing, Refundable, Terminal,
           Settled, row, queue, ledger
<1>12. ASSUME CancelReads PROVE ReleaseInv'
    BY <1>12
       DEF CancelReads, Goto, ReleaseInv, Releasing, Sound, Intact, Exhausted, named,
           settleErr, TypeOK, GivenUp, Unsubmitted, Processing, Refundable, Terminal,
           Settled, row, queue, ledger
<1>13. ASSUME CancelAtProvider PROVE ReleaseInv'
    BY <1>13
       DEF CancelAtProvider, Goto, ProviderCancel, ReleaseInv, Releasing, Sound, Intact,
           Exhausted, named, settleErr, TypeOK, GivenUp, Unsubmitted, Processing,
           Refundable, Terminal, Settled, row, queue, ledger
<1>14. ASSUME CancelEnqueues PROVE ReleaseInv'
    BY <1>14
       DEF CancelEnqueues, Goto, Fault, Enqueue, ReleaseInv, Releasing, Sound, Intact,
           Exhausted, named, settleErr, row, queue, ledger
<1>15. ASSUME CancelTransition PROVE ReleaseInv'
    BY <1>15
       DEF CancelTransition, Goto, Fault, Lapse, Transition, CanTransition, ReleaseInv,
           Releasing, Sound, Intact, Exhausted, named, settleErr, TypeOK, GivenUp,
           Unsubmitted, Processing, Refundable, Terminal, Settled, row, queue, ledger
<1>16. ASSUME ResubmitReads PROVE ReleaseInv'
    BY <1>16
       DEF ResubmitReads, Goto, ReleaseInv, Releasing, Sound, Intact, Exhausted, named,
           settleErr, row, queue, ledger
<1>17. ASSUME ResubmitEnqueues PROVE ReleaseInv'
    BY <1>17
       DEF ResubmitEnqueues, Goto, Fault, Enqueue, ReleaseInv, Releasing, Sound, Intact,
           Exhausted, named, settleErr, TypeOK, GivenUp, Unsubmitted, Processing,
           Refundable, Terminal, Settled, row, queue, ledger
<1>18. ASSUME DeleteRecord PROVE ReleaseInv'
    BY <1>18
       DEF DeleteRecord, MarkUserDeleted, ReleaseInv, Releasing, Sound, Intact, Exhausted,
           named, settleErr, queue, ledger
<1>19. ASSUME FailStaleUnsubmitted PROVE ReleaseInv'
    BY <1>19
       DEF FailStaleUnsubmitted, Goto, Fault, Lapse, Transition, CanTransition, ReleaseInv,
           Releasing, Sound, Intact, Exhausted, named, settleErr, TypeOK, GivenUp,
           Unsubmitted, Processing, Refundable, Terminal, Settled, queue, ledger
<1>20. ASSUME NEW w \in Workers, WorkerReserves(w) PROVE ReleaseInv'
    BY <1>20
       DEF WorkerReserves, Goto, Reserve, ReleaseInv, Releasing, Sound, Intact, Exhausted,
           named, settleErr, row, ledger
<1>21. ASSUME NEW w \in Workers, WorkerLocks(w) PROVE ReleaseInv'
    BY <1>21
       DEF WorkerLocks, Goto, Fault, RequeueAfter, ReleaseInv, Releasing, Sound, Intact,
           Exhausted, named, settleErr, TypeOK, GivenUp, Unsubmitted, Processing,
           Refundable, Terminal, Settled, row, queue, ledger
<1>22. ASSUME NEW w \in Workers, PipelineReads(w) PROVE ReleaseInv'
    BY <1>22
       DEF PipelineReads, Goto, ReleaseInv, Releasing, Sound, Intact, Exhausted, named,
           settleErr, row, queue, ledger
<1>23. ASSUME NEW w \in Workers, ProcessReads(w) \/ ProcessFails(w) PROVE ReleaseInv'
    BY <1>23
       DEF ProcessReads, ProcessFails, Goto, ReleaseInv, Releasing, Sound, Intact,
           Exhausted, named, settleErr, TypeOK, row, queue, ledger
<1>24. ASSUME NEW w \in Workers, PollProvider(w) PROVE ReleaseInv'
    BY <1>24
       DEF PollProvider, Goto, Fault, WorkerTransition, Transition, CanTransition,
           ReleaseInv, Releasing, Sound, Intact, Exhausted, named, settleErr, TypeOK,
           GivenUp, Unsubmitted, Processing, Refundable, Terminal, Settled, row, queue,
           ledger
<1>25. ASSUME NEW w \in Workers, IndexResults(w) PROVE ReleaseInv'
    BY <1>25
       DEF IndexResults, Goto, Fault, ReplaceItems, ReleaseInv, Releasing, Sound, Intact,
           Exhausted, named, settleErr, TypeOK, GivenUp, Unsubmitted, Processing,
           Refundable, Terminal, Settled, row, queue, ledger
<1>26. ASSUME NEW w \in Workers, FailIndex(w) PROVE ReleaseInv'
    BY <1>26
       DEF FailIndex, Goto, Fault, WorkerTransition, Transition, CanTransition, ReleaseInv,
           Releasing, Sound, Intact, Exhausted, named, settleErr, TypeOK, GivenUp,
           Unsubmitted, Processing, Refundable, Terminal, Settled, row, queue, ledger
<1>27. ASSUME NEW w \in Workers, StartSettling(w) PROVE ReleaseInv'
    BY <1>27
       DEF StartSettling, Goto, Fault, WorkerTransition, Transition, CanTransition,
           ReleaseInv, Releasing, Sound, Intact, Exhausted, named, settleErr, TypeOK,
           GivenUp, Unsubmitted, Processing, Refundable, Terminal, Settled, row, queue,
           ledger
<1>28. ASSUME NEW w \in Workers, SettleReads(w) PROVE ReleaseInv'
    BY <1>28
       DEF SettleReads, Goto, Exhausted, ReleaseInv, Releasing, Sound, Intact, named,
           settleErr, row, queue, ledger
<1>29. ASSUME NEW w \in Workers, CaptureHold(w) PROVE ReleaseInv'
    BY <1>29
       DEF CaptureHold, Goto, Fault, CaptureBatchImageBalance, CaptureRefused, ReleaseInv,
           Releasing, Sound, Intact, Exhausted, named, settleErr, TypeOK, GivenUp,
           Unsubmitted, Processing, Refundable, Terminal, Settled, row, queue, ledger
<1>30. ASSUME NEW w \in Workers, RecordSettlementFailure(w) PROVE ReleaseInv'
    BY <1>30
       DEF RecordSettlementFailure, Goto, Fault, SetSettlementFailed, ReleaseInv,
           Releasing, Sound, Intact, Exhausted, named, settleErr, TypeOK, GivenUp,
           Unsubmitted, Processing, Refundable, Terminal, Settled, row, queue, ledger
<1>31. ASSUME NEW w \in Workers, FailExhausted(w) PROVE ReleaseInv'
    BY <1>31
       DEF FailExhausted, Goto, Fault, WorkerTransition, Transition, CanTransition,
           ReleaseInv, Releasing, Sound, Intact, Exhausted, named, settleErr, TypeOK,
           GivenUp, Unsubmitted, Processing, Refundable, Terminal, Settled, row, queue,
           ledger
<1>32. ASSUME NEW w \in Workers, RecordReleaseFailed(w) PROVE ReleaseInv'
    BY <1>32
       DEF RecordReleaseFailed, Goto, Fault, SetSettlementFailed, ReleaseInv, Releasing,
           Sound, Intact, Exhausted, named, settleErr, TypeOK, GivenUp, Unsubmitted,
           Processing, Refundable, Terminal, Settled, row, queue, ledger
<1>33. ASSUME NEW w \in Workers, MarkSettled(w) PROVE ReleaseInv'
    BY <1>33
       DEF MarkSettled, Goto, Fault, WorkerTransition, Transition, CanTransition,
           ReleaseInv, Releasing, Sound, Intact, Exhausted, named, settleErr, TypeOK,
           GivenUp, Unsubmitted, Processing, Refundable, Terminal, Settled, SubmitInv,
           Unnamed, WithHold, SettleInv, Settling, LockInv, Done, Critical, EndInv,
           Clients, hidden, row, queue, ledger
<1>34. ASSUME NEW w \in Workers, WorkerAcks(w) PROVE ReleaseInv'
    BY <1>34
       DEF WorkerAcks, Goto, Fault, Ack, ReleaseInv, Releasing, Sound, Intact, Exhausted,
           named, settleErr, row, queue, ledger
<1>35. ASSUME NEW w \in Workers, WorkerRequeues(w) PROVE ReleaseInv'
    BY <1>35
       DEF WorkerRequeues, Goto, Fault, RequeueAfter, ReleaseInv, Releasing, Sound, Intact,
           Exhausted, named, settleErr, row, queue, ledger
<1>36. ASSUME NEW w \in Workers, WorkerUnlocks(w) PROVE ReleaseInv'
    BY <1>36
       DEF WorkerUnlocks, Goto, Fault, ReleaseInv, Releasing, Sound, Intact, Exhausted,
           named, settleErr, row, queue, ledger
<1>37. ASSUME NEW w \in Workers, WorkerDies(w) PROVE ReleaseInv'
    BY <1>37
       DEF WorkerDies, Goto, Fault, ReleaseInv, Releasing, Sound, Intact, Exhausted, named,
           settleErr, row, queue, ledger
<1>38. ASSUME NEW p \in Clients, EnqueueBillingRetry(p) PROVE ReleaseInv'
    BY <1>38
       DEF EnqueueBillingRetry, Goto, Fault, Lapse, Enqueue, ReleaseInv, Releasing, Sound,
           Intact, Exhausted, named, settleErr, TypeOK, GivenUp, Unsubmitted, Processing,
           Refundable, Terminal, Settled, row, queue, ledger
<1>39. ASSUME NEW p \in {"submit", "user"}, RecordQueueFailed(p) PROVE ReleaseInv'
    BY <1>39
       DEF RecordQueueFailed, Goto, Fault, RecordSubmitFailure, ReleaseInv, Releasing,
           Sound, Intact, Exhausted, named, settleErr, TypeOK, GivenUp, Unsubmitted,
           Processing, Refundable, Terminal, Settled, row, queue, ledger
<1>40. ASSUME NEW p \in {"user", "recovery"}, ClientDies(p) PROVE ReleaseInv'
    BY <1>40
       DEF ClientDies, Goto, Fault, ReleaseInv, Releasing, Sound, Intact, Exhausted, named,
           settleErr, row, queue, ledger
<1>41. ASSUME ReleaseHold("submit", "release", "recordFailed", "recordUnreleased")
      PROVE  ReleaseInv'
    BY <1>41
       DEF ReleaseHold, Goto, Fault, ReleaseBatchImageBalance, ReleaseRefused, ReleaseInv,
           Releasing, Sound, Intact, Exhausted, named, settleErr, TypeOK, GivenUp,
           Unsubmitted, Processing, Refundable, Terminal, Settled, SubmitInv, Unnamed,
           WithHold, SettleInv, Settling, LockInv, Done, Critical, EndInv, Clients, hidden,
           row, queue, ledger
<1>42. ASSUME ReleaseHold("submit", "releaseReturn", "done", "recordUnreleased")
      PROVE  ReleaseInv'
    BY <1>42
       DEF ReleaseHold, Goto, Fault, ReleaseBatchImageBalance, ReleaseRefused, ReleaseInv,
           Releasing, Sound, Intact, Exhausted, named, settleErr, TypeOK, GivenUp,
           Unsubmitted, Processing, Refundable, Terminal, Settled, SubmitInv, Unnamed,
           WithHold, SettleInv, Settling, LockInv, Done, Critical, EndInv, Clients, hidden,
           row, queue, ledger
<1>43. ASSUME ReleaseHold("user", "release", "idle", "retry") PROVE ReleaseInv'
    BY <1>43
       DEF ReleaseHold, Goto, Fault, ReleaseBatchImageBalance, ReleaseRefused, ReleaseInv,
           Releasing, Sound, Intact, Exhausted, named, settleErr, TypeOK, GivenUp,
           Unsubmitted, Processing, Refundable, Terminal, Settled, row, queue, ledger
<1>44. ASSUME ReleaseHold("recovery", "release", "idle", "retry") PROVE ReleaseInv'
    BY <1>44
       DEF ReleaseHold, Goto, Fault, ReleaseBatchImageBalance, ReleaseRefused, ReleaseInv,
           Releasing, Sound, Intact, Exhausted, named, settleErr, TypeOK, GivenUp,
           Unsubmitted, Processing, Refundable, Terminal, Settled, row, queue, ledger
<1>45. ASSUME NEW w \in Workers, ReleaseHold(w, "terminalRelease", "ack", "requeue")
      PROVE  ReleaseInv'
    BY <1>45
       DEF ReleaseHold, Goto, Fault, ReleaseBatchImageBalance, ReleaseRefused, ReleaseInv,
           Releasing, Sound, Intact, Exhausted, named, settleErr, TypeOK, GivenUp,
           Unsubmitted, Processing, Refundable, Terminal, Settled, row, queue, ledger
<1>46. ASSUME NEW w \in Workers, ReleaseHold(w, "exhaust", "exhaustFail", "exhaustRecord")
      PROVE  ReleaseInv'
    BY <1>46
       DEF ReleaseHold, Goto, Fault, ReleaseBatchImageBalance, ReleaseRefused, ReleaseInv,
           Releasing, Sound, Intact, Exhausted, named, settleErr, TypeOK, GivenUp,
           Unsubmitted, Processing, Refundable, Terminal, Settled, SubmitInv, Unnamed,
           WithHold, SettleInv, Settling, LockInv, Done, Critical, EndInv, Clients, hidden,
           row, queue, ledger
<1>47. ASSUME LockExpires PROVE ReleaseInv'
    BY <1>47
       DEF LockExpires, Fault, Lapse, ReleaseInv, Releasing, Sound, Intact, Exhausted,
           named, settleErr, row, queue, ledger
<1>48. ASSUME OutputCleanup PROVE ReleaseInv'
    BY <1>48
       DEF OutputCleanup, Transition, CanTransition, ReleaseInv, Releasing, Sound, Intact,
           Exhausted, named, settleErr, TypeOK, GivenUp, Unsubmitted, Processing,
           Refundable, Terminal, Settled, queue, ledger
<1>49. ASSUME \/ MoveDueDelayedToReady \/ RecoverStaleActive \/ ProviderFinishes
             \/ UNCHANGED vars
      PROVE  /\ UNCHANGED <<claims, columns, lapses, retries, status, pc["submit"], pc["user"],
                             pc["recovery"]>>
             /\ \A w \in Workers : pc'[w] = pc[w]
    BY <1>49
       DEF MoveDueDelayedToReady, row, ledger, RecoverStaleActive, Fault, ProviderFinishes,
           queue, TypeOK, vars
<1>50. ASSUME /\ UNCHANGED <<claims, columns, lapses, retries, status, pc["submit"], pc["user"],
                             pc["recovery"]>>
             /\ \A w \in Workers : pc'[w] = pc[w]
      PROVE  ReleaseInv'
    BY <1>50 DEF ReleaseInv, Releasing, Sound, Intact, Exhausted, named, settleErr
<1> QED
    BY <1>1, <1>2, <1>3, <1>4, <1>5, <1>6, <1>7, <1>8, <1>9, <1>10, <1>11, <1>12, <1>13,
       <1>14, <1>15, <1>16, <1>17, <1>18, <1>19, <1>20, <1>21, <1>22, <1>23, <1>24, <1>25,
       <1>26, <1>27, <1>28, <1>29, <1>30, <1>31, <1>32, <1>33, <1>34, <1>35, <1>36, <1>37,
       <1>38, <1>39, <1>40, <1>41, <1>42, <1>43, <1>44, <1>45, <1>46, <1>47, <1>48, <1>49,
       <1>50
       DEF Next, SubmitNext, UserNext, RecoveryNext, WorkerNext, Clients

\* The cost is known before it is charged.
LEMMA SettleInvStep ==
    TypeOK /\ SubmitInv /\ ReleaseInv /\ SettleInv /\ LockInv /\ [Next]_vars
    => SettleInv'
<1> SUFFICES ASSUME TypeOK, SubmitInv, ReleaseInv, SettleInv, LockInv, [Next]_vars
             PROVE  SettleInv'
    OBVIOUS
<1> USE BatchAssumption, LedgerAssumption, Apart
<1>1. ASSUME CreateJob PROVE SettleInv'
    BY <1>1
       DEF CreateJob, Goto, SettleInv, TypeOK, Settling, Unsubmitted, Processing,
           Refundable, Terminal, Settled, SubmitInv, Unnamed, WithHold, ReleaseInv,
           Releasing, GivenUp, LockInv, Done, Critical, Exhausted, named, hidden,
           settleErr, queue, ledger
<1>2. ASSUME ReserveHold PROVE SettleInv'
    BY <1>2
       DEF ReserveHold, Goto, Fault, ReserveBatchImageBalance, ReserveRefused, SettleInv,
           TypeOK, Settling, Unsubmitted, Processing, Refundable, Terminal, Settled, row,
           queue, ledger
<1>3. ASSUME StartUpload PROVE SettleInv'
    BY <1>3
       DEF StartUpload, Goto, Fault, Transition, CanTransition, SettleInv, TypeOK,
           Settling, Unsubmitted, Processing, Refundable, Terminal, Settled, row, queue,
           ledger
<1>4. ASSUME UpdateProviderSubmit PROVE SettleInv'
    BY <1>4
       DEF UpdateProviderSubmit, Goto, Fault, Lapse, SetProviderSubmit, CanTransition,
           SettleInv, TypeOK, Settling, Unsubmitted, Processing, Refundable, Terminal,
           Settled, row, queue, ledger
<1>5. ASSUME RecordFailed PROVE SettleInv'
    BY <1>5
       DEF RecordFailed, Goto, Fault, RecordSubmitFailure, SettleInv, TypeOK, Settling,
           Unsubmitted, Processing, Refundable, Terminal, Settled, row, queue, ledger
<1>6. ASSUME CancelTransition PROVE SettleInv'
    BY <1>6
       DEF CancelTransition, Goto, Fault, Lapse, Transition, CanTransition, SettleInv,
           TypeOK, Settling, Unsubmitted, Processing, Refundable, Terminal, Settled, row,
           queue, ledger
<1>7. ASSUME FailStaleUnsubmitted PROVE SettleInv'
    BY <1>7
       DEF FailStaleUnsubmitted, Goto, Fault, Lapse, Transition, CanTransition, SettleInv,
           TypeOK, Settling, Unsubmitted, Processing, Refundable, Terminal, Settled, queue,
           ledger
<1>8. ASSUME NEW w \in Workers, WorkerReserves(w) PROVE SettleInv'
    BY <1>8
       DEF WorkerReserves, Goto, Reserve, SettleInv, TypeOK, Settling, Unsubmitted,
           Processing, Refundable, Terminal, Settled, row, ledger
<1>9. ASSUME NEW w \in Workers, WorkerLocks(w) PROVE SettleInv'
    BY <1>9
       DEF WorkerLocks, Goto, Fault, RequeueAfter, SettleInv, TypeOK, Settling,
           Unsubmitted, Processing, Refundable, Terminal, Settled, row, queue, ledger
<1>10. ASSUME NEW w \in Workers, PipelineReads(w) PROVE SettleInv'
    BY <1>10
       DEF PipelineReads, Goto, SettleInv, TypeOK, Settling, Unsubmitted, Processing,
           Refundable, Terminal, Settled, row, queue, ledger
<1>11. ASSUME NEW w \in Workers, ProcessReads(w) \/ ProcessFails(w) PROVE SettleInv'
    BY <1>11
       DEF ProcessReads, ProcessFails, Goto, SettleInv, TypeOK, Settling, Unsubmitted, Processing,
           Refundable, Terminal, Settled, row, queue, ledger
<1>12. ASSUME NEW w \in Workers, PollProvider(w) PROVE SettleInv'
    BY <1>12
       DEF PollProvider, Goto, Fault, WorkerTransition, Transition, CanTransition,
           SettleInv, TypeOK, Settling, Unsubmitted, Processing, Refundable, Terminal,
           Settled, row, queue, ledger
<1>13. ASSUME NEW w \in Workers, IndexResults(w) PROVE SettleInv'
    BY <1>13
       DEF IndexResults, Goto, Fault, ReplaceItems, SettleInv, TypeOK, Settling,
           Unsubmitted, Processing, Refundable, Terminal, Settled, row, queue, ledger
<1>14. ASSUME NEW w \in Workers, FailIndex(w) PROVE SettleInv'
    BY <1>14
       DEF FailIndex, Goto, Fault, WorkerTransition, Transition, CanTransition, SettleInv,
           TypeOK, Settling, Unsubmitted, Processing, Refundable, Terminal, Settled, row,
           queue, ledger
<1>15. ASSUME NEW w \in Workers, StartSettling(w) PROVE SettleInv'
    BY <1>15
       DEF StartSettling, Goto, Fault, WorkerTransition, Transition, CanTransition,
           SettleInv, TypeOK, Settling, Unsubmitted, Processing, Refundable, Terminal,
           Settled, row, queue, ledger
<1>16. ASSUME NEW w \in Workers, SettleReads(w) PROVE SettleInv'
    BY <1>16
       DEF SettleReads, Goto, Exhausted, SettleInv, TypeOK, Settling, Unsubmitted,
           Processing, Refundable, Terminal, Settled, row, queue, ledger
<1>17. ASSUME NEW w \in Workers, CaptureHold(w) PROVE SettleInv'
    BY <1>17
       DEF CaptureHold, Goto, Fault, CaptureBatchImageBalance, CaptureRefused, SettleInv,
           TypeOK, Settling, Unsubmitted, Processing, Refundable, Terminal, Settled, row,
           queue, ledger
<1>18. ASSUME NEW w \in Workers, RecordSettlementFailure(w) PROVE SettleInv'
    BY <1>18
       DEF RecordSettlementFailure, Goto, Fault, SetSettlementFailed, SettleInv, TypeOK,
           Settling, Unsubmitted, Processing, Refundable, Terminal, Settled, row, queue,
           ledger
<1>19. ASSUME NEW w \in Workers, FailExhausted(w) PROVE SettleInv'
    BY <1>19
       DEF FailExhausted, Goto, Fault, WorkerTransition, Transition, CanTransition,
           SettleInv, TypeOK, Settling, Unsubmitted, Processing, Refundable, Terminal,
           Settled, row, queue, ledger
<1>20. ASSUME NEW w \in Workers, RecordReleaseFailed(w) PROVE SettleInv'
    BY <1>20
       DEF RecordReleaseFailed, Goto, Fault, SetSettlementFailed, SettleInv, TypeOK,
           Settling, Unsubmitted, Processing, Refundable, Terminal, Settled, row, queue,
           ledger
<1>21. ASSUME NEW w \in Workers, MarkSettled(w) PROVE SettleInv'
    BY <1>21
       DEF MarkSettled, Goto, Fault, WorkerTransition, Transition, CanTransition,
           SettleInv, TypeOK, Settling, Unsubmitted, Processing, Refundable, Terminal,
           Settled, row, queue, ledger
<1>22. ASSUME NEW w \in Workers, WorkerAcks(w) PROVE SettleInv'
    BY <1>22
       DEF WorkerAcks, Goto, Fault, Ack, SettleInv, TypeOK, Settling, Unsubmitted,
           Processing, Refundable, Terminal, Settled, row, queue, ledger
<1>23. ASSUME NEW w \in Workers, WorkerRequeues(w) PROVE SettleInv'
    BY <1>23
       DEF WorkerRequeues, Goto, Fault, RequeueAfter, SettleInv, TypeOK, Settling,
           Unsubmitted, Processing, Refundable, Terminal, Settled, row, queue, ledger
<1>24. ASSUME NEW w \in Workers, WorkerUnlocks(w) PROVE SettleInv'
    BY <1>24
       DEF WorkerUnlocks, Goto, Fault, SettleInv, TypeOK, Settling, Unsubmitted,
           Processing, Refundable, Terminal, Settled, row, queue, ledger
<1>25. ASSUME NEW w \in Workers, WorkerDies(w) PROVE SettleInv'
    BY <1>25
       DEF WorkerDies, Goto, Fault, SettleInv, TypeOK, Settling, Unsubmitted, Processing,
           Refundable, Terminal, Settled, row, queue, ledger
<1>26. ASSUME ReleaseHold("submit", "release", "recordFailed", "recordUnreleased")
      PROVE  SettleInv'
    BY <1>26
       DEF ReleaseHold, Goto, Fault, ReleaseBatchImageBalance, ReleaseRefused, SettleInv,
           TypeOK, Settling, Unsubmitted, Processing, Refundable, Terminal, Settled, row,
           queue, ledger
<1>27. ASSUME ReleaseHold("submit", "releaseReturn", "done", "recordUnreleased")
      PROVE  SettleInv'
    BY <1>27
       DEF ReleaseHold, Goto, Fault, ReleaseBatchImageBalance, ReleaseRefused, SettleInv,
           TypeOK, Settling, Unsubmitted, Processing, Refundable, Terminal, Settled, row,
           queue, ledger
<1>28. ASSUME ReleaseHold("user", "release", "idle", "retry") PROVE SettleInv'
    BY <1>28
       DEF ReleaseHold, Goto, Fault, ReleaseBatchImageBalance, ReleaseRefused, SettleInv,
           TypeOK, Settling, Unsubmitted, Processing, Refundable, Terminal, Settled, row,
           queue, ledger
<1>29. ASSUME ReleaseHold("recovery", "release", "idle", "retry") PROVE SettleInv'
    BY <1>29
       DEF ReleaseHold, Goto, Fault, ReleaseBatchImageBalance, ReleaseRefused, SettleInv,
           TypeOK, Settling, Unsubmitted, Processing, Refundable, Terminal, Settled, row,
           queue, ledger
<1>30. ASSUME NEW w \in Workers, ReleaseHold(w, "terminalRelease", "ack", "requeue")
      PROVE  SettleInv'
    BY <1>30
       DEF ReleaseHold, Goto, Fault, ReleaseBatchImageBalance, ReleaseRefused, SettleInv,
           TypeOK, Settling, Unsubmitted, Processing, Refundable, Terminal, Settled, row,
           queue, ledger
<1>31. ASSUME NEW w \in Workers, ReleaseHold(w, "exhaust", "exhaustFail", "exhaustRecord")
      PROVE  SettleInv'
    BY <1>31
       DEF ReleaseHold, Goto, Fault, ReleaseBatchImageBalance, ReleaseRefused, SettleInv,
           TypeOK, Settling, Unsubmitted, Processing, Refundable, Terminal, Settled, row,
           queue, ledger
<1>32. ASSUME OutputCleanup PROVE SettleInv'
    BY <1>32
       DEF OutputCleanup, Transition, CanTransition, SettleInv, TypeOK, Settling,
           Unsubmitted, Processing, Refundable, Terminal, Settled, queue, ledger
<1>33. ASSUME \/ CreatePendingItems \/ ProviderSubmit \/ AbortOrphanProviderJob
             \/ EnqueueSubmitted \/ HidePreUpstreamSubmitFailure \/ SubmitDies
             \/ CancelReads \/ CancelAtProvider \/ CancelEnqueues \/ ResubmitReads
             \/ ResubmitEnqueues \/ DeleteRecord \/ MoveDueDelayedToReady
             \/ RecoverStaleActive \/ LockExpires \/ ProviderFinishes \/ UNCHANGED vars
      PROVE  UNCHANGED <<claims, cost, status>> /\ \A w \in Workers : pc'[w] = pc[w]
    BY <1>33
       DEF CreatePendingItems, Goto, Fault, row, queue, ledger, ProviderSubmit,
           AbortOrphanProviderJob, ProviderCancel, EnqueueSubmitted, Lapse, Enqueue,
           HidePreUpstreamSubmitFailure, MarkUserDeleted, SubmitDies, CancelReads,
           CancelAtProvider, CancelEnqueues, ResubmitReads, ResubmitEnqueues, DeleteRecord,
           MoveDueDelayedToReady, RecoverStaleActive, LockExpires, ProviderFinishes,
           TypeOK, vars
<1>34. ASSUME NEW p \in Clients, EnqueueBillingRetry(p)
      PROVE  UNCHANGED <<claims, cost, status>> /\ \A w \in Workers : pc'[w] = pc[w]
    BY <1>34
       DEF EnqueueBillingRetry, Goto, Fault, Lapse, Enqueue, row, queue, ledger, TypeOK,
           Clients
<1>35. ASSUME NEW p \in {"submit", "user"}, RecordQueueFailed(p)
      PROVE  UNCHANGED <<claims, cost, status>> /\ \A w \in Workers : pc'[w] = pc[w]
    BY <1>35
       DEF RecordQueueFailed, Goto, Fault, RecordSubmitFailure, row, queue, ledger, TypeOK,
           Clients
<1>36. ASSUME NEW p \in {"user", "recovery"}, ClientDies(p)
      PROVE  UNCHANGED <<claims, cost, status>> /\ \A w \in Workers : pc'[w] = pc[w]
    BY <1>36 DEF ClientDies, Goto, Fault, row, queue, ledger, TypeOK, Clients
<1>37. ASSUME UNCHANGED <<claims, cost, status>> /\ \A w \in Workers : pc'[w] = pc[w]
      PROVE  SettleInv'
    BY <1>37 DEF SettleInv
<1> QED
    BY <1>1, <1>2, <1>3, <1>4, <1>5, <1>6, <1>7, <1>8, <1>9, <1>10, <1>11, <1>12, <1>13,
       <1>14, <1>15, <1>16, <1>17, <1>18, <1>19, <1>20, <1>21, <1>22, <1>23, <1>24, <1>25,
       <1>26, <1>27, <1>28, <1>29, <1>30, <1>31, <1>32, <1>33, <1>34, <1>35, <1>36, <1>37
       DEF Next, SubmitNext, UserNext, RecoveryNext, WorkerNext, Clients

\* The lock keeps what a worker has read true.
LEMMA LockInvStep ==
    TypeOK /\ SubmitInv /\ ReleaseInv /\ SettleInv /\ LockInv /\ [Next]_vars
    => LockInv'
<1> SUFFICES ASSUME TypeOK, SubmitInv, ReleaseInv, SettleInv, LockInv, [Next]_vars
             PROVE  LockInv'
    OBVIOUS
<1> USE BatchAssumption, LedgerAssumption, Apart
<1>1. ASSUME CreateJob PROVE LockInv'
    BY <1>1
       DEF CreateJob, Goto, LockInv, Done, delayed, active, inflight, TypeOK, Critical,
           Settling, Unsubmitted, Processing, Refundable, Terminal, Settled, SubmitInv,
           Unnamed, WithHold, ReleaseInv, Releasing, GivenUp, SettleInv, Exhausted, Sound,
           Intact, named, hidden, settleErr, queue, ledger
<1>2. ASSUME ReserveHold PROVE LockInv'
    BY <1>2
       DEF ReserveHold, Goto, Fault, ReserveBatchImageBalance, ReserveRefused, LockInv,
           Done, delayed, active, inflight, TypeOK, Critical, Settling, Unsubmitted,
           Processing, Refundable, Terminal, Settled, row, queue, ledger
<1>3. ASSUME StartUpload PROVE LockInv'
    BY <1>3
       DEF StartUpload, Goto, Fault, Transition, CanTransition, LockInv, Done, delayed,
           active, inflight, TypeOK, Critical, Settling, Unsubmitted, Processing,
           Refundable, Terminal, Settled, row, queue, ledger
<1>4. ASSUME UpdateProviderSubmit PROVE LockInv'
    BY <1>4
       DEF UpdateProviderSubmit, Goto, Fault, Lapse, SetProviderSubmit, CanTransition,
           LockInv, Done, delayed, active, inflight, TypeOK, Critical, Settling,
           Unsubmitted, Processing, Refundable, Terminal, Settled, row, queue, ledger
<1>5. ASSUME EnqueueSubmitted PROVE LockInv'
    BY <1>5
       DEF EnqueueSubmitted, Goto, Fault, Lapse, Enqueue, LockInv, Done, delayed, active,
           inflight, TypeOK, Critical, Settling, Unsubmitted, Processing, Refundable,
           Terminal, Settled, row, queue, ledger
<1>6. ASSUME RecordFailed PROVE LockInv'
    BY <1>6
       DEF RecordFailed, Goto, Fault, RecordSubmitFailure, LockInv, Done, delayed, active,
           inflight, TypeOK, Critical, Settling, Unsubmitted, Processing, Refundable,
           Terminal, Settled, SubmitInv, Unnamed, WithHold, ReleaseInv, Releasing, GivenUp,
           SettleInv, Exhausted, Sound, Intact, named, hidden, settleErr, row, queue,
           ledger
<1>7. ASSUME SubmitDies PROVE LockInv'
    BY <1>7
       DEF SubmitDies, Goto, Fault, LockInv, Done, delayed, active, inflight, row, queue,
           ledger
<1>8. ASSUME CancelEnqueues PROVE LockInv'
    BY <1>8
       DEF CancelEnqueues, Goto, Fault, Enqueue, LockInv, Done, delayed, active, inflight,
           row, queue, ledger
<1>9. ASSUME CancelTransition PROVE LockInv'
    BY <1>9
       DEF CancelTransition, Goto, Fault, Lapse, Transition, CanTransition, LockInv, Done,
           delayed, active, inflight, TypeOK, Critical, Settling, Unsubmitted, Processing,
           Refundable, Terminal, Settled, row, queue, ledger
<1>10. ASSUME ResubmitEnqueues PROVE LockInv'
    BY <1>10
       DEF ResubmitEnqueues, Goto, Fault, Enqueue, LockInv, Done, delayed, active,
           inflight, TypeOK, Critical, Settling, Unsubmitted, Processing, Refundable,
           Terminal, Settled, row, queue, ledger
<1>11. ASSUME FailStaleUnsubmitted PROVE LockInv'
    BY <1>11
       DEF FailStaleUnsubmitted, Goto, Fault, Lapse, Transition, CanTransition, LockInv,
           Done, delayed, active, inflight, TypeOK, Critical, Settling, Unsubmitted,
           Processing, Refundable, Terminal, Settled, queue, ledger
<1>12. ASSUME NEW w \in Workers, WorkerReserves(w) PROVE LockInv'
    BY <1>12
       DEF WorkerReserves, Goto, Reserve, LockInv, Done, delayed, active, inflight, TypeOK,
           Critical, Settling, Unsubmitted, Processing, Refundable, Terminal, Settled, row,
           ledger
<1>13. ASSUME NEW w \in Workers, WorkerLocks(w) PROVE LockInv'
    BY <1>13
       DEF WorkerLocks, Goto, Fault, RequeueAfter, LockInv, Done, delayed, active,
           inflight, TypeOK, Critical, Settling, Unsubmitted, Processing, Refundable,
           Terminal, Settled, row, queue, ledger
<1>14. ASSUME NEW w \in Workers, PipelineReads(w) PROVE LockInv'
    BY <1>14
       DEF PipelineReads, Goto, LockInv, Done, delayed, active, inflight, TypeOK, Critical,
           Settling, Unsubmitted, Processing, Refundable, Terminal, Settled, row, queue,
           ledger
<1>15. ASSUME NEW w \in Workers, ProcessReads(w) \/ ProcessFails(w) PROVE LockInv'
    BY <1>15
       DEF ProcessReads, ProcessFails, Goto, LockInv, Done, delayed, active, inflight, TypeOK,
           Critical,
           Settling, Unsubmitted, Processing, Refundable, Terminal, Settled, row, queue,
           ledger
<1>16. ASSUME NEW w \in Workers, PollProvider(w) PROVE LockInv'
    BY <1>16
       DEF PollProvider, Goto, Fault, WorkerTransition, Transition, CanTransition, LockInv,
           Done, delayed, active, inflight, TypeOK, Critical, Settling, Unsubmitted,
           Processing, Refundable, Terminal, Settled, row, queue, ledger
<1>17. ASSUME NEW w \in Workers, IndexResults(w) PROVE LockInv'
    BY <1>17
       DEF IndexResults, Goto, Fault, ReplaceItems, LockInv, Done, delayed, active,
           inflight, TypeOK, Critical, Settling, Unsubmitted, Processing, Refundable,
           Terminal, Settled, row, queue, ledger
<1>18. ASSUME NEW w \in Workers, FailIndex(w) PROVE LockInv'
    BY <1>18
       DEF FailIndex, Goto, Fault, WorkerTransition, Transition, CanTransition, LockInv,
           Done, delayed, active, inflight, TypeOK, Critical, Settling, Unsubmitted,
           Processing, Refundable, Terminal, Settled, row, queue, ledger
<1>19. ASSUME NEW w \in Workers, StartSettling(w) PROVE LockInv'
    BY <1>19
       DEF StartSettling, Goto, Fault, WorkerTransition, Transition, CanTransition,
           LockInv, Done, delayed, active, inflight, TypeOK, Critical, Settling,
           Unsubmitted, Processing, Refundable, Terminal, Settled, row, queue, ledger
<1>20. ASSUME NEW w \in Workers, SettleReads(w) PROVE LockInv'
    BY <1>20
       DEF SettleReads, Goto, Exhausted, LockInv, Done, delayed, active, inflight, TypeOK,
           Critical, Settling, Unsubmitted, Processing, Refundable, Terminal, Settled, row,
           queue, ledger
<1>21. ASSUME NEW w \in Workers, CaptureHold(w) PROVE LockInv'
    BY <1>21
       DEF CaptureHold, Goto, Fault, CaptureBatchImageBalance, CaptureRefused, LockInv,
           Done, delayed, active, inflight, TypeOK, Critical, Settling, Unsubmitted,
           Processing, Refundable, Terminal, Settled, row, queue, ledger
<1>22. ASSUME NEW w \in Workers, RecordSettlementFailure(w) PROVE LockInv'
    BY <1>22
       DEF RecordSettlementFailure, Goto, Fault, SetSettlementFailed, LockInv, Done,
           delayed, active, inflight, TypeOK, Critical, Settling, Unsubmitted, Processing,
           Refundable, Terminal, Settled, row, queue, ledger
<1>23. ASSUME NEW w \in Workers, FailExhausted(w) PROVE LockInv'
    BY <1>23
       DEF FailExhausted, Goto, Fault, WorkerTransition, Transition, CanTransition,
           LockInv, Done, delayed, active, inflight, TypeOK, Critical, Settling,
           Unsubmitted, Processing, Refundable, Terminal, Settled, SubmitInv, Unnamed,
           WithHold, ReleaseInv, Releasing, GivenUp, SettleInv, Exhausted, Sound, Intact,
           named, hidden, settleErr, row, queue, ledger
<1>24. ASSUME NEW w \in Workers, RecordReleaseFailed(w) PROVE LockInv'
    BY <1>24
       DEF RecordReleaseFailed, Goto, Fault, SetSettlementFailed, LockInv, Done, delayed,
           active, inflight, TypeOK, Critical, Settling, Unsubmitted, Processing,
           Refundable, Terminal, Settled, row, queue, ledger
<1>25. ASSUME NEW w \in Workers, MarkSettled(w) PROVE LockInv'
    BY <1>25
       DEF MarkSettled, Goto, Fault, WorkerTransition, Transition, CanTransition, LockInv,
           Done, delayed, active, inflight, TypeOK, Critical, Settling, Unsubmitted,
           Processing, Refundable, Terminal, Settled, row, queue, ledger
<1>26. ASSUME NEW w \in Workers, WorkerAcks(w) PROVE LockInv'
    BY <1>26
       DEF WorkerAcks, Goto, Fault, Ack, LockInv, Done, delayed, active, inflight, TypeOK,
           Critical, Settling, Unsubmitted, Processing, Refundable, Terminal, Settled, row,
           queue, ledger
<1>27. ASSUME NEW w \in Workers, WorkerRequeues(w) PROVE LockInv'
    BY <1>27
       DEF WorkerRequeues, Goto, Fault, RequeueAfter, LockInv, Done, delayed, active,
           inflight, TypeOK, Critical, Settling, Unsubmitted, Processing, Refundable,
           Terminal, Settled, row, queue, ledger
<1>28. ASSUME NEW w \in Workers, WorkerUnlocks(w) PROVE LockInv'
    BY <1>28
       DEF WorkerUnlocks, Goto, Fault, LockInv, Done, delayed, active, inflight, TypeOK,
           Critical, Settling, Unsubmitted, Processing, Refundable, Terminal, Settled, row,
           queue, ledger
<1>29. ASSUME NEW w \in Workers, WorkerDies(w) PROVE LockInv'
    BY <1>29
       DEF WorkerDies, Goto, Fault, LockInv, Done, delayed, active, inflight, TypeOK,
           Critical, Settling, Unsubmitted, Processing, Refundable, Terminal, Settled, row,
           queue, ledger
<1>30. ASSUME NEW p \in Clients, EnqueueBillingRetry(p) PROVE LockInv'
    BY <1>30
       DEF EnqueueBillingRetry, Goto, Fault, Lapse, Enqueue, LockInv, Done, delayed,
           active, inflight, row, queue, ledger
<1>31. ASSUME NEW p \in {"submit", "user"}, RecordQueueFailed(p) PROVE LockInv'
    BY <1>31
       DEF RecordQueueFailed, Goto, Fault, RecordSubmitFailure, LockInv, Done, delayed,
           active, inflight, row, queue, ledger
<1>32. ASSUME NEW p \in {"user", "recovery"}, ClientDies(p) PROVE LockInv'
    BY <1>32
       DEF ClientDies, Goto, Fault, LockInv, Done, delayed, active, inflight, row, queue,
           ledger
<1>33. ASSUME ReleaseHold("submit", "release", "recordFailed", "recordUnreleased")
      PROVE  LockInv'
    BY <1>33
       DEF ReleaseHold, Goto, Fault, ReleaseBatchImageBalance, ReleaseRefused, LockInv,
           Done, delayed, active, inflight, TypeOK, Critical, Settling, Unsubmitted,
           Processing, Refundable, Terminal, Settled, row, queue, ledger
<1>34. ASSUME ReleaseHold("submit", "releaseReturn", "done", "recordUnreleased")
      PROVE  LockInv'
    BY <1>34
       DEF ReleaseHold, Goto, Fault, ReleaseBatchImageBalance, ReleaseRefused, LockInv,
           Done, delayed, active, inflight, TypeOK, Critical, Settling, Unsubmitted,
           Processing, Refundable, Terminal, Settled, row, queue, ledger
<1>35. ASSUME ReleaseHold("user", "release", "idle", "retry") PROVE LockInv'
    BY <1>35
       DEF ReleaseHold, Goto, Fault, ReleaseBatchImageBalance, ReleaseRefused, LockInv,
           Done, delayed, active, inflight, TypeOK, Critical, Settling, Unsubmitted,
           Processing, Refundable, Terminal, Settled, row, queue, ledger
<1>36. ASSUME ReleaseHold("recovery", "release", "idle", "retry") PROVE LockInv'
    BY <1>36
       DEF ReleaseHold, Goto, Fault, ReleaseBatchImageBalance, ReleaseRefused, LockInv,
           Done, delayed, active, inflight, TypeOK, Critical, Settling, Unsubmitted,
           Processing, Refundable, Terminal, Settled, row, queue, ledger
<1>37. ASSUME NEW w \in Workers, ReleaseHold(w, "terminalRelease", "ack", "requeue")
      PROVE  LockInv'
    BY <1>37
       DEF ReleaseHold, Goto, Fault, ReleaseBatchImageBalance, ReleaseRefused, LockInv,
           Done, delayed, active, inflight, TypeOK, Critical, Settling, Unsubmitted,
           Processing, Refundable, Terminal, Settled, SubmitInv, Unnamed, WithHold,
           ReleaseInv, Releasing, GivenUp, SettleInv, Exhausted, Sound, Intact, named,
           hidden, settleErr, row, queue, ledger
<1>38. ASSUME NEW w \in Workers, ReleaseHold(w, "exhaust", "exhaustFail", "exhaustRecord")
      PROVE  LockInv'
    BY <1>38
       DEF ReleaseHold, Goto, Fault, ReleaseBatchImageBalance, ReleaseRefused, LockInv,
           Done, delayed, active, inflight, TypeOK, Critical, Settling, Unsubmitted,
           Processing, Refundable, Terminal, Settled, row, queue, ledger
<1>39. ASSUME MoveDueDelayedToReady PROVE LockInv'
    BY <1>39
       DEF MoveDueDelayedToReady, LockInv, Done, delayed, active, inflight, row, ledger
<1>40. ASSUME RecoverStaleActive PROVE LockInv'
    BY <1>40
       DEF RecoverStaleActive, Fault, LockInv, Done, delayed, active, inflight, row, ledger
<1>41. ASSUME LockExpires PROVE LockInv'
    BY <1>41
       DEF LockExpires, Fault, Lapse, LockInv, Done, delayed, active, inflight, row, queue,
           ledger
<1>42. ASSUME OutputCleanup PROVE LockInv'
    BY <1>42
       DEF OutputCleanup, Transition, CanTransition, LockInv, Done, delayed, active,
           inflight, TypeOK, Critical, Settling, Unsubmitted, Processing, Refundable,
           Terminal, Settled, queue, ledger
<1>43. ASSUME \/ CreatePendingItems \/ ProviderSubmit \/ AbortOrphanProviderJob
             \/ HidePreUpstreamSubmitFailure \/ CancelReads \/ CancelAtProvider
             \/ ResubmitReads \/ DeleteRecord \/ ProviderFinishes \/ UNCHANGED vars
      PROVE  /\ UNCHANGED <<claims, keys, lapses, lock, ready, status>>
             /\ \A w \in Workers : pc'[w] = pc[w]
    BY <1>43
       DEF CreatePendingItems, Goto, Fault, row, queue, ledger, ProviderSubmit,
           AbortOrphanProviderJob, ProviderCancel, HidePreUpstreamSubmitFailure,
           MarkUserDeleted, CancelReads, CancelAtProvider, ResubmitReads, DeleteRecord,
           ProviderFinishes, TypeOK, vars
<1>44. ASSUME /\ UNCHANGED <<claims, keys, lapses, lock, ready, status>>
             /\ \A w \in Workers : pc'[w] = pc[w]
      PROVE  LockInv'
    BY <1>44 DEF LockInv, Done, delayed, active, inflight
<1> QED
    BY <1>1, <1>2, <1>3, <1>4, <1>5, <1>6, <1>7, <1>8, <1>9, <1>10, <1>11, <1>12, <1>13,
       <1>14, <1>15, <1>16, <1>17, <1>18, <1>19, <1>20, <1>21, <1>22, <1>23, <1>24, <1>25,
       <1>26, <1>27, <1>28, <1>29, <1>30, <1>31, <1>32, <1>33, <1>34, <1>35, <1>36, <1>37,
       <1>38, <1>39, <1>40, <1>41, <1>42, <1>43, <1>44
       DEF Next, SubmitNext, UserNext, RecoveryNext, WorkerNext, Clients

\* Capture and release exclude each other.
LEMMA EndInvStep ==
    TypeOK /\ SubmitInv /\ ReleaseInv /\ SettleInv /\ LockInv /\ EndInv /\ [Next]_vars
    => EndInv'
<1> SUFFICES ASSUME TypeOK, SubmitInv, ReleaseInv, SettleInv, LockInv, EndInv, [Next]_vars
             PROVE  EndInv'
    OBVIOUS
<1> USE BatchAssumption, LedgerAssumption, Apart
<1>1. ASSUME CreateJob PROVE EndInv'
    BY <1>1
       DEF CreateJob, Goto, EndInv, Sound, Intact, Exhausted, settleErr, TypeOK,
           Unsubmitted, Processing, Refundable, Terminal, Settled, SubmitInv, Unnamed,
           WithHold, ReleaseInv, Releasing, GivenUp, SettleInv, Settling, LockInv, Done,
           Critical, named, hidden, queue, ledger
<1>2. ASSUME ReserveHold PROVE EndInv'
    BY <1>2
       DEF ReserveHold, Goto, Fault, ReserveBatchImageBalance, ReserveRefused, EndInv,
           Sound, Intact, Exhausted, settleErr, TypeOK, Unsubmitted, Processing,
           Refundable, Terminal, Settled, row, queue, ledger
<1>3. ASSUME StartUpload PROVE EndInv'
    BY <1>3
       DEF StartUpload, Goto, Fault, Transition, CanTransition, EndInv, Sound, Intact,
           Exhausted, settleErr, TypeOK, Unsubmitted, Processing, Refundable, Terminal,
           Settled, row, queue, ledger
<1>4. ASSUME UpdateProviderSubmit PROVE EndInv'
    BY <1>4
       DEF UpdateProviderSubmit, Goto, Fault, Lapse, SetProviderSubmit, CanTransition,
           EndInv, Sound, Intact, Exhausted, settleErr, TypeOK, Unsubmitted, Processing,
           Refundable, Terminal, Settled, row, queue, ledger
<1>5. ASSUME EnqueueSubmitted PROVE EndInv'
    BY <1>5
       DEF EnqueueSubmitted, Goto, Fault, Lapse, Enqueue, EndInv, Sound, Intact, Exhausted,
           settleErr, TypeOK, Unsubmitted, Processing, Refundable, Terminal, Settled, row,
           queue, ledger
<1>6. ASSUME RecordFailed PROVE EndInv'
    BY <1>6
       DEF RecordFailed, Goto, Fault, RecordSubmitFailure, EndInv, Sound, Intact,
           Exhausted, settleErr, TypeOK, Unsubmitted, Processing, Refundable, Terminal,
           Settled, SubmitInv, Unnamed, WithHold, ReleaseInv, Releasing, GivenUp,
           SettleInv, Settling, LockInv, Done, Critical, named, hidden, row, queue, ledger
<1>7. ASSUME HidePreUpstreamSubmitFailure PROVE EndInv'
    BY <1>7
       DEF HidePreUpstreamSubmitFailure, Goto, Fault, MarkUserDeleted, EndInv, Sound,
           Intact, Exhausted, settleErr, row, queue, ledger
<1>8. ASSUME SubmitDies PROVE EndInv'
    BY <1>8
       DEF SubmitDies, Goto, Fault, EndInv, Sound, Intact, Exhausted, settleErr, row,
           queue, ledger
<1>9. ASSUME CancelTransition PROVE EndInv'
    BY <1>9
       DEF CancelTransition, Goto, Fault, Lapse, Transition, CanTransition, EndInv, Sound,
           Intact, Exhausted, settleErr, TypeOK, Unsubmitted, Processing, Refundable,
           Terminal, Settled, row, queue, ledger
<1>10. ASSUME DeleteRecord PROVE EndInv'
    BY <1>10
       DEF DeleteRecord, MarkUserDeleted, EndInv, Sound, Intact, Exhausted, settleErr,
           queue, ledger
<1>11. ASSUME FailStaleUnsubmitted PROVE EndInv'
    BY <1>11
       DEF FailStaleUnsubmitted, Goto, Fault, Lapse, Transition, CanTransition, EndInv,
           Sound, Intact, Exhausted, settleErr, TypeOK, Unsubmitted, Processing,
           Refundable, Terminal, Settled, SubmitInv, Unnamed, WithHold, ReleaseInv,
           Releasing, GivenUp, SettleInv, Settling, LockInv, Done, Critical, named, hidden,
           queue, ledger
<1>12. ASSUME NEW w \in Workers, WorkerReserves(w) PROVE EndInv'
    BY <1>12
       DEF WorkerReserves, Goto, Reserve, EndInv, Sound, Intact, Exhausted, settleErr, row,
           ledger
<1>13. ASSUME NEW w \in Workers, WorkerLocks(w) PROVE EndInv'
    BY <1>13
       DEF WorkerLocks, Goto, Fault, RequeueAfter, EndInv, Sound, Intact, Exhausted,
           settleErr, TypeOK, Unsubmitted, Processing, Refundable, Terminal, Settled, row,
           queue, ledger
<1>14. ASSUME NEW w \in Workers, PipelineReads(w) PROVE EndInv'
    BY <1>14
       DEF PipelineReads, Goto, EndInv, Sound, Intact, Exhausted, settleErr, row, queue,
           ledger
<1>15. ASSUME NEW w \in Workers, ProcessReads(w) \/ ProcessFails(w) PROVE EndInv'
    BY <1>15
       DEF ProcessReads, ProcessFails, Goto, EndInv, Sound, Intact, Exhausted, settleErr,
           TypeOK, row, queue, ledger
<1>16. ASSUME NEW w \in Workers, PollProvider(w) PROVE EndInv'
    BY <1>16
       DEF PollProvider, Goto, Fault, WorkerTransition, Transition, CanTransition, EndInv,
           Sound, Intact, Exhausted, settleErr, TypeOK, Unsubmitted, Processing,
           Refundable, Terminal, Settled, SubmitInv, Unnamed, WithHold, ReleaseInv,
           Releasing, GivenUp, SettleInv, Settling, LockInv, Done, Critical, named, hidden,
           row, queue, ledger
<1>17. ASSUME NEW w \in Workers, IndexResults(w) PROVE EndInv'
    BY <1>17
       DEF IndexResults, Goto, Fault, ReplaceItems, EndInv, Sound, Intact, Exhausted,
           settleErr, TypeOK, Unsubmitted, Processing, Refundable, Terminal, Settled, row,
           queue, ledger
<1>18. ASSUME NEW w \in Workers, FailIndex(w) PROVE EndInv'
    BY <1>18
       DEF FailIndex, Goto, Fault, WorkerTransition, Transition, CanTransition, EndInv,
           Sound, Intact, Exhausted, settleErr, TypeOK, Unsubmitted, Processing,
           Refundable, Terminal, Settled, SubmitInv, Unnamed, WithHold, ReleaseInv,
           Releasing, GivenUp, SettleInv, Settling, LockInv, Done, Critical, named, hidden,
           row, queue, ledger
<1>19. ASSUME NEW w \in Workers, StartSettling(w) PROVE EndInv'
    BY <1>19
       DEF StartSettling, Goto, Fault, WorkerTransition, Transition, CanTransition, EndInv,
           Sound, Intact, Exhausted, settleErr, TypeOK, Unsubmitted, Processing,
           Refundable, Terminal, Settled, row, queue, ledger
<1>20. ASSUME NEW w \in Workers, SettleReads(w) PROVE EndInv'
    BY <1>20
       DEF SettleReads, Goto, Exhausted, EndInv, Sound, Intact, settleErr, TypeOK,
           Unsubmitted, Processing, Refundable, Terminal, Settled, SubmitInv, Unnamed,
           WithHold, ReleaseInv, Releasing, GivenUp, SettleInv, Settling, LockInv, Done,
           Critical, named, hidden, row, queue, ledger
<1>21. ASSUME NEW w \in Workers, CaptureHold(w) PROVE EndInv'
    BY <1>21
       DEF CaptureHold, Goto, Fault, CaptureBatchImageBalance, CaptureRefused, EndInv,
           Sound, Intact, Exhausted, settleErr, TypeOK, Unsubmitted, Processing,
           Refundable, Terminal, Settled, SubmitInv, Unnamed, WithHold, ReleaseInv,
           Releasing, GivenUp, SettleInv, Settling, LockInv, Done, Critical, named, hidden,
           row, queue, ledger
<1>22. ASSUME NEW w \in Workers, RecordSettlementFailure(w) PROVE EndInv'
    BY <1>22
       DEF RecordSettlementFailure, Goto, Fault, SetSettlementFailed, EndInv, Sound,
           Intact, Exhausted, settleErr, TypeOK, Unsubmitted, Processing, Refundable,
           Terminal, Settled, SubmitInv, Unnamed, WithHold, ReleaseInv, Releasing, GivenUp,
           SettleInv, Settling, LockInv, Done, Critical, named, hidden, row, queue, ledger
<1>23. ASSUME NEW w \in Workers, FailExhausted(w) PROVE EndInv'
    BY <1>23
       DEF FailExhausted, Goto, Fault, WorkerTransition, Transition, CanTransition, EndInv,
           Sound, Intact, Exhausted, settleErr, TypeOK, Unsubmitted, Processing,
           Refundable, Terminal, Settled, SubmitInv, Unnamed, WithHold, ReleaseInv,
           Releasing, GivenUp, SettleInv, Settling, LockInv, Done, Critical, named, hidden,
           row, queue, ledger
<1>24. ASSUME NEW w \in Workers, RecordReleaseFailed(w) PROVE EndInv'
    BY <1>24
       DEF RecordReleaseFailed, Goto, Fault, SetSettlementFailed, EndInv, Sound, Intact,
           Exhausted, settleErr, TypeOK, Unsubmitted, Processing, Refundable, Terminal,
           Settled, row, queue, ledger
<1>25. ASSUME NEW w \in Workers, MarkSettled(w) PROVE EndInv'
    BY <1>25
       DEF MarkSettled, Goto, Fault, WorkerTransition, Transition, CanTransition, EndInv,
           Sound, Intact, Exhausted, settleErr, TypeOK, Unsubmitted, Processing,
           Refundable, Terminal, Settled, row, queue, ledger
<1>26. ASSUME NEW w \in Workers, WorkerAcks(w) PROVE EndInv'
    BY <1>26
       DEF WorkerAcks, Goto, Fault, Ack, EndInv, Sound, Intact, Exhausted, settleErr, row,
           queue, ledger
<1>27. ASSUME NEW w \in Workers, WorkerRequeues(w) PROVE EndInv'
    BY <1>27
       DEF WorkerRequeues, Goto, Fault, RequeueAfter, EndInv, Sound, Intact, Exhausted,
           settleErr, row, queue, ledger
<1>28. ASSUME NEW w \in Workers, WorkerUnlocks(w) PROVE EndInv'
    BY <1>28
       DEF WorkerUnlocks, Goto, Fault, EndInv, Sound, Intact, Exhausted, settleErr, row,
           queue, ledger
<1>29. ASSUME NEW w \in Workers, WorkerDies(w) PROVE EndInv'
    BY <1>29
       DEF WorkerDies, Goto, Fault, EndInv, Sound, Intact, Exhausted, settleErr, row,
           queue, ledger
<1>30. ASSUME NEW p \in Clients, EnqueueBillingRetry(p) PROVE EndInv'
    BY <1>30
       DEF EnqueueBillingRetry, Goto, Fault, Lapse, Enqueue, EndInv, Sound, Intact,
           Exhausted, settleErr, row, queue, ledger
<1>31. ASSUME NEW p \in {"submit", "user"}, RecordQueueFailed(p) PROVE EndInv'
    BY <1>31
       DEF RecordQueueFailed, Goto, Fault, RecordSubmitFailure, EndInv, Sound, Intact,
           Exhausted, settleErr, TypeOK, Unsubmitted, Processing, Refundable, Terminal,
           Settled, SubmitInv, Unnamed, WithHold, ReleaseInv, Releasing, GivenUp,
           SettleInv, Settling, LockInv, Done, Critical, named, hidden, row, queue, ledger
<1>32. ASSUME NEW p \in {"user", "recovery"}, ClientDies(p) PROVE EndInv'
    BY <1>32
       DEF ClientDies, Goto, Fault, EndInv, Sound, Intact, Exhausted, settleErr, row,
           queue, ledger
<1>33. ASSUME ReleaseHold("submit", "release", "recordFailed", "recordUnreleased")
      PROVE  EndInv'
    BY <1>33
       DEF ReleaseHold, Goto, Fault, ReleaseBatchImageBalance, ReleaseRefused, EndInv,
           Sound, Intact, Exhausted, settleErr, TypeOK, Unsubmitted, Processing,
           Refundable, Terminal, Settled, SubmitInv, Unnamed, WithHold, ReleaseInv,
           Releasing, GivenUp, SettleInv, Settling, LockInv, Done, Critical, named, hidden,
           row, queue, ledger
<1>34. ASSUME ReleaseHold("submit", "releaseReturn", "done", "recordUnreleased")
      PROVE  EndInv'
    BY <1>34
       DEF ReleaseHold, Goto, Fault, ReleaseBatchImageBalance, ReleaseRefused, EndInv,
           Sound, Intact, Exhausted, settleErr, TypeOK, Unsubmitted, Processing,
           Refundable, Terminal, Settled, SubmitInv, Unnamed, WithHold, ReleaseInv,
           Releasing, GivenUp, SettleInv, Settling, LockInv, Done, Critical, named, hidden,
           row, queue, ledger
<1>35. ASSUME ReleaseHold("user", "release", "idle", "retry") PROVE EndInv'
    BY <1>35
       DEF ReleaseHold, Goto, Fault, ReleaseBatchImageBalance, ReleaseRefused, EndInv,
           Sound, Intact, Exhausted, settleErr, TypeOK, Unsubmitted, Processing,
           Refundable, Terminal, Settled, SubmitInv, Unnamed, WithHold, ReleaseInv,
           Releasing, GivenUp, SettleInv, Settling, LockInv, Done, Critical, named, hidden,
           row, queue, ledger
<1>36. ASSUME ReleaseHold("recovery", "release", "idle", "retry") PROVE EndInv'
    BY <1>36
       DEF ReleaseHold, Goto, Fault, ReleaseBatchImageBalance, ReleaseRefused, EndInv,
           Sound, Intact, Exhausted, settleErr, TypeOK, Unsubmitted, Processing,
           Refundable, Terminal, Settled, SubmitInv, Unnamed, WithHold, ReleaseInv,
           Releasing, GivenUp, SettleInv, Settling, LockInv, Done, Critical, named, hidden,
           row, queue, ledger
<1>37. ASSUME NEW w \in Workers, ReleaseHold(w, "terminalRelease", "ack", "requeue")
      PROVE  EndInv'
    BY <1>37
       DEF ReleaseHold, Goto, Fault, ReleaseBatchImageBalance, ReleaseRefused, EndInv,
           Sound, Intact, Exhausted, settleErr, TypeOK, Unsubmitted, Processing,
           Refundable, Terminal, Settled, SubmitInv, Unnamed, WithHold, ReleaseInv,
           Releasing, GivenUp, SettleInv, Settling, LockInv, Done, Critical, named, hidden,
           row, queue, ledger
<1>38. ASSUME NEW w \in Workers, ReleaseHold(w, "exhaust", "exhaustFail", "exhaustRecord")
      PROVE  EndInv'
    BY <1>38
       DEF ReleaseHold, Goto, Fault, ReleaseBatchImageBalance, ReleaseRefused, EndInv,
           Sound, Intact, Exhausted, settleErr, TypeOK, Unsubmitted, Processing,
           Refundable, Terminal, Settled, row, queue, ledger
<1>39. ASSUME LockExpires PROVE EndInv'
    BY <1>39
       DEF LockExpires, Fault, Lapse, EndInv, Sound, Intact, Exhausted, settleErr, row,
           queue, ledger
<1>40. ASSUME OutputCleanup PROVE EndInv'
    BY <1>40
       DEF OutputCleanup, Transition, CanTransition, EndInv, Sound, Intact, Exhausted,
           settleErr, TypeOK, Unsubmitted, Processing, Refundable, Terminal, Settled,
           queue, ledger
<1>41. ASSUME \/ CreatePendingItems \/ ProviderSubmit \/ AbortOrphanProviderJob
             \/ CancelReads \/ CancelAtProvider \/ CancelEnqueues \/ ResubmitReads
             \/ ResubmitEnqueues \/ MoveDueDelayedToReady \/ RecoverStaleActive
             \/ ProviderFinishes \/ UNCHANGED vars
      PROVE  /\ UNCHANGED <<claims, columns, lapses, retries, status>>
             /\ \A w \in Workers : pc'[w] = pc[w]
    BY <1>41
       DEF CreatePendingItems, Goto, Fault, row, queue, ledger, ProviderSubmit,
           AbortOrphanProviderJob, ProviderCancel, CancelReads, CancelAtProvider,
           CancelEnqueues, Enqueue, ResubmitReads, ResubmitEnqueues, MoveDueDelayedToReady,
           RecoverStaleActive, ProviderFinishes, TypeOK, vars
<1>42. ASSUME /\ UNCHANGED <<claims, columns, lapses, retries, status>>
             /\ \A w \in Workers : pc'[w] = pc[w]
      PROVE  EndInv'
    BY <1>42 DEF EndInv, Sound, Intact, Exhausted, settleErr
<1> QED
    BY <1>1, <1>2, <1>3, <1>4, <1>5, <1>6, <1>7, <1>8, <1>9, <1>10, <1>11, <1>12, <1>13,
       <1>14, <1>15, <1>16, <1>17, <1>18, <1>19, <1>20, <1>21, <1>22, <1>23, <1>24, <1>25,
       <1>26, <1>27, <1>28, <1>29, <1>30, <1>31, <1>32, <1>33, <1>34, <1>35, <1>36, <1>37,
       <1>38, <1>39, <1>40, <1>41, <1>42
       DEF Next, SubmitNext, UserNext, RecoveryNext, WorkerNext, Clients

\* A job with its key is in one of the queue's structures.
LEMMA QueueInvStep ==
    TypeOK /\ SubmitInv /\ LockInv /\ QueueInv /\ [Next]_vars
    => QueueInv'
<1> SUFFICES ASSUME TypeOK, SubmitInv, LockInv, QueueInv, [Next]_vars
             PROVE  QueueInv'
    OBVIOUS
<1> USE BatchAssumption, LedgerAssumption, Apart
<1>1. ASSUME CreateJob PROVE QueueInv'
    BY <1>1
       DEF CreateJob, Goto, QueueInv, Intact, delayed, active, inflight, TypeOK,
           Unsubmitted, Processing, Refundable, Terminal, Settled, queue, ledger
<1>2. ASSUME ReserveHold PROVE QueueInv'
    BY <1>2
       DEF ReserveHold, Goto, Fault, ReserveBatchImageBalance, ReserveRefused, QueueInv,
           Intact, delayed, active, inflight, row, queue, ledger
<1>3. ASSUME CreatePendingItems PROVE QueueInv'
    BY <1>3
       DEF CreatePendingItems, Goto, Fault, QueueInv, Intact, delayed, active, inflight,
           row, queue, ledger
<1>4. ASSUME StartUpload PROVE QueueInv'
    BY <1>4
       DEF StartUpload, Goto, Fault, Transition, CanTransition, QueueInv, Intact, delayed,
           active, inflight, TypeOK, Unsubmitted, Processing, Refundable, Terminal,
           Settled, row, queue, ledger
<1>5. ASSUME ProviderSubmit PROVE QueueInv'
    BY <1>5
       DEF ProviderSubmit, Goto, QueueInv, Intact, delayed, active, inflight, row, queue,
           ledger
<1>6. ASSUME UpdateProviderSubmit PROVE QueueInv'
    BY <1>6
       DEF UpdateProviderSubmit, Goto, Fault, Lapse, SetProviderSubmit, CanTransition,
           QueueInv, Intact, delayed, active, inflight, TypeOK, Unsubmitted, Processing,
           Refundable, Terminal, Settled, row, queue, ledger
<1>7. ASSUME AbortOrphanProviderJob PROVE QueueInv'
    BY <1>7
       DEF AbortOrphanProviderJob, Goto, ProviderCancel, QueueInv, Intact, delayed, active,
           inflight, row, queue, ledger
<1>8. ASSUME EnqueueSubmitted PROVE QueueInv'
    BY <1>8
       DEF EnqueueSubmitted, Goto, Fault, Lapse, Enqueue, QueueInv, Intact, delayed,
           active, inflight, TypeOK, Unsubmitted, Processing, Refundable, Terminal,
           Settled, row, queue, ledger
<1>9. ASSUME RecordFailed PROVE QueueInv'
    BY <1>9
       DEF RecordFailed, Goto, Fault, RecordSubmitFailure, QueueInv, Intact, delayed,
           active, inflight, TypeOK, Unsubmitted, Processing, Refundable, Terminal,
           Settled, row, queue, ledger
<1>10. ASSUME HidePreUpstreamSubmitFailure PROVE QueueInv'
    BY <1>10
       DEF HidePreUpstreamSubmitFailure, Goto, Fault, MarkUserDeleted, QueueInv, Intact,
           delayed, active, inflight, row, queue, ledger
<1>11. ASSUME SubmitDies PROVE QueueInv'
    BY <1>11
       DEF SubmitDies, Goto, Fault, QueueInv, Intact, delayed, active, inflight, row,
           queue, ledger
<1>12. ASSUME CancelEnqueues PROVE QueueInv'
    BY <1>12
       DEF CancelEnqueues, Goto, Fault, Enqueue, QueueInv, Intact, delayed, active,
           inflight, TypeOK, Unsubmitted, Processing, Refundable, Terminal, Settled, row,
           queue, ledger
<1>13. ASSUME CancelTransition PROVE QueueInv'
    BY <1>13
       DEF CancelTransition, Goto, Fault, Lapse, Transition, CanTransition, QueueInv,
           Intact, delayed, active, inflight, TypeOK, Unsubmitted, Processing, Refundable,
           Terminal, Settled, row, queue, ledger
<1>14. ASSUME ResubmitEnqueues PROVE QueueInv'
    BY <1>14
       DEF ResubmitEnqueues, Goto, Fault, Enqueue, QueueInv, Intact, delayed, active,
           inflight, TypeOK, Unsubmitted, Processing, Refundable, Terminal, Settled, row,
           queue, ledger
<1>15. ASSUME FailStaleUnsubmitted PROVE QueueInv'
    BY <1>15
       DEF FailStaleUnsubmitted, Goto, Fault, Lapse, Transition, CanTransition, QueueInv,
           Intact, delayed, active, inflight, TypeOK, Unsubmitted, Processing, Refundable,
           Terminal, Settled, queue, ledger
<1>16. ASSUME NEW w \in Workers, WorkerReserves(w) PROVE QueueInv'
    BY <1>16
       DEF WorkerReserves, Goto, Reserve, QueueInv, Intact, delayed, active, inflight, row,
           ledger
<1>17. ASSUME NEW w \in Workers, WorkerLocks(w) PROVE QueueInv'
    BY <1>17
       DEF WorkerLocks, Goto, Fault, RequeueAfter, QueueInv, Intact, delayed, active,
           inflight, TypeOK, Unsubmitted, Processing, Refundable, Terminal, Settled, row,
           queue, ledger
<1>18. ASSUME NEW w \in Workers, PollProvider(w) PROVE QueueInv'
    BY <1>18
       DEF PollProvider, Goto, Fault, WorkerTransition, Transition, CanTransition,
           QueueInv, Intact, delayed, active, inflight, TypeOK, Unsubmitted, Processing,
           Refundable, Terminal, Settled, row, queue, ledger
<1>19. ASSUME NEW w \in Workers, FailIndex(w) PROVE QueueInv'
    BY <1>19
       DEF FailIndex, Goto, Fault, WorkerTransition, Transition, CanTransition, QueueInv,
           Intact, delayed, active, inflight, TypeOK, Unsubmitted, Processing, Refundable,
           Terminal, Settled, row, queue, ledger
<1>20. ASSUME NEW w \in Workers, StartSettling(w) PROVE QueueInv'
    BY <1>20
       DEF StartSettling, Goto, Fault, WorkerTransition, Transition, CanTransition,
           QueueInv, Intact, delayed, active, inflight, TypeOK, Unsubmitted, Processing,
           Refundable, Terminal, Settled, row, queue, ledger
<1>21. ASSUME NEW w \in Workers, CaptureHold(w) PROVE QueueInv'
    BY <1>21
       DEF CaptureHold, Goto, Fault, CaptureBatchImageBalance, CaptureRefused, QueueInv,
           Intact, delayed, active, inflight, TypeOK, Unsubmitted, Processing, Refundable,
           Terminal, Settled, row, queue, ledger
<1>22. ASSUME NEW w \in Workers, FailExhausted(w) PROVE QueueInv'
    BY <1>22
       DEF FailExhausted, Goto, Fault, WorkerTransition, Transition, CanTransition,
           QueueInv, Intact, delayed, active, inflight, TypeOK, Unsubmitted, Processing,
           Refundable, Terminal, Settled, row, queue, ledger
<1>23. ASSUME NEW w \in Workers, MarkSettled(w) PROVE QueueInv'
    BY <1>23
       DEF MarkSettled, Goto, Fault, WorkerTransition, Transition, CanTransition, QueueInv,
           Intact, delayed, active, inflight, TypeOK, Unsubmitted, Processing, Refundable,
           Terminal, Settled, row, queue, ledger
<1>24. ASSUME NEW w \in Workers, WorkerAcks(w) PROVE QueueInv'
    BY <1>24
       DEF WorkerAcks, Goto, Fault, Ack, QueueInv, Intact, delayed, active, inflight,
           TypeOK, Unsubmitted, Processing, Refundable, Terminal, Settled, SubmitInv,
           Unnamed, WithHold, LockInv, Done, Critical, Settling, named, hidden, settleErr,
           row, queue, ledger
<1>25. ASSUME NEW w \in Workers, WorkerRequeues(w) PROVE QueueInv'
    BY <1>25
       DEF WorkerRequeues, Goto, Fault, RequeueAfter, QueueInv, Intact, delayed, active,
           inflight, row, queue, ledger
<1>26. ASSUME NEW p \in Clients, EnqueueBillingRetry(p) PROVE QueueInv'
    BY <1>26
       DEF EnqueueBillingRetry, Goto, Fault, Lapse, Enqueue, QueueInv, Intact, delayed,
           active, inflight, TypeOK, Unsubmitted, Processing, Refundable, Terminal,
           Settled, row, queue, ledger
<1>27. ASSUME NEW p \in {"submit", "user"}, RecordQueueFailed(p) PROVE QueueInv'
    BY <1>27
       DEF RecordQueueFailed, Goto, Fault, RecordSubmitFailure, QueueInv, Intact, delayed,
           active, inflight, row, queue, ledger
<1>28. ASSUME NEW p \in {"user", "recovery"}, ClientDies(p) PROVE QueueInv'
    BY <1>28
       DEF ClientDies, Goto, Fault, QueueInv, Intact, delayed, active, inflight, row,
           queue, ledger
<1>29. ASSUME ReleaseHold("submit", "release", "recordFailed", "recordUnreleased")
      PROVE  QueueInv'
    BY <1>29
       DEF ReleaseHold, Goto, Fault, ReleaseBatchImageBalance, ReleaseRefused, QueueInv,
           Intact, delayed, active, inflight, row, queue, ledger
<1>30. ASSUME ReleaseHold("submit", "releaseReturn", "done", "recordUnreleased")
      PROVE  QueueInv'
    BY <1>30
       DEF ReleaseHold, Goto, Fault, ReleaseBatchImageBalance, ReleaseRefused, QueueInv,
           Intact, delayed, active, inflight, row, queue, ledger
<1>31. ASSUME MoveDueDelayedToReady PROVE QueueInv'
    BY <1>31
       DEF MoveDueDelayedToReady, QueueInv, Intact, delayed, active, inflight, TypeOK,
           Unsubmitted, Processing, Refundable, Terminal, Settled, row, ledger
<1>32. ASSUME RecoverStaleActive PROVE QueueInv'
    BY <1>32
       DEF RecoverStaleActive, Fault, QueueInv, Intact, delayed, active, inflight, TypeOK,
           Unsubmitted, Processing, Refundable, Terminal, Settled, row, ledger
<1>33. ASSUME LockExpires PROVE QueueInv'
    BY <1>33
       DEF LockExpires, Fault, Lapse, QueueInv, Intact, delayed, active, inflight, row,
           queue, ledger
<1>34. ASSUME OutputCleanup PROVE QueueInv'
    BY <1>34
       DEF OutputCleanup, Transition, CanTransition, QueueInv, Intact, delayed, active,
           inflight, TypeOK, Unsubmitted, Processing, Refundable, Terminal, Settled, queue,
           ledger
<1>35. ASSUME \/ CancelReads \/ CancelAtProvider \/ ResubmitReads \/ DeleteRecord
             \/ ReleaseHold("user", "release", "idle", "retry")
             \/ ReleaseHold("recovery", "release", "idle", "retry") \/ ProviderFinishes
             \/ UNCHANGED vars
      PROVE  UNCHANGED <<keys, lapses, ready, status, pc["submit"]>>
    BY <1>35
       DEF CancelReads, Goto, row, queue, ledger, CancelAtProvider, ProviderCancel,
           ResubmitReads, DeleteRecord, MarkUserDeleted, ReleaseHold, Fault,
           ReleaseBatchImageBalance, ReleaseRefused, ProviderFinishes, TypeOK, vars
<1>36. ASSUME NEW w \in Workers,
             \/ PipelineReads(w) \/ ProcessReads(w)
             \/ ProcessFails(w) \/ IndexResults(w) \/ SettleReads(w)
             \/ RecordSettlementFailure(w) \/ RecordReleaseFailed(w) \/ WorkerUnlocks(w)
             \/ WorkerDies(w) \/ ReleaseHold(w, "terminalRelease", "ack", "requeue")
             \/ ReleaseHold(w, "exhaust", "exhaustFail", "exhaustRecord")
      PROVE  UNCHANGED <<keys, lapses, ready, status, pc["submit"]>>
    BY <1>36
       DEF PipelineReads, Goto, row, queue, ledger, ProcessReads, ProcessFails, IndexResults,
           Fault,
           ReplaceItems, SettleReads, Exhausted, RecordSettlementFailure,
           SetSettlementFailed, RecordReleaseFailed, WorkerUnlocks, WorkerDies,
           ReleaseHold, ReleaseBatchImageBalance, ReleaseRefused, TypeOK
<1>37. ASSUME UNCHANGED <<keys, lapses, ready, status, pc["submit"]>>
      PROVE  QueueInv'
    BY <1>37 DEF QueueInv, Intact, delayed, active, inflight
<1> QED
    BY <1>1, <1>2, <1>3, <1>4, <1>5, <1>6, <1>7, <1>8, <1>9, <1>10, <1>11, <1>12, <1>13,
       <1>14, <1>15, <1>16, <1>17, <1>18, <1>19, <1>20, <1>21, <1>22, <1>23, <1>24, <1>25,
       <1>26, <1>27, <1>28, <1>29, <1>30, <1>31, <1>32, <1>33, <1>34, <1>35, <1>36, <1>37
       DEF Next, SubmitNext, UserNext, RecoveryNext, WorkerNext, Clients

\* Somebody is about to release a hold that is not there yet.
LEMMA EarlyInvStep ==
    TypeOK /\ SubmitInv /\ ReleaseInv /\ LockInv /\ EarlyInv /\ [Next]_vars
    => EarlyInv'
<1> SUFFICES ASSUME TypeOK, SubmitInv, ReleaseInv, LockInv, EarlyInv, [Next]_vars
             PROVE  EarlyInv'
    OBVIOUS
<1> USE BatchAssumption, LedgerAssumption, Apart
<1>1. ASSUME CreateJob PROVE EarlyInv'
    BY <1>1
       DEF CreateJob, Goto, EarlyInv, Intact, Releasing, inflight, TypeOK, Unsubmitted,
           Processing, Refundable, Terminal, Settled, queue, ledger
<1>2. ASSUME ReserveHold PROVE EarlyInv'
    BY <1>2
       DEF ReserveHold, Goto, Fault, ReserveBatchImageBalance, ReserveRefused, EarlyInv,
           Intact, Releasing, inflight, TypeOK, Unsubmitted, Processing, Refundable,
           Terminal, Settled, row, queue, ledger
<1>3. ASSUME CreatePendingItems PROVE EarlyInv'
    BY <1>3
       DEF CreatePendingItems, Goto, Fault, EarlyInv, Intact, Releasing, inflight, TypeOK,
           Unsubmitted, Processing, Refundable, Terminal, Settled, row, queue, ledger
<1>4. ASSUME StartUpload PROVE EarlyInv'
    BY <1>4
       DEF StartUpload, Goto, Fault, Transition, CanTransition, EarlyInv, Intact,
           Releasing, inflight, TypeOK, Unsubmitted, Processing, Refundable, Terminal,
           Settled, row, queue, ledger
<1>5. ASSUME ProviderSubmit PROVE EarlyInv'
    BY <1>5
       DEF ProviderSubmit, Goto, EarlyInv, Intact, Releasing, inflight, TypeOK,
           Unsubmitted, Processing, Refundable, Terminal, Settled, row, queue, ledger
<1>6. ASSUME UpdateProviderSubmit PROVE EarlyInv'
    BY <1>6
       DEF UpdateProviderSubmit, Goto, Fault, Lapse, SetProviderSubmit, CanTransition,
           EarlyInv, Intact, Releasing, inflight, TypeOK, Unsubmitted, Processing,
           Refundable, Terminal, Settled, row, queue, ledger
<1>7. ASSUME AbortOrphanProviderJob PROVE EarlyInv'
    BY <1>7
       DEF AbortOrphanProviderJob, Goto, ProviderCancel, EarlyInv, Intact, Releasing,
           inflight, row, queue, ledger
<1>8. ASSUME EnqueueSubmitted PROVE EarlyInv'
    BY <1>8
       DEF EnqueueSubmitted, Goto, Fault, Lapse, Enqueue, EarlyInv, Intact, Releasing,
           inflight, TypeOK, Unsubmitted, Processing, Refundable, Terminal, Settled, row,
           queue, ledger
<1>9. ASSUME RecordFailed PROVE EarlyInv'
    BY <1>9
       DEF RecordFailed, Goto, Fault, RecordSubmitFailure, EarlyInv, Intact, Releasing,
           inflight, row, queue, ledger
<1>10. ASSUME HidePreUpstreamSubmitFailure PROVE EarlyInv'
    BY <1>10
       DEF HidePreUpstreamSubmitFailure, Goto, Fault, MarkUserDeleted, EarlyInv, Intact,
           Releasing, inflight, row, queue, ledger
<1>11. ASSUME SubmitDies PROVE EarlyInv'
    BY <1>11
       DEF SubmitDies, Goto, Fault, EarlyInv, Intact, Releasing, inflight, row, queue,
           ledger
<1>12. ASSUME CancelReads PROVE EarlyInv'
    BY <1>12
       DEF CancelReads, Goto, EarlyInv, Intact, Releasing, inflight, TypeOK, Unsubmitted,
           Processing, Refundable, Terminal, Settled, row, queue, ledger
<1>13. ASSUME CancelAtProvider PROVE EarlyInv'
    BY <1>13
       DEF CancelAtProvider, Goto, ProviderCancel, EarlyInv, Intact, Releasing, inflight,
           TypeOK, Unsubmitted, Processing, Refundable, Terminal, Settled, row, queue,
           ledger
<1>14. ASSUME CancelEnqueues PROVE EarlyInv'
    BY <1>14
       DEF CancelEnqueues, Goto, Fault, Enqueue, EarlyInv, Intact, Releasing, inflight,
           row, queue, ledger
<1>15. ASSUME CancelTransition PROVE EarlyInv'
    BY <1>15
       DEF CancelTransition, Goto, Fault, Lapse, Transition, CanTransition, EarlyInv,
           Intact, Releasing, inflight, TypeOK, Unsubmitted, Processing, Refundable,
           Terminal, Settled, row, queue, ledger
<1>16. ASSUME ResubmitReads PROVE EarlyInv'
    BY <1>16
       DEF ResubmitReads, Goto, EarlyInv, Intact, Releasing, inflight, row, queue, ledger
<1>17. ASSUME ResubmitEnqueues PROVE EarlyInv'
    BY <1>17
       DEF ResubmitEnqueues, Goto, Fault, Enqueue, EarlyInv, Intact, Releasing, inflight,
           TypeOK, Unsubmitted, Processing, Refundable, Terminal, Settled, row, queue,
           ledger
<1>18. ASSUME FailStaleUnsubmitted PROVE EarlyInv'
    BY <1>18
       DEF FailStaleUnsubmitted, Goto, Fault, Lapse, Transition, CanTransition, EarlyInv,
           Intact, Releasing, inflight, TypeOK, Unsubmitted, Processing, Refundable,
           Terminal, Settled, queue, ledger
<1>19. ASSUME NEW w \in Workers, WorkerReserves(w) PROVE EarlyInv'
    BY <1>19
       DEF WorkerReserves, Goto, Reserve, EarlyInv, Intact, Releasing, inflight, row,
           ledger
<1>20. ASSUME NEW w \in Workers, WorkerLocks(w) PROVE EarlyInv'
    BY <1>20
       DEF WorkerLocks, Goto, Fault, RequeueAfter, EarlyInv, Intact, Releasing, inflight,
           TypeOK, Unsubmitted, Processing, Refundable, Terminal, Settled, row, queue,
           ledger
<1>21. ASSUME NEW w \in Workers, PollProvider(w) PROVE EarlyInv'
    BY <1>21
       DEF PollProvider, Goto, Fault, WorkerTransition, Transition, CanTransition,
           EarlyInv, Intact, Releasing, inflight, TypeOK, Unsubmitted, Processing,
           Refundable, Terminal, Settled, SubmitInv, Unnamed, WithHold, ReleaseInv,
           GivenUp, LockInv, Done, Critical, Settling, Clients, named, hidden, settleErr,
           delayed, active, row, queue, ledger
<1>22. ASSUME NEW w \in Workers, FailIndex(w) PROVE EarlyInv'
    BY <1>22
       DEF FailIndex, Goto, Fault, WorkerTransition, Transition, CanTransition, EarlyInv,
           Intact, Releasing, inflight, TypeOK, Unsubmitted, Processing, Refundable,
           Terminal, Settled, SubmitInv, Unnamed, WithHold, ReleaseInv, GivenUp, LockInv,
           Done, Critical, Settling, Clients, named, hidden, settleErr, delayed, active,
           row, queue, ledger
<1>23. ASSUME NEW w \in Workers, StartSettling(w) PROVE EarlyInv'
    BY <1>23
       DEF StartSettling, Goto, Fault, WorkerTransition, Transition, CanTransition,
           EarlyInv, Intact, Releasing, inflight, TypeOK, Unsubmitted, Processing,
           Refundable, Terminal, Settled, row, queue, ledger
<1>24. ASSUME NEW w \in Workers, CaptureHold(w) PROVE EarlyInv'
    BY <1>24
       DEF CaptureHold, Goto, Fault, CaptureBatchImageBalance, CaptureRefused, EarlyInv,
           Intact, Releasing, inflight, TypeOK, Unsubmitted, Processing, Refundable,
           Terminal, Settled, row, queue, ledger
<1>25. ASSUME NEW w \in Workers, FailExhausted(w) PROVE EarlyInv'
    BY <1>25
       DEF FailExhausted, Goto, Fault, WorkerTransition, Transition, CanTransition,
           EarlyInv, Intact, Releasing, inflight, TypeOK, Unsubmitted, Processing,
           Refundable, Terminal, Settled, SubmitInv, Unnamed, WithHold, ReleaseInv,
           GivenUp, LockInv, Done, Critical, Settling, Clients, named, hidden, settleErr,
           delayed, active, row, queue, ledger
<1>26. ASSUME NEW w \in Workers, MarkSettled(w) PROVE EarlyInv'
    BY <1>26
       DEF MarkSettled, Goto, Fault, WorkerTransition, Transition, CanTransition, EarlyInv,
           Intact, Releasing, inflight, TypeOK, Unsubmitted, Processing, Refundable,
           Terminal, Settled, row, queue, ledger
<1>27. ASSUME NEW w \in Workers, WorkerAcks(w) PROVE EarlyInv'
    BY <1>27
       DEF WorkerAcks, Goto, Fault, Ack, EarlyInv, Intact, Releasing, inflight, TypeOK,
           Unsubmitted, Processing, Refundable, Terminal, Settled, SubmitInv, Unnamed,
           WithHold, ReleaseInv, GivenUp, LockInv, Done, Critical, Settling, Clients,
           named, hidden, settleErr, delayed, active, row, queue, ledger
<1>28. ASSUME NEW w \in Workers, WorkerRequeues(w) PROVE EarlyInv'
    BY <1>28
       DEF WorkerRequeues, Goto, Fault, RequeueAfter, EarlyInv, Intact, Releasing,
           inflight, row, queue, ledger
<1>29. ASSUME NEW p \in Clients, EnqueueBillingRetry(p) PROVE EarlyInv'
    BY <1>29
       DEF EnqueueBillingRetry, Goto, Fault, Lapse, Enqueue, EarlyInv, Intact, Releasing,
           inflight, row, queue, ledger
<1>30. ASSUME NEW p \in {"submit", "user"}, RecordQueueFailed(p) PROVE EarlyInv'
    BY <1>30
       DEF RecordQueueFailed, Goto, Fault, RecordSubmitFailure, EarlyInv, Intact,
           Releasing, inflight, row, queue, ledger
<1>31. ASSUME NEW p \in {"user", "recovery"}, ClientDies(p) PROVE EarlyInv'
    BY <1>31
       DEF ClientDies, Goto, Fault, EarlyInv, Intact, Releasing, inflight, row, queue,
           ledger
<1>32. ASSUME ReleaseHold("submit", "release", "recordFailed", "recordUnreleased")
      PROVE  EarlyInv'
    BY <1>32
       DEF ReleaseHold, Goto, Fault, ReleaseBatchImageBalance, ReleaseRefused, EarlyInv,
           Intact, Releasing, inflight, TypeOK, Unsubmitted, Processing, Refundable,
           Terminal, Settled, row, queue, ledger
<1>33. ASSUME ReleaseHold("submit", "releaseReturn", "done", "recordUnreleased")
      PROVE  EarlyInv'
    BY <1>33
       DEF ReleaseHold, Goto, Fault, ReleaseBatchImageBalance, ReleaseRefused, EarlyInv,
           Intact, Releasing, inflight, TypeOK, Unsubmitted, Processing, Refundable,
           Terminal, Settled, row, queue, ledger
<1>34. ASSUME ReleaseHold("user", "release", "idle", "retry") PROVE EarlyInv'
    BY <1>34
       DEF ReleaseHold, Goto, Fault, ReleaseBatchImageBalance, ReleaseRefused, EarlyInv,
           Intact, Releasing, inflight, TypeOK, Unsubmitted, Processing, Refundable,
           Terminal, Settled, row, queue, ledger
<1>35. ASSUME ReleaseHold("recovery", "release", "idle", "retry") PROVE EarlyInv'
    BY <1>35
       DEF ReleaseHold, Goto, Fault, ReleaseBatchImageBalance, ReleaseRefused, EarlyInv,
           Intact, Releasing, inflight, TypeOK, Unsubmitted, Processing, Refundable,
           Terminal, Settled, row, queue, ledger
<1>36. ASSUME NEW w \in Workers, ReleaseHold(w, "terminalRelease", "ack", "requeue")
      PROVE  EarlyInv'
    BY <1>36
       DEF ReleaseHold, Goto, Fault, ReleaseBatchImageBalance, ReleaseRefused, EarlyInv,
           Intact, Releasing, inflight, TypeOK, Unsubmitted, Processing, Refundable,
           Terminal, Settled, row, queue, ledger
<1>37. ASSUME NEW w \in Workers, ReleaseHold(w, "exhaust", "exhaustFail", "exhaustRecord")
      PROVE  EarlyInv'
    BY <1>37
       DEF ReleaseHold, Goto, Fault, ReleaseBatchImageBalance, ReleaseRefused, EarlyInv,
           Intact, Releasing, inflight, TypeOK, Unsubmitted, Processing, Refundable,
           Terminal, Settled, row, queue, ledger
<1>38. ASSUME MoveDueDelayedToReady PROVE EarlyInv'
    BY <1>38 DEF MoveDueDelayedToReady, EarlyInv, Intact, Releasing, inflight, row, ledger
<1>39. ASSUME RecoverStaleActive PROVE EarlyInv'
    BY <1>39
       DEF RecoverStaleActive, Fault, EarlyInv, Intact, Releasing, inflight, row, ledger
<1>40. ASSUME LockExpires PROVE EarlyInv'
    BY <1>40
       DEF LockExpires, Fault, Lapse, EarlyInv, Intact, Releasing, inflight, row, queue,
           ledger
<1>41. ASSUME OutputCleanup PROVE EarlyInv'
    BY <1>41
       DEF OutputCleanup, Transition, CanTransition, EarlyInv, Intact, Releasing, inflight,
           TypeOK, Unsubmitted, Processing, Refundable, Terminal, Settled, queue, ledger
<1>42. ASSUME \/ DeleteRecord \/ ProviderFinishes \/ UNCHANGED vars
      PROVE  UNCHANGED <<claims, keys, lapses, status, pc["submit"], pc["user"], pc["recovery"]>>
    BY <1>42
       DEF DeleteRecord, MarkUserDeleted, queue, ledger, ProviderFinishes, row, TypeOK,
           vars
<1>43. ASSUME NEW w \in Workers,
             \/ PipelineReads(w) \/ ProcessReads(w)
             \/ ProcessFails(w) \/ IndexResults(w) \/ SettleReads(w)
             \/ RecordSettlementFailure(w) \/ RecordReleaseFailed(w) \/ WorkerUnlocks(w)
             \/ WorkerDies(w)
      PROVE  UNCHANGED <<claims, keys, lapses, status, pc["submit"], pc["user"], pc["recovery"]>>
    BY <1>43
       DEF PipelineReads, Goto, row, queue, ledger, ProcessReads, ProcessFails, IndexResults,
           Fault,
           ReplaceItems, SettleReads, Exhausted, RecordSettlementFailure,
           SetSettlementFailed, RecordReleaseFailed, WorkerUnlocks, WorkerDies, TypeOK
<1>44. ASSUME UNCHANGED <<claims, keys, lapses, status, pc["submit"], pc["user"], pc["recovery"]>>
      PROVE  EarlyInv'
    BY <1>44 DEF EarlyInv, Intact, Releasing, inflight
<1> QED
    BY <1>1, <1>2, <1>3, <1>4, <1>5, <1>6, <1>7, <1>8, <1>9, <1>10, <1>11, <1>12, <1>13,
       <1>14, <1>15, <1>16, <1>17, <1>18, <1>19, <1>20, <1>21, <1>22, <1>23, <1>24, <1>25,
       <1>26, <1>27, <1>28, <1>29, <1>30, <1>31, <1>32, <1>33, <1>34, <1>35, <1>36, <1>37,
       <1>38, <1>39, <1>40, <1>41, <1>42, <1>43, <1>44
       DEF Next, SubmitNext, UserNext, RecoveryNext, WorkerNext, Clients

\* What is charged is the cost of the capture.
LEMMA ChargedOnceStep ==
    TypeOK /\ SubmitInv /\ SettleInv /\ ChargedOnce /\ [Next]_vars
    => ChargedOnce'
<1> SUFFICES ASSUME TypeOK, SubmitInv, SettleInv, ChargedOnce, [Next]_vars
             PROVE  ChargedOnce'
    OBVIOUS
<1> USE BatchAssumption, LedgerAssumption, Apart
<1>1. ASSUME ReserveHold PROVE ChargedOnce'
    BY <1>1
       DEF ReserveHold, Goto, Fault, ReserveBatchImageBalance, ReserveRefused, ChargedOnce,
           TypeOK, LedgerTypeOK, SettleInv, row, queue, ledger
<1>2. ASSUME NEW w \in Workers, IndexResults(w) PROVE ChargedOnce'
    BY <1>2
       DEF IndexResults, Goto, Fault, ReplaceItems, ChargedOnce, TypeOK, LedgerTypeOK,
           SettleInv, Unsubmitted, Processing, Refundable, Terminal, Settled, Settling,
           row, queue, ledger
<1>3. ASSUME NEW w \in Workers, CaptureHold(w) PROVE ChargedOnce'
    BY <1>3
       DEF CaptureHold, Goto, Fault, CaptureBatchImageBalance, CaptureRefused, ChargedOnce,
           TypeOK, LedgerTypeOK, SettleInv, row, queue, ledger
<1>4. ASSUME ReleaseHold("submit", "release", "recordFailed", "recordUnreleased")
      PROVE  ChargedOnce'
    BY <1>4
       DEF ReleaseHold, Goto, Fault, ReleaseBatchImageBalance, ReleaseRefused, ChargedOnce,
           TypeOK, LedgerTypeOK, SettleInv, row, queue, ledger
<1>5. ASSUME ReleaseHold("submit", "releaseReturn", "done", "recordUnreleased")
      PROVE  ChargedOnce'
    BY <1>5
       DEF ReleaseHold, Goto, Fault, ReleaseBatchImageBalance, ReleaseRefused, ChargedOnce,
           TypeOK, LedgerTypeOK, SettleInv, row, queue, ledger
<1>6. ASSUME ReleaseHold("user", "release", "idle", "retry") PROVE ChargedOnce'
    BY <1>6
       DEF ReleaseHold, Goto, Fault, ReleaseBatchImageBalance, ReleaseRefused, ChargedOnce,
           TypeOK, LedgerTypeOK, SettleInv, row, queue, ledger
<1>7. ASSUME ReleaseHold("recovery", "release", "idle", "retry") PROVE ChargedOnce'
    BY <1>7
       DEF ReleaseHold, Goto, Fault, ReleaseBatchImageBalance, ReleaseRefused, ChargedOnce,
           TypeOK, LedgerTypeOK, SettleInv, row, queue, ledger
<1>8. ASSUME NEW w \in Workers, ReleaseHold(w, "terminalRelease", "ack", "requeue")
      PROVE  ChargedOnce'
    BY <1>8
       DEF ReleaseHold, Goto, Fault, ReleaseBatchImageBalance, ReleaseRefused, ChargedOnce,
           TypeOK, LedgerTypeOK, SettleInv, row, queue, ledger
<1>9. ASSUME NEW w \in Workers, ReleaseHold(w, "exhaust", "exhaustFail", "exhaustRecord")
      PROVE  ChargedOnce'
    BY <1>9
       DEF ReleaseHold, Goto, Fault, ReleaseBatchImageBalance, ReleaseRefused, ChargedOnce,
           TypeOK, LedgerTypeOK, SettleInv, row, queue, ledger
<1>10. ASSUME \/ CreateJob \/ CreatePendingItems \/ StartUpload \/ ProviderSubmit
             \/ UpdateProviderSubmit \/ AbortOrphanProviderJob \/ EnqueueSubmitted
             \/ RecordFailed \/ HidePreUpstreamSubmitFailure \/ SubmitDies
             \/ CancelReads \/ CancelAtProvider \/ CancelEnqueues \/ CancelTransition
             \/ ResubmitReads \/ ResubmitEnqueues \/ DeleteRecord
             \/ FailStaleUnsubmitted \/ MoveDueDelayedToReady \/ RecoverStaleActive
             \/ LockExpires \/ ProviderFinishes \/ OutputCleanup \/ UNCHANGED vars
      PROVE  UNCHANGED <<balance, claims, cost, frozen, funds>>
    BY <1>10
       DEF CreateJob, Goto, queue, ledger, CreatePendingItems, Fault, row, StartUpload,
           Transition, CanTransition, ProviderSubmit, UpdateProviderSubmit, Lapse,
           SetProviderSubmit, AbortOrphanProviderJob, ProviderCancel, EnqueueSubmitted,
           Enqueue, RecordFailed, RecordSubmitFailure, HidePreUpstreamSubmitFailure,
           MarkUserDeleted, SubmitDies, CancelReads, CancelAtProvider, CancelEnqueues,
           CancelTransition, ResubmitReads, ResubmitEnqueues, DeleteRecord,
           FailStaleUnsubmitted, MoveDueDelayedToReady, RecoverStaleActive, LockExpires,
           ProviderFinishes, OutputCleanup, vars
<1>11. ASSUME NEW p \in Clients, EnqueueBillingRetry(p)
      PROVE  UNCHANGED <<balance, claims, cost, frozen, funds>>
    BY <1>11
       DEF EnqueueBillingRetry, Goto, Fault, Lapse, Enqueue, row, queue, ledger, Clients
<1>12. ASSUME NEW p \in {"submit", "user"}, RecordQueueFailed(p)
      PROVE  UNCHANGED <<balance, claims, cost, frozen, funds>>
    BY <1>12
       DEF RecordQueueFailed, Goto, Fault, RecordSubmitFailure, row, queue, ledger, Clients
<1>13. ASSUME NEW p \in {"user", "recovery"}, ClientDies(p)
      PROVE  UNCHANGED <<balance, claims, cost, frozen, funds>>
    BY <1>13 DEF ClientDies, Goto, Fault, row, queue, ledger, Clients
<1>14. ASSUME NEW w \in Workers,
             \/ WorkerReserves(w) \/ WorkerLocks(w) \/ PipelineReads(w)
             \/ ProcessReads(w)
             \/ ProcessFails(w) \/ PollProvider(w) \/ FailIndex(w) \/ StartSettling(w)
             \/ SettleReads(w) \/ RecordSettlementFailure(w) \/ FailExhausted(w)
             \/ RecordReleaseFailed(w) \/ MarkSettled(w) \/ WorkerAcks(w)
             \/ WorkerRequeues(w) \/ WorkerUnlocks(w) \/ WorkerDies(w)
      PROVE  UNCHANGED <<balance, claims, cost, frozen, funds>>
    BY <1>14
       DEF WorkerReserves, Goto, Reserve, row, ledger, WorkerLocks, Fault, RequeueAfter,
           queue, PipelineReads, ProcessReads, ProcessFails, PollProvider, WorkerTransition,
           Transition,
           CanTransition, FailIndex, StartSettling, SettleReads, Exhausted,
           RecordSettlementFailure, SetSettlementFailed, FailExhausted,
           RecordReleaseFailed, MarkSettled, WorkerAcks, Ack, WorkerRequeues,
           WorkerUnlocks, WorkerDies
<1>15. ASSUME UNCHANGED <<balance, claims, cost, frozen, funds>>
      PROVE  ChargedOnce'
    BY <1>15 DEF ChargedOnce, TypeOK, LedgerTypeOK, SettleInv
<1> QED
    BY <1>1, <1>2, <1>3, <1>4, <1>5, <1>6, <1>7, <1>8, <1>9, <1>10, <1>11, <1>12, <1>13,
       <1>14, <1>15
       DEF Next, SubmitNext, UserNext, RecoveryNext, WorkerNext, Clients

\* What is frozen is what the holds amount to.
LEMMA OneEndPerHoldStep ==
    TypeOK /\ SubmitInv /\ ReleaseInv /\ SettleInv /\ LockInv /\ EndInv /\ OneEndPerHold /\ [Next]_vars
    => OneEndPerHold'
<1> SUFFICES ASSUME TypeOK, SubmitInv, ReleaseInv, SettleInv, LockInv, EndInv, OneEndPerHold,
                    [Next]_vars
             PROVE  OneEndPerHold'
    OBVIOUS
<1> USE BatchAssumption, LedgerAssumption, Apart
<1>1. ASSUME ReserveHold PROVE OneEndPerHold'
    BY <1>1
       DEF ReserveHold, Goto, Fault, ReserveBatchImageBalance, ReserveRefused,
           OneEndPerHold, Outstanding, Intact, TypeOK, LedgerTypeOK, Unsubmitted,
           Processing, Refundable, Terminal, Settled, SubmitInv, Unnamed, WithHold,
           ReleaseInv, Releasing, GivenUp, SettleInv, Settling, LockInv, Done, Critical,
           EndInv, Exhausted, Sound, named, hidden, settleErr, row, queue, ledger
<1>2. ASSUME UpdateProviderSubmit PROVE OneEndPerHold'
    BY <1>2
       DEF UpdateProviderSubmit, Goto, Fault, Lapse, SetProviderSubmit, CanTransition,
           OneEndPerHold, Outstanding, Intact, TypeOK, LedgerTypeOK, row, queue, ledger
<1>3. ASSUME EnqueueSubmitted PROVE OneEndPerHold'
    BY <1>3
       DEF EnqueueSubmitted, Goto, Fault, Lapse, Enqueue, OneEndPerHold, Outstanding,
           Intact, TypeOK, LedgerTypeOK, row, queue, ledger
<1>4. ASSUME SubmitDies PROVE OneEndPerHold'
    BY <1>4
       DEF SubmitDies, Goto, Fault, OneEndPerHold, Outstanding, Intact, TypeOK,
           LedgerTypeOK, row, queue, ledger
<1>5. ASSUME CancelTransition PROVE OneEndPerHold'
    BY <1>5
       DEF CancelTransition, Goto, Fault, Lapse, Transition, CanTransition, OneEndPerHold,
           Outstanding, Intact, TypeOK, LedgerTypeOK, row, queue, ledger
<1>6. ASSUME FailStaleUnsubmitted PROVE OneEndPerHold'
    BY <1>6
       DEF FailStaleUnsubmitted, Goto, Fault, Lapse, Transition, CanTransition,
           OneEndPerHold, Outstanding, Intact, TypeOK, LedgerTypeOK, queue, ledger
<1>7. ASSUME NEW w \in Workers, CaptureHold(w) PROVE OneEndPerHold'
    BY <1>7
       DEF CaptureHold, Goto, Fault, CaptureBatchImageBalance, CaptureRefused,
           OneEndPerHold, Outstanding, Intact, TypeOK, LedgerTypeOK, Unsubmitted,
           Processing, Refundable, Terminal, Settled, SubmitInv, Unnamed, WithHold,
           ReleaseInv, Releasing, GivenUp, SettleInv, Settling, LockInv, Done, Critical,
           EndInv, Exhausted, Sound, named, hidden, settleErr, row, queue, ledger
<1>8. ASSUME NEW p \in Clients, EnqueueBillingRetry(p) PROVE OneEndPerHold'
    BY <1>8
       DEF EnqueueBillingRetry, Goto, Fault, Lapse, Enqueue, OneEndPerHold, Outstanding,
           Intact, TypeOK, LedgerTypeOK, row, queue, ledger
<1>9. ASSUME NEW p \in {"submit", "user"}, RecordQueueFailed(p) PROVE OneEndPerHold'
    BY <1>9
       DEF RecordQueueFailed, Goto, Fault, RecordSubmitFailure, OneEndPerHold, Outstanding,
           Intact, TypeOK, LedgerTypeOK, row, queue, ledger
<1>10. ASSUME NEW p \in {"user", "recovery"}, ClientDies(p) PROVE OneEndPerHold'
    BY <1>10
       DEF ClientDies, Goto, Fault, OneEndPerHold, Outstanding, Intact, TypeOK,
           LedgerTypeOK, row, queue, ledger
<1>11. ASSUME ReleaseHold("submit", "release", "recordFailed", "recordUnreleased")
      PROVE  OneEndPerHold'
    BY <1>11
       DEF ReleaseHold, Goto, Fault, ReleaseBatchImageBalance, ReleaseRefused,
           OneEndPerHold, Outstanding, Intact, TypeOK, LedgerTypeOK, Unsubmitted,
           Processing, Refundable, Terminal, Settled, SubmitInv, Unnamed, WithHold,
           ReleaseInv, Releasing, GivenUp, SettleInv, Settling, LockInv, Done, Critical,
           EndInv, Exhausted, Sound, named, hidden, settleErr, row, queue, ledger
<1>12. ASSUME ReleaseHold("submit", "releaseReturn", "done", "recordUnreleased")
      PROVE  OneEndPerHold'
    BY <1>12
       DEF ReleaseHold, Goto, Fault, ReleaseBatchImageBalance, ReleaseRefused,
           OneEndPerHold, Outstanding, Intact, TypeOK, LedgerTypeOK, Unsubmitted,
           Processing, Refundable, Terminal, Settled, SubmitInv, Unnamed, WithHold,
           ReleaseInv, Releasing, GivenUp, SettleInv, Settling, LockInv, Done, Critical,
           EndInv, Exhausted, Sound, named, hidden, settleErr, row, queue, ledger
<1>13. ASSUME ReleaseHold("user", "release", "idle", "retry") PROVE OneEndPerHold'
    BY <1>13
       DEF ReleaseHold, Goto, Fault, ReleaseBatchImageBalance, ReleaseRefused,
           OneEndPerHold, Outstanding, Intact, TypeOK, LedgerTypeOK, Unsubmitted,
           Processing, Refundable, Terminal, Settled, SubmitInv, Unnamed, WithHold,
           ReleaseInv, Releasing, GivenUp, SettleInv, Settling, LockInv, Done, Critical,
           EndInv, Exhausted, Sound, named, hidden, settleErr, row, queue, ledger
<1>14. ASSUME ReleaseHold("recovery", "release", "idle", "retry") PROVE OneEndPerHold'
    BY <1>14
       DEF ReleaseHold, Goto, Fault, ReleaseBatchImageBalance, ReleaseRefused,
           OneEndPerHold, Outstanding, Intact, TypeOK, LedgerTypeOK, Unsubmitted,
           Processing, Refundable, Terminal, Settled, SubmitInv, Unnamed, WithHold,
           ReleaseInv, Releasing, GivenUp, SettleInv, Settling, LockInv, Done, Critical,
           EndInv, Exhausted, Sound, named, hidden, settleErr, row, queue, ledger
<1>15. ASSUME NEW w \in Workers, ReleaseHold(w, "terminalRelease", "ack", "requeue")
      PROVE  OneEndPerHold'
    BY <1>15
       DEF ReleaseHold, Goto, Fault, ReleaseBatchImageBalance, ReleaseRefused,
           OneEndPerHold, Outstanding, Intact, TypeOK, LedgerTypeOK, Unsubmitted,
           Processing, Refundable, Terminal, Settled, SubmitInv, Unnamed, WithHold,
           ReleaseInv, Releasing, GivenUp, SettleInv, Settling, LockInv, Done, Critical,
           EndInv, Exhausted, Sound, named, hidden, settleErr, row, queue, ledger
<1>16. ASSUME NEW w \in Workers, ReleaseHold(w, "exhaust", "exhaustFail", "exhaustRecord")
      PROVE  OneEndPerHold'
    BY <1>16
       DEF ReleaseHold, Goto, Fault, ReleaseBatchImageBalance, ReleaseRefused,
           OneEndPerHold, Outstanding, Intact, TypeOK, LedgerTypeOK, Unsubmitted,
           Processing, Refundable, Terminal, Settled, SubmitInv, Unnamed, WithHold,
           ReleaseInv, Releasing, GivenUp, SettleInv, Settling, LockInv, Done, Critical,
           EndInv, Exhausted, Sound, named, hidden, settleErr, row, queue, ledger
<1>17. ASSUME LockExpires PROVE OneEndPerHold'
    BY <1>17
       DEF LockExpires, Fault, Lapse, OneEndPerHold, Outstanding, Intact, TypeOK,
           LedgerTypeOK, row, queue, ledger
<1>18. ASSUME \/ CreateJob \/ CreatePendingItems \/ StartUpload \/ ProviderSubmit
             \/ AbortOrphanProviderJob \/ RecordFailed \/ HidePreUpstreamSubmitFailure
             \/ CancelReads \/ CancelAtProvider \/ CancelEnqueues \/ ResubmitReads
             \/ ResubmitEnqueues \/ DeleteRecord \/ MoveDueDelayedToReady
             \/ RecoverStaleActive \/ ProviderFinishes \/ OutputCleanup
             \/ UNCHANGED vars
      PROVE  UNCHANGED <<claims, frozen, lapses>>
    BY <1>18
       DEF CreateJob, Goto, queue, ledger, CreatePendingItems, Fault, row, StartUpload,
           Transition, CanTransition, ProviderSubmit, AbortOrphanProviderJob,
           ProviderCancel, RecordFailed, RecordSubmitFailure, HidePreUpstreamSubmitFailure,
           MarkUserDeleted, CancelReads, CancelAtProvider, CancelEnqueues, Enqueue,
           ResubmitReads, ResubmitEnqueues, DeleteRecord, MoveDueDelayedToReady,
           RecoverStaleActive, ProviderFinishes, OutputCleanup, vars
<1>19. ASSUME NEW w \in Workers,
             \/ WorkerReserves(w) \/ WorkerLocks(w) \/ PipelineReads(w)
             \/ ProcessReads(w)
             \/ ProcessFails(w) \/ PollProvider(w) \/ IndexResults(w) \/ FailIndex(w)
             \/ StartSettling(w) \/ SettleReads(w) \/ RecordSettlementFailure(w)
             \/ FailExhausted(w) \/ RecordReleaseFailed(w) \/ MarkSettled(w)
             \/ WorkerAcks(w) \/ WorkerRequeues(w) \/ WorkerUnlocks(w) \/ WorkerDies(w)
      PROVE  UNCHANGED <<claims, frozen, lapses>>
    BY <1>19
       DEF WorkerReserves, Goto, Reserve, row, ledger, WorkerLocks, Fault, RequeueAfter,
           queue, PipelineReads, ProcessReads, ProcessFails, PollProvider, WorkerTransition,
           Transition,
           CanTransition, IndexResults, ReplaceItems, FailIndex, StartSettling,
           SettleReads, Exhausted, RecordSettlementFailure, SetSettlementFailed,
           FailExhausted, RecordReleaseFailed, MarkSettled, WorkerAcks, Ack,
           WorkerRequeues, WorkerUnlocks, WorkerDies
<1>20. ASSUME UNCHANGED <<claims, frozen, lapses>>
      PROVE  OneEndPerHold'
    BY <1>20 DEF OneEndPerHold, Outstanding, Intact, TypeOK, LedgerTypeOK
<1> QED
    BY <1>1, <1>2, <1>3, <1>4, <1>5, <1>6, <1>7, <1>8, <1>9, <1>10, <1>11, <1>12, <1>13,
       <1>14, <1>15, <1>16, <1>17, <1>18, <1>19, <1>20
       DEF Next, SubmitNext, UserNext, RecoveryNext, WorkerNext, Clients

\* Somebody is left to release the hold.
LEMMA HoldComesBackStep ==
    TypeOK /\ SubmitInv /\ ReleaseInv /\ SettleInv /\ LockInv /\ EarlyInv /\ HoldComesBack /\ [Next]_vars
    => HoldComesBack'
<1> SUFFICES ASSUME TypeOK, SubmitInv, ReleaseInv, SettleInv, LockInv, EarlyInv, HoldComesBack,
                    [Next]_vars
             PROVE  HoldComesBack'
    OBVIOUS
<1> USE BatchAssumption, LedgerAssumption, Apart
<1>1. ASSUME CreateJob PROVE HoldComesBack'
    BY <1>1
       DEF CreateJob, Goto, HoldComesBack, Outstanding, Intact, Releasing, inflight,
           TypeOK, Unsubmitted, Processing, Refundable, Terminal, Settled, queue, ledger
<1>2. ASSUME ReserveHold PROVE HoldComesBack'
    BY <1>2
       DEF ReserveHold, Goto, Fault, ReserveBatchImageBalance, ReserveRefused,
           HoldComesBack, Outstanding, Intact, Releasing, inflight, TypeOK, Unsubmitted,
           Processing, Refundable, Terminal, Settled, SubmitInv, Unnamed, WithHold,
           ReleaseInv, GivenUp, SettleInv, Settling, LockInv, Done, Critical, EarlyInv,
           Clients, named, hidden, settleErr, delayed, active, row, queue, ledger
<1>3. ASSUME CreatePendingItems PROVE HoldComesBack'
    BY <1>3
       DEF CreatePendingItems, Goto, Fault, HoldComesBack, Outstanding, Intact, Releasing,
           inflight, TypeOK, Unsubmitted, Processing, Refundable, Terminal, Settled, row,
           queue, ledger
<1>4. ASSUME StartUpload PROVE HoldComesBack'
    BY <1>4
       DEF StartUpload, Goto, Fault, Transition, CanTransition, HoldComesBack, Outstanding,
           Intact, Releasing, inflight, TypeOK, Unsubmitted, Processing, Refundable,
           Terminal, Settled, row, queue, ledger
<1>5. ASSUME ProviderSubmit PROVE HoldComesBack'
    BY <1>5
       DEF ProviderSubmit, Goto, HoldComesBack, Outstanding, Intact, Releasing, inflight,
           TypeOK, Unsubmitted, Processing, Refundable, Terminal, Settled, row, queue,
           ledger
<1>6. ASSUME UpdateProviderSubmit PROVE HoldComesBack'
    BY <1>6
       DEF UpdateProviderSubmit, Goto, Fault, Lapse, SetProviderSubmit, CanTransition,
           HoldComesBack, Outstanding, Intact, Releasing, inflight, TypeOK, Unsubmitted,
           Processing, Refundable, Terminal, Settled, row, queue, ledger
<1>7. ASSUME AbortOrphanProviderJob PROVE HoldComesBack'
    BY <1>7
       DEF AbortOrphanProviderJob, Goto, ProviderCancel, HoldComesBack, Outstanding,
           Intact, Releasing, inflight, row, queue, ledger
<1>8. ASSUME EnqueueSubmitted PROVE HoldComesBack'
    BY <1>8
       DEF EnqueueSubmitted, Goto, Fault, Lapse, Enqueue, HoldComesBack, Outstanding,
           Intact, Releasing, inflight, TypeOK, Unsubmitted, Processing, Refundable,
           Terminal, Settled, row, queue, ledger
<1>9. ASSUME RecordFailed PROVE HoldComesBack'
    BY <1>9
       DEF RecordFailed, Goto, Fault, RecordSubmitFailure, HoldComesBack, Outstanding,
           Intact, Releasing, inflight, TypeOK, Unsubmitted, Processing, Refundable,
           Terminal, Settled, SubmitInv, Unnamed, WithHold, ReleaseInv, GivenUp, SettleInv,
           Settling, LockInv, Done, Critical, EarlyInv, Clients, named, hidden, settleErr,
           delayed, active, row, queue, ledger
<1>10. ASSUME HidePreUpstreamSubmitFailure PROVE HoldComesBack'
    BY <1>10
       DEF HidePreUpstreamSubmitFailure, Goto, Fault, MarkUserDeleted, HoldComesBack,
           Outstanding, Intact, Releasing, inflight, row, queue, ledger
<1>11. ASSUME SubmitDies PROVE HoldComesBack'
    BY <1>11
       DEF SubmitDies, Goto, Fault, HoldComesBack, Outstanding, Intact, Releasing,
           inflight, row, queue, ledger
<1>12. ASSUME CancelReads PROVE HoldComesBack'
    BY <1>12
       DEF CancelReads, Goto, HoldComesBack, Outstanding, Intact, Releasing, inflight,
           TypeOK, Unsubmitted, Processing, Refundable, Terminal, Settled, row, queue,
           ledger
<1>13. ASSUME CancelAtProvider PROVE HoldComesBack'
    BY <1>13
       DEF CancelAtProvider, Goto, ProviderCancel, HoldComesBack, Outstanding, Intact,
           Releasing, inflight, TypeOK, Unsubmitted, Processing, Refundable, Terminal,
           Settled, row, queue, ledger
<1>14. ASSUME CancelEnqueues PROVE HoldComesBack'
    BY <1>14
       DEF CancelEnqueues, Goto, Fault, Enqueue, HoldComesBack, Outstanding, Intact,
           Releasing, inflight, row, queue, ledger
<1>15. ASSUME CancelTransition PROVE HoldComesBack'
    BY <1>15
       DEF CancelTransition, Goto, Fault, Lapse, Transition, CanTransition, HoldComesBack,
           Outstanding, Intact, Releasing, inflight, TypeOK, Unsubmitted, Processing,
           Refundable, Terminal, Settled, row, queue, ledger
<1>16. ASSUME ResubmitReads PROVE HoldComesBack'
    BY <1>16
       DEF ResubmitReads, Goto, HoldComesBack, Outstanding, Intact, Releasing, inflight,
           row, queue, ledger
<1>17. ASSUME ResubmitEnqueues PROVE HoldComesBack'
    BY <1>17
       DEF ResubmitEnqueues, Goto, Fault, Enqueue, HoldComesBack, Outstanding, Intact,
           Releasing, inflight, TypeOK, Unsubmitted, Processing, Refundable, Terminal,
           Settled, row, queue, ledger
<1>18. ASSUME FailStaleUnsubmitted PROVE HoldComesBack'
    BY <1>18
       DEF FailStaleUnsubmitted, Goto, Fault, Lapse, Transition, CanTransition,
           HoldComesBack, Outstanding, Intact, Releasing, inflight, TypeOK, Unsubmitted,
           Processing, Refundable, Terminal, Settled, queue, ledger
<1>19. ASSUME NEW w \in Workers, WorkerReserves(w) PROVE HoldComesBack'
    BY <1>19
       DEF WorkerReserves, Goto, Reserve, HoldComesBack, Outstanding, Intact, Releasing,
           inflight, row, ledger
<1>20. ASSUME NEW w \in Workers, WorkerLocks(w) PROVE HoldComesBack'
    BY <1>20
       DEF WorkerLocks, Goto, Fault, RequeueAfter, HoldComesBack, Outstanding, Intact,
           Releasing, inflight, TypeOK, Unsubmitted, Processing, Refundable, Terminal,
           Settled, row, queue, ledger
<1>21. ASSUME NEW w \in Workers, PollProvider(w) PROVE HoldComesBack'
    BY <1>21
       DEF PollProvider, Goto, Fault, WorkerTransition, Transition, CanTransition,
           HoldComesBack, Outstanding, Intact, Releasing, inflight, TypeOK, Unsubmitted,
           Processing, Refundable, Terminal, Settled, SubmitInv, Unnamed, WithHold,
           ReleaseInv, GivenUp, SettleInv, Settling, LockInv, Done, Critical, EarlyInv,
           Clients, named, hidden, settleErr, delayed, active, row, queue, ledger
<1>22. ASSUME NEW w \in Workers, FailIndex(w) PROVE HoldComesBack'
    BY <1>22
       DEF FailIndex, Goto, Fault, WorkerTransition, Transition, CanTransition,
           HoldComesBack, Outstanding, Intact, Releasing, inflight, TypeOK, Unsubmitted,
           Processing, Refundable, Terminal, Settled, SubmitInv, Unnamed, WithHold,
           ReleaseInv, GivenUp, SettleInv, Settling, LockInv, Done, Critical, EarlyInv,
           Clients, named, hidden, settleErr, delayed, active, row, queue, ledger
<1>23. ASSUME NEW w \in Workers, StartSettling(w) PROVE HoldComesBack'
    BY <1>23
       DEF StartSettling, Goto, Fault, WorkerTransition, Transition, CanTransition,
           HoldComesBack, Outstanding, Intact, Releasing, inflight, TypeOK, Unsubmitted,
           Processing, Refundable, Terminal, Settled, row, queue, ledger
<1>24. ASSUME NEW w \in Workers, CaptureHold(w) PROVE HoldComesBack'
    BY <1>24
       DEF CaptureHold, Goto, Fault, CaptureBatchImageBalance, CaptureRefused,
           HoldComesBack, Outstanding, Intact, Releasing, inflight, TypeOK, Unsubmitted,
           Processing, Refundable, Terminal, Settled, row, queue, ledger
<1>25. ASSUME NEW w \in Workers, FailExhausted(w) PROVE HoldComesBack'
    BY <1>25
       DEF FailExhausted, Goto, Fault, WorkerTransition, Transition, CanTransition,
           HoldComesBack, Outstanding, Intact, Releasing, inflight, TypeOK, Unsubmitted,
           Processing, Refundable, Terminal, Settled, SubmitInv, Unnamed, WithHold,
           ReleaseInv, GivenUp, SettleInv, Settling, LockInv, Done, Critical, EarlyInv,
           Clients, named, hidden, settleErr, delayed, active, row, queue, ledger
<1>26. ASSUME NEW w \in Workers, MarkSettled(w) PROVE HoldComesBack'
    BY <1>26
       DEF MarkSettled, Goto, Fault, WorkerTransition, Transition, CanTransition,
           HoldComesBack, Outstanding, Intact, Releasing, inflight, TypeOK, Unsubmitted,
           Processing, Refundable, Terminal, Settled, row, queue, ledger
<1>27. ASSUME NEW w \in Workers, WorkerAcks(w) PROVE HoldComesBack'
    BY <1>27
       DEF WorkerAcks, Goto, Fault, Ack, HoldComesBack, Outstanding, Intact, Releasing,
           inflight, TypeOK, Unsubmitted, Processing, Refundable, Terminal, Settled,
           SubmitInv, Unnamed, WithHold, ReleaseInv, GivenUp, SettleInv, Settling, LockInv,
           Done, Critical, EarlyInv, Clients, named, hidden, settleErr, delayed, active,
           row, queue, ledger
<1>28. ASSUME NEW w \in Workers, WorkerRequeues(w) PROVE HoldComesBack'
    BY <1>28
       DEF WorkerRequeues, Goto, Fault, RequeueAfter, HoldComesBack, Outstanding, Intact,
           Releasing, inflight, row, queue, ledger
<1>29. ASSUME NEW p \in Clients, EnqueueBillingRetry(p) PROVE HoldComesBack'
    BY <1>29
       DEF EnqueueBillingRetry, Goto, Fault, Lapse, Enqueue, HoldComesBack, Outstanding,
           Intact, Releasing, inflight, row, queue, ledger
<1>30. ASSUME NEW p \in {"submit", "user"}, RecordQueueFailed(p) PROVE HoldComesBack'
    BY <1>30
       DEF RecordQueueFailed, Goto, Fault, RecordSubmitFailure, HoldComesBack, Outstanding,
           Intact, Releasing, inflight, row, queue, ledger
<1>31. ASSUME NEW p \in {"user", "recovery"}, ClientDies(p) PROVE HoldComesBack'
    BY <1>31
       DEF ClientDies, Goto, Fault, HoldComesBack, Outstanding, Intact, Releasing,
           inflight, row, queue, ledger
<1>32. ASSUME ReleaseHold("submit", "release", "recordFailed", "recordUnreleased")
      PROVE  HoldComesBack'
    BY <1>32
       DEF ReleaseHold, Goto, Fault, ReleaseBatchImageBalance, ReleaseRefused,
           HoldComesBack, Outstanding, Intact, Releasing, inflight, TypeOK, Unsubmitted,
           Processing, Refundable, Terminal, Settled, row, queue, ledger
<1>33. ASSUME ReleaseHold("submit", "releaseReturn", "done", "recordUnreleased")
      PROVE  HoldComesBack'
    BY <1>33
       DEF ReleaseHold, Goto, Fault, ReleaseBatchImageBalance, ReleaseRefused,
           HoldComesBack, Outstanding, Intact, Releasing, inflight, TypeOK, Unsubmitted,
           Processing, Refundable, Terminal, Settled, row, queue, ledger
<1>34. ASSUME ReleaseHold("user", "release", "idle", "retry") PROVE HoldComesBack'
    BY <1>34
       DEF ReleaseHold, Goto, Fault, ReleaseBatchImageBalance, ReleaseRefused,
           HoldComesBack, Outstanding, Intact, Releasing, inflight, TypeOK, Unsubmitted,
           Processing, Refundable, Terminal, Settled, row, queue, ledger
<1>35. ASSUME ReleaseHold("recovery", "release", "idle", "retry") PROVE HoldComesBack'
    BY <1>35
       DEF ReleaseHold, Goto, Fault, ReleaseBatchImageBalance, ReleaseRefused,
           HoldComesBack, Outstanding, Intact, Releasing, inflight, TypeOK, Unsubmitted,
           Processing, Refundable, Terminal, Settled, row, queue, ledger
<1>36. ASSUME NEW w \in Workers, ReleaseHold(w, "terminalRelease", "ack", "requeue")
      PROVE  HoldComesBack'
    BY <1>36
       DEF ReleaseHold, Goto, Fault, ReleaseBatchImageBalance, ReleaseRefused,
           HoldComesBack, Outstanding, Intact, Releasing, inflight, TypeOK, Unsubmitted,
           Processing, Refundable, Terminal, Settled, row, queue, ledger
<1>37. ASSUME NEW w \in Workers, ReleaseHold(w, "exhaust", "exhaustFail", "exhaustRecord")
      PROVE  HoldComesBack'
    BY <1>37
       DEF ReleaseHold, Goto, Fault, ReleaseBatchImageBalance, ReleaseRefused,
           HoldComesBack, Outstanding, Intact, Releasing, inflight, TypeOK, Unsubmitted,
           Processing, Refundable, Terminal, Settled, row, queue, ledger
<1>38. ASSUME MoveDueDelayedToReady PROVE HoldComesBack'
    BY <1>38
       DEF MoveDueDelayedToReady, HoldComesBack, Outstanding, Intact, Releasing, inflight,
           row, ledger
<1>39. ASSUME RecoverStaleActive PROVE HoldComesBack'
    BY <1>39
       DEF RecoverStaleActive, Fault, HoldComesBack, Outstanding, Intact, Releasing,
           inflight, row, ledger
<1>40. ASSUME LockExpires PROVE HoldComesBack'
    BY <1>40
       DEF LockExpires, Fault, Lapse, HoldComesBack, Outstanding, Intact, Releasing,
           inflight, row, queue, ledger
<1>41. ASSUME OutputCleanup PROVE HoldComesBack'
    BY <1>41
       DEF OutputCleanup, Transition, CanTransition, HoldComesBack, Outstanding, Intact,
           Releasing, inflight, TypeOK, Unsubmitted, Processing, Refundable, Terminal,
           Settled, queue, ledger
<1>42. ASSUME \/ DeleteRecord \/ ProviderFinishes \/ UNCHANGED vars
      PROVE  UNCHANGED <<claims, keys, lapses, status, pc["submit"], pc["user"], pc["recovery"]>>
    BY <1>42
       DEF DeleteRecord, MarkUserDeleted, queue, ledger, ProviderFinishes, row, TypeOK,
           vars
<1>43. ASSUME NEW w \in Workers,
             \/ PipelineReads(w) \/ ProcessReads(w)
             \/ ProcessFails(w) \/ IndexResults(w) \/ SettleReads(w)
             \/ RecordSettlementFailure(w) \/ RecordReleaseFailed(w) \/ WorkerUnlocks(w)
             \/ WorkerDies(w)
      PROVE  UNCHANGED <<claims, keys, lapses, status, pc["submit"], pc["user"], pc["recovery"]>>
    BY <1>43
       DEF PipelineReads, Goto, row, queue, ledger, ProcessReads, ProcessFails, IndexResults,
           Fault,
           ReplaceItems, SettleReads, Exhausted, RecordSettlementFailure,
           SetSettlementFailed, RecordReleaseFailed, WorkerUnlocks, WorkerDies, TypeOK
<1>44. ASSUME UNCHANGED <<claims, keys, lapses, status, pc["submit"], pc["user"], pc["recovery"]>>
      PROVE  HoldComesBack'
    BY <1>44 DEF HoldComesBack, Outstanding, Intact, Releasing, inflight
<1> QED
    BY <1>1, <1>2, <1>3, <1>4, <1>5, <1>6, <1>7, <1>8, <1>9, <1>10, <1>11, <1>12, <1>13,
       <1>14, <1>15, <1>16, <1>17, <1>18, <1>19, <1>20, <1>21, <1>22, <1>23, <1>24, <1>25,
       <1>26, <1>27, <1>28, <1>29, <1>30, <1>31, <1>32, <1>33, <1>34, <1>35, <1>36, <1>37,
       <1>38, <1>39, <1>40, <1>41, <1>42, <1>43, <1>44
       DEF Next, SubmitNext, UserNext, RecoveryNext, WorkerNext, Clients

\* A job that has ended stays ended.
LEMMA EndedStep ==
    ASSUME TypeOK, SubmitInv, ReleaseInv, [Next]_vars
    PROVE  /\ status \in Refundable => status' \in Refundable
           /\ status \in {"completed", "output_deleted"} =>
                status' \in {"completed", "output_deleted"}
<1> DEFINE Ended == /\ status \in Refundable => status' \in Refundable
                    /\ status \in {"completed", "output_deleted"} =>
                         status' \in {"completed", "output_deleted"}
<1> USE BatchAssumption, LedgerAssumption, Apart
<1>1. ASSUME CreateJob PROVE Ended
    BY <1>1
       DEF CreateJob, Goto, Refundable, Terminal, TypeOK, SubmitInv, Unnamed, named,
           Unsubmitted, queue, ledger
<1>2. ASSUME StartUpload PROVE Ended
    BY <1>2
       DEF StartUpload, Goto, Fault, Transition, CanTransition, Refundable, Terminal, row,
           queue, ledger
<1>3. ASSUME UpdateProviderSubmit PROVE Ended
    BY <1>3
       DEF UpdateProviderSubmit, Goto, Fault, Lapse, SetProviderSubmit, CanTransition,
           Refundable, Terminal, row, queue, ledger
<1>4. ASSUME RecordFailed PROVE Ended
    BY <1>4
       DEF RecordFailed, Goto, Fault, RecordSubmitFailure, Refundable, Terminal, TypeOK,
           SubmitInv, Unnamed, named, Unsubmitted, row, queue, ledger
<1>5. ASSUME CancelTransition PROVE Ended
    BY <1>5
       DEF CancelTransition, Goto, Fault, Lapse, Transition, CanTransition, Refundable,
           Terminal, row, queue, ledger
<1>6. ASSUME FailStaleUnsubmitted PROVE Ended
    BY <1>6
       DEF FailStaleUnsubmitted, Goto, Fault, Lapse, Transition, CanTransition, Refundable,
           Terminal, queue, ledger
<1>7. ASSUME NEW w \in Workers, PollProvider(w) PROVE Ended
    BY <1>7
       DEF PollProvider, Goto, Fault, WorkerTransition, Transition, CanTransition,
           Refundable, Terminal, row, queue, ledger
<1>8. ASSUME NEW w \in Workers, FailIndex(w) PROVE Ended
    BY <1>8
       DEF FailIndex, Goto, Fault, WorkerTransition, Transition, CanTransition, Refundable,
           Terminal, row, queue, ledger
<1>9. ASSUME NEW w \in Workers, StartSettling(w) PROVE Ended
    BY <1>9
       DEF StartSettling, Goto, Fault, WorkerTransition, Transition, CanTransition,
           Refundable, Terminal, row, queue, ledger
<1>10. ASSUME NEW w \in Workers, FailExhausted(w) PROVE Ended
    BY <1>10
       DEF FailExhausted, Goto, Fault, WorkerTransition, Transition, CanTransition,
           Refundable, Terminal, row, queue, ledger
<1>11. ASSUME NEW w \in Workers, MarkSettled(w) PROVE Ended
    BY <1>11
       DEF MarkSettled, Goto, Fault, WorkerTransition, Transition, CanTransition,
           Refundable, Terminal, row, queue, ledger
<1>12. ASSUME OutputCleanup PROVE Ended
    BY <1>12
       DEF OutputCleanup, Transition, CanTransition, Refundable, Terminal, queue, ledger
<1>13. ASSUME \/ ReserveHold \/ CreatePendingItems \/ ProviderSubmit
             \/ AbortOrphanProviderJob \/ EnqueueSubmitted
             \/ HidePreUpstreamSubmitFailure \/ SubmitDies \/ CancelReads
             \/ CancelAtProvider \/ CancelEnqueues \/ ResubmitReads \/ ResubmitEnqueues
             \/ DeleteRecord
             \/ ReleaseHold("submit", "release", "recordFailed", "recordUnreleased")
             \/ ReleaseHold("submit", "releaseReturn", "done", "recordUnreleased")
             \/ ReleaseHold("user", "release", "idle", "retry")
             \/ ReleaseHold("recovery", "release", "idle", "retry")
             \/ MoveDueDelayedToReady \/ RecoverStaleActive \/ LockExpires
             \/ ProviderFinishes \/ UNCHANGED vars
      PROVE  UNCHANGED status
    BY <1>13
       DEF ReserveHold, Goto, Fault, ReserveBatchImageBalance, ReserveRefused, row, queue,
           ledger, CreatePendingItems, ProviderSubmit, AbortOrphanProviderJob,
           ProviderCancel, EnqueueSubmitted, Lapse, Enqueue, HidePreUpstreamSubmitFailure,
           MarkUserDeleted, SubmitDies, CancelReads, CancelAtProvider, CancelEnqueues,
           ResubmitReads, ResubmitEnqueues, DeleteRecord, ReleaseHold,
           ReleaseBatchImageBalance, ReleaseRefused, MoveDueDelayedToReady,
           RecoverStaleActive, LockExpires, ProviderFinishes, vars
<1>14. ASSUME NEW p \in Clients, EnqueueBillingRetry(p)
      PROVE  UNCHANGED status
    BY <1>14
       DEF EnqueueBillingRetry, Goto, Fault, Lapse, Enqueue, row, queue, ledger, Clients
<1>15. ASSUME NEW p \in {"submit", "user"}, RecordQueueFailed(p)
      PROVE  UNCHANGED status
    BY <1>15
       DEF RecordQueueFailed, Goto, Fault, RecordSubmitFailure, row, queue, ledger, Clients
<1>16. ASSUME NEW p \in {"user", "recovery"}, ClientDies(p)
      PROVE  UNCHANGED status
    BY <1>16 DEF ClientDies, Goto, Fault, row, queue, ledger, Clients
<1>17. ASSUME NEW w \in Workers,
             \/ WorkerReserves(w) \/ WorkerLocks(w) \/ PipelineReads(w)
             \/ ProcessReads(w)
             \/ ProcessFails(w) \/ IndexResults(w) \/ SettleReads(w) \/ CaptureHold(w)
             \/ RecordSettlementFailure(w) \/ RecordReleaseFailed(w) \/ WorkerAcks(w)
             \/ WorkerRequeues(w) \/ WorkerUnlocks(w) \/ WorkerDies(w)
             \/ ReleaseHold(w, "terminalRelease", "ack", "requeue")
             \/ ReleaseHold(w, "exhaust", "exhaustFail", "exhaustRecord")
      PROVE  UNCHANGED status
    BY <1>17
       DEF WorkerReserves, Goto, Reserve, row, ledger, WorkerLocks, Fault, RequeueAfter,
           queue, PipelineReads, ProcessReads, ProcessFails, IndexResults, ReplaceItems,
           SettleReads,
           Exhausted, CaptureHold, CaptureBatchImageBalance, CaptureRefused,
           RecordSettlementFailure, SetSettlementFailed, RecordReleaseFailed, WorkerAcks,
           Ack, WorkerRequeues, WorkerUnlocks, WorkerDies, ReleaseHold,
           ReleaseBatchImageBalance, ReleaseRefused
<1>18. ASSUME UNCHANGED status
      PROVE  Ended
    BY <1>18 DEF Refundable, Terminal
<1> QED
    BY <1>1, <1>2, <1>3, <1>4, <1>5, <1>6, <1>7, <1>8, <1>9, <1>10, <1>11, <1>12, <1>13,
       <1>14, <1>15, <1>16, <1>17, <1>18
       DEF Next, SubmitNext, UserNext, RecoveryNext, WorkerNext, Clients


\* The first state satisfies every part of the invariant.
LEMMA BatchInvInit == Init => BatchInv
<1> SUFFICES ASSUME Init PROVE BatchInv
    OBVIOUS
<1> USE BatchAssumption, LedgerAssumption, Apart DEF Init, LedgerInit
<1>1. TypeOK
    BY DEF TypeOK, LedgerTypeOK, Statuses, RemoteStates, Labels
<1>2. SubmitInv
    BY DEF SubmitInv, Unnamed, WithHold, Unsubmitted, Refundable, named
<1>3. ReleaseInv
    BY DEF ReleaseInv, Releasing
<1>4. SettleInv
    BY DEF SettleInv, Settled, Settling
<1>5. LockInv
    BY DEF LockInv, Critical, Settling, delayed, active
<1>6. EndInv
    BY DEF EndInv
<1>7. QueueInv /\ EarlyInv
    BY DEF QueueInv, EarlyInv, Processing, Refundable, inflight
<1>8. ChargedOnce
    BY DEF ChargedOnce
<1>9. OneEndPerHold
    BY DEF OneEndPerHold, Outstanding
<1>10. HoldComesBack
    BY DEF HoldComesBack, Outstanding
<1> QED
    BY <1>1, <1>2, <1>3, <1>4, <1>5, <1>6, <1>7, <1>8, <1>9, <1>10 DEF BatchInv

\* Every step keeps the invariant.
LEMMA BatchInvStep == BatchInv /\ [Next]_vars => BatchInv'
BY TypeOKStep, SubmitInvStep, ReleaseInvStep, SettleInvStep, LockInvStep, EndInvStep,
   QueueInvStep, EarlyInvStep, ChargedOnceStep, OneEndPerHoldStep, HoldComesBackStep
   DEF BatchInv

\* Submit, the user, the recovery and the workers keep the invariant, whoever
\* dies on the way and whatever calls fail.
THEOREM BatchInvHolds == Spec => []BatchInv
BY BatchInvInit, BatchInvStep, PTL DEF Spec

\* The user is charged for a job at most once, whatever is repeated: each of
\* the three requests is claimed in the transaction that applies it.
THEOREM ChargedOnceHolds == Spec => []ChargedOnce
<1>1. BatchInv => ChargedOnce
    BY DEF BatchInv
<1> QED
    BY <1>1, BatchInvHolds, PTL

\* The hold of a job is ended once, by its capture or by its release, as long
\* as no capture stands that was reported as failed and the lock holds.
THEOREM OneEndPerHoldHolds == Spec => []OneEndPerHold
<1>1. BatchInv => OneEndPerHold
    BY DEF BatchInv
<1> QED
    BY <1>1, BatchInvHolds, PTL

\* As long as the hold of a failed or cancelled job is frozen, somebody is left
\* to release it: a request, the recovery, or a worker by way of the queue.
THEOREM HoldComesBackHolds == Spec => []HoldComesBack
<1>1. BatchInv => HoldComesBack
    BY DEF BatchInv
<1> QED
    BY <1>1, BatchInvHolds, PTL

\* A job is completed if and only if it was paid for.
THEOREM CompletedPaidHolds == Spec => []CompletedPaid
<1>1. ASSUME BatchInv PROVE CompletedPaid
  <2>1. ASSUME status \in {"completed", "output_deleted"}
        PROVE  "capture" \in claims /\ cost \in 0 .. Hold
    <3>1. "capture" \in claims /\ cost \in Costs /\ cost <= Hold
        BY <1>1, <2>1 DEF BatchInv, SettleInv
    <3> QED
        BY <3>1, BatchAssumption, LedgerAssumption
  <2>2. Sound /\ "capture" \in claims => "release" \notin claims /\ status \in Settled
      BY <1>1 DEF BatchInv, EndInv
  <2> QED
      BY <2>1, <2>2 DEF CompletedPaid, Sound, Settled
<1> QED
    BY <1>1, BatchInvHolds, PTL

\* The queue does not lose a job that the provider works on, or that waits for
\* its settlement, unless it never got it or the job's lock expired.
THEOREM NeverLostHolds == Spec => []NeverLost
<1>1. BatchInv => NeverLost
    BY DEF BatchInv, NeverLost, QueueInv
<1> QED
    BY <1>1, BatchInvHolds, PTL

\* No late step of anybody revives a job that has ended.
THEOREM TerminalStaysHolds == Spec => TerminalStays
<1>1. BatchInv /\ [Next]_vars =>
        [/\ status \in Refundable => status' \in Refundable
         /\ status \in {"completed", "output_deleted"} =>
              status' \in {"completed", "output_deleted"}]_vars
    BY EndedStep DEF BatchInv
<1> QED
    BY <1>1, BatchInvHolds, PTL DEF Spec, TerminalStays

=============================================================================
