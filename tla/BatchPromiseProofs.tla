------------------------- MODULE BatchPromiseProofs -------------------------
(***************************************************************************)
(* BatchImage implements HoldPromise, for any number of workers, retries   *)
(* and failures, any cost and any hold.                                    *)
(***************************************************************************)
EXTENDS BatchImageProofs

-----------------------------------------------------------------------------
(* A job that is settled has a provider name.                              *)

\* No statement takes the name away.
LEMMA NameStays ==
    ASSUME TypeOK, [Next]_vars, named
    PROVE  named'
<1> USE DEF named
<1>1. ASSUME \/ CreateJob \/ ReserveHold \/ CreatePendingItems \/ StartUpload
             \/ ProviderSubmit \/ UpdateProviderSubmit \/ AbortOrphanProviderJob
             \/ EnqueueSubmitted \/ RecordFailed \/ HidePreUpstreamSubmitFailure \/ SubmitDies
             \/ RecordQueueFailed("submit")
      PROVE  named'
    BY <1>1
       DEF CreateJob, ReserveHold, CreatePendingItems, StartUpload, ProviderSubmit,
           UpdateProviderSubmit, AbortOrphanProviderJob, EnqueueSubmitted, RecordFailed,
           HidePreUpstreamSubmitFailure, SubmitDies, RecordQueueFailed, RecordSubmitFailure,
           Transition, SetProviderSubmit, MarkUserDeleted, row
<1>2. ASSUME \/ CancelReads \/ CancelAtProvider \/ CancelEnqueues \/ CancelTransition
             \/ ResubmitReads \/ ResubmitEnqueues \/ RecordQueueFailed("user") \/ DeleteRecord
             \/ FailStaleUnsubmitted
      PROVE  named'
    BY <1>2
       DEF CancelReads, CancelAtProvider, CancelEnqueues, CancelTransition, ResubmitReads,
           ResubmitEnqueues, RecordQueueFailed, RecordSubmitFailure, DeleteRecord,
           FailStaleUnsubmitted, Transition, MarkUserDeleted, row
<1>3. ASSUME NEW p, \/ EnqueueBillingRetry(p) \/ ClientDies(p)
                    \/ \E l, m, n : ReleaseHold(p, l, m, n)
      PROVE  named'
    BY <1>3 DEF EnqueueBillingRetry, ClientDies, ReleaseHold, row
<1>4. ASSUME NEW w \in Workers,
             \/ WorkerReserves(w) \/ WorkerLocks(w) \/ PipelineReads(w) \/ ProcessReads(w)
             \/ ProcessFails(w)
             \/ IndexResults(w) \/ SettleReads(w) \/ CaptureHold(w)
             \/ RecordSettlementFailure(w) \/ RecordReleaseFailed(w) \/ WorkerAcks(w)
             \/ WorkerRequeues(w) \/ WorkerUnlocks(w) \/ WorkerDies(w)
      PROVE  named'
    BY <1>4
       DEF WorkerReserves, WorkerLocks, PipelineReads, ProcessReads, ProcessFails, IndexResults,
           ReplaceItems, SettleReads, CaptureHold, RecordSettlementFailure,
           RecordReleaseFailed, SetSettlementFailed, WorkerAcks, WorkerRequeues,
           WorkerUnlocks, WorkerDies, row
<1>5. ASSUME NEW w \in Workers,
             \/ PollProvider(w) \/ FailIndex(w) \/ StartSettling(w) \/ FailExhausted(w)
             \/ MarkSettled(w)
      PROVE  named'
    BY <1>5
       DEF PollProvider, FailIndex, StartSettling, FailExhausted, MarkSettled,
           WorkerTransition, Transition, row
<1>6. ASSUME \/ MoveDueDelayedToReady \/ RecoverStaleActive \/ LockExpires
             \/ ProviderFinishes \/ OutputCleanup \/ UNCHANGED vars
      PROVE  named'
    BY <1>6
       DEF MoveDueDelayedToReady, RecoverStaleActive, LockExpires, ProviderFinishes,
           OutputCleanup, Transition, row, vars
<1> QED
    BY <1>1, <1>2, <1>3, <1>4, <1>5, <1>6
       DEF Next, SubmitNext, UserNext, RecoveryNext, WorkerNext

\* A worker begins to settle what it has found in "settling", which only a job
\* with a name can be.
LEMMA NamedInvStep ==
    ASSUME TypeOK, SubmitInv, NamedInv, [Next]_vars
    PROVE  NamedInv'
<1> DEFINE Unsettled == "capture" \notin claims' /\ \A w \in Workers : pc'[w] \notin Settling
<1> SUFFICES ASSUME ~named PROVE named' \/ Unsettled
    BY NameStays DEF NamedInv
<1> USE BatchAssumption, Apart
<1>a. "capture" \notin claims /\ \A w \in Workers : pc[w] \notin Settling
    BY DEF NamedInv
<1>b. status # "settling"
    BY DEF SubmitInv, Unsubmitted, Refundable
<1>c. ASSUME NEW w \in Workers, NEW l, pc' = [pc EXCEPT ![w] = l], l \notin Settling,
             "capture" \notin claims'
      PROVE  Unsettled
    BY <1>a, <1>c DEF TypeOK
<1>1. ASSUME "capture" \notin claims', \A w \in Workers : pc'[w] = pc[w]
      PROVE  Unsettled
    BY <1>1, <1>a
<1>2. ASSUME \/ CreateJob \/ ReserveHold \/ CreatePendingItems \/ StartUpload
             \/ ProviderSubmit \/ UpdateProviderSubmit \/ AbortOrphanProviderJob
             \/ EnqueueSubmitted \/ RecordFailed \/ HidePreUpstreamSubmitFailure \/ SubmitDies
             \/ RecordQueueFailed("submit") \/ EnqueueBillingRetry("submit")
      PROVE  "capture" \notin claims' /\ \A w \in Workers : pc'[w] = pc[w]
    BY <1>2, <1>a
       DEF CreateJob, ReserveHold, ReserveBatchImageBalance, CreatePendingItems, StartUpload,
           ProviderSubmit, UpdateProviderSubmit, AbortOrphanProviderJob, EnqueueSubmitted,
           RecordFailed, HidePreUpstreamSubmitFailure, SubmitDies, RecordQueueFailed,
           EnqueueBillingRetry, Goto, ledger, TypeOK
<1>3. ASSUME \/ CancelReads \/ CancelAtProvider \/ CancelEnqueues \/ CancelTransition
             \/ ResubmitReads \/ ResubmitEnqueues \/ RecordQueueFailed("user") \/ DeleteRecord
             \/ EnqueueBillingRetry("user") \/ ClientDies("user")
             \/ FailStaleUnsubmitted \/ EnqueueBillingRetry("recovery")
             \/ ClientDies("recovery")
      PROVE  "capture" \notin claims' /\ \A w \in Workers : pc'[w] = pc[w]
    BY <1>3, <1>a
       DEF CancelReads, CancelAtProvider, CancelEnqueues, CancelTransition, ResubmitReads,
           ResubmitEnqueues, RecordQueueFailed, DeleteRecord, EnqueueBillingRetry, ClientDies,
           FailStaleUnsubmitted, Goto, ledger, TypeOK
<1>4. ASSUME NEW p \in Clients, NEW l, NEW m, NEW n, ReleaseHold(p, l, m, n)
      PROVE  "capture" \notin claims' /\ \A w \in Workers : pc'[w] = pc[w]
    BY <1>4, <1>a
       DEF ReleaseHold, ReleaseBatchImageBalance, Goto, ledger, TypeOK, Clients
<1>5. ASSUME \/ MoveDueDelayedToReady \/ RecoverStaleActive \/ LockExpires
             \/ ProviderFinishes \/ OutputCleanup \/ UNCHANGED vars
      PROVE  "capture" \notin claims' /\ \A w \in Workers : pc'[w] = pc[w]
    BY <1>5, <1>a
       DEF MoveDueDelayedToReady, RecoverStaleActive, LockExpires, ProviderFinishes,
           OutputCleanup, ledger, vars
<1>6. ASSUME NEW w \in Workers,
             \/ WorkerReserves(w) \/ WorkerLocks(w) \/ PipelineReads(w)
             \/ IndexResults(w) \/ WorkerAcks(w) \/ WorkerRequeues(w) \/ WorkerUnlocks(w)
             \/ WorkerDies(w)
      PROVE  Unsettled
    BY <1>6, <1>a, <1>b, <1>c
       DEF WorkerReserves, WorkerLocks, PipelineReads, IndexResults, WorkerAcks,
           WorkerRequeues, WorkerUnlocks, WorkerDies, Goto, ledger, Settling
<1>7. ASSUME NEW w \in Workers, \/ PollProvider(w) \/ FailIndex(w) \/ StartSettling(w)
      PROVE  Unsettled
    BY <1>7, <1>a, <1>c
       DEF PollProvider, FailIndex, StartSettling, WorkerTransition, Goto, ledger, Settling
<1>8. ASSUME NEW w \in Workers, ProcessReads(w) \/ ProcessFails(w) PROVE Unsettled
    BY <1>8, <1>a, <1>c DEF ProcessReads, ProcessFails, Goto, ledger, Settling
<1>9. ASSUME NEW w \in Workers, ReleaseHold(w, "terminalRelease", "ack", "requeue")
      PROVE  Unsettled
    BY <1>9, <1>a, <1>c DEF ReleaseHold, ReleaseBatchImageBalance, Goto, ledger, Settling
<1>10. ASSUME NEW w \in Workers,
              \/ SettleReads(w) \/ CaptureHold(w) \/ RecordSettlementFailure(w)
              \/ FailExhausted(w) \/ RecordReleaseFailed(w) \/ MarkSettled(w)
              \/ ReleaseHold(w, "exhaust", "exhaustFail", "exhaustRecord")
       PROVE  FALSE
    BY <1>10, <1>a
       DEF SettleReads, CaptureHold, RecordSettlementFailure, FailExhausted,
           RecordReleaseFailed, MarkSettled, ReleaseHold, Settling
<1> QED
    BY <1>1, <1>2, <1>3, <1>4, <1>5, <1>6, <1>7, <1>8, <1>9, <1>10
       DEF Next, SubmitNext, UserNext, RecoveryNext, WorkerNext, Clients

-----------------------------------------------------------------------------
(* The refinement.                                                         *)

\* What the promise can see of the lapses.
Visible == {"captureUnknown", "overlap", "recoded", "releasedEarly"}

SameLapses == \A x \in Visible : x \in lapses' <=> x \in lapses

\* The phases of the statuses.
LEMMA PhaseOf ==
    /\ Phase("none") = "none"
    /\ Phase("created") = "accepted" /\ Phase("uploading") = "accepted"
    /\ Phase("submitted") = "running" /\ Phase("running") = "running"
    /\ Phase("indexing") = "running"
    /\ Phase("settling") = "settling"
    /\ Phase("completed") = "delivered" /\ Phase("output_deleted") = "delivered"
    /\ Phase("failed") = "refunded" /\ Phase("cancelled") = "refunded"
BY DEF Phase, Unsubmitted, Refundable

\* A hold that is settled was made.
LEMMA CapturedWasHeld ==
    ASSUME SubmitInv, NamedInv
    PROVE  "capture" \in claims => "hold" \in claims
BY DEF SubmitInv, NamedInv

\* Where no claim is made, only a lapse can change what is returned or excused.
LEMMA SameMarks ==
    ASSUME SameLapses, UNCHANGED claims
    PROVE  Sound' = Sound /\ Returned' = Returned
<1>1. Sound' <=> Sound
    BY DEF SameLapses, Visible, Sound, Intact
<1>2. Returned' <=> Returned
    BY DEF SameLapses, Visible, Returned
<1>3. Sound \in BOOLEAN /\ Sound' \in BOOLEAN
    BY DEF Sound, Intact
<1>4. Returned \in BOOLEAN /\ Returned' \in BOOLEAN
    BY DEF Returned
<1> QED
    BY <1>1, <1>2, <1>3, <1>4

\* Steps that keep the phase, the price and the ledger.
LEMMA Invisible ==
    ASSUME Phase(status') = Phase(status), UNCHANGED <<cost, ledger>>, SameLapses
    PROVE  UNCHANGED Promise!vars
<1>1. Sound' = Sound /\ Returned' = Returned
    BY SameMarks DEF ledger
<1> QED
    BY <1>1 DEF Promise!vars, Promise!money, ledger

\* Steps that only excuse.
LEMMA Excused ==
    ASSUME UNCHANGED <<status, cost, ledger>>, ~Sound',
           "releasedEarly" \in lapses' <=> "releasedEarly" \in lapses
    PROVE  Promise!Excuse
<1>1. Returned' = Returned
    BY DEF Returned, ledger
<1> QED
    BY <1>1 DEF Promise!Excuse, Promise!money, ledger

\* Steps that only change the phase.
LEMMA OnlyPhase ==
    ASSUME UNCHANGED <<cost, ledger>>, SameLapses
    PROVE  UNCHANGED <<cost, Promise!money, ~Sound>>
<1>1. Sound' = Sound /\ Returned' = Returned
    BY SameMarks DEF ledger
<1> QED
    BY <1>1 DEF Promise!money, ledger

\* A job that is given up.
LEMMA GivingUp ==
    ASSUME UNCHANGED <<cost, ledger>>, SameLapses, status' \in Refundable,
           \/ status \in {"created", "uploading", "submitted", "running", "indexing"}
           \/ status = "settling" /\ ~Sound
           \/ status = "settling" /\ Returned /\ "capture" \notin claims
    PROVE  Promise!Refund
BY PhaseOf, OnlyPhase DEF Promise!Refund, Refundable

\* A release of a hold that may be released.
LEMMA Releases ==
    ASSUME ReleaseBatchImageBalance, UNCHANGED <<status, cost, lapses>>, ReleaseInv,
           Sound => /\ "capture" \notin claims
                    /\ Phase(status) \in {"accepted", "settling", "refunded"}
    PROVE  Promise!Return \/ UNCHANGED Promise!vars
<1>a. SameLapses
    BY DEF SameLapses
<1>1. CASE UNCHANGED ledger
    BY <1>1, <1>a, Invisible
<1>2. CASE "release" \notin claims /\ "hold" \notin claims /\ UNCHANGED <<balance, frozen>>
           /\ claims' = claims \cup {"release"}
  <2>1. Returned' = Returned /\ Sound' = Sound
      BY <1>2 DEF Returned, Sound, Intact
  <2> QED
      BY <1>2, <2>1 DEF Promise!vars, Promise!money
<1>3. CASE /\ "release" \notin claims /\ "hold" \in claims
           /\ claims' = claims \cup {"release"}
           /\ balance' = balance + Hold /\ frozen' = frozen - Hold
  <2>1. "releasedEarly" \notin lapses
      BY <1>3 DEF ReleaseInv
  <2>2. Returned' /\ ~Returned /\ Sound' = Sound
      BY <1>3, <2>1 DEF Returned, Sound, Intact
  <2> QED
      BY <1>3, <2>2 DEF Promise!Return
<1> QED
    BY <1>1, <1>2, <1>3 DEF ReleaseBatchImageBalance

\* Every step of the code is a step of the promise, or invisible to it.
LEMMA Simulation ==
    ASSUME BatchInv, NamedInv, [Next]_vars
    PROVE  Promise!Next \/ UNCHANGED Promise!vars
<1> DEFINE Good == Promise!Next \/ UNCHANGED Promise!vars
<1> USE BatchAssumption, LedgerAssumption, Apart
<1>a. /\ TypeOK /\ SubmitInv /\ ReleaseInv /\ SettleInv /\ LockInv /\ EndInv
      /\ "capture" \in claims => "hold" \in claims
    BY CapturedWasHeld DEF BatchInv
<1>b. ASSUME Phase(status') = Phase(status), UNCHANGED <<cost, ledger>>, SameLapses
      PROVE  Good
    BY <1>b, Invisible
<1>c. ASSUME NEW x, x \notin Visible, lapses' = lapses \/ lapses' = lapses \cup {x}
      PROVE  SameLapses
    BY <1>c DEF SameLapses, Visible
<1>1. ASSUME CreateJob PROVE Good
  <2>1. status = "none" /\ status' = "created" /\ UNCHANGED <<cost, ledger, lapses>>
      BY <1>1, <1>a DEF CreateJob, SubmitInv
  <2>2. Promise!Accept
      BY <2>1, <1>c, PhaseOf, OnlyPhase DEF Promise!Accept, SameLapses
  <2> QED
      BY <2>2 DEF Promise!Next
<1>2. ASSUME ReserveHold PROVE Good
  <2>1. "hold" \notin claims /\ "capture" \notin claims /\ UNCHANGED <<status, cost>>
      BY <1>2, <1>a DEF ReserveHold, SubmitInv, row
  <2>2. CASE UNCHANGED <<ledger, lapses>>
      BY <1>b, <2>1, <2>2 DEF SameLapses
  <2>3. CASE ReserveBatchImageBalance
    <3>1. /\ balance >= Hold /\ claims' = claims \cup {"hold"}
          /\ balance' = balance - Hold /\ frozen' = frozen + Hold
        BY <2>1, <2>3 DEF ReserveBatchImageBalance
    <3>2. /\ "release" \in claims => "releasedEarly" \in lapses'
          /\ \A x \in Visible \ {"releasedEarly"} : x \in lapses' <=> x \in lapses
        BY <1>2, <2>1, <3>1, <2>3 DEF ReserveHold, Visible, ledger, ReserveRefused
    <3>3. ~Returned /\ Returned' = Returned /\ Sound' = Sound
      <4>1. ~Returned /\ Returned' = Returned
          BY <2>1, <3>1, <3>2 DEF Returned
      <4>2. Sound' <=> Sound
          BY <3>2 DEF Sound, Intact, Visible
      <4> QED
          BY <4>1, <4>2 DEF Sound, Intact
    <3>4. Phase(status) \in {"accepted", "refunded"}
      <4>1. status \in Unsubmitted \cup Refundable
          BY <1>2, <1>a DEF ReserveHold, SubmitInv, Unnamed
      <4> QED
          BY <4>1, PhaseOf DEF Unsubmitted, Refundable
    <3>5. Promise!Freeze
        BY <2>1, <3>1, <3>3, <3>4 DEF Promise!Freeze
    <3> QED
        BY <3>5 DEF Promise!Next
  <2> QED
      BY <1>2, <2>2, <2>3 DEF ReserveHold
<1>3. ASSUME StartUpload PROVE Good
  <2>1. /\ UNCHANGED <<cost, ledger, lapses>>
        /\ status' = status \/ (status = "created" /\ status' = "uploading")
      BY <1>3, <1>a
         DEF StartUpload, Transition, CanTransition, row, TypeOK, Refundable, Terminal
  <2> QED
      BY <1>b, <2>1, PhaseOf DEF SameLapses
<1>4. ASSUME UpdateProviderSubmit PROVE Good
  <2>1. UNCHANGED <<cost, ledger>> /\ (lapses' = lapses \/ lapses' = lapses \cup {"unqueued"})
      BY <1>4 DEF UpdateProviderSubmit, SetProviderSubmit, row, Lapse
  <2>2. SameLapses
      BY <2>1, <1>c DEF Visible
  <2>3. CASE status' = status
      BY <1>b, <2>1, <2>2, <2>3
  <2>4. CASE status' # status
    <3>1. status \in {"created", "uploading"} /\ status' = "submitted"
        BY <1>4, <2>4 DEF UpdateProviderSubmit, SetProviderSubmit, CanTransition, row,
                          Refundable, Terminal
    <3>2. "hold" \in claims /\ ~Returned
        BY <1>4, <1>a, <3>1
           DEF UpdateProviderSubmit, SubmitInv, WithHold, ReleaseInv, Unsubmitted, GivenUp,
               Returned
    <3>3. Promise!Run
        BY <2>1, <2>2, <3>1, <3>2, PhaseOf, OnlyPhase DEF Promise!Run
    <3> QED
        BY <3>3 DEF Promise!Next
  <2> QED
      BY <2>3, <2>4
<1>5. ASSUME RecordFailed PROVE Good
  <2>1. /\ UNCHANGED <<cost, ledger, lapses>>
        /\ status' = status \/ status' = "failed"
        /\ status \in Unsubmitted \cup Refundable
      BY <1>5, <1>a DEF RecordFailed, RecordSubmitFailure, row, SubmitInv, Unnamed
  <2>2. SameLapses
      BY <2>1 DEF SameLapses
  <2>3. CASE status \in Refundable \/ status' = status
      BY <1>b, <2>1, <2>2, <2>3, PhaseOf DEF Refundable
  <2>4. CASE status \in Unsubmitted /\ status' = "failed"
    <3>1. Promise!Refund
        BY <2>1, <2>2, <2>4, GivingUp DEF Unsubmitted, Refundable
    <3> QED
        BY <3>1 DEF Promise!Next
  <2> QED
      BY <2>1, <2>3, <2>4
<1>6. ASSUME NEW p \in {"submit", "user"}, RecordQueueFailed(p) PROVE Good
  <2>1. UNCHANGED <<status, cost, ledger>>
      BY <1>6 DEF RecordQueueFailed, RecordSubmitFailure, row
  <2>2. CASE lapses' = lapses
      BY <1>b, <2>1, <2>2 DEF SameLapses
  <2>3. CASE lapses' = lapses \cup {"recoded"}
    <3>1. Promise!Excuse
        BY <2>1, <2>3, Excused DEF Sound, Intact
    <3> QED
        BY <3>1 DEF Promise!Next
  <2> QED
      BY <1>6, <2>2, <2>3 DEF RecordQueueFailed
<1>7. ASSUME CancelTransition \/ FailStaleUnsubmitted PROVE Good
  <2>1. /\ UNCHANGED <<cost, ledger>>
        /\ lapses' = lapses \/ lapses' = lapses \cup {"stranded"}
        /\ \/ status' = status
           \/ /\ status \in {"created", "uploading", "submitted", "running"}
              /\ status' \in Refundable
      BY <1>7 DEF CancelTransition, FailStaleUnsubmitted, Transition, CanTransition, row,
                  Lapse, Refundable, Terminal, Unsubmitted
  <2>2. SameLapses
      BY <2>1, <1>c DEF Visible
  <2>3. CASE status' = status
      BY <1>b, <2>1, <2>2, <2>3
  <2>4. CASE status' # status
    <3>1. Promise!Refund
        BY <2>1, <2>2, <2>4, GivingUp
    <3> QED
        BY <3>1 DEF Promise!Next
  <2> QED
      BY <2>3, <2>4
<1>8. ASSUME NEW w \in Workers, PollProvider(w) \/ FailIndex(w) PROVE Good
  <2>1. /\ UNCHANGED <<cost, ledger, lapses>>
        /\ \/ status' = status
           \/ /\ status \in {"submitted", "running"} /\ status' \in {"running", "indexing"}
           \/ /\ status \in Unsubmitted \cup Processing
              /\ status' \in Refundable
      BY <1>8, <1>a DEF PollProvider, FailIndex, WorkerTransition, Transition, CanTransition,
                  row, TypeOK, Statuses, Refundable, Terminal, Unsubmitted, Processing
  <2>2. SameLapses
      BY <2>1 DEF SameLapses
  <2>3. CASE status' = status
      BY <1>b, <2>1, <2>2, <2>3
  <2>4. CASE status \in {"submitted", "running"} /\ status' \in {"running", "indexing"}
      BY <1>b, <2>1, <2>2, <2>4, PhaseOf
  <2>5. CASE status \in Unsubmitted \cup Processing /\ status' \in Refundable
    <3>1. status = "settling" => ~Sound
        BY <1>8, <1>a DEF PollProvider, FailIndex, LockInv, Settled, Sound, Intact
    <3>2. Promise!Refund
        BY <2>1, <2>2, <2>5, <3>1, GivingUp DEF Unsubmitted, Processing
    <3> QED
        BY <3>2 DEF Promise!Next
  <2> QED
      BY <2>1, <2>3, <2>4, <2>5
<1>9. ASSUME NEW w \in Workers, IndexResults(w) PROVE Good
  <2>1. /\ UNCHANGED <<status, ledger, lapses>>
        /\ cost' = cost \/ (status = "indexing" /\ cost' \in Costs)
      BY <1>9 DEF IndexResults, ReplaceItems, row
  <2>2. SameLapses
      BY <2>1 DEF SameLapses
  <2>3. CASE cost' = cost
      BY <1>b, <2>1, <2>2, <2>3
  <2>4. CASE status = "indexing" /\ cost' \in Costs
    <3>1. "capture" \notin claims
        BY <1>a, <2>4 DEF SettleInv, Settled
    <3>2. UNCHANGED <<Promise!money, ~Sound>>
      <4>1. Sound' = Sound /\ Returned' = Returned
          BY <2>1, <2>2, SameMarks DEF ledger
      <4> QED
          BY <2>1, <4>1 DEF Promise!money, ledger
    <3>3. Promise!Price
        BY <2>1, <2>4, <3>1, <3>2, PhaseOf DEF Promise!Price
    <3> QED
        BY <3>3 DEF Promise!Next
  <2> QED
      BY <2>1, <2>3, <2>4
<1>10. ASSUME NEW w \in Workers, StartSettling(w) PROVE Good
  <2>1. /\ UNCHANGED <<cost, ledger, lapses>>
        /\ status' = status \/ (status = "indexing" /\ status' = "settling")
      BY <1>10, <1>a DEF StartSettling, WorkerTransition, Transition, CanTransition, row,
                         Refundable, Terminal
  <2>2. SameLapses
      BY <2>1 DEF SameLapses
  <2>3. CASE status' = status
      BY <1>b, <2>1, <2>2, <2>3
  <2>4. CASE status = "indexing" /\ status' = "settling"
    <3>1. cost \in Costs
        BY <1>10, <1>a DEF StartSettling, SettleInv
    <3>2. Returned => ~Sound
        BY <1>a, <2>4 DEF ReleaseInv, Returned, Processing
    <3>3. Promise!Settle
        BY <2>1, <2>2, <2>4, <3>1, <3>2, PhaseOf, OnlyPhase DEF Promise!Settle
    <3> QED
        BY <3>3 DEF Promise!Next
  <2> QED
      BY <2>1, <2>3, <2>4
<1>11. ASSUME NEW w \in Workers, CaptureHold(w) PROVE Good
  <2>1. UNCHANGED <<status, cost>> /\ cost \in Costs /\ cost <= Hold /\ "hold" \in claims
      BY <1>11, <1>a DEF CaptureHold, row, SettleInv, NamedInv, SubmitInv, Settling
  <2>2. /\ lapses' = lapses \/ lapses' = lapses \cup {"captureUnknown"}
        /\ "releasedEarly" \in lapses' <=> "releasedEarly" \in lapses
        /\ ~Sound => ~Sound'
      BY <1>11 DEF CaptureHold, Sound, Intact
  <2>3. CASE UNCHANGED ledger
    <3>1. CASE lapses' = lapses
        BY <1>b, <2>1, <2>3, <3>1 DEF SameLapses
    <3>2. CASE lapses' = lapses \cup {"captureUnknown"}
      <4>1. Promise!Excuse
          BY <2>1, <2>2, <2>3, <3>2, Excused DEF Sound, Intact
      <4> QED
          BY <4>1 DEF Promise!Next
    <3> QED
        BY <2>2, <3>1, <3>2
  <2>4. CASE CaptureBatchImageBalance(cost) /\ "capture" \notin claims
    <3>1. /\ claims' = claims \cup {"capture"}
          /\ balance' = balance + (Hold - cost) /\ frozen' = frozen - Hold
        BY <2>4 DEF CaptureBatchImageBalance
    <3>2. Sound => status = "settling" /\ ~Returned
      <4>1. Sound => status = "settling" /\ ~Exhausted
          BY <1>11, <1>a DEF CaptureHold, LockInv, EndInv, Settling, Sound, Intact
      <4> QED
          BY <4>1, <1>a DEF ReleaseInv, Returned, Processing
    <3>3. Returned' = Returned
        BY <2>2, <3>1 DEF Returned
    <3>4. Promise!Charge
        BY <2>1, <2>2, <2>4, <3>1, <3>2, <3>3, PhaseOf DEF Promise!Charge
    <3> QED
        BY <3>4 DEF Promise!Next
  <2>5. CASE CaptureBatchImageBalance(cost) /\ "capture" \in claims
      BY <2>3, <2>5 DEF CaptureBatchImageBalance
  <2> QED
      BY <1>11, <2>3, <2>4, <2>5 DEF CaptureHold
<1>12. ASSUME NEW w \in Workers, FailExhausted(w) PROVE Good
  <2>1. /\ UNCHANGED <<cost, ledger, lapses>>
        /\ status' = status \/ (status = "settling" /\ status' = "failed")
      BY <1>12, <1>a DEF FailExhausted, WorkerTransition, Transition, CanTransition, row,
                         SettleInv, Settling, Settled, Refundable, Terminal
  <2>2. SameLapses
      BY <2>1 DEF SameLapses
  <2>3. CASE status' = status
      BY <1>b, <2>1, <2>2, <2>3
  <2>4. CASE status = "settling" /\ status' = "failed"
    <3>1. Returned
        BY <1>12, <1>a, <2>4
           DEF FailExhausted, SettleInv, NamedInv, SubmitInv, ReleaseInv, Settling, Refundable,
               Returned
    <3>2. "capture" \in claims => ~Sound
        BY <1>12, <1>a DEF FailExhausted, EndInv
    <3>3. Promise!Refund
        BY <2>1, <2>2, <2>4, <3>1, <3>2, GivingUp DEF Refundable
    <3> QED
        BY <3>3 DEF Promise!Next
  <2> QED
      BY <2>1, <2>3, <2>4
<1>13. ASSUME NEW w \in Workers, MarkSettled(w) PROVE Good
  <2>1. /\ UNCHANGED <<cost, ledger, lapses>>
        /\ status' = status \/ (status = "settling" /\ status' = "completed")
      BY <1>13, <1>a DEF MarkSettled, WorkerTransition, Transition, CanTransition, row,
                         Refundable, Terminal
  <2>2. SameLapses
      BY <2>1 DEF SameLapses
  <2>3. CASE status' = status
      BY <1>b, <2>1, <2>2, <2>3
  <2>4. CASE status = "settling" /\ status' = "completed"
    <3>1. "capture" \in claims /\ (Returned => ~Sound)
        BY <1>13, <1>a DEF MarkSettled, SettleInv, EndInv, Returned
    <3>2. Promise!Deliver
        BY <2>1, <2>2, <2>4, <3>1, PhaseOf, OnlyPhase DEF Promise!Deliver
    <3> QED
        BY <3>2 DEF Promise!Next
  <2> QED
      BY <2>1, <2>3, <2>4
<1>14. ASSUME NEW p, NEW l, NEW m, NEW n, ReleaseHold(p, l, m, n),
              Sound => /\ "capture" \notin claims
                       /\ Phase(status) \in {"accepted", "settling", "refunded"}
       PROVE  Good
  <2>1. /\ UNCHANGED <<status, cost, lapses>>
        /\ ReleaseBatchImageBalance \/ UNCHANGED ledger
      BY <1>14 DEF ReleaseHold, row
  <2>2. CASE UNCHANGED ledger
      BY <1>b, <2>1, <2>2 DEF SameLapses
  <2>3. CASE ReleaseBatchImageBalance
      BY <1>14, <1>a, <2>1, <2>3, Releases DEF Promise!Next
  <2> QED
      BY <2>1, <2>2, <2>3
<1>15. ASSUME \/ ReleaseHold("submit", "release", "recordFailed", "recordUnreleased")
              \/ ReleaseHold("submit", "releaseReturn", "done", "recordUnreleased")
       PROVE  Good
  <2>1. ~named /\ status \in Unsubmitted \cup Refundable
      BY <1>15, <1>a DEF ReleaseHold, SubmitInv, Unnamed
  <2>2. "capture" \notin claims
      BY <2>1 DEF NamedInv
  <2>3. Phase(status) \in {"accepted", "refunded"}
      BY <2>1, PhaseOf DEF Unsubmitted, Refundable
  <2> QED
      BY <1>14, <1>15, <2>2, <2>3
<1>16. ASSUME NEW p \in {"user", "recovery"}, ReleaseHold(p, "release", "idle", "retry")
       PROVE  Good
  <2>1. status \in Refundable
      BY <1>16, <1>a DEF ReleaseHold, ReleaseInv, Releasing
  <2>2. Sound => "capture" \notin claims
      BY <1>a, <2>1 DEF EndInv, Settled, Refundable
  <2>3. Phase(status) = "refunded"
      BY <2>1, PhaseOf DEF Refundable
  <2> QED
      BY <1>14, <1>16, <2>2, <2>3
<1>17. ASSUME NEW w \in Workers, ReleaseHold(w, "terminalRelease", "ack", "requeue")
       PROVE  Good
  <2>1. status \in Refundable
      BY <1>17, <1>a DEF ReleaseHold, ReleaseInv
  <2>2. Sound => "capture" \notin claims
      BY <1>a, <2>1 DEF EndInv, Settled, Refundable
  <2>3. Phase(status) = "refunded"
      BY <2>1, PhaseOf DEF Refundable
  <2> QED
      BY <1>14, <1>17, <2>2, <2>3
<1>18. ASSUME NEW w \in Workers, ReleaseHold(w, "exhaust", "exhaustFail", "exhaustRecord")
       PROVE  Good
  <2>1. Sound => "capture" \notin claims /\ status = "settling"
      BY <1>18, <1>a DEF ReleaseHold, EndInv, LockInv, Settling, Sound, Intact
  <2> QED
      BY <1>14, <1>18, <2>1, PhaseOf
<1>19. ASSUME OutputCleanup PROVE Good
  <2>1. /\ UNCHANGED <<cost, ledger, lapses>>
        /\ status = "completed" /\ status' = "output_deleted"
      BY <1>19 DEF OutputCleanup, Transition
  <2> QED
      BY <1>b, <2>1, PhaseOf DEF SameLapses
<1>20. ASSUME LockExpires PROVE Good
  <2>1. /\ UNCHANGED <<status, cost, ledger>>
        /\ lapses' = lapses \/ lapses' = lapses \cup {"overlap"}
      BY <1>20 DEF LockExpires, Lapse, row
  <2>2. CASE lapses' = lapses
      BY <1>b, <2>1, <2>2 DEF SameLapses
  <2>3. CASE lapses' = lapses \cup {"overlap"}
    <3>1. Promise!Excuse
        BY <2>1, <2>3, Excused DEF Sound, Intact
    <3> QED
        BY <3>1 DEF Promise!Next
  <2> QED
      BY <2>1, <2>2, <2>3
<1>21. ASSUME UNCHANGED <<status, cost, ledger>>,
              \A x \in lapses' : x \in lapses \/ x \in {"stranded", "unqueued"},
              lapses \subseteq lapses'
       PROVE  Good
  <2>1. SameLapses
      BY <1>21 DEF SameLapses, Visible
  <2> QED
      BY <1>b, <1>21, <2>1
<1>22. ASSUME \/ CreatePendingItems \/ ProviderSubmit \/ AbortOrphanProviderJob
              \/ EnqueueSubmitted \/ HidePreUpstreamSubmitFailure \/ SubmitDies
              \/ CancelReads \/ CancelAtProvider \/ CancelEnqueues \/ ResubmitReads
              \/ ResubmitEnqueues \/ DeleteRecord \/ MoveDueDelayedToReady
              \/ RecoverStaleActive \/ ProviderFinishes \/ UNCHANGED vars
       PROVE  Good
    BY <1>21, <1>22
       DEF CreatePendingItems, ProviderSubmit, AbortOrphanProviderJob, EnqueueSubmitted,
           HidePreUpstreamSubmitFailure, MarkUserDeleted, SubmitDies, CancelReads,
           CancelAtProvider, CancelEnqueues, ResubmitReads, ResubmitEnqueues, DeleteRecord,
           MoveDueDelayedToReady, RecoverStaleActive, ProviderFinishes, Lapse, row, vars
<1>23. ASSUME NEW p \in Clients, EnqueueBillingRetry(p) \/ ClientDies(p)
       PROVE  Good
    BY <1>21, <1>23 DEF EnqueueBillingRetry, ClientDies, Lapse, row
<1>24. ASSUME NEW w \in Workers,
              \/ WorkerReserves(w) \/ WorkerLocks(w) \/ PipelineReads(w) \/ ProcessReads(w)
              \/ ProcessFails(w)
              \/ SettleReads(w) \/ RecordSettlementFailure(w) \/ RecordReleaseFailed(w)
              \/ WorkerAcks(w) \/ WorkerRequeues(w) \/ WorkerUnlocks(w) \/ WorkerDies(w)
       PROVE  Good
    BY <1>21, <1>24
       DEF WorkerReserves, WorkerLocks, PipelineReads, ProcessReads, ProcessFails, SettleReads,
           RecordSettlementFailure, RecordReleaseFailed, SetSettlementFailed, WorkerAcks,
           WorkerRequeues, WorkerUnlocks, WorkerDies, row
<1> QED
    BY <1>1, <1>2, <1>3, <1>4, <1>5, <1>6, <1>7, <1>8, <1>9, <1>10, <1>11, <1>12, <1>13,
       <1>15, <1>16, <1>17, <1>18, <1>19, <1>20, <1>22, <1>23, <1>24
       DEF Next, SubmitNext, UserNext, RecoveryNext, WorkerNext, Clients

\* The first states are first states of the promise.
LEMMA PromiseInit == Init => Promise!Init
<1> SUFFICES ASSUME Init PROVE Promise!Init
    OBVIOUS
<1>1. Phase(status) = "none" /\ cost = NoCost
    BY PhaseOf DEF Init
<1>2. balance \in Funds /\ frozen = OtherHolds
    BY DEF Init, LedgerInit
<1>3. ("hold" \in claims) = FALSE /\ ("capture" \in claims) = FALSE /\ Returned = FALSE
    BY DEF Init, LedgerInit, Returned
<1>4. (~Sound) = FALSE
    BY DEF Init, Sound, Intact
<1> QED
    BY <1>1, <1>2, <1>3, <1>4 DEF Promise!Init

\* A job that is settled, or that a worker settles, was submitted and has a hold.
LEMMA NamedInvHolds == Spec => []NamedInv
<1>1. Init => NamedInv
    BY BatchAssumption, Apart DEF Init, LedgerInit, NamedInv, Settling
<1>2. BatchInv /\ NamedInv /\ [Next]_vars => NamedInv'
    BY NamedInvStep DEF BatchInv
<1> QED
    BY <1>1, <1>2, BatchInvHolds, PTL DEF Spec

\* Transaction by transaction, submission, settlement, cancellation and recovery
\* keep what the user is promised: the hold is made once, charged or returned once,
\* and each in the phase of the job where it is due.
THEOREM Refinement == Spec => KeepsPromise
<1>1. BatchInv /\ NamedInv /\ [Next]_vars => [Promise!Next]_(Promise!vars)
    BY Simulation
<1> QED
    BY <1>1, PromiseInit, BatchInvHolds, NamedInvHolds, PTL
       DEF Spec, KeepsPromise, Promise!Spec

-----------------------------------------------------------------------------
(* What can be lost when the promise is excused.                           *)

Once(done) == IF done THEN Hold ELSE 0

\* What is frozen is what the claims say, whichever of them were applied.
FrozenIs ==
    frozen = OtherHolds + Once("hold" \in claims) - Once("capture" \in claims)
             - Once(Returned)

\* It follows from the promise alone.
LEMMA FrozenStep ==
    ASSUME FrozenIs, frozen \in Int, Promise!Next \/ UNCHANGED Promise!vars
    PROVE  FrozenIs'
<1> USE LedgerAssumption DEF FrozenIs, Once
<1>1. CASE Promise!Freeze
    BY <1>1 DEF Promise!Freeze
<1>2. CASE Promise!Charge
    BY <1>2 DEF Promise!Charge
<1>3. CASE Promise!Return
    BY <1>3 DEF Promise!Return
<1>4. CASE UNCHANGED Promise!money
    BY <1>4 DEF Promise!money
<1> QED
    BY <1>1, <1>2, <1>3, <1>4
       DEF Promise!Next, Promise!vars, Promise!Accept, Promise!Run, Promise!Price,
           Promise!Settle, Promise!Deliver, Promise!Refund, Promise!Excuse

\* Whatever fails, expires or is overwritten, one job costs the user's other jobs
\* at most one hold, and only if it was both captured and released.
THEOREM DamageBounded == Spec => []AtWorstOneHold
<1>1. Init => FrozenIs
    BY LedgerAssumption DEF Init, LedgerInit, FrozenIs, Once, Returned
<1>2. BatchInv /\ NamedInv /\ FrozenIs /\ [Next]_vars => FrozenIs'
    BY Simulation, FrozenStep DEF BatchInv, TypeOK, LedgerTypeOK
<1>3. ASSUME BatchInv, NamedInv, FrozenIs PROVE AtWorstOneHold
  <2>1. /\ "capture" \in claims => "hold" \in claims /\ cost \in Nat
        /\ Returned => {"hold", "release"} \subseteq claims
      BY <1>3, CapturedWasHeld, BatchAssumption DEF BatchInv, SettleInv, Returned
  <2>2. balance \in Int /\ frozen \in Int /\ funds \in Int
      BY <1>3 DEF BatchInv, TypeOK, LedgerTypeOK
  <2>3. /\ frozen >= OtherHolds - Hold
        /\ frozen < OtherHolds => {"capture", "release"} \subseteq claims
      BY <1>3, <2>1, <2>2, LedgerAssumption DEF FrozenIs, Once
  <2>4. balance <= funds + Hold
      BY <1>3, <2>1, <2>2, <2>3, LedgerAssumption DEF BatchInv, ChargedOnce
  <2> QED
      BY <2>3, <2>4 DEF AtWorstOneHold
<1> QED
    BY <1>1, <1>2, <1>3, BatchInvHolds, NamedInvHolds, PTL DEF Spec

=============================================================================
