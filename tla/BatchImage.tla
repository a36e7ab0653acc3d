----------------------------- MODULE BatchImage -----------------------------
(***************************************************************************)
(* The life of one batch image job: its submission, the queue and the      *)
(* workers that carry it to its end, its settlement, and the hold on the   *)
(* user's balance that has to be captured or released.                     *)
(* Source: backend/internal/service/batch_image_public.go,                 *)
(* batch_image_processor.go, batch_image_settlement.go,                    *)
(* batch_image_worker.go, batch_image_billing_recovery.go, batch_image.go, *)
(* backend/internal/repository/batch_image_repo.go, batch_image_queue.go   *)
(* and, through UsageLedger, usage_billing_repo.go.                        *)
(*                                                                         *)
(* A step is one transaction, Redis script or call of the provider.  Where *)
(* the code reads and then branches, the read is the step and the branch   *)
(* is the label it goes to: what was read may be stale at the next step.   *)
(* A call may fail before its effect or after it, and a process may die    *)
(* between any two calls; both use up faults.  An expired request context  *)
(* fails every later call of Submit, which is the same as its death.       *)
(***************************************************************************)
EXTENDS UsageLedger

CONSTANTS
    Workers,
    NoWorker,
    Costs,       \* what a job may cost: success_count times the unit price
    MaxRetries,  \* batchImageSettlementMaxRetries
    MaxFaults    \* bound on failed calls, lost answers, deaths and late heartbeats

Clients == {"submit", "user", "recovery"}
Procs   == Clients \cup Workers
NoCost  == -1

ASSUME BatchAssumption ==
    /\ IsFiniteSet(Workers) /\ Workers \cap Clients = {} /\ NoWorker \notin Workers
    /\ Costs \subseteq Nat /\ Costs # {}
    /\ MaxRetries \in Nat \ {0}
    /\ MaxFaults \in Nat

VARIABLES
    status,    \* batch_image_jobs.status, "none" before the row exists
    columns,   \* optional columns that are set, see Columns
    cost,      \* the cost that the indexed results amount to
    retries,   \* retry_count
    remote,    \* the provider's job
    ready,     \* entries of the job in the ready list
    keys,      \* Redis structures that the job is in, see Keys
    lock,      \* the worker whose token the job's lock holds
    pc,        \* next step of each process
    faults,    \* failures still allowed
    lapses     \* history: see Lapses

row     == <<status, columns, cost, retries>>
queue   == <<ready, keys>>
vars    == <<ledger, row, remote, queue, lock, pc, faults, lapses>>

\* provider_job_name, user_deleted_at, and a last_error_code of the settlement's.
Columns   == {"name", "deleted", "settleErr"}
named     == "name" \in columns
hidden    == "deleted" \in columns
settleErr == "settleErr" \in columns

\* The delayed set, the active set, and the key that keeps a job from being
\* enqueued again.
Keys     == {"delayed", "active", "inflight"}
delayed  == "delayed" \in keys
active   == "active" \in keys
inflight == "inflight" \in keys

Unsubmitted == {"created", "uploading"}
Processing  == {"submitted", "running", "indexing", "settling"}
Refundable  == {"failed", "cancelled"}
Terminal    == Refundable \cup {"completed", "output_deleted"}
Statuses    == {"none"} \cup Unsubmitted \cup Processing \cup Terminal
RemoteStates == {"absent", "running", "succeeded", "failed", "cancelled"}

\* Where a worker is between Settle's read of the job and its last update, and
\* where it is as long as it has the job's lock.
Settling == {"settle", "capture", "settleFail", "exhaust", "exhaustFail", "exhaustRecord",
             "mark"}
Critical == {"pipeline", "process", "poll", "index", "failIndex", "toSettling",
             "terminalRelease", "ack", "requeue", "unlock"} \cup Settling

Labels == Critical \cup
    {"create", "hold", "items", "upload", "provider", "update", "abort", "enqueue",
     "queueFailed", "release", "releaseReturn", "recordFailed", "hide", "recordUnreleased",
     "retry", "done", "dead", "idle", "resubmit", "transition", "reserved"}

\* What went wrong, where the code has no second line of defence:
\*   holdUnknown    the hold was reserved, but Submit was told that it failed
\*   releasedEarly  the release was claimed before the hold was reserved
\*   captureUnknown the capture stands, but Settle was told that it failed
\*   overlap        the job's lock expired under a worker
\*   stranded       the job was failed or cancelled and its release was given up
\*   unqueued       the job was submitted to the provider and never enqueued
\*   recoded        QUEUE_FAILED replaced the error code of a settlement
Lapses == {"holdUnknown", "releasedEarly", "captureUnknown", "overlap", "stranded",
           "unqueued", "recoded"}

TypeOK ==
    /\ LedgerTypeOK
    /\ status \in Statuses
    /\ columns \subseteq Columns
    /\ cost \in Costs \cup {NoCost}
    /\ retries \in Nat
    /\ remote \in RemoteStates
    /\ ready \in Nat
    /\ keys \subseteq Keys
    /\ lock \in Workers \cup {NoWorker}
    /\ pc \in [Procs -> Labels]
    /\ faults \in Nat
    /\ lapses \subseteq Lapses

Init ==
    /\ LedgerInit
    /\ status = "none" /\ columns = {} /\ cost = NoCost /\ retries = 0
    /\ remote = "absent"
    /\ ready = 0 /\ keys = {}
    /\ lock = NoWorker
    /\ pc = [p \in Procs |-> IF p = "submit" THEN "create" ELSE "idle"]
    /\ faults = MaxFaults
    /\ lapses = {}

Goto(p, label) == pc' = [pc EXCEPT ![p] = label]

Fault ==
    /\ faults > 0
    /\ faults' = faults - 1

Lapse(name) == lapses' = lapses \cup {name}

-----------------------------------------------------------------------------
(* Statements on the job's row.                                            *)

CanTransition(from, to) ==
    \/ from \in Refundable \cup {"completed"} /\ to = "output_deleted"
    \/ from \notin Terminal \cup {"none"} /\ to = "failed"
    \/ <<from, to>> \in {<<"created", "uploading">>, <<"created", "submitted">>,
                         <<"created", "cancelled">>, <<"uploading", "submitted">>,
                         <<"uploading", "cancelled">>, <<"submitted", "running">>,
                         <<"submitted", "indexing">>, <<"submitted", "cancelled">>,
                         <<"running", "running">>, <<"running", "indexing">>,
                         <<"running", "cancelled">>, <<"indexing", "settling">>,
                         <<"settling", "completed">>}

\* SELECT ... FOR UPDATE, the check and the UPDATE are one transaction.  The
\* codes that go with a failure are none of the settlement's, except the one
\* that ends it, which nothing reads.
Transition(to) ==
    /\ CanTransition(status, to)
    /\ status' = to
    /\ columns' = IF to = "failed" THEN columns \ {"settleErr"} ELSE columns
    /\ UNCHANGED <<cost, retries>>

\* RecordBatchImageJobSubmitFailure: no condition on the status.
RecordSubmitFailure(markFailed) ==
    /\ status' = IF markFailed THEN "failed" ELSE status
    /\ columns' = columns \ {"settleErr"}
    /\ UNCHANGED <<cost, retries>>

SetSettlementFailed ==
    /\ retries' = retries + 1
    /\ columns' = columns \cup {"settleErr"}
    /\ UNCHANGED <<status, cost>>

MarkUserDeleted ==
    /\ status \in Terminal /\ ~hidden
    /\ columns' = columns \cup {"deleted"}
    /\ UNCHANGED <<status, cost, retries>>

-----------------------------------------------------------------------------
(* The queue's scripts.                                                    *)

Enqueue ==
    \/ inflight /\ UNCHANGED queue
    \/ /\ ~inflight
       /\ keys' = keys \cup {"inflight"}
       /\ ready' = ready + 1

\* Mutation: the entry is popped and not yet in the active set.
ReserveTwoSteps ==
    /\ ready > 0
    /\ ready' = ready - 1
    /\ UNCHANGED keys

Reserve ==
    /\ ready > 0
    /\ ready' = ready - 1
    /\ keys' = keys \cup {"active"}

RequeueAfter ==
    /\ keys' = (keys \ {"active"}) \cup {"delayed"}
    /\ UNCHANGED ready

Ack ==
    /\ keys' = {}
    /\ UNCHANGED ready

MoveDueDelayedToReady ==
    /\ delayed
    /\ keys' = keys \ {"delayed"}
    /\ ready' = ready + 1
    /\ UNCHANGED <<ledger, row, remote, lock, pc, faults, lapses>>

\* The entry is stale when no heartbeat refreshes it: the worker has died, or
\* its heartbeats do not get through.
RecoverStaleActive ==
    /\ active
    /\ IF \E w \in Workers : pc[w] \notin {"idle", "unlock"} THEN Fault ELSE UNCHANGED faults
    /\ keys' = keys \ {"active"}
    /\ ready' = ready + 1
    /\ UNCHANGED <<ledger, row, remote, lock, pc, lapses>>

LockExpires ==
    /\ lock # NoWorker
    /\ \/ pc[lock] \notin Critical /\ UNCHANGED <<faults, lapses>>
       \/ pc[lock] \in Critical /\ Fault /\ Lapse("overlap")
    /\ lock' = NoWorker
    /\ UNCHANGED <<ledger, row, remote, queue, pc>>

-----------------------------------------------------------------------------
(* What Submit, Cancel, the recovery and the workers have in common.       *)

\* releaseBatchImageBalanceHold by a process at one label, which goes to the
\* second if it succeeds and to the third if not.
ReleaseHold(p, at, released, failed) ==
    /\ pc[p] = at
    /\ \/ ReleaseBatchImageBalance /\ Goto(p, released) /\ UNCHANGED faults
       \/ ReleaseRefused /\ Goto(p, failed) /\ UNCHANGED <<ledger, faults>>
       \/ Fault /\ (ReleaseBatchImageBalance \/ UNCHANGED ledger) /\ Goto(p, failed)
    /\ UNCHANGED <<row, remote, queue, lock, lapses>>

\* Mutation: a release that fails is not tried again.
NoBillingRetry(p) ==
    /\ pc[p] = "retry"
    /\ Goto(p, IF p = "submit" THEN "done" ELSE "idle")
    /\ UNCHANGED <<queue, faults, lapses, ledger, row, remote, lock>>

\* enqueueBillingRetry, enqueueReleaseRetry: a worker will release the hold.
EnqueueBillingRetry(p) ==
    /\ pc[p] = "retry"
    /\ Goto(p, IF p = "submit" THEN "done" ELSE "idle")
    /\ \/ Enqueue /\ UNCHANGED <<faults, lapses>>
       \/ Fault /\ Enqueue /\ UNCHANGED lapses
       \/ Fault /\ UNCHANGED queue /\ Lapse("stranded")
    /\ UNCHANGED <<ledger, row, remote, lock>>

-----------------------------------------------------------------------------
(* Submit.                                                                 *)

CreateJob ==
    /\ pc["submit"] = "create"
    /\ status' = "created"
    /\ Goto("submit", "hold")
    /\ UNCHANGED <<columns, cost, retries>>
    /\ UNCHANGED <<ledger, remote, queue, lock, faults, lapses>>

\* Without a hold, as far as Submit knows, there is nothing to release.
ReserveHold ==
    /\ pc["submit"] = "hold"
    /\ \/ /\ ReserveBatchImageBalance
          /\ Goto("submit", "items")
          /\ lapses' = lapses \cup (IF "release" \in claims THEN {"releasedEarly"} ELSE {})
          /\ UNCHANGED faults
       \/ /\ ReserveRefused
          /\ Goto("submit", "recordFailed")
          /\ UNCHANGED <<ledger, faults, lapses>>
       \/ /\ Fault
          /\ Goto("submit", "recordFailed")
          /\ \/ /\ ReserveBatchImageBalance
                /\ lapses' = lapses \cup {"holdUnknown"}
                             \cup (IF "release" \in claims THEN {"releasedEarly"} ELSE {})
             \/ UNCHANGED <<ledger, lapses>>
    /\ UNCHANGED <<row, remote, queue, lock>>

CreatePendingItems ==
    /\ pc["submit"] = "items"
    /\ \/ Goto("submit", "upload") /\ UNCHANGED faults
       \/ Goto("submit", "release") /\ Fault
    /\ UNCHANGED <<ledger, row, remote, queue, lock, lapses>>

\* A job that was cancelled meanwhile keeps its status.
StartUpload ==
    /\ pc["submit"] = "upload"
    /\ \/ /\ Transition("uploading")
          /\ Goto("submit", "provider")
          /\ UNCHANGED faults
       \/ /\ ~CanTransition(status, "uploading")
          /\ Goto("submit", "releaseReturn")
          /\ UNCHANGED <<row, faults>>
       \/ /\ Fault
          /\ Transition("uploading") \/ UNCHANGED row
          /\ Goto("submit", "release")
    /\ UNCHANGED <<ledger, remote, queue, lock, lapses>>

\* A job that the provider makes although it refuses it has a name that nobody
\* here knows: it is left out.
ProviderSubmit ==
    /\ pc["submit"] = "provider"
    /\ \/ remote' = "running" /\ Goto("submit", "update")
       \/ UNCHANGED remote /\ Goto("submit", "release")
    /\ UNCHANGED <<ledger, row, queue, lock, faults, lapses>>

SetProviderSubmit ==
    /\ CanTransition(status, "submitted")
    /\ status' = "submitted"
    /\ columns' = columns \cup {"name"}
    /\ UNCHANGED <<cost, retries>>

\* Mutation: a job that was refunded meanwhile is submitted all the same.
ProviderSubmitUnchecked ==
    /\ pc["submit"] = "update"
    /\ status' = "submitted"
    /\ columns' = columns \cup {"name"}
    /\ Goto("submit", "enqueue")
    /\ UNCHANGED <<cost, retries>>
    /\ UNCHANGED <<ledger, remote, queue, lock, faults, lapses>>

UpdateProviderSubmit ==
    /\ pc["submit"] = "update"
    /\ \/ /\ SetProviderSubmit
          /\ Goto("submit", "enqueue")
          /\ UNCHANGED <<faults, lapses>>
       \/ /\ ~CanTransition(status, "submitted")
          /\ Goto("submit", "abort")
          /\ UNCHANGED <<row, faults, lapses>>
       \/ /\ Fault
          /\ Goto("submit", "abort")
          /\ \/ SetProviderSubmit /\ Lapse("unqueued")
             \/ UNCHANGED <<row, lapses>>
    /\ UNCHANGED <<ledger, remote, queue, lock>>

\* What a cancellation does to the provider's job: it may come too late.
ProviderCancel == remote' \in {remote} \cup (IF remote = "running" THEN {"cancelled"} ELSE {})

AbortOrphanProviderJob ==
    /\ pc["submit"] = "abort"
    /\ ProviderCancel
    /\ Goto("submit", "done")
    /\ UNCHANGED <<ledger, row, queue, lock, faults, lapses>>

EnqueueSubmitted ==
    /\ pc["submit"] = "enqueue"
    /\ \/ Enqueue /\ Goto("submit", "done") /\ UNCHANGED <<faults, lapses>>
       \/ Fault /\ Enqueue /\ Goto("submit", "queueFailed") /\ UNCHANGED lapses
       \/ Fault /\ UNCHANGED queue /\ Goto("submit", "queueFailed") /\ Lapse("unqueued")
    /\ UNCHANGED <<ledger, row, remote, lock>>

\* Submit, or a repeated submission with the same idempotency key, puts the
\* failure of the queue on record; the status stays.
RecordQueueFailed(p) ==
    /\ pc[p] = "queueFailed"
    /\ \/ /\ RecordSubmitFailure(FALSE)
          /\ lapses' = IF status = "settling" THEN lapses \cup {"recoded"} ELSE lapses
          /\ UNCHANGED faults
       \/ Fault /\ UNCHANGED <<row, lapses>>
    /\ Goto(p, IF p = "submit" THEN "done" ELSE "idle")
    /\ UNCHANGED <<ledger, remote, queue, lock>>

RecordFailed ==
    /\ pc["submit"] \in {"recordFailed", "recordUnreleased"}
    /\ \/ RecordSubmitFailure(TRUE) /\ UNCHANGED faults
       \/ UNCHANGED row /\ Fault
    /\ Goto("submit", IF pc["submit"] = "recordFailed" THEN "hide" ELSE "retry")
    /\ UNCHANGED <<ledger, remote, queue, lock, lapses>>

\* The user does not get to see a job that never reached the provider.
HidePreUpstreamSubmitFailure ==
    /\ pc["submit"] = "hide"
    /\ \/ MarkUserDeleted /\ UNCHANGED faults
       \/ (status \notin Terminal \/ hidden) /\ UNCHANGED <<row, faults>>
       \/ Fault /\ UNCHANGED row
    /\ Goto("submit", "done")
    /\ UNCHANGED <<ledger, remote, queue, lock, lapses>>

SubmitDies ==
    /\ pc["submit"] \notin {"create", "done", "dead"}
    /\ Fault
    /\ Goto("submit", "dead")
    /\ lapses' = lapses \cup (IF pc["submit"] = "enqueue" THEN {"unqueued"} ELSE {})
                        \cup (IF pc["submit"] = "retry" THEN {"stranded"} ELSE {})
    /\ UNCHANGED <<ledger, row, remote, queue, lock>>

-----------------------------------------------------------------------------
(* The user's other requests, and the recovery of abandoned submissions.   *)

\* Cancel reads the job and decides what to do.
CancelReads ==
    /\ pc["user"] = "idle"
    /\ status # "none" /\ ~hidden
    /\ \/ status \in Refundable /\ Goto("user", "release")
       \/ status \notin Terminal \cup {"settling"}
          /\ Goto("user", IF named THEN "provider" ELSE "transition")
    /\ UNCHANGED <<ledger, row, remote, queue, lock, faults, lapses>>

CancelAtProvider ==
    /\ pc["user"] = "provider"
    /\ \/ ProviderCancel /\ Goto("user", "enqueue")
       \/ UNCHANGED remote /\ Goto("user", "idle")
    /\ UNCHANGED <<ledger, row, queue, lock, faults, lapses>>

\* The worker is to find out what the provider made of it.
CancelEnqueues ==
    /\ pc["user"] = "enqueue"
    /\ \/ Enqueue /\ UNCHANGED faults
       \/ Fault /\ (Enqueue \/ UNCHANGED queue)
    /\ Goto("user", "idle")
    /\ UNCHANGED <<ledger, row, remote, lock, lapses>>

CancelTransition ==
    /\ pc["user"] = "transition"
    /\ \/ /\ Transition("cancelled")
          /\ Goto("user", "release")
          /\ UNCHANGED <<faults, lapses>>
       \/ /\ ~CanTransition(status, "cancelled")
          /\ Goto("user", "idle")
          /\ UNCHANGED <<row, faults, lapses>>
       \/ /\ Fault
          /\ Goto("user", "idle")
          /\ \/ Transition("cancelled") /\ Lapse("stranded")
             \/ UNCHANGED <<row, lapses>>
    /\ UNCHANGED <<ledger, remote, queue, lock>>

\* Submit again with the same idempotency key: a submitted job is enqueued.
ResubmitReads ==
    /\ pc["user"] = "idle"
    /\ status = "submitted"
    /\ Goto("user", "resubmit")
    /\ UNCHANGED <<ledger, row, remote, queue, lock, faults, lapses>>

ResubmitEnqueues ==
    /\ pc["user"] = "resubmit"
    /\ \/ Enqueue /\ Goto("user", "idle") /\ UNCHANGED faults
       \/ Fault /\ (Enqueue \/ UNCHANGED queue) /\ Goto("user", "queueFailed")
    /\ UNCHANGED <<ledger, row, remote, lock, lapses>>

DeleteRecord ==
    /\ MarkUserDeleted
    /\ UNCHANGED <<ledger, remote, queue, lock, pc, faults, lapses>>

\* ReleaseStaleUnsubmittedOnce: updated_at is old when Submit is dead, has
\* ended without a trace, or is slow and its heartbeats do not get through.
FailStaleUnsubmitted ==
    /\ pc["recovery"] = "idle"
    /\ status \in Unsubmitted /\ ~named
    /\ \/ /\ IF pc["submit"] \in {"done", "dead"} THEN UNCHANGED faults ELSE Fault
          /\ Transition("failed")
          /\ Goto("recovery", "release")
          /\ UNCHANGED lapses
       \/ /\ Fault
          /\ Transition("failed")
          /\ UNCHANGED pc
          /\ Lapse("stranded")
    /\ UNCHANGED <<ledger, remote, queue, lock>>

ClientDies(p) ==
    /\ pc[p] # "idle"
    /\ Fault
    /\ Goto(p, "idle")
    /\ lapses' = IF pc[p] \in {"release", "retry"} THEN lapses \cup {"stranded"} ELSE lapses
    /\ UNCHANGED <<ledger, row, remote, queue, lock>>

-----------------------------------------------------------------------------
(* A worker: RunOnce, the pipeline and the provider's processor.           *)

WorkerReserves(w) ==
    /\ pc[w] = "idle"
    /\ Reserve
    /\ Goto(w, "reserved")
    /\ UNCHANGED <<ledger, row, remote, lock, faults, lapses>>

\* Mutation: the worker goes on without the lock.
LockIgnored(w) ==
    /\ pc[w] = "reserved"
    /\ lock' = w
    /\ Goto(w, "pipeline")
    /\ UNCHANGED <<ledger, row, remote, queue, faults, lapses>>

\* The lock of another worker, or one left by a dead worker, or no answer: the
\* job is put off.
WorkerLocks(w) ==
    /\ pc[w] = "reserved"
    /\ \/ /\ lock = NoWorker
          /\ lock' = w
          /\ Goto(w, "pipeline")
          /\ UNCHANGED <<queue, faults>>
       \/ /\ IF lock = NoWorker THEN Fault ELSE UNCHANGED faults
          /\ RequeueAfter
          /\ Goto(w, "idle")
          /\ UNCHANGED lock
    /\ UNCHANGED <<ledger, row, remote, lapses>>

\* The pipeline's read of the job.
PipelineReads(w) ==
    /\ pc[w] = "pipeline"
    /\ Goto(w, IF status = "settling" THEN "settle" ELSE "process")
    /\ UNCHANGED <<ledger, row, remote, queue, lock, faults, lapses>>

\* Mutation: a terminal job is acknowledged whatever became of its hold.
AckTerminal(w) ==
    /\ pc[w] = "process"
    /\ Goto(w, CASE status \in Terminal \cup {"settling"} -> "ack"
                 [] ~named -> "requeue"
                 [] status = "indexing" -> "index"
                 [] OTHER -> "poll")
    /\ UNCHANGED <<ledger, row, remote, queue, lock, faults, lapses>>

\* The processor's own read: a job that is done by now is acknowledged, one
\* that is being settled included, and its hold released if it has failed.
ProcessReads(w) ==
    /\ pc[w] = "process"
    /\ Goto(w, CASE status \in Refundable -> "terminalRelease"
                 [] status \in (Terminal \ Refundable) \cup {"settling"} -> "ack"
                 [] ~named -> "requeue"
                 [] status = "indexing" -> "index"
                 [] OTHER -> "poll")
    /\ UNCHANGED <<ledger, row, remote, queue, lock, faults, lapses>>

\* The processor gives the attempt up: the provider or the account of the job is
\* gone or does not fit, the provider does not answer, or its results cannot be
\* opened.  Nothing counts these failures, and the job is requeued each time.
ProcessFails(w) ==
    /\ \/ pc[w] = "process" /\ status \notin Terminal \cup {"settling"}
       \/ pc[w] \in {"poll", "index"}
    /\ Goto(w, "requeue")
    /\ UNCHANGED <<ledger, row, remote, queue, lock, faults, lapses>>

\* A transition by a worker, to where it goes on from there; a transition that
\* is not allowed, or fails, ends the attempt.
WorkerTransition(w, to, label) ==
    \/ Transition(to) /\ Goto(w, label) /\ UNCHANGED faults
    \/ ~CanTransition(status, to) /\ Goto(w, "requeue") /\ UNCHANGED <<row, faults>>
    \/ Fault /\ (Transition(to) \/ UNCHANGED row) /\ Goto(w, "requeue")

\* What the provider says of its job, and what it means for ours.
PollProvider(w) ==
    /\ pc[w] = "poll"
    /\ \/ remote \in {"absent", "running"} /\ Goto(w, "requeue") /\ UNCHANGED <<row, faults>>
       \/ remote = "running" /\ WorkerTransition(w, "running", "requeue")
       \/ remote = "succeeded" /\ WorkerTransition(w, "indexing", "index")
       \/ remote = "failed" /\ WorkerTransition(w, "failed", "terminalRelease")
       \/ remote = "cancelled" /\ WorkerTransition(w, "cancelled", "terminalRelease")
    /\ UNCHANGED <<ledger, remote, queue, lock, lapses>>

ReplaceItems(c) ==
    /\ status = "indexing"
    /\ cost' = c
    /\ UNCHANGED <<status, columns, retries>>

\* The results are refused, or put in the database if the job is still being
\* indexed.  An error of the database counts as a refusal.
IndexResults(w) ==
    /\ pc[w] = "index"
    /\ \/ \E c \in Costs : ReplaceItems(c) /\ Goto(w, "toSettling") /\ UNCHANGED faults
       \/ status # "indexing" /\ Goto(w, "requeue") /\ UNCHANGED <<row, faults>>
       \/ Goto(w, "failIndex") /\ UNCHANGED <<row, faults>>
       \/ Fault /\ Goto(w, "failIndex") /\ \E c \in Costs : ReplaceItems(c)
    /\ UNCHANGED <<ledger, remote, queue, lock, lapses>>

FailIndex(w) ==
    /\ pc[w] = "failIndex"
    /\ WorkerTransition(w, "failed", "terminalRelease")
    /\ UNCHANGED <<ledger, remote, queue, lock, lapses>>

StartSettling(w) ==
    /\ pc[w] = "toSettling"
    /\ WorkerTransition(w, "settling", "requeue")
    /\ UNCHANGED <<ledger, remote, queue, lock, lapses>>

WorkerAcks(w) ==
    /\ pc[w] = "ack"
    /\ \/ Ack /\ UNCHANGED faults
       \/ Fault /\ UNCHANGED queue
    /\ Goto(w, "unlock")
    /\ UNCHANGED <<ledger, row, remote, lock, lapses>>

WorkerRequeues(w) ==
    /\ pc[w] = "requeue"
    /\ \/ RequeueAfter /\ UNCHANGED faults
       \/ Fault /\ UNCHANGED queue
    /\ Goto(w, "unlock")
    /\ UNCHANGED <<ledger, row, remote, lock, lapses>>

\* The token is compared: the lock of a successor stays.
WorkerUnlocks(w) ==
    /\ pc[w] = "unlock"
    /\ \/ lock' = (IF lock = w THEN NoWorker ELSE lock) /\ UNCHANGED faults
       \/ Fault /\ UNCHANGED lock
    /\ Goto(w, "idle")
    /\ UNCHANGED <<ledger, row, remote, queue, lapses>>

WorkerDies(w) ==
    /\ pc[w] # "idle"
    /\ Fault
    /\ Goto(w, "idle")
    /\ UNCHANGED <<ledger, row, remote, queue, lock, lapses>>

-----------------------------------------------------------------------------
(* Settlement.                                                             *)

Exhausted == retries >= MaxRetries /\ settleErr

\* Settle's read: settled already, not to be settled, out of retries, too
\* expensive for the hold, or to be captured.
SettleReads(w) ==
    /\ pc[w] = "settle"
    /\ Goto(w, CASE status = "completed" -> "ack"
                 [] status # "settling" -> "requeue"
                 [] status = "settling" /\ Exhausted -> "exhaust"
                 [] status = "settling" /\ ~Exhausted /\ cost > Hold -> "settleFail"
                 [] OTHER -> "capture")
    /\ UNCHANGED <<ledger, row, remote, queue, lock, faults, lapses>>

CaptureHold(w) ==
    /\ pc[w] = "capture"
    /\ \/ /\ CaptureBatchImageBalance(cost)
          /\ Goto(w, "mark")
          /\ UNCHANGED <<faults, lapses>>
       \/ /\ CaptureRefused(cost)
          /\ Goto(w, "settleFail")
          /\ UNCHANGED <<ledger, faults, lapses>>
       \/ /\ Fault
          /\ CaptureBatchImageBalance(cost) \/ UNCHANGED ledger
          /\ Goto(w, "settleFail")
          /\ lapses' = IF "capture" \in claims' THEN lapses \cup {"captureUnknown"} ELSE lapses
    /\ UNCHANGED <<row, remote, queue, lock>>

\* Mutation: the job is failed without its hold being released first.
FailWithoutRelease(w) ==
    /\ pc[w] = "settleFail"
    /\ SetSettlementFailed
    /\ Goto(w, IF retries + 1 >= MaxRetries THEN "exhaustFail" ELSE "requeue")
    /\ UNCHANGED <<faults, ledger, remote, queue, lock, lapses>>

\* recordSettlementFailure: the last retry ends the settlement.
RecordSettlementFailure(w) ==
    /\ pc[w] = "settleFail"
    /\ \/ /\ SetSettlementFailed
          /\ Goto(w, IF retries + 1 >= MaxRetries THEN "exhaust" ELSE "requeue")
          /\ UNCHANGED faults
       \/ /\ Fault
          /\ SetSettlementFailed \/ UNCHANGED row
          /\ Goto(w, "requeue")
    /\ UNCHANGED <<ledger, remote, queue, lock, lapses>>

\* failExhaustedSettlement after the release.
FailExhausted(w) ==
    /\ pc[w] = "exhaustFail"
    /\ WorkerTransition(w, "failed", "ack")
    /\ UNCHANGED <<ledger, remote, queue, lock, lapses>>

\* The release failed; the pipeline looks at the job again.
RecordReleaseFailed(w) ==
    /\ pc[w] = "exhaustRecord"
    /\ \/ SetSettlementFailed /\ UNCHANGED faults
       \/ UNCHANGED row /\ Fault
    /\ Goto(w, IF status \in Terminal THEN "ack" ELSE "requeue")
    /\ UNCHANGED <<ledger, remote, queue, lock, lapses>>

MarkSettled(w) ==
    /\ pc[w] = "mark"
    /\ WorkerTransition(w, "completed", "ack")
    /\ UNCHANGED <<ledger, remote, queue, lock, lapses>>

-----------------------------------------------------------------------------
(* The provider and the clean-up.                                          *)

ProviderFinishes ==
    /\ remote = "running"
    /\ remote' \in {"succeeded", "failed"}
    /\ UNCHANGED <<ledger, row, queue, lock, pc, faults, lapses>>

OutputCleanup ==
    /\ status = "completed"
    /\ Transition("output_deleted")
    /\ UNCHANGED <<ledger, remote, queue, lock, pc, faults, lapses>>

-----------------------------------------------------------------------------
SubmitNext ==
    \/ CreateJob \/ ReserveHold \/ CreatePendingItems \/ StartUpload \/ ProviderSubmit
    \/ UpdateProviderSubmit \/ AbortOrphanProviderJob \/ EnqueueSubmitted
    \/ RecordFailed \/ HidePreUpstreamSubmitFailure \/ SubmitDies
    \/ ReleaseHold("submit", "release", "recordFailed", "recordUnreleased")
    \/ ReleaseHold("submit", "releaseReturn", "done", "recordUnreleased")
    \/ EnqueueBillingRetry("submit") \/ RecordQueueFailed("submit")

UserNext ==
    \/ CancelReads \/ CancelAtProvider \/ CancelEnqueues \/ CancelTransition
    \/ ResubmitReads \/ ResubmitEnqueues \/ RecordQueueFailed("user") \/ DeleteRecord
    \/ ReleaseHold("user", "release", "idle", "retry")
    \/ EnqueueBillingRetry("user") \/ ClientDies("user")

RecoveryNext ==
    \/ FailStaleUnsubmitted
    \/ ReleaseHold("recovery", "release", "idle", "retry")
    \/ EnqueueBillingRetry("recovery") \/ ClientDies("recovery")

WorkerNext(w) ==
    \/ WorkerReserves(w) \/ WorkerLocks(w) \/ PipelineReads(w) \/ ProcessReads(w)
    \/ ProcessFails(w) \/ PollProvider(w) \/ IndexResults(w) \/ FailIndex(w) \/ StartSettling(w)
    \/ ReleaseHold(w, "terminalRelease", "ack", "requeue")
    \/ ReleaseHold(w, "exhaust", "exhaustFail", "exhaustRecord")
    \/ SettleReads(w) \/ CaptureHold(w) \/ RecordSettlementFailure(w)
    \/ FailExhausted(w) \/ RecordReleaseFailed(w) \/ MarkSettled(w)
    \/ WorkerAcks(w) \/ WorkerRequeues(w) \/ WorkerUnlocks(w) \/ WorkerDies(w)

Next ==
    \/ SubmitNext \/ UserNext \/ RecoveryNext
    \/ \E w \in Workers : WorkerNext(w)
    \/ MoveDueDelayedToReady \/ RecoverStaleActive \/ LockExpires
    \/ ProviderFinishes \/ OutputCleanup

Spec == Init /\ [][Next]_vars

\* Every process goes on: a request of the user once it is begun, the workers and
\* the mover in their loops, and the rest, which no behaviour repeats for ever and
\* for which one condition suffices: Submit, the recovery, the stale scan, the
\* expiry of a lock that nobody refreshes, and the provider.
Fairness ==
    /\ WF_vars(SubmitNext \/ RecoveryNext \/ RecoverStaleActive \/ LockExpires
               \/ ProviderFinishes)
    /\ WF_vars(pc["user"] # "idle" /\ UserNext)
    /\ \A w \in Workers : WF_vars(WorkerNext(w))
    /\ WF_vars(MoveDueDelayedToReady)

FairSpec == Spec /\ Fairness

-----------------------------------------------------------------------------
(* Correctness.                                                            *)

Intact(names) == lapses \cap names = {}

\* The job's hold is still part of what is frozen.
Outstanding ==
    /\ "hold" \in claims /\ "capture" \notin claims
    /\ "release" \notin claims \/ "releasedEarly" \in lapses

Releasing(p) == pc[p] \in {"release", "retry"}

\* However often calls are repeated, their answers lost and jobs settled by two
\* workers, the user pays for the job at most once: what is missing from the
\* balance and the frozen funds is the cost of the capture that stands.
ChargedOnce ==
    balance + frozen = funds + OtherHolds - (IF "capture" \in claims THEN cost ELSE 0)

\* A hold is ended once, by its capture or by its release, so that no job ends
\* its hold at the expense of the user's other jobs.  Capture and release do not
\* look at each other's claims: it takes a capture that stood although it was
\* reported as failed, a second worker on the job, or a settlement error that
\* was overwritten, for both to be applied.
OneEndPerHold ==
    Intact({"captureUnknown", "overlap", "recoded"}) =>
        frozen = OtherHolds + (IF Outstanding THEN Hold ELSE 0)

\* A job that has failed or was cancelled gives its hold back: as long as the
\* hold is outstanding a request or the recovery is about to release it, or the
\* job is in the queue, where a worker will.
HoldComesBack ==
    Intact({"holdUnknown", "releasedEarly", "stranded", "overlap"})
    /\ status \in Refundable /\ Outstanding =>
        inflight \/ pc["submit"] = "retry" \/ Releasing("user") \/ Releasing("recovery")

\* A job is completed if and only if it was paid for: its results are indexed,
\* the capture stands, and the hold was not released as well; and a job whose
\* capture stands is completed, or on its way to be.
CompletedPaid ==
    /\ status \in {"completed", "output_deleted"} =>
        /\ "capture" \in claims
        /\ cost \in 0 .. Hold
        /\ Intact({"captureUnknown", "overlap", "recoded"}) => "release" \notin claims
    /\ "capture" \in claims /\ Intact({"captureUnknown", "overlap", "recoded"}) =>
        status \in {"settling", "completed", "output_deleted"}

\* A job that the provider works on, or whose results wait for their settlement,
\* is never lost: one of the queue's three structures has it, whatever dies.
NeverLost ==
    Intact({"unqueued", "overlap"}) /\ status \in Processing =>
        \/ pc["submit"] = "enqueue"
        \/ inflight /\ (ready > 0 \/ delayed \/ active)

\* A job that has ended stays ended: no late step of Submit, of a worker or of
\* the recovery brings a refunded job back, or fails one that was paid for.
TerminalStays ==
    [][/\ status \in Refundable => status' \in Refundable
       /\ status \in {"completed", "output_deleted"} =>
            status' \in {"completed", "output_deleted"}]_vars

\* From some time on the processor finds the job's provider and account, and the
\* provider answers and has the results.
Answered == <>[][\A w \in Workers : ~ProcessFails(w)]_vars

\* No hold stays for ever: whatever became of the provider's job, whoever dies on
\* the way and however often an attempt was given up, it is captured or released
\* in the end, unless a lapse has cut the way.  It may stay if the processor
\* fails for ever, as with an account that was deleted: the worker requeues such
\* a job without a limit.
HoldEnds ==
    Answered =>
        (Outstanding ~>
            \/ ~Outstanding
            \/ ~Intact({"holdUnknown", "releasedEarly", "stranded", "unqueued", "overlap"}))

-----------------------------------------------------------------------------
(* The inductive invariant.                                                *)

Unnamed == {"create", "hold", "items", "upload", "provider", "update", "release",
            "releaseReturn", "recordFailed", "recordUnreleased", "hide", "retry"}
WithHold == {"items", "upload", "provider", "update", "abort", "enqueue", "queueFailed",
             "release", "releaseReturn", "recordUnreleased", "retry"}
GivenUp  == {"release", "releaseReturn", "recordFailed", "recordUnreleased", "hide",
             "retry", "done", "dead"}
Settled  == {"settling", "completed", "output_deleted"}
Sound    == Intact({"captureUnknown", "overlap", "recoded"})

\* Submit alone gives the job its provider name, and it does so last.
SubmitInv ==
    /\ status = "none" <=> pc["submit"] = "create"
    /\ status = "none" => claims = {}
    /\ pc["submit"] \in Unnamed => ~named
    /\ ~named => status \in {"none"} \cup Unsubmitted \cup Refundable
    /\ named => status \notin {"none"} \cup Unsubmitted /\ "hold" \in claims
    /\ pc["submit"] \in WithHold => "hold" \in claims
    /\ pc["submit"] \in {"create", "hold"} => "hold" \notin claims
    /\ pc["submit"] = "enqueue" => named
    /\ pc["submit"] = "recordFailed" /\ "holdUnknown" \notin lapses =>
        "release" \in claims \/ "hold" \notin claims

\* Who releases, does so for a job that has failed, or that Submit gives up.
ReleaseInv ==
    /\ \A p \in {"user", "recovery"} : Releasing(p) => status \in Refundable
    /\ \A w \in Workers : pc[w] = "terminalRelease" => status \in Refundable
    /\ "release" \in claims /\ status \in Unsubmitted => pc["submit"] \in GivenUp
    /\ "release" \in claims /\ status \in Processing \cup Settled /\ Sound =>
        status = "settling" /\ Exhausted
    /\ "releasedEarly" \in lapses =>
        {"hold", "release"} \subseteq claims /\ status \in Refundable /\ ~named

\* The cost is settled before the status is, and both before the capture.
SettleInv ==
    /\ status \in Settled => cost \in Costs
    /\ status \in {"completed", "output_deleted"} => "capture" \in claims
    /\ "capture" \in claims => cost \in Costs /\ cost <= Hold /\ status \in Settled \cup {"failed"}
    /\ \A w \in Workers :
        /\ pc[w] \in Settling => status \in Settled \cup {"failed"} /\ cost \in Costs
        /\ pc[w] = "toSettling" => cost \in Costs
        /\ pc[w] \in {"capture", "mark"} => cost <= Hold
        /\ pc[w] = "mark" => "capture" \in claims
        /\ pc[w] = "exhaustFail" => "release" \in claims

\* The job's end, with its hold seen to.
Done == \/ status \in {"completed", "output_deleted"}
        \/ status \in Refundable /\ "release" \in claims

\* The lock keeps the workers apart, so that what one has read stays true.
LockInv ==
    "overlap" \notin lapses =>
        /\ \A w \in Workers :
            /\ pc[w] \in Critical => lock = w
            /\ pc[w] \in Settling => status = "settling"
            /\ pc[w] = "process" => status # "settling"
            /\ pc[w] \in {"poll", "index", "failIndex", "toSettling"} => status \notin Settled
            /\ pc[w] = "ack" => Done
        /\ ready > 0 \/ delayed \/ active \/ (\E w \in Workers : pc[w] # "idle") =>
            inflight \/ Done

\* Capture and release exclude each other: what decides is whether the retries
\* are exhausted, and a capture is never followed by another failure.
EndInv ==
    Sound =>
        /\ "capture" \in claims =>
            /\ "release" \notin claims
            /\ status \in Settled
            /\ status = "settling" => ~Exhausted
            /\ \A w \in Workers :
                pc[w] \notin {"settleFail", "exhaust", "exhaustFail", "exhaustRecord"}
        /\ \A w \in Workers :
            /\ pc[w] = "capture" => ~Exhausted
            /\ pc[w] \in {"exhaust", "exhaustFail", "exhaustRecord"} => Exhausted

QueueInv ==
    /\ inflight => ready > 0 \/ delayed \/ active
    /\ Intact({"unqueued", "overlap"}) /\ status \in Processing =>
        pc["submit"] = "enqueue" \/ inflight

\* A job that is refunded before Submit reserves its hold: whoever refunded it is
\* about to release a hold that is not there yet.
EarlyInv ==
    Intact({"stranded", "overlap"}) /\ status \in Refundable /\ pc["submit"] = "hold"
    /\ "release" \notin claims => inflight \/ Releasing("user") \/ Releasing("recovery")

\* A job that is settled has a provider name, and so a hold.
NamedInv ==
    "capture" \in claims \/ (\E w \in Workers : pc[w] \in Settling) => named

BatchInv ==
    /\ TypeOK /\ SubmitInv /\ ReleaseInv /\ SettleInv /\ LockInv /\ EndInv /\ QueueInv
    /\ EarlyInv
    /\ ChargedOnce /\ OneEndPerHold /\ HoldComesBack

-----------------------------------------------------------------------------
(* The refinement of HoldPromise.                                          *)

Phase(s) ==
    CASE s = "none" -> "none"
      [] s \in Unsubmitted -> "accepted"
      [] s \in {"submitted", "running", "indexing"} -> "running"
      [] s = "settling" -> "settling"
      [] s \in {"completed", "output_deleted"} -> "delivered"
      [] s \in Refundable -> "refunded"

\* A release that came before the hold has returned nothing.
Returned == {"hold", "release"} \subseteq claims /\ "releasedEarly" \notin lapses

Promise == INSTANCE HoldPromise WITH
    Prices <- Costs,
    NoPrice <- NoCost,
    Others <- OtherHolds,
    phase <- Phase(status),
    price <- cost,
    held <- "hold" \in claims,
    charged <- "capture" \in claims,
    returned <- Returned,
    excused <- ~Sound

\* Transaction by transaction, the job keeps what the user is promised, whoever
\* dies, retries or reads a stale row: nothing moves the user's money but the
\* freeze, the payment and the return, each at most once and each only in the
\* phase of the job where it is due.
KeepsPromise == Promise!Spec

\* Where capture and release are both applied, which the code does not exclude,
\* the damage ends there: of what other jobs have frozen one hold at most is gone,
\* and the user has gained it.
AtWorstOneHold ==
    /\ frozen >= OtherHolds - Hold
    /\ balance <= funds + Hold
    /\ frozen < OtherHolds => {"capture", "release"} \subseteq claims

=============================================================================
