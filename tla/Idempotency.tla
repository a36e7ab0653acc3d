----------------------------- MODULE Idempotency -----------------------------
(***************************************************************************)
(* One record of the table idempotency_records, and the processes that     *)
(* compete for it.  The record belongs either to an idempotency key, whose *)
(* requests go through IdempotencyCoordinator.Execute, or to the lock that *)
(* SystemOperationLockService keeps around updates and restarts.           *)
(* Source: backend/internal/service/idempotency.go,                        *)
(* system_operation_lock_service.go, idempotency_cleanup_service.go and    *)
(* backend/internal/repository/idempotency_repo.go.                        *)
(*                                                                         *)
(* Every SQL statement is a step.  Time is a counter that all processes    *)
(* read; it waits for processes that would take longer than Delay to claim *)
(* the record, than Run to execute or than Renew to renew the lock, unless *)
(* one of them stalls.                                                     *)
(***************************************************************************)
EXTENDS Integers

CONSTANTS
    Procs,      \* goroutines that serve requests
    Prints,     \* request fingerprints, or IDs of system operations
    TTL,        \* lifetime of a record
    Lease,      \* ProcessingTimeout
    Backoff,    \* FailedRetryBackoff
    Renew,      \* interval of the lock's renewals
    Delay,      \* longest time from a request's start to its claim
    Run,        \* longest execution of a request
    MaxClock,   \* bound on the clock
    MaxCalls,   \* bound on the requests
    MaxFaults   \* bound on failed statements, crashes and stalls

\* A claim is over before its own lease is, an execution before its record
\* expires, and the lock is renewed before its lease ends.
ASSUME TimesAssumption ==
    /\ TTL \in Nat /\ Lease \in Nat /\ Backoff \in Nat /\ Renew \in Nat
    /\ Delay \in Nat /\ Run \in Nat
    /\ Delay + Run < TTL
    /\ Delay + Renew < Lease
    /\ Lease <= TTL

ASSUME BoundsAssumption == MaxClock \in Nat /\ MaxCalls \in Nat /\ MaxFaults \in Nat

VARIABLES
    kind,      \* what the record is for: requests of one key, or the lock
    row,       \* the record; its id is 0 when there is none
    nextId,    \* the table's sequence
    victim,    \* the record the cleanup has selected, or 0
    clock,     \* wall clock
    pc,        \* next statement of each process
    call,      \* local variables of each process
    calls,     \* requests still allowed
    faults,    \* failures still allowed
    effects,   \* history: fingerprints that were executed successfully
    recorded,  \* history: when the request whose response is stored began, or 0
    lapsed     \* history: a process was late, a renewal failed or was refused, or
               \* the cleanup deleted a record that had been claimed anew

limits  == <<calls, faults>>
history == <<effects, recorded, lapsed>>
vars    == <<kind, row, nextId, victim, clock, pc, call, limits, history>>

NoRow    == [id |-> 0, print |-> 0, status |-> "none", locked |-> 0, expires |-> 0]
Statuses == {"processing", "succeeded", "failed_retryable"}
Claiming == {"create", "get", "reclaimExpired", "getLatest", "reclaim"}
Running  == {"run", "markOk", "markFailed"}
Labels   == {"idle"} \cup Claiming \cup Running
\* print: the request's fingerprint; at: when it began (now); id: the record
\* it found or claimed; from: the status it found; due: when the execution
\* must be over, or the lock renewed; lost: the renewLoop has ended.
NoCall == [print |-> 0, at |-> 0, id |-> 0, from |-> "none", due |-> 0, lost |-> FALSE]

-----------------------------------------------------------------------------
(* Shared pieces.                                                          *)

Goto(p, label) ==
    /\ pc' = [pc EXCEPT ![p] = label]
    /\ UNCHANGED call

Return(p) ==
    /\ pc' = [pc EXCEPT ![p] = "idle"]
    /\ call' = [call EXCEPT ![p] = NoCall]

\* What every UPDATE of the record sets.
Updated(status, locked, expires) ==
    [row EXCEPT !.status = status, !.locked = locked, !.expires = expires]

Fault ==
    /\ faults > 0
    /\ faults' = faults - 1
    /\ UNCHANGED calls

\* The process owns the record: it executes, and a lock starts its renewLoop.
Claim(p) ==
    /\ pc' = [pc EXCEPT ![p] = "run"]
    /\ call' = [call EXCEPT ![p].id = row'.id,
                            ![p].due = clock + (IF kind = "lock" THEN Renew ELSE Run)]
    /\ recorded' = 0

-----------------------------------------------------------------------------
(* Execute and Acquire, up to the claim.                                   *)

\* now is read here, long before the statements that use it.
Begin(p) ==
    /\ pc[p] = "idle"
    /\ calls > 0
    /\ calls' = calls - 1
    /\ \E f \in Prints :
        call' = [call EXCEPT ![p] = [NoCall EXCEPT !.print = f, !.at = clock]]
    /\ pc' = [pc EXCEPT ![p] = "create"]
    /\ UNCHANGED <<kind, victim, row, nextId, clock, faults, history>>

\* BIGSERIAL: no id is given out twice.
NextVal == nextId + 1

CreateProcessing(p) ==
    /\ pc[p] = "create"
    /\ \/ /\ row.id = 0
          /\ row' = [id |-> nextId, print |-> call[p].print, status |-> "processing",
                     locked |-> call[p].at + Lease, expires |-> call[p].at + TTL]
          /\ nextId' = NextVal
          /\ Claim(p)
       \/ /\ row.id # 0            \* ON CONFLICT DO NOTHING
          /\ Goto(p, "get")
          /\ UNCHANGED <<row, nextId, recorded>>
    /\ UNCHANGED <<kind, victim, clock, limits, effects, lapsed>>

\* Mutation: a request takes the record whatever its payload.
SameKey(p) == TRUE

\* A key must not be used for another payload.
SamePayload(p) == row.print = call[p].print

\* Mutation: the lease is taken for the record's lifetime.
LeaseOver(p) == row.locked <= call[p].at

Expired(p) == row.expires <= call[p].at

\* What the record allows a request to try next; it is given up for a replay,
\* a conflict or a backoff.
NextOfRequest(p) ==
    IF row.id = 0 \/ ~SamePayload(p)
    THEN "idle"
    ELSE IF pc[p] = "get" /\ Expired(p)
    THEN "reclaimExpired"
    ELSE IF row.status = "failed_retryable" /\ row.locked <= call[p].at
    THEN "reclaim"
    ELSE "idle"

\* The same for the lock, which is free unless it is processing and locked.
NextOfLock(p) ==
    IF row.id = 0 \/ (row.status = "processing" /\ row.locked > call[p].at)
    THEN "idle"
    ELSE "reclaim"

GetByScopeAndKeyHash(p) ==
    LET next == IF kind = "request" THEN NextOfRequest(p) ELSE NextOfLock(p) IN
    /\ pc[p] \in {"get", "getLatest"}
    /\ \/ next = "idle" /\ Return(p)
       \/ /\ next # "idle"
          /\ pc' = [pc EXCEPT ![p] = next]
          /\ call' = [call EXCEPT ![p].id = row.id, ![p].from = row.status]
    /\ UNCHANGED <<kind, victim, row, nextId, clock, limits, history>>

\* Mutation: the UPDATE does not look at the lock window.
ReclaimLocked(p) == row.id = call[p].id /\ row.status = call[p].from

\* The WHERE clause of TryReclaim.  It does not look at expires_at again, and
\* its UPDATE leaves request_fingerprint as it is.
Reclaimable(p) ==
    /\ row.id = call[p].id
    /\ row.status = call[p].from
    /\ row.locked <= call[p].at

TryReclaim(p) ==
    /\ pc[p] \in {"reclaimExpired", "reclaim"}
    /\ \/ /\ Reclaimable(p)
          /\ row' = Updated("processing", call[p].at + Lease, call[p].at + TTL)
          /\ Claim(p)
       \/ /\ ~Reclaimable(p)
          /\ IF pc[p] = "reclaimExpired" THEN Goto(p, "getLatest") ELSE Return(p)
          /\ UNCHANGED <<row, recorded>>
    /\ UNCHANGED <<kind, victim, nextId, clock, limits, effects, lapsed>>

-----------------------------------------------------------------------------
(* The execution, and its end.                                             *)

Executed(p) ==
    /\ pc[p] = "run"
    /\ \/ Goto(p, "markOk") /\ effects' = effects \cup {call[p].print}
       \/ Goto(p, "markFailed") /\ UNCHANGED effects
    /\ UNCHANGED <<kind, victim, row, nextId, clock, limits, recorded, lapsed>>

\* Mutation: a response lives no longer than the lease.
LeaseExpiry(p) == call[p].at + Lease

\* A request's record lives from its start, the lock's from its release.
NewExpiry(p) == IF kind = "request" THEN call[p].at + TTL ELSE clock + TTL

\* A failed request is retried after the backoff; the lock is free at once.
RetryAt == IF kind = "request" THEN clock + Backoff ELSE clock

\* Both statements find the record by its id alone.
MarkSucceeded(p) ==
    /\ pc[p] = "markOk"
    /\ \/ /\ row.id = call[p].id
          /\ row' = Updated("succeeded", 0, NewExpiry(p))
          /\ recorded' = call[p].at
       \/ /\ row.id # call[p].id
          /\ UNCHANGED <<row, recorded>>
    /\ Return(p)
    /\ UNCHANGED <<kind, victim, nextId, clock, limits, effects, lapsed>>

MarkFailedRetryable(p) ==
    /\ pc[p] = "markFailed"
    /\ row' = IF row.id = call[p].id
              THEN Updated("failed_retryable", RetryAt, NewExpiry(p))
              ELSE row
    /\ Return(p)
    /\ UNCHANGED <<kind, victim, nextId, clock, limits, history>>

\* Mutation: the renewal forgets to extend the lock itself.
RenewExpiryOnly == row.locked

RenewedLock == clock + Lease

\* renewLoop.  A renewal of a record that carries another operation's ID is
\* refused, and ends the loop while the operation goes on.
ExtendProcessingLock(p) ==
    /\ pc[p] = "run"
    /\ kind = "lock" /\ ~call[p].lost
    /\ call[p].due <= clock
    /\ \/ /\ row.id = call[p].id
          /\ row.status = "processing"
          /\ row.print = call[p].print
          /\ row' = Updated("processing", RenewedLock, clock + TTL)
          /\ call' = [call EXCEPT ![p].due = clock + Renew]
          /\ UNCHANGED <<limits, lapsed>>
       \/ /\ ~(row.id = call[p].id /\ row.status = "processing" /\ row.print = call[p].print)
          /\ call' = [call EXCEPT ![p].lost = TRUE]
          /\ lapsed' = TRUE
          /\ UNCHANGED <<row, limits>>
       \/ /\ Fault                 \* the next tick tries again
          /\ call' = [call EXCEPT ![p].due = clock + Renew]
          /\ lapsed' = TRUE
          /\ UNCHANGED row
    /\ UNCHANGED <<kind, victim, nextId, clock, pc, effects, recorded>>

-----------------------------------------------------------------------------
(* Cleanup, time and failures.                                             *)

\* The WITH clause of DeleteExpired: the statement's snapshot decides who is
\* deleted.
SelectExpired ==
    /\ row.id # 0
    /\ row.expires <= clock
    /\ victim' = row.id
    /\ UNCHANGED <<kind, row, nextId, clock, pc, call, limits, history>>

\* The DELETE of the same statement.  It waits for an UPDATE of the record, and
\* then looks at the id alone: a claim made since the snapshot is lost.
DeleteExpired ==
    /\ victim # 0
    /\ victim' = 0
    /\ row' = IF row.id = victim THEN NoRow ELSE row
    /\ lapsed' = (lapsed \/ (row.id = victim /\ row.expires > clock))
    /\ UNCHANGED <<kind, nextId, clock, pc, call, limits, effects, recorded>>

\* No process has reached the end of the time it is given.
OnTime(p) ==
    /\ pc[p] \in Claiming => clock < call[p].at + Delay
    /\ pc[p] \in Running /\ ~call[p].lost => clock < call[p].due

Tick ==
    /\ clock < MaxClock
    /\ lapsed \/ \A p \in Procs : OnTime(p)
    /\ clock' = clock + 1
    /\ UNCHANGED <<kind, victim, row, nextId, pc, call, limits, history>>

\* From here on time no longer waits for anybody.
Stall ==
    /\ ~lapsed
    /\ Fault
    /\ lapsed' = TRUE
    /\ UNCHANGED <<kind, victim, row, nextId, clock, pc, call, effects, recorded>>

\* The process dies; a failed statement of the claim or of the end of the
\* execution is answered with "store unavailable" and leaves the same state.
Crash(p) ==
    /\ pc[p] # "idle"
    /\ Fault
    /\ Return(p)
    /\ UNCHANGED <<kind, victim, row, nextId, clock, history>>

-----------------------------------------------------------------------------
Init ==
    /\ kind \in {"request", "lock"}
    /\ row = NoRow
    /\ nextId = 1
    /\ victim = 0
    /\ clock = 1
    /\ pc = [p \in Procs |-> "idle"]
    /\ call = [p \in Procs |-> NoCall]
    /\ calls = MaxCalls
    /\ faults = MaxFaults
    /\ effects = {}
    /\ recorded = 0
    /\ lapsed = FALSE

Next ==
    \/ \E p \in Procs :
        \/ Begin(p)
        \/ CreateProcessing(p)
        \/ GetByScopeAndKeyHash(p)
        \/ TryReclaim(p)
        \/ Executed(p)
        \/ MarkSucceeded(p)
        \/ MarkFailedRetryable(p)
        \/ ExtendProcessingLock(p)
        \/ Crash(p)
    \/ SelectExpired
    \/ DeleteExpired
    \/ Tick
    \/ Stall

Spec == Init /\ [][Next]_vars

-----------------------------------------------------------------------------
(* Properties.                                                             *)

Rows ==
    [id : Nat, print : Prints \cup {0}, status : Statuses \cup {"none"},
     locked : Nat, expires : Nat]

CallRecords ==
    [print : Prints \cup {0}, at : Nat, id : Nat, from : Statuses \cup {"none"},
     due : Nat, lost : BOOLEAN]

RowTypes ==
    /\ kind \in {"request", "lock"}
    /\ row \in Rows
    /\ nextId \in Nat \ {0}
    /\ victim \in Nat
    /\ clock \in Nat \ {0}

CallTypes ==
    /\ pc \in [Procs -> Labels]
    /\ call \in [Procs -> CallRecords]

\* Every variable has its type, and the record and the processes know only
\* ids that the sequence has given out.
TypeOK ==
    /\ RowTypes
    /\ CallTypes
    /\ calls \in Nat /\ faults \in Nat
    /\ effects \subseteq Prints \cup {0}
    /\ recorded \in Nat
    /\ lapsed \in BOOLEAN
    /\ row.id < nextId
    /\ \A p \in Procs : call[p].id < nextId

\* One process at a time executes under a key or under the lock, whoever crashes
\* and whatever statement of a claim or of its end fails, unless a process was
\* late, a renewal of the lock failed or was refused, or DeleteExpired deleted a
\* record that TryReclaim had claimed after the statement's snapshot.
OneAtATime ==
    ~lapsed => \A p, q \in Procs : pc[p] \in Running /\ pc[q] \in Running => p = q

\* Even when processes are late, a request executes only under a record of its
\* own payload: ErrIdempotencyKeyConflict.
OneRequestPerKey ==
    kind = "request" =>
        \A p \in Procs : pc[p] \in Running /\ row.id = call[p].id => row.print = call[p].print

\* Even then, a stored response, which every retry is answered with, is the
\* response of an execution of the same payload that succeeded.
RecordedMeansDone ==
    kind = "request" /\ row.status = "succeeded" => row.print \in effects

\* Without such a lapse, an operation whose response is stored is not executed
\* again during the record's lifetime, except at its very beginning:
\* a request that had found the previous record expired claims it without
\* looking at expires_at again.
NotRepeated ==
    [][(~lapsed /\ kind = "request" /\ recorded # 0 /\ recorded' = 0) =>
            \/ clock >= recorded + TTL
            \/ clock <= recorded + 2 * Delay]_vars

\* "locked_until should be renewed while lock is held"
\* (system_operation_lock_service_test.go).
RenewedWhileHeld ==
    \A p \in Procs : kind = "lock" /\ pc[p] = "run" =>
        row.id = call[p].id /\ row.status = "processing" /\ clock < row.locked

-----------------------------------------------------------------------------
(* Why: the inductive invariant.                                           *)

Found == Running \cup {"reclaimExpired", "reclaim"}

\* A process that runs under a record, or has found one, knows its id, and a
\* request has its payload.
PayloadMatches ==
    \A p \in Procs :
        /\ pc[p] \in Found => call[p].id # 0
        /\ kind = "request" /\ pc[p] \in Found /\ row.id = call[p].id =>
                row.print = call[p].print
        /\ kind = "request" /\ pc[p] = "markOk" => call[p].print \in effects

\* Time waits: nobody is beyond the time it is given.
NobodyLate ==
    ~lapsed => \A p \in Procs :
        /\ ~call[p].lost
        /\ call[p].at <= clock
        /\ pc[p] \in Claiming => call[p].at > 0 /\ clock <= call[p].at + Delay
        /\ pc[p] \in Running =>
            /\ call[p].at > 0
            /\ clock <= call[p].due
            /\ kind = "request" => call[p].due <= call[p].at + Delay + Run

\* A running process owns the record, and the record outlives it.
OwnsRecord ==
    ~lapsed => \A p \in Procs : pc[p] \in Running =>
        /\ row.id = call[p].id
        /\ row.id # 0
        /\ row.status = "processing"
        /\ kind = "request" =>
            row.locked = call[p].at + Lease /\ row.expires = call[p].at + TTL
        /\ kind = "lock" => call[p].due < row.locked /\ row.locked <= row.expires

\* A request that found an expired record began before anybody claimed it
\* since.
FoundBeforeClaim ==
    ~lapsed /\ kind = "request" =>
        \A p, q \in Procs : pc[p] = "reclaimExpired" =>
            /\ pc[q] \in Running => call[p].at <= call[q].at + Delay
            /\ recorded # 0 =>
                call[p].at <= recorded + Delay \/ recorded + TTL <= call[p].at

\* A request that would retry a failure found it failed.
RetriesFailure ==
    kind = "request" =>
        \A p \in Procs : pc[p] = "reclaim" => call[p].from = "failed_retryable"

\* The stored response is in the record until it expires.
ResponseKept ==
    ~lapsed /\ kind = "request" /\ recorded # 0 =>
        \/ row.id # 0 /\ row.status = "succeeded" /\ row.expires = recorded + TTL
        \/ row.id = 0 /\ recorded + TTL <= clock

\* Whoever is at work has a payload, and a response kept in the record is that of
\* the request the history knows.
Accounted ==
    /\ \A p \in Procs : pc[p] # "idle" => call[p].print \in Prints
    /\ ~lapsed /\ kind = "request" /\ row.status = "succeeded" => recorded # 0

\* Time, ownership and payload agree; this is inductive.
Inv ==
    /\ TypeOK
    /\ OneAtATime
    /\ PayloadMatches
    /\ RecordedMeansDone
    /\ NobodyLate
    /\ OwnsRecord
    /\ FoundBeforeClaim
    /\ RetriesFailure
    /\ ResponseKept
    /\ Accounted

-----------------------------------------------------------------------------
(* The refinement of ExecuteOnce.                                          *)

Executions == {<<p, call[p].print>> : p \in {q \in Procs : pc[q] \in Running}}

Answer == IF kind = "request" /\ row.status = "succeeded" THEN {row.print} ELSE {}

Promise == INSTANCE ExecuteOnce WITH
    Life     <- TTL,
    Grace    <- 2 * Delay,
    running  <- Executions,
    done     <- effects,
    answered <- Answer,
    since    <- IF kind = "request" THEN recorded ELSE 0,
    late     <- lapsed

\* The statements on the record, in whatever order the processes' statements
\* fall, amount to one execution at a time whose response, once MarkSucceeded
\* has stored it, no claim, cleanup or failure takes away before it expires, until
\* a process is late or DeleteExpired overtakes a claim.
KeepsPromise == Promise!Spec

=============================================================================
