# RelayDeck: a verification project in TLA+

RelayDeck is a self-hosted gateway in front of several AI providers. It is one
Go program that runs in any number of instances over one PostgreSQL database and
one Redis. This directory models the parts of it where correctness depends on
what several goroutines and instances do between each other's statements:
payments, refunds, idempotency and the system lock, the concurrency limits, batch
image jobs with the money held for them, and the refresh of OAuth credentials.
`PROJECT.json` says which lines each definition stands for.

## The system

| Component | State | Operations | What is hard |
|---|---|---|---|
| Payment orders (`payment_order.go`, `payment_fulfillment.go`, `payment_order_lifecycle.go`) | `payment_orders` row, redeem code, subscription note, audit log | end of the creation, webhook, reconciliation, cancel, expiry, retry, fulfilment under a lease | several workers on one order; every statement is a transaction of its own; crashes and errors behind a commit; late callbacks |
| Refunds (`payment_refund.go`) | order row, balance or subscription days, audit log, the gateway's refunds | request, execute (lock, deduct, call, roll back), finalise | money is taken before the gateway's answer is known; pending refunds are finalised by other requests; failed rollbacks |
| Idempotency and system lock (`idempotency.go`, `system_operation_lock_service.go`, `idempotency_repo.go`) | one row for each key | create, read, reclaim, mark, renew, delete expired | leases, expiry and the clock; late owners |
| Concurrency slots, wait queues, Live leases (`concurrency_service.go`, `concurrency_cache.go`, `gateway_helper.go`, `openai_live.go`) | Redis sorted sets and counters, release functions in memory | acquire, wait, release, failover, disconnect, Live lease and its refresh, cleanup | lost answers, TTLs, startup of other instances, a lease that replaces slots |
| WebSocket ingress leases | sorted set for each API key | acquire, heartbeat, release | heartbeat errors against the TTL |
| Batch image jobs (`batch_image_*.go`, `usage_billing_repo.go`) | job row, balance and frozen balance, billing claims, Redis queue and job lock, the provider's job | submit, cancel, resubmit, recover, poll, index, settle, release | money is frozen before the provider answers; seven kinds of process may end the job; capture and release are separate transactions |
| OAuth token refresh (`oauth_refresh_api.go`, `token_refresh_service.go`, admin handlers) | credentials and status of an account, distributed lock | refresh, recover from a race, add a project, record a failure, edit, reauthorise, switch on and off | a refresh token can be spent once; the lock may fail, expire or have two names; the failure is recorded after the lock is released; whole documents are written back late |
| Usage billing and billing cache | dedup rows, balances, cached balances and a write queue | apply usage, invalidate, queue writes | stale cache, full queue |
| Scheduler snapshots and outbox | outbox rows, watermark, Redis buckets | append, poll, rebuild | order of events against rebuilds |
| OpenAI WebSocket pool | connections, leases, waiting dials | acquire, pin, release, evict | limits, waiting dials, closed connections |
| Usage record pool | bounded queue, workers | submit, scale, stop | overflow, shutdown |
| API key auth cache | two cache levels | lookup, invalidate | invalidation between instances |

The rest (account choice, rate-limit marks, protocol conversion, moderation,
monitoring, administration, frontend, generated code) either keeps no state that
a later step depends on or does so in single statements; `PROJECT.json` lists
each part with the reason.

How the parts interact: the gateway handler takes a user slot, then an account
slot from the scheduler, forwards the request and submits its usage. A payment
webhook fulfils an order by calling the redeem, subscription and affiliate
services; admin requests that change money go through the idempotency
coordinator; updates, backups and restarts hold the system lock. A batch image job
moves money of the user's through the usage billing repository, and a request or
the background service that needs an account's access token refreshes it. All share state
only through the database and Redis, so each module below is complete in itself:
one order, one record or the sets of one group of keys, with all their workers.

## Modules

| Module | Role |
|---|---|
| `PaymentPromise` | abstract: paid, owed, granted once, shared once, settled |
| `PaymentOrder` | the order, statement by statement; implements `PaymentPromise` |
| `RefundPromise` | abstract: taken back once, paid by the gateway, refunded for good |
| `PaymentRefund` | the refund of a completed order; implements `RefundPromise` |
| `ExecuteOnce` | abstract: one execution at a time, none while its response lives |
| `Idempotency` | one idempotency record: requests of one key, or the system lock; implements `ExecuteOnce` |
| `ConcurrencySlots` | slots, wait counters and Live leases of users, accounts, API keys |
| `UsageLedger` | balance, frozen balance and the claims of billing requests |
| `HoldPromise` | abstract: frozen once, ended once, by the payment of a delivered job or by its return |
| `BatchImage` | one batch image job and its hold; extends `UsageLedger`, implements `HoldPromise` |
| `TokenRefresh` | the OAuth credentials of one account |
| `MC*` | instances for TLC (model values, symmetry) |
| `*Proofs` | theorems and proofs (`BatchPromiseProofs`: the refinement of `HoldPromise`) |

Conventions. Each SQL statement, transaction, Lua script, Redis command or
provider call is one step of the worker that issues it (`pc` is its next one), so
everybody else can run between any two. Failures, crashes, stalls and lost
answers are taken from a budget `faults`. A failed call that may have committed
is modelled both ways. History variables (`granted`, `taken`, `effects`,
`lapsed`, `lapses`, ...) are never read by a guard of the code's steps. Definitions marked
"Mutation" are plausible bugs; no specification uses them.

### PaymentOrder

A worker runs one operation on one order: webhook, admin retry, reconciliation,
cancellation or expiry. `status`, `aged` and `holders` are the row. The code
compares `updated_at` only with "five minutes ago" (`aged`: grace period and
lease have the same length) and with a version read earlier (`holders`: the
workers whose version is current), so no clock is needed. `code`, `note` and
`audit` are the idempotency keys of the grants. The provider pays, mispays or
closes on its own, and delivers webhooks any number of times.

`creating` is what `CreateOrder` has still to do once the PENDING order is committed.
`InvokeProvider` opens the payment and stores its address in the row, by id;
if either fails (the store may have been made) `FailCreation` writes FAILED by
id, whatever the order has become meanwhile, and a process that dies
there leaves the order pending (`AbandonCreation`). So there are FAILED orders nobody
paid. `paidAt` is the row's `paid_at`, which `RetryFulfillment` asks for before it
fulfils such an order: `GrantedMeansPaid` rests on this check, and its mutant drops
it. `ForwardOnly` excepts the one write by id of a creation that failed although the
payment had been opened. In the promise it is `EndCreation`: an order that was paid
while its creation was unsure may be owed again, once, even if it was settled; a
FAILED order nobody paid counts as unpaid there.

The grant of a balance order is `Redeem`, one transaction; that of a subscription
order is the assignment with the order's note; the rebate is a claim in the audit
log and an accrual in one transaction. Assumed: the affiliate service is wired
(as in `wire.go`), and two updates never get the same `updated_at`.

### PaymentRefund

An admin request runs `PrepareRefund` and `ExecuteRefund`, or
`QueryAndFinalizeRefund`. `status` is the lock. `taken` is what the user has lost
for this order, `upstream` what the gateway did for each amount: refunds open and
paid, and whether it refused one. `keyed` are the providers that build a key from
order and amount, so that a repeated refund is the same one, and whose refunds
can be queried (Stripe, Airwallex, WeChat); the others (Alipay puts the time into its
key, EasyPay sends none) may pay as often as they are asked, up to the payment,
and cannot be queried. A query for which there is no pending record sends the
order's refund amount, not the gateway's: `GuessRefund` asks about some amount.

`lapses` records what the code cannot repair: a rollback that failed
(`rollback`), a deduction that was committed although it reported an error, so
that the order is open again with the goods taken (`untracked`: an extension that
cannot be read back, or a lost answer), and a finalisation that writes by id over an
order that has moved on (`stale`).

`RefundPromise` is what remains when requests, plans and audit records are taken
away: an order that is open, being refunded, pending or refunded. Its excuses
are kept apart. A failed rollback or an untracked deduction voids what is promised of
the deduction and nothing else; without keys an amount may be asked for and paid more
than once, but for each payment it was asked; a stale finalisation voids the lock and the finality as well; two amounts left
pending void the amount. Whatever went wrong, the gateway is asked under a lock or
after a stale finalisation only, and a traded order becomes refunded only when the
gateway has paid the amount recorded, or two amounts were left pending.

### Idempotency

`clock` is read by everybody. Time passes only while nobody would exceed the
times it is given (`Delay` to claim, `Run` to execute, `Renew` between renewals);
`Stall` lifts this and sets `lapsed`; so do a renewal of the lock that fails or is
refused, and a cleanup that overtakes a claim. `DeleteExpired` is one SQL statement
and two steps: `SelectExpired` is the snapshot that its `WITH` clause reads, and the
deletion then looks at the id alone, because READ COMMITTED checks a row that
changed meanwhile only against the `WHERE` clause of the `DELETE`. A record that
`TryReclaim` has claimed in between is deleted under its owner. `kind` chooses between the
requests of one key and the system lock, which share the repository's statements.

`ExecuteOnce` knows executions, payloads and one kept response. An execution starts
only when there is none and no response that could be replayed, with one exception
that the code really has: within twice the claim's longest duration of the request
that is answered, a request that had found the previous record expired may execute
again. A response is kept by the execution that produced it, and lost only at the end
of its life, or by such a cleanup. The lock keeps no response, and is the first half of the promise alone.

### ConcurrencySlots

A member of a sorted set is `fresh` or `old` (beyond the TTL, not yet swept).
`held` are the keys whose release function a request still has, and `session` the
Live session it left behind. A request has one ID for each key in the model, where
the code draws a new one for each attempt; so it does not ask an account again
where a slot of its own is left behind. Reading a load, cleanup and the
startup of another instance happen on any key at any time, which includes what
the index of active keys would propose. `lapsed` are the keys where a slot or
lease in use was lost: it reached its TTL under its request, or the startup
cleanup of another instance removed it.

Two paths of the code fall short of what a limit and a release function promise, and
the properties say so. When the client of a forwarded request goes away,
`wrapReleaseOnDone` releases its slots at once, while the handler goes on reading the
upstream's answer for billing (`gateway_upstream_response.go:1084`): the request is in
mode `drain`, it still counts in `Loading`, and `LimitKept` bounds everybody else.
`newSelectionResult` loads the chosen account after its slot was acquired, and returns
without the release function when that fails (`gateway_scheduling.go:1527`; the OpenAI
scheduler releases first): `SelectionFails` has both, `dropped` are the requests it
happened to, and `NothingForgotten` lets an account's slot of theirs be left to its
TTL, never the user's slot or a lease.

### UsageLedger and BatchImage

`UsageLedger` has the three transactions of `applyBatchImageBalanceHold`: reserve,
capture and release. Each claims its request ID and applies its effect, or neither.
Capture does not ask for the hold or the release, and the release asks only for the
hold; what keeps them apart is the job's state, in `BatchImage`.

`status`, `columns`, `cost` and `retries` are the job's row, `ready` and `keys` the
queue's list, sets and in-flight key, `lock` the job's lock. The processes are
`Submit`, the user's other requests (cancel, submit again, delete), the recovery of
abandoned submissions, and the workers. Where the code reads and then branches, the
read is the step: Cancel decides on a row that may be stale when it acts, and so
does every worker. The provider finishes, fails or is cancelled on its own. The
results of a job are abstracted to what they cost; every `SETTLEMENT_*` error is the
one of a cost above the hold or of a failed capture, because the code treats them
alike. An error of the processor that nothing counts (the provider is not registered,
the account is gone or does not fit, the provider does not answer, the results cannot be
opened) is `ProcessFails`: `batch_image_worker.go` requeues the job, as often as it takes.

`lapses` names seven events after which the code has no second line of defence, and
each property names those it needs to be absent. All of them are reachable, and each
is a weakness of the code that a test would hardly reach:

- `releasedEarly`: a job is cancelled or recovered between its creation and its
  hold. The release is claimed without effect, and the hold that follows stays
  frozen, since its release request has been used up.
- `holdUnknown`: the hold is reserved and the answer lost. Submit fails and hides
  the job without a release.
- `captureUnknown`: the capture stands and its answer is lost. If the retries are
  used up the hold is released as well, at the expense of the user's other holds.
- `overlap`: the job's lock expires under a worker. A straggler may acknowledge a
  job that another one is settling, or fail it.
- `unqueued`: Submit dies, or Enqueue fails, after the provider took the job. Only a
  resubmission or a cancellation by the user puts it in the queue.
- `stranded`: a process dies between failing a job and releasing its hold, where no
  queue entry makes anybody look again.
- `recoded`: a repeated submission writes `QUEUE_FAILED` over a settlement's error
  code, so that the retry limit is not recognised any more.

`HoldPromise` has neither processes nor queue: a job is accepted, running, settling,
delivered or refunded, and money moves by the freeze, the payment and the return
alone. `captureUnknown`, `overlap` and `recoded` excuse a payment of a refunded job,
or a return beside a payment; a release that came before its hold counts as none.
`AtWorstOneHold` says how bad it can become then: the frozen balance of the user's
other jobs loses at most this job's hold, and only by both being applied.

### TokenRefresh

A credential document is its refresh token: a login and how often it was refreshed.
`live` is the provider's side: the one token of each login that it still accepts. Not
every provider is as strict (Google keeps a refresh token), but the code asks nobody.
`due` are the credentials whose access token is about to expire, which is all that
`NeedsRefresh` looks at. A node stands for an attempt; retries and the next cycle are
new attempts. `kind` chooses between Grok, whose updates of credentials and status are
conditional on the credentials read, and the other platforms, whose updates are not.
What only some of these do is allowed to all of them.

Antigravity and Gemini name the lock after the project of the copy of the account that
the caller has, or after the account if that copy has none. So there are two locks,
`account` and `project`, and once credentials have been written (`named`) a caller may
come with either; the first write may be the one that adds the project. Two attempts
with different locks are an `overlap` and need no failure. Requests of these platforms
also add a missing project themselves: they write the document that they read long
before (`held`) back, without lock or condition. `ratelimit_service.go:463-470`
describes the damage and removed such a write there; these two are left.

`status` tells two errors apart, as `error_message` does: `refused`, set for a permanent
failure of a refresh, and `banned`, set for anything else by `handleAuthError`, its
relatives in `ratelimit_service.go`, `openai_team_linked_error.go` and
`antigravity_internal500_penalty.go`, and the operator. `verdicts` are refusals on their
way from `RefreshIfNeeded` to `SetError`: the lock is released before they are recorded.
An error also clears `schedulable`, which the background service asks for (`Listed`).
`ClearError` does not set it again, so an account whose error was cleared, a new login
included, is active and not refreshed until an operator makes it schedulable.
`DueRefreshed` therefore speaks of listed accounts only.

The operator edits the account (`UpdateAccount` reads the row and writes all of it
back), refreshes it by hand, which takes no lock, logs in again
(`ApplyOAuthCredentials`: an update and then the clearing of the error), switches the
account on or off, or clears the error. Whether an update finds the account schedulable
is left open, as it may be switched at any time. `lapses` records what the properties
except: `overlap` (besides two locks, Redis failed and the attempt went on without the
lock, or the lock expired under a request, whose HTTP client waits longer than the
lock's 60 seconds on some platforms), `lost` (the provider rotated and the result was
not stored, or it dropped the login), `writeback` (the operator's edit or refresh
overlapped an attempt, or a request wrote back credentials that were not the stored
ones any more), `reauthorized` (a new login overlapped an attempt), `uncleared` (a new
login was stored and its error not cleared). So the properties also say where the code
is weak: two attempts at once may put a healthy account in error on every platform,
because a refusal may be recorded before the other attempt stores its credentials; an
edit or an added project may restore a spent token; without conditional updates an
attempt may overwrite a new login.

## Runs

| Run | Result | What it shows |
|---|---|---|
| `order_safety` | pass | two workers and two failures on one order, from the end of its creation: granted once and only when paid, shared once, completed only when both are done, never taken back; `PaymentPromise` is implemented |
| `order_liveness` | pass | redelivery of the webhook alone completes a paid order through a failure, a crash or an abandoned lease |
| `order_stale_owner` | violation | a worker that stalls between taking the lease and reading its version adopts its successor's |
| `order_late_callback` | violation | a payment notified after expiry and grace is acknowledged and never reconciled |
| `refund_safety` | pass | the status is a lock, a refunded order was refunded by the gateway, nothing is taken without a refund, as long as no rollback failed, no deduction was committed under an error and no finalisation was stale; `RefundPromise` is implemented, which includes that a refund is final |
| `refund_hidden_detail` | violation | the first pending refund's record hides the second's: `refund_amount` is one that the gateway never paid |
| `refund_retry` | violation | a retry after a failed rollback skips the deduction, and the finalisation of its pending refund deducts again |
| `idempotency_safety` | pass | one execution at a time unless somebody is late or the cleanup overtakes a claim; always under its own payload; a stored response is a real one and not executed again; `ExecuteOnce` is implemented |
| `system_lock_renewal` | violation | an operation that reclaims the lock's record cannot renew it |
| `slots_safety` | pass | limits, queues and leases of three requests with a failure anywhere |
| `batch_image` | pass | one job, two workers, two failures: charged once, the hold captured or released once and in the end, completed only when paid, never lost from the queue, never taken back once ended (the end needs the provider, the account and the results to be available some day); `HoldPromise` is implemented, and a lapse costs one hold at most |
| `token_refresh` | pass | two nodes, a request, an operator, one failure: newer credentials are kept, an account marked as refused has a refused token, no token is spent twice unless lock, storage or a write-back gave cause, and a listed account gets new credentials or leaves the list |

The five violations are described with the lines they contradict under
"findings". Each is a disagreement between the code and a comment, a test or a
document; the safety runs state what holds in spite of it (after the stale
owner's overwrite the order is still granted only once, and so on).

### Bounds

Orders share no state, and neither do idempotency keys, so one of each is enough.
Two workers, admins or processes make every race between an operation and
another; a third would have to interfere in the window of two, and the proofs
cover any number. Bounds:

- `order_safety`: two failures, enough for a failed creation and a crash during
  fulfilment, or a crash and an error behind a commit in the next attempt; `LostReads`
  on. With three failures (3.0 million states) the same properties hold.
- `refund_safety`: `Amount = 2` distinguishes a partial from a full refund,
  `MaxHeld = 3` a user who has spent part of it; three admin requests are an
  attempt, its retry and a finalisation; one failure. With two (5.6 million states)
  the same properties hold; the run is kept short.
- `refund_hidden_detail` needs `Amount = 3` for two different partial refunds.
- `idempotency_safety`: `TTL = 4`, `Lease = 3`, `Run = 2` and one for the others
  are the smallest times that satisfy `TimesAssumption` and let an execution
  last beyond a tick; seven ticks go through a whole lifetime and into the next
  record. The renewal run has nine ticks, for a second operation.
- `slots_safety`: a user with limit 2 and an account with limit 1, so that
  either may refuse; three requests, so that one waits while another hands over
  to a lease; queue of one; one failure (904 thousand states), as each of the lapses
  that the properties except takes one. Clients go away and selections fail freely.
- `batch_image`: the hold is 2, next to 2 of another job, so that a hold ended twice
  shows; the balance covers the hold or does not; the results cost less than the hold
  or more; two retries (five in the code) distinguish a first failure from the last;
  two workers and two failures, as each lapse takes one and its consequence at most
  another. 511 thousand states with liveness.
- `token_refresh`: one refresh of each login and one new login; one attempt or one
  added project by a request besides the attempts of the background; one call of the operator that writes the
  row; one failure; 891 thousand states with liveness. Errors are cleared freely. Two
  locks and stale write-backs need no failure; each of the other lapses takes one. The
  safety properties and the whole of `TokenInv` were also checked with two failures
  (5.2 million states) and with two calls of the operator (8.0 million).

Processes of a kind run the same code: symmetry is used in the safety runs, never
with liveness. Deadlock is not checked where a model's budget of calls or time
ends, or an order is settled; `ConcurrencySlots` is checked for it.

### Fairness

`order_liveness` and `order_late_callback` assume: a goroutine that runs goes on
(weak fairness of each worker's steps: each has a request timeout and the
database answers or fails); the provider delivers a webhook again until it is
acknowledged, and a server takes it in the end (strong fairness, because workers
are busy in between); five minutes pass (weak fairness of `Age`). Nothing is
assumed of cancellation, retry, reconciliation or expiry, nor that failures
happen. `LostReads` is off: `confirmPayment` and `alreadyProcessed` acknowledge a
webhook whose order they cannot read, and then nothing delivers it again.

`batch_image` assumes that every process goes on: Submit, a request of the user once
it has begun, the workers, the mover, the stale scan and the recovery, all of which
are loops or bounded by timeouts; that a lock nobody refreshes expires; and that the
provider ends its job. Nothing is assumed of new requests by the user. `HoldEnds` also
assumes, as `Answered`, that the processor's uncounted errors stop some day: while they
last, a job of a deleted account, say, is requeued every time and its hold stays frozen
for as long, and no limit in the code ends that.

`token_refresh` assumes that the background service begins an attempt for an account
that it lists when a lock it may name is free (it does so in every cycle), carries it on, and
records a permanent failure; and that a lock without an owner expires. Requests, the
operator and the passing of time owe nothing.

## Proofs

Every safety property of the passing runs is proved for all values of the
constants; `PROJECT.json` lists the theorems. In each module the properties are
conjuncts or consequences of an inductive invariant: `Inv`, which a run checks too,
`BatchInv` and `TokenInv`. Type correctness (`TypeCorrect`) and the finality of a
refund (`Finality`) are theorems of their own; the runs check the types as part of
`Inv`, and the finality as part of the promise, where a refunded order keeps its phase
and its amount.

Four modules are proved to implement an abstract specification (`Refinement` in each
proof module): initial states map to initial states, and under the inductive invariant
each step maps to a step of the promise or to none. The promises relate state to state
where invariants cannot: that nothing but the named steps moves the money, starts an
execution or ends a phase.

- **PaymentOrder.** A property such as `GrantedOnce` says nothing about why a
  worker does not grant again. `KeysMatchGrants` does: each grant's idempotency
  key tells exactly whether it was made. `OwedMeansPaid` says that
  an order past the unpaid statuses is paid unless it is FAILED, and then if paid_at
  is set; `CreationFirst` that nobody pays before the payment is opened.
  `WorkersAreRight` says that what a worker
  found out about its order stays true while others run, and `ClaimIsExclusive`
  that an uncommitted rebate claim is the only one. Leases are not needed for any
  of it, which is why the stale owner does no harm beyond the status. The
  refinement theorem maps each statement to a step of `PaymentPromise` or to none.
- **PaymentRefund.** `OneRefundAtATime` holds unless a finalisation was stale;
  under it `PlanMatchesTaken` ties the money taken to the plan of the running
  request, and `AmountsAreHung` follows each amount from the gateway's answer to
  the record that finalises it. In the refinement `LockedBehind` and `UntouchedThen`
  discharge the promise's guards: whoever is behind the lock holds it, and nothing is
  taken of an order that waits. One lemma for each statement then names its step.
- **Idempotency.** `TimesAssumption` (`Delay + Run < TTL`,
  `Delay + Renew < Lease <= TTL`) is what configuration and request timeouts must
  guarantee. `NobodyLate` and `OwnsRecord` say that a running process's record is
  still its own; `FoundBeforeClaim` bounds how stale the finding of an expired
  record may be, which gives the `2 * Delay` in `NotRepeated`. `OneRequestPerKey`
  and `RecordedMeansDone` do not depend on time. The refinement needs one conjunct
  more, `Accounted`: without a stall, a response in the record is one whose request is
  known. `ClaimAllowed` is its heart: whoever creates or reclaims the record is alone,
  and finds no response that could still be replayed.
- **ConcurrencySlots.** `SlotsTracked` and `LeasesTracked`: what is in use and not
  lost is in Redis. `HeldInOrder`: a Live call keeps its slots until its lease
  replaces them, and a forwarded request until it is done or its client goes away.
  Then the different requests in the two sets of a key
  (`HoldersBounded`) are what counts, and a lease beside its own call's slots adds
  nobody. The script admits a lease at one over the limit, which is safe exactly
  because the call still has the slots, and `StoreBounded` says that one is all
  there ever is. `KeysAssumption` says that users, accounts and API keys have
  different Redis keys, and that API keys have no limit.
- **BatchImage.** `LockInv`: without an expired lock, what a worker has read stays
  true until it acts, and every queue entry belongs to a job that is in flight or
  done. `SubmitInv` says that only Submit names the job, and last, so that an unnamed
  job can be refunded and a named one is in the queue. `EndInv` is why capture and
  release exclude each other although neither looks at the other's claim: release
  needs the retries to be exhausted, capture needs them not to be, and a capture that
  was answered is never followed by another settlement error. `ReleaseInv`,
  `SettleInv`, `QueueInv` and `EarlyInv` tie who is about to release, the cost, the
  queue's structures and a refund before the hold to the status. `ChargedOnce` needs
  no lapse to be absent. The refinement adds `NamedInv`: a job that is settled has a
  provider name and so, by `SubmitInv`, a hold, which the capture itself does not ask
  for. `DamageBounded` follows from the refinement: the frozen balance is what the
  three steps of `HoldPromise` make of it, each at most once, and a capture was
  preceded by its hold.
- **TokenRefresh.** `TurnInv`: no stored or read token is ahead of the provider, and a
  refused one is behind it for good. `LockInv`: only a lock's owner is past it, and no
  two attempts have different locks.
  `LoginInv` orders what attempts have read against what is stored, so that of the
  tokens just refreshed the newest is stored last. `HealthInv` says that a refusal on
  its way names credentials that no attempt can still refresh; `LossInv` follows the
  newest token from the provider to the row. `AdminInv` says the same of the
  operator's calls that nothing overlapped. `NewestKept` is an action property and
  follows from the invariant before the step.

Only model-checked: `NotificationSettles`, `HoldEnds` and `DueRefreshed`, which are
liveness under fairness, and the violations.

## Not modelled

Wording of records and messages, metrics, notifications; how amounts are
computed and rounded (an amount matches or does not); provider selection; the
redaction of stored responses; requests without an idempotency key, which execute
at once. In `ConcurrencySlots`: the index of active keys, load queries and their
cache, API-key slots that only serve statistics, and which of observer and proxy
controls a Live session (either may refresh or end it while it is open).

In `BatchImage`: the parsing of results and prices, downloads, the clean-up of input
and output files, the seven-day TTL of the in-flight key, and `output_deleted` of a
job that was not completed. In `TokenRefresh`: the cooldown after the last retry, rate
gates and the circuit breaker of a provider, the cached access token and its version
check (`token_cache_invalidator.go`, a check followed by a set), the scheduler's
notifications, the status `inactive`, accounts that share the lock of one project, and
bulk updates, which merge single fields. The sync from CRS (`crs_sync_service.go`)
refreshes without the lock, as the operator does by hand. Agent identities and personal
access tokens concern accounts that are never refreshed.

`docs/BATCH_IMAGE_MVP.md:168` names the settlement's request ID
`batch_image_settlement:{batch_id}`; the code captures under
`batch_image_capture:` (`batch_image_billing_hold.go:14`). No property depends on it.

Most of the repository's lines stay outside. The largest part is generated by ent
(`backend/ent`), and its statements are modelled where they are used. Next come the
conversion of requests and streams between providers' protocols, which is text
transformation, the frontend, and handlers that read or write one row. The protocols
between processes are a small part of the code and the part that is modelled.


## Plan

Still to do, in this order.

1. `SchedulerOutbox`: append, poll, watermark and rebuild; eventually every change is
   in the snapshot (`scheduler_snapshot_service.go`).
2. The billing cache in front of `UsageLedger` (`billing_cache_service.go`): a cached
   balance does not survive its invalidation, a full write queue falls back.
3. WebSocket ingress leases, as an extension of `ConcurrencySlots`.
4. The OpenAI WebSocket pool and the usage record pool.
5. Promises for `ConcurrencySlots` (a semaphore with its queue) and `TokenRefresh` (one
   chain of tokens for each login), with their refinements.
