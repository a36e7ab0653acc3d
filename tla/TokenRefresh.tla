---------------------------- MODULE TokenRefresh ----------------------------
(***************************************************************************)
(* The OAuth credentials of one account: the processes that refresh them   *)
(* when a request or the background service finds them about to expire,    *)
(* the requests that add a project to them, those whose answers put the    *)
(* account in error, the operator who edits or reauthorizes the account,   *)
(* and the provider, which accepts a refresh token once.                   *)
(* Source: backend/internal/service/oauth_refresh_api.go,                  *)
(* token_refresh_service.go, antigravity_token_provider.go,                *)
(* gemini_token_provider.go, ratelimit_service.go,                         *)
(* grok_credential_failure.go, account_credentials_persistence.go,         *)
(* admin_account.go, backend/internal/handler/admin/account_handler.go and *)
(* backend/internal/repository/gemini_token_cache.go, account_repo.go.     *)
(*                                                                         *)
(* A process has one attempt for each lock at a time (the in-process       *)
(* mutexes), and a node stands for an attempt.  A retry, and the next      *)
(* cycle of the background service, are new attempts.  Left out: the       *)
(* ten-minute cooldown after the last retry, the cached access token and   *)
(* the scheduler's notifications.                                          *)
(***************************************************************************)
EXTENDS Naturals, FiniteSets

CONSTANTS
    Nodes,
    NoNode,
    MaxTurns,     \* bound on the refreshes of one login
    MaxLogins,    \* bound on the logins
    MaxRequests,  \* bound on attempts and additions made by requests
    MaxEdits,     \* bound on the operator's calls that write the account's row
    MaxFaults     \* bound on failed calls, lost answers, deaths, revocations and bans

ASSUME TokenAssumption ==
    /\ IsFiniteSet(Nodes) /\ NoNode \notin Nodes
    /\ MaxTurns \in Nat \ {0} /\ MaxLogins \in Nat \ {0}
    /\ MaxRequests \in Nat /\ MaxEdits \in Nat /\ MaxFaults \in Nat

\* A credential document stands for its refresh token: the login it comes from
\* and how often it has been refreshed.
Logins      == 1..MaxLogins
Credentials == [login : Logins, turn : Nat]
Paths       == {"background", "request"}
Kinds       == {"grok", "other"}
Keys        == {"account", "project"}
Statuses    == {"active", "refused", "banned"}
First       == [login |-> 1, turn |-> 0]

VARIABLES
    kind,      \* the platform: Grok, or another one, which may have projects
    creds,     \* accounts.credentials
    status,    \* accounts.status, and what error_message says of an error: that the
               \* refresh token was refused, or anything else
    schedulable,
    named,     \* a project_id may have been stored: copies with and without are in use
    due,       \* the credentials whose access token is about to expire
    live,      \* the provider: the turn of each login that it still accepts
    logins,    \* the logins made so far
    lock,      \* for each key, the node that has set that refresh lock in Redis
    pc,        \* next step of each node
    path,      \* who makes the node's attempt
    key,       \* the lock that the node's caller names
    snap,      \* the credentials that the node read under the lock
    owners,    \* the nodes that release the lock when they return
    verdicts,  \* credentials whose refusal has not been recorded yet
    held,      \* credentials that requests have read and are going to write back
    admin,     \* next step of the operator's call
    put,       \* the credentials that it writes
    seen,      \* the status that it writes
    requests,  \* attempts and additions that requests may still make
    edits,     \* calls that the operator may still make
    faults,    \* failures still allowed
    lapses     \* history: see Lapses

account  == <<creds, status, schedulable, named>>
provider == <<live, logins>>
attempts == <<pc, path, key, snap, owners>>
desk     == <<admin, put, seen>>
budget   == <<requests, edits, faults>>
vars     == <<kind, account, due, provider, lock, attempts, verdicts, held, desk, budget,
              lapses>>

Labels      == {"idle", "reread", "call", "recover", "refused", "persist", "unlock"}
\* Between the reading of the credentials and the last use of what was read.
Holding     == {"call", "recover", "refused", "persist"}
AdminLabels == {"idle", "write", "call", "update", "save", "apply", "clear"}

\* What went wrong, where the code has no second line of defence:
\*   overlap      an attempt went on without the lock, because Redis failed, or
\*                because the lock expired; or beside another one with another lock
\*   lost         the provider refreshed and the new credentials were not stored,
\*                or it dropped the login
\*   writeback    an attempt overlapped an operator's edit or refresh, or a request
\*                wrote back credentials that were not the stored ones any more
\*   reauthorized an attempt overlapped an operator's new login
\*   uncleared    a new login was stored and the error status was not cleared
Lapses == {"overlap", "lost", "writeback", "reauthorized", "uncleared"}

TypeOK ==
    /\ kind \in Kinds
    /\ creds \in Credentials /\ due \in Credentials /\ put \in Credentials
    /\ status \in Statuses /\ seen \in Statuses
    /\ schedulable \in BOOLEAN /\ named \in BOOLEAN
    /\ live \in [Logins -> Nat]
    /\ logins \in Logins
    /\ lock \in [Keys -> Nodes \cup {NoNode}]
    /\ pc \in [Nodes -> Labels]
    /\ path \in [Nodes -> Paths]
    /\ key \in [Nodes -> Keys]
    /\ snap \in [Nodes -> Credentials]
    /\ owners \subseteq Nodes
    /\ verdicts \subseteq Credentials
    /\ held \subseteq Credentials
    /\ admin \in AdminLabels
    /\ requests \in Nat /\ edits \in Nat /\ faults \in Nat
    /\ lapses \subseteq Lapses

\* An account with one login, whose access token is about to expire.
Init ==
    /\ kind \in Kinds
    /\ creds = First /\ due = First /\ put = First
    /\ status = "active" /\ seen = "active"
    /\ schedulable = TRUE /\ named = FALSE
    /\ live = [l \in Logins |-> 0]
    /\ logins = 1
    /\ lock = [k \in Keys |-> NoNode]
    /\ pc = [n \in Nodes |-> "idle"]
    /\ path = [n \in Nodes |-> "background"]
    /\ key = [n \in Nodes |-> "account"]
    /\ snap = [n \in Nodes |-> First]
    /\ owners = {}
    /\ verdicts = {}
    /\ held = {}
    /\ admin = "idle"
    /\ requests = MaxRequests /\ edits = MaxEdits /\ faults = MaxFaults
    /\ lapses = {}

Goto(n, label) == pc' = [pc EXCEPT ![n] = label]

\* The attempt is over, and so are its variables.
Return(n) ==
    /\ Goto(n, "idle")
    /\ path' = [path EXCEPT ![n] = "background"]
    /\ key' = [key EXCEPT ![n] = "account"]
    /\ snap' = [snap EXCEPT ![n] = First]
    /\ owners' = owners \ {n}

AdminReturns == admin' = "idle" /\ put' = First /\ seen' = "active"

Fault ==
    /\ faults > 0
    /\ faults' = faults - 1

Lapse(names) == lapses' = lapses \cup names

\* Until credentials are written, every copy of them has the same project or none.
Store(c) == creds' = c /\ named' = (kind # "grok")

-----------------------------------------------------------------------------
(* The provider: a refresh token is accepted once.                         *)

Live(c) == live[c.login] = c.turn

Refreshed(c) == [c EXCEPT !.turn = @ + 1]

Rotate(c) ==
    /\ Live(c)
    /\ live' = [live EXCEPT ![c.login] = @ + 1]

ProviderRevokes ==
    /\ Fault
    /\ live' = [live EXCEPT ![creds.login] = @ + 1]
    /\ Lapse({"lost"})
    /\ UNCHANGED <<kind, account, due, logins, lock, attempts, verdicts, held, desk,
                   requests, edits>>

\* Time passes: the access token of the current credentials is about to expire.
AccessTokenAges ==
    /\ due # creds /\ creds.turn < MaxTurns
    /\ due' = creds
    /\ UNCHANGED <<kind, account, provider, lock, attempts, verdicts, held, desk,
                   budget, lapses>>

-----------------------------------------------------------------------------
(* RefreshIfNeeded.                                                        *)

\* Antigravity and Gemini name the lock after the project_id of the account that
\* the caller passes in, if it has one, and else after the account.
CacheKeys == IF named THEN Keys ELSE {"account"}

\* The background service lists the active, schedulable accounts that need a refresh.
Listed == status = "active" /\ schedulable /\ creds = due

\* A request may come with an account that was read long ago.
Begin(n, p, k) ==
    /\ pc[n] = "idle" /\ k \in CacheKeys
    /\ \/ p = "background" /\ Listed /\ UNCHANGED requests
       \/ p = "request" /\ requests > 0 /\ requests' = requests - 1
    /\ path' = [path EXCEPT ![n] = p]
    /\ key' = [key EXCEPT ![n] = k]
    /\ Goto(n, "reread")

\* SETNX with a TTL.  An attempt that finds the key returns at once.
AcquireRefreshLock(n, p, k) ==
    /\ Begin(n, p, k)
    /\ lock[k] = NoNode
    /\ lock' = [lock EXCEPT ![k] = n]
    /\ owners' = owners \cup {n}
    /\ Lapse(IF \E m \in Nodes : pc[m] # "idle" /\ key[m] # k THEN {"overlap"} ELSE {})
    /\ UNCHANGED <<kind, account, due, provider, snap, verdicts, held, desk, edits,
                   faults>>

\* Redis fails, before the key is set or after it: the attempt goes on without
\* the lock and does not release it.
AcquireFails(n, p, k) ==
    /\ Begin(n, p, k)
    /\ Fault
    /\ lock' \in {lock, [lock EXCEPT ![k] = IF @ = NoNode THEN n ELSE @]}
    /\ Lapse({"overlap"})
    /\ UNCHANGED <<kind, account, due, provider, snap, owners, verdicts, held, desk,
                   edits>>

\* What the overlap of an attempt and the operator's call is recorded as.
OperatorAt == CASE admin \in {"write", "call", "update", "save"} -> {"writeback"}
                [] admin = "apply" -> {"reauthorized"}
                [] OTHER -> {}

\* Mutation: the account that the caller passed in is used without reading it again.
RereadSkipped(n) ==
    /\ pc[n] = "reread"
    /\ snap' = [snap EXCEPT ![n] = due]
    /\ Goto(n, "call")
    /\ UNCHANGED <<kind, account, due, provider, lock, path, key, owners, verdicts,
                   held, desk, budget, lapses>>

\* The account that is read again under the lock may be inactive, or refreshed by
\* somebody else in the meantime.  A request of Grok also wants it schedulable.
Eligible(n) ==
    /\ status = "active" /\ creds = due
    /\ kind = "grok" /\ path[n] = "request" => schedulable

Reread(n) ==
    /\ pc[n] = "reread"
    /\ \/ /\ Eligible(n)
          /\ snap' = [snap EXCEPT ![n] = creds]
          /\ Goto(n, "call")
          /\ Lapse(OperatorAt)
          /\ UNCHANGED faults
       \/ /\ ~Eligible(n)
          /\ Goto(n, "unlock")
          /\ UNCHANGED <<snap, faults, lapses>>
       \/ /\ Fault
          /\ Goto(n, "unlock")
          /\ UNCHANGED <<snap, lapses>>
    /\ UNCHANGED <<kind, account, due, provider, lock, path, key, owners, verdicts,
                   held, desk, requests, edits>>

\* The provider refreshes, and the answer may be lost or come after the deadline;
\* or it refuses the token, in words that isInvalidGrantError knows or in others;
\* or it does neither.
CallProvider(n) ==
    /\ pc[n] = "call"
    /\ \/ /\ Rotate(snap[n])
          /\ \/ Goto(n, "persist") /\ UNCHANGED <<faults, lapses>>
             \/ Goto(n, "unlock") /\ Fault /\ Lapse({"lost"})
       \/ /\ ~Live(snap[n])
          /\ Goto(n, "recover") \/ Goto(n, "refused")
          /\ UNCHANGED <<live, faults, lapses>>
       \/ /\ Fault
          /\ Goto(n, "unlock")
          /\ UNCHANGED <<live, lapses>>
    /\ UNCHANGED <<kind, account, due, logins, lock, path, key, snap, owners, verdicts,
                   held, desk, requests, edits>>

\* A stored refresh token other than the one that was refused: somebody else has
\* refreshed it.  A failed read counts as no change.
TryRecoverFromRefreshRace(n) ==
    /\ pc[n] = "recover"
    /\ \/ Goto(n, IF creds # snap[n] THEN "unlock" ELSE "refused") /\ UNCHANGED faults
       \/ Fault /\ Goto(n, "refused")
    /\ UNCHANGED <<kind, account, due, provider, lock, path, key, snap, owners,
                   verdicts, held, desk, requests, edits, lapses>>

\* Mutation: the update of Grok without its condition.
UpdateUnconditionally(n) == Store(Refreshed(snap[n]))

\* Grok stores the new credentials only where it finds the old ones; every other
\* platform stores them whatever it finds.
UpdateCredentials(n) ==
    IF kind = "grok" /\ creds # snap[n]
    THEN UNCHANGED <<creds, named>>
    ELSE Store(Refreshed(snap[n]))

Persist(n) ==
    /\ pc[n] = "persist"
    /\ \/ UpdateCredentials(n) /\ UNCHANGED <<faults, lapses>>
       \/ UpdateCredentials(n) /\ Fault /\ UNCHANGED lapses
       \/ Fault /\ Lapse({"lost"}) /\ UNCHANGED <<creds, named>>
    /\ Goto(n, "unlock")
    /\ UNCHANGED <<kind, status, schedulable, due, provider, lock, path, key, snap,
                   owners, verdicts, held, desk, requests, edits>>

\* The deferred DEL, whoever has the key, which may fail; and what the caller is
\* told.  Requests of the other platforms do not act on a refusal.
ReleaseRefreshLock(n) ==
    /\ pc[n] \in {"unlock", "refused"}
    /\ \/ n \in owners /\ lock' = [lock EXCEPT ![key[n]] = NoNode] /\ UNCHANGED faults
       \/ n \in owners /\ Fault /\ UNCHANGED lock
       \/ n \notin owners /\ UNCHANGED <<lock, faults>>
    /\ verdicts' = IF pc[n] = "refused" /\ (kind = "grok" \/ path[n] = "background")
                   THEN verdicts \cup {snap[n]}
                   ELSE verdicts
    /\ Return(n)
    /\ UNCHANGED <<kind, account, due, provider, held, desk, requests, edits, lapses>>

\* The process dies; its lock stays until it expires.
NodeDies(n) ==
    /\ pc[n] # "idle"
    /\ Fault
    /\ Lapse(IF pc[n] = "persist" THEN {"lost"} ELSE {})
    /\ Return(n)
    /\ UNCHANGED <<kind, account, due, provider, lock, verdicts, held, desk, requests,
                   edits>>

\* Mutation: the lock is set without a TTL.
LockWithoutTTL(k) == FALSE /\ UNCHANGED vars

\* The lock of a node that died, could not release it, or never knew it had it.
LockExpires(k) ==
    /\ lock[k] # NoNode
    /\ ~ \E n \in owners : lock[k] = n /\ key[n] = k
    /\ lock' = [lock EXCEPT ![k] = NoNode]
    /\ UNCHANGED <<kind, account, due, provider, attempts, verdicts, held, desk, budget,
                   lapses>>

\* A background attempt is cut off before the lease ends, and so is a request of
\* Grok; the requests of other platforms wait as long as their HTTP client does.
LockExpiresEarly(n) ==
    /\ n \in owners /\ lock[key[n]] = n
    /\ kind # "grok" /\ path[n] = "request"
    /\ Fault
    /\ lock' = [lock EXCEPT ![key[n]] = NoNode]
    /\ Lapse({"overlap"})
    /\ UNCHANGED <<kind, account, due, provider, attempts, verdicts, held, desk,
                   requests, edits>>

-----------------------------------------------------------------------------
(* Other writers of the account's row.                                     *)

\* A request of Antigravity or Gemini has an account without a project_id, and
\* asks for one.
FillProjectID ==
    /\ kind # "grok" /\ requests > 0
    /\ requests' = requests - 1
    /\ held' = held \cup {creds}
    /\ UNCHANGED <<kind, account, due, provider, lock, attempts, verdicts, desk, edits,
                   faults, lapses>>

\* It stores the credentials that it has with the project_id that it got, without
\* lock or condition; or it got none, or the update fails.
PersistProjectID(c) ==
    /\ c \in held
    /\ held' = held \ {c}
    /\ \/ Store(c) /\ Lapse(IF creds # c THEN {"writeback"} ELSE {})
       \/ UNCHANGED <<creds, named, lapses>>
    /\ UNCHANGED <<kind, status, schedulable, due, provider, lock, attempts, verdicts,
                   desk, budget>>

\* The answer to a request (a ban, a missing payment, a revoked access token, a
\* configured code), or the failure of another account of the team, puts the
\* account in error, whatever its credentials are.
HandleAuthError ==
    /\ Fault
    /\ status' = "banned" /\ schedulable' = FALSE
    /\ UNCHANGED <<kind, creds, named, due, provider, lock, attempts, verdicts, held,
                   desk, requests, edits, lapses>>

-----------------------------------------------------------------------------
(* What the callers of RefreshIfNeeded make of a permanent failure.        *)

\* Mutation: Grok's failure recorded without its condition.
SetErrorUnconditionally(c) == status' = "refused" /\ schedulable' = FALSE

\* Grok: only an active account that still has the credentials that were refused.
SetError(c) ==
    IF kind = "grok" /\ (creds # c \/ status # "active")
    THEN UNCHANGED <<status, schedulable>>
    ELSE status' = "refused" /\ schedulable' = FALSE

\* A request of Grok wants a schedulable account as well.
RecordFailure(c) ==
    /\ c \in verdicts
    /\ verdicts' = verdicts \ {c}
    /\ \/ SetError(c)
       \/ kind = "grok" /\ ~schedulable /\ UNCHANGED <<status, schedulable>>
    /\ UNCHANGED <<kind, creds, named, due, provider, lock, attempts, held, desk,
                   budget, lapses>>

\* The update fails, the process dies, or a request of Grok finds the account
\* cooling down.
RecordFailureFails(c) ==
    /\ c \in verdicts
    /\ Fault
    /\ verdicts' = verdicts \ {c}
    /\ UNCHANGED <<kind, account, due, provider, lock, attempts, held, desk, requests,
                   edits, lapses>>

-----------------------------------------------------------------------------
(* The operator.  UpdateAccount reads the row and later writes all of it    *)
(* back: the credentials it is given or else those it read, and so the      *)
(* status and whether the account is schedulable.                           *)

AdminBegins(label) ==
    /\ admin = "idle" /\ edits > 0
    /\ admin' = label
    /\ edits' = edits - 1

Underway == verdicts # {} \/ \E n \in Nodes : pc[n] \in Holding

AdminEdits ==
    /\ AdminBegins("write")
    /\ put' = creds
    /\ seen' \in {status, "active", "banned"}
    /\ Lapse(IF Underway THEN {"writeback"} ELSE {})
    /\ UNCHANGED <<kind, account, due, provider, lock, attempts, verdicts, held,
                   requests, faults>>

\* A refresh by hand takes no lock.
AdminRefreshes ==
    /\ AdminBegins("call")
    /\ creds.turn < MaxTurns
    /\ put' = creds
    /\ Lapse(IF Underway THEN {"writeback"} ELSE {})
    /\ UNCHANGED <<kind, account, due, provider, lock, attempts, verdicts, held, seen,
                   requests, faults>>

AdminCallsProvider ==
    /\ admin = "call"
    /\ \/ /\ Rotate(put)
          /\ \/ /\ admin' = "update" /\ put' = Refreshed(put)
                /\ UNCHANGED <<seen, faults, lapses>>
             \/ AdminReturns /\ Fault /\ Lapse({"lost"})
       \/ ~Live(put) /\ AdminReturns /\ UNCHANGED <<live, faults, lapses>>
       \/ Fault /\ AdminReturns /\ UNCHANGED <<live, lapses>>
    /\ UNCHANGED <<kind, account, due, logins, lock, attempts, verdicts, held, requests,
                   edits>>

AdminUpdateReads ==
    /\ admin = "update"
    /\ admin' = "save" /\ seen' = status
    /\ UNCHANGED <<kind, account, due, provider, lock, attempts, verdicts, held, put,
                   budget, lapses>>

\* The operator has logged in again at the provider.
ApplyOAuthCredentials ==
    /\ AdminBegins("apply")
    /\ logins < MaxLogins
    /\ logins' = logins + 1
    /\ put' = [login |-> logins + 1, turn |-> 0]
    /\ seen' = status
    /\ Lapse(IF Underway THEN {"reauthorized"} ELSE {})
    /\ UNCHANGED <<kind, account, due, live, lock, attempts, verdicts, held, requests,
                   faults>>

\* An account in error is not schedulable; another one is if it was when it was
\* read, however it has been switched before and since.
UpdateLockedAccount ==
    Store(put) /\ status' = seen /\ schedulable' \in {FALSE, seen = "active"}

UpdateAccount ==
    /\ admin \in {"write", "save", "apply"}
    /\ \/ /\ UpdateLockedAccount
          /\ IF admin = "apply"
             THEN admin' = "clear" /\ UNCHANGED <<put, seen>>
             ELSE AdminReturns
          /\ UNCHANGED <<faults, lapses>>
       \/ /\ Fault
          /\ UpdateLockedAccount
          /\ Lapse(IF admin = "apply" THEN {"uncleared"} ELSE {})
          /\ AdminReturns
       \/ /\ Fault
          /\ Lapse(IF admin = "save" THEN {"lost"} ELSE {})
          /\ AdminReturns
          /\ UNCHANGED account
    /\ UNCHANGED <<kind, due, provider, lock, attempts, verdicts, held, requests,
                   edits>>

\* The second half of ApplyOAuthCredentials; its failure is only logged.
ClearErrorAfterLogin ==
    /\ admin = "clear"
    /\ AdminReturns
    /\ \/ status' = "active" /\ UNCHANGED <<faults, lapses>>
       \/ Fault /\ Lapse({"uncleared"}) /\ UNCHANGED status
    /\ UNCHANGED <<kind, creds, schedulable, named, due, provider, lock, attempts,
                   verdicts, held, requests, edits>>

\* The operator, a successful test or a look at the usage clears the error, and
\* leaves the rest alone: the account stays out of the list until somebody makes it
\* schedulable.
ClearAccountError ==
    /\ status # "active"
    /\ status' = "active"
    /\ UNCHANGED <<kind, creds, schedulable, named, due, provider, lock, attempts,
                   verdicts, held, desk, budget, lapses>>

\* The operator switches the account on or off; an account past its date is
\* switched off by itself.
SetSchedulable ==
    /\ edits > 0
    /\ edits' = edits - 1
    /\ schedulable' = ~schedulable
    /\ UNCHANGED <<kind, creds, status, named, due, provider, lock, attempts, verdicts,
                   held, desk, requests, faults, lapses>>

-----------------------------------------------------------------------------
Attempt(n) ==
    \/ Reread(n) \/ CallProvider(n) \/ TryRecoverFromRefreshRace(n) \/ Persist(n)
    \/ ReleaseRefreshLock(n)

NodeNext(n) ==
    \/ \E p \in Paths, k \in Keys : AcquireRefreshLock(n, p, k) \/ AcquireFails(n, p, k)
    \/ Attempt(n) \/ NodeDies(n) \/ LockExpiresEarly(n)

AdminNext ==
    \/ AdminEdits \/ AdminRefreshes \/ AdminCallsProvider \/ AdminUpdateReads
    \/ ApplyOAuthCredentials \/ UpdateAccount \/ ClearErrorAfterLogin \/ ClearAccountError
    \/ SetSchedulable

Next ==
    \/ \E n \in Nodes : NodeNext(n)
    \/ \E c \in verdicts : RecordFailure(c) \/ RecordFailureFails(c)
    \/ \E c \in held : PersistProjectID(c)
    \/ \E k \in Keys : LockExpires(k)
    \/ AdminNext \/ FillProjectID \/ HandleAuthError \/ ProviderRevokes \/ AccessTokenAges

Spec == Init /\ [][Next]_vars

\* The background service begins an attempt in every cycle and carries it on, a
\* lock expires, and a permanent failure is recorded.  Requests, the operator and
\* the passing of time owe nothing.
Fairness ==
    /\ \A n \in Nodes : WF_vars(\E k \in Keys : AcquireRefreshLock(n, "background", k))
    /\ \A n \in Nodes : WF_vars(Attempt(n))
    /\ \A k \in Keys : WF_vars(LockExpires(k))
    /\ WF_vars(\E c \in verdicts : RecordFailure(c))

FairSpec == Spec /\ Fairness

-----------------------------------------------------------------------------
(* Correctness.                                                            *)

Intact(names) == lapses \cap names = {}

Blind == kind # "grok"

Newer(c, d) ==
    \/ c.login > d.login
    \/ c.login = d.login /\ c.turn >= d.turn

\* The stored credentials never go back to an earlier login or an earlier refresh
\* of the same one, however attempts overlap, unless an attempt overlapped an edit
\* by the operator, a request wrote back credentials with a project_id added, or, on
\* a platform whose update of the credentials has no condition, an attempt
\* overlapped a new login.
NewestKept ==
    [][(Intact({"writeback"}) /\ (Blind => Intact({"reauthorized"})))'
          => Newer(creds', creds)]_vars

\* An account whose refresh token is said to be refused has one that the provider
\* refuses, whoever else puts it in error, clears errors or switches it on and off.
\* On Grok this survives a new login during an attempt; elsewhere SetError has no
\* condition.  Two attempts at once are excepted everywhere: the one that is
\* refused may be recorded before the other one stores its credentials, which
\* leaves the status alone.  So is a new login whose second half is to come, or
\* failed.
HealthyNotBroken ==
    /\ status = "refused"
    /\ admin # "clear"
    /\ Intact({"overlap", "writeback", "uncleared"})
    /\ Blind => Intact({"reauthorized"})
    => ~Live(creds)

\* As long as a lock keeps attempts apart, no refresh is lost, nobody writes back
\* what he read before, and the provider keeps the login, no attempt is ever
\* refused: a refresh token is not spent twice, and the account is not put in error
\* for it.
OnlyLossBreaks ==
    Intact({"overlap", "lost", "writeback"})
    => /\ status # "refused" /\ verdicts = {}
       /\ \A n \in Nodes : pc[n] \notin {"recover", "refused"}

\* An account that the background service lists gets new credentials, or its failure
\* is recorded, after any number of failures, unless it is put in error or switched
\* off before.
DueRefreshed == Listed ~> (creds # due \/ status # "active" \/ ~schedulable)

-----------------------------------------------------------------------------
(* Why it is so: an inductive invariant.                                   *)

\* As long as the locks work, only the owner of one is past it, and there are no two.
LockInv ==
    Intact({"overlap"}) =>
        /\ \A n \in owners : lock[key[n]] = n
        /\ \A n \in Nodes : pc[n] # "idle" => n \in owners
        /\ \A m, n \in Nodes : pc[m] # "idle" /\ pc[n] # "idle" => key[m] = key[n]

\* No token is ahead of the provider, and one that was refused or has just been
\* refreshed is behind it.
TurnInv ==
    /\ creds.login <= logins /\ creds.turn <= live[creds.login]
    /\ put.login <= logins /\ put.turn <= live[put.login]
    /\ \A n \in Nodes :
          /\ snap[n].login <= logins /\ snap[n].turn <= live[snap[n].login]
          /\ pc[n] \in {"persist", "recover", "refused"} =>
                snap[n].turn < live[snap[n].login]
    /\ \A c \in verdicts : c.turn < live[c.login]
    /\ \A c \in held : c.login <= logins /\ c.turn <= live[c.login]
    /\ \A l \in Logins : l > logins => live[l] = 0

\* A new login that is not stored yet is nobody else's; an edit that no attempt
\* overlaps writes back what is there.
AdminInv ==
    /\ admin = "apply" =>
          /\ put.login = logins /\ put.turn = 0 /\ live[logins] = 0
          /\ creds.login < logins
          /\ \A n \in Nodes : snap[n].login < logins
          /\ \A c \in held : c.login < logins
    /\ admin \in {"write", "call", "update", "save"} /\ Intact({"writeback"}) =>
          /\ verdicts = {} /\ \A n \in Nodes : pc[n] \notin Holding
          /\ put = IF admin \in {"update", "save"} THEN Refreshed(creds) ELSE creds

\* While an attempt holds credentials that no operator's call has overlapped, the
\* login is theirs; of those that the provider refreshed there is only one, and
\* nobody has read or stored anything newer.
LoginInv ==
    Intact({"writeback", "reauthorized"}) =>
        /\ verdicts # {} => admin # "apply"
        /\ \A n \in Nodes : pc[n] \in Holding =>
              admin # "apply" /\ creds.login = snap[n].login
        /\ \A n \in Nodes : pc[n] = "persist" =>
              /\ creds.turn <= snap[n].turn
              /\ \A m \in Nodes \ {n} :
                    /\ pc[m] # "persist"
                    /\ pc[m] = "call" => snap[m].turn <= snap[n].turn

\* With a working lock, an attempt that was refreshed is none that was refused,
\* and an account in error has no attempt that could still succeed.
HealthInv ==
    Intact({"overlap", "writeback"}) /\ (Blind => Intact({"reauthorized"})) =>
        /\ \A n \in Nodes : pc[n] = "persist" => snap[n] \notin verdicts
        /\ Blind => /\ \A c \in verdicts : creds = c
                    /\ \A n \in Nodes : pc[n] \in Holding => creds = snap[n]
        /\ status = "refused" =>
              \A n \in Nodes : pc[n] \in Holding /\ creds = snap[n] =>
                 pc[n] # "persist" /\ ~Live(creds)
        /\ Intact({"uncleared"}) =>
              /\ admin = "write" /\ seen = "refused" => ~Live(creds)
              /\ admin \in {"update", "save"} => status # "refused"
              /\ admin = "save" => seen # "refused"

\* As long as nothing was lost, the newest token is in use by whoever has just
\* got it, or else stored.
LossInv ==
    Intact({"overlap", "lost", "writeback"}) =>
        /\ seen # "refused"
        /\ \A n \in Nodes : pc[n] = "call" => Live(snap[n])
        /\ \A n \in Nodes : pc[n] = "persist" => Live(Refreshed(snap[n]))
        /\ admin \in {"update", "save"} => Live(put)
        /\ \/ Live(creds)
           \/ \E n \in Nodes : pc[n] = "persist" /\ snap[n] = creds
           \/ admin \in {"update", "save"}

TokenInv ==
    /\ TypeOK /\ LockInv /\ TurnInv /\ AdminInv /\ LoginInv /\ HealthInv /\ LossInv
    /\ HealthyNotBroken /\ OnlyLossBreaks

=============================================================================
