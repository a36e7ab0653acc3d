-------------------------- MODULE ConcurrencySlots --------------------------
(***************************************************************************)
(* How the gateway limits the requests of a user and of an account: slots, *)
(* wait queues and Live leases, all kept in Redis and shared by every      *)
(* instance.                                                               *)
(* Source: backend/internal/service/concurrency_service.go, openai_live.go,*)
(* backend/internal/repository/concurrency_cache.go and                    *)
(* backend/internal/handler/gateway_helper.go.                             *)
(*                                                                         *)
(* A Lua script or a Redis command is a step.  A member of a sorted set is *)
(* fresh, or old when its score is beyond the set's TTL: an old member     *)
(* counts until some script sweeps it out.  A slot that grows old under    *)
(* its request, or is deleted under it, is recorded in lapsed.             *)
(***************************************************************************)
EXTENDS Integers, FiniteSets

CONSTANTS
    Procs,      \* requests in flight, each with its own request ID and lease ID
    Users, Accounts, ApiKeys,
    UserOf,     \* the user of each request
    KeyOf,      \* the API key of each request
    Limit,      \* maxConcurrency of each user and account; zero means no limit
    MaxWait,    \* length of a wait queue
    MaxFaults   \* bound on failed commands, crashes and losses

Keys == Users \cup Accounts \cup ApiKeys

ASSUME KeysAssumption ==
    /\ IsFiniteSet(Procs)
    /\ Users \cap Accounts = {} /\ Users \cap ApiKeys = {} /\ Accounts \cap ApiKeys = {}
    /\ UserOf \in [Procs -> Users]
    /\ KeyOf \in [Procs -> ApiKeys]
    /\ Limit \in [Keys -> Nat]
    /\ \A k \in ApiKeys : Limit[k] = 0
    /\ MaxWait \in Nat
    /\ MaxFaults \in Nat

VARIABLES
    slots,         \* sorted set of request IDs of each key
    live,          \* sorted set of Live lease IDs of each key
    waits,         \* wait counter of each key
    mode,          \* forwarding, the same when its client has gone, or a Live call
    pc,            \* next step of each request
    at,            \* the user or account whose slot the request asks for or has
    held,          \* keys whose release function the request still has
    session,       \* the Live session that the request has opened
    faults,        \* failures still allowed
    lapsed,        \* history: keys that lost a slot or lease still in use
    undercounted,  \* history: keys whose counter missed a waiting request
    faulted,       \* history: requests that died, or whose command failed
    dropped        \* history: requests whose chosen account could not be loaded

redis   == <<slots, live, waits>>
request == <<mode, pc, at, held, session>>
history == <<lapsed, undercounted, faulted, dropped>>
vars    == <<redis, request, faults, history>>

Marks     == {"none", "fresh", "old"}
Waiting   == {"wait", "admitted", "timedOut"}
Leasing   == {"create", "created", "failed", "save", "undo", "unsaved"}
Labels    == {"idle", "acquire", "enqueue", "run", "switch", "lease", "leave"}
             \cup Waiting \cup Leasing
Modes     == {"none", "forward", "drain", "live"}
ForwardModes == {"forward", "drain"}
Sessions  == {"none", "open", "closing"}

\* The members of a sorted set.
Members(set) == {p \in Procs : set[p] # "none"}

\* ZREMRANGEBYSCORE up to the TTL.
Swept(set) == [p \in Procs |-> IF set[p] = "old" THEN "none" ELSE set[p]]

\* ZADD with the present time as the score.
Added(set, p) == [set EXCEPT ![p] = "fresh"]

\* The sets a Live lease is a member of.
LeaseKeys(p) == {UserOf[p], at[p], KeyOf[p]}

HasLease(p) == pc[p] \in Leasing \/ session[p] # "none"

\* No set knows an ID of the request: generateRequestID never repeats one.
NoTrace(p) == \A k \in Keys : slots[k][p] = "none" /\ live[k][p] = "none"

Fault ==
    /\ faults > 0
    /\ faults' = faults - 1

-----------------------------------------------------------------------------
(* Slots.                                                                  *)

Begin(p) ==
    /\ pc[p] = "idle" /\ session[p] = "none"
    /\ NoTrace(p)
    /\ mode' \in {[mode EXCEPT ![p] = m] : m \in {"forward", "live"}}
    /\ pc' = [pc EXCEPT ![p] = "acquire"]
    /\ at' = [at EXCEPT ![p] = UserOf[p]]
    /\ faulted' = faulted \ {p}
    /\ dropped' = dropped \ {p}
    /\ UNCHANGED <<redis, held, session, faults, lapsed, undercounted>>

\* The scheduler chooses an account, to ask it for a slot or to wait for one.
\* Not one where a slot of the request is left behind: there is one ID for both.
ChooseAccount(p, label) ==
    \E a \in Accounts :
        /\ slots[a][p] = "none"
        /\ at' = [at EXCEPT ![p] = a]
        /\ pc' = [pc EXCEPT ![p] = label]

NextAccount(p) == ChooseAccount(p, "acquire")

\* With the user's slot an account is asked, unless there is none or the balance
\* does not suffice; with the account's slot the request is forwarded, or asks
\* for a Live lease.
Proceed(p) ==
    \/ at[p] = UserOf[p] /\ NextAccount(p)
    \/ /\ at[p] = UserOf[p]
       /\ pc' = [pc EXCEPT ![p] = "leave"]
       /\ UNCHANGED at
    \/ /\ at[p] # UserOf[p]
       /\ pc' = [pc EXCEPT ![p] = IF mode[p] = "live" THEN "lease" ELSE "run"]
       /\ UNCHANGED at

\* Where a request goes with its slot; one that waited leaves the queue first.
Granted(p) ==
    \/ pc[p] = "acquire" /\ Proceed(p)
    \/ pc[p] = "wait" /\ pc' = [pc EXCEPT ![p] = "admitted"] /\ UNCHANGED at

\* Where a request goes without a slot: one that waits tries again, a Live
\* call is refused, and for an account the scheduler may try the next one, or
\* let the request wait for any.
Denied(p) ==
    \/ /\ pc[p] = "wait"
       /\ UNCHANGED <<pc, at>>
    \/ /\ pc[p] = "acquire" /\ mode[p] \in ForwardModes
       /\ pc' = [pc EXCEPT ![p] = "enqueue"]
       /\ UNCHANGED at
    \/ /\ pc[p] = "acquire"
       /\ pc' = [pc EXCEPT ![p] = "leave"]
       /\ UNCHANGED at
    \/ /\ pc[p] = "acquire" /\ at[p] # UserOf[p]
       /\ NextAccount(p) \/ (mode[p] \in ForwardModes /\ ChooseAccount(p, "enqueue"))

\* Mutation: the Live leases are not counted.
AdmittedRegular(k) == Cardinality(Members(Swept(slots[k]))) < Limit[k]

\* Mutation: off by one.
AdmittedAtLimit(k) ==
    Cardinality(Members(Swept(slots[k]))) + Cardinality(Members(Swept(live[k]))) <= Limit[k]

\* Slots and Live leases share the limit.
Admitted(k) ==
    Cardinality(Members(Swept(slots[k]))) + Cardinality(Members(Swept(live[k]))) < Limit[k]

\* acquireScript sweeps both sets, whether or not it admits the request.
AcquireSlot(p) ==
    LET k == at[p] IN
    /\ pc[p] \in {"acquire", "wait"}
    /\ \/ /\ Limit[k] = 0          \* no limit, no slot
          /\ Granted(p)
          /\ UNCHANGED <<slots, live, held>>
       \/ /\ Limit[k] > 0
          /\ Admitted(k)
          /\ slots' = [slots EXCEPT ![k] = Added(Swept(@), p)]
          /\ live' = [live EXCEPT ![k] = Swept(@)]
          /\ held' = [held EXCEPT ![p] = @ \cup {k}]
          /\ Granted(p)
       \/ /\ Limit[k] > 0
          /\ ~Admitted(k)
          /\ slots' = [slots EXCEPT ![k] = Swept(@)]
          /\ live' = [live EXCEPT ![k] = Swept(@)]
          /\ Denied(p)
          /\ UNCHANGED held
    /\ UNCHANGED <<waits, mode, session, faults, history>>

\* The scheduler has an account's slot and gives the account up.  One with too
\* many sessions is left for the next.  When the account cannot be loaded the
\* selection fails: the OpenAI scheduler releases the slot first, the other one
\* returns without its release function.
SelectionFails(p) ==
    LET k == at[p] IN
    /\ pc[p] = "acquire" /\ k \in Accounts
    /\ Limit[k] > 0
    /\ Admitted(k)
    /\ slots' = [slots EXCEPT ![k] = Added(Swept(@), p)]
    /\ live' = [live EXCEPT ![k] = Swept(@)]
    /\ \/ /\ held' = [held EXCEPT ![p] = @ \cup {k}]
          /\ \/ pc' = [pc EXCEPT ![p] = "leave"]
             \/ mode[p] \in ForwardModes /\ pc' = [pc EXCEPT ![p] = "switch"]
          /\ UNCHANGED dropped
       \/ /\ mode[p] \in ForwardModes
          /\ pc' = [pc EXCEPT ![p] = "leave"]
          /\ dropped' = dropped \cup {p}
          /\ UNCHANGED held
    /\ UNCHANGED <<waits, mode, at, session, faults, lapsed, undercounted, faulted>>

\* The answer of acquireScript is lost.  When the script has run, its slot has
\* no release function.  The scheduler goes on as if the account had no slot.
AcquireFails(p) ==
    LET k == at[p] IN
    /\ pc[p] \in {"acquire", "wait"}
    /\ Limit[k] > 0
    /\ Fault
    /\ \/ UNCHANGED <<slots, live, faulted>>
       \/ /\ Admitted(k)
          /\ slots' = [slots EXCEPT ![k] = Added(Swept(@), p)]
          /\ live' = [live EXCEPT ![k] = Swept(@)]
          /\ faulted' = faulted \cup {p}
    /\ \/ /\ pc' = [pc EXCEPT ![p] = IF pc[p] = "wait" THEN "timedOut" ELSE "leave"]
          /\ UNCHANGED at
       \/ /\ pc[p] = "acquire" /\ k # UserOf[p]
          /\ Denied(p)
          /\ at'[p] # k \/ slots'[k][p] = "none"
    /\ UNCHANGED <<waits, mode, held, session, lapsed, undercounted, dropped>>

\* The release function of one slot, if the request has one: ZREM, which may
\* fail and then leaves the slot to its TTL.
ReleaseSlot(p, k) ==
    /\ held' = [held EXCEPT ![p] = @ \ {k}]
    /\ \/ /\ k \in held[p]
          /\ slots' = [slots EXCEPT ![k][p] = "none"]
          /\ UNCHANGED <<faults, faulted>>
       \/ /\ k \in held[p]
          /\ Fault
          /\ faulted' = faulted \cup {p}
          /\ UNCHANGED slots
       \/ /\ k \notin held[p]
          /\ UNCHANGED <<slots, faults, faulted>>

-----------------------------------------------------------------------------
(* Wait queues.                                                            *)

\* Mutation: one request too many.
MayWaitToo(k) == waits[k] <= MaxWait

MayWait(k) == waits[k] < MaxWait

\* A failure of the script lets the request wait without being counted.
IncrementWaitCount(p) ==
    LET k == at[p] IN
    /\ pc[p] = "enqueue"
    /\ \/ /\ MayWait(k)
          /\ waits' = [waits EXCEPT ![k] = @ + 1]
          /\ pc' = [pc EXCEPT ![p] = "wait"]
          /\ UNCHANGED <<faults, undercounted>>
       \/ /\ ~MayWait(k)
          /\ pc' = [pc EXCEPT ![p] = "leave"]
          /\ UNCHANGED <<waits, faults, undercounted>>
       \/ /\ Fault
          /\ pc' = [pc EXCEPT ![p] = "wait"]
          /\ undercounted' = undercounted \cup {k}
          /\ UNCHANGED waits
    /\ UNCHANGED <<slots, live, mode, at, held, session, lapsed, faulted, dropped>>

\* The wait is over, or the client has gone.
WaitTimeout(p) ==
    /\ pc[p] = "wait"
    /\ pc' = [pc EXCEPT ![p] = "timedOut"]
    /\ UNCHANGED <<redis, mode, at, held, session, faults, history>>

\* decrementWaitScript.
Decremented(n) == IF n > 0 THEN n - 1 ELSE n

\* A failed decrement leaves the counter too high.
DecrementWaitCount(p) ==
    /\ \/ waits' = [waits EXCEPT ![at[p]] = Decremented(@)] /\ UNCHANGED faults
       \/ Fault /\ UNCHANGED waits
    /\ \/ /\ pc[p] = "admitted"
          /\ Proceed(p)
       \/ /\ pc[p] = "timedOut"
          /\ pc' = [pc EXCEPT ![p] = "leave"]
          /\ UNCHANGED at
    /\ UNCHANGED <<slots, live, mode, held, session, history>>

-----------------------------------------------------------------------------
(* The end of a request, and the change to another account.                *)

Forwarded(p) ==
    /\ pc[p] = "run"
    /\ pc' \in {[pc EXCEPT ![p] = l] : l \in {"leave", "switch"}}
    /\ UNCHANGED <<redis, mode, at, held, session, faults, history>>

SwitchAccount(p) ==
    /\ pc[p] = "switch"
    /\ \/ /\ at[p] \in held[p]
          /\ ReleaseSlot(p, at[p])
          /\ UNCHANGED <<pc, at>>
       \/ /\ at[p] \notin held[p]
          /\ NextAccount(p) \/ (pc' = [pc EXCEPT ![p] = "leave"] /\ UNCHANGED at)
          /\ UNCHANGED <<slots, held, faults, faulted>>
    /\ UNCHANGED <<live, waits, mode, session, lapsed, undercounted, dropped>>

\* wrapReleaseOnDone: when the client goes away, the slots of a request that is
\* forwarded are released under it; what it does next finds them released.  It
\* goes on reading the upstream's answer all the same.
ReleaseOnDone(p) ==
    /\ mode[p] \in ForwardModes
    /\ mode' = [mode EXCEPT ![p] = "drain"]
    /\ pc[p] \in {"acquire", "enqueue", "run", "switch"} \cup Waiting
    /\ \E k \in held[p] : (pc[p] = "admitted" => k # at[p]) /\ ReleaseSlot(p, k)
    /\ UNCHANGED <<live, waits, pc, at, session, lapsed, undercounted, dropped>>

Leave(p) ==
    /\ pc[p] = "leave"
    /\ \/ /\ held[p] # {}
          /\ \E k \in held[p] : ReleaseSlot(p, k)
          /\ UNCHANGED <<pc, mode>>
       \/ /\ held[p] = {}
          /\ pc' = [pc EXCEPT ![p] = "idle"]
          /\ mode' = [mode EXCEPT ![p] = "none"]
          /\ UNCHANGED <<slots, held, faults, faulted>>
    /\ UNCHANGED <<live, waits, at, session, lapsed, undercounted, dropped>>

-----------------------------------------------------------------------------
(* Live sessions.                                                          *)

\* Mutation: the account's limit is not looked at.
LiveAdmittedByUser(p) ==
    Limit[UserOf[p]] > 0 =>
        Cardinality(Members(slots[UserOf[p]])) + Cardinality(Members(Swept(live[UserOf[p]])))
            < Limit[UserOf[p]] + 1

\* One more than the limit is allowed: the lease replaces the slots that the
\* request holds.  acquireLiveLeaseScript does not sweep the slots.
LiveAdmitted(p) ==
    \A k \in LeaseKeys(p) : Limit[k] > 0 =>
        Cardinality(Members(slots[k])) + Cardinality(Members(Swept(live[k]))) < Limit[k] + 1

\* Mutation: the API key's set is forgotten.
WithoutKey(p) ==
    [k \in Keys |-> IF k \in {UserOf[p], at[p]} THEN Added(Swept(live[k]), p) ELSE live[k]]

WithLease(p) == [k \in Keys |-> IF k \in LeaseKeys(p) THEN Added(Swept(live[k]), p) ELSE live[k]]

SweptKeys(S) == [k \in Keys |-> IF k \in S THEN Swept(live[k]) ELSE live[k]]

AcquireLiveLease(p) ==
    /\ pc[p] = "lease"
    /\ \/ /\ LiveAdmitted(p)
          /\ live' = WithLease(p)
          /\ pc' = [pc EXCEPT ![p] = "create"]
          /\ UNCHANGED <<faults, faulted>>
       \/ /\ ~LiveAdmitted(p)
          /\ live' = SweptKeys(LeaseKeys(p))
          /\ pc' = [pc EXCEPT ![p] = "leave"]
          /\ UNCHANGED <<faults, faulted>>
       \/ /\ LiveAdmitted(p)       \* the answer is lost
          /\ Fault
          /\ live' = WithLease(p)
          /\ pc' = [pc EXCEPT ![p] = "leave"]
          /\ faulted' = faulted \cup {p}
       \/ /\ Fault
          /\ pc' = [pc EXCEPT ![p] = "leave"]
          /\ UNCHANGED <<live, faulted>>
    /\ UNCHANGED <<slots, waits, mode, at, held, session, lapsed, undercounted, dropped>>

CreateUpstreamLiveCall(p) ==
    /\ pc[p] = "create"
    /\ pc' \in {[pc EXCEPT ![p] = l] : l \in {"created", "failed"}}
    /\ UNCHANGED <<redis, mode, at, held, session, faults, history>>

\* selection.ReleaseFunc: from now on the lease alone stands for the call.
ReleaseAccountSlot(p) ==
    /\ pc[p] \in {"created", "failed"}
    /\ ReleaseSlot(p, at[p])
    /\ pc' = [pc EXCEPT ![p] = IF pc[p] = "created" THEN "save" ELSE "undo"]
    /\ UNCHANGED <<live, waits, mode, at, session, lapsed, undercounted, dropped>>

\* The handler returns, and releases the user's slot, while the observer runs.
SaveLiveCall(p) ==
    /\ pc[p] = "save"
    /\ \/ /\ session' = [session EXCEPT ![p] = "open"]
          /\ pc' = [pc EXCEPT ![p] = "leave"]
       \/ /\ pc' = [pc EXCEPT ![p] = "unsaved"]
          /\ UNCHANGED session
    /\ UNCHANGED <<redis, mode, at, held, faults, history>>

\* Mutation: the lease is taken out of the account's set alone.
LeaseOfAccount(p) == {at[p]}

LeaseOf(p) == LeaseKeys(p)

\* One transaction takes the lease out of its sets, or fails.
ReleaseLiveLease(p) ==
    \/ /\ live' = [k \in Keys |->
                     IF k \in LeaseOf(p) THEN [live[k] EXCEPT ![p] = "none"] ELSE live[k]]
       /\ UNCHANGED <<faults, faulted>>
    \/ /\ Fault
       /\ faulted' = faulted \cup {p}
       /\ UNCHANGED live

\* After a failure of the upstream another account may be tried.
UndoLiveCall(p) ==
    /\ pc[p] \in {"undo", "unsaved"}
    /\ ReleaseLiveLease(p)
    /\ \/ /\ pc' = [pc EXCEPT ![p] = "leave"]
          /\ UNCHANGED at
       \/ /\ pc[p] = "undo"
          /\ \A k \in Keys : live'[k][p] = "none"
          /\ NextAccount(p)
    /\ UNCHANGED <<slots, waits, mode, held, session, lapsed, undercounted, dropped>>

\* Mutation: a lease that is gone is written again.
OwnsAnything(p) == TRUE

\* refreshLiveLeaseScript finds the lease in every set.
Owns(p) == \A k \in LeaseKeys(p) : live[k][p] = "fresh"

\* The sets that the script has swept when it misses the lease.
SweptBy(p) ==
    {at[p]} \cup (IF live[at[p]][p] = "fresh" THEN {UserOf[p]} ELSE {})
            \cup (IF live[at[p]][p] = "fresh" /\ live[UserOf[p]][p] = "fresh"
                  THEN {KeyOf[p]} ELSE {})

\* A lease that is gone, or an error, ends the session.
RefreshLiveLease(p) ==
    /\ session[p] = "open"
    /\ \/ /\ Owns(p)
          /\ live' = WithLease(p)
          /\ UNCHANGED <<session, faults>>
       \/ /\ ~Owns(p)
          /\ live' = SweptKeys(SweptBy(p))
          /\ session' = [session EXCEPT ![p] = "closing"]
          /\ UNCHANGED faults
       \/ /\ Fault
          /\ session' = [session EXCEPT ![p] = "closing"]
          /\ UNCHANGED live \/ (Owns(p) /\ live' = WithLease(p))
    /\ UNCHANGED <<slots, waits, mode, pc, at, held, history>>

\* The upstream closes the session, or its time is over.
SessionEnds(p) ==
    /\ session[p] = "open"
    /\ session' = [session EXCEPT ![p] = "closing"]
    /\ UNCHANGED <<redis, mode, pc, at, held, faults, history>>

\* Without the answer of MarkLiveCallClosed the lease is not released either.
FinalizeLiveCall(p) ==
    /\ session[p] = "closing"
    /\ ReleaseLiveLease(p)
    /\ session' = [session EXCEPT ![p] = "none"]
    /\ UNCHANGED <<slots, waits, mode, pc, at, held, lapsed, undercounted, dropped>>

-----------------------------------------------------------------------------
(* Time, background jobs and failures.                                     *)

\* A slot or lease of key set S that is still in use is lost.
Lose(S) ==
    /\ Fault
    /\ lapsed' = lapsed \cup S

\* A slot reaches its TTL, normally because its release failed.
SlotAges(p, k) ==
    /\ slots[k][p] = "fresh"
    /\ slots' = [slots EXCEPT ![k][p] = "old"]
    /\ \/ k \in held[p] /\ Lose({k})
       \/ k \notin held[p] /\ UNCHANGED <<faults, lapsed>>
    /\ UNCHANGED <<live, waits, request, undercounted, faulted, dropped>>

\* A lease that is not refreshed reaches its TTL in all its sets at once.
LeaseAges(p) ==
    /\ \E k \in Keys : live[k][p] = "fresh"
    /\ live' = [k \in Keys |->
                  IF live[k][p] = "fresh" THEN [live[k] EXCEPT ![p] = "old"] ELSE live[k]]
    /\ \/ HasLease(p) /\ Lose(LeaseKeys(p))
       \/ ~HasLease(p) /\ UNCHANGED <<faults, lapsed>>
    /\ UNCHANGED <<slots, waits, request, undercounted, faulted, dropped>>

\* Reading a load sweeps both sets.
GetCount(k) ==
    /\ slots' = [slots EXCEPT ![k] = Swept(@)]
    /\ live' = [live EXCEPT ![k] = Swept(@)]
    /\ UNCHANGED <<waits, request, faults, history>>

\* The cleanup worker sweeps the slots.
CleanupExpiredSlots(k) ==
    /\ slots' = [slots EXCEPT ![k] = Swept(@)]
    /\ UNCHANGED <<live, waits, request, faults, history>>

\* An instance starts: the slots whose IDs have another prefix are removed,
\* also those of other instances that still run.
CleanupStaleProcessSlots(k) ==
    \E others \in SUBSET Members(slots[k]) :
    /\ slots' = [slots EXCEPT ![k] = [p \in Procs |-> IF p \in others THEN "none" ELSE @[p]]]
    /\ \/ (\E p \in others : k \in held[p]) /\ Lose({k})
       \/ (\A p \in others : k \notin held[p]) /\ UNCHANGED <<faults, lapsed>>
    /\ UNCHANGED <<live, waits, request, undercounted, faulted, dropped>>

Waiters(k) == {p \in Procs : pc[p] \in Waiting /\ at[p] = k}

\* The same for the wait counter, which also disappears at its TTL.
DeleteWaitKey(k) ==
    /\ waits[k] > 0
    /\ waits' = [waits EXCEPT ![k] = 0]
    /\ \/ Waiters(k) # {} /\ Fault /\ undercounted' = undercounted \cup {k}
       \/ Waiters(k) = {} /\ UNCHANGED <<faults, undercounted>>
    /\ UNCHANGED <<slots, live, request, lapsed, faulted, dropped>>

\* The instance of the request dies.
Crash(p) ==
    /\ pc[p] # "idle" \/ session[p] # "none"
    /\ Fault
    /\ pc' = [pc EXCEPT ![p] = "idle"]
    /\ mode' = [mode EXCEPT ![p] = "none"]
    /\ held' = [held EXCEPT ![p] = {}]
    /\ session' = [session EXCEPT ![p] = "none"]
    /\ faulted' = faulted \cup {p}
    /\ UNCHANGED <<redis, at, lapsed, undercounted, dropped>>

-----------------------------------------------------------------------------
Empty == [k \in Keys |-> [p \in Procs |-> "none"]]

Init ==
    /\ slots = Empty
    /\ live = Empty
    /\ waits = [k \in Keys |-> 0]
    /\ mode = [p \in Procs |-> "none"]
    /\ pc = [p \in Procs |-> "idle"]
    /\ at = UserOf
    /\ held = [p \in Procs |-> {}]
    /\ session = [p \in Procs |-> "none"]
    /\ faults = MaxFaults
    /\ lapsed = {}
    /\ undercounted = {}
    /\ faulted = {}
    /\ dropped = {}

Next ==
    \/ \E p \in Procs :
        \/ Begin(p)
        \/ AcquireSlot(p)
        \/ SelectionFails(p)
        \/ AcquireFails(p)
        \/ IncrementWaitCount(p)
        \/ WaitTimeout(p)
        \/ DecrementWaitCount(p)
        \/ Forwarded(p)
        \/ SwitchAccount(p)
        \/ ReleaseOnDone(p)
        \/ Leave(p)
        \/ AcquireLiveLease(p)
        \/ CreateUpstreamLiveCall(p)
        \/ ReleaseAccountSlot(p)
        \/ SaveLiveCall(p)
        \/ UndoLiveCall(p)
        \/ RefreshLiveLease(p)
        \/ SessionEnds(p)
        \/ FinalizeLiveCall(p)
        \/ \E k \in Keys : SlotAges(p, k)
        \/ LeaseAges(p)
        \/ Crash(p)
    \/ \E k \in Keys :
        \/ GetCount(k)
        \/ CleanupExpiredSlots(k)
        \/ CleanupStaleProcessSlots(k)
        \/ DeleteWaitKey(k)

Spec == Init /\ [][Next]_vars

-----------------------------------------------------------------------------
(* Properties.                                                             *)

StoreTypes ==
    /\ slots \in [Keys -> [Procs -> Marks]]
    /\ live \in [Keys -> [Procs -> Marks]]
    /\ waits \in [Keys -> 0..MaxWait]

RequestTypes ==
    /\ mode \in [Procs -> Modes]
    /\ pc \in [Procs -> Labels]
    /\ at \in [Procs -> Users \cup Accounts]
    /\ held \in [Procs -> SUBSET Keys]
    /\ session \in [Procs -> Sessions]

HistoryTypes ==
    /\ faults \in Nat
    /\ lapsed \subseteq Keys
    /\ undercounted \subseteq Keys
    /\ faulted \subseteq Procs
    /\ dropped \subseteq Procs

\* Every variable has its type; a wait counter stays within its bounds.
TypeOK == StoreTypes /\ RequestTypes /\ HistoryTypes

\* The requests that load a user or an account: those that are forwarded, with
\* or without a slot, those that have a slot, and those with a Live lease, which
\* stands for the slots it replaces.
Loading(k) ==
    {p \in Procs :
        \/ pc[p] = "run" /\ k \in {UserOf[p], at[p]}
        \/ k \in held[p]
        \/ HasLease(p) /\ k \in LeaseKeys(p)}

\* Those that read the rest of an answer for a client that has gone, without the
\* slot.
Draining(k) == {p \in Procs : mode[p] = "drain" /\ k \notin held[p]}

\* Unless a slot or lease in use was lost, no user and no account has more
\* requests and Live sessions than its limit, also while leases replace slots
\* and whatever leftovers of dead requests are swept when.  What exceeds the
\* limit are requests whose client has gone: wrapReleaseOnDone gives their slots
\* away while they still read the upstream's answer.
LimitKept ==
    \A k \in Keys \ lapsed :
        Limit[k] > 0 => Cardinality(Loading(k) \ Draining(k)) <= Limit[k]

\* Whatever happens, Redis admits one member beyond the limit, for the time a
\* lease needs to replace a slot.
StoreBounded ==
    \A k \in Keys : Limit[k] > 0 =>
        Cardinality(Members(slots[k])) + Cardinality(Members(live[k])) <= Limit[k] + 1

\* All the sets have the lease.
Intact(p) == \A k \in LeaseKeys(p) : live[k][p] = "fresh"

\* The sets of a lease agree: it counts against its user, its account and its
\* API key, or against none of them.
LeaseTogether ==
    \A p \in Procs : (HasLease(p) /\ \E k \in LeaseKeys(p) : live[k][p] = "fresh") => Intact(p)

\* A request or session gives back everything it took, on every path but these:
\* a crash, a lost answer or a failed release leaves something to the TTL, and so
\* does newSelectionResult when it cannot load the account chosen, but of this
\* request that account's slot alone.
NothingForgotten ==
    \A p \in Procs \ faulted, k \in Keys :
        /\ slots[k][p] # "none" => k \in held[p] \/ (p \in dropped /\ k \in Accounts)
        /\ live[k][p] # "none" => HasLease(p) /\ k \in LeaseKeys(p)

\* Unless the counter lost an increment or was deleted, no more requests wait
\* than it says, and so than the queue may hold.
QueueBounded ==
    \A k \in Keys \ undercounted :
        Cardinality(Waiters(k)) <= waits[k] /\ waits[k] <= MaxWait

\* A session that lost its lease never gets it back, and so ends at its next
\* refresh: refreshLiveLeaseScript writes only what it finds.
NotResurrected ==
    [][\A p \in Procs :
        session[p] = "open" /\ session'[p] = "open" /\ ~Intact(p) => ~Intact(p)']_vars

-----------------------------------------------------------------------------
(* Why: the inductive invariant.                                           *)

\* The steps between two answers of the scheduler.
AtWork == {"acquire", "enqueue", "run", "switch", "lease"} \cup Waiting \cup Leasing

\* A slot in use is in Redis, and fresh.
SlotsTracked ==
    \A p \in Procs : \A k \in held[p] \ lapsed : slots[k][p] = "fresh"

\* So is a lease.
LeasesTracked ==
    \A p \in Procs : HasLease(p) => \A k \in LeaseKeys(p) \ lapsed : live[k][p] = "fresh"

\* A request keeps the slots of its limited user and account until its client
\* goes away or its lease replaces them, and opens its session as the last thing
\* it does.  Only forwarded requests wait, or lose their slots to AfterFunc.
HeldInOrder ==
    \A p \in Procs :
        /\ mode[p] # "drain" /\ pc[p] \in AtWork =>
                at[p] = UserOf[p] \/ Limit[UserOf[p]] = 0 \/ UserOf[p] \in held[p]
        /\ mode[p] # "drain" /\ pc[p] \in {"admitted", "run", "lease"} =>
                Limit[at[p]] = 0 \/ at[p] \in held[p]
        /\ pc[p] \in {"run", "switch", "lease"} \cup Leasing => at[p] # UserOf[p]
        /\ pc[p] = "acquire" => mode[p] # "none"
        /\ pc[p] \in {"enqueue", "run", "switch"} \cup Waiting => mode[p] \in ForwardModes
        /\ pc[p] \in {"lease"} \cup Leasing => mode[p] = "live"
        /\ session[p] # "none" => pc[p] \in {"leave", "idle"}

\* Different requests hold the limit, unless a key has lapsed.
HoldersBounded ==
    \A k \in Keys \ lapsed : Limit[k] > 0 =>
        Cardinality(Members(slots[k]) \cup Members(live[k])) <= Limit[k]

\* Redis, the requests' release functions and the limits agree; inductive.
Inv ==
    /\ TypeOK
    /\ SlotsTracked
    /\ LeasesTracked
    /\ HeldInOrder
    /\ HoldersBounded
    /\ StoreBounded
    /\ LeaseTogether
    /\ NothingForgotten
    /\ QueueBounded

=============================================================================
