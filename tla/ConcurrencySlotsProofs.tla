----------------------- MODULE ConcurrencySlotsProofs -----------------------
(***************************************************************************)
(* Proofs about ConcurrencySlots, for any number of requests, users,       *)
(* accounts, limits and failures.                                          *)
(***************************************************************************)
EXTENDS ConcurrencySlots, FiniteSetTheorems, TLAPS

(* Next, split into the steps of a request and the steps on a key.         *)

RequestStep(p) ==
    \/ Begin(p) \/ AcquireSlot(p) \/ SelectionFails(p) \/ AcquireFails(p)
    \/ IncrementWaitCount(p) \/ WaitTimeout(p) \/ DecrementWaitCount(p)
    \/ Forwarded(p) \/ SwitchAccount(p) \/ ReleaseOnDone(p) \/ Leave(p)
    \/ AcquireLiveLease(p) \/ CreateUpstreamLiveCall(p) \/ ReleaseAccountSlot(p)
    \/ SaveLiveCall(p) \/ UndoLiveCall(p) \/ RefreshLiveLease(p)
    \/ SessionEnds(p) \/ FinalizeLiveCall(p)
    \/ (\E k \in Keys : SlotAges(p, k)) \/ LeaseAges(p) \/ Crash(p)

KeyStep(k) ==
    GetCount(k) \/ CleanupExpiredSlots(k) \/ CleanupStaleProcessSlots(k) \/ DeleteWaitKey(k)

\* Every step is one of these.
LEMMA StepSplit ==
    [Next]_vars => \/ \E p \in Procs : RequestStep(p)
                   \/ \E k \in Keys : KeyStep(k)
                   \/ UNCHANGED vars
BY DEF Next, RequestStep, KeyStep

-----------------------------------------------------------------------------
(* The effect of the scripts, point by point.                              *)

Sets == [Keys -> [Procs -> Marks]]

\* A member is as before, or was old and is gone.
SameOrSwept(m, n) == n = m \/ (m = "old" /\ n = "none")

\* Nothing happens to the other requests.
Alone(p) ==
    /\ RequestTypes'
    /\ \A q \in Procs : q # p =>
        /\ mode'[q] = mode[q] /\ pc'[q] = pc[q] /\ at'[q] = at[q]
        /\ held'[q] = held[q] /\ session'[q] = session[q]

\* The sets know of a request what they knew, at most without what was old.
Untouched(q) ==
    /\ q \in faulted' <=> q \in faulted
    /\ q \in dropped' <=> q \in dropped
    /\ \A k \in Keys : SameOrSwept(slots[k][q], slots'[k][q])
    /\ \A k \in Keys : SameOrSwept(live[k][q], live'[k][q])

\* A step on behalf of p leaves the sets and the history in order.
Tidy(p) ==
    /\ StoreTypes' /\ HistoryTypes'
    /\ lapsed \subseteq lapsed' /\ undercounted \subseteq undercounted'
    /\ \A q \in Procs : q # p => Untouched(q)

\* A key is a user, an account or an API key, never two of them.
LEMMA KeyKinds ==
    /\ \A p \in Procs : UserOf[p] \in Users /\ KeyOf[p] \in ApiKeys
    /\ \A a \in Accounts : a \in Keys /\ a \notin Users /\ a \notin ApiKeys
    /\ \A v \in Users : v \in Keys /\ v \notin ApiKeys
    /\ \A x \in ApiKeys : x \in Keys /\ Limit[x] = 0
    /\ \A k \in Keys : Limit[k] \in Nat
    /\ MaxWait \in Nat
BY KeysAssumption DEF Keys

\* The slot that a request asks for is a user's or an account's, and its Live
\* lease is a member of sets of keys.
LEMMA KeysOf ==
    ASSUME RequestTypes, NEW p \in Procs
    PROVE  at[p] \in Keys /\ UserOf[p] \in Keys /\ KeyOf[p] \in Keys /\ LeaseKeys(p) \subseteq Keys
BY KeyKinds DEF RequestTypes, LeaseKeys, Keys

\* ZREMRANGEBYSCORE on one set.
LEMMA SweepPoint ==
    ASSUME NEW s \in Sets, NEW k \in Keys, NEW t, t = [s EXCEPT ![k] = Swept(@)]
    PROVE  t \in Sets /\ \A j \in Keys, q \in Procs : SameOrSwept(s[j][q], t[j][q])
BY DEF Sets, Swept, Marks, SameOrSwept

\* acquireLiveLeaseScript and refreshLiveLeaseScript when they write.
LEMMA LeasePoint ==
    ASSUME StoreTypes, RequestTypes, NEW p \in Procs, NEW t, t = WithLease(p)
    PROVE  /\ t \in Sets
           /\ \A k \in LeaseKeys(p) : t[k][p] = "fresh"
           /\ \A k \in Keys : k \notin LeaseKeys(p) => t[k] = live[k]
           /\ \A k \in Keys, q \in Procs : q # p => SameOrSwept(live[k][q], t[k][q])
BY KeysOf DEF StoreTypes, Sets, WithLease, Swept, Added, Marks, SameOrSwept

\* The same when they do not.
LEMMA SweptKeysPoint ==
    ASSUME StoreTypes, NEW S, NEW t, t = SweptKeys(S)
    PROVE  t \in Sets /\ \A k \in Keys, q \in Procs : SameOrSwept(live[k][q], t[k][q])
BY DEF StoreTypes, Sets, SweptKeys, Swept, Marks, SameOrSwept

\* The transaction of ReleaseLiveLease.
LEMMA DropPoint ==
    ASSUME StoreTypes, RequestTypes, HistoryTypes, NEW p \in Procs, ReleaseLiveLease(p)
    PROVE  /\ live' \in Sets /\ faults' \in Nat /\ faulted' \subseteq Procs
           /\ p \notin faulted' =>
                p \notin faulted /\ \A k \in LeaseKeys(p) : live'[k][p] = "none"
           /\ \A k \in Keys : live'[k][p] = live[k][p] \/ live'[k][p] = "none"
           /\ \A k \in Keys, q \in Procs : q # p => live'[k][q] = live[k][q]
           /\ \A q \in Procs : q # p => (q \in faulted' <=> q \in faulted)
BY KeysOf DEF StoreTypes, HistoryTypes, Sets, ReleaseLiveLease, LeaseOf, Fault, Marks

\* A release function.
LEMMA ReleasePoint ==
    ASSUME StoreTypes, RequestTypes, HistoryTypes, NEW p \in Procs, NEW k \in Keys,
           ReleaseSlot(p, k)
    PROVE  /\ slots' \in Sets /\ faults' \in Nat /\ faulted' \subseteq Procs
           /\ held' \in [Procs -> SUBSET Keys]
           /\ held'[p] = held[p] \ {k}
           /\ \A q \in Procs : q # p => held'[q] = held[q]
           /\ p \notin faulted' =>
                p \notin faulted /\ (k \in held[p] => slots'[k][p] = "none")
           /\ slots'[k][p] = slots[k][p] \/ slots'[k][p] = "none"
           /\ \A j \in Keys, q \in Procs : j # k \/ q # p => slots'[j][q] = slots[j][q]
           /\ \A q \in Procs : q # p => (q \in faulted' <=> q \in faulted)
<1>1. /\ held' \in [Procs -> SUBSET Keys]
      /\ held'[p] = held[p] \ {k}
      /\ \A q \in Procs : q # p => held'[q] = held[q]
    BY DEF RequestTypes, ReleaseSlot
<1>2. /\ slots' \in Sets
      /\ slots'[k][p] = slots[k][p] \/ slots'[k][p] = "none"
      /\ \A j \in Keys, q \in Procs : j # k \/ q # p => slots'[j][q] = slots[j][q]
  <2>1. slots \in Sets
      BY DEF StoreTypes, Sets
  <2>2. CASE slots' = slots
      BY <2>1, <2>2
  <2>3. CASE slots' = [slots EXCEPT ![k][p] = "none"]
      BY <2>1, <2>3 DEF Sets, Marks
  <2> QED
      BY <2>2, <2>3 DEF ReleaseSlot
<1>3. /\ faults' \in Nat /\ faulted' \subseteq Procs
      /\ p \notin faulted' =>
            p \notin faulted /\ (k \in held[p] => slots'[k][p] = "none")
      /\ \A q \in Procs : q # p => (q \in faulted' <=> q \in faulted)
    BY DEF StoreTypes, HistoryTypes, ReleaseSlot, Fault
<1> QED
    BY <1>1, <1>2, <1>3

\* The choice of an account.
LEMMA ChoosePoint ==
    ASSUME RequestTypes, NEW p \in Procs, NEW label \in Labels, ChooseAccount(p, label)
    PROVE  /\ pc' \in [Procs -> Labels] /\ at' \in [Procs -> Users \cup Accounts]
           /\ \A q \in Procs : q # p => pc'[q] = pc[q] /\ at'[q] = at[q]
           /\ at'[p] \in Accounts /\ pc'[p] = label
<1>1. PICK a \in Accounts : at' = [at EXCEPT ![p] = a] /\ pc' = [pc EXCEPT ![p] = label]
    BY DEF ChooseAccount
<1> QED
    BY <1>1 DEF RequestTypes

\* The next account.
LEMMA NextPoint ==
    ASSUME RequestTypes, NEW p \in Procs, NextAccount(p)
    PROVE  /\ pc' \in [Procs -> Labels] /\ at' \in [Procs -> Users \cup Accounts]
           /\ \A q \in Procs : q # p => pc'[q] = pc[q] /\ at'[q] = at[q]
           /\ at'[p] \in Accounts /\ pc'[p] = "acquire"
<1>1. "acquire" \in Labels
    BY DEF Labels
<1> QED
    BY <1>1, ChoosePoint DEF NextAccount

\* Where a request with a slot goes.
LEMMA ProceedPoint ==
    ASSUME RequestTypes, NEW p \in Procs, Proceed(p)
    PROVE  /\ pc' \in [Procs -> Labels] /\ at' \in [Procs -> Users \cup Accounts]
           /\ \A q \in Procs : q # p => pc'[q] = pc[q] /\ at'[q] = at[q]
           /\ \/ at[p] = UserOf[p] /\ at'[p] \in Accounts /\ pc'[p] = "acquire"
              \/ at[p] = UserOf[p] /\ at'[p] = at[p] /\ pc'[p] = "leave"
              \/ /\ at[p] # UserOf[p] /\ at'[p] = at[p]
                 /\ pc'[p] = IF mode[p] = "live" THEN "lease" ELSE "run"
<1>1. CASE at[p] = UserOf[p]
  <2>1. CASE NextAccount(p)
      BY <1>1, <2>1, NextPoint
  <2>2. CASE pc' = [pc EXCEPT ![p] = "leave"] /\ UNCHANGED at
      BY <1>1, <2>2 DEF RequestTypes, Labels
  <2> QED
      BY <1>1, <2>1, <2>2 DEF Proceed
<1>2. CASE at[p] # UserOf[p]
    BY <1>2 DEF Proceed, RequestTypes, Labels
<1> QED
    BY <1>1, <1>2

\* A request that is granted its slot goes on, or leaves its queue first.
LEMMA GrantedPoint ==
    ASSUME RequestTypes, NEW p \in Procs, Granted(p)
    PROVE  /\ pc' \in [Procs -> Labels] /\ at' \in [Procs -> Users \cup Accounts]
           /\ \A q \in Procs : q # p => pc'[q] = pc[q] /\ at'[q] = at[q]
           /\ \/ /\ pc[p] = "acquire"
                 /\ at[p] = UserOf[p] /\ at'[p] \in Accounts /\ pc'[p] = "acquire"
              \/ pc[p] = "acquire" /\ at'[p] = at[p] /\ pc'[p] = "leave"
              \/ /\ pc[p] = "acquire"
                 /\ at[p] # UserOf[p] /\ at'[p] = at[p]
                 /\ pc'[p] = IF mode[p] = "live" THEN "lease" ELSE "run"
              \/ pc[p] = "wait" /\ at'[p] = at[p] /\ pc'[p] = "admitted"
<1>1. CASE pc[p] = "acquire" /\ Proceed(p)
    BY <1>1, ProceedPoint
<1>2. CASE pc[p] = "wait" /\ pc' = [pc EXCEPT ![p] = "admitted"] /\ UNCHANGED at
    BY <1>2 DEF RequestTypes, Labels, Waiting
<1> QED
    BY <1>1, <1>2 DEF Granted

\* acquireScript without a limit.
LEMMA AcquireUnlimited ==
    ASSUME TypeOK, NEW p \in Procs, AcquireSlot(p), Limit[at[p]] = 0
    PROVE  slots' = slots /\ live' = live /\ held' = held /\ Granted(p)
BY DEF AcquireSlot

\* acquireScript when it admits the request.
LEMMA AcquireAdmitted ==
    ASSUME TypeOK, NEW p \in Procs, AcquireSlot(p), Limit[at[p]] > 0, Admitted(at[p])
    PROVE  /\ slots' \in Sets /\ live' \in Sets
           /\ slots'[at[p]][p] = "fresh"
           /\ \A k \in Keys, q \in Procs :
                k # at[p] \/ q # p => SameOrSwept(slots[k][q], slots'[k][q])
           /\ \A k \in Keys, q \in Procs : SameOrSwept(live[k][q], live'[k][q])
           /\ held' \in [Procs -> SUBSET Keys]
           /\ held'[p] = held[p] \cup {at[p]}
           /\ \A q \in Procs : q # p => held'[q] = held[q]
           /\ Granted(p)
<1>1. /\ slots' = [slots EXCEPT ![at[p]] = Added(Swept(@), p)]
      /\ live' = [live EXCEPT ![at[p]] = Swept(@)]
      /\ held' = [held EXCEPT ![p] = @ \cup {at[p]}]
      /\ Granted(p)
    BY DEF AcquireSlot
<1>2. slots \in Sets /\ live \in Sets /\ at[p] \in Keys
    BY KeysOf DEF TypeOK, StoreTypes, Sets
<1>3. /\ slots' \in Sets /\ slots'[at[p]][p] = "fresh"
      /\ \A k \in Keys, q \in Procs : k # at[p] \/ q # p => SameOrSwept(slots[k][q], slots'[k][q])
    BY <1>1, <1>2 DEF Sets, Swept, Added, Marks, SameOrSwept
<1>4. live' \in Sets /\ \A k \in Keys, q \in Procs : SameOrSwept(live[k][q], live'[k][q])
    BY <1>1, <1>2, SweepPoint
<1> QED
    BY <1>1, <1>2, <1>3, <1>4 DEF TypeOK, RequestTypes

\* Where a request without a slot goes.
LEMMA DeniedPoint ==
    ASSUME RequestTypes, NEW p \in Procs, Denied(p)
    PROVE  /\ pc' \in [Procs -> Labels] /\ at' \in [Procs -> Users \cup Accounts]
           /\ \A q \in Procs : q # p => pc'[q] = pc[q] /\ at'[q] = at[q]
           /\ \/ pc[p] = "wait" /\ pc'[p] = "wait" /\ at'[p] = at[p]
              \/ /\ pc[p] = "acquire" /\ mode[p] \in ForwardModes /\ pc'[p] = "enqueue"
                 /\ at'[p] = at[p] \/ at[p] # UserOf[p]
              \/ pc'[p] = "leave" /\ at'[p] = at[p]
              \/ /\ pc[p] = "acquire" /\ at[p] # UserOf[p]
                 /\ pc'[p] = "acquire" /\ at'[p] \in Accounts
<1>1. CASE at[p] # UserOf[p] /\ pc[p] = "acquire" /\ NextAccount(p)
    BY <1>1, NextPoint
<1>2. CASE /\ pc[p] = "acquire" /\ at[p] # UserOf[p]
           /\ mode[p] \in ForwardModes /\ ChooseAccount(p, "enqueue")
  <2>1. "enqueue" \in Labels
      BY DEF Labels
  <2> QED
      BY <1>2, <2>1, ChoosePoint
<1>3. CASE /\ UNCHANGED at
           /\ \/ pc[p] = "wait" /\ UNCHANGED pc
              \/ /\ pc[p] = "acquire" /\ mode[p] \in ForwardModes
                 /\ pc' = [pc EXCEPT ![p] = "enqueue"]
              \/ pc' = [pc EXCEPT ![p] = "leave"]
    BY <1>3 DEF RequestTypes, Labels
<1> QED
    BY <1>1, <1>2, <1>3 DEF Denied

\* acquireScript when it does not.
LEMMA AcquireRefused ==
    ASSUME TypeOK, NEW p \in Procs, AcquireSlot(p), Limit[at[p]] > 0, ~Admitted(at[p])
    PROVE  /\ slots' \in Sets /\ live' \in Sets
           /\ \A k \in Keys, q \in Procs : SameOrSwept(slots[k][q], slots'[k][q])
           /\ \A k \in Keys, q \in Procs : SameOrSwept(live[k][q], live'[k][q])
           /\ held' = held /\ Denied(p)
<1>1. /\ slots' = [slots EXCEPT ![at[p]] = Swept(@)]
      /\ live' = [live EXCEPT ![at[p]] = Swept(@)]
      /\ held' = held /\ Denied(p)
    BY KeyKinds, KeysOf DEF AcquireSlot, TypeOK
<1>2. slots \in Sets /\ live \in Sets /\ at[p] \in Keys
    BY KeysOf DEF TypeOK, StoreTypes, Sets
<1>3. slots' \in Sets /\ \A k \in Keys, q \in Procs : SameOrSwept(slots[k][q], slots'[k][q])
    BY <1>1, <1>2, SweepPoint
<1>4. live' \in Sets /\ \A k \in Keys, q \in Procs : SameOrSwept(live[k][q], live'[k][q])
    BY <1>1, <1>2, SweepPoint
<1> QED
    BY <1>1, <1>3, <1>4

\* acquireScript whose answer is lost.
LEMMA FailsPoint ==
    ASSUME TypeOK, NEW p \in Procs, AcquireFails(p)
    PROVE  /\ slots' \in Sets /\ live' \in Sets /\ faults' \in Nat
           /\ \A k \in Keys, q \in Procs : q # p => SameOrSwept(slots[k][q], slots'[k][q])
           /\ \A k \in Keys, q \in Procs : SameOrSwept(live[k][q], live'[k][q])
           /\ \A k \in Keys : slots'[k][p] = "fresh" \/ SameOrSwept(slots[k][p], slots'[k][p])
           /\ (slots' = slots /\ faulted' = faulted) \/ faulted' = faulted \cup {p}
           /\ pc' \in [Procs -> Labels] /\ at' \in [Procs -> Users \cup Accounts]
           /\ \A q \in Procs : q # p => pc'[q] = pc[q] /\ at'[q] = at[q]
           /\ pc[p] \in {"acquire", "wait"}
           /\ \/ pc[p] = "wait" /\ pc'[p] = "timedOut" /\ at'[p] = at[p]
              \/ pc'[p] = "leave" /\ at'[p] = at[p]
              \/ pc[p] = "acquire" /\ at[p] # UserOf[p] /\ Denied(p)
<1>1. slots \in Sets /\ live \in Sets /\ at[p] \in Keys
    BY KeysOf DEF TypeOK, StoreTypes, Sets
<1>2. /\ pc' \in [Procs -> Labels] /\ at' \in [Procs -> Users \cup Accounts]
      /\ \A q \in Procs : q # p => pc'[q] = pc[q] /\ at'[q] = at[q]
      /\ pc[p] \in {"acquire", "wait"}
      /\ \/ pc[p] = "wait" /\ pc'[p] = "timedOut" /\ at'[p] = at[p]
         \/ pc'[p] = "leave" /\ at'[p] = at[p]
         \/ pc[p] = "acquire" /\ at[p] # UserOf[p] /\ Denied(p)
      /\ faults' \in Nat
  <2>1. faults' \in Nat /\ pc[p] \in {"acquire", "wait"}
      BY DEF AcquireFails, Fault, TypeOK, HistoryTypes
  <2>2. CASE pc[p] = "acquire" /\ at[p] # UserOf[p] /\ Denied(p)
      BY <2>1, <2>2, DeniedPoint DEF TypeOK
  <2>3. CASE /\ pc' = [pc EXCEPT ![p] = IF pc[p] = "wait" THEN "timedOut" ELSE "leave"]
             /\ UNCHANGED at
      BY <2>1, <2>3 DEF TypeOK, RequestTypes, Labels, Waiting
  <2> QED
      BY <2>2, <2>3 DEF AcquireFails
<1>3. CASE UNCHANGED <<slots, live, faulted>>
    BY <1>1, <1>2, <1>3 DEF SameOrSwept
<1>4. CASE /\ slots' = [slots EXCEPT ![at[p]] = Added(Swept(@), p)]
           /\ live' = [live EXCEPT ![at[p]] = Swept(@)]
           /\ faulted' = faulted \cup {p}
  <2>1. /\ slots' \in Sets /\ slots'[at[p]][p] = "fresh"
        /\ \A k \in Keys, q \in Procs :
                k # at[p] \/ q # p => SameOrSwept(slots[k][q], slots'[k][q])
      BY <1>1, <1>4 DEF Sets, Swept, Added, Marks, SameOrSwept
  <2>2. live' \in Sets /\ \A k \in Keys, q \in Procs : SameOrSwept(live[k][q], live'[k][q])
      BY <1>1, <1>4, SweepPoint
  <2> QED
      BY <1>2, <1>4, <2>1, <2>2
<1> QED
    BY <1>3, <1>4 DEF AcquireFails

\* acquireScript when it admits the request and the scheduler gives the account
\* up.
LEMMA SelectionPoint ==
    ASSUME TypeOK, NEW p \in Procs, SelectionFails(p)
    PROVE  /\ slots' \in Sets /\ live' \in Sets
           /\ slots'[at[p]][p] = "fresh"
           /\ \A k \in Keys, q \in Procs :
                k # at[p] \/ q # p => SameOrSwept(slots[k][q], slots'[k][q])
           /\ \A k \in Keys, q \in Procs : SameOrSwept(live[k][q], live'[k][q])
           /\ held' \in [Procs -> SUBSET Keys]
           /\ \A q \in Procs : q # p => held'[q] = held[q]
           /\ dropped \subseteq dropped' /\ dropped' \subseteq Procs
           /\ \A q \in Procs : q # p => (q \in dropped' <=> q \in dropped)
           /\ \/ held'[p] = held[p] \cup {at[p]}
              \/ held'[p] = held[p] /\ p \in dropped'
           /\ at[p] \in Accounts /\ pc[p] = "acquire"
           /\ pc' \in [Procs -> Labels]
           /\ \A q \in Procs : q # p => pc'[q] = pc[q]
           /\ pc'[p] = "leave" \/ (pc'[p] = "switch" /\ mode[p] \in ForwardModes)
           /\ UNCHANGED <<waits, mode, at, session, faults, lapsed, undercounted, faulted>>
<1>1. /\ slots' = [slots EXCEPT ![at[p]] = Added(Swept(@), p)]
      /\ live' = [live EXCEPT ![at[p]] = Swept(@)]
      /\ pc[p] = "acquire" /\ at[p] \in Accounts
      /\ UNCHANGED <<waits, mode, at, session, faults, lapsed, undercounted, faulted>>
    BY DEF SelectionFails
<1>2. slots \in Sets /\ live \in Sets /\ at[p] \in Keys
    BY KeysOf DEF TypeOK, StoreTypes, Sets
<1>3. /\ slots' \in Sets /\ slots'[at[p]][p] = "fresh"
      /\ \A k \in Keys, q \in Procs : k # at[p] \/ q # p => SameOrSwept(slots[k][q], slots'[k][q])
    BY <1>1, <1>2 DEF Sets, Swept, Added, Marks, SameOrSwept
<1>4. live' \in Sets /\ \A k \in Keys, q \in Procs : SameOrSwept(live[k][q], live'[k][q])
    BY <1>1, <1>2, SweepPoint
<1>5. /\ pc' \in [Procs -> Labels]
      /\ \A q \in Procs : q # p => pc'[q] = pc[q]
      /\ pc'[p] = "leave" \/ (pc'[p] = "switch" /\ mode[p] \in ForwardModes)
    BY DEF SelectionFails, TypeOK, RequestTypes, Labels
<1>6. /\ held' \in [Procs -> SUBSET Keys]
      /\ \A q \in Procs : q # p => held'[q] = held[q]
      /\ \/ held'[p] = held[p] \cup {at[p]} /\ dropped' = dropped
         \/ held'[p] = held[p] /\ dropped' = dropped \cup {p}
    BY <1>2 DEF SelectionFails, TypeOK, RequestTypes
<1>7. /\ dropped \subseteq dropped' /\ dropped' \subseteq Procs
      /\ \A q \in Procs : q # p => (q \in dropped' <=> q \in dropped)
      /\ \/ held'[p] = held[p] \cup {at[p]}
         \/ held'[p] = held[p] /\ p \in dropped'
    BY <1>6 DEF TypeOK, HistoryTypes
<1> QED
    BY <1>1, <1>3, <1>4, <1>5, <1>6, <1>7

-----------------------------------------------------------------------------

\* A step of a request changes no other request.
LEMMA ActsAlone ==
    ASSUME TypeOK, NEW p \in Procs, RequestStep(p)
    PROVE  Alone(p)
<1>1. CASE Begin(p)
    BY <1>1, KeyKinds
       DEF Begin, redis, request, history, Alone, TypeOK, RequestTypes, Labels, Waiting,
           Leasing, Sessions, Modes
<1>2. CASE AcquireSlot(p)
  <2>1. UNCHANGED <<mode, session>>
      BY <1>2 DEF AcquireSlot
  <2>2. CASE Limit[at[p]] = 0
      BY <1>2, <2>1, <2>2, AcquireUnlimited, GrantedPoint DEF Alone, TypeOK, RequestTypes
  <2>3. CASE Limit[at[p]] > 0 /\ Admitted(at[p])
      BY <1>2, <2>1, <2>3, AcquireAdmitted, GrantedPoint DEF Alone, TypeOK, RequestTypes
  <2>4. CASE Limit[at[p]] > 0 /\ ~Admitted(at[p])
      BY <1>2, <2>1, <2>4, AcquireRefused, DeniedPoint DEF Alone, TypeOK, RequestTypes
  <2> QED
      BY <2>2, <2>3, <2>4, KeyKinds, KeysOf DEF TypeOK
<1>3. CASE AcquireFails(p)
    BY <1>3, FailsPoint DEF AcquireFails, Alone, TypeOK, RequestTypes
<1>4. CASE IncrementWaitCount(p)
    BY <1>4, KeyKinds
       DEF IncrementWaitCount, Fault, redis, request, history, Alone, TypeOK, RequestTypes,
           Labels, Waiting, Leasing, Sessions, Modes
<1>5. CASE WaitTimeout(p)
    BY <1>5, KeyKinds
       DEF WaitTimeout, redis, request, history, Alone, TypeOK, RequestTypes, Labels,
           Waiting, Leasing, Sessions, Modes
<1>6. CASE DecrementWaitCount(p)
  <2>1. CASE Proceed(p)
      BY <1>6, <2>1, ProceedPoint DEF DecrementWaitCount, Alone, TypeOK, RequestTypes
  <2>2. CASE pc' = [pc EXCEPT ![p] = "leave"] /\ UNCHANGED at
      BY <1>6, <2>2 DEF DecrementWaitCount, Alone, TypeOK, RequestTypes, Labels
  <2> QED
      BY <1>6, <2>1, <2>2 DEF DecrementWaitCount
<1>7. CASE Forwarded(p)
  <2>1. PICK l \in {"leave", "switch"} : pc' = [pc EXCEPT ![p] = l]
      BY <1>7 DEF Forwarded
  <2> QED
      BY <1>7, <2>1
         DEF Forwarded, redis, request, history, Alone, TypeOK, RequestTypes, Labels,
             Waiting, Leasing, Sessions, Modes
<1>8. CASE SwitchAccount(p)
  <2>1. CASE at[p] \in held[p]
      BY <1>8, <2>1, KeysOf, ReleasePoint DEF SwitchAccount, Alone, TypeOK, RequestTypes
  <2>2. CASE NextAccount(p) /\ UNCHANGED held
      BY <1>8, <2>2, NextPoint DEF SwitchAccount, Alone, TypeOK, RequestTypes
  <2>3. CASE pc' = [pc EXCEPT ![p] = "leave"] /\ UNCHANGED <<at, held>>
      BY <1>8, <2>3 DEF SwitchAccount, Alone, TypeOK, RequestTypes, Labels
  <2> QED
      BY <1>8, <2>1, <2>2, <2>3 DEF SwitchAccount
<1>9. CASE ReleaseOnDone(p)
  <2>1. PICK k \in held[p] : ReleaseSlot(p, k)
      BY <1>9 DEF ReleaseOnDone
  <2>2. k \in Keys
      BY DEF TypeOK, RequestTypes
  <2> QED
      BY <1>9, <2>1, <2>2, ReleasePoint
         DEF ReleaseOnDone, Alone, TypeOK, RequestTypes, Modes
<1>10. CASE Leave(p)
  <2>1. CASE held[p] # {}
    <3>1. PICK k \in held[p] : ReleaseSlot(p, k)
        BY <1>10, <2>1 DEF Leave
    <3>2. k \in Keys
        BY DEF TypeOK, RequestTypes
    <3> QED
        BY <1>10, <2>1, <3>1, <3>2, ReleasePoint DEF Leave, Alone, TypeOK, RequestTypes
  <2>2. CASE held[p] = {}
      BY <1>10, <2>2 DEF Leave, Alone, TypeOK, RequestTypes, Labels, Modes
  <2> QED
      BY <2>1, <2>2
<1>11. CASE AcquireLiveLease(p)
    BY <1>11, KeyKinds
       DEF AcquireLiveLease, Fault, redis, request, history, Alone, TypeOK, RequestTypes,
           Labels, Waiting, Leasing, Sessions, Modes
<1>12. CASE CreateUpstreamLiveCall(p)
  <2>1. PICK l \in {"created", "failed"} : pc' = [pc EXCEPT ![p] = l]
      BY <1>12 DEF CreateUpstreamLiveCall
  <2> QED
      BY <1>12, <2>1
         DEF CreateUpstreamLiveCall, redis, request, history, Alone, TypeOK, RequestTypes,
             Labels, Waiting, Leasing, Sessions, Modes
<1>13. CASE ReleaseAccountSlot(p)
    BY <1>13, KeysOf, ReleasePoint
       DEF ReleaseAccountSlot, Alone, TypeOK, RequestTypes, Labels, Leasing
<1>14. CASE SaveLiveCall(p)
    BY <1>14, KeyKinds
       DEF SaveLiveCall, redis, request, history, Alone, TypeOK, RequestTypes, Labels,
           Waiting, Leasing, Sessions, Modes
<1>15. CASE UndoLiveCall(p)
  <2>1. CASE pc' = [pc EXCEPT ![p] = "leave"] /\ UNCHANGED at
      BY <1>15, <2>1 DEF UndoLiveCall, Alone, TypeOK, RequestTypes, Labels
  <2>2. CASE NextAccount(p)
      BY <1>15, <2>2, NextPoint DEF UndoLiveCall, Alone, TypeOK, RequestTypes
  <2> QED
      BY <1>15, <2>1, <2>2 DEF UndoLiveCall
<1>16. CASE RefreshLiveLease(p)
    BY <1>16, KeyKinds
       DEF RefreshLiveLease, Fault, redis, request, history, Alone, TypeOK, RequestTypes,
           Labels, Waiting, Leasing, Sessions, Modes
<1>17. CASE SessionEnds(p)
    BY <1>17, KeyKinds
       DEF SessionEnds, redis, request, history, Alone, TypeOK, RequestTypes, Labels,
           Waiting, Leasing, Sessions, Modes
<1>18. CASE FinalizeLiveCall(p)
    BY <1>18, KeyKinds
       DEF FinalizeLiveCall, Fault, redis, request, history, Alone, TypeOK, RequestTypes,
           Labels, Waiting, Leasing, Sessions, Modes
<1>19. CASE \E k \in Keys : SlotAges(p, k)
    BY <1>19, KeyKinds
       DEF SlotAges, Lose, Fault, redis, request, history, Alone, TypeOK, RequestTypes,
           Labels, Waiting, Leasing, Sessions, Modes
<1>20. CASE LeaseAges(p)
    BY <1>20, KeyKinds
       DEF LeaseAges, Lose, Fault, redis, request, history, Alone, TypeOK, RequestTypes,
           Labels, Waiting, Leasing, Sessions, Modes
<1>21. CASE Crash(p)
    BY <1>21, KeyKinds
       DEF Crash, Fault, redis, request, history, Alone, TypeOK, RequestTypes, Labels,
           Waiting, Leasing, Sessions, Modes
<1>22. CASE SelectionFails(p)
    BY <1>22, SelectionPoint DEF Alone, TypeOK, RequestTypes
<1> QED
    BY <1>1, <1>2, <1>3, <1>4, <1>5, <1>6, <1>7, <1>8, <1>9, <1>10, <1>11, <1>12, <1>13,
       <1>14, <1>15, <1>16, <1>17, <1>18, <1>19, <1>20, <1>21, <1>22
       DEF RequestStep

\* A step of a request leaves what the sets know of the others.
LEMMA ActsTidily ==
    ASSUME TypeOK, NEW p \in Procs, RequestStep(p)
    PROVE  Tidy(p)
<1>1. CASE Begin(p)
    BY <1>1, KeyKinds, KeysOf
       DEF Begin, redis, request, history, Tidy, Untouched, SameOrSwept, TypeOK,
           StoreTypes, HistoryTypes, Marks
<1>2. CASE AcquireSlot(p)
  <2>1. UNCHANGED <<waits, faults, history>>
      BY <1>2 DEF AcquireSlot
  <2>2. CASE Limit[at[p]] = 0
      BY <1>2, <2>1, <2>2, AcquireUnlimited
         DEF history, Tidy, Untouched, SameOrSwept, TypeOK, StoreTypes, HistoryTypes
  <2>3. CASE Limit[at[p]] > 0 /\ Admitted(at[p])
      BY <1>2, <2>1, <2>3, AcquireAdmitted
         DEF history, Sets, Tidy, Untouched, TypeOK, StoreTypes, HistoryTypes
  <2>4. CASE Limit[at[p]] > 0 /\ ~Admitted(at[p])
      BY <1>2, <2>1, <2>4, AcquireRefused
         DEF history, Sets, Tidy, Untouched, TypeOK, StoreTypes, HistoryTypes
  <2> QED
      BY <2>2, <2>3, <2>4, KeyKinds, KeysOf DEF TypeOK
<1>3. CASE AcquireFails(p)
    BY <1>3, FailsPoint
       DEF AcquireFails, Sets, Tidy, Untouched, TypeOK, StoreTypes, HistoryTypes
<1>4. CASE IncrementWaitCount(p)
    BY <1>4, KeyKinds, KeysOf
       DEF IncrementWaitCount, MayWait, Fault, redis, request, history, Tidy, Untouched,
           SameOrSwept, TypeOK, StoreTypes, HistoryTypes, Marks
<1>5. CASE WaitTimeout(p)
    BY <1>5, KeyKinds, KeysOf
       DEF WaitTimeout, redis, request, history, Tidy, Untouched, SameOrSwept, TypeOK,
           StoreTypes, HistoryTypes, Marks
<1>6. CASE DecrementWaitCount(p)
    BY <1>6, KeyKinds, KeysOf
       DEF DecrementWaitCount, Decremented, Proceed, Fault, redis, request, history, Tidy,
           Untouched, SameOrSwept, TypeOK, StoreTypes, HistoryTypes, Marks
<1>7. CASE Forwarded(p)
    BY <1>7, KeyKinds, KeysOf
       DEF Forwarded, redis, request, history, Tidy, Untouched, SameOrSwept, TypeOK,
           StoreTypes, HistoryTypes, Marks
<1>8. CASE SwitchAccount(p)
  <2>1. CASE at[p] \in held[p]
      BY <1>8, <2>1, KeysOf, ReleasePoint
         DEF SwitchAccount, Sets, Tidy, Untouched, SameOrSwept, TypeOK, StoreTypes,
             HistoryTypes
  <2>2. CASE at[p] \notin held[p]
      BY <1>8, <2>2
         DEF SwitchAccount, Tidy, Untouched, SameOrSwept, TypeOK, StoreTypes, HistoryTypes
  <2> QED
      BY <2>1, <2>2
<1>9. CASE ReleaseOnDone(p)
  <2>1. PICK k \in held[p] : ReleaseSlot(p, k)
      BY <1>9 DEF ReleaseOnDone
  <2>2. k \in Keys
      BY DEF TypeOK, RequestTypes
  <2> QED
      BY <1>9, <2>1, <2>2, ReleasePoint
         DEF ReleaseOnDone, Sets, Tidy, Untouched, SameOrSwept, TypeOK, StoreTypes,
             HistoryTypes
<1>10. CASE Leave(p)
  <2>1. CASE held[p] # {}
    <3>1. PICK k \in held[p] : ReleaseSlot(p, k)
        BY <1>10, <2>1 DEF Leave
    <3>2. k \in Keys
        BY DEF TypeOK, RequestTypes
    <3> QED
        BY <1>10, <2>1, <3>1, <3>2, ReleasePoint
           DEF Leave, Sets, Tidy, Untouched, SameOrSwept, TypeOK, StoreTypes, HistoryTypes
  <2>2. CASE held[p] = {}
      BY <1>10, <2>2
         DEF Leave, Tidy, Untouched, SameOrSwept, TypeOK, StoreTypes, HistoryTypes
  <2> QED
      BY <2>1, <2>2
<1>11. CASE AcquireLiveLease(p)
  <2>1. /\ UNCHANGED <<slots, waits, lapsed, undercounted, dropped>>
        /\ faults' \in Nat /\ faulted' \subseteq Procs
        /\ \A q \in Procs : q # p => (q \in faulted' <=> q \in faulted)
      BY <1>11 DEF AcquireLiveLease, Fault, TypeOK, HistoryTypes
  <2>2. CASE live' = WithLease(p)
      BY <2>1, <2>2, LeasePoint
         DEF Sets, Tidy, Untouched, SameOrSwept, TypeOK, StoreTypes, HistoryTypes
  <2>3. CASE live' = SweptKeys(LeaseKeys(p))
      BY <2>1, <2>3, SweptKeysPoint
         DEF Sets, Tidy, Untouched, SameOrSwept, TypeOK, StoreTypes, HistoryTypes
  <2>4. CASE live' = live
      BY <2>1, <2>4 DEF Tidy, Untouched, SameOrSwept, TypeOK, StoreTypes, HistoryTypes
  <2> QED
      BY <1>11, <2>2, <2>3, <2>4 DEF AcquireLiveLease
<1>12. CASE CreateUpstreamLiveCall(p)
    BY <1>12, KeyKinds, KeysOf
       DEF CreateUpstreamLiveCall, redis, request, history, Tidy, Untouched, SameOrSwept,
           TypeOK, StoreTypes, HistoryTypes, Marks
<1>13. CASE ReleaseAccountSlot(p)
    BY <1>13, KeysOf, ReleasePoint
       DEF ReleaseAccountSlot, Sets, Tidy, Untouched, SameOrSwept, TypeOK, StoreTypes,
           HistoryTypes
<1>14. CASE SaveLiveCall(p)
    BY <1>14, KeyKinds, KeysOf
       DEF SaveLiveCall, redis, request, history, Tidy, Untouched, SameOrSwept, TypeOK,
           StoreTypes, HistoryTypes, Marks
<1>15. CASE UndoLiveCall(p)
    BY <1>15, DropPoint
       DEF UndoLiveCall, Sets, Tidy, Untouched, SameOrSwept, TypeOK, StoreTypes,
           HistoryTypes
<1>16. CASE RefreshLiveLease(p)
  <2>1. UNCHANGED <<slots, waits, history>> /\ faults' \in Nat
      BY <1>16 DEF RefreshLiveLease, Fault, TypeOK, HistoryTypes
  <2>2. CASE live' = WithLease(p)
      BY <2>1, <2>2, LeasePoint
         DEF history, Sets, Tidy, Untouched, SameOrSwept, TypeOK, StoreTypes, HistoryTypes
  <2>3. CASE live' = SweptKeys(SweptBy(p))
      BY <2>1, <2>3, SweptKeysPoint
         DEF history, Sets, Tidy, Untouched, SameOrSwept, TypeOK, StoreTypes, HistoryTypes
  <2>4. CASE live' = live
      BY <2>1, <2>4
         DEF history, Tidy, Untouched, SameOrSwept, TypeOK, StoreTypes, HistoryTypes
  <2> QED
      BY <1>16, <2>2, <2>3, <2>4 DEF RefreshLiveLease
<1>17. CASE SessionEnds(p)
    BY <1>17, KeyKinds, KeysOf
       DEF SessionEnds, redis, request, history, Tidy, Untouched, SameOrSwept, TypeOK,
           StoreTypes, HistoryTypes, Marks
<1>18. CASE FinalizeLiveCall(p)
    BY <1>18, DropPoint
       DEF FinalizeLiveCall, Sets, Tidy, Untouched, SameOrSwept, TypeOK, StoreTypes,
           HistoryTypes
<1>19. CASE \E k \in Keys : SlotAges(p, k)
    BY <1>19, KeyKinds, KeysOf
       DEF SlotAges, Lose, Fault, redis, request, history, Tidy, Untouched, SameOrSwept,
           TypeOK, StoreTypes, HistoryTypes, Marks
<1>20. CASE LeaseAges(p)
    BY <1>20, KeyKinds, KeysOf
       DEF LeaseAges, Lose, Fault, redis, request, history, Tidy, Untouched, SameOrSwept,
           TypeOK, StoreTypes, HistoryTypes, Marks
<1>21. CASE Crash(p)
    BY <1>21, KeyKinds, KeysOf
       DEF Crash, Fault, redis, request, history, Tidy, Untouched, SameOrSwept, TypeOK,
           StoreTypes, HistoryTypes, Marks
<1>22. CASE SelectionFails(p)
    BY <1>22, SelectionPoint DEF Sets, Tidy, Untouched, TypeOK, StoreTypes, HistoryTypes
<1> QED
    BY <1>1, <1>2, <1>3, <1>4, <1>5, <1>6, <1>7, <1>8, <1>9, <1>10, <1>11, <1>12, <1>13,
       <1>14, <1>15, <1>16, <1>17, <1>18, <1>19, <1>20, <1>21, <1>22
       DEF RequestStep

\* So does a step on a key, but for the cleanup at startup.
LEMMA KeyStepTidy ==
    ASSUME TypeOK, NEW k \in Keys, KeyStep(k)
    PROVE  /\ StoreTypes' /\ HistoryTypes' /\ UNCHANGED <<mode, pc, at, held, session>>
           /\ lapsed \subseteq lapsed' /\ undercounted \subseteq undercounted'
           /\ CleanupStaleProcessSlots(k) \/ \A q \in Procs : Untouched(q)
<1>1. CASE GetCount(k)
  <2>1. slots \in Sets /\ live \in Sets
      BY DEF TypeOK, StoreTypes, Sets
  <2>2. slots' \in Sets /\ \A j \in Keys, q \in Procs : SameOrSwept(slots[j][q], slots'[j][q])
      BY <1>1, <2>1, SweepPoint DEF GetCount
  <2>3. live' \in Sets /\ \A j \in Keys, q \in Procs : SameOrSwept(live[j][q], live'[j][q])
      BY <1>1, <2>1, SweepPoint DEF GetCount
  <2> QED
      BY <1>1, <2>2, <2>3
         DEF GetCount, request, history, Sets, StoreTypes, HistoryTypes, Untouched, TypeOK
<1>2. CASE CleanupExpiredSlots(k)
  <2>1. slots \in Sets
      BY DEF TypeOK, StoreTypes, Sets
  <2>2. slots' \in Sets /\ \A j \in Keys, q \in Procs : SameOrSwept(slots[j][q], slots'[j][q])
      BY <1>2, <2>1, SweepPoint DEF CleanupExpiredSlots
  <2> QED
      BY <1>2, <2>2
         DEF CleanupExpiredSlots, request, history, Sets, StoreTypes, HistoryTypes,
             Untouched, SameOrSwept, TypeOK
<1>3. CASE CleanupStaleProcessSlots(k)
  <2>1. PICK others \in SUBSET Members(slots[k]) :
          slots' = [slots EXCEPT ![k] =
                      [p \in Procs |-> IF p \in others THEN "none" ELSE slots[k][p]]]
      BY <1>3 DEF CleanupStaleProcessSlots
  <2>2. slots' \in [Keys -> [Procs -> Marks]]
      BY <2>1 DEF TypeOK, StoreTypes, Marks
  <2>3. HistoryTypes' /\ lapsed \subseteq lapsed'
      BY <1>3 DEF CleanupStaleProcessSlots, Lose, Fault, TypeOK, HistoryTypes
  <2> QED
      BY <1>3, <2>2, <2>3 DEF CleanupStaleProcessSlots, request, TypeOK, StoreTypes
<1>4. CASE DeleteWaitKey(k)
    BY <1>4, KeyKinds, KeysOf
       DEF DeleteWaitKey, Fault, redis, request, history, StoreTypes, HistoryTypes,
           Untouched, SameOrSwept, TypeOK, Marks
<1> QED
    BY <1>1, <1>2, <1>3, <1>4 DEF KeyStep

\* Every script and event keeps the types.
LEMMA TypeNext == TypeOK /\ [Next]_vars => TypeOK'
<1> SUFFICES ASSUME TypeOK, [Next]_vars PROVE TypeOK'
    OBVIOUS
<1>1. ASSUME NEW p \in Procs, RequestStep(p) PROVE TypeOK'
    BY <1>1, ActsAlone, ActsTidily DEF Alone, Tidy, TypeOK
<1>2. ASSUME NEW k \in Keys, KeyStep(k) PROVE TypeOK'
    BY <1>2, KeyStepTidy DEF TypeOK, RequestTypes
<1>3. ASSUME UNCHANGED vars PROVE TypeOK'
    BY <1>3
       DEF vars, redis, request, history, TypeOK, StoreTypes, RequestTypes, HistoryTypes
<1> QED
    BY <1>1, <1>2, <1>3, StepSplit

-----------------------------------------------------------------------------
(* The invariant, for one request.                                         *)

Ordered(p) ==
    /\ mode[p] # "drain" /\ pc[p] \in AtWork =>
            at[p] = UserOf[p] \/ Limit[UserOf[p]] = 0 \/ UserOf[p] \in held[p]
    /\ mode[p] # "drain" /\ pc[p] \in {"admitted", "run", "lease"} =>
            Limit[at[p]] = 0 \/ at[p] \in held[p]
    /\ pc[p] \in {"run", "switch", "lease"} \cup Leasing => at[p] # UserOf[p]
    /\ pc[p] = "acquire" => mode[p] # "none"
    /\ pc[p] \in {"enqueue", "run", "switch"} \cup Waiting => mode[p] \in ForwardModes
    /\ pc[p] \in {"lease"} \cup Leasing => mode[p] = "live"
    /\ session[p] # "none" => pc[p] \in {"leave", "idle"}

SlotsOf(p) ==
    /\ \A k \in held[p] \ lapsed : slots[k][p] = "fresh"
    /\ p \notin faulted =>
        \A k \in Keys : slots[k][p] # "none" => k \in held[p] \/ (p \in dropped /\ k \in Accounts)

LeasesOf(p) ==
    /\ HasLease(p) => \A k \in LeaseKeys(p) \ lapsed : live[k][p] = "fresh"
    /\ HasLease(p) /\ (\E k \in LeaseKeys(p) : live[k][p] = "fresh") => Intact(p)
    /\ p \notin faulted =>
        \A k \in Keys : live[k][p] # "none" => HasLease(p) /\ k \in LeaseKeys(p)

\* The parts of Inv that are about single requests.
LEMMA PerRequest ==
    HeldInOrder /\ SlotsTracked /\ LeasesTracked /\ LeaseTogether /\ NothingForgotten
        <=> \A p \in Procs : Ordered(p) /\ SlotsOf(p) /\ LeasesOf(p)
<1>1. HeldInOrder <=> \A p \in Procs : Ordered(p)
    BY DEF HeldInOrder, Ordered
<1>2. SlotsTracked /\ NothingForgotten => \A p \in Procs : SlotsOf(p)
    BY DEF SlotsTracked, NothingForgotten, SlotsOf
<1>3. LeasesTracked /\ LeaseTogether /\ NothingForgotten => \A p \in Procs : LeasesOf(p)
    BY DEF LeasesTracked, LeaseTogether, NothingForgotten, LeasesOf
<1>4. (\A p \in Procs : SlotsOf(p) /\ LeasesOf(p)) =>
        SlotsTracked /\ LeasesTracked /\ LeaseTogether
    BY DEF SlotsTracked, LeasesTracked, LeaseTogether, SlotsOf, LeasesOf
<1>5. (\A p \in Procs : SlotsOf(p) /\ LeasesOf(p)) => NothingForgotten
    BY DEF NothingForgotten, SlotsOf, LeasesOf
<1> QED
    BY <1>1, <1>2, <1>3, <1>4, <1>5

\* A request that a step does not concern.
LEMMA Bystander ==
    ASSUME TypeOK, NEW q \in Procs, Untouched(q), lapsed \subseteq lapsed',
           mode'[q] = mode[q], pc'[q] = pc[q], at'[q] = at[q],
           held'[q] = held[q], session'[q] = session[q],
           Ordered(q), SlotsOf(q), LeasesOf(q)
    PROVE  Ordered(q)' /\ SlotsOf(q)' /\ LeasesOf(q)'
<1>1. Ordered(q)'
    BY DEF Ordered
<1>2. HasLease(q)' <=> HasLease(q)
    BY DEF HasLease
<1>3. LeaseKeys(q)' = LeaseKeys(q) /\ LeaseKeys(q) \subseteq Keys
    BY KeysOf DEF LeaseKeys, TypeOK
<1>4. SlotsOf(q)'
    BY DEF SlotsOf, Untouched, SameOrSwept, TypeOK, StoreTypes, RequestTypes, Marks
<1>5. LeasesOf(q)'
    BY <1>2, <1>3 DEF LeasesOf, Intact, Untouched, SameOrSwept, TypeOK, StoreTypes, Marks
<1> QED
    BY <1>1, <1>4, <1>5

\* A request that is granted its slot, and has it if there is a limit.
LEMMA GrantedOrdered ==
    ASSUME RequestTypes, NEW p \in Procs, Granted(p), mode' = mode, session' = session,
           held[p] \subseteq held'[p], Limit[at[p]] = 0 \/ at[p] \in held'[p], Ordered(p)
    PROVE  Ordered(p)'
<1>1. CASE /\ pc[p] = "acquire"
           /\ at[p] = UserOf[p] /\ at'[p] \in Accounts /\ pc'[p] = "acquire"
    BY <1>1 DEF Ordered, AtWork, ForwardModes, Waiting, Leasing
<1>2. CASE /\ pc[p] = "acquire"
           /\ at[p] # UserOf[p] /\ at'[p] = at[p]
           /\ pc'[p] = IF mode[p] = "live" THEN "lease" ELSE "run"
    BY <1>2 DEF Ordered, AtWork, ForwardModes, Waiting, Leasing, RequestTypes, Modes
<1>3. CASE pc[p] = "wait" /\ at'[p] = at[p] /\ pc'[p] = "admitted"
    BY <1>3 DEF Ordered, AtWork, ForwardModes, Waiting, Leasing
<1>4. CASE pc[p] = "acquire" /\ at'[p] = at[p] /\ pc'[p] = "leave"
    BY <1>4 DEF Ordered, AtWork, ForwardModes, Waiting, Leasing
<1> QED
    BY <1>1, <1>2, <1>3, <1>4, GrantedPoint

\* A request keeps to the order of its steps.
LEMMA OrderedNext ==
    ASSUME TypeOK, NEW p \in Procs, RequestStep(p)
    PROVE  Ordered(p) => Ordered(p)'
<1>1. CASE Begin(p)
    BY <1>1, KeyKinds
       DEF Begin, redis, request, history, Ordered, AtWork, ForwardModes, TypeOK, RequestTypes,
           Labels, Waiting,
           Leasing, Sessions, Modes
<1>2. CASE AcquireSlot(p)
  <2>1. UNCHANGED <<mode, session>> /\ pc[p] \in {"acquire", "wait"}
      BY <1>2 DEF AcquireSlot
  <2>2. CASE Limit[at[p]] = 0
    <3>1. held' = held /\ Granted(p)
        BY <1>2, <2>2, AcquireUnlimited
    <3> QED
        BY <2>1, <2>2, <3>1, GrantedOrdered DEF TypeOK
  <2>3. CASE Limit[at[p]] > 0 /\ Admitted(at[p])
    <3>1. held'[p] = held[p] \cup {at[p]} /\ Granted(p)
        BY <1>2, <2>3, AcquireAdmitted
    <3> QED
        BY <2>1, <3>1, GrantedOrdered DEF TypeOK
  <2>4. CASE Limit[at[p]] > 0 /\ ~Admitted(at[p])
    <3>1. held' = held /\ Denied(p)
        BY <1>2, <2>4, AcquireRefused
    <3> QED
        BY <2>1, <3>1, DeniedPoint DEF Ordered, AtWork, ForwardModes, TypeOK, Waiting, Leasing
  <2> QED
      BY <2>2, <2>3, <2>4, KeyKinds, KeysOf DEF TypeOK
<1>3. CASE AcquireFails(p)
  <2>1. UNCHANGED <<mode, held, session>> /\ pc[p] \in {"acquire", "wait"}
      BY <1>3 DEF AcquireFails
  <2>2. CASE Denied(p)
      BY <2>1, <2>2, DeniedPoint DEF Ordered, AtWork, ForwardModes, TypeOK, Waiting, Leasing
  <2>3. CASE ~Denied(p)
      BY <1>3, <2>1, <2>3, FailsPoint DEF Ordered, AtWork, ForwardModes, Waiting, Leasing
  <2> QED
      BY <2>2, <2>3
<1>4. CASE IncrementWaitCount(p)
    BY <1>4, KeyKinds
       DEF IncrementWaitCount, redis, request, history, Ordered, AtWork, ForwardModes, TypeOK,
           RequestTypes,
           Labels, Waiting, Leasing, Sessions, Modes
<1>5. CASE WaitTimeout(p)
    BY <1>5, KeyKinds
       DEF WaitTimeout, redis, request, history, Ordered, AtWork, ForwardModes, TypeOK,
           RequestTypes, Labels,
           Waiting, Leasing, Sessions, Modes
<1>6. CASE DecrementWaitCount(p)
  <2>1. UNCHANGED <<mode, held, session>> /\ pc[p] \in {"admitted", "timedOut"}
      BY <1>6 DEF DecrementWaitCount
  <2>2. CASE pc[p] = "admitted" /\ Proceed(p)
      BY <2>1, <2>2, ProceedPoint, KeyKinds DEF Ordered, AtWork, ForwardModes, TypeOK, Waiting,
         Leasing
  <2>3. CASE pc' = [pc EXCEPT ![p] = "leave"] /\ UNCHANGED at
      BY <2>1, <2>3 DEF Ordered, AtWork, ForwardModes, TypeOK, RequestTypes, Waiting, Leasing
  <2> QED
      BY <1>6, <2>2, <2>3 DEF DecrementWaitCount
<1>7. CASE Forwarded(p)
    BY <1>7, KeyKinds
       DEF Forwarded, redis, request, history, Ordered, AtWork, ForwardModes, TypeOK,
           RequestTypes, Labels,
           Waiting, Leasing, Sessions, Modes
<1>8. CASE SwitchAccount(p)
  <2>1. CASE at[p] \in held[p]
      BY <1>8, <2>1, KeysOf, ReleasePoint
         DEF SwitchAccount, Ordered, AtWork, ForwardModes, TypeOK, Waiting, Leasing
  <2>2. CASE NextAccount(p)
      BY <1>8, <2>2, NextPoint, KeyKinds
         DEF SwitchAccount, Ordered, AtWork, ForwardModes, TypeOK, Waiting, Leasing
  <2>3. CASE pc' = [pc EXCEPT ![p] = "leave"]
      BY <1>8, <2>3 DEF SwitchAccount, Ordered, AtWork, ForwardModes, TypeOK, RequestTypes,
         Waiting, Leasing
  <2> QED
      BY <1>8, <2>1, <2>2, <2>3 DEF SwitchAccount
<1>9. CASE ReleaseOnDone(p)
  <2>1. /\ UNCHANGED <<pc, at, session>> /\ mode'[p] = "drain"
        /\ mode[p] \in ForwardModes
      BY <1>9 DEF ReleaseOnDone, TypeOK, RequestTypes
  <2> QED
      BY <2>1 DEF Ordered, ForwardModes, Leasing
<1>10. CASE Leave(p)
  <2>1. pc'[p] \in {"leave", "idle"} /\ UNCHANGED <<at, session>>
      BY <1>10 DEF Leave, TypeOK, RequestTypes
  <2> QED
      BY <2>1 DEF Ordered, AtWork, ForwardModes, Waiting, Leasing
<1>11. CASE AcquireLiveLease(p)
    BY <1>11, KeyKinds
       DEF AcquireLiveLease, redis, request, history, Ordered, AtWork, ForwardModes, TypeOK,
           RequestTypes,
           Labels, Waiting, Leasing, Sessions, Modes
<1>12. CASE CreateUpstreamLiveCall(p)
    BY <1>12, KeyKinds
       DEF CreateUpstreamLiveCall, redis, request, history, Ordered, AtWork, ForwardModes,
           TypeOK, RequestTypes,
           Labels, Waiting, Leasing, Sessions, Modes
<1>13. CASE ReleaseAccountSlot(p)
    BY <1>13, KeysOf, ReleasePoint
       DEF ReleaseAccountSlot, Ordered, AtWork, ForwardModes, TypeOK, RequestTypes, Labels,
           Waiting, Leasing,
           Sessions, Modes
<1>14. CASE SaveLiveCall(p)
    BY <1>14, KeyKinds
       DEF SaveLiveCall, redis, request, history, Ordered, AtWork, ForwardModes, TypeOK,
           RequestTypes, Labels,
           Waiting, Leasing, Sessions, Modes
<1>15. CASE UndoLiveCall(p)
  <2>1. CASE pc' = [pc EXCEPT ![p] = "leave"]
      BY <1>15, <2>1 DEF UndoLiveCall, Ordered, AtWork, ForwardModes, TypeOK, RequestTypes,
         Waiting, Leasing
  <2>2. CASE NextAccount(p)
      BY <1>15, <2>2, NextPoint, KeyKinds
         DEF UndoLiveCall, Ordered, AtWork, ForwardModes, TypeOK, Waiting, Leasing
  <2> QED
      BY <1>15, <2>1, <2>2 DEF UndoLiveCall
<1>16. CASE RefreshLiveLease(p)
    BY <1>16, KeyKinds
       DEF RefreshLiveLease, redis, request, history, Ordered, AtWork, ForwardModes, TypeOK,
           RequestTypes,
           Labels, Waiting, Leasing, Sessions, Modes
<1>17. CASE SessionEnds(p)
    BY <1>17, KeyKinds
       DEF SessionEnds, redis, request, history, Ordered, AtWork, ForwardModes, TypeOK,
           RequestTypes, Labels,
           Waiting, Leasing, Sessions, Modes
<1>18. CASE FinalizeLiveCall(p)
    BY <1>18, KeyKinds
       DEF FinalizeLiveCall, redis, request, history, Ordered, AtWork, ForwardModes, TypeOK,
           RequestTypes,
           Labels, Waiting, Leasing, Sessions, Modes
<1>19. CASE \E k \in Keys : SlotAges(p, k)
    BY <1>19, KeyKinds
       DEF SlotAges, redis, request, history, Ordered, AtWork, ForwardModes, TypeOK,
           RequestTypes, Labels,
           Waiting, Leasing, Sessions, Modes
<1>20. CASE LeaseAges(p)
    BY <1>20, KeyKinds
       DEF LeaseAges, redis, request, history, Ordered, AtWork, ForwardModes, TypeOK,
           RequestTypes, Labels,
           Waiting, Leasing, Sessions, Modes
<1>21. CASE Crash(p)
    BY <1>21, KeyKinds
       DEF Crash, redis, request, history, Ordered, AtWork, ForwardModes, TypeOK, RequestTypes,
           Labels, Waiting,
           Leasing, Sessions, Modes
<1>22. CASE SelectionFails(p)
  <2>1. at'[p] = at[p] /\ mode'[p] = mode[p] /\ session'[p] = session[p] /\ pc[p] = "acquire"
        /\ held[p] \subseteq held'[p] /\ at[p] # UserOf[p]
      BY <1>22, SelectionPoint, KeyKinds
  <2>2. pc'[p] = "leave" \/ (pc'[p] = "switch" /\ mode[p] \in ForwardModes)
      BY <1>22, SelectionPoint
  <2> QED
      BY <2>1, <2>2 DEF Ordered, AtWork, ForwardModes, Waiting, Leasing
<1> QED
    BY <1>1, <1>2, <1>3, <1>4, <1>5, <1>6, <1>7, <1>8, <1>9, <1>10, <1>11, <1>12, <1>13,
       <1>14, <1>15, <1>16, <1>17, <1>18, <1>19, <1>20, <1>21, <1>22
       DEF RequestStep

\* A release function and the sets.
LEMMA ReleasedSlot ==
    ASSUME TypeOK, NEW p \in Procs, NEW k \in Keys, ReleaseSlot(p, k),
           UNCHANGED <<lapsed, dropped>>, SlotsOf(p)
    PROVE  SlotsOf(p)'
<1>1. /\ held'[p] = held[p] \ {k}
      /\ p \notin faulted' => p \notin faulted /\ (k \in held[p] => slots'[k][p] = "none")
    BY ReleasePoint DEF TypeOK
<1>2. slots'[k][p] = slots[k][p] \/ slots'[k][p] = "none"
    BY ReleasePoint DEF TypeOK
<1>3. \A j \in Keys : j # k => slots'[j][p] = slots[j][p]
    BY ReleasePoint DEF TypeOK
<1>4. held[p] \subseteq Keys
    BY DEF TypeOK, RequestTypes
<1> QED
    BY <1>1, <1>2, <1>3, <1>4 DEF SlotsOf

\* A request's slots and its release functions agree.
LEMMA SlotsNext ==
    ASSUME TypeOK, NEW p \in Procs, RequestStep(p)
    PROVE  SlotsOf(p) => SlotsOf(p)'
<1>1. CASE Begin(p)
    BY <1>1 DEF Begin, redis, NoTrace, SlotsOf, TypeOK, StoreTypes, RequestTypes
<1>2. CASE AcquireSlot(p)
  <2>1. UNCHANGED <<lapsed, faulted, dropped>> /\ at[p] \in Keys
      BY <1>2, KeysOf DEF AcquireSlot, history, TypeOK
  <2>2. CASE Limit[at[p]] = 0
      BY <1>2, <2>1, <2>2, AcquireUnlimited DEF SlotsOf
  <2>3. CASE Limit[at[p]] > 0 /\ Admitted(at[p])
    <3>1. /\ slots'[at[p]][p] = "fresh" /\ held'[p] = held[p] \cup {at[p]}
          /\ \A k \in Keys : k # at[p] => SameOrSwept(slots[k][p], slots'[k][p])
        BY <1>2, <2>3, AcquireAdmitted
    <3> QED
        BY <2>1, <3>1 DEF SlotsOf, SameOrSwept, TypeOK, RequestTypes
  <2>4. CASE Limit[at[p]] > 0 /\ ~Admitted(at[p])
    <3>1. held' = held /\ \A k \in Keys : SameOrSwept(slots[k][p], slots'[k][p])
        BY <1>2, <2>4, AcquireRefused
    <3> QED
        BY <2>1, <3>1 DEF SlotsOf, SameOrSwept, TypeOK, RequestTypes
  <2> QED
      BY <2>2, <2>3, <2>4, KeyKinds, KeysOf DEF TypeOK
<1>3. CASE AcquireFails(p)
  <2>1. /\ UNCHANGED <<held, lapsed, dropped>>
        /\ (slots' = slots /\ faulted' = faulted) \/ p \in faulted'
        /\ \A k \in Keys : slots[k][p] = "fresh" => slots'[k][p] = "fresh"
      BY <1>3, FailsPoint DEF AcquireFails, SameOrSwept
  <2>2. held[p] \subseteq Keys
      BY DEF TypeOK, RequestTypes
  <2> QED
      BY <2>1, <2>2 DEF SlotsOf
<1>4. CASE IncrementWaitCount(p)
    BY <1>4
       DEF IncrementWaitCount, Fault, redis, request, history, SlotsOf, TypeOK, StoreTypes,
           RequestTypes
<1>5. CASE WaitTimeout(p)
    BY <1>5
       DEF WaitTimeout, redis, request, history, SlotsOf, TypeOK, StoreTypes, RequestTypes
<1>6. CASE DecrementWaitCount(p)
    BY <1>6
       DEF DecrementWaitCount, Fault, redis, request, history, SlotsOf, TypeOK, StoreTypes,
           RequestTypes
<1>7. CASE Forwarded(p)
    BY <1>7
       DEF Forwarded, redis, request, history, SlotsOf, TypeOK, StoreTypes, RequestTypes
<1>8. CASE SwitchAccount(p)
  <2>1. CASE ReleaseSlot(p, at[p])
      BY <1>8, <2>1, KeysOf, ReleasedSlot DEF SwitchAccount, TypeOK
  <2>2. CASE at[p] \notin held[p]
      BY <1>8, <2>2 DEF SwitchAccount, SlotsOf
  <2> QED
      BY <1>8, <2>1, <2>2 DEF SwitchAccount
<1>9. CASE ReleaseOnDone(p)
  <2>1. PICK k \in held[p] : ReleaseSlot(p, k)
      BY <1>9 DEF ReleaseOnDone
  <2>2. k \in Keys
      BY DEF TypeOK, RequestTypes
  <2> QED
      BY <1>9, <2>1, <2>2, ReleasedSlot DEF ReleaseOnDone
<1>10. CASE Leave(p)
  <2>1. CASE held[p] # {}
    <3>1. PICK k \in held[p] : ReleaseSlot(p, k)
        BY <1>10, <2>1 DEF Leave
    <3>2. k \in Keys
        BY DEF TypeOK, RequestTypes
    <3> QED
        BY <1>10, <3>1, <3>2, ReleasedSlot DEF Leave
  <2>2. CASE held[p] = {}
      BY <1>10, <2>2 DEF Leave, SlotsOf
  <2> QED
      BY <2>1, <2>2
<1>11. CASE AcquireLiveLease(p)
    BY <1>11
       DEF AcquireLiveLease, Fault, redis, request, history, SlotsOf, TypeOK, StoreTypes,
           RequestTypes
<1>12. CASE CreateUpstreamLiveCall(p)
    BY <1>12
       DEF CreateUpstreamLiveCall, redis, request, history, SlotsOf, TypeOK, StoreTypes,
           RequestTypes
<1>13. CASE ReleaseAccountSlot(p)
    BY <1>13, KeysOf, ReleasedSlot DEF ReleaseAccountSlot, TypeOK
<1>14. CASE SaveLiveCall(p)
    BY <1>14
       DEF SaveLiveCall, redis, request, history, SlotsOf, TypeOK, StoreTypes, RequestTypes
<1>15. CASE UndoLiveCall(p)
    BY <1>15, DropPoint DEF UndoLiveCall, SlotsOf, TypeOK, StoreTypes, RequestTypes
<1>16. CASE RefreshLiveLease(p)
    BY <1>16
       DEF RefreshLiveLease, Fault, redis, request, history, SlotsOf, TypeOK, StoreTypes,
           RequestTypes
<1>17. CASE SessionEnds(p)
    BY <1>17
       DEF SessionEnds, redis, request, history, SlotsOf, TypeOK, StoreTypes, RequestTypes
<1>18. CASE FinalizeLiveCall(p)
    BY <1>18, DropPoint DEF FinalizeLiveCall, SlotsOf, TypeOK, StoreTypes, RequestTypes
<1>19. CASE \E k \in Keys : SlotAges(p, k)
    BY <1>19
       DEF SlotAges, Lose, Fault, redis, request, history, SlotsOf, TypeOK, StoreTypes,
           RequestTypes
<1>20. CASE LeaseAges(p)
    BY <1>20
       DEF LeaseAges, Lose, Fault, redis, request, history, SlotsOf, TypeOK, StoreTypes,
           RequestTypes
<1>21. CASE Crash(p)
    BY <1>21
       DEF Crash, Fault, redis, request, history, SlotsOf, TypeOK, StoreTypes, RequestTypes
<1>22. CASE SelectionFails(p)
  <2>1. /\ UNCHANGED <<lapsed, faulted>> /\ at[p] \in Accounts
        /\ slots'[at[p]][p] = "fresh"
        /\ \A k \in Keys : k # at[p] => SameOrSwept(slots[k][p], slots'[k][p])
        /\ p \in dropped => p \in dropped'
        /\ \/ held'[p] = held[p] \cup {at[p]}
           \/ held'[p] = held[p] /\ p \in dropped'
      BY <1>22, SelectionPoint
  <2> QED
      BY <2>1 DEF SlotsOf, SameOrSwept, TypeOK, RequestTypes
<1> QED
    BY <1>1, <1>2, <1>3, <1>4, <1>5, <1>6, <1>7, <1>8, <1>9, <1>10, <1>11, <1>12, <1>13,
       <1>14, <1>15, <1>16, <1>17, <1>18, <1>19, <1>20, <1>21, <1>22
       DEF RequestStep

\* A request that has no Live lease, and gets none.
LEMMA NoLease ==
    ASSUME NEW p \in Procs, LeasesOf(p), ~HasLease(p), ~HasLease(p)',
           p \notin faulted' => p \notin faulted,
           \A k \in Keys : live[k][p] = "none" => live'[k][p] = "none"
    PROVE  LeasesOf(p)'
BY DEF LeasesOf

\* A request that keeps its Live lease.
LEMMA SameLease ==
    ASSUME TypeOK, NEW p \in Procs, LeasesOf(p), HasLease(p), HasLease(p)', at'[p] = at[p],
           p \notin faulted' => p \notin faulted, lapsed \subseteq lapsed',
           \A k \in Keys : SameOrSwept(live[k][p], live'[k][p])
    PROVE  LeasesOf(p)'
<1>1. LeaseKeys(p)' = LeaseKeys(p) /\ LeaseKeys(p) \subseteq Keys
    BY KeysOf DEF LeaseKeys, TypeOK
<1> QED
    BY <1>1 DEF LeasesOf, Intact, SameOrSwept

\* A request that gives its Live lease back.
LEMMA LeaseBack ==
    ASSUME TypeOK, NEW p \in Procs, LeasesOf(p), HasLease(p), ~HasLease(p)', ReleaseLiveLease(p)
    PROVE  LeasesOf(p)'
<1>1. p \notin faulted' => p \notin faulted /\ \A k \in LeaseKeys(p) : live'[k][p] = "none"
    BY DropPoint DEF TypeOK
<1>2. \A k \in Keys : live'[k][p] = live[k][p] \/ live'[k][p] = "none"
    BY DropPoint DEF TypeOK
<1> QED
    BY <1>1, <1>2 DEF LeasesOf

\* A request whose Live lease is written.
LEMMA LeaseWritten ==
    ASSUME TypeOK, NEW p \in Procs, LeasesOf(p), live' = WithLease(p), at'[p] = at[p],
           p \in faulted' \/ (HasLease(p)' /\ p \notin faulted)
    PROVE  LeasesOf(p)'
<1>1. LeaseKeys(p)' = LeaseKeys(p) /\ LeaseKeys(p) \subseteq Keys
    BY KeysOf DEF LeaseKeys, TypeOK
<1>2. \A k \in LeaseKeys(p) : live'[k][p] = "fresh"
    BY LeasePoint DEF TypeOK
<1>3. \A k \in Keys : k \notin LeaseKeys(p) => live'[k][p] = live[k][p]
    BY LeasePoint DEF TypeOK
<1> QED
    BY <1>1, <1>2, <1>3 DEF LeasesOf, Intact

\* A request's Live lease and its sets agree.
LEMMA LeasesNext ==
    ASSUME TypeOK, NEW p \in Procs, Ordered(p), LeasesOf(p), RequestStep(p)
    PROVE  LeasesOf(p)'
<1>1. CASE Begin(p)
    BY <1>1, NoLease
       DEF Begin, redis, NoTrace, LeasesOf, HasLease, Ordered, TypeOK, RequestTypes,
           Leasing, Sessions
<1>2. CASE AcquireSlot(p)
  <2>1. UNCHANGED <<session, faulted>> /\ pc[p] \in {"acquire", "wait"}
      BY <1>2 DEF AcquireSlot, history
  <2>2. pc'[p] \in {"acquire", "run", "lease", "admitted", "enqueue", "leave", "wait"}
        /\ \A k \in Keys : SameOrSwept(live[k][p], live'[k][p])
    <3>1. CASE Limit[at[p]] = 0
        BY <1>2, <2>1, <3>1, AcquireUnlimited, GrantedPoint DEF TypeOK, SameOrSwept
    <3>2. CASE Limit[at[p]] > 0 /\ Admitted(at[p])
        BY <1>2, <2>1, <3>2, AcquireAdmitted, GrantedPoint DEF TypeOK
    <3>3. CASE Limit[at[p]] > 0 /\ ~Admitted(at[p])
        BY <1>2, <2>1, <3>3, AcquireRefused, DeniedPoint DEF TypeOK
    <3> QED
        BY <3>1, <3>2, <3>3, KeyKinds, KeysOf DEF TypeOK
  <2>3. ~HasLease(p) /\ ~HasLease(p)'
      BY <2>1, <2>2 DEF HasLease, Ordered, Leasing
  <2> QED
      BY <2>1, <2>2, <2>3, NoLease DEF SameOrSwept
<1>3. CASE AcquireFails(p)
  <2>1. UNCHANGED session /\ pc[p] \in {"acquire", "wait"} /\ pc'[p] \notin Leasing
        /\ (p \notin faulted' => p \notin faulted)
        /\ \A k \in Keys : SameOrSwept(live[k][p], live'[k][p])
      BY <1>3, FailsPoint, DeniedPoint DEF AcquireFails, TypeOK, Leasing
  <2>2. ~HasLease(p) /\ ~HasLease(p)'
      BY <2>1 DEF HasLease, Ordered, Leasing
  <2> QED
      BY <2>1, <2>2, NoLease DEF SameOrSwept
<1>4. CASE IncrementWaitCount(p)
    BY <1>4, NoLease
       DEF IncrementWaitCount, HasLease, Ordered, TypeOK, RequestTypes, Leasing, Sessions
<1>5. CASE WaitTimeout(p)
    BY <1>5, NoLease
       DEF WaitTimeout, redis, history, HasLease, Ordered, TypeOK, RequestTypes, Leasing,
           Sessions
<1>6. CASE DecrementWaitCount(p)
  <2>1. UNCHANGED <<session, faulted, live>> /\ pc[p] \in {"admitted", "timedOut"}
      BY <1>6 DEF DecrementWaitCount, history
  <2>2. pc'[p] \in {"acquire", "run", "lease", "leave"}
      BY <1>6, ProceedPoint DEF DecrementWaitCount, TypeOK, RequestTypes
  <2>3. ~HasLease(p) /\ ~HasLease(p)'
      BY <2>1, <2>2 DEF HasLease, Ordered, Leasing
  <2> QED
      BY <2>1, <2>3, NoLease
<1>7. CASE Forwarded(p)
    BY <1>7, NoLease
       DEF Forwarded, redis, history, HasLease, Ordered, TypeOK, RequestTypes, Leasing,
           Sessions
<1>8. CASE SwitchAccount(p)
  <2>1. UNCHANGED <<session, live>> /\ pc[p] = "switch"
        /\ pc'[p] \in {"switch", "acquire", "leave"}
      BY <1>8, NextPoint DEF SwitchAccount, TypeOK, RequestTypes
  <2>2. p \notin faulted' => p \notin faulted
      BY <1>8, KeysOf, ReleasePoint DEF SwitchAccount, TypeOK
  <2>3. ~HasLease(p) /\ ~HasLease(p)'
      BY <2>1 DEF HasLease, Ordered, Leasing
  <2> QED
      BY <2>1, <2>2, <2>3, NoLease
<1>9. CASE ReleaseOnDone(p)
  <2>1. UNCHANGED <<pc, at, session, live, lapsed>>
      BY <1>9 DEF ReleaseOnDone
  <2>2. p \notin faulted' => p \notin faulted
      BY <1>9 DEF ReleaseOnDone, ReleaseSlot
  <2>3. HasLease(p)' <=> HasLease(p)
      BY <2>1 DEF HasLease
  <2> QED
      BY <2>1, <2>2, <2>3, NoLease, SameLease DEF SameOrSwept
<1>10. CASE Leave(p)
  <2>1. UNCHANGED <<session, live, at, lapsed>> /\ pc[p] = "leave" /\ pc'[p] \in {"leave", "idle"}
      BY <1>10 DEF Leave, TypeOK, RequestTypes
  <2>2. p \notin faulted' => p \notin faulted
      BY <1>10 DEF Leave, ReleaseSlot
  <2>3. HasLease(p)' <=> HasLease(p)
      BY <2>1 DEF HasLease, Leasing
  <2> QED
      BY <2>1, <2>2, <2>3, NoLease, SameLease DEF SameOrSwept
<1>11. CASE AcquireLiveLease(p)
  <2>1. UNCHANGED <<session, at, lapsed>> /\ pc[p] = "lease" /\ pc'[p] \in {"create", "leave"}
        /\ (p \notin faulted' => p \notin faulted)
      BY <1>11 DEF AcquireLiveLease, TypeOK, RequestTypes
  <2>2. ~HasLease(p)
      BY <2>1 DEF HasLease, Ordered, Leasing
  <2>3. CASE live' = WithLease(p) /\ (p \in faulted' \/ pc'[p] = "create")
    <3>1. p \in faulted' \/ (HasLease(p)' /\ p \notin faulted)
        BY <1>11, <2>1, <2>3 DEF HasLease, Leasing
    <3> QED
        BY <2>1, <2>3, <3>1, LeaseWritten
  <2>4. CASE pc'[p] = "leave" /\ \A k \in Keys : SameOrSwept(live[k][p], live'[k][p])
    <3>1. ~HasLease(p)'
        BY <2>1, <2>2, <2>4 DEF HasLease, Leasing
    <3> QED
        BY <2>1, <2>2, <2>4, <3>1, NoLease DEF SameOrSwept
  <2> QED
      BY <1>11, <2>3, <2>4, SweptKeysPoint
         DEF AcquireLiveLease, SameOrSwept, TypeOK, RequestTypes
<1>12. CASE CreateUpstreamLiveCall(p)
    BY <1>12, SameLease
       DEF CreateUpstreamLiveCall, redis, history, SameOrSwept, HasLease, Ordered, TypeOK,
           RequestTypes, Leasing, Sessions
<1>13. CASE ReleaseAccountSlot(p)
  <2>1. UNCHANGED <<session, live, at, lapsed>> /\ pc[p] \in Leasing /\ pc'[p] \in Leasing
      BY <1>13 DEF ReleaseAccountSlot, TypeOK, RequestTypes, Leasing
  <2>2. p \notin faulted' => p \notin faulted
      BY <1>13 DEF ReleaseAccountSlot, ReleaseSlot
  <2>3. HasLease(p) /\ HasLease(p)'
      BY <2>1 DEF HasLease
  <2> QED
      BY <2>1, <2>2, <2>3, SameLease DEF SameOrSwept
<1>14. CASE SaveLiveCall(p)
    BY <1>14, SameLease
       DEF SaveLiveCall, redis, history, SameOrSwept, HasLease, Ordered, TypeOK,
           RequestTypes, Leasing, Sessions
<1>15. CASE UndoLiveCall(p)
  <2>1. UNCHANGED session /\ pc[p] \in {"undo", "unsaved"} /\ pc'[p] \in {"leave", "acquire"}
      BY <1>15, NextPoint DEF UndoLiveCall, TypeOK, RequestTypes
  <2>2. HasLease(p) /\ ~HasLease(p)'
      BY <2>1 DEF HasLease, Ordered, Leasing
  <2> QED
      BY <1>15, <2>2, LeaseBack DEF UndoLiveCall
<1>16. CASE RefreshLiveLease(p)
  <2>1. UNCHANGED <<at, lapsed, faulted>> /\ session[p] # "none" /\ session'[p] # "none"
      BY <1>16 DEF RefreshLiveLease, history, TypeOK, RequestTypes
  <2>2. HasLease(p) /\ HasLease(p)'
      BY <2>1 DEF HasLease
  <2>3. CASE live' = WithLease(p) /\ Owns(p)
    <3>1. LeaseKeys(p)' = LeaseKeys(p) /\ LeaseKeys(p) \subseteq Keys
        BY <2>1, KeysOf DEF LeaseKeys, TypeOK
    <3>2. /\ \A k \in LeaseKeys(p) : live'[k][p] = "fresh"
          /\ \A k \in Keys : k \notin LeaseKeys(p) => live'[k][p] = live[k][p]
        BY <2>3, LeasePoint DEF TypeOK
    <3> QED
        BY <2>1, <2>2, <3>1, <3>2 DEF LeasesOf, Intact
  <2>4. CASE \A k \in Keys : SameOrSwept(live[k][p], live'[k][p])
      BY <2>1, <2>2, <2>4, SameLease
  <2> QED
      BY <1>16, <2>3, <2>4, SweptKeysPoint DEF RefreshLiveLease, SameOrSwept, TypeOK
<1>17. CASE SessionEnds(p)
    BY <1>17, SameLease
       DEF SessionEnds, redis, history, SameOrSwept, HasLease, Ordered, TypeOK,
           RequestTypes, Leasing, Sessions
<1>18. CASE FinalizeLiveCall(p)
  <2>1. UNCHANGED pc /\ session[p] = "closing" /\ session'[p] = "none"
      BY <1>18 DEF FinalizeLiveCall, TypeOK, RequestTypes
  <2>2. HasLease(p) /\ ~HasLease(p)'
      BY <2>1 DEF HasLease, Ordered, Leasing
  <2> QED
      BY <1>18, <2>2, LeaseBack DEF FinalizeLiveCall
<1>19. CASE \E k \in Keys : SlotAges(p, k)
  <2>1. UNCHANGED <<pc, at, session, live, faulted>> /\ lapsed \subseteq lapsed'
      BY <1>19 DEF SlotAges, request, Lose
  <2>2. HasLease(p)' <=> HasLease(p)
      BY <2>1 DEF HasLease
  <2> QED
      BY <2>1, <2>2, NoLease, SameLease DEF SameOrSwept
<1>20. CASE LeaseAges(p)
  <2>1. /\ UNCHANGED <<pc, at, session, faulted>> /\ lapsed \subseteq lapsed'
        /\ HasLease(p) => LeaseKeys(p) \subseteq lapsed'
        /\ \A k \in Keys : live'[k][p] # "fresh" /\ (live[k][p] = "none" => live'[k][p] = "none")
      BY <1>20 DEF LeaseAges, request, Lose, TypeOK, StoreTypes, Marks
  <2>2. /\ HasLease(p)' <=> HasLease(p)
        /\ LeaseKeys(p)' = LeaseKeys(p) /\ LeaseKeys(p) \subseteq Keys
      BY <2>1, KeysOf DEF HasLease, LeaseKeys, TypeOK
  <2> QED
      BY <2>1, <2>2 DEF LeasesOf, Intact
<1>21. CASE Crash(p)
    BY <1>21
       DEF Crash, redis, LeasesOf, HasLease, Ordered, TypeOK, RequestTypes, Leasing,
           Sessions
<1>22. CASE SelectionFails(p)
  <2>1. UNCHANGED <<session, faulted>> /\ pc[p] = "acquire" /\ pc'[p] \in {"leave", "switch"}
        /\ \A k \in Keys : SameOrSwept(live[k][p], live'[k][p])
      BY <1>22, SelectionPoint
  <2>2. ~HasLease(p) /\ ~HasLease(p)'
      BY <2>1 DEF HasLease, Ordered, Leasing
  <2> QED
      BY <2>1, <2>2, NoLease DEF SameOrSwept
<1> QED
    BY <1>1, <1>2, <1>3, <1>4, <1>5, <1>6, <1>7, <1>8, <1>9, <1>10, <1>11, <1>12, <1>13,
       <1>14, <1>15, <1>16, <1>17, <1>18, <1>19, <1>20, <1>21, <1>22
       DEF RequestStep

\* Every step keeps the parts of Inv that are about single requests.
LEMMA RequestsNext ==
    ASSUME TypeOK, [Next]_vars, \A q \in Procs : Ordered(q) /\ SlotsOf(q) /\ LeasesOf(q)
    PROVE  \A q \in Procs : (Ordered(q) /\ SlotsOf(q) /\ LeasesOf(q))'
<1>1. ASSUME NEW p \in Procs, RequestStep(p), NEW q \in Procs
      PROVE  (Ordered(q) /\ SlotsOf(q) /\ LeasesOf(q))'
  <2>1. CASE q = p
      BY <1>1, <2>1, OrderedNext, SlotsNext, LeasesNext
  <2>2. CASE q # p
    <3>1. Untouched(q) /\ lapsed \subseteq lapsed'
        BY <1>1, <2>2, ActsTidily DEF Tidy
    <3>2. /\ mode'[q] = mode[q] /\ pc'[q] = pc[q] /\ at'[q] = at[q]
          /\ held'[q] = held[q] /\ session'[q] = session[q]
        BY <1>1, <2>2, ActsAlone DEF Alone
    <3> QED
        BY <3>1, <3>2, Bystander
  <2> QED
      BY <2>1, <2>2
<1>2. ASSUME NEW k \in Keys, KeyStep(k), NEW q \in Procs
      PROVE  (Ordered(q) /\ SlotsOf(q) /\ LeasesOf(q))'
  <2>1. UNCHANGED <<mode, pc, at, held, session>> /\ lapsed \subseteq lapsed'
      BY <1>2, KeyStepTidy
  <2>2. CASE Untouched(q)
      BY <2>1, <2>2, Bystander
  <2>3. CASE CleanupStaleProcessSlots(k)
    <3>1. UNCHANGED <<live, faulted, dropped>>
        BY <2>3 DEF CleanupStaleProcessSlots
    <3>2. /\ \/ slots'[k][q] = slots[k][q]
             \/ slots'[k][q] = "none" /\ (k \in held[q] => k \in lapsed')
          /\ \A j \in Keys : j # k => slots'[j][q] = slots[j][q]
        BY <2>3 DEF CleanupStaleProcessSlots, Lose, Members, TypeOK, StoreTypes
    <3>3. Ordered(q)'
        BY <2>1 DEF Ordered
    <3>4. SlotsOf(q)'
        BY <2>1, <3>1, <3>2 DEF SlotsOf, TypeOK, RequestTypes
    <3>5. LeasesOf(q)'
        BY <2>1, <3>1 DEF LeasesOf, HasLease, LeaseKeys, Intact
    <3> QED
        BY <3>3, <3>4, <3>5
  <2> QED
      BY <1>2, <2>2, <2>3, KeyStepTidy
<1>3. ASSUME UNCHANGED vars, NEW q \in Procs
      PROVE  (Ordered(q) /\ SlotsOf(q) /\ LeasesOf(q))'
    BY <1>3
       DEF vars, redis, request, history, Ordered, SlotsOf, LeasesOf, HasLease, LeaseKeys,
           Intact
<1> QED
    BY <1>1, <1>2, <1>3, StepSplit

-----------------------------------------------------------------------------
(* The limits.                                                             *)

\* Sets of requests can be counted.
LEMMA Countable ==
    ASSUME NEW S \in SUBSET Procs
    PROVE  IsFiniteSet(S) /\ Cardinality(S) \in Nat
BY KeysAssumption, FS_Subset, FS_CardinalityType

\* A part has no more members.
LEMMA Fewer ==
    ASSUME NEW S \in SUBSET Procs, NEW T \in SUBSET S
    PROVE  Cardinality(T) <= Cardinality(S)
BY Countable, FS_Subset

\* A set that gains one request has at most one more member.
LEMMA OneMore ==
    ASSUME NEW S \in SUBSET Procs, NEW p \in Procs, NEW T \in SUBSET (S \cup {p})
    PROVE  Cardinality(T) <= Cardinality(S) + 1
<1>1. IsFiniteSet(S) /\ Cardinality(S) \in Nat
    BY Countable
<1>2. IsFiniteSet(S \cup {p}) /\ Cardinality(S \cup {p}) <= Cardinality(S) + 1
    BY <1>1, FS_AddElement
<1>3. Cardinality(T) <= Cardinality(S \cup {p}) /\ Cardinality(T) \in Nat
    BY <1>2, FS_Subset, FS_CardinalityType
<1>4. Cardinality(S \cup {p}) \in Nat
    BY <1>2, FS_CardinalityType
<1> QED
    BY <1>1, <1>2, <1>3, <1>4

\* Two sets together have at most the members of both.
LEMMA Together ==
    ASSUME NEW S \in SUBSET Procs, NEW T \in SUBSET Procs
    PROVE  Cardinality(S \cup T) <= Cardinality(S) + Cardinality(T)
<1>1. IsFiniteSet(S) /\ IsFiniteSet(T) /\ Cardinality(S) \in Nat /\ Cardinality(T) \in Nat
    BY Countable
<1>2. Cardinality(S \cap T) \in Nat
    BY Countable
<1>3. Cardinality(S \cup T) = Cardinality(S) + Cardinality(T) - Cardinality(S \cap T)
    BY <1>1, FS_Union
<1> QED
    BY <1>1, <1>2, <1>3

\* The limit of one key, as the sets of Redis show it.
Bounded(k) ==
    Limit[k] > 0 =>
        /\ k \notin lapsed => Cardinality(Members(slots[k]) \cup Members(live[k])) <= Limit[k]
        /\ Cardinality(Members(slots[k])) + Cardinality(Members(live[k])) <= Limit[k] + 1

\* The sets of a key only lose members.
Shrinks(k) ==
    \A q \in Procs : /\ slots[k][q] = "none" => slots'[k][q] = "none"
                     /\ live[k][q] = "none" => live'[k][q] = "none"

\* A limit stays kept when the sets only lose members.
LEMMA ShrinksBounded ==
    ASSUME NEW k \in Keys, Bounded(k), Shrinks(k), lapsed \subseteq lapsed'
    PROVE  Bounded(k)'
<1> DEFINE S == Members(slots[k])
           T == Members(live[k])
<1>1. S \subseteq Procs /\ T \subseteq Procs /\ S' \subseteq S /\ T' \subseteq T
    BY DEF Members, Shrinks
<1>2. /\ Cardinality(S') <= Cardinality(S) /\ Cardinality(T') <= Cardinality(T)
      /\ Cardinality(S' \cup T') <= Cardinality(S \cup T)
  <2> HIDE DEF S, T
  <2> QED
      BY <1>1, Fewer
<1>3. /\ Cardinality(S) \in Nat /\ Cardinality(T) \in Nat /\ Cardinality(S \cup T) \in Nat
      /\ Cardinality(S') \in Nat /\ Cardinality(T') \in Nat /\ Cardinality(S' \cup T') \in Nat
  <2> HIDE DEF S, T
  <2> QED
      BY <1>1, Countable
<1> QED
    BY <1>2, <1>3, KeyKinds DEF Bounded

\* A limit stays kept when acquireScript admits one request.
LEMMA AddedBounded ==
    ASSUME NEW k \in Keys, NEW p \in Procs, Limit[k] > 0, Admitted(k),
           slots \in Sets, live \in Sets,
           slots'[k] = Added(Swept(slots[k]), p), live'[k] = Swept(live[k])
    PROVE  Bounded(k)'
<1> DEFINE S == Members(Swept(slots[k]))
           T == Members(Swept(live[k]))
           U == Members(slots'[k])
           V == Members(live'[k])
<1>1. S \subseteq Procs /\ T \subseteq Procs /\ U \subseteq S \cup {p} /\ V = T
    BY DEF Members, Added, Swept, Sets
<1>2. Cardinality(S) + Cardinality(T) < Limit[k]
    BY DEF Admitted
<1>3. Bounded(k)' <=>
        /\ k \notin lapsed' => Cardinality(U \cup V) <= Limit[k]
        /\ Cardinality(U) + Cardinality(V) <= Limit[k] + 1
    BY DEF Bounded
<1> HIDE DEF S, T, U, V
<1>4. U \subseteq Procs /\ V \subseteq Procs
    BY <1>1
<1>5. /\ Cardinality(S) \in Nat /\ Cardinality(T) \in Nat
      /\ Cardinality(U) \in Nat /\ Cardinality(V) \in Nat /\ Cardinality(U \cup V) \in Nat
    BY <1>1, <1>4, Countable
<1>6. Cardinality(U) <= Cardinality(S) + 1
    BY <1>1, OneMore
<1>7. Cardinality(U \cup V) <= Cardinality(U) + Cardinality(V)
    BY <1>4, Together
<1> QED
    BY <1>1, <1>2, <1>3, <1>5, <1>6, <1>7, KeyKinds

\* A limit stays kept when a Live lease joins the slot that it replaces.
LEMMA LeaseBounded ==
    ASSUME NEW k \in Keys, NEW p \in Procs, Bounded(k), Limit[k] > 0, live \in Sets,
           Cardinality(Members(slots[k])) + Cardinality(Members(Swept(live[k]))) < Limit[k] + 1,
           k \notin lapsed => slots[k][p] = "fresh",
           slots'[k] = slots[k], live'[k] = Added(Swept(live[k]), p), lapsed' = lapsed
    PROVE  Bounded(k)'
<1> DEFINE S == Members(slots[k])
           T == Members(Swept(live[k]))
           W == Members(live[k])
           V == Members(live'[k])
<1>1. /\ S \subseteq Procs /\ T \subseteq W /\ W \subseteq Procs /\ V \subseteq T \cup {p}
      /\ k \notin lapsed => p \in S
    BY DEF Members, Added, Swept, Sets
<1>2. Cardinality(S) + Cardinality(T) < Limit[k] + 1
    OBVIOUS
<1>3. k \notin lapsed => Cardinality(S \cup W) <= Limit[k]
    BY DEF Bounded
<1>4. Bounded(k)' <=>
        /\ k \notin lapsed => Cardinality(S \cup V) <= Limit[k]
        /\ Cardinality(S) + Cardinality(V) <= Limit[k] + 1
    BY DEF Bounded
<1> HIDE DEF S, T, W, V
<1>5. V \subseteq Procs /\ T \subseteq Procs
    BY <1>1
<1>6. /\ Cardinality(S) \in Nat /\ Cardinality(T) \in Nat /\ Cardinality(V) \in Nat
      /\ Cardinality(S \cup V) \in Nat /\ Cardinality(S \cup W) \in Nat
    BY <1>1, <1>5, Countable
<1>7. Cardinality(V) <= Cardinality(T) + 1
    BY <1>1, <1>5, OneMore
<1>8. k \notin lapsed => Cardinality(S \cup V) <= Cardinality(S \cup W)
    BY <1>1, Fewer
<1> QED
    BY <1>2, <1>3, <1>4, <1>6, <1>7, <1>8, KeyKinds

\* A step of the request adds nothing of the request to the sets.
TakesNothing(p) ==
    \A k \in Keys : /\ slots[k][p] = "none" => slots'[k][p] = "none"
                    /\ live[k][p] = "none" => live'[k][p] = "none"

\* Only these steps add to the sets.
LEMMA Takers ==
    ASSUME TypeOK, NEW p \in Procs, RequestStep(p)
    PROVE  \/ TakesNothing(p)
           \/ AcquireSlot(p) \/ SelectionFails(p) \/ AcquireFails(p) \/ AcquireLiveLease(p)
<1>1. CASE Begin(p)
    BY <1>1 DEF Begin, redis, TakesNothing
<1>2. CASE AcquireSlot(p)
    BY <1>2
<1>3. CASE AcquireFails(p)
    BY <1>3
<1>4. CASE IncrementWaitCount(p)
    BY <1>4 DEF IncrementWaitCount, redis, TakesNothing
<1>5. CASE WaitTimeout(p)
    BY <1>5 DEF WaitTimeout, redis, TakesNothing
<1>6. CASE DecrementWaitCount(p)
    BY <1>6 DEF DecrementWaitCount, redis, TakesNothing
<1>7. CASE Forwarded(p)
    BY <1>7 DEF Forwarded, redis, TakesNothing
<1>8. CASE SwitchAccount(p)
  <2>1. CASE ReleaseSlot(p, at[p])
      BY <1>8, <2>1, KeysOf, ReleasePoint DEF SwitchAccount, TypeOK, TakesNothing
  <2>2. CASE UNCHANGED slots
      BY <1>8, <2>2 DEF SwitchAccount, TakesNothing
  <2> QED
      BY <1>8, <2>1, <2>2 DEF SwitchAccount
<1>9. CASE ReleaseOnDone(p)
  <2>1. PICK k \in held[p] : ReleaseSlot(p, k)
      BY <1>9 DEF ReleaseOnDone
  <2>2. k \in Keys
      BY DEF TypeOK, RequestTypes
  <2> QED
      BY <1>9, <2>1, <2>2, ReleasePoint DEF ReleaseOnDone, TypeOK, TakesNothing
<1>10. CASE Leave(p)
  <2>1. CASE held[p] # {}
    <3>1. PICK k \in held[p] : ReleaseSlot(p, k)
        BY <1>10, <2>1 DEF Leave
    <3>2. k \in Keys
        BY DEF TypeOK, RequestTypes
    <3> QED
        BY <1>10, <3>1, <3>2, ReleasePoint DEF Leave, TypeOK, TakesNothing
  <2>2. CASE held[p] = {}
      BY <1>10, <2>2 DEF Leave, TakesNothing
  <2> QED
      BY <2>1, <2>2
<1>11. CASE AcquireLiveLease(p)
    BY <1>11
<1>12. CASE CreateUpstreamLiveCall(p)
    BY <1>12 DEF CreateUpstreamLiveCall, redis, TakesNothing
<1>13. CASE ReleaseAccountSlot(p)
    BY <1>13, KeysOf, ReleasePoint DEF ReleaseAccountSlot, TypeOK, TakesNothing
<1>14. CASE SaveLiveCall(p)
    BY <1>14 DEF SaveLiveCall, redis, TakesNothing
<1>15. CASE UndoLiveCall(p)
    BY <1>15, DropPoint DEF UndoLiveCall, TypeOK, TakesNothing
<1>16. CASE RefreshLiveLease(p)
  <2>1. UNCHANGED slots
      BY <1>16 DEF RefreshLiveLease
  <2>2. CASE live' = WithLease(p) /\ Owns(p)
      BY <2>1, <2>2, LeasePoint DEF Owns, TypeOK, TakesNothing
  <2>3. CASE live' = SweptKeys(SweptBy(p)) \/ live' = live
      BY <2>1, <2>3, SweptKeysPoint DEF TypeOK, TakesNothing, SameOrSwept
  <2> QED
      BY <1>16, <2>2, <2>3 DEF RefreshLiveLease
<1>17. CASE SessionEnds(p)
    BY <1>17 DEF SessionEnds, redis, TakesNothing
<1>18. CASE FinalizeLiveCall(p)
    BY <1>18, DropPoint DEF FinalizeLiveCall, TypeOK, TakesNothing
<1>19. CASE \E k \in Keys : SlotAges(p, k)
    BY <1>19 DEF SlotAges, TypeOK, StoreTypes, TakesNothing
<1>20. CASE LeaseAges(p)
    BY <1>20 DEF LeaseAges, TypeOK, StoreTypes, TakesNothing
<1>21. CASE Crash(p)
    BY <1>21 DEF Crash, redis, TakesNothing
<1>22. CASE SelectionFails(p)
    BY <1>22
<1> QED
    BY <1>1, <1>2, <1>3, <1>4, <1>5, <1>6, <1>7, <1>8, <1>9, <1>10, <1>11, <1>12, <1>13,
       <1>14, <1>15, <1>16, <1>17, <1>18, <1>19, <1>20, <1>21, <1>22
       DEF RequestStep

\* The first of them without an admission adds nothing either.
LEMMA Refused ==
    ASSUME TypeOK, NEW p \in Procs, AcquireSlot(p) \/ SelectionFails(p) \/ AcquireFails(p)
    PROVE  \/ TakesNothing(p)
           \/ /\ Limit[at[p]] > 0 /\ Admitted(at[p])
              /\ slots' = [slots EXCEPT ![at[p]] = Added(Swept(@), p)]
              /\ live' = [live EXCEPT ![at[p]] = Swept(@)]
<1>1. CASE AcquireSlot(p) /\ Limit[at[p]] > 0 /\ ~Admitted(at[p])
    BY <1>1, AcquireRefused DEF TakesNothing, SameOrSwept
<1>2. CASE UNCHANGED <<slots, live>>
    BY <1>2 DEF TakesNothing
<1> QED
    BY <1>1, <1>2 DEF AcquireSlot, SelectionFails, AcquireFails

\* The limits stay kept.
LEMMA BoundedNext ==
    ASSUME TypeOK, [Next]_vars, \A q \in Procs : Ordered(q) /\ SlotsOf(q),
           \A k \in Keys : Bounded(k)
    PROVE  \A k \in Keys : Bounded(k)'
<1>1. ASSUME NEW p \in Procs, RequestStep(p), NEW k \in Keys PROVE Bounded(k)'
  <2>1. Tidy(p)
      BY <1>1, ActsTidily
  <2>2. ASSUME /\ slots[k][p] = "none" => slots'[k][p] = "none"
               /\ live[k][p] = "none" => live'[k][p] = "none"
        PROVE  Bounded(k)'
    <3>1. Shrinks(k)
        BY <2>1, <2>2 DEF Tidy, Untouched, SameOrSwept, Shrinks
    <3> QED
        BY <2>1, <3>1, ShrinksBounded DEF Tidy
  <2>3. slots \in Sets /\ live \in Sets /\ at[p] \in Keys
      BY KeysOf DEF TypeOK, StoreTypes, Sets
  <2>4. CASE TakesNothing(p)
      BY <2>2, <2>4 DEF TakesNothing
  <2>5. CASE /\ Limit[at[p]] > 0 /\ Admitted(at[p])
             /\ slots' = [slots EXCEPT ![at[p]] = Added(Swept(@), p)]
             /\ live' = [live EXCEPT ![at[p]] = Swept(@)]
    <3>1. CASE k = at[p]
      <4>1. slots'[k] = Added(Swept(slots[k]), p) /\ live'[k] = Swept(live[k])
          BY <2>3, <2>5, <3>1 DEF Sets
      <4> QED
          BY <2>3, <2>5, <3>1, <4>1, AddedBounded
    <3>2. CASE k # at[p]
        BY <2>2, <2>3, <2>5, <3>2 DEF Sets
    <3> QED
        BY <3>1, <3>2
  <2>6. CASE AcquireLiveLease(p)
    <3>1. /\ pc[p] = "lease" /\ slots' = slots /\ lapsed' = lapsed
          /\ (LiveAdmitted(p) /\ live' = WithLease(p)) \/ SameOrSwept(live[k][p], live'[k][p])
        BY <2>6, SweptKeysPoint DEF AcquireLiveLease, SameOrSwept, TypeOK
    <3>2. CASE SameOrSwept(live[k][p], live'[k][p])
        BY <2>2, <3>1, <3>2 DEF SameOrSwept
    <3>3. CASE live' = WithLease(p) /\ k \notin LeaseKeys(p)
        BY <2>2, <3>1, <3>3, LeasePoint DEF TypeOK
    <3>4. CASE Limit[k] = 0
        BY <3>4 DEF Bounded
    <3>5. CASE LiveAdmitted(p) /\ live' = WithLease(p) /\ k \in LeaseKeys(p) /\ Limit[k] > 0
      <4>1. Cardinality(Members(slots[k])) + Cardinality(Members(Swept(live[k]))) < Limit[k] + 1
          BY <3>5 DEF LiveAdmitted
      <4>2. live'[k] = Added(Swept(live[k]), p)
          BY <3>5 DEF WithLease
      <4>3. k \in held[p]
        <5>1. mode[p] = "live" /\ at[p] # UserOf[p] /\ k \in {UserOf[p], at[p]}
            BY <3>1, <3>5, KeyKinds DEF Ordered, LeaseKeys
        <5> QED
            BY <3>1, <3>5, <5>1 DEF Ordered, AtWork
      <4>4. k \notin lapsed => slots[k][p] = "fresh"
          BY <4>3 DEF SlotsOf
      <4> QED
          BY <2>3, <3>1, <3>5, <4>1, <4>2, <4>4, LeaseBounded
    <3> QED
        BY <3>1, <3>2, <3>3, <3>4, <3>5, KeyKinds
  <2> QED
      BY <1>1, <2>4, <2>5, <2>6, Takers, Refused
<1>2. ASSUME NEW j \in Keys, KeyStep(j), NEW k \in Keys PROVE Bounded(k)'
  <2>1. lapsed \subseteq lapsed'
      BY <1>2, KeyStepTidy
  <2>2. CASE \A q \in Procs : Untouched(q)
      BY <2>1, <2>2, ShrinksBounded DEF Shrinks, Untouched, SameOrSwept
  <2>3. CASE CleanupStaleProcessSlots(j)
      BY <2>1, <2>3, ShrinksBounded
         DEF CleanupStaleProcessSlots, Shrinks, TypeOK, StoreTypes
  <2> QED
      BY <1>2, <2>2, <2>3, KeyStepTidy
<1>3. ASSUME UNCHANGED vars, NEW k \in Keys PROVE Bounded(k)'
    BY <1>3 DEF vars, redis, history, Bounded
<1> QED
    BY <1>1, <1>2, <1>3, StepSplit

-----------------------------------------------------------------------------
(* The wait queues.                                                        *)

\* The counter of one key counts the requests that wait.
Counted(k) == k \notin undercounted => Cardinality(Waiters(k)) <= waits[k]

\* A step of the request changes no counter, and does not make it wait.
JoinsNoQueue(p) ==
    /\ UNCHANGED waits
    /\ pc'[p] \in Waiting => pc[p] \in Waiting /\ at'[p] = at[p]

\* A queue that only loses requests.
LEMMA ShorterQueue ==
    ASSUME TypeOK, TypeOK', NEW k \in Keys, Counted(k), waits'[k] = waits[k],
           undercounted \subseteq undercounted', Waiters(k)' \subseteq Waiters(k)
    PROVE  Counted(k)'
<1>1. Waiters(k) \subseteq Procs
    BY DEF Waiters
<1> DEFINE W == Waiters(k)
           V == Waiters(k)'
<1>2. Counted(k)' <=> (k \notin undercounted' => Cardinality(V) <= waits'[k])
    BY DEF Counted
<1> HIDE DEF V
<1>3. Cardinality(V) <= Cardinality(W) /\ Cardinality(V) \in Nat /\ Cardinality(W) \in Nat
  <2>1. V \subseteq W /\ W \subseteq Procs
      BY <1>1 DEF V
  <2> HIDE DEF W
  <2> QED
      BY <2>1, Fewer, Countable
<1> QED
    BY <1>2, <1>3 DEF Counted, TypeOK, StoreTypes

\* Only these steps change a counter or join a queue.
LEMMA Queueing ==
    ASSUME TypeOK, NEW p \in Procs, RequestStep(p)
    PROVE  JoinsNoQueue(p) \/ IncrementWaitCount(p) \/ DecrementWaitCount(p)
<1>1. CASE Begin(p)
    BY <1>1 DEF Begin, redis, request, history, JoinsNoQueue, TypeOK, RequestTypes, Waiting
<1>2. CASE AcquireSlot(p)
  <2>1. UNCHANGED waits /\ pc[p] \in {"acquire", "wait"}
      BY <1>2 DEF AcquireSlot
  <2>2. CASE Granted(p)
      BY <2>1, <2>2, GrantedPoint DEF JoinsNoQueue, TypeOK, Waiting
  <2>3. CASE Limit[at[p]] > 0 /\ ~Admitted(at[p])
      BY <1>2, <2>1, <2>3, AcquireRefused, DeniedPoint DEF JoinsNoQueue, TypeOK, Waiting
  <2> QED
      BY <1>2, <2>2, <2>3 DEF AcquireSlot
<1>3. CASE AcquireFails(p)
  <2>1. UNCHANGED waits
      BY <1>3 DEF AcquireFails
  <2>2. CASE pc[p] = "acquire" /\ Denied(p)
      BY <2>1, <2>2, DeniedPoint DEF JoinsNoQueue, TypeOK, Waiting
  <2>3. CASE ~(pc[p] = "acquire" /\ Denied(p))
      BY <1>3, <2>1, <2>3, FailsPoint DEF JoinsNoQueue, Waiting
  <2> QED
      BY <2>2, <2>3
<1>4. CASE IncrementWaitCount(p)
    BY <1>4
<1>5. CASE WaitTimeout(p)
    BY <1>5
       DEF WaitTimeout, redis, request, history, JoinsNoQueue, TypeOK, RequestTypes,
           Waiting
<1>6. CASE DecrementWaitCount(p)
    BY <1>6
<1>7. CASE Forwarded(p)
    BY <1>7
       DEF Forwarded, redis, request, history, JoinsNoQueue, TypeOK, RequestTypes, Waiting
<1>8. CASE SwitchAccount(p)
  <2>1. UNCHANGED waits /\ pc[p] = "switch"
      BY <1>8 DEF SwitchAccount
  <2>2. CASE NextAccount(p)
      BY <2>1, <2>2, NextPoint DEF JoinsNoQueue, TypeOK, Waiting
  <2>3. CASE UNCHANGED pc \/ pc' = [pc EXCEPT ![p] = "leave"]
      BY <2>1, <2>3 DEF JoinsNoQueue, TypeOK, RequestTypes, Waiting
  <2> QED
      BY <1>8, <2>2, <2>3 DEF SwitchAccount
<1>9. CASE ReleaseOnDone(p)
    BY <1>9
       DEF ReleaseOnDone, redis, request, history, JoinsNoQueue, TypeOK, RequestTypes,
           Waiting
<1>10. CASE Leave(p)
    BY <1>10 DEF Leave, redis, request, history, JoinsNoQueue, TypeOK, RequestTypes, Waiting
<1>11. CASE AcquireLiveLease(p)
    BY <1>11
       DEF AcquireLiveLease, redis, request, history, JoinsNoQueue, TypeOK, RequestTypes,
           Waiting
<1>12. CASE CreateUpstreamLiveCall(p)
    BY <1>12
       DEF CreateUpstreamLiveCall, redis, request, history, JoinsNoQueue, TypeOK,
           RequestTypes, Waiting
<1>13. CASE ReleaseAccountSlot(p)
    BY <1>13
       DEF ReleaseAccountSlot, redis, request, history, JoinsNoQueue, TypeOK, RequestTypes,
           Waiting
<1>14. CASE SaveLiveCall(p)
    BY <1>14
       DEF SaveLiveCall, redis, request, history, JoinsNoQueue, TypeOK, RequestTypes,
           Waiting
<1>15. CASE UndoLiveCall(p)
  <2>1. UNCHANGED waits
      BY <1>15 DEF UndoLiveCall
  <2>2. CASE NextAccount(p)
      BY <2>1, <2>2, NextPoint DEF JoinsNoQueue, TypeOK, Waiting
  <2>3. CASE pc' = [pc EXCEPT ![p] = "leave"]
      BY <2>1, <2>3 DEF JoinsNoQueue, TypeOK, RequestTypes, Waiting
  <2> QED
      BY <1>15, <2>2, <2>3 DEF UndoLiveCall
<1>16. CASE RefreshLiveLease(p)
    BY <1>16
       DEF RefreshLiveLease, redis, request, history, JoinsNoQueue, TypeOK, RequestTypes,
           Waiting
<1>17. CASE SessionEnds(p)
    BY <1>17
       DEF SessionEnds, redis, request, history, JoinsNoQueue, TypeOK, RequestTypes,
           Waiting
<1>18. CASE FinalizeLiveCall(p)
    BY <1>18
       DEF FinalizeLiveCall, redis, request, history, JoinsNoQueue, TypeOK, RequestTypes,
           Waiting
<1>19. CASE \E k \in Keys : SlotAges(p, k)
    BY <1>19
       DEF SlotAges, redis, request, history, JoinsNoQueue, TypeOK, RequestTypes, Waiting
<1>20. CASE LeaseAges(p)
    BY <1>20
       DEF LeaseAges, redis, request, history, JoinsNoQueue, TypeOK, RequestTypes, Waiting
<1>21. CASE Crash(p)
    BY <1>21 DEF Crash, redis, request, history, JoinsNoQueue, TypeOK, RequestTypes, Waiting
<1>22. CASE SelectionFails(p)
    BY <1>22, SelectionPoint DEF JoinsNoQueue, Waiting
<1> QED
    BY <1>1, <1>2, <1>3, <1>4, <1>5, <1>6, <1>7, <1>8, <1>9, <1>10, <1>11, <1>12, <1>13,
       <1>14, <1>15, <1>16, <1>17, <1>18, <1>19, <1>20, <1>21, <1>22
       DEF RequestStep

\* incrementWaitScript counts the request that it lets wait.
LEMMA IncrementCounted ==
    ASSUME TypeOK, TypeOK', NEW p \in Procs, IncrementWaitCount(p), NEW k \in Keys, Counted(k)
    PROVE  Counted(k)'
<1>1. /\ pc[p] = "enqueue" /\ UNCHANGED at /\ undercounted \subseteq undercounted'
      /\ \A q \in Procs : q # p => pc'[q] = pc[q]
    BY DEF IncrementWaitCount, TypeOK, RequestTypes
<1>2. CASE k # at[p] \/ pc'[p] = "leave"
  <2>1. waits'[k] = waits[k]
      BY <1>2 DEF IncrementWaitCount, TypeOK, StoreTypes, RequestTypes
  <2>2. Waiters(k)' \subseteq Waiters(k)
      BY <1>1, <1>2 DEF Waiters, Waiting
  <2> QED
      BY <1>1, <2>1, <2>2, ShorterQueue
<1>3. CASE k = at[p] /\ k \in undercounted'
    BY <1>3 DEF Counted
<1>4. CASE k = at[p] /\ waits'[k] = waits[k] + 1
  <2> DEFINE W == Waiters(k)
             V == Waiters(k)'
  <2>1. W \subseteq Procs /\ V \subseteq W \cup {p} /\ V \subseteq Procs
      BY <1>1 DEF Waiters
  <2>2. Counted(k)' <=> (k \notin undercounted' => Cardinality(V) <= waits'[k])
      BY DEF Counted
  <2>3. k \notin undercounted => Cardinality(W) <= waits[k]
      BY DEF Counted
  <2> HIDE DEF W, V
  <2>4. /\ Cardinality(V) <= Cardinality(W) + 1
        /\ Cardinality(V) \in Nat /\ Cardinality(W) \in Nat
      BY <2>1, OneMore, Countable
  <2> QED
      BY <1>1, <1>4, <2>2, <2>3, <2>4 DEF TypeOK, StoreTypes
<1> QED
    BY <1>2, <1>3, <1>4 DEF IncrementWaitCount, TypeOK, StoreTypes, RequestTypes

\* decrementWaitScript discounts one request that leaves.
LEMMA DecrementCounted ==
    ASSUME TypeOK, TypeOK', NEW p \in Procs, DecrementWaitCount(p), NEW k \in Keys, Counted(k)
    PROVE  Counted(k)'
<1>1. /\ pc[p] \in Waiting /\ pc'[p] \notin Waiting /\ UNCHANGED undercounted
      /\ \A q \in Procs : q # p => pc'[q] = pc[q] /\ at'[q] = at[q]
    BY ProceedPoint DEF DecrementWaitCount, history, TypeOK, RequestTypes, Waiting
<1>2. Waiters(k)' \subseteq Waiters(k) \ {p}
    BY <1>1 DEF Waiters
<1>3. CASE waits'[k] = waits[k]
    BY <1>1, <1>2, <1>3, ShorterQueue
<1>4. CASE k = at[p] /\ waits'[k] = Decremented(waits[k])
  <2> DEFINE W == Waiters(k)
             V == Waiters(k)'
  <2>1. W \subseteq Procs /\ p \in W /\ V \subseteq W \ {p}
      BY <1>1, <1>2, <1>4 DEF Waiters
  <2>2. Counted(k)' <=> (k \notin undercounted' => Cardinality(V) <= waits'[k])
      BY DEF Counted
  <2>3. k \notin undercounted => Cardinality(W) <= waits[k]
      BY DEF Counted
  <2> HIDE DEF W, V
  <2>4. Cardinality(W \ {p}) = Cardinality(W) - 1
      BY <2>1, Countable, FS_RemoveElement
  <2>5. /\ Cardinality(V) <= Cardinality(W \ {p})
        /\ Cardinality(V) \in Nat /\ Cardinality(W) \in Nat /\ Cardinality(W \ {p}) \in Nat
      BY <2>1, Fewer, Countable
  <2> QED
      BY <1>1, <1>4, <2>2, <2>3, <2>4, <2>5 DEF Decremented, TypeOK, StoreTypes
<1>5. waits'[k] = waits[k] \/ (k = at[p] /\ waits'[k] = Decremented(waits[k]))
    BY DEF DecrementWaitCount, TypeOK, StoreTypes, RequestTypes
<1> QED
    BY <1>3, <1>4, <1>5

\* Every step keeps the queues counted.
LEMMA CountedNext ==
    ASSUME TypeOK, TypeOK', [Next]_vars, \A k \in Keys : Counted(k)
    PROVE  \A k \in Keys : Counted(k)'
<1>1. ASSUME NEW p \in Procs, RequestStep(p), NEW k \in Keys PROVE Counted(k)'
  <2>1. CASE JoinsNoQueue(p)
    <3>1. Waiters(k)' \subseteq Waiters(k)
        BY <1>1, <2>1, ActsAlone DEF Alone, JoinsNoQueue, Waiters
    <3>2. undercounted \subseteq undercounted'
        BY <1>1, ActsTidily DEF Tidy
    <3> QED
        BY <2>1, <3>1, <3>2, ShorterQueue DEF JoinsNoQueue
  <2> QED
      BY <1>1, <2>1, Queueing, IncrementCounted, DecrementCounted
<1>2. ASSUME NEW j \in Keys, KeyStep(j), NEW k \in Keys PROVE Counted(k)'
  <2>1. Waiters(k)' = Waiters(k) /\ undercounted \subseteq undercounted'
      BY <1>2, KeyStepTidy DEF Waiters
  <2>2. CASE waits'[k] = waits[k]
      BY <2>1, <2>2, ShorterQueue
  <2>3. CASE DeleteWaitKey(j) /\ k = j
    <3>1. waits'[k] = 0 /\ (Waiters(k) = {} \/ k \in undercounted')
        BY <2>3 DEF DeleteWaitKey, TypeOK, StoreTypes
    <3>2. CASE Waiters(k) = {}
      <4>1. Cardinality(Waiters(k)') = 0
          BY <2>1, <3>2, FS_EmptySet
      <4> QED
          BY <3>1, <4>1 DEF Counted
    <3> QED
        BY <3>1, <3>2 DEF Counted
  <2> QED
      BY <1>2, <2>2, <2>3
         DEF KeyStep, GetCount, CleanupExpiredSlots, CleanupStaleProcessSlots,
             DeleteWaitKey, TypeOK, StoreTypes
<1>3. ASSUME UNCHANGED vars, NEW k \in Keys PROVE Counted(k)'
    BY <1>3 DEF vars, redis, request, history, Counted, Waiters
<1> QED
    BY <1>1, <1>2, <1>3, StepSplit

-----------------------------------------------------------------------------
(* Live leases that are gone.                                              *)

\* A step of a request with an open session does not bring its lease back.
LEMMA OwnStepOfSession ==
    ASSUME TypeOK, NEW p \in Procs, Ordered(p), session[p] = "open", session'[p] = "open",
           RequestStep(p)
    PROVE  Intact(p)' => Intact(p)
<1>1. CASE Begin(p)
    BY <1>1 DEF Begin, Ordered
<1>2. CASE AcquireSlot(p)
    BY <1>2 DEF AcquireSlot, Ordered
<1>3. CASE AcquireFails(p)
    BY <1>3 DEF AcquireFails, Ordered
<1>4. CASE IncrementWaitCount(p)
    BY <1>4 DEF IncrementWaitCount, redis, request, Ordered, Intact, LeaseKeys
<1>5. CASE WaitTimeout(p)
    BY <1>5 DEF WaitTimeout, redis, request, Ordered, Intact, LeaseKeys
<1>6. CASE DecrementWaitCount(p)
    BY <1>6 DEF DecrementWaitCount, Ordered
<1>7. CASE Forwarded(p)
    BY <1>7 DEF Forwarded, redis, request, Ordered, Intact, LeaseKeys
<1>8. CASE SwitchAccount(p)
    BY <1>8 DEF SwitchAccount, Ordered
<1>9. CASE ReleaseOnDone(p)
    BY <1>9 DEF ReleaseOnDone, Ordered, Waiting
<1>10. CASE Leave(p)
    BY <1>10 DEF Leave, redis, request, Ordered, Intact, LeaseKeys
<1>11. CASE AcquireLiveLease(p)
    BY <1>11 DEF AcquireLiveLease, Ordered
<1>12. CASE CreateUpstreamLiveCall(p)
    BY <1>12 DEF CreateUpstreamLiveCall, redis, request, Ordered, Intact, LeaseKeys
<1>13. CASE ReleaseAccountSlot(p)
    BY <1>13 DEF ReleaseAccountSlot, redis, request, Ordered, Intact, LeaseKeys
<1>14. CASE SaveLiveCall(p)
    BY <1>14 DEF SaveLiveCall, redis, request, Ordered, Intact, LeaseKeys
<1>15. CASE UndoLiveCall(p)
    BY <1>15 DEF UndoLiveCall, Ordered
<1>16. CASE RefreshLiveLease(p)
  <2>1. CASE Owns(p)
      BY <2>1 DEF Owns, Intact
  <2>2. CASE ~Owns(p)
      BY <1>16, <2>2 DEF RefreshLiveLease, TypeOK, RequestTypes
  <2> QED
      BY <2>1, <2>2
<1>17. CASE SessionEnds(p)
    BY <1>17 DEF SessionEnds, redis, request, Ordered, Intact, LeaseKeys
<1>18. CASE FinalizeLiveCall(p)
    BY <1>18 DEF FinalizeLiveCall
<1>19. CASE \E k \in Keys : SlotAges(p, k)
    BY <1>19 DEF SlotAges, redis, request, Ordered, Intact, LeaseKeys
<1>20. CASE LeaseAges(p)
    BY <1>20, KeysOf DEF LeaseAges, request, Intact, LeaseKeys, TypeOK, StoreTypes
<1>21. CASE Crash(p)
    BY <1>21 DEF Crash, TypeOK, RequestTypes
<1>22. CASE SelectionFails(p)
    BY <1>22 DEF SelectionFails, Ordered
<1> QED
    BY <1>1, <1>2, <1>3, <1>4, <1>5, <1>6, <1>7, <1>8, <1>9, <1>10, <1>11, <1>12, <1>13,
       <1>14, <1>15, <1>16, <1>17, <1>18, <1>19, <1>20, <1>21, <1>22
       DEF RequestStep

\* No step does.
LEMMA StaysLost ==
    ASSUME Inv, [Next]_vars, NEW p \in Procs, session[p] = "open", session'[p] = "open"
    PROVE  Intact(p)' => Intact(p)
<1>1. TypeOK /\ Ordered(p)
    BY DEF Inv, HeldInOrder, Ordered
<1>2. ASSUME Untouched(p), at'[p] = at[p] PROVE Intact(p)' => Intact(p)
  <2>1. LeaseKeys(p)' = LeaseKeys(p) /\ LeaseKeys(p) \subseteq Keys
      BY <1>1, <1>2, KeysOf DEF LeaseKeys, TypeOK
  <2> QED
      BY <1>2, <2>1 DEF Intact, Untouched, SameOrSwept
<1>3. ASSUME NEW q \in Procs, RequestStep(q) PROVE Intact(p)' => Intact(p)
  <2>1. CASE q = p
      BY <1>1, <1>3, <2>1, OwnStepOfSession
  <2>2. CASE q # p
      BY <1>1, <1>2, <1>3, <2>2, ActsAlone, ActsTidily DEF Alone, Tidy
  <2> QED
      BY <2>1, <2>2
<1>4. ASSUME NEW k \in Keys, KeyStep(k) PROVE Intact(p)' => Intact(p)
  <2>1. CASE CleanupStaleProcessSlots(k)
      BY <2>1 DEF CleanupStaleProcessSlots, request, Intact, LeaseKeys
  <2> QED
      BY <1>1, <1>2, <1>4, <2>1, KeyStepTidy
<1>5. ASSUME UNCHANGED vars PROVE Intact(p)' => Intact(p)
    BY <1>5 DEF vars, redis, request, Intact, LeaseKeys
<1> QED
    BY <1>3, <1>4, <1>5, StepSplit

-----------------------------------------------------------------------------
(* The invariant.                                                          *)

\* Inv is the sum of its parts.
LEMMA InvParts ==
    ASSUME TypeOK
    PROVE  Inv <=> /\ \A p \in Procs : Ordered(p) /\ SlotsOf(p) /\ LeasesOf(p)
                   /\ \A k \in Keys : Bounded(k) /\ Counted(k)
<1>1. QueueBounded <=> \A k \in Keys : Counted(k)
    BY KeyKinds DEF QueueBounded, Counted, TypeOK, StoreTypes
<1>2. HoldersBounded /\ StoreBounded <=> \A k \in Keys : Bounded(k)
    BY DEF HoldersBounded, StoreBounded, Bounded
<1> QED
    BY <1>1, <1>2, PerRequest DEF Inv

\* Nothing is in use at the start.
LEMMA InvInit == Init => Inv
<1> SUFFICES ASSUME Init PROVE Inv
    OBVIOUS
<1>1. TypeOK
    BY KeysAssumption
       DEF Init, Empty, TypeOK, StoreTypes, RequestTypes, HistoryTypes, Keys, Marks,
           Labels, Sessions, Modes
<1>2. ASSUME NEW p \in Procs PROVE Ordered(p) /\ SlotsOf(p) /\ LeasesOf(p)
    BY DEF Init, Empty, Ordered, AtWork, SlotsOf, LeasesOf, HasLease, Leasing, Waiting
<1>3. ASSUME NEW k \in Keys PROVE Bounded(k) /\ Counted(k)
  <2>1. Members(slots[k]) = {} /\ Members(live[k]) = {} /\ Waiters(k) = {}
      BY DEF Init, Empty, Members, Waiters, Waiting
  <2>2. Cardinality(Members(slots[k])) = 0 /\ Cardinality(Members(live[k])) = 0
        /\ Cardinality(Members(slots[k]) \cup Members(live[k])) = 0 /\ Cardinality(Waiters(k)) = 0
      BY <2>1, FS_EmptySet
  <2> QED
      BY <2>2, KeyKinds DEF Bounded, Counted, Init
<1> QED
    BY <1>1, <1>2, <1>3, InvParts

\* Every step keeps the invariant.
LEMMA InvNext == Inv /\ [Next]_vars => Inv'
<1> SUFFICES ASSUME Inv, [Next]_vars PROVE Inv'
    OBVIOUS
<1>1. TypeOK /\ TypeOK'
    BY TypeNext DEF Inv
<1>2. /\ \A p \in Procs : Ordered(p) /\ SlotsOf(p) /\ LeasesOf(p)
      /\ \A k \in Keys : Bounded(k) /\ Counted(k)
    BY <1>1, InvParts
<1>3. \A p \in Procs : (Ordered(p) /\ SlotsOf(p) /\ LeasesOf(p))'
    BY <1>1, <1>2, RequestsNext
<1>4. \A k \in Keys : Bounded(k)'
    BY <1>1, <1>2, BoundedNext
<1>5. \A k \in Keys : Counted(k)'
    BY <1>1, <1>2, CountedNext
<1>6. (\A p \in Procs : Ordered(p) /\ SlotsOf(p) /\ LeasesOf(p))'
    BY <1>3
<1>7. (\A k \in Keys : Bounded(k) /\ Counted(k))'
    BY <1>4, <1>5
<1> QED
    BY <1>1, <1>6, <1>7, InvParts, PTL

\* Requests, release functions, Redis and the limits agree in every reachable
\* state.
THEOREM Invariance == Spec => []Inv
<1> QED
    BY InvInit, InvNext, PTL DEF Spec

\* Every variable keeps its type, and no wait counter leaves its bounds.
THEOREM TypeCorrect == Spec => []TypeOK
<1>1. Inv => TypeOK
    BY DEF Inv
<1> QED
    BY <1>1, Invariance, PTL

\* Without a lost slot or lease, no user and no account has more requests and
\* Live sessions than its limit, not counting the forwarded requests whose client
\* has gone and whose slot was released under them.
THEOREM Limits == Spec => []LimitKept
<1>1. Inv => LimitKept
  <2> SUFFICES ASSUME Inv, NEW k \in Keys, k \notin lapsed, Limit[k] > 0
               PROVE  Cardinality(Loading(k) \ Draining(k)) <= Limit[k]
      BY DEF LimitKept
  <2> DEFINE L == Loading(k) \ Draining(k)
             M == Members(slots[k]) \cup Members(live[k])
  <2>1. ASSUME NEW p \in L PROVE p \in M
    <3>1. p \in Procs /\ p \in Loading(k) /\ (mode[p] # "drain" \/ k \in held[p])
        BY <2>1 DEF Loading, Draining
    <3>2. CASE k \in held[p]
        BY <3>1, <3>2 DEF Inv, SlotsTracked, Members
    <3>3. CASE HasLease(p) /\ k \in LeaseKeys(p)
        BY <3>1, <3>3 DEF Inv, LeasesTracked, Members
    <3>4. CASE pc[p] = "run" /\ k \in {UserOf[p], at[p]} /\ k \notin held[p]
      <4>1. mode[p] # "drain" /\ at[p] # UserOf[p]
          BY <3>1, <3>4 DEF Inv, HeldInOrder
      <4>2. Limit[at[p]] = 0 \/ at[p] \in held[p]
          BY <3>1, <3>4, <4>1 DEF Inv, HeldInOrder
      <4>3. Limit[UserOf[p]] = 0 \/ UserOf[p] \in held[p]
          BY <3>1, <3>4, <4>1 DEF Inv, HeldInOrder, AtWork
      <4> QED
          BY <3>4, <4>2, <4>3
    <3> QED
        BY <3>1, <3>2, <3>3, <3>4 DEF Loading
  <2>2. L \subseteq M /\ M \subseteq Procs
      BY <2>1 DEF Members
  <2>3. Cardinality(M) <= Limit[k]
      BY DEF Inv, HoldersBounded
  <2> HIDE DEF L, M
  <2>4. Cardinality(L) <= Cardinality(M)
      BY <2>2, Fewer
  <2>5. Cardinality(L) \in Nat /\ Cardinality(M) \in Nat
      BY <2>2, Countable
  <2>6. Cardinality(L) <= Limit[k]
      BY <2>3, <2>4, <2>5, KeyKinds
  <2> QED
      BY <2>6 DEF L
<1> QED
    BY <1>1, Invariance, PTL

\* Redis never admits more than one member beyond a limit.
THEOREM StoreLimits == Spec => []StoreBounded
<1>1. Inv => StoreBounded
    BY DEF Inv
<1> QED
    BY <1>1, Invariance, PTL

\* The sets of a Live lease agree.
THEOREM LeasesAgree == Spec => []LeaseTogether
<1>1. Inv => LeaseTogether
    BY DEF Inv
<1> QED
    BY <1>1, Invariance, PTL

\* Whatever a request took is given back, unless it died or a command failed, but
\* for the slot of an account that the scheduler chose and could not load.
THEOREM GivenBack == Spec => []NothingForgotten
<1>1. Inv => NothingForgotten
    BY DEF Inv
<1> QED
    BY <1>1, Invariance, PTL

\* No more requests wait than the queue may hold, unless the counter lost one.
THEOREM Queues == Spec => []QueueBounded
<1>1. Inv => QueueBounded
    BY DEF Inv
<1> QED
    BY <1>1, Invariance, PTL

\* A session that lost its Live lease never gets it back.
THEOREM NoResurrection == Spec => NotResurrected
<1>1. Inv /\ [Next]_vars =>
        [\A p \in Procs :
            session[p] = "open" /\ session'[p] = "open" /\ ~Intact(p) => ~Intact(p)']_vars
    BY StaysLost
<1> QED
    BY <1>1, Invariance, PTL DEF Spec, NotResurrected

=============================================================================
