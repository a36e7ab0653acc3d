-------------------------- MODULE TokenRefreshProofs --------------------------
(***************************************************************************)
(* Proofs about TokenRefresh, for any number of nodes, logins, refreshes,  *)
(* requests, calls of the operator and failures.                           *)
(***************************************************************************)
EXTENDS TokenRefresh, TLAPS

\* The credentials of the first login are credentials.
LEMMA FirstIs ==
    First \in Credentials /\ First.login = 1 /\ First.turn = 0 /\ NoNode \notin Nodes
BY TokenAssumption DEF First, Credentials, Logins

\* What credentials consist of.
LEMMA CredentialsAre ==
    ASSUME NEW c \in Credentials
    PROVE  c.login \in Logins /\ c.login \in Nat /\ c.turn \in Nat
BY TokenAssumption DEF Credentials, Logins

\* Credentials are the same if login and turn are.
LEMMA SameCredentials ==
    ASSUME NEW c \in Credentials, NEW d \in Credentials, c.login = d.login, c.turn = d.turn
    PROVE  c = d
BY DEF Credentials

\* A refresh keeps the login and takes the next turn.
LEMMA RefreshedIs ==
    ASSUME NEW c \in Credentials
    PROVE  /\ Refreshed(c) \in Credentials
           /\ Refreshed(c).login = c.login /\ Refreshed(c).turn = c.turn + 1
BY DEF Credentials, Refreshed

\* A new login's credentials.
LEMMA LoginIs ==
    ASSUME NEW l \in Logins
    PROVE  [login |-> l, turn |-> 0] \in Credentials
BY DEF Credentials

\* The numbers that logins have.
LEMMA LoginsAre ==
    /\ Logins \subseteq Nat /\ 1 \in Logins
    /\ \A l \in Logins : 1 <= l /\ (l < MaxLogins => l + 1 \in Logins)
BY TokenAssumption DEF Logins

\* The lapses that steps record.
LEMMA Names ==
    /\ "overlap" \in Lapses /\ "lost" \in Lapses /\ "writeback" \in Lapses
    /\ "reauthorized" \in Lapses /\ "uncleared" \in Lapses
BY DEF Lapses

\* The lapse that an overlap is recorded as.
LEMMA OperatorAtIs ==
    /\ OperatorAt \subseteq Lapses
    /\ admin \in {"write", "call", "update", "save"} => OperatorAt = {"writeback"}
    /\ admin = "apply" => OperatorAt = {"reauthorized"}
    /\ admin \in {"idle", "clear"} => OperatorAt = {}
BY DEF OperatorAt, Lapses

\* What the operator's update may do to everything but the two flags of the account.
LEMMA UpdateAccountIs ==
    ASSUME UpdateAccount
    PROVE  /\ admin \in {"write", "save", "apply"}
           /\ UNCHANGED <<kind, due, live, logins, lock, pc, path, key, snap, owners, verdicts,
                          held>>
           /\ \/ /\ creds' = put /\ status' = seen
                 /\ admin = "apply" /\ admin' = "clear"
                 /\ UNCHANGED <<put, seen, lapses>>
              \/ /\ creds' = put /\ status' = seen
                 /\ admin' = "idle" /\ put' = First /\ seen' = "active"
                 /\ admin # "apply" /\ lapses' = lapses
              \/ /\ creds' = put /\ status' = seen
                 /\ admin' = "idle" /\ put' = First /\ seen' = "active"
                 /\ admin = "apply" /\ lapses' = lapses \cup {"uncleared"}
              \/ /\ creds' = creds /\ status' = status
                 /\ admin' = "idle" /\ put' = First /\ seen' = "active"
                 /\ admin # "save" /\ lapses' = lapses
              \/ /\ creds' = creds /\ status' = status
                 /\ admin' = "idle" /\ put' = First /\ seen' = "active"
                 /\ admin = "save" /\ lapses' = lapses \cup {"lost"}
BY DEF UpdateAccount, UpdateLockedAccount, Store, AdminReturns, Lapse, Fault, account, provider,
       attempts

\* Every step keeps the types.
LEMMA TypeOKStep ==
    TypeOK /\ [Next]_vars => TypeOK'
<1> SUFFICES ASSUME TypeOK, [Next]_vars
             PROVE  TypeOK'
    OBVIOUS
<1> USE TokenAssumption, FirstIs, LoginsAre, CredentialsAre, RefreshedIs
<1>1. ASSUME NEW n \in Nodes, NEW p \in Paths, NEW k \in Keys, AcquireRefreshLock(n, p, k)
      PROVE  TypeOK'
    BY <1>1, Names
       DEF AcquireRefreshLock, Begin, Goto, Lapse, account, provider, desk, TypeOK, Paths,
           Keys, Kinds, Statuses, Labels, AdminLabels
<1>2. ASSUME NEW n \in Nodes, NEW p \in Paths, NEW k \in Keys, AcquireFails(n, p, k)
      PROVE  TypeOK'
    BY <1>2, Names
       DEF AcquireFails, Begin, Goto, Lapse, Fault, account, provider, desk, TypeOK,
           Paths, Keys, Kinds, Statuses, Labels, AdminLabels
<1>3. ASSUME NEW n \in Nodes, Reread(n)
      PROVE  TypeOK'
    BY <1>3, Names, OperatorAtIs
       DEF Reread, Lapse, Fault, Goto, Eligible, account, provider, desk, TypeOK, Paths,
           Keys, Kinds, Statuses, Labels, AdminLabels
<1>4. ASSUME NEW n \in Nodes, CallProvider(n)
      PROVE  TypeOK'
    BY <1>4, Names
       DEF CallProvider, Lapse, Fault, Goto, Rotate, Live, account, desk, TypeOK, Paths,
           Keys, Kinds, Statuses, Labels, AdminLabels
<1>5. ASSUME NEW n \in Nodes, TryRecoverFromRefreshRace(n)
      PROVE  TypeOK'
    BY <1>5, Names
       DEF TryRecoverFromRefreshRace, Fault, Goto, account, provider, desk, TypeOK, Paths,
           Keys, Kinds, Statuses, Labels, AdminLabels
<1>6. ASSUME NEW n \in Nodes, Persist(n)
      PROVE  TypeOK'
  <2>1. creds' \in Credentials /\ lapses' \subseteq Lapses /\ faults' \in Nat
      BY <1>6, Names DEF Persist, Lapse, Fault, UpdateCredentials, Store, TypeOK
  <2>2. named' \in BOOLEAN
      BY <1>6, Zenon DEF Persist, UpdateCredentials, Store, TypeOK
  <2> QED
      BY <1>6, <2>1, <2>2
         DEF Persist, Goto, provider, desk, TypeOK, Paths, Keys, Kinds, Statuses, Labels,
             AdminLabels
<1>7. ASSUME NEW n \in Nodes, ReleaseRefreshLock(n)
      PROVE  TypeOK'
    BY <1>7, Names
       DEF ReleaseRefreshLock, Fault, Return, Goto, account, provider, desk, TypeOK,
           Paths, Keys, Kinds, Statuses, Labels, AdminLabels
<1>8. ASSUME NEW n \in Nodes, NodeDies(n)
      PROVE  TypeOK'
    BY <1>8, Names
       DEF NodeDies, Lapse, Fault, Return, Goto, account, provider, desk, TypeOK, Paths,
           Keys, Kinds, Statuses, Labels, AdminLabels
<1>9. ASSUME NEW n \in Nodes, LockExpiresEarly(n)
      PROVE  TypeOK'
    BY <1>9, Names
       DEF LockExpiresEarly, Lapse, Fault, account, provider, attempts, desk, TypeOK,
           Paths, Keys, Kinds, Statuses, Labels, AdminLabels
<1>10. ASSUME NEW c \in verdicts, RecordFailure(c)
      PROVE  TypeOK'
    BY <1>10, Names
       DEF RecordFailure, SetError, provider, attempts, desk, budget, TypeOK, Paths, Keys,
           Kinds, Statuses, Labels, AdminLabels
<1>11. ASSUME NEW c \in verdicts, RecordFailureFails(c)
      PROVE  TypeOK'
    BY <1>11, Names
       DEF RecordFailureFails, Fault, account, provider, attempts, desk, TypeOK, Paths,
           Keys, Kinds, Statuses, Labels, AdminLabels
<1>12. ASSUME NEW c \in held, PersistProjectID(c)
      PROVE  TypeOK'
    BY <1>12, Names
       DEF PersistProjectID, Lapse, Store, provider, attempts, desk, budget, TypeOK,
           Paths, Keys, Kinds, Statuses, Labels, AdminLabels
<1>13. ASSUME NEW k \in Keys, LockExpires(k)
      PROVE  TypeOK'
    BY <1>13, Names
       DEF LockExpires, account, provider, attempts, desk, budget, TypeOK, Paths, Keys,
           Kinds, Statuses, Labels, AdminLabels
<1>14. ASSUME AdminEdits
      PROVE  TypeOK'
    BY <1>14, Names
       DEF AdminEdits, Lapse, AdminBegins, Underway, account, provider, attempts, TypeOK,
           Paths, Keys, Kinds, Statuses, Labels, AdminLabels
<1>15. ASSUME AdminRefreshes
      PROVE  TypeOK'
    BY <1>15, Names
       DEF AdminRefreshes, Lapse, AdminBegins, Underway, account, provider, attempts,
           TypeOK, Paths, Keys, Kinds, Statuses, Labels, AdminLabels
<1>16. ASSUME AdminCallsProvider
      PROVE  TypeOK'
    BY <1>16, Names
       DEF AdminCallsProvider, Lapse, Fault, Rotate, Live, AdminReturns, account,
           attempts, TypeOK, Paths, Keys, Kinds, Statuses, Labels, AdminLabels
<1>17. ASSUME AdminUpdateReads
      PROVE  TypeOK'
    BY <1>17, Names
       DEF AdminUpdateReads, account, provider, attempts, budget, TypeOK, Paths, Keys,
           Kinds, Statuses, Labels, AdminLabels
<1>18. ASSUME ApplyOAuthCredentials
      PROVE  TypeOK'
    BY <1>18, Names, LoginIs
       DEF ApplyOAuthCredentials, Lapse, AdminBegins, Underway, account, attempts, TypeOK,
           Paths, Keys, Kinds, Statuses, Labels, AdminLabels
<1>19. ASSUME UpdateAccount
      PROVE  TypeOK'
  <2>1. schedulable' \in BOOLEAN /\ named' \in BOOLEAN
      BY <1>19, Zenon DEF UpdateAccount, UpdateLockedAccount, Store, account, TypeOK
  <2>2. requests' \in Nat /\ edits' \in Nat /\ faults' \in Nat
      BY <1>19 DEF UpdateAccount, Fault, TypeOK
  <2> QED
      BY <1>19, <2>1, <2>2, UpdateAccountIs, Names DEF TypeOK, Statuses, AdminLabels
<1>20. ASSUME ClearErrorAfterLogin
      PROVE  TypeOK'
    BY <1>20, Names
       DEF ClearErrorAfterLogin, Lapse, Fault, AdminReturns, provider, attempts, TypeOK,
           Paths, Keys, Kinds, Statuses, Labels, AdminLabels
<1>21. ASSUME ClearAccountError
      PROVE  TypeOK'
    BY <1>21, Names
       DEF ClearAccountError, provider, attempts, desk, budget, TypeOK, Paths, Keys,
           Kinds, Statuses, Labels, AdminLabels
<1>22. ASSUME SetSchedulable
      PROVE  TypeOK'
    BY <1>22, Names
       DEF SetSchedulable, provider, attempts, desk, TypeOK, Paths, Keys, Kinds, Statuses,
           Labels, AdminLabels
<1>23. ASSUME FillProjectID
      PROVE  TypeOK'
    BY <1>23, Names
       DEF FillProjectID, account, provider, attempts, desk, TypeOK, Paths, Keys, Kinds,
           Statuses, Labels, AdminLabels
<1>24. ASSUME HandleAuthError
      PROVE  TypeOK'
  <2>1. schedulable' \in BOOLEAN
      BY <1>24 DEF HandleAuthError
  <2> QED
      BY <1>24, <2>1
         DEF HandleAuthError, Fault, provider, attempts, desk, TypeOK, Statuses
<1>25. ASSUME ProviderRevokes
      PROVE  TypeOK'
    BY <1>25, Names
       DEF ProviderRevokes, Lapse, Fault, account, attempts, desk, TypeOK, Paths, Keys,
           Kinds, Statuses, Labels, AdminLabels
<1>26. ASSUME AccessTokenAges
      PROVE  TypeOK'
    BY <1>26, Names
       DEF AccessTokenAges, account, provider, attempts, desk, budget, TypeOK, Paths,
           Keys, Kinds, Statuses, Labels, AdminLabels
<1>27. ASSUME UNCHANGED vars PROVE TypeOK'
    BY <1>27
       DEF vars, TypeOK, Paths, Keys, Kinds, Statuses, Labels, AdminLabels, account,
           provider, attempts, desk, budget
<1> QED
    BY <1>1, <1>2, <1>3, <1>4, <1>5, <1>6, <1>7, <1>8, <1>9, <1>10, <1>11, <1>12, <1>13,
       <1>14, <1>15, <1>16, <1>17, <1>18, <1>19, <1>20, <1>21, <1>22, <1>23, <1>24, <1>25,
       <1>26, <1>27
       DEF Next, NodeNext, Attempt, AdminNext

\* A working lock has one owner.
LEMMA LockInvStep ==
    TypeOK /\ LockInv /\ [Next]_vars
    => LockInv'
<1> SUFFICES ASSUME TypeOK, LockInv, [Next]_vars
             PROVE  LockInv'
    OBVIOUS
<1> USE TokenAssumption, FirstIs, LoginsAre, CredentialsAre, RefreshedIs
<1>1. ASSUME NEW n \in Nodes, NEW p \in Paths, NEW k \in Keys, AcquireRefreshLock(n, p, k)
      PROVE  LockInv'
    BY <1>1
       DEF AcquireRefreshLock, Begin, Goto, Lapse, account, provider, desk, LockInv,
           Intact, TypeOK
<1>2. ASSUME NEW n \in Nodes, NEW p \in Paths, NEW k \in Keys, AcquireFails(n, p, k)
      PROVE  LockInv'
    BY <1>2
       DEF AcquireFails, Begin, Goto, Lapse, Fault, account, provider, desk, LockInv,
           Intact, TypeOK
<1>3. ASSUME NEW n \in Nodes, Reread(n) PROVE LockInv'
    BY <1>3, OperatorAtIs
       DEF Reread, Lapse, Fault, Goto, Eligible, account, provider, desk, LockInv, Intact,
           TypeOK
<1>4. ASSUME NEW n \in Nodes, CallProvider(n) PROVE LockInv'
    BY <1>4
       DEF CallProvider, Lapse, Fault, Goto, Rotate, Live, account, desk, LockInv, Intact,
           TypeOK
<1>5. ASSUME NEW n \in Nodes, TryRecoverFromRefreshRace(n) PROVE LockInv'
    BY <1>5
       DEF TryRecoverFromRefreshRace, Fault, Goto, account, provider, desk, LockInv,
           Intact, TypeOK
<1>6. ASSUME NEW n \in Nodes, Persist(n) PROVE LockInv'
    BY <1>6
       DEF Persist, Lapse, Fault, Goto, UpdateCredentials, Store, provider, desk, LockInv,
           Intact, TypeOK
<1>7. ASSUME NEW n \in Nodes, ReleaseRefreshLock(n) PROVE LockInv'
    BY <1>7
       DEF ReleaseRefreshLock, Fault, Return, Goto, account, provider, desk, LockInv,
           Intact, TypeOK
<1>8. ASSUME NEW n \in Nodes, NodeDies(n) PROVE LockInv'
    BY <1>8
       DEF NodeDies, Lapse, Fault, Return, Goto, account, provider, desk, LockInv, Intact,
           TypeOK
<1>9. ASSUME NEW n \in Nodes, LockExpiresEarly(n) PROVE LockInv'
    BY <1>9
       DEF LockExpiresEarly, Lapse, Fault, account, provider, attempts, desk, LockInv,
           Intact, TypeOK
<1>10. ASSUME NEW c \in held, PersistProjectID(c) PROVE LockInv'
    BY <1>10
       DEF PersistProjectID, Lapse, Store, provider, attempts, desk, budget, LockInv,
           Intact, TypeOK
<1>11. ASSUME NEW k \in Keys, LockExpires(k) PROVE LockInv'
    BY <1>11
       DEF LockExpires, account, provider, attempts, desk, budget, LockInv, Intact, TypeOK
<1>12. ASSUME AdminEdits PROVE LockInv'
    BY <1>12
       DEF AdminEdits, Lapse, AdminBegins, Underway, account, provider, attempts, LockInv,
           Intact, TypeOK
<1>13. ASSUME AdminRefreshes PROVE LockInv'
    BY <1>13
       DEF AdminRefreshes, Lapse, AdminBegins, Underway, account, provider, attempts,
           LockInv, Intact, TypeOK
<1>14. ASSUME AdminCallsProvider PROVE LockInv'
    BY <1>14
       DEF AdminCallsProvider, Lapse, Fault, Rotate, Live, AdminReturns, account,
           attempts, LockInv, Intact, TypeOK
<1>15. ASSUME ApplyOAuthCredentials PROVE LockInv'
    BY <1>15
       DEF ApplyOAuthCredentials, Lapse, AdminBegins, Underway, account, attempts,
           LockInv, Intact, TypeOK
<1>16. ASSUME UpdateAccount PROVE LockInv'
    BY <1>16, UpdateAccountIs DEF LockInv, Intact, TypeOK
<1>17. ASSUME ClearErrorAfterLogin PROVE LockInv'
    BY <1>17
       DEF ClearErrorAfterLogin, Lapse, Fault, AdminReturns, provider, attempts, LockInv,
           Intact, TypeOK
<1>18. ASSUME ProviderRevokes PROVE LockInv'
    BY <1>18
       DEF ProviderRevokes, Lapse, Fault, account, attempts, desk, LockInv, Intact, TypeOK
<1>19. ASSUME NEW c \in verdicts,
             \/ RecordFailure(c) \/ RecordFailureFails(c)
      PROVE  UNCHANGED <<lock, pc, key, owners, lapses>>
    BY <1>19
       DEF RecordFailure, SetError, provider, attempts, desk, budget, RecordFailureFails,
           Fault, account
<1>20. ASSUME \/ AdminUpdateReads \/ ClearAccountError \/ SetSchedulable \/ FillProjectID
             \/ HandleAuthError \/ AccessTokenAges \/ UNCHANGED vars
      PROVE  UNCHANGED <<lock, pc, key, owners, lapses>>
    BY <1>20
       DEF AdminUpdateReads, account, provider, attempts, budget, ClearAccountError, desk,
           SetSchedulable, FillProjectID, HandleAuthError, Fault, AccessTokenAges, vars
<1>21. ASSUME UNCHANGED <<lock, pc, key, owners, lapses>>
      PROVE  LockInv'
    BY <1>21 DEF LockInv, Intact
<1> QED
    BY <1>1, <1>2, <1>3, <1>4, <1>5, <1>6, <1>7, <1>8, <1>9, <1>10, <1>11, <1>12, <1>13,
       <1>14, <1>15, <1>16, <1>17, <1>18, <1>19, <1>20, <1>21
       DEF Next, NodeNext, Attempt, AdminNext

\* The provider is never behind a token.
LEMMA TurnInvStep ==
    TypeOK /\ TurnInv /\ [Next]_vars
    => TurnInv'
<1> SUFFICES ASSUME TypeOK, TurnInv, [Next]_vars
             PROVE  TurnInv'
    OBVIOUS
<1> USE TokenAssumption, FirstIs, LoginsAre, CredentialsAre, RefreshedIs
<1>1. ASSUME NEW n \in Nodes, NEW p \in Paths, NEW k \in Keys, AcquireRefreshLock(n, p, k)
      PROVE  TurnInv'
    BY <1>1
       DEF AcquireRefreshLock, Begin, Goto, Lapse, account, provider, desk, TurnInv,
           TypeOK
<1>2. ASSUME NEW n \in Nodes, NEW p \in Paths, NEW k \in Keys, AcquireFails(n, p, k)
      PROVE  TurnInv'
    BY <1>2
       DEF AcquireFails, Begin, Goto, Lapse, Fault, account, provider, desk, TurnInv,
           TypeOK
<1>3. ASSUME NEW n \in Nodes, Reread(n) PROVE TurnInv'
    BY <1>3, OperatorAtIs
       DEF Reread, Lapse, Fault, Goto, Eligible, account, provider, desk, TurnInv, TypeOK
<1>4. ASSUME NEW n \in Nodes, CallProvider(n) PROVE TurnInv'
    BY <1>4
       DEF CallProvider, Lapse, Fault, Goto, Rotate, Live, account, desk, TurnInv, TypeOK
<1>5. ASSUME NEW n \in Nodes, TryRecoverFromRefreshRace(n) PROVE TurnInv'
    BY <1>5
       DEF TryRecoverFromRefreshRace, Fault, Goto, account, provider, desk, TurnInv,
           TypeOK
<1>6. ASSUME NEW n \in Nodes, Persist(n) PROVE TurnInv'
    BY <1>6
       DEF Persist, Lapse, Fault, Goto, UpdateCredentials, Store, provider, desk, TurnInv,
           TypeOK
<1>7. ASSUME NEW n \in Nodes, ReleaseRefreshLock(n) PROVE TurnInv'
    BY <1>7
       DEF ReleaseRefreshLock, Fault, Return, Goto, account, provider, desk, TurnInv,
           TypeOK
<1>8. ASSUME NEW n \in Nodes, NodeDies(n) PROVE TurnInv'
    BY <1>8
       DEF NodeDies, Lapse, Fault, Return, Goto, account, provider, desk, TurnInv, TypeOK
<1>9. ASSUME NEW c \in verdicts, RecordFailure(c) PROVE TurnInv'
    BY <1>9 DEF RecordFailure, SetError, provider, attempts, desk, budget, TurnInv, TypeOK
<1>10. ASSUME NEW c \in verdicts, RecordFailureFails(c) PROVE TurnInv'
    BY <1>10
       DEF RecordFailureFails, Fault, account, provider, attempts, desk, TurnInv, TypeOK
<1>11. ASSUME NEW c \in held, PersistProjectID(c) PROVE TurnInv'
    BY <1>11
       DEF PersistProjectID, Lapse, Store, provider, attempts, desk, budget, TurnInv,
           TypeOK
<1>12. ASSUME AdminEdits PROVE TurnInv'
    BY <1>12
       DEF AdminEdits, Lapse, AdminBegins, Underway, account, provider, attempts, TurnInv,
           TypeOK
<1>13. ASSUME AdminRefreshes PROVE TurnInv'
    BY <1>13
       DEF AdminRefreshes, Lapse, AdminBegins, Underway, account, provider, attempts,
           TurnInv, TypeOK
<1>14. ASSUME AdminCallsProvider PROVE TurnInv'
    BY <1>14
       DEF AdminCallsProvider, Lapse, Fault, Rotate, Live, AdminReturns, account,
           attempts, TurnInv, TypeOK
<1>15. ASSUME ApplyOAuthCredentials PROVE TurnInv'
    BY <1>15
       DEF ApplyOAuthCredentials, Lapse, AdminBegins, Underway, account, attempts,
           TurnInv, TypeOK
<1>16. ASSUME UpdateAccount PROVE TurnInv'
    BY <1>16, UpdateAccountIs DEF TurnInv, TypeOK
<1>17. ASSUME ClearErrorAfterLogin PROVE TurnInv'
    BY <1>17
       DEF ClearErrorAfterLogin, Lapse, Fault, AdminReturns, provider, attempts, TurnInv,
           TypeOK
<1>18. ASSUME FillProjectID PROVE TurnInv'
    BY <1>18 DEF FillProjectID, account, provider, attempts, desk, TurnInv, TypeOK
<1>19. ASSUME ProviderRevokes PROVE TurnInv'
    BY <1>19 DEF ProviderRevokes, Lapse, Fault, account, attempts, desk, TurnInv, TypeOK
<1>20. ASSUME NEW n \in Nodes, LockExpiresEarly(n)
      PROVE  UNCHANGED <<creds, live, logins, pc, snap, verdicts, held, put>>
    BY <1>20 DEF LockExpiresEarly, Lapse, Fault, account, provider, attempts, desk
<1>21. ASSUME NEW k \in Keys, LockExpires(k)
      PROVE  UNCHANGED <<creds, live, logins, pc, snap, verdicts, held, put>>
    BY <1>21 DEF LockExpires, account, provider, attempts, desk, budget
<1>22. ASSUME \/ AdminUpdateReads \/ ClearAccountError \/ SetSchedulable
             \/ HandleAuthError \/ AccessTokenAges \/ UNCHANGED vars
      PROVE  UNCHANGED <<creds, live, logins, pc, snap, verdicts, held, put>>
    BY <1>22
       DEF AdminUpdateReads, account, provider, attempts, budget, ClearAccountError, desk,
           SetSchedulable, HandleAuthError, Fault, AccessTokenAges, vars
<1>23. ASSUME UNCHANGED <<creds, live, logins, pc, snap, verdicts, held, put>>
      PROVE  TurnInv'
    BY <1>23 DEF TurnInv
<1> QED
    BY <1>1, <1>2, <1>3, <1>4, <1>5, <1>6, <1>7, <1>8, <1>9, <1>10, <1>11, <1>12, <1>13,
       <1>14, <1>15, <1>16, <1>17, <1>18, <1>19, <1>20, <1>21, <1>22, <1>23
       DEF Next, NodeNext, Attempt, AdminNext

\* What the operator's call is about to write.
LEMMA AdminInvStep ==
    TypeOK /\ TurnInv /\ AdminInv /\ [Next]_vars
    => AdminInv'
<1> SUFFICES ASSUME TypeOK, TurnInv, AdminInv, [Next]_vars
             PROVE  AdminInv'
    OBVIOUS
<1> USE TokenAssumption, FirstIs, LoginsAre, CredentialsAre, RefreshedIs
<1>1. ASSUME NEW n \in Nodes, NEW p \in Paths, NEW k \in Keys, AcquireRefreshLock(n, p, k)
      PROVE  AdminInv'
    BY <1>1
       DEF AcquireRefreshLock, Begin, Goto, Lapse, account, provider, desk, AdminInv,
           Intact, Holding, TypeOK, TurnInv
<1>2. ASSUME NEW n \in Nodes, NEW p \in Paths, NEW k \in Keys, AcquireFails(n, p, k)
      PROVE  AdminInv'
    BY <1>2
       DEF AcquireFails, Begin, Goto, Lapse, Fault, account, provider, desk, AdminInv,
           Intact, Holding, TypeOK, TurnInv
<1>3. ASSUME NEW n \in Nodes, Reread(n) PROVE AdminInv'
    BY <1>3, OperatorAtIs
       DEF Reread, Lapse, Fault, Goto, Eligible, account, provider, desk, AdminInv,
           Intact, Holding, TypeOK, TurnInv
<1>4. ASSUME NEW n \in Nodes, CallProvider(n) PROVE AdminInv'
    BY <1>4
       DEF CallProvider, Lapse, Fault, Goto, Rotate, Live, account, desk, AdminInv,
           Intact, Holding, TypeOK, TurnInv
<1>5. ASSUME NEW n \in Nodes, TryRecoverFromRefreshRace(n) PROVE AdminInv'
    BY <1>5
       DEF TryRecoverFromRefreshRace, Fault, Goto, account, provider, desk, AdminInv,
           Intact, Holding, TypeOK, TurnInv
<1>6. ASSUME NEW n \in Nodes, Persist(n) PROVE AdminInv'
    BY <1>6
       DEF Persist, Lapse, Fault, Goto, UpdateCredentials, Store, provider, desk,
           AdminInv, Intact, Holding, TypeOK, TurnInv
<1>7. ASSUME NEW n \in Nodes, ReleaseRefreshLock(n) PROVE AdminInv'
    BY <1>7
       DEF ReleaseRefreshLock, Fault, Return, Goto, account, provider, desk, AdminInv,
           Intact, Holding, TypeOK, TurnInv
<1>8. ASSUME NEW n \in Nodes, NodeDies(n) PROVE AdminInv'
    BY <1>8
       DEF NodeDies, Lapse, Fault, Return, Goto, account, provider, desk, AdminInv,
           Intact, Holding, TypeOK, TurnInv
<1>9. ASSUME NEW n \in Nodes, LockExpiresEarly(n) PROVE AdminInv'
    BY <1>9
       DEF LockExpiresEarly, Lapse, Fault, account, provider, attempts, desk, AdminInv,
           Intact, Holding, TypeOK, TurnInv
<1>10. ASSUME NEW c \in verdicts, RecordFailure(c) PROVE AdminInv'
    BY <1>10
       DEF RecordFailure, SetError, provider, attempts, desk, budget, AdminInv, Intact,
           Holding, TypeOK, TurnInv
<1>11. ASSUME NEW c \in verdicts, RecordFailureFails(c) PROVE AdminInv'
    BY <1>11
       DEF RecordFailureFails, Fault, account, provider, attempts, desk, AdminInv, Intact,
           Holding, TypeOK, TurnInv
<1>12. ASSUME NEW c \in held, PersistProjectID(c) PROVE AdminInv'
    BY <1>12
       DEF PersistProjectID, Lapse, Store, provider, attempts, desk, budget, AdminInv,
           Intact, Holding, TypeOK, TurnInv
<1>13. ASSUME AdminEdits PROVE AdminInv'
    BY <1>13
       DEF AdminEdits, Lapse, AdminBegins, Underway, account, provider, attempts,
           AdminInv, Intact, Holding, TypeOK, TurnInv
<1>14. ASSUME AdminRefreshes PROVE AdminInv'
    BY <1>14
       DEF AdminRefreshes, Lapse, AdminBegins, Underway, account, provider, attempts,
           AdminInv, Intact, Holding, TypeOK, TurnInv
<1>15. ASSUME AdminCallsProvider PROVE AdminInv'
    BY <1>15
       DEF AdminCallsProvider, Lapse, Fault, Rotate, Live, AdminReturns, account,
           attempts, AdminInv, Intact, Holding, TypeOK, TurnInv
<1>16. ASSUME AdminUpdateReads PROVE AdminInv'
    BY <1>16
       DEF AdminUpdateReads, account, provider, attempts, budget, AdminInv, Intact,
           Holding, TypeOK, TurnInv
<1>17. ASSUME ApplyOAuthCredentials PROVE AdminInv'
    BY <1>17
       DEF ApplyOAuthCredentials, Lapse, AdminBegins, Underway, account, attempts,
           AdminInv, Intact, Holding, TypeOK, TurnInv
<1>18. ASSUME UpdateAccount PROVE AdminInv'
    BY <1>18, UpdateAccountIs DEF AdminInv, Intact, Holding, TypeOK, TurnInv
<1>19. ASSUME ClearErrorAfterLogin PROVE AdminInv'
    BY <1>19
       DEF ClearErrorAfterLogin, Lapse, Fault, AdminReturns, provider, attempts, AdminInv,
           Intact, Holding, TypeOK, TurnInv
<1>20. ASSUME FillProjectID PROVE AdminInv'
    BY <1>20
       DEF FillProjectID, account, provider, attempts, desk, AdminInv, Intact, Holding,
           TypeOK, TurnInv
<1>21. ASSUME ProviderRevokes PROVE AdminInv'
    BY <1>21
       DEF ProviderRevokes, Lapse, Fault, account, attempts, desk, AdminInv, Intact,
           Holding, TypeOK, TurnInv
<1>22. ASSUME NEW k \in Keys, LockExpires(k)
      PROVE  UNCHANGED <<creds, live, logins, pc, snap, verdicts, held, admin, put, lapses>>
    BY <1>22 DEF LockExpires, account, provider, attempts, desk, budget
<1>23. ASSUME \/ ClearAccountError \/ SetSchedulable \/ HandleAuthError \/ AccessTokenAges
             \/ UNCHANGED vars
      PROVE  UNCHANGED <<creds, live, logins, pc, snap, verdicts, held, admin, put, lapses>>
    BY <1>23
       DEF ClearAccountError, provider, attempts, desk, budget, SetSchedulable,
           HandleAuthError, Fault, AccessTokenAges, account, vars
<1>24. ASSUME UNCHANGED <<creds, live, logins, pc, snap, verdicts, held, admin, put, lapses>>
      PROVE  AdminInv'
    BY <1>24 DEF AdminInv, Intact, Holding
<1> QED
    BY <1>1, <1>2, <1>3, <1>4, <1>5, <1>6, <1>7, <1>8, <1>9, <1>10, <1>11, <1>12, <1>13,
       <1>14, <1>15, <1>16, <1>17, <1>18, <1>19, <1>20, <1>21, <1>22, <1>23, <1>24
       DEF Next, NodeNext, Attempt, AdminNext

\* What attempts hold, next to what is stored.
LEMMA LoginInvStep ==
    TypeOK /\ TurnInv /\ AdminInv /\ LoginInv /\ [Next]_vars
    => LoginInv'
<1> SUFFICES ASSUME TypeOK, TurnInv, AdminInv, LoginInv, [Next]_vars
             PROVE  LoginInv'
    OBVIOUS
<1> USE TokenAssumption, FirstIs, LoginsAre, CredentialsAre, RefreshedIs
<1>1. ASSUME NEW n \in Nodes, NEW p \in Paths, NEW k \in Keys, AcquireRefreshLock(n, p, k)
      PROVE  LoginInv'
    BY <1>1
       DEF AcquireRefreshLock, Begin, Goto, Lapse, account, provider, desk, LoginInv,
           Intact, Holding, TypeOK, TurnInv, AdminInv
<1>2. ASSUME NEW n \in Nodes, NEW p \in Paths, NEW k \in Keys, AcquireFails(n, p, k)
      PROVE  LoginInv'
    BY <1>2
       DEF AcquireFails, Begin, Goto, Lapse, Fault, account, provider, desk, LoginInv,
           Intact, Holding, TypeOK, TurnInv, AdminInv
<1>3. ASSUME NEW n \in Nodes, Reread(n) PROVE LoginInv'
  <2>1. CASE Eligible(n) /\ pc' = [pc EXCEPT ![n] = "call"]
             /\ snap' = [snap EXCEPT ![n] = creds] /\ lapses' = lapses \cup OperatorAt
    <3> SUFFICES ASSUME Intact({"writeback", "reauthorized"})' PROVE LoginInv'
        BY DEF LoginInv
    <3>1. Intact({"writeback", "reauthorized"}) /\ admin # "apply"
        BY <2>1, OperatorAtIs DEF Intact
    <3>2. UNCHANGED <<creds, verdicts, admin>>
        BY <1>3 DEF Reread, account, desk
    <3>3. \A m \in Nodes \ {n} : pc'[m] = pc[m] /\ snap'[m] = snap[m]
        BY <2>1 DEF TypeOK
    <3>4. pc'[n] = "call" /\ snap'[n] = creds
        BY <2>1 DEF TypeOK
    <3> QED
        BY <3>1, <3>2, <3>3, <3>4 DEF LoginInv, TypeOK
  <2>2. CASE pc' = [pc EXCEPT ![n] = "unlock"] /\ UNCHANGED <<snap, lapses>>
      BY <1>3, <2>2 DEF Reread, LoginInv, Intact, Holding, TypeOK, account, desk
  <2> QED
      BY <1>3, <2>1, <2>2 DEF Reread, Lapse, Goto
<1>4. ASSUME NEW n \in Nodes, CallProvider(n) PROVE LoginInv'
    BY <1>4
       DEF CallProvider, Lapse, Fault, Goto, Rotate, Live, account, desk, LoginInv,
           Intact, Holding, TypeOK, TurnInv, AdminInv
<1>5. ASSUME NEW n \in Nodes, TryRecoverFromRefreshRace(n) PROVE LoginInv'
    BY <1>5
       DEF TryRecoverFromRefreshRace, Fault, Goto, account, provider, desk, LoginInv,
           Intact, Holding, TypeOK, TurnInv, AdminInv
<1>6. ASSUME NEW n \in Nodes, Persist(n) PROVE LoginInv'
    BY <1>6
       DEF Persist, Lapse, Fault, Goto, UpdateCredentials, Store, provider, desk,
           LoginInv, Intact, Holding, TypeOK, TurnInv, AdminInv
<1>7. ASSUME NEW n \in Nodes, ReleaseRefreshLock(n) PROVE LoginInv'
    BY <1>7
       DEF ReleaseRefreshLock, Fault, Return, Goto, account, provider, desk, LoginInv,
           Intact, Holding, TypeOK, TurnInv, AdminInv
<1>8. ASSUME NEW n \in Nodes, NodeDies(n) PROVE LoginInv'
    BY <1>8
       DEF NodeDies, Lapse, Fault, Return, Goto, account, provider, desk, LoginInv,
           Intact, Holding, TypeOK, TurnInv, AdminInv
<1>9. ASSUME NEW n \in Nodes, LockExpiresEarly(n) PROVE LoginInv'
    BY <1>9
       DEF LockExpiresEarly, Lapse, Fault, account, provider, attempts, desk, LoginInv,
           Intact, Holding, TypeOK, TurnInv, AdminInv
<1>10. ASSUME NEW c \in verdicts, RecordFailure(c) PROVE LoginInv'
    BY <1>10
       DEF RecordFailure, SetError, provider, attempts, desk, budget, LoginInv, Intact,
           Holding, TypeOK, TurnInv, AdminInv
<1>11. ASSUME NEW c \in verdicts, RecordFailureFails(c) PROVE LoginInv'
    BY <1>11
       DEF RecordFailureFails, Fault, account, provider, attempts, desk, LoginInv, Intact,
           Holding, TypeOK, TurnInv, AdminInv
<1>12. ASSUME NEW c \in held, PersistProjectID(c) PROVE LoginInv'
    BY <1>12
       DEF PersistProjectID, Lapse, Store, provider, attempts, desk, budget, LoginInv,
           Intact, Holding, TypeOK, TurnInv, AdminInv
<1>13. ASSUME AdminEdits PROVE LoginInv'
    BY <1>13
       DEF AdminEdits, Lapse, AdminBegins, Underway, account, provider, attempts,
           LoginInv, Intact, Holding, TypeOK, TurnInv, AdminInv
<1>14. ASSUME AdminRefreshes PROVE LoginInv'
    BY <1>14
       DEF AdminRefreshes, Lapse, AdminBegins, Underway, account, provider, attempts,
           LoginInv, Intact, Holding, TypeOK, TurnInv, AdminInv
<1>15. ASSUME AdminCallsProvider PROVE LoginInv'
    BY <1>15
       DEF AdminCallsProvider, Lapse, Fault, Rotate, Live, AdminReturns, account,
           attempts, LoginInv, Intact, Holding, TypeOK, TurnInv, AdminInv
<1>16. ASSUME AdminUpdateReads PROVE LoginInv'
    BY <1>16
       DEF AdminUpdateReads, account, provider, attempts, budget, LoginInv, Intact,
           Holding, TypeOK, TurnInv, AdminInv
<1>17. ASSUME ApplyOAuthCredentials PROVE LoginInv'
    BY <1>17
       DEF ApplyOAuthCredentials, Lapse, AdminBegins, Underway, account, attempts,
           LoginInv, Intact, Holding, TypeOK, TurnInv, AdminInv
<1>18. ASSUME UpdateAccount PROVE LoginInv'
    BY <1>18, UpdateAccountIs DEF LoginInv, Intact, Holding, TypeOK, TurnInv, AdminInv
<1>19. ASSUME ClearErrorAfterLogin PROVE LoginInv'
    BY <1>19
       DEF ClearErrorAfterLogin, Lapse, Fault, AdminReturns, provider, attempts, LoginInv,
           Intact, Holding, TypeOK, TurnInv, AdminInv
<1>20. ASSUME ProviderRevokes PROVE LoginInv'
    BY <1>20
       DEF ProviderRevokes, Lapse, Fault, account, attempts, desk, LoginInv, Intact,
           Holding, TypeOK, TurnInv, AdminInv
<1>21. ASSUME NEW k \in Keys, LockExpires(k)
      PROVE  UNCHANGED <<creds, pc, snap, verdicts, admin, lapses>>
    BY <1>21 DEF LockExpires, account, provider, attempts, desk, budget
<1>22. ASSUME \/ ClearAccountError \/ SetSchedulable \/ FillProjectID \/ HandleAuthError
             \/ AccessTokenAges \/ UNCHANGED vars
      PROVE  UNCHANGED <<creds, pc, snap, verdicts, admin, lapses>>
    BY <1>22
       DEF ClearAccountError, provider, attempts, desk, budget, SetSchedulable,
           FillProjectID, account, HandleAuthError, Fault, AccessTokenAges, vars
<1>23. ASSUME UNCHANGED <<creds, pc, snap, verdicts, admin, lapses>>
      PROVE  LoginInv'
    BY <1>23 DEF LoginInv, Intact, Holding
<1> QED
    BY <1>1, <1>2, <1>3, <1>4, <1>5, <1>6, <1>7, <1>8, <1>9, <1>10, <1>11, <1>12, <1>13,
       <1>14, <1>15, <1>16, <1>17, <1>18, <1>19, <1>20, <1>21, <1>22, <1>23
       DEF Next, NodeNext, Attempt, AdminNext

\* Refused and refreshed attempts.
LEMMA HealthInvStep ==
    TypeOK /\ LockInv /\ TurnInv /\ AdminInv /\ LoginInv /\ HealthInv /\ HealthyNotBroken
    /\ [Next]_vars
    => HealthInv'
<1> SUFFICES ASSUME TypeOK, LockInv, TurnInv, AdminInv, LoginInv, HealthInv,
                    HealthyNotBroken, [Next]_vars
             PROVE  HealthInv'
    OBVIOUS
<1> USE TokenAssumption, FirstIs, LoginsAre, CredentialsAre, RefreshedIs
<1>1. ASSUME NEW n \in Nodes, NEW p \in Paths, NEW k \in Keys, AcquireRefreshLock(n, p, k)
      PROVE  HealthInv'
    BY <1>1
       DEF AcquireRefreshLock, Begin, Goto, Lapse, account, provider, desk, HealthInv,
           Intact, Holding, Blind, Live, TypeOK, LockInv, TurnInv, AdminInv, LoginInv,
           HealthyNotBroken
<1>2. ASSUME NEW n \in Nodes, NEW p \in Paths, NEW k \in Keys, AcquireFails(n, p, k)
      PROVE  HealthInv'
    BY <1>2
       DEF AcquireFails, Begin, Goto, Lapse, Fault, account, provider, desk, HealthInv,
           Intact, Holding, Blind, Live, TypeOK, LockInv, TurnInv, AdminInv, LoginInv,
           HealthyNotBroken
<1>3. ASSUME NEW n \in Nodes, Reread(n) PROVE HealthInv'
    BY <1>3, OperatorAtIs
       DEF Reread, Lapse, Fault, Goto, Eligible, account, provider, desk, HealthInv,
           Intact, Holding, Blind, Live, TypeOK, LockInv, TurnInv, AdminInv, LoginInv,
           HealthyNotBroken
<1>4. ASSUME NEW n \in Nodes, CallProvider(n) PROVE HealthInv'
    BY <1>4
       DEF CallProvider, Lapse, Fault, Goto, Rotate, Live, account, desk, HealthInv,
           Intact, Holding, Blind, TypeOK, LockInv, TurnInv, AdminInv, LoginInv,
           HealthyNotBroken
<1>5. ASSUME NEW n \in Nodes, TryRecoverFromRefreshRace(n) PROVE HealthInv'
    BY <1>5
       DEF TryRecoverFromRefreshRace, Fault, Goto, account, provider, desk, HealthInv,
           Intact, Holding, Blind, Live, TypeOK, LockInv, TurnInv, AdminInv, LoginInv,
           HealthyNotBroken
<1>6. ASSUME NEW n \in Nodes, Persist(n) PROVE HealthInv'
    BY <1>6
       DEF Persist, Lapse, Fault, Goto, UpdateCredentials, Store, provider, desk,
           HealthInv, Intact, Holding, Blind, Live, TypeOK, LockInv, TurnInv, AdminInv,
           LoginInv, HealthyNotBroken
<1>7. ASSUME NEW n \in Nodes, ReleaseRefreshLock(n) PROVE HealthInv'
    BY <1>7
       DEF ReleaseRefreshLock, Fault, Return, Goto, account, provider, desk, HealthInv,
           Intact, Holding, Blind, Live, TypeOK, LockInv, TurnInv, AdminInv, LoginInv,
           HealthyNotBroken
<1>8. ASSUME NEW n \in Nodes, NodeDies(n) PROVE HealthInv'
    BY <1>8
       DEF NodeDies, Lapse, Fault, Return, Goto, account, provider, desk, HealthInv,
           Intact, Holding, Blind, Live, TypeOK, LockInv, TurnInv, AdminInv, LoginInv,
           HealthyNotBroken
<1>9. ASSUME NEW n \in Nodes, LockExpiresEarly(n) PROVE HealthInv'
    BY <1>9
       DEF LockExpiresEarly, Lapse, Fault, account, provider, attempts, desk, HealthInv,
           Intact, Holding, Blind, Live, TypeOK, LockInv, TurnInv, AdminInv, LoginInv,
           HealthyNotBroken
<1>10. ASSUME NEW c \in verdicts, RecordFailure(c) PROVE HealthInv'
    BY <1>10
       DEF RecordFailure, SetError, provider, attempts, desk, budget, HealthInv, Intact,
           Holding, Blind, Live, TypeOK, LockInv, TurnInv, AdminInv, LoginInv,
           HealthyNotBroken
<1>11. ASSUME NEW c \in verdicts, RecordFailureFails(c) PROVE HealthInv'
    BY <1>11
       DEF RecordFailureFails, Fault, account, provider, attempts, desk, HealthInv,
           Intact, Holding, Blind, Live, TypeOK, LockInv, TurnInv, AdminInv, LoginInv,
           HealthyNotBroken
<1>12. ASSUME NEW c \in held, PersistProjectID(c) PROVE HealthInv'
    BY <1>12
       DEF PersistProjectID, Lapse, Store, provider, attempts, desk, budget, HealthInv,
           Intact, Holding, Blind, Live, TypeOK, LockInv, TurnInv, AdminInv, LoginInv,
           HealthyNotBroken
<1>13. ASSUME AdminEdits PROVE HealthInv'
    BY <1>13
       DEF AdminEdits, Lapse, AdminBegins, Underway, account, provider, attempts,
           HealthInv, Intact, Holding, Blind, Live, TypeOK, LockInv, TurnInv, AdminInv,
           LoginInv, HealthyNotBroken
<1>14. ASSUME AdminRefreshes PROVE HealthInv'
    BY <1>14
       DEF AdminRefreshes, Lapse, AdminBegins, Underway, account, provider, attempts,
           HealthInv, Intact, Holding, Blind, Live, TypeOK, LockInv, TurnInv, AdminInv,
           LoginInv, HealthyNotBroken
<1>15. ASSUME AdminCallsProvider PROVE HealthInv'
    BY <1>15
       DEF AdminCallsProvider, Lapse, Fault, Rotate, Live, AdminReturns, account,
           attempts, HealthInv, Intact, Holding, Blind, TypeOK, LockInv, TurnInv,
           AdminInv, LoginInv, HealthyNotBroken
<1>16. ASSUME AdminUpdateReads PROVE HealthInv'
    BY <1>16
       DEF AdminUpdateReads, account, provider, attempts, budget, HealthInv, Intact,
           Holding, Blind, Live, TypeOK, LockInv, TurnInv, AdminInv, LoginInv,
           HealthyNotBroken
<1>17. ASSUME ApplyOAuthCredentials PROVE HealthInv'
    BY <1>17
       DEF ApplyOAuthCredentials, Lapse, AdminBegins, Underway, account, attempts,
           HealthInv, Intact, Holding, Blind, Live, TypeOK, LockInv, TurnInv, AdminInv,
           LoginInv, HealthyNotBroken
<1>18. ASSUME UpdateAccount PROVE HealthInv'
  <2> SUFFICES ASSUME Intact({"overlap", "writeback"})',
                      (Blind => Intact({"reauthorized"}))'
               PROVE  HealthInv'
      BY DEF HealthInv
  <2>1. /\ Intact({"overlap", "writeback"}) /\ (Blind => Intact({"reauthorized"}))
        /\ UNCHANGED <<kind, live, pc, snap, verdicts>>
      BY <1>18, UpdateAccountIs DEF Intact, Blind
  <2>2. CASE creds' = creds /\ status' = status /\ admin' = "idle"
      BY <1>18, <2>1, <2>2, UpdateAccountIs DEF HealthInv, Live, Blind
  <2>3. CASE creds' = put /\ status' = seen /\ admin = "apply"
    <3>1. /\ \A n \in Nodes : creds' # snap[n]
          /\ Blind => verdicts = {} /\ \A n \in Nodes : pc[n] \notin Holding
        BY <2>1, <2>3 DEF AdminInv, LoginInv, Intact, TypeOK, Blind
    <3>2. admin' \in {"clear", "idle"}
        BY <1>18, UpdateAccountIs
    <3> QED
        BY <2>1, <3>1, <3>2 DEF HealthInv, Blind
  <2>4. CASE creds' = put /\ status' = seen /\ admin \in {"write", "save"}
    <3>1. verdicts = {} /\ \A n \in Nodes : pc[n] \notin Holding
        BY <2>1, <2>4 DEF AdminInv, Intact
    <3>2. admin' = "idle"
        BY <1>18, <2>4, UpdateAccountIs
    <3> QED
        BY <2>1, <3>1, <3>2 DEF HealthInv, Holding
  <2> QED
      BY <1>18, <2>2, <2>3, <2>4, UpdateAccountIs
<1>19. ASSUME ClearErrorAfterLogin PROVE HealthInv'
    BY <1>19
       DEF ClearErrorAfterLogin, Lapse, Fault, AdminReturns, provider, attempts,
           HealthInv, Intact, Holding, Blind, Live, TypeOK, LockInv, TurnInv, AdminInv,
           LoginInv, HealthyNotBroken
<1>20. ASSUME ClearAccountError PROVE HealthInv'
    BY <1>20
       DEF ClearAccountError, provider, attempts, desk, budget, HealthInv, Intact,
           Holding, Blind, Live, TypeOK, LockInv, TurnInv, AdminInv, LoginInv,
           HealthyNotBroken
<1>21. ASSUME HandleAuthError PROVE HealthInv'
    BY <1>21
       DEF HandleAuthError, Fault, provider, attempts, desk, HealthInv, Intact, Holding,
           Blind, Live, TypeOK, LockInv, TurnInv, AdminInv, LoginInv, HealthyNotBroken
<1>22. ASSUME ProviderRevokes PROVE HealthInv'
    BY <1>22
       DEF ProviderRevokes, Lapse, Fault, account, attempts, desk, HealthInv, Intact,
           Holding, Blind, Live, TypeOK, LockInv, TurnInv, AdminInv, LoginInv,
           HealthyNotBroken
<1>23. ASSUME NEW k \in Keys, LockExpires(k)
      PROVE  UNCHANGED <<kind, creds, status, live, pc, snap, verdicts, admin, seen, lapses>>
    BY <1>23 DEF LockExpires, account, provider, attempts, desk, budget
<1>24. ASSUME \/ SetSchedulable \/ FillProjectID \/ AccessTokenAges \/ UNCHANGED vars
      PROVE  UNCHANGED <<kind, creds, status, live, pc, snap, verdicts, admin, seen, lapses>>
    BY <1>24
       DEF SetSchedulable, provider, attempts, desk, FillProjectID, account,
           AccessTokenAges, budget, vars
<1>25. ASSUME UNCHANGED <<kind, creds, status, live, pc, snap, verdicts, admin, seen, lapses>>
      PROVE  HealthInv'
    BY <1>25 DEF HealthInv, Intact, Holding, Blind, Live
<1> QED
    BY <1>1, <1>2, <1>3, <1>4, <1>5, <1>6, <1>7, <1>8, <1>9, <1>10, <1>11, <1>12, <1>13,
       <1>14, <1>15, <1>16, <1>17, <1>18, <1>19, <1>20, <1>21, <1>22, <1>23, <1>24, <1>25
       DEF Next, NodeNext, Attempt, AdminNext

\* The newest token is known.
LEMMA LossInvStep ==
    TypeOK /\ LockInv /\ TurnInv /\ AdminInv /\ LossInv /\ OnlyLossBreaks /\ [Next]_vars
    => LossInv'
<1> SUFFICES ASSUME TypeOK, LockInv, TurnInv, AdminInv, LossInv, OnlyLossBreaks,
                    [Next]_vars
             PROVE  LossInv'
    OBVIOUS
<1> USE TokenAssumption, FirstIs, LoginsAre, CredentialsAre, RefreshedIs
<1>1. ASSUME NEW n \in Nodes, NEW p \in Paths, NEW k \in Keys, AcquireRefreshLock(n, p, k)
      PROVE  LossInv'
    BY <1>1
       DEF AcquireRefreshLock, Begin, Goto, Lapse, account, provider, desk, LossInv,
           Intact, Live, TypeOK, LockInv, TurnInv, AdminInv, OnlyLossBreaks, Holding
<1>2. ASSUME NEW n \in Nodes, NEW p \in Paths, NEW k \in Keys, AcquireFails(n, p, k)
      PROVE  LossInv'
    BY <1>2
       DEF AcquireFails, Begin, Goto, Lapse, Fault, account, provider, desk, LossInv,
           Intact, Live, TypeOK, LockInv, TurnInv, AdminInv, OnlyLossBreaks, Holding
<1>3. ASSUME NEW n \in Nodes, Reread(n) PROVE LossInv'
    BY <1>3, OperatorAtIs
       DEF Reread, Lapse, Fault, Goto, Eligible, account, provider, desk, LossInv, Intact,
           Live, TypeOK, LockInv, TurnInv, AdminInv, OnlyLossBreaks, Holding
<1>4. ASSUME NEW n \in Nodes, CallProvider(n) PROVE LossInv'
  <2>1. CASE Rotate(snap[n]) /\ pc' = [pc EXCEPT ![n] = "persist"] /\ UNCHANGED lapses
    <3> SUFFICES ASSUME Intact({"overlap", "lost", "writeback"}) PROVE LossInv'
        BY <2>1 DEF LossInv, Intact
    <3>1. UNCHANGED <<creds, admin, put, seen, snap>>
        BY <1>4 DEF CallProvider, account, desk
    <3>2. \A m \in Nodes \ {n} : pc[m] = "idle" /\ pc'[m] = "idle"
        BY <1>4, <2>1 DEF CallProvider, LockInv, Intact, TypeOK
    <3>3. admin \notin {"write", "call", "update", "save"}
        BY <1>4 DEF CallProvider, AdminInv, Intact, Holding
    <3>4. pc'[n] = "persist" /\ live'[snap[n].login] = snap[n].turn + 1
        BY <2>1 DEF Rotate, Live, TypeOK
    <3>5. Live(creds)' \/ snap[n] = creds
      <4>1. Live(creds)
          BY <1>4, <3>2, <3>3 DEF CallProvider, LossInv, Intact
      <4>2. CASE creds.login = snap[n].login
          BY <2>1, <4>1, <4>2, SameCredentials DEF Rotate, Live, TypeOK
      <4>3. CASE creds.login # snap[n].login
          BY <2>1, <3>1, <4>1, <4>3 DEF Rotate, Live, TypeOK
      <4> QED
          BY <4>2, <4>3
    <3>6. Live(Refreshed(snap[n]))'
        BY <3>1, <3>4 DEF Live, TypeOK
    <3> QED
        BY <3>1, <3>2, <3>3, <3>4, <3>5, <3>6 DEF LossInv, Intact
  <2>2. CASE Lapse({"lost"})
      BY <2>2 DEF Lapse, LossInv, Intact
  <2>3. CASE ~Live(snap[n])
      BY <1>4, <2>3
         DEF CallProvider, LossInv, Intact, Goto, Rotate, Live, TypeOK, account, desk
  <2>4. CASE pc' = [pc EXCEPT ![n] = "unlock"] /\ UNCHANGED <<live, lapses>>
      BY <1>4, <2>4 DEF CallProvider, LossInv, Intact, Live, TypeOK, account, desk
  <2> QED
      BY <1>4, <2>1, <2>2, <2>3, <2>4 DEF CallProvider, Goto
<1>5. ASSUME NEW n \in Nodes, TryRecoverFromRefreshRace(n) PROVE LossInv'
    BY <1>5
       DEF TryRecoverFromRefreshRace, Fault, Goto, account, provider, desk, LossInv,
           Intact, Live, TypeOK, LockInv, TurnInv, AdminInv, OnlyLossBreaks, Holding
<1>6. ASSUME NEW n \in Nodes, Persist(n) PROVE LossInv'
  <2>1. CASE UpdateCredentials(n) /\ UNCHANGED lapses
    <3> SUFFICES ASSUME Intact({"overlap", "lost", "writeback"}) PROVE LossInv'
        BY <2>1 DEF LossInv, Intact
    <3>1. UNCHANGED <<live, admin, put, seen, snap>>
        BY <1>6 DEF Persist, provider, desk
    <3>2. \A m \in Nodes \ {n} : pc[m] = "idle" /\ pc'[m] = "idle"
        BY <1>6 DEF Persist, Goto, LockInv, Intact, TypeOK
    <3>3. admin \notin {"write", "call", "update", "save"} /\ pc'[n] = "unlock"
        BY <1>6 DEF Persist, Goto, AdminInv, Intact, Holding, TypeOK
    <3>4. Live(Refreshed(snap[n]))
        BY <1>6 DEF Persist, LossInv, Intact
    <3>5. Live(creds')
      <4>1. CASE creds' = Refreshed(snap[n])
          BY <3>4, <4>1
      <4>2. CASE creds' = creds /\ creds # snap[n]
          BY <1>6, <3>2, <3>3, <4>2 DEF Persist, LossInv, Intact
      <4> QED
          BY <2>1, <4>1, <4>2 DEF UpdateCredentials, Store
    <3> QED
        BY <3>1, <3>2, <3>3, <3>5 DEF LossInv, Intact, Live
  <2>2. CASE Lapse({"lost"})
      BY <2>2 DEF Lapse, LossInv, Intact
  <2> QED
      BY <1>6, <2>1, <2>2 DEF Persist
<1>7. ASSUME NEW n \in Nodes, ReleaseRefreshLock(n) PROVE LossInv'
    BY <1>7
       DEF ReleaseRefreshLock, Fault, Return, Goto, account, provider, desk, LossInv,
           Intact, Live, TypeOK, LockInv, TurnInv, AdminInv, OnlyLossBreaks, Holding
<1>8. ASSUME NEW n \in Nodes, NodeDies(n) PROVE LossInv'
    BY <1>8
       DEF NodeDies, Lapse, Fault, Return, Goto, account, provider, desk, LossInv, Intact,
           Live, TypeOK, LockInv, TurnInv, AdminInv, OnlyLossBreaks, Holding
<1>9. ASSUME NEW n \in Nodes, LockExpiresEarly(n) PROVE LossInv'
    BY <1>9
       DEF LockExpiresEarly, Lapse, Fault, account, provider, attempts, desk, LossInv,
           Intact, Live, TypeOK, LockInv, TurnInv, AdminInv, OnlyLossBreaks, Holding
<1>10. ASSUME NEW c \in held, PersistProjectID(c) PROVE LossInv'
    BY <1>10
       DEF PersistProjectID, Lapse, Store, provider, attempts, desk, budget, LossInv,
           Intact, Live, TypeOK, LockInv, TurnInv, AdminInv, OnlyLossBreaks, Holding
<1>11. ASSUME AdminEdits PROVE LossInv'
    BY <1>11
       DEF AdminEdits, Lapse, AdminBegins, Underway, account, provider, attempts, LossInv,
           Intact, Live, TypeOK, LockInv, TurnInv, AdminInv, OnlyLossBreaks, Holding
<1>12. ASSUME AdminRefreshes PROVE LossInv'
    BY <1>12
       DEF AdminRefreshes, Lapse, AdminBegins, Underway, account, provider, attempts,
           LossInv, Intact, Live, TypeOK, LockInv, TurnInv, AdminInv, OnlyLossBreaks,
           Holding
<1>13. ASSUME AdminCallsProvider PROVE LossInv'
  <2>1. CASE /\ Rotate(put) /\ admin' = "update" /\ put' = Refreshed(put)
             /\ UNCHANGED <<seen, lapses>>
    <3> SUFFICES ASSUME Intact({"overlap", "lost", "writeback"}) PROVE LossInv'
        BY <2>1 DEF LossInv, Intact
    <3>1. \A n \in Nodes : pc[n] \notin Holding /\ pc'[n] = pc[n]
        BY <1>13 DEF AdminCallsProvider, AdminInv, Intact, attempts
    <3>2. live'[put.login] = put.turn + 1
        BY <2>1 DEF Rotate, Live, TypeOK
    <3>3. Live(put)'
        BY <2>1, <3>2 DEF Live, TypeOK
    <3> QED
        BY <2>1, <3>1, <3>3 DEF LossInv, Intact, Holding
  <2>2. CASE Lapse({"lost"})
      BY <2>2 DEF Lapse, LossInv, Intact
  <2>3. CASE AdminReturns /\ UNCHANGED <<live, lapses>>
      BY <1>13, <2>3
         DEF AdminCallsProvider, AdminReturns, LossInv, Intact, Live, account, attempts
  <2> QED
      BY <1>13, <2>1, <2>2, <2>3 DEF AdminCallsProvider
<1>14. ASSUME AdminUpdateReads PROVE LossInv'
    BY <1>14
       DEF AdminUpdateReads, account, provider, attempts, budget, LossInv, Intact, Live,
           TypeOK, LockInv, TurnInv, AdminInv, OnlyLossBreaks, Holding
<1>15. ASSUME ApplyOAuthCredentials PROVE LossInv'
    BY <1>15
       DEF ApplyOAuthCredentials, Lapse, AdminBegins, Underway, account, attempts,
           LossInv, Intact, Live, TypeOK, LockInv, TurnInv, AdminInv, OnlyLossBreaks,
           Holding
<1>16. ASSUME UpdateAccount PROVE LossInv'
    BY <1>16, UpdateAccountIs
       DEF LossInv, Intact, Live, TypeOK, TurnInv, AdminInv, OnlyLossBreaks, Holding
<1>17. ASSUME ClearErrorAfterLogin PROVE LossInv'
    BY <1>17
       DEF ClearErrorAfterLogin, Lapse, Fault, AdminReturns, provider, attempts, LossInv,
           Intact, Live, TypeOK, LockInv, TurnInv, AdminInv, OnlyLossBreaks, Holding
<1>18. ASSUME ProviderRevokes PROVE LossInv'
    BY <1>18
       DEF ProviderRevokes, Lapse, Fault, account, attempts, desk, LossInv, Intact, Live,
           TypeOK, LockInv, TurnInv, AdminInv, OnlyLossBreaks, Holding
<1>19. ASSUME NEW c \in verdicts,
             \/ RecordFailure(c) \/ RecordFailureFails(c)
      PROVE  UNCHANGED <<creds, live, pc, snap, admin, put, seen, lapses>>
    BY <1>19
       DEF RecordFailure, SetError, provider, attempts, desk, budget, RecordFailureFails,
           Fault, account
<1>20. ASSUME NEW k \in Keys, LockExpires(k)
      PROVE  UNCHANGED <<creds, live, pc, snap, admin, put, seen, lapses>>
    BY <1>20 DEF LockExpires, account, provider, attempts, desk, budget
<1>21. ASSUME \/ ClearAccountError \/ SetSchedulable \/ FillProjectID \/ HandleAuthError
             \/ AccessTokenAges \/ UNCHANGED vars
      PROVE  UNCHANGED <<creds, live, pc, snap, admin, put, seen, lapses>>
    BY <1>21
       DEF ClearAccountError, provider, attempts, desk, budget, SetSchedulable,
           FillProjectID, account, HandleAuthError, Fault, AccessTokenAges, vars
<1>22. ASSUME UNCHANGED <<creds, live, pc, snap, admin, put, seen, lapses>>
      PROVE  LossInv'
    BY <1>22 DEF LossInv, Intact, Live
<1> QED
    BY <1>1, <1>2, <1>3, <1>4, <1>5, <1>6, <1>7, <1>8, <1>9, <1>10, <1>11, <1>12, <1>13,
       <1>14, <1>15, <1>16, <1>17, <1>18, <1>19, <1>20, <1>21, <1>22
       DEF Next, NodeNext, Attempt, AdminNext

\* An account marked as refused is refused by the provider.
LEMMA HealthyStep ==
    TypeOK /\ TurnInv /\ AdminInv /\ HealthInv /\ HealthyNotBroken /\ [Next]_vars
    => HealthyNotBroken'
<1> SUFFICES ASSUME TypeOK, TurnInv, AdminInv, HealthInv, HealthyNotBroken, [Next]_vars
             PROVE  HealthyNotBroken'
    OBVIOUS
<1> USE TokenAssumption, FirstIs, LoginsAre, CredentialsAre, RefreshedIs
<1>1. ASSUME NEW n \in Nodes, NEW p \in Paths, NEW k \in Keys, AcquireRefreshLock(n, p, k)
      PROVE  HealthyNotBroken'
    BY <1>1
       DEF AcquireRefreshLock, Begin, Goto, Lapse, account, provider, desk,
           HealthyNotBroken, Intact, Blind, Live, TypeOK, TurnInv, AdminInv, HealthInv,
           Holding
<1>2. ASSUME NEW n \in Nodes, NEW p \in Paths, NEW k \in Keys, AcquireFails(n, p, k)
      PROVE  HealthyNotBroken'
    BY <1>2
       DEF AcquireFails, Begin, Goto, Lapse, Fault, account, provider, desk,
           HealthyNotBroken, Intact, Blind, Live, TypeOK, TurnInv, AdminInv, HealthInv,
           Holding
<1>3. ASSUME NEW n \in Nodes, Reread(n) PROVE HealthyNotBroken'
    BY <1>3, OperatorAtIs
       DEF Reread, Lapse, Fault, Goto, Eligible, account, provider, desk,
           HealthyNotBroken, Intact, Blind, Live, TypeOK, TurnInv, AdminInv, HealthInv,
           Holding
<1>4. ASSUME NEW n \in Nodes, CallProvider(n) PROVE HealthyNotBroken'
    BY <1>4
       DEF CallProvider, Lapse, Fault, Goto, Rotate, Live, account, desk,
           HealthyNotBroken, Intact, Blind, TypeOK, TurnInv, AdminInv, HealthInv, Holding
<1>5. ASSUME NEW n \in Nodes, Persist(n) PROVE HealthyNotBroken'
    BY <1>5
       DEF Persist, Lapse, Fault, Goto, UpdateCredentials, Store, provider, desk,
           HealthyNotBroken, Intact, Blind, Live, TypeOK, TurnInv, AdminInv, HealthInv,
           Holding
<1>6. ASSUME NEW n \in Nodes, NodeDies(n) PROVE HealthyNotBroken'
    BY <1>6
       DEF NodeDies, Lapse, Fault, Return, Goto, account, provider, desk,
           HealthyNotBroken, Intact, Blind, Live, TypeOK, TurnInv, AdminInv, HealthInv,
           Holding
<1>7. ASSUME NEW n \in Nodes, LockExpiresEarly(n) PROVE HealthyNotBroken'
    BY <1>7
       DEF LockExpiresEarly, Lapse, Fault, account, provider, attempts, desk,
           HealthyNotBroken, Intact, Blind, Live, TypeOK, TurnInv, AdminInv, HealthInv,
           Holding
<1>8. ASSUME NEW c \in verdicts, RecordFailure(c) PROVE HealthyNotBroken'
    BY <1>8
       DEF RecordFailure, SetError, provider, attempts, desk, budget, HealthyNotBroken,
           Intact, Blind, Live, TypeOK, TurnInv, AdminInv, HealthInv, Holding
<1>9. ASSUME NEW c \in held, PersistProjectID(c) PROVE HealthyNotBroken'
    BY <1>9
       DEF PersistProjectID, Lapse, Store, provider, attempts, desk, budget,
           HealthyNotBroken, Intact, Blind, Live, TypeOK, TurnInv, AdminInv, HealthInv,
           Holding
<1>10. ASSUME AdminEdits PROVE HealthyNotBroken'
    BY <1>10
       DEF AdminEdits, Lapse, AdminBegins, Underway, account, provider, attempts,
           HealthyNotBroken, Intact, Blind, Live, TypeOK, TurnInv, AdminInv, HealthInv,
           Holding
<1>11. ASSUME AdminRefreshes PROVE HealthyNotBroken'
    BY <1>11
       DEF AdminRefreshes, Lapse, AdminBegins, Underway, account, provider, attempts,
           HealthyNotBroken, Intact, Blind, Live, TypeOK, TurnInv, AdminInv, HealthInv,
           Holding
<1>12. ASSUME AdminCallsProvider PROVE HealthyNotBroken'
    BY <1>12
       DEF AdminCallsProvider, Lapse, Fault, Rotate, Live, AdminReturns, account,
           attempts, HealthyNotBroken, Intact, Blind, TypeOK, TurnInv, AdminInv,
           HealthInv, Holding
<1>13. ASSUME AdminUpdateReads PROVE HealthyNotBroken'
    BY <1>13
       DEF AdminUpdateReads, account, provider, attempts, budget, HealthyNotBroken,
           Intact, Blind, Live, TypeOK, TurnInv, AdminInv, HealthInv, Holding
<1>14. ASSUME ApplyOAuthCredentials PROVE HealthyNotBroken'
    BY <1>14
       DEF ApplyOAuthCredentials, Lapse, AdminBegins, Underway, account, attempts,
           HealthyNotBroken, Intact, Blind, Live, TypeOK, TurnInv, AdminInv, HealthInv,
           Holding
<1>15. ASSUME UpdateAccount PROVE HealthyNotBroken'
    BY <1>15, UpdateAccountIs
       DEF HealthyNotBroken, Intact, Blind, Live, TypeOK, TurnInv, AdminInv, HealthInv,
           Holding
<1>16. ASSUME ClearErrorAfterLogin PROVE HealthyNotBroken'
    BY <1>16
       DEF ClearErrorAfterLogin, Lapse, Fault, AdminReturns, provider, attempts,
           HealthyNotBroken, Intact, Blind, Live, TypeOK, TurnInv, AdminInv, HealthInv,
           Holding
<1>17. ASSUME ClearAccountError PROVE HealthyNotBroken'
    BY <1>17
       DEF ClearAccountError, provider, attempts, desk, budget, HealthyNotBroken, Intact,
           Blind, Live, TypeOK, TurnInv, AdminInv, HealthInv, Holding
<1>18. ASSUME HandleAuthError PROVE HealthyNotBroken'
    BY <1>18
       DEF HandleAuthError, Fault, provider, attempts, desk, HealthyNotBroken, Intact,
           Blind, Live, TypeOK, TurnInv, AdminInv, HealthInv, Holding
<1>19. ASSUME ProviderRevokes PROVE HealthyNotBroken'
    BY <1>19
       DEF ProviderRevokes, Lapse, Fault, account, attempts, desk, HealthyNotBroken,
           Intact, Blind, Live, TypeOK, TurnInv, AdminInv, HealthInv, Holding
<1>20. ASSUME NEW n \in Nodes,
             \/ TryRecoverFromRefreshRace(n) \/ ReleaseRefreshLock(n)
      PROVE  UNCHANGED <<kind, creds, status, live, admin, lapses>>
    BY <1>20
       DEF TryRecoverFromRefreshRace, Fault, Goto, account, provider, desk,
           ReleaseRefreshLock, Return
<1>21. ASSUME NEW c \in verdicts, RecordFailureFails(c)
      PROVE  UNCHANGED <<kind, creds, status, live, admin, lapses>>
    BY <1>21 DEF RecordFailureFails, Fault, account, provider, attempts, desk
<1>22. ASSUME NEW k \in Keys, LockExpires(k)
      PROVE  UNCHANGED <<kind, creds, status, live, admin, lapses>>
    BY <1>22 DEF LockExpires, account, provider, attempts, desk, budget
<1>23. ASSUME \/ SetSchedulable \/ FillProjectID \/ AccessTokenAges \/ UNCHANGED vars
      PROVE  UNCHANGED <<kind, creds, status, live, admin, lapses>>
    BY <1>23
       DEF SetSchedulable, provider, attempts, desk, FillProjectID, account,
           AccessTokenAges, budget, vars
<1>24. ASSUME UNCHANGED <<kind, creds, status, live, admin, lapses>>
      PROVE  HealthyNotBroken'
    BY <1>24 DEF HealthyNotBroken, Intact, Blind, Live
<1> QED
    BY <1>1, <1>2, <1>3, <1>4, <1>5, <1>6, <1>7, <1>8, <1>9, <1>10, <1>11, <1>12, <1>13,
       <1>14, <1>15, <1>16, <1>17, <1>18, <1>19, <1>20, <1>21, <1>22, <1>23, <1>24
       DEF Next, NodeNext, Attempt, AdminNext

\* Nobody is refused.
LEMMA OnlyLossStep ==
    TypeOK /\ LossInv /\ AdminInv /\ OnlyLossBreaks /\ [Next]_vars
    => OnlyLossBreaks'
<1> SUFFICES ASSUME TypeOK, LossInv, AdminInv, OnlyLossBreaks, [Next]_vars
             PROVE  OnlyLossBreaks'
    OBVIOUS
<1> USE TokenAssumption, FirstIs, LoginsAre, CredentialsAre, RefreshedIs
<1>1. ASSUME NEW n \in Nodes, NEW p \in Paths, NEW k \in Keys, AcquireRefreshLock(n, p, k)
      PROVE  OnlyLossBreaks'
    BY <1>1
       DEF AcquireRefreshLock, Begin, Goto, Lapse, account, provider, desk,
           OnlyLossBreaks, Intact, TypeOK, LossInv, Live, AdminInv
<1>2. ASSUME NEW n \in Nodes, NEW p \in Paths, NEW k \in Keys, AcquireFails(n, p, k)
      PROVE  OnlyLossBreaks'
    BY <1>2
       DEF AcquireFails, Begin, Goto, Lapse, Fault, account, provider, desk,
           OnlyLossBreaks, Intact, TypeOK, LossInv, Live, AdminInv
<1>3. ASSUME NEW n \in Nodes, Reread(n) PROVE OnlyLossBreaks'
    BY <1>3, OperatorAtIs
       DEF Reread, Lapse, Fault, Goto, Eligible, account, provider, desk, OnlyLossBreaks,
           Intact, TypeOK, LossInv, Live, AdminInv
<1>4. ASSUME NEW n \in Nodes, CallProvider(n) PROVE OnlyLossBreaks'
    BY <1>4
       DEF CallProvider, Lapse, Fault, Goto, Rotate, Live, account, desk, OnlyLossBreaks,
           Intact, TypeOK, LossInv, AdminInv
<1>5. ASSUME NEW n \in Nodes, TryRecoverFromRefreshRace(n) PROVE OnlyLossBreaks'
    BY <1>5
       DEF TryRecoverFromRefreshRace, Fault, Goto, account, provider, desk,
           OnlyLossBreaks, Intact, TypeOK, LossInv, Live, AdminInv
<1>6. ASSUME NEW n \in Nodes, Persist(n) PROVE OnlyLossBreaks'
    BY <1>6
       DEF Persist, Lapse, Fault, Goto, UpdateCredentials, Store, provider, desk,
           OnlyLossBreaks, Intact, TypeOK, LossInv, Live, AdminInv
<1>7. ASSUME NEW n \in Nodes, ReleaseRefreshLock(n) PROVE OnlyLossBreaks'
    BY <1>7
       DEF ReleaseRefreshLock, Fault, Return, Goto, account, provider, desk,
           OnlyLossBreaks, Intact, TypeOK, LossInv, Live, AdminInv
<1>8. ASSUME NEW n \in Nodes, NodeDies(n) PROVE OnlyLossBreaks'
    BY <1>8
       DEF NodeDies, Lapse, Fault, Return, Goto, account, provider, desk, OnlyLossBreaks,
           Intact, TypeOK, LossInv, Live, AdminInv
<1>9. ASSUME NEW n \in Nodes, LockExpiresEarly(n) PROVE OnlyLossBreaks'
    BY <1>9
       DEF LockExpiresEarly, Lapse, Fault, account, provider, attempts, desk,
           OnlyLossBreaks, Intact, TypeOK, LossInv, Live, AdminInv
<1>10. ASSUME NEW c \in verdicts, RecordFailure(c) PROVE OnlyLossBreaks'
    BY <1>10
       DEF RecordFailure, SetError, provider, attempts, desk, budget, OnlyLossBreaks,
           Intact, TypeOK, LossInv, Live, AdminInv
<1>11. ASSUME NEW c \in verdicts, RecordFailureFails(c) PROVE OnlyLossBreaks'
    BY <1>11
       DEF RecordFailureFails, Fault, account, provider, attempts, desk, OnlyLossBreaks,
           Intact, TypeOK, LossInv, Live, AdminInv
<1>12. ASSUME NEW c \in held, PersistProjectID(c) PROVE OnlyLossBreaks'
    BY <1>12
       DEF PersistProjectID, Lapse, Store, provider, attempts, desk, budget,
           OnlyLossBreaks, Intact, TypeOK, LossInv, Live, AdminInv
<1>13. ASSUME AdminEdits PROVE OnlyLossBreaks'
    BY <1>13
       DEF AdminEdits, Lapse, AdminBegins, Underway, account, provider, attempts,
           OnlyLossBreaks, Intact, TypeOK, LossInv, Live, AdminInv
<1>14. ASSUME AdminRefreshes PROVE OnlyLossBreaks'
    BY <1>14
       DEF AdminRefreshes, Lapse, AdminBegins, Underway, account, provider, attempts,
           OnlyLossBreaks, Intact, TypeOK, LossInv, Live, AdminInv
<1>15. ASSUME AdminCallsProvider PROVE OnlyLossBreaks'
    BY <1>15
       DEF AdminCallsProvider, Lapse, Fault, Rotate, Live, AdminReturns, account,
           attempts, OnlyLossBreaks, Intact, TypeOK, LossInv, AdminInv
<1>16. ASSUME ApplyOAuthCredentials PROVE OnlyLossBreaks'
    BY <1>16
       DEF ApplyOAuthCredentials, Lapse, AdminBegins, Underway, account, attempts,
           OnlyLossBreaks, Intact, TypeOK, LossInv, Live, AdminInv
<1>17. ASSUME UpdateAccount PROVE OnlyLossBreaks'
    BY <1>17, UpdateAccountIs DEF OnlyLossBreaks, Intact, TypeOK, LossInv, Live, AdminInv
<1>18. ASSUME ClearErrorAfterLogin PROVE OnlyLossBreaks'
    BY <1>18
       DEF ClearErrorAfterLogin, Lapse, Fault, AdminReturns, provider, attempts,
           OnlyLossBreaks, Intact, TypeOK, LossInv, Live, AdminInv
<1>19. ASSUME ClearAccountError PROVE OnlyLossBreaks'
    BY <1>19
       DEF ClearAccountError, provider, attempts, desk, budget, OnlyLossBreaks, Intact,
           TypeOK, LossInv, Live, AdminInv
<1>20. ASSUME HandleAuthError PROVE OnlyLossBreaks'
    BY <1>20
       DEF HandleAuthError, Fault, provider, attempts, desk, OnlyLossBreaks, Intact,
           TypeOK, LossInv, Live, AdminInv
<1>21. ASSUME ProviderRevokes PROVE OnlyLossBreaks'
    BY <1>21
       DEF ProviderRevokes, Lapse, Fault, account, attempts, desk, OnlyLossBreaks, Intact,
           TypeOK, LossInv, Live, AdminInv
<1>22. ASSUME NEW k \in Keys, LockExpires(k)
      PROVE  UNCHANGED <<status, pc, verdicts, lapses>>
    BY <1>22 DEF LockExpires, account, provider, attempts, desk, budget
<1>23. ASSUME \/ AdminUpdateReads \/ SetSchedulable \/ FillProjectID \/ AccessTokenAges
             \/ UNCHANGED vars
      PROVE  UNCHANGED <<status, pc, verdicts, lapses>>
    BY <1>23
       DEF AdminUpdateReads, account, provider, attempts, budget, SetSchedulable, desk,
           FillProjectID, AccessTokenAges, vars
<1>24. ASSUME UNCHANGED <<status, pc, verdicts, lapses>>
      PROVE  OnlyLossBreaks'
    BY <1>24 DEF OnlyLossBreaks, Intact
<1> QED
    BY <1>1, <1>2, <1>3, <1>4, <1>5, <1>6, <1>7, <1>8, <1>9, <1>10, <1>11, <1>12, <1>13,
       <1>14, <1>15, <1>16, <1>17, <1>18, <1>19, <1>20, <1>21, <1>22, <1>23, <1>24
       DEF Next, NodeNext, Attempt, AdminNext

\* A step that stores older credentials.
LEMMA NewestStep ==
    ASSUME TypeOK, TurnInv, AdminInv, LoginInv, [Next]_vars,
           Intact({"writeback"})', (Blind => Intact({"reauthorized"}))'
    PROVE  Newer(creds', creds)
<1> USE TokenAssumption, FirstIs, LoginsAre, CredentialsAre, RefreshedIs
<1>1. ASSUME NEW n \in Nodes, Persist(n) PROVE Newer(creds', creds)
    BY <1>1
       DEF Persist, Lapse, Fault, Goto, UpdateCredentials, Store, provider, desk, Newer,
           Intact, Blind, TypeOK, TurnInv, AdminInv, LoginInv, Holding
<1>2. ASSUME NEW c \in held, PersistProjectID(c) PROVE Newer(creds', creds)
    BY <1>2
       DEF PersistProjectID, Lapse, Store, provider, attempts, desk, budget, Newer,
           Intact, Blind, TypeOK, TurnInv, AdminInv, LoginInv, Holding
<1>3. ASSUME UpdateAccount PROVE Newer(creds', creds)
    BY <1>3, UpdateAccountIs DEF Newer, Intact, Blind, TypeOK, TurnInv, AdminInv
<1>4. ASSUME NEW n \in Nodes, NEW p \in Paths, NEW k \in Keys,
             \/ AcquireRefreshLock(n, p, k) \/ AcquireFails(n, p, k)
      PROVE  UNCHANGED <<creds>>
    BY <1>4
       DEF AcquireRefreshLock, Begin, Goto, Lapse, account, provider, desk, AcquireFails,
           Fault
<1>5. ASSUME NEW n \in Nodes,
             \/ Reread(n) \/ CallProvider(n) \/ TryRecoverFromRefreshRace(n)
             \/ ReleaseRefreshLock(n) \/ NodeDies(n) \/ LockExpiresEarly(n)
      PROVE  UNCHANGED <<creds>>
    BY <1>5
       DEF Reread, Lapse, Fault, Goto, Eligible, account, provider, desk, CallProvider,
           Rotate, Live, TryRecoverFromRefreshRace, ReleaseRefreshLock, Return, NodeDies,
           LockExpiresEarly, attempts
<1>6. ASSUME NEW c \in verdicts,
             \/ RecordFailure(c) \/ RecordFailureFails(c)
      PROVE  UNCHANGED <<creds>>
    BY <1>6
       DEF RecordFailure, SetError, provider, attempts, desk, budget, RecordFailureFails,
           Fault, account
<1>7. ASSUME NEW k \in Keys, LockExpires(k)
      PROVE  UNCHANGED <<creds>>
    BY <1>7 DEF LockExpires, account, provider, attempts, desk, budget
<1>8. ASSUME \/ AdminEdits \/ AdminRefreshes \/ AdminCallsProvider \/ AdminUpdateReads
             \/ ApplyOAuthCredentials \/ ClearErrorAfterLogin \/ ClearAccountError
             \/ SetSchedulable \/ FillProjectID \/ HandleAuthError \/ ProviderRevokes
             \/ AccessTokenAges \/ UNCHANGED vars
      PROVE  UNCHANGED <<creds>>
    BY <1>8
       DEF AdminEdits, Lapse, AdminBegins, Underway, account, provider, attempts,
           AdminRefreshes, AdminCallsProvider, Fault, Rotate, Live, AdminReturns,
           AdminUpdateReads, budget, ApplyOAuthCredentials, ClearErrorAfterLogin,
           ClearAccountError, desk, SetSchedulable, FillProjectID, HandleAuthError,
           ProviderRevokes, AccessTokenAges, vars
<1>9. ASSUME UNCHANGED <<creds>>
      PROVE  Newer(creds', creds)
    BY <1>9 DEF Newer, Intact, Blind, TypeOK
<1> QED
    BY <1>1, <1>2, <1>3, <1>4, <1>5, <1>6, <1>7, <1>8, <1>9
       DEF Next, NodeNext, Attempt, AdminNext

\* The first state satisfies every part of the invariant.
LEMMA TokenInvInit == Init => TokenInv
<1> SUFFICES ASSUME Init PROVE TokenInv
    OBVIOUS
<1> USE TokenAssumption, FirstIs DEF Init
<1>1. TypeOK
    BY DEF TypeOK, Credentials, Logins, Paths, Keys, Kinds, Statuses, Labels, AdminLabels
<1>2. LockInv /\ AdminInv /\ OnlyLossBreaks /\ HealthyNotBroken
    BY DEF LockInv, AdminInv, OnlyLossBreaks, HealthyNotBroken
<1>3. TurnInv
    BY DEF TurnInv, Logins
<1>4. LoginInv /\ HealthInv
    BY DEF LoginInv, HealthInv, Holding
<1>5. LossInv
    BY DEF LossInv, Live, Logins
<1> QED
    BY <1>1, <1>2, <1>3, <1>4, <1>5 DEF TokenInv

\* Every step keeps the invariant.
LEMMA TokenInvStep == TokenInv /\ [Next]_vars => TokenInv'
BY TypeOKStep, LockInvStep, TurnInvStep, AdminInvStep, LoginInvStep, HealthInvStep,
   LossInvStep, HealthyStep, OnlyLossStep
   DEF TokenInv

\* Nodes, operator and provider keep the invariant, whatever fails.
THEOREM TokenInvHolds == Spec => []TokenInv
BY TokenInvInit, TokenInvStep, PTL DEF Spec

\* An account whose refresh token is said to be refused has one that the provider
\* refuses, as long as attempts exclude each other, whoever else sets or clears errors.
THEOREM HealthyNotBrokenHolds == Spec => []HealthyNotBroken
<1>1. TokenInv => HealthyNotBroken
    BY DEF TokenInv
<1> QED
    BY <1>1, TokenInvHolds, PTL

\* A refresh token is not spent twice while one lock keeps attempts apart, nothing is
\* lost and nothing stale is written back.
THEOREM OnlyLossBreaksHolds == Spec => []OnlyLossBreaks
<1>1. TokenInv => OnlyLossBreaks
    BY DEF TokenInv
<1> QED
    BY <1>1, TokenInvHolds, PTL

\* The stored credentials never go back, however attempts overlap, unless an edit, a
\* write-back or, without conditional updates, a new login comes in between.
THEOREM NewestKeptHolds == Spec => NewestKept
<1>1. TokenInv /\ [Next]_vars =>
        [(Intact({"writeback"}) /\ (Blind => Intact({"reauthorized"})))'
           => Newer(creds', creds)]_vars
    BY NewestStep DEF TokenInv
<1> QED
    BY <1>1, TokenInvHolds, PTL DEF Spec, NewestKept

=============================================================================
