-------------------------- MODULE AuthStorageProofs --------------------------
(***************************************************************************)
(* A theorem about AuthStorage, for any number of processes, requests,     *)
(* tokens and crashes: nothing is lost from the file of credentials. The   *)
(* inductive invariant IInv says who has the lock, what a request under    *)
(* the lock has read, and what caches and requests know of the file.       *)
(***************************************************************************)
EXTENDS AuthStorage, FiniteSetTheorems, TLAPS

InSection == {"refreshing", "refreshed", "releasing", "failing"}

\* Who works under the lock has it.
HoldersLock == \A r \in Request : pc[r] \in InSection => lock = r

\* A change is asked for by who has begun one, and a refresh belongs to a resolve.
GoalsBegin ==
  \A r \in Request : pc[r] \in {"idle", "reading", "refreshing", "refreshed", "failing"} => goal[r] = "resolve"

\* The edits that wait for the lock.
Waiting == {r \in Request : pc[r] = "locking" /\ goal[r] = "edit"}
EditsCount == IsFiniteSet(Waiting) /\ Cardinality(Waiting) + edited <= changes

\* What is refreshed is what the file holds, and nobody else writes it meanwhile.
RefreshesFile ==
  \A r \in Request :
    /\ pc[r] = "refreshing" => using[r] = file
    /\ pc[r] = "refreshed" => using[r].edits = file.edits /\ using[r].token \in alive

\* The token of a login that waits for the lock.
Login(r) == pc[r] = "locking" /\ goal[r] = "login"

\* It is alive, is not in the file yet, and nobody else brings it there.
LoginsAreFresh ==
  \A r \in Request : Login(r) =>
    /\ using[r].token \in alive /\ using[r].token # 0 /\ using[r].token # file.token
    /\ \A q \in Request : q # r /\ (Login(q) \/ pc[q] = "refreshed") => using[q].token # using[r].token

TokensAreIssued ==
  /\ file.token \in 0..issued /\ alive \subseteq 1..issued
  /\ \A r \in Request : using[r].token \in 0..issued

IInv ==
  /\ TypeOK /\ HoldersLock /\ GoalsBegin /\ EditsCount
  /\ RefreshesFile /\ LoginsAreFresh /\ TokensAreIssued /\ NothingIsLost

-----------------------------------------------------------------------------
(* Counting.                                                                *)

LEMMA CountGrows ==
  ASSUME NEW S, NEW x, x \notin S, NEW n \in Nat, NEW m \in Nat,
         IsFiniteSet(S), Cardinality(S) + n <= m
  PROVE  IsFiniteSet(S \cup {x}) /\ Cardinality(S \cup {x}) + n <= m + 1
<1>1. IsFiniteSet(S \cup {x}) /\ Cardinality(S \cup {x}) = Cardinality(S) + 1
  BY FS_AddElement
<1>2. Cardinality(S) \in Nat
  BY FS_CardinalityType
<1> QED
  BY <1>1, <1>2

LEMMA CountShrinks ==
  ASSUME NEW S, NEW T \in SUBSET S, NEW n \in Nat, NEW m \in Nat,
         IsFiniteSet(S), Cardinality(S) + n <= m
  PROVE  IsFiniteSet(T) /\ Cardinality(T) + n <= m
<1>1. IsFiniteSet(T) /\ Cardinality(T) <= Cardinality(S)
  BY FS_Subset
<1>2. Cardinality(S) \in Nat /\ Cardinality(T) \in Nat
  BY <1>1, FS_CardinalityType
<1> QED
  BY <1>1, <1>2

LEMMA CountMoves ==
  ASSUME NEW S, NEW x \in S, NEW n \in Nat, NEW m \in Nat,
         IsFiniteSet(S), Cardinality(S) + n <= m
  PROVE  IsFiniteSet(S \ {x}) /\ Cardinality(S \ {x}) + n + 1 <= m /\ n + 1 <= m
<1>1. IsFiniteSet(S \ {x}) /\ Cardinality(S \ {x}) = Cardinality(S) - 1
  BY FS_RemoveElement
<1>2. Cardinality(S) \in Nat /\ Cardinality(S \ {x}) \in Nat
  BY <1>1, FS_CardinalityType
<1> QED
  BY <1>1, <1>2

\* What the file and the hands of a request hold, with one part replaced.
LEMMA Replaced ==
  ASSUME NEW d \in Data
  PROVE  /\ d.token \in 0..MaxTokens /\ d.edits \in 0..MaxChanges
         /\ \A t \in 0..MaxTokens :
              LET new == [d EXCEPT !.token = t] IN new \in Data /\ new.token = t /\ new.edits = d.edits
         /\ \A n \in 0..MaxChanges :
              LET new == [d EXCEPT !.edits = n] IN new \in Data /\ new.token = d.token /\ new.edits = n
BY DEF Data

-----------------------------------------------------------------------------
(* Every step keeps the invariant.                                          *)

\* What the invariant speaks of, but for the lock.
Untouched == UNCHANGED <<pc, goal, using, file, issued, alive, edited, dropped, changes>>

LEMMA UntouchedKeeps ==
  ASSUME IInv, TypeOK', Untouched, lock' = lock \/ lock \notin Request
  PROVE  IInv'
BY DEF IInv, HoldersLock, InSection, GoalsBegin, EditsCount, Waiting, RefreshesFile, LoginsAreFresh,
       Login, TokensAreIssued, NothingIsLost, Untouched

LEMMA ResolveKeeps ==
  ASSUME IInv, NEW r \in Request, Resolve(r)
  PROVE  IInv'
<1>1. TypeOK'
  BY AuthAssumption DEF IInv, TypeOK, Data, Resolve, ExpiresSoon, cacheVars, providerVars,
     historyVars, boundVars
<1>2. HoldersLock'
  BY AuthAssumption DEF IInv, TypeOK, HoldersLock, InSection, Resolve, ExpiresSoon
<1>3. GoalsBegin'
  BY DEF IInv, TypeOK, GoalsBegin, Resolve, ExpiresSoon
<1>4. EditsCount'
  <2>1. Waiting' = Waiting
    BY DEF IInv, TypeOK, GoalsBegin, Waiting, Resolve, ExpiresSoon
  <2>2. edited' = edited /\ changes' = changes
    BY DEF Resolve, ExpiresSoon, historyVars, boundVars
  <2> QED
    BY <2>1, <2>2 DEF IInv, EditsCount
<1>5. RefreshesFile'
  BY AuthAssumption DEF IInv, TypeOK, Data, HoldersLock, InSection, RefreshesFile, Resolve,
     ExpiresSoon, providerVars
<1>6. LoginsAreFresh'
  BY AuthAssumption DEF IInv, TypeOK, Data, HoldersLock, InSection, GoalsBegin, RefreshesFile,
     LoginsAreFresh, Login, TokensAreIssued, Resolve, ExpiresSoon, providerVars
<1>7. TokensAreIssued'
  BY AuthAssumption DEF IInv, TypeOK, Data, RefreshesFile, TokensAreIssued, Resolve, ExpiresSoon,
     providerVars
<1>8. NothingIsLost'
  BY AuthAssumption DEF IInv, TypeOK, Data, HoldersLock, InSection, GoalsBegin, RefreshesFile,
     LoginsAreFresh, Login, NothingIsLost, Resolve, ExpiresSoon, providerVars, historyVars
<1> QED
  BY <1>1, <1>2, <1>3, <1>4, <1>5, <1>6, <1>7, <1>8 DEF IInv

LEMMA ReloadLocksKeeps ==
  ASSUME IInv, NEW p \in Process, ReloadLocks(p)
  PROVE  IInv'
<1>1. TypeOK'
  BY AuthAssumption DEF IInv, TypeOK, ReloadLocks, requestVars, providerVars, historyVars, boundVars
<1>2. Untouched /\ (lock' = lock \/ lock \notin Request)
  BY AuthAssumption DEF Untouched, ReloadLocks, requestVars, providerVars, historyVars, boundVars
<1> QED
  BY <1>1, <1>2, UntouchedKeeps

LEMMA ReloadEndsKeeps ==
  ASSUME IInv, NEW p \in Process, ReloadEnds(p)
  PROVE  IInv'
<1>1. TypeOK'
  <2>1. pc' \in [Request -> {"idle", "reading", "locking", "refreshing", "refreshed", "releasing",
                           "failing", "released"}]
    BY DEF IInv, TypeOK, ReloadEnds, AfterRead
  <2>2. fetched' \in [Process -> Data]
    BY AuthAssumption DEF IInv, TypeOK, Data, Empty, ReloadEnds
  <2> QED
    BY <2>1, <2>2 DEF IInv, TypeOK, ReloadEnds, ReloadReleases, cacheVars, providerVars, historyVars, boundVars
<1>2. HoldersLock'
  BY AuthAssumption DEF IInv, TypeOK, HoldersLock, InSection, ReloadEnds, ReloadReleases, Readers, AfterRead,
     ExpiresSoon
<1>3. GoalsBegin'
  BY DEF IInv, TypeOK, GoalsBegin, ReloadEnds, Readers, AfterRead, ExpiresSoon
<1>4. EditsCount'
  <2>1. Waiting' = Waiting
    BY DEF IInv, TypeOK, GoalsBegin, Waiting, ReloadEnds, Readers, AfterRead, ExpiresSoon
  <2>2. edited' = edited /\ changes' = changes
    BY DEF ReloadEnds, Readers, AfterRead, ExpiresSoon, historyVars, boundVars
  <2> QED
    BY <2>1, <2>2 DEF IInv, EditsCount
<1>5. RefreshesFile'
  BY AuthAssumption DEF IInv, TypeOK, Data, Empty, HoldersLock, InSection, RefreshesFile, ReloadEnds,
     Readers, AfterRead, ExpiresSoon, providerVars
<1>6. LoginsAreFresh'
  BY AuthAssumption DEF IInv, TypeOK, Data, Empty, HoldersLock, InSection, GoalsBegin, RefreshesFile,
     LoginsAreFresh, Login, TokensAreIssued, ReloadEnds, Readers, AfterRead, ExpiresSoon, providerVars
<1>7. TokensAreIssued'
  BY AuthAssumption DEF IInv, TypeOK, Data, Empty, RefreshesFile, TokensAreIssued, ReloadEnds,
     Readers, AfterRead, ExpiresSoon, providerVars
<1>8. NothingIsLost'
  BY AuthAssumption DEF IInv, TypeOK, Data, Empty, HoldersLock, InSection, GoalsBegin, RefreshesFile,
     LoginsAreFresh, Login, NothingIsLost, ReloadEnds, Readers, AfterRead, ExpiresSoon, providerVars,
     historyVars
<1> QED
  BY <1>1, <1>2, <1>3, <1>4, <1>5, <1>6, <1>7, <1>8 DEF IInv

LEMMA ReloadFailsKeeps ==
  ASSUME IInv, NEW p \in Process, ReloadFails(p)
  PROVE  IInv'
<1>1. TypeOK'
  BY AuthAssumption DEF IInv, TypeOK, Data, ReloadFails, Readers, cacheVars, providerVars,
     historyVars, boundVars
<1>2. HoldersLock'
  BY AuthAssumption DEF IInv, TypeOK, HoldersLock, InSection, ReloadFails, Readers
<1>3. GoalsBegin'
  BY DEF IInv, TypeOK, GoalsBegin, ReloadFails, Readers
<1>4. EditsCount'
  <2>1. Waiting' = Waiting
    BY DEF IInv, TypeOK, GoalsBegin, Waiting, ReloadFails, Readers
  <2>2. edited' = edited /\ changes' = changes
    BY DEF ReloadFails, Readers, historyVars, boundVars
  <2> QED
    BY <2>1, <2>2 DEF IInv, EditsCount
<1>5. RefreshesFile'
  BY AuthAssumption DEF IInv, TypeOK, Data, HoldersLock, InSection, RefreshesFile, ReloadFails,
     Readers, providerVars
<1>6. LoginsAreFresh'
  BY AuthAssumption DEF IInv, TypeOK, Data, HoldersLock, InSection, GoalsBegin, RefreshesFile,
     LoginsAreFresh, Login, TokensAreIssued, ReloadFails, Readers, providerVars
<1>7. TokensAreIssued'
  BY AuthAssumption DEF IInv, TypeOK, Data, RefreshesFile, TokensAreIssued, ReloadFails, Readers,
     providerVars
<1>8. NothingIsLost'
  BY AuthAssumption DEF IInv, TypeOK, Data, HoldersLock, InSection, GoalsBegin, RefreshesFile,
     LoginsAreFresh, Login, NothingIsLost, ReloadFails, Readers, providerVars, historyVars
<1> QED
  BY <1>1, <1>2, <1>3, <1>4, <1>5, <1>6, <1>7, <1>8 DEF IInv

LEMMA CreateKeeps ==
  ASSUME IInv, ~SlowRefresh, NEW p \in Process, Create(p)
  PROVE  IInv'
<1>1. TypeOK'
  BY AuthAssumption DEF IInv, TypeOK, Create, Robbed, requestVars, reloadVars, providerVars, historyVars, boundVars
<1>2. Untouched /\ (lock' = lock \/ lock \notin Request)
  BY AuthAssumption DEF Untouched, Create, Robbed, requestVars, providerVars, historyVars, boundVars
<1> QED
  BY <1>1, <1>2, UntouchedKeeps

LEMMA StartKeeps ==
  ASSUME IInv, NEW r \in Request, Start(r)
  PROVE  IInv'
<1>1. CASE goal' = [goal EXCEPT ![r] = "login"]
  <2>1. TypeOK'
    <3>1. using' \in [Request -> Data]
      <4>1. issued + 1 \in 0..MaxTokens
        BY <1>1, AuthAssumption DEF IInv, TypeOK, Start
      <4> QED
        BY <4>1, <1>1, Replaced DEF IInv, TypeOK, Start
    <3> QED
      BY <3>1, <1>1, AuthAssumption DEF IInv, TypeOK, Start, reloadVars, cacheVars, historyVars
  <2>2. HoldersLock'
    BY <1>1, AuthAssumption DEF IInv, TypeOK, HoldersLock, InSection, Start
  <2>3. GoalsBegin'
    BY <1>1 DEF IInv, TypeOK, GoalsBegin, Start
  <2>4. EditsCount'
    <3>1. Waiting' = Waiting
      BY <1>1 DEF IInv, TypeOK, GoalsBegin, Waiting, Start
    <3>2. edited' = edited /\ changes' = changes + 1
      BY DEF Start, historyVars
    <3> QED
      BY <3>1, <3>2, FS_CardinalityType, AuthAssumption DEF IInv, TypeOK, EditsCount
  <2>5. RefreshesFile'
    BY <1>1, AuthAssumption DEF IInv, TypeOK, Data, HoldersLock, InSection, RefreshesFile, Start
  <2>6. LoginsAreFresh'
    BY <1>1, AuthAssumption DEF IInv, TypeOK, Data, HoldersLock, InSection, GoalsBegin, RefreshesFile,
       LoginsAreFresh, Login, TokensAreIssued, Start
  <2>7. TokensAreIssued'
    <3>1. issued \in Nat /\ issued' = issued + 1 /\ file' = file
      BY <1>1, AuthAssumption DEF IInv, TypeOK, Start
    <3>2. \A q \in Request : using'[q].token \in {using[q].token, issued + 1}
      BY <1>1 DEF IInv, TypeOK, Data, Start
    <3>3. alive' \subseteq alive \cup {issued + 1}
      BY <1>1 DEF Start
    <3> QED
      BY <3>1, <3>2, <3>3 DEF IInv, TokensAreIssued
  <2>8. NothingIsLost'
    BY <1>1, AuthAssumption DEF IInv, TypeOK, Data, HoldersLock, InSection, GoalsBegin, RefreshesFile,
       LoginsAreFresh, Login, NothingIsLost, Start, historyVars
  <2> QED
    BY <2>1, <2>2, <2>3, <2>4, <2>5, <2>6, <2>7, <2>8 DEF IInv
<1>2. CASE goal' = [goal EXCEPT ![r] = "logout"] /\ UNCHANGED <<issued, alive, using>>
  <2>1. TypeOK'
    BY <1>2, AuthAssumption DEF IInv, TypeOK, Start, reloadVars, cacheVars, historyVars
  <2>2. HoldersLock'
    BY <1>2, AuthAssumption DEF IInv, TypeOK, HoldersLock, InSection, Start
  <2>3. GoalsBegin'
    BY <1>2 DEF IInv, TypeOK, GoalsBegin, Start
  <2>4. EditsCount'
    <3>1. Waiting' = Waiting
      BY <1>2 DEF IInv, TypeOK, GoalsBegin, Waiting, Start
    <3>2. edited' = edited /\ changes' = changes + 1
      BY DEF Start, historyVars
    <3> QED
      BY <3>1, <3>2, FS_CardinalityType, AuthAssumption DEF IInv, TypeOK, EditsCount
  <2>5. RefreshesFile'
    BY <1>2, AuthAssumption DEF IInv, TypeOK, Data, HoldersLock, InSection, RefreshesFile, Start
  <2>6. LoginsAreFresh'
    BY <1>2, AuthAssumption DEF IInv, TypeOK, Data, HoldersLock, InSection, GoalsBegin, RefreshesFile,
       LoginsAreFresh, Login, TokensAreIssued, Start
  <2>7. TokensAreIssued'
    BY <1>2, AuthAssumption DEF IInv, TypeOK, Data, RefreshesFile, TokensAreIssued, Start
  <2>8. NothingIsLost'
    BY <1>2, AuthAssumption DEF IInv, TypeOK, Data, HoldersLock, InSection, GoalsBegin, RefreshesFile,
       LoginsAreFresh, Login, NothingIsLost, Start, historyVars
  <2> QED
    BY <2>1, <2>2, <2>3, <2>4, <2>5, <2>6, <2>7, <2>8 DEF IInv
<1>3. CASE goal' = [goal EXCEPT ![r] = "edit"] /\ UNCHANGED <<issued, alive, using>>
  <2>1. TypeOK'
    BY <1>3, AuthAssumption DEF IInv, TypeOK, Start, reloadVars, cacheVars, historyVars
  <2>2. HoldersLock'
    BY <1>3, AuthAssumption DEF IInv, TypeOK, HoldersLock, InSection, Start
  <2>3. GoalsBegin'
    BY <1>3 DEF IInv, TypeOK, GoalsBegin, Start
  <2>4. EditsCount'
    <3>1. Waiting' = Waiting \cup {r} /\ r \notin Waiting
      BY <1>3 DEF IInv, TypeOK, GoalsBegin, Waiting, Start
    <3>2. edited' = edited /\ changes' = changes + 1
      BY DEF Start, historyVars
    <3> QED
      BY <3>1, <3>2, CountGrows, AuthAssumption DEF IInv, TypeOK, EditsCount
  <2>5. RefreshesFile'
    BY <1>3, AuthAssumption DEF IInv, TypeOK, Data, HoldersLock, InSection, RefreshesFile, Start
  <2>6. LoginsAreFresh'
    BY <1>3, AuthAssumption DEF IInv, TypeOK, Data, HoldersLock, InSection, GoalsBegin, RefreshesFile,
       LoginsAreFresh, Login, TokensAreIssued, Start
  <2>7. TokensAreIssued'
    BY <1>3, AuthAssumption DEF IInv, TypeOK, Data, RefreshesFile, TokensAreIssued, Start
  <2>8. NothingIsLost'
    BY <1>3, AuthAssumption DEF IInv, TypeOK, Data, HoldersLock, InSection, GoalsBegin, RefreshesFile,
       LoginsAreFresh, Login, NothingIsLost, Start, historyVars
  <2> QED
    BY <2>1, <2>2, <2>3, <2>4, <2>5, <2>6, <2>7, <2>8 DEF IInv
<1> QED
  BY <1>1, <1>2, <1>3 DEF Start

LEMMA LocksKeeps ==
  ASSUME IInv, NEW r \in Request, Locks(r)
  PROVE  IInv'
<1>1. CASE goal[r] = "resolve" /\ ExpiresSoon(file)
  <2>1. TypeOK'
    <3>1. file' \in Data
      BY <1>1, Replaced, AuthAssumption DEF IInv, TypeOK, Locks, Store, Current
    <3>2. using' \in [Request -> Data]
      BY <3>1, <1>1 DEF IInv, TypeOK, Locks, Store, Current
    <3> QED
      BY <3>1, <3>2, <1>1, AuthAssumption DEF IInv, TypeOK, Locks, Store, Current, ExpiresSoon,
         reloadVars, providerVars, boundVars
  <2>2. HoldersLock'
    BY <1>1, AuthAssumption DEF IInv, TypeOK, HoldersLock, InSection, Locks, Store, Current, ExpiresSoon
  <2>3. GoalsBegin'
    BY <1>1 DEF IInv, TypeOK, GoalsBegin, Locks, Store, Current, ExpiresSoon
  <2>4. EditsCount'
    <3>1. Waiting' = Waiting
      BY <1>1 DEF IInv, TypeOK, Waiting, Locks, Store
    <3>2. edited' = edited /\ changes' = changes
      BY <1>1 DEF Locks, boundVars
    <3> QED
      BY <3>1, <3>2 DEF IInv, EditsCount
  <2>5. RefreshesFile'
    BY <1>1, AuthAssumption DEF IInv, TypeOK, Data, HoldersLock, InSection, RefreshesFile, Locks,
       Store, Current, ExpiresSoon, providerVars
  <2>6. LoginsAreFresh'
    <3>1. /\ file' = file /\ alive' = alive
          /\ \A q \in Request : q # r => pc'[q] = pc[q] /\ using'[q] = using[q]
          /\ pc'[r] \in {"refreshing", "releasing"} /\ goal' = goal
      BY <1>1 DEF IInv, TypeOK, Locks, providerVars
    <3> QED
      BY <3>1 DEF IInv, LoginsAreFresh, Login
  <2>7. TokensAreIssued'
    BY <1>1, AuthAssumption DEF IInv, TypeOK, Data, RefreshesFile, TokensAreIssued, Locks, Store,
       Current, ExpiresSoon, providerVars
  <2>8. NothingIsLost'
    BY <1>1, AuthAssumption DEF IInv, TypeOK, Data, HoldersLock, InSection, GoalsBegin, RefreshesFile,
       LoginsAreFresh, Login, NothingIsLost, Locks, Store, Current, ExpiresSoon, providerVars
  <2> QED
    BY <2>1, <2>2, <2>3, <2>4, <2>5, <2>6, <2>7, <2>8 DEF IInv
<1>2. CASE goal[r] = "resolve" /\ ~ExpiresSoon(file)
  <2>1. TypeOK'
    <3>1. file' \in Data
      BY <1>2, Replaced, AuthAssumption DEF IInv, TypeOK, Locks, Store, Current
    <3>2. using' \in [Request -> Data]
      BY <3>1, <1>2 DEF IInv, TypeOK, Locks, Store, Current
    <3> QED
      BY <3>1, <3>2, <1>2, AuthAssumption DEF IInv, TypeOK, Locks, Store, Current, ExpiresSoon,
         reloadVars, providerVars, boundVars
  <2>2. HoldersLock'
    BY <1>2, AuthAssumption DEF IInv, TypeOK, HoldersLock, InSection, Locks, Store, Current, ExpiresSoon
  <2>3. GoalsBegin'
    BY <1>2 DEF IInv, TypeOK, GoalsBegin, Locks, Store, Current, ExpiresSoon
  <2>4. EditsCount'
    <3>1. Waiting' = Waiting
      BY <1>2 DEF IInv, TypeOK, Waiting, Locks, Store
    <3>2. edited' = edited /\ changes' = changes
      BY <1>2 DEF Locks, boundVars
    <3> QED
      BY <3>1, <3>2 DEF IInv, EditsCount
  <2>5. RefreshesFile'
    BY <1>2, AuthAssumption DEF IInv, TypeOK, Data, HoldersLock, InSection, RefreshesFile, Locks,
       Store, Current, ExpiresSoon, providerVars
  <2>6. LoginsAreFresh'
    <3>1. /\ file' = file /\ alive' = alive
          /\ \A q \in Request : q # r => pc'[q] = pc[q] /\ using'[q] = using[q]
          /\ pc'[r] \in {"refreshing", "releasing"} /\ goal' = goal
      BY <1>2 DEF IInv, TypeOK, Locks, providerVars
    <3> QED
      BY <3>1 DEF IInv, LoginsAreFresh, Login
  <2>7. TokensAreIssued'
    BY <1>2, AuthAssumption DEF IInv, TypeOK, Data, RefreshesFile, TokensAreIssued, Locks, Store,
       Current, ExpiresSoon, providerVars
  <2>8. NothingIsLost'
    BY <1>2, AuthAssumption DEF IInv, TypeOK, Data, HoldersLock, InSection, GoalsBegin, RefreshesFile,
       LoginsAreFresh, Login, NothingIsLost, Locks, Store, Current, ExpiresSoon, providerVars
  <2> QED
    BY <2>1, <2>2, <2>3, <2>4, <2>5, <2>6, <2>7, <2>8 DEF IInv
<1>3. CASE goal[r] = "login"
  <2>1. TypeOK'
    <3>1. file' \in Data
      BY <1>3, Replaced, AuthAssumption DEF IInv, TypeOK, Locks, Store, Current
    <3>2. using' \in [Request -> Data]
      BY <3>1, <1>3 DEF IInv, TypeOK, Locks, Store, Current
    <3> QED
      BY <3>1, <3>2, <1>3, AuthAssumption DEF IInv, TypeOK, Locks, Store, Current, ExpiresSoon,
         reloadVars, providerVars, boundVars
  <2>2. HoldersLock'
    BY <1>3, AuthAssumption DEF IInv, TypeOK, HoldersLock, InSection, Locks, Store, Current, ExpiresSoon
  <2>3. GoalsBegin'
    BY <1>3 DEF IInv, TypeOK, GoalsBegin, Locks, Store, Current, ExpiresSoon
  <2>4. EditsCount'
    <3>1. Waiting' = Waiting
      BY <1>3 DEF IInv, TypeOK, Waiting, Locks, Store
    <3>2. edited' = edited /\ changes' = changes
      BY <1>3 DEF Locks, boundVars
    <3> QED
      BY <3>1, <3>2 DEF IInv, EditsCount
  <2>5. RefreshesFile'
    BY <1>3, AuthAssumption DEF IInv, TypeOK, Data, HoldersLock, InSection, RefreshesFile, Locks,
       Store, Current, ExpiresSoon, providerVars
  <2>6. LoginsAreFresh'
    BY <1>3, AuthAssumption DEF IInv, TypeOK, Data, HoldersLock, InSection, GoalsBegin, RefreshesFile,
       LoginsAreFresh, Login, TokensAreIssued, Locks, Store, Current, ExpiresSoon, providerVars
  <2>7. TokensAreIssued'
    <3>1. file'.token \in 0..issued
      <4>1. file' = [file EXCEPT !.token = using[r].token]
        BY <1>3 DEF Locks, Store, Current
      <4>2. file'.token = using[r].token
        BY <4>1, <1>3, AuthAssumption DEF IInv, TypeOK, Data
      <4> QED
        BY <4>2, AuthAssumption DEF IInv, TypeOK, TokensAreIssued
    <3>2. \A q \in Request : using'[q].token \in 0..issued
      BY <3>1, <1>3 DEF IInv, TypeOK, TokensAreIssued, Locks, Store
    <3> QED
      BY <3>1, <3>2 DEF IInv, TokensAreIssued, Locks, providerVars
  <2>8. NothingIsLost'
    BY <1>3, AuthAssumption DEF IInv, TypeOK, Data, HoldersLock, InSection, GoalsBegin, RefreshesFile,
       LoginsAreFresh, Login, NothingIsLost, Locks, Store, Current, ExpiresSoon, providerVars
  <2> QED
    BY <2>1, <2>2, <2>3, <2>4, <2>5, <2>6, <2>7, <2>8 DEF IInv
<1>4. CASE goal[r] = "logout"
  <2>1. TypeOK'
    <3>1. file' \in Data
      <4>1. file' = [file EXCEPT !.token = 0] /\ file \in Data /\ 0 \in 0..MaxTokens
        BY <1>4, AuthAssumption DEF IInv, TypeOK, Locks, Store, Current
      <4> QED
        BY <4>1, Replaced
    <3>2. using' \in [Request -> Data]
      BY <3>1, <1>4 DEF IInv, TypeOK, Locks, Store, Current
    <3> QED
      BY <3>1, <3>2, <1>4, AuthAssumption DEF IInv, TypeOK, Locks, Store, Current, ExpiresSoon,
         reloadVars, providerVars, boundVars
  <2>2. HoldersLock'
    BY <1>4, AuthAssumption DEF IInv, TypeOK, HoldersLock, InSection, Locks, Store, Current, ExpiresSoon
  <2>3. GoalsBegin'
    BY <1>4 DEF IInv, TypeOK, GoalsBegin, Locks, Store, Current, ExpiresSoon
  <2>4. EditsCount'
    <3>1. Waiting' = Waiting
      BY <1>4 DEF IInv, TypeOK, Waiting, Locks, Store
    <3>2. edited' = edited /\ changes' = changes
      BY <1>4 DEF Locks, boundVars
    <3> QED
      BY <3>1, <3>2 DEF IInv, EditsCount
  <2>5. RefreshesFile'
    BY <1>4, AuthAssumption DEF IInv, TypeOK, Data, HoldersLock, InSection, RefreshesFile, Locks,
       Store, Current, ExpiresSoon, providerVars
  <2>6. LoginsAreFresh'
    BY <1>4, AuthAssumption DEF IInv, TypeOK, Data, HoldersLock, InSection, GoalsBegin, RefreshesFile,
       LoginsAreFresh, Login, TokensAreIssued, Locks, Store, Current, ExpiresSoon, providerVars
  <2>7. TokensAreIssued'
    <3>1. file'.token \in 0..issued
      <4>1. file' = [file EXCEPT !.token = 0]
        BY <1>4 DEF Locks, Store, Current
      <4>2. file'.token = 0
        BY <4>1, <1>4, AuthAssumption DEF IInv, TypeOK, Data
      <4> QED
        BY <4>2, AuthAssumption DEF IInv, TypeOK, TokensAreIssued
    <3>2. \A q \in Request : using'[q].token \in 0..issued
      BY <3>1, <1>4 DEF IInv, TypeOK, TokensAreIssued, Locks, Store
    <3> QED
      BY <3>1, <3>2 DEF IInv, TokensAreIssued, Locks, providerVars
  <2>8. NothingIsLost'
    BY <1>4, AuthAssumption DEF IInv, TypeOK, Data, HoldersLock, InSection, GoalsBegin, RefreshesFile,
       LoginsAreFresh, Login, NothingIsLost, Locks, Store, Current, ExpiresSoon, providerVars
  <2> QED
    BY <2>1, <2>2, <2>3, <2>4, <2>5, <2>6, <2>7, <2>8 DEF IInv
<1>5. CASE goal[r] = "edit"
  <2>1. TypeOK'
    <3>1. edited + 1 <= changes
      <4>1. r \in Waiting
        BY <1>5 DEF Waiting, Locks
      <4>2. edited \in Nat /\ changes \in Nat
        BY AuthAssumption DEF IInv, TypeOK
      <4> QED
        BY <4>1, <4>2, CountMoves DEF IInv, EditsCount
    <3>2. file.edits + 1 \in 0..MaxChanges
      BY <3>1, AuthAssumption DEF IInv, TypeOK, NothingIsLost
    <3>3. file' \in Data
      BY <3>2, <1>5, Replaced DEF IInv, TypeOK, Locks, Store, Current
    <3>4. using' \in [Request -> Data]
      BY <3>3, <1>5 DEF IInv, TypeOK, Locks, Store
    <3> QED
      BY <3>1, <3>3, <3>4, <1>5, AuthAssumption DEF IInv, TypeOK, Locks, Store, Current, ExpiresSoon,
         reloadVars, providerVars, boundVars
  <2>2. HoldersLock'
    BY <1>5, AuthAssumption DEF IInv, TypeOK, HoldersLock, InSection, Locks, Store, Current, ExpiresSoon
  <2>3. GoalsBegin'
    BY <1>5 DEF IInv, TypeOK, GoalsBegin, Locks, Store, Current, ExpiresSoon
  <2>4. EditsCount'
    <3>1. Waiting' = Waiting \ {r} /\ r \in Waiting
      BY <1>5 DEF IInv, TypeOK, Waiting, Locks, Store
    <3>2. edited' = edited + 1 /\ changes' = changes
      BY <1>5 DEF Locks, boundVars
    <3>3. edited \in Nat /\ changes \in Nat
      BY AuthAssumption DEF IInv, TypeOK
    <3>4. IsFiniteSet(Waiting') /\ Cardinality(Waiting') + edited + 1 <= changes
      BY <3>1, <3>3, CountMoves DEF IInv, EditsCount
    <3> QED
      BY <3>2, <3>3, <3>4, FS_CardinalityType DEF EditsCount
  <2>5. RefreshesFile'
    BY <1>5, AuthAssumption DEF IInv, TypeOK, Data, HoldersLock, InSection, RefreshesFile, Locks,
       Store, Current, ExpiresSoon, providerVars
  <2>6. LoginsAreFresh'
    BY <1>5, AuthAssumption DEF IInv, TypeOK, Data, HoldersLock, InSection, GoalsBegin, RefreshesFile,
       LoginsAreFresh, Login, TokensAreIssued, Locks, Store, Current, ExpiresSoon, providerVars
  <2>7. TokensAreIssued'
    <3>1. file'.token \in 0..issued
      <4>1. file' = [file EXCEPT !.edits = @ + 1]
        BY <1>5 DEF Locks, Store, Current
      <4>2. file'.token = file.token
        BY <4>1, <1>5, AuthAssumption DEF IInv, TypeOK, Data
      <4> QED
        BY <4>2, AuthAssumption DEF IInv, TypeOK, TokensAreIssued
    <3>2. \A q \in Request : using'[q].token \in 0..issued
      BY <3>1, <1>5 DEF IInv, TypeOK, TokensAreIssued, Locks, Store
    <3> QED
      BY <3>1, <3>2 DEF IInv, TokensAreIssued, Locks, providerVars
  <2>8. NothingIsLost'
    BY <1>5, AuthAssumption DEF IInv, TypeOK, Data, HoldersLock, InSection, GoalsBegin, RefreshesFile,
       LoginsAreFresh, Login, NothingIsLost, Locks, Store, Current, ExpiresSoon, providerVars
  <2> QED
    BY <2>1, <2>2, <2>3, <2>4, <2>5, <2>6, <2>7, <2>8 DEF IInv
<1> QED
  BY <1>1, <1>2, <1>3, <1>4, <1>5 DEF Locks, Current

LEMMA LockFailsKeeps ==
  ASSUME IInv, NEW r \in Request, LockFails(r)
  PROVE  IInv'
<1>1. TypeOK'
  BY AuthAssumption DEF IInv, TypeOK, Data, Empty, LockFails, Over, reloadVars, cacheVars,
     providerVars, historyVars, boundVars
<1>2. HoldersLock'
  BY AuthAssumption DEF IInv, TypeOK, HoldersLock, InSection, LockFails, Over
<1>3. GoalsBegin'
  BY DEF IInv, TypeOK, GoalsBegin, LockFails, Over
<1>4. EditsCount'
  <2>1. Waiting' \in SUBSET Waiting
    BY DEF IInv, TypeOK, Waiting, LockFails, Over
  <2>2. edited' = edited /\ changes' = changes
    BY DEF LockFails, Over, historyVars, boundVars
  <2>3. edited \in Nat /\ changes \in Nat
    BY AuthAssumption DEF IInv, TypeOK
  <2>4. IsFiniteSet(Waiting') /\ Cardinality(Waiting') + edited <= changes
    BY <2>1, <2>3, CountShrinks DEF IInv, EditsCount
  <2> QED
    BY <2>2, <2>4 DEF EditsCount
<1>5. RefreshesFile'
  BY AuthAssumption DEF IInv, TypeOK, Data, Empty, HoldersLock, InSection, RefreshesFile, LockFails,
     Over, providerVars
<1>6. LoginsAreFresh'
  BY AuthAssumption DEF IInv, TypeOK, Data, Empty, HoldersLock, InSection, GoalsBegin, RefreshesFile,
     LoginsAreFresh, Login, TokensAreIssued, LockFails, Over, providerVars
<1>7. TokensAreIssued'
  BY AuthAssumption DEF IInv, TypeOK, Data, Empty, RefreshesFile, TokensAreIssued, LockFails, Over,
     providerVars
<1>8. NothingIsLost'
  BY AuthAssumption DEF IInv, TypeOK, Data, Empty, HoldersLock, InSection, GoalsBegin, RefreshesFile,
     LoginsAreFresh, Login, NothingIsLost, LockFails, Over, providerVars, historyVars
<1> QED
  BY <1>1, <1>2, <1>3, <1>4, <1>5, <1>6, <1>7, <1>8 DEF IInv

LEMMA RefreshKeeps ==
  ASSUME IInv, NEW r \in Request, Refresh(r)
  PROVE  IInv'
<1>1. TypeOK'
  <2>1. using' \in [Request -> Data]
    <3>1. issued + 1 \in 0..MaxTokens
      BY AuthAssumption DEF IInv, TypeOK, Refresh
    <3> QED
      BY <3>1, Replaced DEF IInv, TypeOK, Refresh
  <2> QED
    BY <2>1, AuthAssumption DEF IInv, TypeOK, Refresh, reloadVars, cacheVars, historyVars, boundVars
<1>2. HoldersLock'
  BY AuthAssumption DEF IInv, TypeOK, HoldersLock, InSection, Refresh
<1>3. GoalsBegin'
  BY DEF IInv, TypeOK, GoalsBegin, Refresh
<1>4. EditsCount'
  <2>1. Waiting' = Waiting
    BY DEF IInv, TypeOK, GoalsBegin, Waiting, Refresh
  <2>2. edited' = edited /\ changes' = changes
    BY DEF Refresh, historyVars, boundVars
  <2> QED
    BY <2>1, <2>2 DEF IInv, EditsCount
<1>5. RefreshesFile'
  BY AuthAssumption DEF IInv, TypeOK, Data, HoldersLock, InSection, RefreshesFile, Refresh
<1>6. LoginsAreFresh'
  BY AuthAssumption DEF IInv, TypeOK, Data, HoldersLock, InSection, GoalsBegin, RefreshesFile,
     LoginsAreFresh, Login, TokensAreIssued, Refresh
<1>7. TokensAreIssued'
  BY AuthAssumption DEF IInv, TypeOK, Data, RefreshesFile, TokensAreIssued, Refresh
<1>8. NothingIsLost'
  BY AuthAssumption DEF IInv, TypeOK, Data, HoldersLock, InSection, GoalsBegin, RefreshesFile,
     LoginsAreFresh, Login, NothingIsLost, Refresh, historyVars
<1> QED
  BY <1>1, <1>2, <1>3, <1>4, <1>5, <1>6, <1>7, <1>8 DEF IInv

LEMMA CommitKeeps ==
  ASSUME IInv, NEW r \in Request, Commit(r)
  PROVE  IInv'
<1>1. TypeOK'
  BY AuthAssumption DEF IInv, TypeOK, Data, Commit, Store, reloadVars, providerVars, historyVars,
     boundVars
<1>2. HoldersLock'
  BY AuthAssumption DEF IInv, TypeOK, HoldersLock, InSection, Commit, Store
<1>3. GoalsBegin'
  BY DEF IInv, TypeOK, GoalsBegin, Commit, Store
<1>4. EditsCount'
  <2>1. Waiting' = Waiting
    BY DEF IInv, TypeOK, GoalsBegin, Waiting, Commit, Store
  <2>2. edited' = edited /\ changes' = changes
    BY DEF Commit, Store, historyVars, boundVars
  <2> QED
    BY <2>1, <2>2 DEF IInv, EditsCount
<1>5. RefreshesFile'
  BY AuthAssumption DEF IInv, TypeOK, Data, HoldersLock, InSection, RefreshesFile, Commit, Store,
     providerVars
<1>6. LoginsAreFresh'
  BY AuthAssumption DEF IInv, TypeOK, Data, HoldersLock, InSection, GoalsBegin, RefreshesFile,
     LoginsAreFresh, Login, TokensAreIssued, Commit, Store, providerVars
<1>7. TokensAreIssued'
  BY AuthAssumption DEF IInv, TypeOK, Data, RefreshesFile, TokensAreIssued, Commit, Store, providerVars
<1>8. NothingIsLost'
  BY AuthAssumption DEF IInv, TypeOK, Data, HoldersLock, InSection, GoalsBegin, RefreshesFile,
     LoginsAreFresh, Login, NothingIsLost, Commit, Store, providerVars, historyVars
<1> QED
  BY <1>1, <1>2, <1>3, <1>4, <1>5, <1>6, <1>7, <1>8 DEF IInv

LEMMA RefreshFailsKeeps ==
  ASSUME IInv, NEW r \in Request, RefreshFails(r)
  PROVE  IInv'
<1>1. TypeOK'
  BY AuthAssumption DEF IInv, TypeOK, Data, Empty, RefreshFails, reloadVars, cacheVars, providerVars,
     boundVars
<1>2. HoldersLock'
  BY AuthAssumption DEF IInv, TypeOK, HoldersLock, InSection, RefreshFails
<1>3. GoalsBegin'
  BY DEF IInv, TypeOK, GoalsBegin, RefreshFails
<1>4. EditsCount'
  <2>1. Waiting' = Waiting
    BY DEF IInv, TypeOK, GoalsBegin, Waiting, RefreshFails
  <2>2. edited' = edited /\ changes' = changes
    BY DEF RefreshFails, boundVars
  <2> QED
    BY <2>1, <2>2 DEF IInv, EditsCount
<1>5. RefreshesFile'
  BY AuthAssumption DEF IInv, TypeOK, Data, Empty, HoldersLock, InSection, RefreshesFile,
     RefreshFails, providerVars
<1>6. LoginsAreFresh'
  BY AuthAssumption DEF IInv, TypeOK, Data, Empty, HoldersLock, InSection, GoalsBegin, RefreshesFile,
     LoginsAreFresh, Login, TokensAreIssued, RefreshFails, providerVars
<1>7. TokensAreIssued'
  BY AuthAssumption DEF IInv, TypeOK, Data, Empty, RefreshesFile, TokensAreIssued, RefreshFails,
     providerVars
<1>8. NothingIsLost'
  BY AuthAssumption DEF IInv, TypeOK, Data, Empty, HoldersLock, InSection, GoalsBegin, RefreshesFile,
     LoginsAreFresh, Login, NothingIsLost, RefreshFails, providerVars
<1> QED
  BY <1>1, <1>2, <1>3, <1>4, <1>5, <1>6, <1>7, <1>8 DEF IInv

LEMMA ReleaseKeeps ==
  ASSUME IInv, NEW r \in Request, Release(r)
  PROVE  IInv'
<1>1. TypeOK'
  BY AuthAssumption DEF IInv, TypeOK, Data, Release, Releases, reloadVars, cacheVars, providerVars,
     historyVars, boundVars
<1>2. HoldersLock'
  BY AuthAssumption DEF IInv, TypeOK, HoldersLock, InSection, Release, Releases
<1>3. GoalsBegin'
  BY DEF IInv, TypeOK, GoalsBegin, Release, Releases
<1>4. EditsCount'
  <2>1. Waiting' = Waiting
    BY DEF IInv, TypeOK, GoalsBegin, Waiting, Release, Releases
  <2>2. edited' = edited /\ changes' = changes
    BY DEF Release, Releases, historyVars, boundVars
  <2> QED
    BY <2>1, <2>2 DEF IInv, EditsCount
<1>5. RefreshesFile'
  BY AuthAssumption DEF IInv, TypeOK, Data, HoldersLock, InSection, RefreshesFile, Release, Releases,
     providerVars
<1>6. LoginsAreFresh'
  BY AuthAssumption DEF IInv, TypeOK, Data, HoldersLock, InSection, GoalsBegin, RefreshesFile,
     LoginsAreFresh, Login, TokensAreIssued, Release, Releases, providerVars
<1>7. TokensAreIssued'
  BY AuthAssumption DEF IInv, TypeOK, Data, RefreshesFile, TokensAreIssued, Release, Releases,
     providerVars
<1>8. NothingIsLost'
  BY AuthAssumption DEF IInv, TypeOK, Data, HoldersLock, InSection, GoalsBegin, RefreshesFile,
     LoginsAreFresh, Login, NothingIsLost, Release, Releases, providerVars, historyVars
<1> QED
  BY <1>1, <1>2, <1>3, <1>4, <1>5, <1>6, <1>7, <1>8 DEF IInv

LEMMA FinishKeeps ==
  ASSUME IInv, NEW r \in Request, Finish(r)
  PROVE  IInv'
<1>1. TypeOK'
  <2>1. Empty \in Data
    BY AuthAssumption DEF Empty, Data
  <2>2. cache' \in [Process -> Data] /\ using' \in [Request -> Data]
    BY <2>1, AuthAssumption DEF IInv, TypeOK, Finish, Over
  <2> QED
    BY <2>2, AuthAssumption DEF IInv, TypeOK, Finish, Over, RevisionRead, reloadVars, providerVars,
       historyVars, boundVars
<1>2. HoldersLock'
  BY AuthAssumption DEF IInv, TypeOK, HoldersLock, InSection, Finish, Over, RevisionRead
<1>3. GoalsBegin'
  BY DEF IInv, TypeOK, GoalsBegin, Finish, Over, RevisionRead
<1>4. EditsCount'
  <2>1. Waiting' = Waiting
    BY DEF IInv, TypeOK, GoalsBegin, Waiting, Finish, Over, RevisionRead
  <2>2. edited' = edited /\ changes' = changes
    BY DEF Finish, Over, RevisionRead, historyVars, boundVars
  <2> QED
    BY <2>1, <2>2 DEF IInv, EditsCount
<1>5. RefreshesFile'
  BY AuthAssumption DEF IInv, TypeOK, Data, Empty, HoldersLock, InSection, RefreshesFile, Finish,
     Over, RevisionRead, providerVars
<1>6. LoginsAreFresh'
  BY AuthAssumption DEF IInv, TypeOK, Data, Empty, HoldersLock, InSection, GoalsBegin, RefreshesFile,
     LoginsAreFresh, Login, TokensAreIssued, Finish, Over, RevisionRead, providerVars
<1>7. TokensAreIssued'
  BY AuthAssumption DEF IInv, TypeOK, Data, Empty, RefreshesFile, TokensAreIssued, Finish, Over,
     RevisionRead, providerVars
<1>8. NothingIsLost'
  BY AuthAssumption DEF IInv, TypeOK, Data, Empty, HoldersLock, InSection, GoalsBegin, RefreshesFile,
     LoginsAreFresh, Login, NothingIsLost, Finish, Over, RevisionRead, providerVars, historyVars
<1> QED
  BY <1>1, <1>2, <1>3, <1>4, <1>5, <1>6, <1>7, <1>8 DEF IInv

LEMMA AbortKeeps ==
  ASSUME IInv, NEW r \in Request, Abort(r)
  PROVE  IInv'
<1>1. TypeOK'
  BY AuthAssumption DEF IInv, TypeOK, Data, Empty, Abort, Over, Readers, cacheVars, providerVars,
     historyVars, boundVars
<1>2. HoldersLock'
  BY AuthAssumption DEF IInv, TypeOK, HoldersLock, InSection, Abort, Over, Readers
<1>3. GoalsBegin'
  BY DEF IInv, TypeOK, GoalsBegin, Abort, Over, Readers
<1>4. EditsCount'
  <2>1. Waiting' \in SUBSET Waiting
    BY DEF IInv, TypeOK, Waiting, Abort, Over, Readers
  <2>2. edited' = edited /\ changes' = changes
    BY DEF Abort, Over, Readers, historyVars, boundVars
  <2>3. edited \in Nat /\ changes \in Nat
    BY AuthAssumption DEF IInv, TypeOK
  <2>4. IsFiniteSet(Waiting') /\ Cardinality(Waiting') + edited <= changes
    BY <2>1, <2>3, CountShrinks DEF IInv, EditsCount
  <2> QED
    BY <2>2, <2>4 DEF EditsCount
<1>5. RefreshesFile'
  BY AuthAssumption DEF IInv, TypeOK, Data, Empty, HoldersLock, InSection, RefreshesFile, Abort, Over,
     Readers, providerVars
<1>6. LoginsAreFresh'
  BY AuthAssumption DEF IInv, TypeOK, Data, Empty, HoldersLock, InSection, GoalsBegin, RefreshesFile,
     LoginsAreFresh, Login, TokensAreIssued, Abort, Over, Readers, providerVars
<1>7. TokensAreIssued'
  BY AuthAssumption DEF IInv, TypeOK, Data, Empty, RefreshesFile, TokensAreIssued, Abort, Over,
     Readers, providerVars
<1>8. NothingIsLost'
  BY AuthAssumption DEF IInv, TypeOK, Data, Empty, HoldersLock, InSection, GoalsBegin, RefreshesFile,
     LoginsAreFresh, Login, NothingIsLost, Abort, Over, Readers, providerVars, historyVars
<1> QED
  BY <1>1, <1>2, <1>3, <1>4, <1>5, <1>6, <1>7, <1>8 DEF IInv

LEMMA ExpireKeeps ==
  ASSUME IInv, Expire
  PROVE  IInv'
<1>1. TypeOK'
  BY AuthAssumption DEF IInv, TypeOK, Expire, requestVars, reloadVars, cacheVars, historyVars, boundVars
<1>2. Untouched /\ (lock' = lock \/ lock \notin Request)
  BY AuthAssumption DEF Untouched, Expire, requestVars, historyVars, boundVars
<1> QED
  BY <1>1, <1>2, UntouchedKeeps

LEMMA CrashKeeps ==
  ASSUME IInv, NEW p \in Process, Crash(p)
  PROVE  IInv'
<1>1. TypeOK'
  BY AuthAssumption DEF IInv, TypeOK, Data, Empty, Crash, Here, providerVars
<1>2. HoldersLock'
  BY AuthAssumption DEF IInv, TypeOK, HoldersLock, InSection, Crash, Here
<1>3. GoalsBegin'
  BY DEF IInv, TypeOK, GoalsBegin, Crash, Here
<1>4. EditsCount'
  <2>1. Waiting' \in SUBSET Waiting
    BY DEF IInv, TypeOK, Waiting, Crash, Here
  <2>2. edited' = edited /\ changes' = changes
    BY DEF Crash, Here
  <2>3. edited \in Nat /\ changes \in Nat
    BY AuthAssumption DEF IInv, TypeOK
  <2>4. IsFiniteSet(Waiting') /\ Cardinality(Waiting') + edited <= changes
    BY <2>1, <2>3, CountShrinks DEF IInv, EditsCount
  <2> QED
    BY <2>2, <2>4 DEF EditsCount
<1>5. RefreshesFile'
  BY AuthAssumption DEF IInv, TypeOK, Data, Empty, HoldersLock, InSection, RefreshesFile, Crash, Here,
     providerVars
<1>6. LoginsAreFresh'
  BY AuthAssumption DEF IInv, TypeOK, Data, Empty, HoldersLock, InSection, GoalsBegin, RefreshesFile,
     LoginsAreFresh, Login, TokensAreIssued, Crash, Here, providerVars
<1>7. TokensAreIssued'
  BY AuthAssumption DEF IInv, TypeOK, Data, Empty, RefreshesFile, TokensAreIssued, Crash, Here,
     providerVars
<1>8. NothingIsLost'
  BY AuthAssumption DEF IInv, TypeOK, Data, Empty, HoldersLock, InSection, GoalsBegin, RefreshesFile,
     LoginsAreFresh, Login, NothingIsLost, Crash, Here, providerVars
<1> QED
  BY <1>1, <1>2, <1>3, <1>4, <1>5, <1>6, <1>7, <1>8 DEF IInv

LEMMA StaleKeeps ==
  ASSUME IInv, Stale
  PROVE  IInv'
<1>1. TypeOK'
  BY AuthAssumption DEF IInv, TypeOK, Stale, requestVars, reloadVars, cacheVars, providerVars, historyVars, boundVars
<1>2. Untouched /\ (lock' = lock \/ lock \notin Request)
  BY AuthAssumption DEF Untouched, Stale, requestVars, providerVars, historyVars, boundVars
<1> QED
  BY <1>1, <1>2, UntouchedKeeps

LEMMA StutterKeeps ==
  ASSUME IInv, UNCHANGED vars
  PROVE  IInv'
BY DEF IInv, TypeOK, HoldersLock, GoalsBegin, EditsCount, Waiting, RefreshesFile, LoginsAreFresh,
       Login, TokensAreIssued, NothingIsLost, vars, requestVars, reloadVars, cacheVars,
       providerVars, historyVars, boundVars

LEMMA InitHolds == Init => IInv
<1> SUFFICES ASSUME Init PROVE IInv
  OBVIOUS
<1>1. TypeOK
  <2>1. Empty \in Data /\ [token |-> 1, edits |-> 0] \in Data
    BY AuthAssumption DEF Data, Empty
  <2>2. 1 \in 1..MaxTokens /\ 0 \in 0..MaxCrashes /\ 0 \in 0..MaxChanges
    BY AuthAssumption
  <2>3. cache \in [Process -> Data] /\ fetched \in [Process -> Data] /\ using \in [Request -> Data]
    BY <2>1 DEF Init
  <2>4. /\ pc \in [Request -> {"idle"}] /\ goal \in [Request -> {"resolve"}]
        /\ reload \in [Process -> {"none"}] /\ edited \in 0..changes
    BY DEF Init
  <2>5. /\ alive \subseteq 1..MaxTokens /\ issued \in 1..MaxTokens /\ expired \subseteq 1..MaxTokens
        /\ crashes \in 0..MaxCrashes /\ changes \in 0..MaxChanges
    BY <2>2 DEF Init
  <2>6. pc \in [Request -> {"idle", "reading", "locking", "refreshing", "refreshed", "releasing",
                         "failing", "released"}]
    BY <2>4
  <2>7. goal \in [Request -> {"resolve", "login", "logout", "edit"}]
    BY <2>4
  <2>8. reload \in [Process -> {"none", "locking", "read"}]
    BY <2>4
  <2>9. file \in Data /\ lock = Free /\ current = {} /\ dropped = FALSE
    BY <2>1 DEF Init
  <2> QED
    BY <2>3, <2>4, <2>5, <2>6, <2>7, <2>8, <2>9 DEF TypeOK
<1>2. Waiting = {}
  BY DEF Init, Waiting
<1>3. EditsCount
  BY <1>2, FS_EmptySet DEF Init, EditsCount
<1> QED
  BY <1>1, <1>3 DEF Init, IInv, HoldersLock, GoalsBegin, InSection, RefreshesFile, LoginsAreFresh,
                    Login, TokensAreIssued, NothingIsLost, Empty

LEMMA NextKeeps ==
  ASSUME IInv, ~SlowRefresh, [Next]_vars
  PROVE  IInv'
<1>1. CASE UNCHANGED vars
  BY <1>1, StutterKeeps
<1>2. ASSUME NEW r \in Request, Resolve(r) \/ Start(r) \/ RequestStep(r) \/ Abort(r)
      PROVE  IInv'
  BY <1>2, ResolveKeeps, StartKeeps, LocksKeeps, LockFailsKeeps, RefreshKeeps, CommitKeeps,
     RefreshFailsKeeps, ReleaseKeeps, FinishKeeps, AbortKeeps DEF RequestStep
<1>3. ASSUME NEW p \in Process, ReloadStep(p) \/ Create(p) \/ Crash(p)
      PROVE  IInv'
  BY <1>3, ReloadLocksKeeps, ReloadEndsKeeps, ReloadFailsKeeps, CreateKeeps, CrashKeeps DEF ReloadStep
<1> QED
  BY <1>1, <1>2, <1>3, ExpireKeeps, StaleKeeps DEF Next

\* The token in the file is good for the next refresh, unless an answer of the provider
\* was lost, and no change to the credentials of another provider is overwritten (modify
\* under withLockAsync), if no lock is taken away during a slow refresh; and every
\* variable keeps its type.
THEOREM NothingLost == ~SlowRefresh => (Spec => [](TypeOK /\ NothingIsLost))
<1> SUFFICES ASSUME ~SlowRefresh PROVE Spec => [](TypeOK /\ NothingIsLost)
  OBVIOUS
<1>1. IInv /\ [Next]_vars => IInv'
  BY NextKeeps
<1>2. IInv => TypeOK /\ NothingIsLost
  BY DEF IInv
<1> QED
  BY InitHolds, <1>1, <1>2, PTL DEF Spec
=============================================================================
