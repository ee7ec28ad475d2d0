----------------------------- MODULE AuthStorage -----------------------------
(***************************************************************************)
(* The credentials in auth.json, which all processes of a user share        *)
(* (packages/coding-agent/src/core/auth-storage.ts), and the refresh of an  *)
(* OAuth token under the lock of that file (packages/ai/src/auth/resolve.ts, *)
(* models.ts).  The provider accepts a token for one refresh only, so that   *)
(* a refresh that is repeated, or whose answer is lost, logs the user out.   *)
(*                                                                          *)
(* The file holds a token (0: none) and the number of edits to credentials  *)
(* of other providers.  A step is what runs between two awaits; the file is *)
(* read and written synchronously, and the lock is a directory beside it.   *)
(* A revision is told only by whether it is the one the file has now.       *)
(***************************************************************************)
EXTENDS Naturals

CONSTANTS Process, Request,
          Home,          \* the process of a request
          Free, Dead,    \* nobody has the lock; a process that has crashed has it
          MaxTokens,     \* tokens the provider issues
          MaxChanges,    \* changes that users ask for
          MaxCrashes,
          SlowRefresh    \* a refresh may outlast what lockSync takes for stale

ASSUME AuthAssumption ==
  /\ Home \in [Request -> Process]
  /\ Request \cap Process = {} /\ {Free, Dead} \cap (Request \cup Process) = {}
  /\ Free # Dead
  /\ MaxTokens \in Nat \ {0} /\ MaxChanges \in Nat /\ MaxCrashes \in Nat
  /\ SlowRefresh \in BOOLEAN

VARIABLES file, lock,
          current,           \* the processes and requests that know the file's revision
          cache,             \* AuthStorage.readState of each process
          reload, fetched,   \* readState.reload, and what it has read
          pc,                \* what each request awaits
          goal,              \* what it does under the lock
          using,             \* what it works on there, and then latestData
          issued, alive, expired,   \* the provider's tokens
          crashes, changes,
          edited, dropped    \* history: edits that were stored; an answer was lost

requestVars  == <<pc, goal, using>>
reloadVars   == <<reload, fetched>>
cacheVars    == <<cache, current>>
providerVars == <<issued, alive, expired>>
historyVars  == <<edited, dropped>>
boundVars    == <<crashes, changes>>
vars == <<requestVars, reloadVars, cacheVars, providerVars, historyVars, boundVars, file, lock>>

Data == [token : 0..MaxTokens, edits : 0..MaxChanges]
Empty == [token |-> 0, edits |-> 0]

Init ==
  /\ file = [token |-> 1, edits |-> 0] /\ lock = Free /\ current = {}
  /\ cache = [p \in Process |-> Empty]
  /\ reload = [p \in Process |-> "none"] /\ fetched = [p \in Process |-> Empty]
  /\ pc = [r \in Request |-> "idle"] /\ goal = [r \in Request |-> "resolve"]
  /\ using = [r \in Request |-> Empty]
  /\ issued = 1 /\ alive = {1} /\ expired = {} /\ crashes = 0 /\ changes = 0
  /\ edited = 0 /\ dropped = FALSE

-----------------------------------------------------------------------------
(* Reading.                                                                 *)

ExpiresSoon(data) == data.token \in expired

\* resolveStoredOAuth goes on with modify when the token it was given expires.
AfterRead(data) == IF ExpiresSoon(data) THEN "locking" ELSE "idle"

Readers(p) == {r \in Request : Home[r] = p /\ pc[r] = "reading"}

\* readLatestData: the cache, or a reload that all readers of the process share.
Resolve(r) ==
  /\ pc[r] = "idle"
  /\ LET p == Home[r] IN
     \/ /\ p \in current /\ ExpiresSoon(cache[p])
        /\ pc' = [pc EXCEPT ![r] = "locking"]
        /\ UNCHANGED reload
     \/ /\ p \notin current
        /\ pc' = [pc EXCEPT ![r] = "reading"]
        /\ reload' = [reload EXCEPT ![p] = IF @ = "none" THEN "locking" ELSE @]
  /\ UNCHANGED <<goal, using, fetched, cacheVars, providerVars, historyVars, file,
                 lock, boundVars>>

ReloadLocks(p) ==
  /\ reload[p] = "locking" /\ lock = Free /\ lock' = p
  /\ reload' = [reload EXCEPT ![p] = "read"]
  /\ fetched' = [fetched EXCEPT ![p] = file]
  /\ cache' = [cache EXCEPT ![p] = file] /\ current' = current \cup {p}
  /\ UNCHANGED <<requestVars, providerVars, historyVars, file, boundVars>>

\* The lock is released, and then the readers go on, unless all of them have left.
ReleasesIfRead(p) == lock = p /\ reload[p] = "read"   \* a slip: not when it was abandoned
ReloadReleases(p) == lock = p

ReloadEnds(p) ==
  /\ ReloadReleases(p) /\ lock' = Free
  /\ fetched' = [fetched EXCEPT ![p] = Empty]
  /\ \/ /\ reload[p] = "read"
        /\ reload' = [reload EXCEPT ![p] = "none"]
        /\ pc' = [r \in Request |-> IF r \in Readers(p) THEN AfterRead(fetched[p]) ELSE pc[r]]
     \/ reload[p] # "read" /\ UNCHANGED <<reload, pc>>
  /\ UNCHANGED <<goal, using, cacheVars, providerVars, historyVars, file, boundVars>>

\* acquireLockAsync gives up at its deadline.
ReloadFails(p) ==
  /\ reload[p] = "locking" /\ lock # Free
  /\ reload' = [reload EXCEPT ![p] = "none"]
  /\ pc' = [r \in Request |-> IF r \in Readers(p) THEN "idle" ELSE pc[r]]
  /\ UNCHANGED <<goal, using, fetched, cacheVars, providerVars, historyVars, file,
                 lock, boundVars>>

\* lockSync takes a lock for stale that was not touched for ten seconds; who holds it
\* with the asynchronous one touches it every fifteen.
Robbed == SlowRefresh /\ \E r \in Request : lock = r /\ pc[r] \in {"refreshing", "refreshed"}

\* Another AuthStorage is created in the process: reload, with the synchronous lock.
Create(p) ==
  /\ p \notin current
  /\ lock = Free \/ Robbed
  /\ lock' = Free
  /\ cache' = [cache EXCEPT ![p] = file] /\ current' = current \cup {p}
  /\ UNCHANGED <<requestVars, reloadVars, providerVars, historyVars, file, boundVars>>

-----------------------------------------------------------------------------
(* Modifying.                                                               *)

\* Models.login, Models.logout, and a credential of another provider is stored.
Start(r) ==
  /\ pc[r] = "idle" /\ pc' = [pc EXCEPT ![r] = "locking"]
  /\ changes < MaxChanges /\ changes' = changes + 1
  /\ \/ /\ issued < MaxTokens /\ issued' = issued + 1 /\ alive' = alive \cup {issued + 1}
        /\ goal' = [goal EXCEPT ![r] = "login"]
        /\ using' = [using EXCEPT ![r].token = issued + 1]
     \/ /\ goal' = [goal EXCEPT ![r] = "logout"]
        /\ UNCHANGED <<issued, alive, using>>
     \/ /\ goal' = [goal EXCEPT ![r] = "edit"]
        /\ UNCHANGED <<issued, alive, using>>
  /\ UNCHANGED <<reloadVars, cacheVars, expired, historyVars, file, lock, crashes>>

\* What is merged is what was read under the lock.
CurrentCached(r) == cache[Home[r]]   \* a slip: what the process knew before
Current(r) == file

\* The new content, in one write that a crash does not tear; no revision
\* that was read before is the file's now.
Store(r, data) ==
  /\ file' = data /\ current' = {}
  /\ using' = [using EXCEPT ![r] = data]
  /\ pc' = [pc EXCEPT ![r] = "releasing"]

\* modify under the lock, up to its first await.
Locks(r) ==
  /\ pc[r] = "locking" /\ lock = Free /\ lock' = r
  /\ \/ /\ goal[r] = "resolve" /\ ExpiresSoon(Current(r))
        /\ pc' = [pc EXCEPT ![r] = "refreshing"]
        /\ using' = [using EXCEPT ![r] = Current(r)]
        /\ UNCHANGED <<file, current, edited>>
     \/ /\ goal[r] = "resolve" /\ ~ExpiresSoon(Current(r))
        /\ pc' = [pc EXCEPT ![r] = "releasing"]
        /\ using' = [using EXCEPT ![r] = Current(r)] /\ current' = current \cup {r}
        /\ UNCHANGED <<file, edited>>
     \/ /\ goal[r] = "login" /\ Store(r, [Current(r) EXCEPT !.token = using[r].token])
        /\ UNCHANGED edited
     \/ /\ goal[r] = "logout" /\ Store(r, [Current(r) EXCEPT !.token = 0])
        /\ UNCHANGED edited
     \/ /\ goal[r] = "edit" /\ edited' = edited + 1
        /\ Store(r, [Current(r) EXCEPT !.edits = @ + 1])
  /\ UNCHANGED <<goal, reloadVars, providerVars, dropped, cache, boundVars>>

\* The request is over: what it had in its hands is gone.
Over(r) ==
  /\ pc' = [pc EXCEPT ![r] = "idle"]
  /\ goal' = [goal EXCEPT ![r] = "resolve"]
  /\ using' = [using EXCEPT ![r] = Empty]

LockFails(r) ==
  /\ pc[r] = "locking" /\ lock # Free /\ Over(r)
  /\ UNCHANGED <<reloadVars, cacheVars, providerVars, historyVars, file, lock, boundVars>>

\* The provider exchanges the token; its answer is on the way.
Refresh(r) ==
  /\ pc[r] = "refreshing" /\ using[r].token \in alive /\ issued < MaxTokens
  /\ issued' = issued + 1
  /\ alive' = (alive \ {using[r].token}) \cup {issued + 1}
  /\ pc' = [pc EXCEPT ![r] = "refreshed"]
  /\ using' = [using EXCEPT ![r].token = issued + 1]
  /\ UNCHANGED <<goal, reloadVars, cacheVars, expired, historyVars, file, lock, boundVars>>

\* withLockAsync writes, unless its signal was aborted (RefreshFails).
Commit(r) ==
  /\ pc[r] = "refreshed"
  /\ Store(r, using[r])
  /\ UNCHANGED <<goal, reloadVars, cache, providerVars, historyVars, lock, boundVars>>

\* The refresh is refused, times out or is before or after the exchange, or the
\* update of the lock has found it gone.
RefreshFails(r) ==
  /\ pc[r] \in {"refreshing", "refreshed"}
  /\ pc' = [pc EXCEPT ![r] = "failing"]
  /\ using' = [using EXCEPT ![r] = Empty]
  /\ dropped' = (dropped \/ pc[r] = "refreshed")
  /\ UNCHANGED <<goal, reloadVars, cacheVars, providerVars, edited, file, lock, boundVars>>

\* The finally of withLockAsync.
ReleasesStored(r) == pc[r] = "releasing"   \* a slip: not after a failure
Releases(r) == pc[r] \in {"releasing", "failing"}

Release(r) ==
  /\ pc[r] \in {"releasing", "failing"}
  /\ lock' = IF Releases(r) THEN Free ELSE lock
  /\ pc' = [pc EXCEPT ![r] = IF @ = "releasing" THEN "released" ELSE "idle"]
  /\ UNCHANGED <<goal, using, reloadVars, cacheVars, providerVars, historyVars, file,
                 boundVars>>

\* updateReadState comes after the release: others may have written meanwhile.
RevisionRead(r) == r \in current

Finish(r) ==
  /\ pc[r] = "released" /\ Over(r)
  /\ cache' = [cache EXCEPT ![Home[r]] = using[r]]
  /\ current' = IF RevisionRead(r) THEN (current \ {r}) \cup {Home[r]} ELSE current \ {Home[r]}
  /\ UNCHANGED <<reloadVars, providerVars, historyVars, file, lock, boundVars>>

\* The signal of a request that waits: the last reader to leave takes the reload with it.
Abort(r) ==
  /\ pc[r] \in {"reading", "locking"} /\ Over(r)
  /\ reload' = [p \in Process |-> IF Readers(p) = {r} THEN "none" ELSE reload[p]]
  /\ UNCHANGED <<fetched, cacheVars, providerVars, historyVars, file, lock, boundVars>>

-----------------------------------------------------------------------------
(* Time and crashes.                                                        *)

Expire ==
  /\ file.token \in alive \ expired /\ expired' = expired \cup {file.token}
  /\ UNCHANGED <<requestVars, reloadVars, cacheVars, issued, alive, historyVars, file, lock,
                 boundVars>>

Here(p) == {r \in Request : Home[r] = p}

Crash(p) ==
  /\ crashes < MaxCrashes /\ crashes' = crashes + 1
  /\ pc' = [r \in Request |-> IF r \in Here(p) THEN "idle" ELSE pc[r]]
  /\ goal' = [r \in Request |-> IF r \in Here(p) THEN "resolve" ELSE goal[r]]
  /\ using' = [r \in Request |-> IF r \in Here(p) THEN Empty ELSE using[r]]
  /\ dropped' = (dropped \/ \E r \in Here(p) : pc[r] = "refreshed")
  /\ lock' = IF lock \in Here(p) \cup {p} THEN Dead ELSE lock
  /\ reload' = [reload EXCEPT ![p] = "none"] /\ fetched' = [fetched EXCEPT ![p] = Empty]
  /\ cache' = [cache EXCEPT ![p] = Empty] /\ current' = current \ (Here(p) \cup {p})
  /\ UNCHANGED <<providerVars, edited, changes, file>>

\* A lock that nobody touches any more is removed by who wants it.
Stale ==
  /\ lock = Dead /\ lock' = Free
  /\ UNCHANGED <<requestVars, reloadVars, cacheVars, providerVars, historyVars, file, boundVars>>

ReloadStep(p) == ReloadLocks(p) \/ ReloadEnds(p) \/ ReloadFails(p)
RequestStep(r) ==
  Locks(r) \/ LockFails(r) \/ Refresh(r) \/ Commit(r) \/ RefreshFails(r) \/ Release(r) \/ Finish(r)

Next ==
  \/ \E r \in Request : Resolve(r) \/ Start(r) \/ RequestStep(r) \/ Abort(r)
  \/ \E p \in Process : ReloadStep(p) \/ Create(p) \/ Crash(p)
  \/ Expire \/ Stale

\* Locks are granted or time out, and so do refreshes (DEFAULT_OAUTH_REFRESH_TIMEOUT_MS).
\* A reload that all readers have left goes on by itself, beside the next one.
Fairness ==
  /\ \A r \in Request : WF_vars(RequestStep(r))
  /\ \A p \in Process : WF_vars(ReloadStep(p)) /\ WF_vars(ReloadEnds(p))

Spec == Init /\ [][Next]_vars /\ Fairness

-----------------------------------------------------------------------------
(* Properties.                                                              *)

TypeOK ==
  /\ file \in Data /\ lock \in Request \cup Process \cup {Free, Dead}
  /\ current \subseteq Process \cup Request /\ cache \in [Process -> Data]
  /\ reload \in [Process -> {"none", "locking", "read"}] /\ fetched \in [Process -> Data]
  /\ pc \in [Request -> {"idle", "reading", "locking", "refreshing", "refreshed", "releasing",
                         "failing", "released"}]
  /\ goal \in [Request -> {"resolve", "login", "logout", "edit"}]
  /\ using \in [Request -> Data]
  /\ issued \in 1..MaxTokens /\ alive \subseteq 1..MaxTokens /\ expired \subseteq 1..MaxTokens
  /\ crashes \in 0..MaxCrashes /\ changes \in 0..MaxChanges
  /\ edited \in 0..changes /\ dropped \in BOOLEAN

\* "refresh once globally, and persist the rotated credential before release"
\* (resolve.ts:127): the token in the file is good for the next refresh, unless an
\* answer of the provider was lost, and no edit of another provider is overwritten.
NothingIsLost ==
  /\ file.edits = edited
  /\ (~dropped /\ \A r \in Request : pc[r] # "refreshed") => file.token \in alive \cup {0}

\* Every request ends and leaves no lock behind, and no reload does, whoever holds the
\* lock, fails, is aborted or crashes, and whichever reader leaves the reload they share.
RequestsEnd ==
  /\ \A r \in Request : (pc[r] # "idle" \/ lock = r) ~> (pc[r] = "idle" /\ lock # r)
  /\ \A p \in Process : lock = p ~> lock # p
=============================================================================
