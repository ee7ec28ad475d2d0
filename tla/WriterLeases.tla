----------------------------- MODULE WriterLeases -----------------------------
(***************************************************************************)
(* The writer lease of one session of the sqlite backend                   *)
(* (packages/session-backends/sqlite-node/src/sqlite): repositories of     *)
(* several processes share a database file; a repository that opens or     *)
(* creates the session claims the session's row of writer_leases, renews   *)
(* it with every write and with a heartbeat, and gives it back when the    *)
(* storage is released.                                                    *)
(*                                                                         *)
(* A transaction is one step, and so is a statement outside of one: what   *)
(* another process commits comes between them.  Within a process the code  *)
(* between two awaits is not interrupted (Sync).  Times are relative:      *)
(* lease.left is expires_at_ms - Date.now(), and 0 when that is not        *)
(* positive; the timers of a process do not follow the wall clock.         *)
(***************************************************************************)
EXTENDS Naturals, Sequences

CONSTANTS
  Repo,       \* the repositories, each in a process of its own
  Ttl,        \* writerLease.ttlMs
  Heartbeat,  \* writerLease.heartbeatIntervalMs
  MaxLeft,    \* the longest a lease runs after the clock was set back
  MaxClaims,  \* owner ids
  MaxBirths,  \* times the session is created
  MaxQueued,  \* writes that wait in the queue of a storage
  Asked,      \* the operations each repository is asked for
  None        \* no repository

Owner == 1..MaxClaims

ASSUME LeaseAssumption ==
  /\ Ttl \in Nat /\ Heartbeat \in Nat /\ MaxLeft \in Nat
  /\ 0 < Heartbeat /\ Heartbeat < Ttl /\ Ttl <= MaxLeft
  /\ MaxClaims \in Nat /\ MaxBirths \in Nat /\ MaxQueued \in Nat
  /\ None \notin Repo
  /\ Asked \in [Repo -> SUBSET {"open", "create", "delete", "repair", "close"}]

VARIABLES
  session,   \* which session of this id there is: the births-th; 0 when there is none
  births,    \* how often it was created
  log,       \* the owners that wrote to the session, in order; items that follow each
             \* other and have one writer count as one
  lease,     \* the row of writer_leases; its owner is 0 when there is no row
  claims,    \* the owner ids used so far
  \* the SqliteSessionStorage that was made with each owner id
  home,      \* the repository it is an active storage of
  fence,     \* its lease.fence
  born,      \* the session it was opened on
  writes,    \* the writes in its queue
  beat,      \* its heartbeat: none, waiting for the timer, or in the queue
  timer,     \* how long the timer has to run
  lost,      \* the storages with a leaseError
  closing,   \* the storages in release()
  released,  \* the storages that were released while a timer ran
  shut,      \* the storages whose database was closed
  missed,    \* the storages that did not renew their lease in time
  \* the repositories
  op,        \* the operation at the head of the queue
  hand,      \* the owner id create() has claimed but made no storage for
  isClosing, \* the repositories in close()
  toClose,   \* the storages close() has yet to see released
  clockSet   \* the wall clock was set

dbVars == <<session, births, log, lease, claims>>
grantVars == <<home, fence, born>>
queueVars == <<writes, beat, timer>>
flagVars == <<lost, closing, released, shut, missed>>
storageVars == <<grantVars, queueVars, flagVars>>
repoVars == <<op, hand, isClosing, toClose>>
vars == <<dbVars, storageVars, repoVars, clockSet>>

Operation == {"idle", "claiming", "creating", "made", "releaseDelete", "deleting",
              "releaseRepair", "repairing"}

NoLease == [owner |-> 0, fence |-> 0, left |-> 0]

Init ==
  /\ session = 0 /\ births = 0 /\ log = <<>> /\ lease = NoLease /\ claims = 0
  /\ home = [o \in Owner |-> None] /\ fence = [o \in Owner |-> 0]
  /\ born = [o \in Owner |-> 0] /\ writes = [o \in Owner |-> 0]
  /\ beat = [o \in Owner |-> "off"] /\ timer = [o \in Owner |-> 0]
  /\ lost = {} /\ closing = {} /\ released = {} /\ shut = {} /\ missed = {}
  /\ op = [r \in Repo |-> "idle"] /\ hand = [r \in Repo |-> 0]
  /\ isClosing = {} /\ toClose = [r \in Repo |-> {}]
  /\ clockSet = FALSE
-----------------------------------------------------------------------------
\* activeStorages, and the one that was added first.
Active(r) == {o \in Owner : home[o] = r /\ o \notin released}
IsFirst(o, S) == o \in S /\ \A p \in S : o <= p

\* The process is between two awaits: nothing else of it runs.
Sync(r) == op[r] \in {"claiming", "creating", "made"}

\* acquireWriterLease finds no row, or one that expired.
ClaimableByAnyone == TRUE   \* a slip: whoever comes takes over
Claimable == lease.owner = 0 \/ lease.left = 0

\* The claim with a new owner id.
Claim ==
  /\ claims < MaxClaims
  /\ claims' = claims + 1
  /\ lease' = [owner |-> claims + 1, left |-> Ttl,
               fence |-> IF lease.owner = 0 THEN 1 ELSE lease.fence + 1]
  /\ fence' = [fence EXCEPT ![claims + 1] = lease'.fence]

\* renewWriterLease changes a row, and releaseWriterLease deletes it.
OwnsByFence(o) == lease.owner # 0 /\ lease.fence = fence[o]   \* a slip: the fence alone
Owns(o) == lease.owner = o /\ lease.fence = fence[o]
Renews(o) == Owns(o) /\ lease.left > 0
Renewed == lease' = [lease EXCEPT !.left = Ttl]

SetOp(r, what) == op' = [op EXCEPT ![r] = what]

\* scheduleHeartbeat sets a timer, clearTimeout takes it off.
SetTimer(o) ==
  beat' = [beat EXCEPT ![o] = "timer"] /\ timer' = [timer EXCEPT ![o] = Heartbeat]
ClearTimer(o) ==
  /\ beat' = [beat EXCEPT ![o] = IF @ = "timer" THEN "off" ELSE @]
  /\ timer' = [timer EXCEPT ![o] = 0]

\* Nothing is left of the storages S.
Forget(S) ==
  /\ home' = [o \in Owner |-> IF o \in S THEN None ELSE home[o]]
  /\ fence' = [o \in Owner |-> IF o \in S THEN 0 ELSE fence[o]]
  /\ born' = [o \in Owner |-> IF o \in S THEN 0 ELSE born[o]]
  /\ writes' = [o \in Owner |-> IF o \in S THEN 0 ELSE writes[o]]
  /\ beat' = [o \in Owner |-> IF o \in S THEN "off" ELSE beat[o]]
  /\ timer' = [o \in Owner |-> IF o \in S THEN 0 ELSE timer[o]]
  /\ lost' = lost \ S /\ closing' = closing \ S /\ released' = released \ S
  /\ shut' = shut \ S /\ missed' = missed \ S
-----------------------------------------------------------------------------
(***************************************************************************)
(* open: an active storage is shared, which changes nothing.  Otherwise    *)
(* claimStorage reads the row and then claims in a transaction that reads  *)
(* it again.  Any transaction may throw, and then leaves nothing behind.   *)
(***************************************************************************)
OpenCheck(r) ==
  /\ op[r] = "idle" /\ Active(r) = {} /\ session # 0
  /\ SetOp(r, "claiming")
  /\ UNCHANGED <<dbVars, storageVars, hand, isClosing, toClose, clockSet>>

\* requireSessionRow inside the transaction.
StillThere == session # 0

OpenClaim(r) ==
  /\ op[r] = "claiming"
  /\ SetOp(r, "idle")
  /\ \/ /\ Claimable /\ StillThere /\ Claim
        /\ home' = [home EXCEPT ![claims + 1] = r]
        /\ born' = [born EXCEPT ![claims + 1] = session]
        /\ SetTimer(claims + 1)
     \/ UNCHANGED <<lease, claims, grantVars, beat, timer>>   \* refused, or it throws
  /\ UNCHANGED <<session, births, log, writes, flagVars, hand, isClosing, toClose, clockSet>>
-----------------------------------------------------------------------------
(***************************************************************************)
(* create (and the second half of fork): sessionExists, then a transaction *)
(* that inserts the rows and claims, then the row is read back.            *)
(***************************************************************************)
CreateCheck(r) ==
  /\ op[r] = "idle" /\ session = 0
  /\ SetOp(r, "creating")
  /\ UNCHANGED <<dbVars, storageVars, hand, isClosing, toClose, clockSet>>

\* The insert fails when another process was faster: the id is the primary key.
CreateInsert(r) ==
  /\ op[r] = "creating"
  /\ \/ /\ session = 0 /\ Claimable /\ births < MaxBirths /\ Claim
        /\ session' = births + 1 /\ births' = births + 1
        /\ born' = [born EXCEPT ![claims + 1] = births + 1]
        /\ hand' = [hand EXCEPT ![r] = claims + 1]
        /\ SetOp(r, "made")
     \/ /\ SetOp(r, "idle")
        /\ UNCHANGED <<session, births, lease, claims, fence, born, hand>>
  /\ UNCHANGED <<log, home, queueVars, flagVars, isClosing, toClose, clockSet>>

CreateDone(r) ==
  /\ op[r] = "made"
  /\ SetOp(r, "idle")
  /\ hand' = [hand EXCEPT ![r] = 0]
  /\ \/ /\ session # 0
        /\ home' = [home EXCEPT ![hand[r]] = r]
        /\ SetTimer(hand[r])
        /\ missed' = IF lease.owner = hand[r] /\ lease.left = Ttl THEN missed
                     ELSE missed \cup {hand[r]}
        /\ UNCHANGED <<fence, born, writes, lost, closing, released, shut>>
     \/ session = 0 /\ Forget({hand[r]})
  /\ UNCHANGED <<dbVars, isClosing, toClose, clockSet>>
-----------------------------------------------------------------------------
(***************************************************************************)
(* The queue of a storage: writes, heartbeats, and the release behind all. *)
(***************************************************************************)
Runs(o) == \E r \in Repo : home[o] = r /\ ~Sync(r)

EnqueueWrite(o) ==
  /\ Runs(o) /\ o \notin closing /\ writes[o] < MaxQueued
  /\ writes' = [writes EXCEPT ![o] = @ + 1]
  /\ UNCHANGED <<dbVars, grantVars, beat, timer, flagVars, repoVars, clockSet>>

Dequeue(o) == Runs(o) /\ writes[o] > 0 /\ writes' = [writes EXCEPT ![o] = @ - 1]

\* The log with another item of o.
WrittenBy(o) == IF log # <<>> /\ log[Len(log)] = o THEN log ELSE Append(log, o)

\* enqueueWrite renews the lease and runs the operation in one transaction.
Write(o) ==
  /\ Dequeue(o) /\ o \notin lost \cup shut /\ Renews(o) /\ session # 0
  /\ log' = WrittenBy(o) /\ Renewed
  /\ UNCHANGED <<session, births, claims, grantVars, beat, timer, flagVars, repoVars, clockSet>>

WriteFindsLeaseLost(o) ==
  /\ Dequeue(o) /\ o \notin lost \cup shut /\ ~Renews(o)
  /\ lost' = lost \cup {o} /\ ClearTimer(o)
  /\ UNCHANGED <<dbVars, grantVars, closing, released, shut, missed, repoVars, clockSet>>

\* The lease was lost before, the database is closed or busy, or the operation throws.
RejectWrite(o) ==
  /\ Dequeue(o)
  /\ UNCHANGED <<dbVars, grantVars, beat, timer, flagVars, repoVars, clockSet>>

TimerFires(o) ==
  /\ Runs(o) /\ beat[o] = "timer" /\ timer[o] = 0
  /\ beat' = [beat EXCEPT ![o] = "queued"]
  /\ UNCHANGED <<dbVars, grantVars, writes, timer, flagVars, repoVars, clockSet>>

\* scheduleHeartbeat and the heartbeat itself look at closing and leaseError.
ScheduledForever(o) == TRUE   \* a slip: they do not
Scheduled(o) == o \notin closing \cup lost

Beats(o) == Runs(o) /\ beat[o] = "queued"

BeatRenews(o) ==
  /\ Beats(o) /\ Scheduled(o) /\ o \notin shut /\ Renews(o)
  /\ Renewed /\ SetTimer(o) /\ missed' = missed \ {o}
  /\ UNCHANGED <<session, births, log, claims, grantVars, writes, lost, closing, released,
                 shut, repoVars, clockSet>>

\* The transaction throws, which is caught: the next heartbeat tries again.
BeatFails(o) ==
  /\ Beats(o) /\ Scheduled(o)
  /\ SetTimer(o) /\ missed' = missed \cup {o}
  /\ UNCHANGED <<dbVars, grantVars, writes, lost, closing, released, shut, repoVars, clockSet>>

\* It finds the lease lost, or does nothing; there is no other after it.
BeatEnds(o) ==
  /\ Beats(o)
  /\ \/ Scheduled(o) /\ o \notin shut /\ ~Renews(o) /\ lost' = lost \cup {o}
     \/ ~Scheduled(o) /\ UNCHANGED lost
  /\ beat' = [beat EXCEPT ![o] = "off"]
  /\ UNCHANGED <<dbVars, grantVars, writes, timer, closing, released, shut, missed, repoVars,
                 clockSet>>
-----------------------------------------------------------------------------
\* finishRelease, up to its place in the queue.
Release(o) ==
  /\ o \notin closing /\ closing' = closing \cup {o}
  /\ ClearTimer(o)
  /\ UNCHANGED <<writes, grantVars, lost, released, shut, missed>>

\* onRelease: the storage is forgotten, but for a timer that still runs.
Released(o) ==
  IF beat[o] = "timer" THEN /\ released' = released \cup {o}
                            /\ UNCHANGED <<grantVars, queueVars, lost, closing, shut, missed>>
                       ELSE Forget({o})

\* The operation of r that waits for the release of o goes on when it is through.
WaitsFor(r, o) == op[r] \in {"releaseDelete", "releaseRepair"} /\ IsFirst(o, Active(r))
ClosesNext(r, o) == r \in isClosing /\ IsFirst(o, toClose[r])

ReleaseDueUnlessLost(o) ==   \* a slip: nothing to give back, nothing to do
  Runs(o) /\ o \in closing \ (released \cup lost) /\ writes[o] = 0 /\ beat[o] # "queued"
ReleaseDue(o) ==
  Runs(o) /\ o \in closing \ released /\ writes[o] = 0 /\ beat[o] # "queued"

RunRelease(o) ==
  /\ ReleaseDue(o) /\ o \notin shut
  /\ lease' = IF Owns(o) THEN NoLease ELSE lease
  /\ Released(o)
  /\ toClose' = [r \in Repo |-> toClose[r] \ {o}]
  /\ UNCHANGED <<session, births, log, claims, op, hand, isClosing, clockSet>>

\* The transaction throws: the storage is forgotten, the claim stays, and those
\* that waited get the error.
FailRelease(o) ==
  /\ ReleaseDue(o)
  /\ Released(o)
  /\ op' = [r \in Repo |-> IF WaitsFor(r, o) THEN "idle" ELSE op[r]]
  /\ isClosing' = {r \in isClosing : ~ClosesNext(r, o)}
  /\ toClose' = [r \in Repo |-> IF ClosesNext(r, o) THEN {} ELSE toClose[r] \ {o}]
  /\ UNCHANGED <<dbVars, hand, clockSet>>
-----------------------------------------------------------------------------
(***************************************************************************)
(* delete and repairBranchCache: the storages of the session are released  *)
(* one after the other, then one transaction claims the session and works. *)
(***************************************************************************)
Begin(r, what) ==
  /\ op[r] = "idle"
  /\ SetOp(r, what)
  /\ UNCHANGED <<dbVars, storageVars, hand, isClosing, toClose, clockSet>>

ReleaseNext(r) ==
  /\ op[r] \in {"releaseDelete", "releaseRepair"}
  /\ \E o \in Owner : IsFirst(o, Active(r)) /\ Release(o)
  /\ UNCHANGED <<dbVars, repoVars, clockSet>>

AllReleased(r) ==
  /\ op[r] \in {"releaseDelete", "releaseRepair"} /\ Active(r) = {}
  /\ SetOp(r, IF op[r] = "releaseDelete" THEN "deleting" ELSE "repairing")
  /\ UNCHANGED <<dbVars, storageVars, hand, isClosing, toClose, clockSet>>

DeleteRows(r) ==
  /\ op[r] = "deleting"
  /\ SetOp(r, "idle")
  /\ \/ /\ session = 0 \/ Claimable
        /\ session' = 0 /\ log' = <<>> /\ lease' = NoLease
     \/ UNCHANGED <<session, log, lease>>
  /\ UNCHANGED <<births, claims, storageVars, hand, isClosing, toClose, clockSet>>

\* It claims, rebuilds the cache and gives the claim back, or does nothing at all.
RebuildCache(r) ==
  /\ op[r] = "repairing"
  /\ SetOp(r, "idle")
  /\ \/ session # 0 /\ Claimable /\ lease' = NoLease
     \/ UNCHANGED lease
  /\ UNCHANGED <<session, births, log, claims, storageVars, hand, isClosing, toClose, clockSet>>
-----------------------------------------------------------------------------
(***************************************************************************)
(* close: it waits for the queue, releases what is active at that point    *)
(* and closes the database, without keeping new operations out meanwhile.  *)
(* With no active storage it changes nothing that is modelled.             *)
(***************************************************************************)
CloseBegin(r) ==
  /\ op[r] = "idle" /\ r \notin isClosing /\ Active(r) # {}
  /\ isClosing' = isClosing \cup {r}
  /\ toClose' = [toClose EXCEPT ![r] = Active(r)]
  /\ UNCHANGED <<dbVars, storageVars, op, hand, clockSet>>

CloseNext(r) ==
  /\ r \in isClosing /\ ~Sync(r)
  /\ \E o \in toClose[r] : IsFirst(o, toClose[r]) /\ Release(o)
  /\ UNCHANGED <<dbVars, repoVars, clockSet>>

\* What was opened meanwhile stays active, with a database that is closed.
CloseDatabase(r) ==
  /\ r \in isClosing /\ toClose[r] = {} /\ ~Sync(r)
  /\ isClosing' = isClosing \ {r}
  /\ shut' = shut \cup Active(r)
  /\ UNCHANGED <<dbVars, grantVars, queueVars, lost, closing, released, missed, op, hand,
                 toClose, clockSet>>
-----------------------------------------------------------------------------
\* The process of r ends, between any two steps; only the database remains.
Crash(r) ==
  /\ Forget({o \in Owner : home[o] = r \/ o = hand[r]})
  /\ SetOp(r, "idle") /\ hand' = [hand EXCEPT ![r] = 0]
  /\ isClosing' = isClosing \ {r} /\ toClose' = [toClose EXCEPT ![r] = {}]
  /\ UNCHANGED <<dbVars, clockSet>>

\* Time passes.  A timer that is due and a heartbeat in the queue are late now.
Tick ==
  /\ lease' = [lease EXCEPT !.left = IF @ = 0 THEN 0 ELSE @ - 1]
  /\ timer' = [o \in Owner |-> IF timer[o] = 0 THEN 0 ELSE timer[o] - 1]
  /\ missed' = missed \cup {o \in Owner : beat[o] # "off" /\ timer[o] = 0}
  /\ UNCHANGED <<session, births, log, claims, grantVars, writes, beat, lost, closing, released,
                 shut, repoVars, clockSet>>

\* The wall clock is set, once; the promise of timely heartbeats is off for
\* those that hold a claim.
SetClock ==
  /\ ~clockSet /\ clockSet' = TRUE
  /\ lease.owner # 0 /\ \E left \in 0..MaxLeft : lease' = [lease EXCEPT !.left = left]
  /\ missed' = missed \cup {o \in Owner : home[o] # None}
  /\ UNCHANGED <<session, births, log, claims, grantVars, queueVars, lost, closing, released,
                 shut, repoVars>>
-----------------------------------------------------------------------------
RepoStep(r) ==
  \/ OpenClaim(r) \/ CreateInsert(r) \/ CreateDone(r)
  \/ ReleaseNext(r) \/ AllReleased(r) \/ DeleteRows(r) \/ RebuildCache(r)
  \/ CloseNext(r) \/ CloseDatabase(r)

Request(r) ==
  \/ "open" \in Asked[r] /\ OpenCheck(r)
  \/ "create" \in Asked[r] /\ CreateCheck(r)
  \/ "close" \in Asked[r] /\ CloseBegin(r)
  \/ "delete" \in Asked[r] /\ Begin(r, "releaseDelete")
  \/ "repair" \in Asked[r] /\ Begin(r, "releaseRepair")

StorageStep(o) ==
  \/ Write(o) \/ WriteFindsLeaseLost(o) \/ RejectWrite(o)
  \/ TimerFires(o) \/ BeatRenews(o) \/ BeatFails(o) \/ BeatEnds(o)
  \/ RunRelease(o) \/ FailRelease(o)

Next ==
  \/ \E r \in Repo : Request(r) \/ RepoStep(r) \/ Crash(r)
  \/ \E o \in Owner : EnqueueWrite(o) \/ StorageStep(o)
  \/ Tick \/ SetClock

\* The event loop of a process runs what is queued, and time passes.
Fairness ==
  /\ \A r \in Repo : WF_vars(RepoStep(r))
  /\ \A o \in Owner : WF_vars(StorageStep(o))
  /\ WF_vars(Tick)

SafetySpec == Init /\ [][Next]_vars
Spec == SafetySpec /\ Fairness
-----------------------------------------------------------------------------
Lease == [owner : 0..MaxClaims, fence : Nat, left : 0..MaxLeft]

DbTypes ==
  /\ session \in 0..MaxBirths /\ births \in 0..MaxBirths
  /\ log \in Seq(Owner) /\ lease \in Lease /\ claims \in 0..MaxClaims
StorageTypes ==
  /\ home \in [Owner -> Repo \cup {None}] /\ fence \in [Owner -> Nat]
  /\ born \in [Owner -> 0..MaxBirths] /\ writes \in [Owner -> 0..MaxQueued]
  /\ beat \in [Owner -> {"off", "timer", "queued"}] /\ timer \in [Owner -> 0..Heartbeat]
  /\ lost \in SUBSET Owner /\ closing \in SUBSET Owner /\ released \in SUBSET Owner
  /\ shut \in SUBSET Owner /\ missed \in SUBSET Owner
RepoTypes ==
  /\ op \in [Repo -> Operation] /\ hand \in [Repo -> 0..MaxClaims]
  /\ isClosing \in SUBSET Repo /\ toClose \in [Repo -> SUBSET Owner]

TypeOK == DbTypes /\ StorageTypes /\ RepoTypes /\ clockSet \in BOOLEAN

\* A writer that lost its lease never gets another item in: what each owner
\* wrote is in one piece.  The fence restarts at 1 when the row was deleted,
\* so it is the owner id that tells two claims apart (renewWriterLease).
WritersDoNotMix == \A i, j \in DOMAIN log : i # j => log[i] # log[j]

\* What a storage writes goes into the session it was opened on, also when that
\* was deleted and another one was created under its id (delete, create).
WritesReachTheirSession ==
  \A i \in DOMAIN log : home[log[i]] # None => born[log[i]] = session

\* There is no claim on a session that does not exist: such a row would keep
\* the id from being created until it expires (claimStorage, delete).
NoClaimWithoutSession == lease.owner # 0 => session # 0

\* A storage whose heartbeats are on time never loses its lease, whatever the
\* other repositories do, unless it is being released (scheduleHeartbeat).
TimelyWriterKeepsLease ==
  lost \subseteq missed \cup closing

\* The holder is gone, or cannot reach the database any more.
Dead(o) ==
  /\ lease.owner = o
  /\ home[o] = None \/ o \in released \cup shut
  /\ \A r \in Repo : hand[r] # o

\* The claim of a writer that crashed, or whose release failed, runs out: its
\* session is not locked for ever.
DeadClaimsExpire == \A o \in Owner : Dead(o) ~> (lease.owner # o \/ lease.left = 0)

\* Every operation of a repository ends, also one that waits for the release of
\* a storage that lost its lease or whose database is closed.
OperationsEnd == \A r \in Repo : op[r] # "idle" ~> op[r] = "idle"

\* The lease implements FencedLog, where only the holder writes and nobody comes back.
Fenced == INSTANCE FencedLog WITH holder <- lease.owner, issued <- claims
ImplementsFencedLog == Fenced!Init /\ [][Fenced!Next]_<<log, lease.owner, claims>>
=============================================================================
