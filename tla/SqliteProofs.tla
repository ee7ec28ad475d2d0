---------------------------- MODULE SqliteProofs -----------------------------
(***************************************************************************)
(* Theorems about the two parts of the sqlite backend: WriterLeases, for   *)
(* any number of repositories, claims and sessions of one id, and for any  *)
(* lease times with Heartbeat < Ttl; and BranchCache: every branch of the  *)
(* cache is the path from its tip to the root, every entry is on one, and  *)
(* a fork is whole whatever the writer did between its reads.              *)
(*                                                                         *)
(* A path is the least set that holds its end and the parents of its       *)
(* members. The lemmas about any tree of parents need no induction over    *)
(* it: where one would be expected, the least element of a set of entries  *)
(* gives the contradiction.                                                *)
(***************************************************************************)
EXTENDS WriterLeases, BranchCache, WellFoundedInduction, TLAPS

\* create() has an owner id in hand exactly between its transaction and its end.
HandWhenMade == \A r \in Repo : op[r] = "made" <=> hand[r] # 0

LEMMA Sizes == /\ Ttl \in Nat /\ Heartbeat \in Nat /\ MaxLeft \in Nat
                  /\ 0 < Heartbeat /\ Heartbeat < Ttl /\ Ttl <= MaxLeft
                  /\ MaxClaims \in Nat /\ MaxBirths \in Nat /\ MaxQueued \in Nat
BY LeaseAssumption DEF LeaseAssumption

LEMMA BlankLease == NoLease \in Lease
BY Sizes DEF NoLease, Lease

LEMMA InitTypes == Init => TypeOK
<1> SUFFICES ASSUME Init PROVE TypeOK OBVIOUS
<1>1. DbTypes BY Sizes, BlankLease DEF Init, DbTypes
<1>2. StorageTypes BY Sizes DEF Init, StorageTypes
<1>3. RepoTypes BY Sizes DEF Init, RepoTypes, Operation
<1> QED BY <1>1, <1>2, <1>3 DEF Init, TypeOK

LEMMA StableDb == DbTypes /\ UNCHANGED dbVars => DbTypes'
BY DEF DbTypes, dbVars

LEMMA StableStorage == StorageTypes /\ UNCHANGED storageVars => StorageTypes'
BY DEF StorageTypes, storageVars, grantVars, queueVars, flagVars

LEMMA StableRepos == RepoTypes /\ UNCHANGED repoVars => RepoTypes'
BY DEF RepoTypes, repoVars

LEMMA SetOpTypes ==
  ASSUME RepoTypes, NEW r \in Repo, NEW what \in Operation, SetOp(r, what)
  PROVE  op' \in [Repo -> Operation]
BY DEF RepoTypes, SetOp

LEMMA ClaimTypes ==
  ASSUME DbTypes, StorageTypes, Claim
  PROVE  /\ claims + 1 \in Owner /\ claims' = claims + 1 /\ claims' \in 0..MaxClaims
         /\ lease' \in Lease /\ lease'.owner = claims + 1 /\ lease'.left = Ttl
         /\ fence' \in [Owner -> Nat] /\ fence'[claims + 1] = lease'.fence
<1>1. /\ claims + 1 \in Owner /\ claims' = claims + 1 /\ claims' \in 0..MaxClaims
  BY Sizes DEF Claim, DbTypes, Owner
<1> DEFINE f == IF lease.owner = 0 THEN 1 ELSE lease.fence + 1
<1>2. f \in Nat BY DEF DbTypes, Lease
<1>3. lease' = [owner |-> claims + 1, left |-> Ttl, fence |-> f] BY DEF Claim
<1>4. claims + 1 \in 0..MaxClaims /\ Ttl \in 0..MaxLeft BY <1>1, Sizes
<1> HIDE DEF f
<1>5. /\ lease' \in Lease /\ lease'.owner = claims + 1 /\ lease'.left = Ttl
      /\ lease'.fence = f
  BY <1>2, <1>3, <1>4 DEF Lease
<1>6. fence' = [fence EXCEPT ![claims + 1] = lease'.fence] BY DEF Claim
<1>7. fence' \in [Owner -> Nat] /\ fence'[claims + 1] = lease'.fence
  BY <1>1, <1>2, <1>5, <1>6 DEF StorageTypes
<1> QED BY <1>1, <1>5, <1>7

LEMMA RenewedTypes ==
  ASSUME lease \in Lease, Renewed
  PROVE  /\ lease' \in Lease /\ lease'.owner = lease.owner
         /\ lease'.fence = lease.fence /\ lease'.left = Ttl
BY Sizes DEF Renewed, Lease

LEMMA TimerTypes ==
  ASSUME StorageTypes, NEW o \in Owner, SetTimer(o) \/ ClearTimer(o)
  PROVE  /\ beat' \in [Owner -> {"off", "timer", "queued"}] /\ timer' \in [Owner -> 0..Heartbeat]
BY Sizes DEF StorageTypes, SetTimer, ClearTimer

LEMMA ForgetTypes == ASSUME StorageTypes, NEW S, Forget(S) PROVE StorageTypes'
BY Sizes DEF StorageTypes, Forget

LEMMA DequeueTypes ==
  ASSUME StorageTypes, NEW o \in Owner, Dequeue(o)
  PROVE  writes' \in [Owner -> 0..MaxQueued]
BY Sizes DEF StorageTypes, Dequeue

LEMMA OpenTypes ==
  ASSUME TypeOK, NEW r \in Repo, OpenCheck(r) \/ OpenClaim(r)
  PROVE  TypeOK'
<1> USE DEF TypeOK
<1>1. CASE OpenCheck(r)
  BY <1>1, StableDb, StableStorage, SetOpTypes DEF OpenCheck, RepoTypes, Operation
<1>2. CASE OpenClaim(r)
  <2>1. RepoTypes' BY <1>2, SetOpTypes DEF OpenClaim, RepoTypes, Operation
  <2>2. CASE /\ Claim
             /\ home' = [home EXCEPT ![claims + 1] = r]
             /\ born' = [born EXCEPT ![claims + 1] = session]
             /\ SetTimer(claims + 1)
    <3>1. DbTypes' BY <1>2, <2>2, ClaimTypes DEF OpenClaim, DbTypes
    <3>2. /\ home' \in [Owner -> Repo \cup {None}] /\ born' \in [Owner -> 0..MaxBirths]
      BY <2>2, ClaimTypes DEF StorageTypes, DbTypes
    <3>3. StorageTypes'
      BY <1>2, <2>2, <3>2, ClaimTypes, TimerTypes DEF OpenClaim, StorageTypes, flagVars
    <3> QED BY <1>2, <2>1, <3>1, <3>3 DEF OpenClaim
  <2>3. CASE UNCHANGED <<lease, claims, grantVars, beat, timer>>
    <3>1. UNCHANGED dbVars /\ UNCHANGED storageVars /\ UNCHANGED clockSet
      BY <1>2, <2>3 DEF OpenClaim, dbVars, storageVars, queueVars
    <3> QED BY <2>1, <3>1, StableDb, StableStorage
  <2> QED BY <1>2, <2>2, <2>3 DEF OpenClaim
<1> QED BY <1>1, <1>2

LEMMA CreateTypes ==
  ASSUME TypeOK, HandWhenMade, NEW r \in Repo, CreateCheck(r) \/ CreateInsert(r) \/ CreateDone(r)
  PROVE  TypeOK'
<1> USE DEF TypeOK
<1>1. CASE CreateCheck(r)
  BY <1>1, StableDb, StableStorage, SetOpTypes DEF CreateCheck, RepoTypes, Operation
<1>2. CASE CreateInsert(r)
  <2>1. CASE /\ births < MaxBirths /\ Claim
             /\ session' = births + 1 /\ births' = births + 1
             /\ born' = [born EXCEPT ![claims + 1] = births + 1]
             /\ hand' = [hand EXCEPT ![r] = claims + 1]
             /\ SetOp(r, "made")
    <3>1. births + 1 \in 0..MaxBirths BY <2>1, Sizes DEF DbTypes
    <3>2. DbTypes' BY <1>2, <2>1, <3>1, ClaimTypes DEF CreateInsert, DbTypes
    <3>3. born' \in [Owner -> 0..MaxBirths] BY <2>1, <3>1, ClaimTypes DEF StorageTypes
    <3>4. StorageTypes'
      BY <1>2, <2>1, <3>3, ClaimTypes DEF CreateInsert, StorageTypes, queueVars, flagVars
    <3>5. RepoTypes' BY <1>2, <2>1, SetOpTypes, ClaimTypes DEF CreateInsert, RepoTypes, Operation, Owner
    <3> QED BY <1>2, <3>2, <3>4, <3>5 DEF CreateInsert
  <2>2. CASE SetOp(r, "idle") /\ UNCHANGED <<session, births, lease, claims, fence, born, hand>>
    <3>1. UNCHANGED dbVars /\ UNCHANGED storageVars /\ UNCHANGED clockSet
      BY <1>2, <2>2 DEF CreateInsert, dbVars, storageVars, grantVars
    <3>2. RepoTypes' BY <1>2, <2>2, SetOpTypes DEF CreateInsert, RepoTypes, Operation
    <3> QED BY <3>1, <3>2, StableDb, StableStorage
  <2> QED BY <1>2, <2>1, <2>2 DEF CreateInsert
<1>3. CASE CreateDone(r)
  <2>1. RepoTypes' BY <1>3, SetOpTypes, Sizes DEF CreateDone, RepoTypes, Operation
  <2>2. CASE Forget({hand[r]}) BY <1>3, <2>1, <2>2, StableDb, ForgetTypes DEF CreateDone
  <2>3. CASE /\ home' = [home EXCEPT ![hand[r]] = r]
             /\ SetTimer(hand[r])
             /\ missed' = IF lease.owner = hand[r] /\ lease.left = Ttl THEN missed
                          ELSE missed \cup {hand[r]}
             /\ UNCHANGED <<fence, born, writes, lost, closing, released, shut>>
    <3>1. hand[r] \in Owner BY <1>3, Sizes DEF CreateDone, HandWhenMade, RepoTypes, Owner
    <3>2. missed' \in SUBSET Owner BY <2>3, <3>1 DEF StorageTypes
    <3>3. home' \in [Owner -> Repo \cup {None}] BY <2>3, <3>1 DEF StorageTypes
    <3>4. StorageTypes' BY <2>3, <3>1, <3>2, <3>3, TimerTypes DEF StorageTypes
    <3> QED BY <1>3, <2>1, <3>4, StableDb DEF CreateDone
  <2> QED BY <1>3, <2>2, <2>3 DEF CreateDone
<1> QED BY <1>1, <1>2, <1>3

LEMMA QueueTypes ==
  ASSUME TypeOK, NEW o \in Owner,
         \/ EnqueueWrite(o) \/ Write(o) \/ WriteFindsLeaseLost(o) \/ RejectWrite(o)
         \/ TimerFires(o) \/ BeatRenews(o) \/ BeatFails(o) \/ BeatEnds(o)
  PROVE  TypeOK'
<1> USE StableRepos DEF TypeOK
<1>1. CASE EnqueueWrite(o)
  <2>1. writes' \in [Owner -> 0..MaxQueued] BY <1>1, Sizes DEF EnqueueWrite, StorageTypes
  <2> QED BY <1>1, <2>1, StableDb DEF EnqueueWrite, StorageTypes, grantVars, flagVars
<1>2. CASE Write(o)
  <2>1. log' \in Seq(Owner) BY <1>2 DEF Write, WrittenBy, DbTypes
  <2>2. DbTypes' BY <1>2, <2>1, RenewedTypes DEF Write, DbTypes
  <2> QED BY <1>2, <2>2, DequeueTypes DEF Write, StorageTypes, grantVars, flagVars
<1>3. CASE WriteFindsLeaseLost(o)
  BY <1>3, StableDb, DequeueTypes, TimerTypes DEF WriteFindsLeaseLost, StorageTypes, grantVars
<1>4. CASE RejectWrite(o)
  BY <1>4, StableDb, DequeueTypes DEF RejectWrite, StorageTypes, grantVars, flagVars
<1>5. CASE TimerFires(o)
  BY <1>5, StableDb DEF TimerFires, StorageTypes, grantVars, flagVars
<1>6. CASE BeatRenews(o)
  <2>1. DbTypes' BY <1>6, RenewedTypes DEF BeatRenews, DbTypes
  <2> QED BY <1>6, <2>1, TimerTypes DEF BeatRenews, StorageTypes, grantVars
<1>7. CASE BeatFails(o)
  BY <1>7, StableDb, TimerTypes DEF BeatFails, StorageTypes, grantVars
<1>8. CASE BeatEnds(o)
  BY <1>8, StableDb DEF BeatEnds, StorageTypes, grantVars
<1> QED BY <1>1, <1>2, <1>3, <1>4, <1>5, <1>6, <1>7, <1>8

LEMMA ReleasedTypes ==
  ASSUME StorageTypes, NEW o \in Owner, Release(o) \/ Released(o)
  PROVE  StorageTypes'
<1>1. CASE Release(o)
  BY <1>1, TimerTypes DEF Release, StorageTypes, grantVars
<1>2. CASE Released(o)
  BY <1>2, ForgetTypes DEF Released, StorageTypes, grantVars, queueVars
<1> QED BY <1>1, <1>2

LEMMA ReleaseTypes ==
  ASSUME TypeOK, NEW o \in Owner, RunRelease(o) \/ FailRelease(o)
  PROVE  TypeOK'
<1> USE DEF TypeOK
<1>1. CASE RunRelease(o)
  <2>1. DbTypes' BY <1>1, BlankLease DEF RunRelease, DbTypes
  <2>2. RepoTypes' BY <1>1 DEF RunRelease, RepoTypes
  <2> QED BY <1>1, <2>1, <2>2, ReleasedTypes DEF RunRelease
<1>2. CASE FailRelease(o)
  <2>1. op' \in [Repo -> Operation] BY <1>2 DEF FailRelease, RepoTypes, Operation
  <2>2. RepoTypes' BY <1>2, <2>1 DEF FailRelease, RepoTypes
  <2> QED BY <1>2, <2>2, ReleasedTypes, StableDb DEF FailRelease
<1> QED BY <1>1, <1>2

LEMMA OperationTypes ==
  ASSUME TypeOK, NEW r \in Repo,
         \/ Begin(r, "releaseDelete") \/ Begin(r, "releaseRepair")
         \/ ReleaseNext(r) \/ AllReleased(r) \/ DeleteRows(r) \/ RebuildCache(r)
  PROVE  TypeOK'
<1> USE DEF TypeOK
<1>1. CASE Begin(r, "releaseDelete") \/ Begin(r, "releaseRepair")
  BY <1>1, StableDb, StableStorage, SetOpTypes DEF Begin, RepoTypes, Operation
<1>2. CASE ReleaseNext(r)
  BY <1>2, StableDb, StableRepos, ReleasedTypes DEF ReleaseNext
<1>3. CASE AllReleased(r)
  BY <1>3, StableDb, StableStorage, SetOpTypes DEF AllReleased, RepoTypes, Operation
<1>4. CASE DeleteRows(r)
  <2>1. <<>> \in Seq(Owner) /\ 0 \in 0..MaxBirths BY Sizes
  <2>2. /\ session' \in {0, session} /\ log' \in {<<>>, log} /\ lease' \in {NoLease, lease}
        /\ UNCHANGED <<births, claims>>
    BY <1>4 DEF DeleteRows
  <2>3. DbTypes' BY <2>1, <2>2, BlankLease DEF DbTypes
  <2> QED BY <1>4, <2>3, StableStorage, SetOpTypes DEF DeleteRows, RepoTypes, Operation
<1>5. CASE RebuildCache(r)
  <2>1. DbTypes' BY <1>5, BlankLease DEF RebuildCache, DbTypes
  <2> QED BY <1>5, <2>1, StableStorage, SetOpTypes DEF RebuildCache, RepoTypes, Operation
<1> QED BY <1>1, <1>2, <1>3, <1>4, <1>5

LEMMA CloseTypes ==
  ASSUME TypeOK, NEW r \in Repo,
         CloseBegin(r) \/ CloseNext(r) \/ CloseDatabase(r) \/ Crash(r)
  PROVE  TypeOK'
<1> USE DEF TypeOK
<1>0. Active(r) \subseteq Owner BY DEF Active
<1>1. CASE CloseBegin(r)
  BY <1>0, <1>1, StableDb, StableStorage DEF CloseBegin, RepoTypes
<1>2. CASE CloseNext(r)
  <2>1. toClose[r] \subseteq Owner BY DEF RepoTypes
  <2> QED BY <1>2, <2>1, StableDb, StableRepos, ReleasedTypes DEF CloseNext
<1>3. CASE CloseDatabase(r)
  <2>1. RepoTypes' BY <1>3 DEF CloseDatabase, RepoTypes
  <2>2. StorageTypes' BY <1>0, <1>3 DEF CloseDatabase, StorageTypes, grantVars, queueVars
  <2> QED BY <1>3, <2>1, <2>2, StableDb DEF CloseDatabase
<1>4. CASE Crash(r)
  BY <1>4, StableDb, ForgetTypes, SetOpTypes, Sizes DEF Crash, RepoTypes, Operation
<1> QED BY <1>1, <1>2, <1>3, <1>4

LEMMA TimeTypes == ASSUME TypeOK, Tick \/ SetClock PROVE TypeOK'
<1> USE StableRepos DEF TypeOK
<1>1. CASE Tick
  <2>1. lease' \in Lease BY <1>1, Sizes, SMTT(30) DEF Tick, DbTypes, Lease
  <2>2. timer' \in [Owner -> 0..Heartbeat] BY <1>1, Sizes DEF Tick, StorageTypes
  <2>3. DbTypes' BY <1>1, <2>1 DEF Tick, DbTypes
  <2>4. StorageTypes' BY <1>1, <2>2 DEF Tick, StorageTypes, grantVars
  <2> QED BY <1>1, <2>3, <2>4 DEF Tick
<1>2. CASE SetClock
  <2>1. lease' \in Lease BY <1>2 DEF SetClock, DbTypes, Lease
  <2>2. DbTypes' BY <1>2, <2>1 DEF SetClock, DbTypes
  <2>3. StorageTypes' BY <1>2 DEF SetClock, StorageTypes, grantVars, queueVars
  <2> QED BY <1>2, <2>2, <2>3 DEF SetClock
<1> QED BY <1>1, <1>2

LEMMA NextHand == TypeOK /\ HandWhenMade /\ [Next]_vars => HandWhenMade'
<1> SUFFICES ASSUME TypeOK, HandWhenMade, [Next]_vars PROVE HandWhenMade' OBVIOUS
<1> USE DEF TypeOK, HandWhenMade, RepoTypes, SetOp
<1>1. ASSUME NEW r \in Repo, Request(r) \/ RepoStep(r) \/ Crash(r) PROVE HandWhenMade'
  <2>1. claims + 1 # 0 BY DEF DbTypes
  <2>2. CASE Request(r) BY <2>2 DEF Request, OpenCheck, CreateCheck, CloseBegin, Begin
  <2>3. CASE OpenClaim(r) \/ CreateDone(r) \/ AllReleased(r) \/ Crash(r)
    BY <2>3 DEF OpenClaim, CreateDone, AllReleased, Crash
  <2>4. CASE CreateInsert(r) BY <2>1, <2>4 DEF CreateInsert
  <2>5. CASE ReleaseNext(r) \/ DeleteRows(r) \/ RebuildCache(r) \/ CloseNext(r) \/ CloseDatabase(r)
    BY <2>5 DEF ReleaseNext, DeleteRows, RebuildCache, CloseNext, CloseDatabase, repoVars
  <2> QED BY <1>1, <2>2, <2>3, <2>4, <2>5 DEF RepoStep
<1>2. ASSUME NEW o \in Owner, EnqueueWrite(o) \/ StorageStep(o) PROVE HandWhenMade'
  <2>1. CASE RunRelease(o) BY <2>1 DEF RunRelease
  <2>2. CASE FailRelease(o) BY <2>2 DEF FailRelease, WaitsFor
  <2>3. CASE UNCHANGED repoVars BY <2>3 DEF repoVars
  <2> QED BY <1>2, <2>1, <2>2, <2>3 DEF StorageStep, EnqueueWrite, Write, WriteFindsLeaseLost,
                RejectWrite, TimerFires, BeatRenews, BeatFails, BeatEnds
<1>3. CASE Tick \/ SetClock BY <1>3 DEF Tick, SetClock, repoVars
<1>4. CASE UNCHANGED vars BY <1>4 DEF vars, repoVars
<1> QED BY <1>1, <1>2, <1>3, <1>4 DEF Next

LEMMA NextTypes == TypeOK /\ HandWhenMade /\ [Next]_vars => TypeOK'
<1> SUFFICES ASSUME TypeOK, HandWhenMade, [Next]_vars PROVE TypeOK' OBVIOUS
<1>1. ASSUME NEW r \in Repo, Request(r) \/ RepoStep(r) \/ Crash(r) PROVE TypeOK'
  BY <1>1, OpenTypes, CreateTypes, OperationTypes, CloseTypes DEF Request, RepoStep
<1>2. ASSUME NEW o \in Owner, EnqueueWrite(o) \/ StorageStep(o) PROVE TypeOK'
  BY <1>2, QueueTypes, ReleaseTypes DEF StorageStep
<1>3. CASE UNCHANGED vars
  BY <1>3, StableDb, StableStorage, StableRepos DEF vars, TypeOK
<1> QED BY <1>1, <1>2, <1>3, TimeTypes DEF Next

LEMMA Typed == SafetySpec => [](TypeOK /\ HandWhenMade)
<1>1. Init => HandWhenMade BY DEF Init, HandWhenMade
<1> QED BY <1>1, InitTypes, NextTypes, NextHand, PTL DEF SafetySpec

\* Every variable keeps its type (TypeOK).
THEOREM TypeCorrect == SafetySpec => []TypeOK
BY Typed, PTL
-----------------------------------------------------------------------------
(***************************************************************************)
(* The refinement: each step grants a claim, adds an item of the holder,   *)
(* vacates the claim or leaves the lease and the log to what they are.     *)
(***************************************************************************)
fencedVars == <<log, lease.owner, claims>>

LEMMA ClaimGrants == TypeOK /\ Claim /\ UNCHANGED log => Fenced!Grant
<1> SUFFICES ASSUME TypeOK, Claim, UNCHANGED log PROVE Fenced!Grant OBVIOUS
<1>1. claims' = claims + 1 /\ lease'.owner = claims + 1 BY ClaimTypes DEF TypeOK
<1> QED BY <1>1 DEF Fenced!Grant

LEMMA WriteAdds ==
  ASSUME TypeOK, NEW o \in Owner, Renews(o), log' = WrittenBy(o), Renewed, UNCHANGED claims
  PROVE  Fenced!Add
<1>1. lease.owner = o /\ o # 0 BY Sizes DEF Renews, Owns, Owner
<1>2. lease'.owner = lease.owner BY RenewedTypes DEF TypeOK, DbTypes
<1> QED BY <1>1, <1>2 DEF Fenced!Add, WrittenBy

LEMMA NoLeaseVacates ==
  ASSUME lease' = NoLease, log' \in {log, <<>>}, UNCHANGED claims
  PROVE  Fenced!Vacate
BY DEF NoLease, Fenced!Vacate

LEMMA NextFenced == TypeOK /\ [Next]_vars => [Fenced!Next]_fencedVars
<1> SUFFICES ASSUME TypeOK, [Next]_vars PROVE Fenced!Next \/ UNCHANGED fencedVars
  BY DEF fencedVars
<1> DEFINE Step == Fenced!Next \/ UNCHANGED fencedVars
<1>0. Fenced!Grant \/ Fenced!Add \/ Fenced!Vacate => Step BY DEF Fenced!Next
<1>u. UNCHANGED dbVars => Step BY DEF dbVars, fencedVars
<1> HIDE DEF Step
<1>1. ASSUME NEW r \in Repo, Request(r) \/ RepoStep(r) \/ Crash(r) PROVE Step
  <2>1. CASE OpenClaim(r)
    <3>1. CASE Claim BY <1>0, <2>1, <3>1, ClaimGrants DEF OpenClaim
    <3>2. CASE UNCHANGED <<lease, claims>> BY <1>u, <2>1, <3>2 DEF OpenClaim, dbVars
    <3> QED BY <2>1, <3>1, <3>2 DEF OpenClaim
  <2>2. CASE CreateInsert(r)
    <3>1. CASE Claim BY <1>0, <2>2, <3>1, ClaimGrants DEF CreateInsert
    <3>2. CASE UNCHANGED <<session, births, lease, claims>>
      BY <1>u, <2>2, <3>2 DEF CreateInsert, dbVars
    <3> QED BY <2>2, <3>1, <3>2 DEF CreateInsert
  <2>3. CASE DeleteRows(r)
    <3>1. CASE lease' = NoLease /\ log' = <<>>
      BY <1>0, <2>3, <3>1, NoLeaseVacates DEF DeleteRows
    <3>2. CASE UNCHANGED <<session, log, lease>> BY <1>u, <2>3, <3>2 DEF DeleteRows, dbVars
    <3> QED BY <2>3, <3>1, <3>2 DEF DeleteRows
  <2>4. CASE RebuildCache(r)
    <3>1. CASE lease' = NoLease BY <1>0, <2>4, <3>1, NoLeaseVacates DEF RebuildCache
    <3>2. CASE UNCHANGED lease BY <1>u, <2>4, <3>2 DEF RebuildCache, dbVars
    <3> QED BY <2>4, <3>1, <3>2 DEF RebuildCache
  <2>5. CASE UNCHANGED dbVars BY <1>u, <2>5
  <2> QED BY <1>1, <2>1, <2>2, <2>3, <2>4, <2>5 DEF Request, RepoStep, OpenCheck, CreateCheck,
        CloseBegin, Begin, CreateDone, ReleaseNext, AllReleased, CloseNext, CloseDatabase, Crash
<1>2. ASSUME NEW o \in Owner, EnqueueWrite(o) \/ StorageStep(o) PROVE Step
  <2>1. CASE Write(o) BY <1>0, <2>1, WriteAdds DEF Write
  <2>2. CASE BeatRenews(o)
    <3>1. lease'.owner = lease.owner BY <2>2, RenewedTypes DEF BeatRenews, TypeOK, DbTypes
    <3> QED BY <2>2, <3>1 DEF BeatRenews, Step, fencedVars
  <2>3. CASE RunRelease(o)
    <3>1. CASE lease' = NoLease BY <1>0, <2>3, <3>1, NoLeaseVacates DEF RunRelease
    <3>2. CASE lease' = lease BY <1>u, <2>3, <3>2 DEF RunRelease, dbVars
    <3> QED BY <2>3, <3>1, <3>2 DEF RunRelease
  <2>4. CASE UNCHANGED dbVars BY <1>u, <2>4
  <2> QED BY <1>2, <2>1, <2>2, <2>3, <2>4 DEF StorageStep, EnqueueWrite, WriteFindsLeaseLost,
        RejectWrite, TimerFires, BeatFails, BeatEnds, FailRelease
<1>3. CASE Tick \/ SetClock
  <2>1. lease'.owner = lease.owner
    BY <1>3 DEF Tick, SetClock, TypeOK, DbTypes, Lease
  <2> QED BY <1>3, <2>1 DEF Tick, SetClock, Step, fencedVars
<1>4. CASE UNCHANGED vars BY <1>4 DEF vars, dbVars, fencedVars, Step
<1> QED BY <1>1, <1>2, <1>3, <1>4 DEF Next, Step

\* Claims, writes, heartbeats, releases and the steps of other processes implement
\* the fenced log: only the holder of the latest claim writes, and no claim comes back.
THEOREM LeaseImplementsFencedLog == SafetySpec => ImplementsFencedLog
<1>1. Init => Fenced!Init BY DEF Init, NoLease, Fenced!Init
<1>2. TypeOK /\ [Next]_vars => [Fenced!Next]_<<log, lease.owner, claims>>
  BY NextFenced DEF fencedVars
<1> QED BY <1>1, <1>2, TypeCorrect, PTL DEF SafetySpec, ImplementsFencedLog
-----------------------------------------------------------------------------
(***************************************************************************)
(* What a fenced log keeps: the holder and the writers were granted a      *)
(* claim, and of the writers only the last one can still be the holder.    *)
(***************************************************************************)
LogInv ==
  /\ lease.owner <= claims
  /\ \A i \in DOMAIN log : log[i] <= claims
  /\ \A i \in DOMAIN log : log[i] = lease.owner => i = Len(log)
  /\ WritersDoNotMix

LEMMA NextLogInv == TypeOK /\ LogInv /\ [Next]_vars => LogInv'
<1> SUFFICES ASSUME TypeOK, LogInv, [Next]_vars PROVE LogInv' OBVIOUS
<1> USE DEF LogInv, WritersDoNotMix
<1>1. log \in Seq(Owner) /\ claims \in Nat /\ lease.owner \in Nat
  BY Sizes DEF TypeOK, DbTypes, Lease
<1>o. \A o \in Owner : o \in Nat /\ o # 0 BY Sizes DEF Owner
<1>2. CASE Fenced!Grant
  <2>1. log' = log /\ claims' = claims + 1 /\ lease'.owner = claims + 1
    BY <1>2 DEF Fenced!Grant
  <2>2. \A i \in DOMAIN log : log[i] \in Nat BY <1>1, <1>o
  <2> QED BY <1>1, <2>1, <2>2
<1>3. CASE Fenced!Add
  <2>1. /\ lease'.owner = lease.owner /\ claims' = claims /\ lease.owner # 0
        /\ log' = IF log # <<>> /\ log[Len(log)] = lease.owner THEN log
                  ELSE Append(log, lease.owner)
    BY <1>3 DEF Fenced!Add
  <2>2. CASE log' = log BY <2>1, <2>2
  <2>3. CASE ~(log # <<>> /\ log[Len(log)] = lease.owner)
    <3>1. \A i \in DOMAIN log : log[i] # lease.owner BY <1>1, <2>3
    <3>2. log' = Append(log, lease.owner) BY <2>1, <2>3
    <3>3. /\ DOMAIN log' = 1..(Len(log) + 1) /\ DOMAIN log = 1..Len(log)
          /\ Len(log') = Len(log) + 1 /\ Len(log) \in Nat
          /\ log'[Len(log) + 1] = lease.owner
          /\ \A i \in 1..Len(log) : log'[i] = log[i]
      BY <1>1, <3>2
    <3>4. \A i \in DOMAIN log' : i \in DOMAIN log \/ i = Len(log) + 1 BY <3>3
    <3> QED BY <2>1, <3>1, <3>3, <3>4
  <2> QED BY <2>1, <2>2, <2>3
<1>4. CASE Fenced!Vacate
  <2>1. lease'.owner = 0 /\ claims' = claims /\ log' \in {log, <<>>} BY <1>4 DEF Fenced!Vacate
  <2>2. \A i \in DOMAIN log : log[i] # 0 BY <1>1, <1>o
  <2>3. CASE log' = <<>> BY <1>1, <2>1, <2>3
  <2>4. CASE log' = log BY <1>1, <2>1, <2>2, <2>4
  <2> QED BY <2>1, <2>3, <2>4
<1>5. CASE UNCHANGED fencedVars BY <1>5 DEF fencedVars
<1> QED BY <1>2, <1>3, <1>4, <1>5, NextFenced DEF Fenced!Next, fencedVars

\* What each owner wrote is in one piece (WritersDoNotMix): a writer that lost its
\* lease, and one that was replaced under the same fence number, gets nothing in.
THEOREM WritersStayApart == SafetySpec => []WritersDoNotMix
<1>1. Init => LogInv BY Sizes DEF Init, LogInv, NoLease, WritersDoNotMix
<1>2. LogInv => WritersDoNotMix BY DEF LogInv
<1> QED BY <1>1, <1>2, NextLogInv, TypeCorrect, PTL DEF SafetySpec
-----------------------------------------------------------------------------
(***************************************************************************)
(* Claims and sessions: there is no row without a session, and no item.    *)
(***************************************************************************)
Rows == NoClaimWithoutSession /\ (session = 0 => log = <<>>)

LEMMA NextRows == TypeOK /\ Rows /\ [Next]_vars => Rows'
<1> SUFFICES ASSUME TypeOK, Rows, [Next]_vars PROVE Rows' OBVIOUS
<1> USE DEF Rows, NoClaimWithoutSession
<1>u. ASSUME UNCHANGED dbVars PROVE Rows' BY <1>u DEF dbVars
<1>n. NoLease.owner = 0 BY DEF NoLease
<1>1. ASSUME NEW r \in Repo, Request(r) \/ RepoStep(r) \/ Crash(r) PROVE Rows'
  <2>1. CASE OpenClaim(r)
    <3>1. CASE StillThere BY <2>1, <3>1 DEF OpenClaim, StillThere
    <3>2. CASE UNCHANGED <<lease, claims>> BY <2>1, <3>2 DEF OpenClaim
    <3> QED BY <2>1, <3>1, <3>2 DEF OpenClaim
  <2>2. CASE CreateInsert(r)
    <3>1. CASE session' = births + 1
      <4>1. session' # 0 BY <3>1, Sizes DEF TypeOK, DbTypes
      <4> QED BY <4>1
    <3>2. CASE UNCHANGED <<session, births, lease, claims>> BY <2>2, <3>2 DEF CreateInsert
    <3> QED BY <2>2, <3>1, <3>2 DEF CreateInsert
  <2>3. CASE DeleteRows(r)
    <3>1. CASE lease' = NoLease /\ log' = <<>> BY <1>n, <3>1
    <3>2. CASE UNCHANGED <<session, log, lease>> BY <3>2
    <3> QED BY <2>3, <3>1, <3>2 DEF DeleteRows
  <2>4. CASE RebuildCache(r)
    BY <1>n, <2>4 DEF RebuildCache
  <2>5. CASE UNCHANGED dbVars BY <1>u, <2>5
  <2> QED BY <1>1, <2>1, <2>2, <2>3, <2>4, <2>5 DEF Request, RepoStep, OpenCheck, CreateCheck,
        CloseBegin, Begin, CreateDone, ReleaseNext, AllReleased, CloseNext, CloseDatabase, Crash
<1>2. ASSUME NEW o \in Owner, EnqueueWrite(o) \/ StorageStep(o) PROVE Rows'
  <2>1. CASE Write(o) BY <2>1 DEF Write
  <2>2. CASE BeatRenews(o)
    <3>1. lease'.owner = lease.owner BY <2>2, RenewedTypes DEF BeatRenews, TypeOK, DbTypes
    <3> QED BY <2>2, <3>1 DEF BeatRenews
  <2>3. CASE RunRelease(o) BY <1>n, <2>3 DEF RunRelease
  <2>4. CASE UNCHANGED dbVars BY <1>u, <2>4
  <2> QED BY <1>2, <2>1, <2>2, <2>3, <2>4 DEF StorageStep, EnqueueWrite, WriteFindsLeaseLost,
        RejectWrite, TimerFires, BeatFails, BeatEnds, FailRelease
<1>3. CASE Tick \/ SetClock
  <2>1. lease'.owner = lease.owner
    BY <1>3 DEF Tick, SetClock, TypeOK, DbTypes, Lease
  <2> QED BY <1>3, <2>1 DEF Tick, SetClock
<1>4. CASE UNCHANGED vars BY <1>4 DEF vars, dbVars
<1> QED BY <1>1, <1>2, <1>3, <1>4 DEF Next

\* A session that does not exist has no claim (NoClaimWithoutSession): whoever claims
\* reads the session's row in the same transaction.
THEOREM ClaimsHaveSessions == SafetySpec => []NoClaimWithoutSession
<1>1. Init => Rows BY DEF Init, Rows, NoLease, NoClaimWithoutSession
<1>2. Rows => NoClaimWithoutSession BY DEF Rows
<1> QED BY <1>1, <1>2, NextRows, TypeCorrect, PTL DEF SafetySpec
-----------------------------------------------------------------------------
(***************************************************************************)
(* Who knows what it holds: the storage, or the create() that is about to  *)
(* make it, under the owner id in the row has the session and the fence of *)
(* that row.                                                               *)
(***************************************************************************)
Hands ==
  \A r \in Repo : hand[r] # 0 =>
    /\ hand[r] <= claims /\ home[hand[r]] = None
    /\ \A i \in DOMAIN log : log[i] # hand[r]
    /\ \A q \in Repo : hand[q] = hand[r] => q = r
Held(o) == home[o] # None \/ \E r \in Repo : hand[r] = o
HolderKnows ==
  \A o \in Owner : lease.owner = o /\ Held(o) => born[o] = session /\ fence[o] = lease.fence
Fresh == \A o \in Owner : home[o] # None => o <= claims
KnownInv == Hands /\ HolderKnows /\ Fresh /\ WritesReachTheirSession

\* Nothing that the invariant speaks of becomes more.
LEMMA KnownStays ==
  ASSUME TypeOK, KnownInv, UNCHANGED <<session, claims>>,
         lease'.owner # 0 => lease'.owner = lease.owner /\ lease'.fence = lease.fence,
         log' \in {log, <<>>},
         \A o \in Owner : home'[o] # None =>
            home[o] # None /\ born'[o] = born[o] /\ fence'[o] = fence[o],
         \A r \in Repo : hand'[r] # 0 => /\ hand'[r] = hand[r]
                                        /\ born'[hand[r]] = born[hand[r]]
                                        /\ fence'[hand[r]] = fence[hand[r]]
  PROVE  KnownInv'
<1> USE DEF KnownInv
<1>1. \A i \in DOMAIN log' : i \in DOMAIN log /\ log'[i] = log[i] /\ log[i] \in Owner
  BY DEF TypeOK, DbTypes
<1>o. \A o \in Owner : o # 0 BY Sizes DEF Owner
<1>h. \A r \in Repo : hand[r] # 0 => hand[r] \in Owner BY Sizes DEF TypeOK, RepoTypes, Owner
<1>2. Hands' 
  <2> SUFFICES ASSUME NEW r \in Repo, hand'[r] # 0
               PROVE  /\ hand'[r] <= claims' /\ home'[hand'[r]] = None
                      /\ \A i \in DOMAIN log' : log'[i] # hand'[r]
                      /\ \A q \in Repo : hand'[q] = hand'[r] => q = r
    BY DEF Hands
  <2>1. hand'[r] = hand[r] /\ hand[r] \in Owner BY <1>h
  <2> QED BY <1>1, <2>1 DEF Hands
<1>3. \A o \in Owner : Held(o)' => Held(o) /\ born'[o] = born[o] /\ fence'[o] = fence[o]
  BY <1>o DEF Held
<1>4. HolderKnows' BY <1>o, <1>3 DEF HolderKnows
<1>5. WritesReachTheirSession' BY <1>1 DEF WritesReachTheirSession
<1>6. Fresh' BY DEF Fresh
<1> QED BY <1>2, <1>4, <1>5, <1>6

LEMMA KnownUnchanged ==
  ASSUME TypeOK, KnownInv, UNCHANGED <<session, claims, log, grantVars, hand>>,
         lease'.owner = lease.owner, lease'.fence = lease.fence
  PROVE  KnownInv'
BY KnownStays DEF grantVars

LEMMA KnownOpen ==
  ASSUME TypeOK, LogInv, KnownInv, NEW r \in Repo, OpenClaim(r)
  PROVE  KnownInv'
<1>0. UNCHANGED <<session, log, hand>> BY DEF OpenClaim
<1>1. CASE /\ Claim
           /\ home' = [home EXCEPT ![claims + 1] = r]
           /\ born' = [born EXCEPT ![claims + 1] = session]
  <2>1. /\ claims + 1 \in Owner /\ claims' = claims + 1 /\ lease'.owner = claims + 1
        /\ fence'[claims + 1] = lease'.fence /\ claims \in Nat
    BY <1>1, ClaimTypes DEF TypeOK, DbTypes
  <2>2. /\ \A o \in Owner : o # claims + 1 => home'[o] = home[o] /\ born'[o] = born[o]
        /\ home'[claims + 1] = r /\ born'[claims + 1] = session
    BY <1>1, <2>1 DEF TypeOK, StorageTypes
  <2>3. /\ \A i \in DOMAIN log : log[i] \in Owner /\ log[i] <= claims
        /\ \A o \in Owner : o \in Nat
    BY Sizes DEF TypeOK, DbTypes, LogInv, Owner
  <2>4. \A q \in Repo : hand[q] # 0 => hand[q] \in Owner /\ hand[q] <= claims /\ hand[q] # claims + 1
    BY <2>1, Sizes DEF TypeOK, RepoTypes, KnownInv, Hands, Owner
  <2>5. Hands' BY <1>0, <2>1, <2>2, <2>4, Sizes DEF KnownInv, Hands, TypeOK, RepoTypes
  <2>6. HolderKnows' BY <1>0, <2>1, <2>2 DEF HolderKnows
  <2>7. \A i \in DOMAIN log : log[i] # claims + 1 BY <2>1, <2>3
  <2>8. WritesReachTheirSession'
    BY <1>0, <2>2, <2>3, <2>7 DEF KnownInv, WritesReachTheirSession
  <2>9. Fresh' BY <2>1, <2>2, <2>3 DEF KnownInv, Fresh
  <2> QED BY <2>5, <2>6, <2>8, <2>9 DEF KnownInv
<1>2. CASE UNCHANGED <<lease, claims, grantVars, beat, timer>>
  BY <1>0, <1>2, KnownUnchanged
<1> QED BY <1>1, <1>2 DEF OpenClaim

LEMMA KnownCreate ==
  ASSUME TypeOK, HandWhenMade, LogInv, Rows, KnownInv, NEW r \in Repo, CreateInsert(r)
  PROVE  KnownInv'
<1>0. UNCHANGED <<log, home>> BY DEF CreateInsert
<1>1. CASE /\ session = 0 /\ Claim /\ session' = births + 1
           /\ born' = [born EXCEPT ![claims + 1] = births + 1]
           /\ hand' = [hand EXCEPT ![r] = claims + 1]
  <2>1. /\ claims + 1 \in Owner /\ claims' = claims + 1 /\ lease'.owner = claims + 1
        /\ fence'[claims + 1] = lease'.fence /\ claims \in Nat
    BY <1>1, ClaimTypes DEF TypeOK, DbTypes
  <2>2. born'[claims + 1] = session' BY <1>1, <2>1 DEF TypeOK, StorageTypes
  <2>3. DOMAIN log = {} BY <1>1 DEF Rows
  <2>4. \A q \in Repo : hand[q] # 0 => hand[q] <= claims /\ hand[q] # claims + 1 /\ hand[q] \in Nat
    BY <2>1, Sizes DEF TypeOK, RepoTypes, KnownInv, Hands
  <2>5. \A q \in Repo : hand'[q] = IF q = r THEN claims + 1 ELSE hand[q]
    BY <1>1 DEF TypeOK, RepoTypes
  <2>6. home[claims + 1] = None BY <2>1 DEF KnownInv, Fresh
  <2>7. Hands' BY <1>0, <2>1, <2>3, <2>4, <2>5, <2>6 DEF KnownInv, Hands
  <2>8. HolderKnows' BY <2>1, <2>2 DEF HolderKnows
  <2>9. Fresh' BY <1>0, <2>1, Sizes DEF KnownInv, Fresh, Owner
  <2> QED BY <1>0, <2>3, <2>7, <2>8, <2>9 DEF KnownInv, WritesReachTheirSession
<1>2. CASE UNCHANGED <<session, births, lease, claims, fence, born, hand>>
  BY <1>0, <1>2, KnownUnchanged DEF grantVars
<1> QED BY <1>1, <1>2 DEF CreateInsert

LEMMA KnownDone ==
  ASSUME TypeOK, HandWhenMade, KnownInv, NEW r \in Repo, CreateDone(r)
  PROVE  KnownInv'
<1> DEFINE h == hand[r]
<1>0. /\ UNCHANGED <<session, log, lease, claims>> /\ h # 0 /\ h \in Owner
      /\ \A q \in Repo : hand'[q] = IF q = r THEN 0 ELSE hand[q]
      /\ \A q \in Repo : q # r /\ hand[q] # 0 => hand[q] # h /\ hand[q] \in Owner
  BY Sizes DEF CreateDone, dbVars, HandWhenMade, TypeOK, RepoTypes, Owner, KnownInv, Hands
<1>1. CASE home' = [home EXCEPT ![h] = r] /\ UNCHANGED <<fence, born>>
  <2>1. \A o \in Owner : home'[o] = IF o = h THEN r ELSE home[o]
    BY <1>1 DEF TypeOK, StorageTypes
  <2>2. Hands' BY <1>0, <2>1 DEF KnownInv, Hands
  <2>3. \A o \in Owner : Held(o)' => Held(o) BY <1>0, <2>1, Sizes DEF Held, Owner
  <2>4. HolderKnows' BY <1>0, <1>1, <2>3 DEF KnownInv, HolderKnows
  <2>5. Fresh' BY <1>0, <2>1 DEF KnownInv, Fresh, Hands
  <2>6. \A i \in DOMAIN log : log[i] \in Owner /\ log[i] # h
    BY <1>0 DEF TypeOK, DbTypes, KnownInv, Hands
  <2>7. WritesReachTheirSession'
    BY <1>0, <1>1, <2>1, <2>6 DEF KnownInv, WritesReachTheirSession
  <2> QED BY <2>2, <2>4, <2>5, <2>7 DEF KnownInv
<1>2. CASE Forget({h})
  <2>1. \A o \in Owner : /\ home'[o] # None => o # h /\ home[o] # None
                         /\ o # h => born'[o] = born[o] /\ fence'[o] = fence[o]
    BY <1>2 DEF Forget
  <2> HIDE DEF h
  <2> QED BY <1>0, <2>1, KnownStays
<1> QED BY <1>1, <1>2 DEF CreateDone

LEMMA KnownWrite == ASSUME TypeOK, KnownInv, NEW o \in Owner, Write(o) PROVE KnownInv'
<1>1. /\ lease.owner = o /\ home[o] # None
      /\ UNCHANGED <<session, claims, home, fence, born, hand>>
      /\ log' = log \/ log' = Append(log, o)
  BY LeaseAssumption DEF Write, WrittenBy, Renews, Owns, Dequeue, Runs, grantVars, repoVars
<1>2. lease'.owner = lease.owner /\ lease'.fence = lease.fence
  BY RenewedTypes DEF Write, TypeOK, DbTypes
<1>3. \A i \in DOMAIN log' : log'[i] = o \/ (i \in DOMAIN log /\ log'[i] = log[i])
  <2>1. log \in Seq(Owner) BY DEF TypeOK, DbTypes
  <2>2. CASE log' = Append(log, o)
    <3>1. /\ DOMAIN log' = 1..(Len(log) + 1) /\ DOMAIN log = 1..Len(log) /\ Len(log) \in Nat
          /\ log'[Len(log) + 1] = o /\ \A i \in 1..Len(log) : log'[i] = log[i]
      BY <2>1, <2>2
    <3>2. \A i \in DOMAIN log' : i \in DOMAIN log \/ i = Len(log) + 1 BY <3>1
    <3> QED BY <3>1, <3>2
  <2> QED BY <1>1, <2>2
<1>4. born[o] = session BY <1>1 DEF KnownInv, HolderKnows, Held
<1>5. \A r \in Repo : hand[r] # 0 => hand[r] # o BY <1>1 DEF KnownInv, Hands
<1>6. Hands' BY <1>1, <1>3, <1>5 DEF KnownInv, Hands
<1>7. HolderKnows' BY <1>1, <1>2 DEF KnownInv, HolderKnows, Held
<1>8. WritesReachTheirSession' BY <1>1, <1>3, <1>4 DEF KnownInv, WritesReachTheirSession
<1> QED BY <1>1, <1>6, <1>7, <1>8 DEF KnownInv, Fresh

LEMMA KnownDelete == ASSUME TypeOK, KnownInv, NEW r \in Repo, DeleteRows(r) PROVE KnownInv'
<1>0. UNCHANGED <<claims, home, fence, born, hand>> BY DEF DeleteRows, storageVars, grantVars
<1>1. CASE log' = <<>> /\ lease' = NoLease
  <2>1. \A o \in Owner : lease'.owner # o BY <1>1, Sizes DEF NoLease, Owner
  <2> QED BY <1>0, <1>1, <2>1 DEF KnownInv, Hands, HolderKnows, Fresh, WritesReachTheirSession
<1>2. CASE UNCHANGED <<session, log, lease>> BY <1>0, <1>2, KnownUnchanged DEF grantVars
<1> QED BY <1>1, <1>2 DEF DeleteRows

\* The storages S, and what a create() of r had in hand, are gone.
LEMMA KnownForget ==
  ASSUME TypeOK, KnownInv, NEW S, Forget(S), UNCHANGED <<session, claims, log>>,
         lease' = lease \/ lease' = NoLease,
         \A r \in Repo : hand'[r] # 0 => hand'[r] = hand[r] /\ hand[r] \notin S
  PROVE  KnownInv'
<1>1. \A o \in Owner : /\ home'[o] # None => o \notin S /\ home[o] # None
                       /\ o \notin S => born'[o] = born[o] /\ fence'[o] = fence[o]
  BY DEF Forget
<1>2. \A r \in Repo : hand[r] # 0 => hand[r] \in Owner
  BY Sizes DEF TypeOK, RepoTypes, Owner
<1>3. lease'.owner # 0 => lease' = lease BY DEF NoLease
<1> QED BY <1>1, <1>2, <1>3, KnownStays

LEMMA NextKnown ==
  TypeOK /\ HandWhenMade /\ LogInv /\ Rows /\ KnownInv /\ [Next]_vars => KnownInv'
<1> SUFFICES ASSUME TypeOK, HandWhenMade, LogInv, Rows, KnownInv, [Next]_vars PROVE KnownInv'
  OBVIOUS
<1>u. UNCHANGED <<dbVars, grantVars, hand>> => KnownInv'
  <2> SUFFICES ASSUME UNCHANGED <<dbVars, grantVars, hand>> PROVE KnownInv' OBVIOUS
  <2> QED BY KnownUnchanged DEF dbVars
<1>1. ASSUME NEW r \in Repo, Request(r) \/ RepoStep(r) \/ Crash(r) PROVE KnownInv'
  <2>1. CASE RebuildCache(r)
    <3>1. /\ UNCHANGED <<session, claims, log, home, born, fence, hand>>
          /\ lease' = lease \/ lease' = NoLease
      BY <2>1 DEF RebuildCache, storageVars, grantVars
    <3>2. lease'.owner # 0 => lease' = lease BY <3>1 DEF NoLease
    <3> QED BY <3>1, <3>2, KnownStays
  <2>2. CASE ReleaseNext(r) \/ CloseNext(r)
    BY <1>u, <2>2 DEF ReleaseNext, CloseNext, Release, repoVars
  <2>3. CASE Crash(r)
    <3> DEFINE S == {o \in Owner : home[o] = r \/ o = hand[r]}
    <3>1. /\ Forget(S) /\ UNCHANGED <<session, claims, log, lease>>
          /\ \A q \in Repo : hand'[q] = IF q = r THEN 0 ELSE hand[q]
      BY <2>3 DEF Crash, dbVars, TypeOK, RepoTypes
    <3>2. \A q \in Repo : hand'[q] # 0 => hand'[q] = hand[q] /\ hand[q] \notin S
      BY <3>1, LeaseAssumption DEF KnownInv, Hands
    <3> HIDE DEF S
    <3> QED BY <3>1, <3>2, KnownForget
  <2>4. CASE UNCHANGED <<dbVars, storageVars, hand>> BY <1>u, <2>4 DEF storageVars
  <2>5. CASE CloseDatabase(r) BY <1>u, <2>5 DEF CloseDatabase
  <2> QED BY <1>1, <2>1, <2>2, <2>3, <2>4, <2>5, KnownOpen, KnownCreate, KnownDone, KnownDelete
          DEF Request, RepoStep, OpenCheck, CreateCheck, CloseBegin, Begin, AllReleased
<1>2. ASSUME NEW o \in Owner, EnqueueWrite(o) \/ StorageStep(o) PROVE KnownInv'
  <2>1. CASE BeatRenews(o)
    <3>1. lease'.owner = lease.owner /\ lease'.fence = lease.fence
      BY <2>1, RenewedTypes DEF BeatRenews, TypeOK, DbTypes
    <3> QED BY <2>1, <3>1, KnownUnchanged DEF BeatRenews, repoVars
  <2>2. ASSUME Released(o), Runs(o), UNCHANGED <<session, claims, log, hand>>,
               lease' = lease \/ lease' = NoLease
        PROVE  KnownInv'
    <3>1. home[o] # None BY <2>2, LeaseAssumption DEF Runs
    <3>2. \A r \in Repo : hand[r] # 0 => hand'[r] = hand[r] /\ hand[r] \notin {o}
      BY <2>2, <3>1 DEF KnownInv, Hands
    <3>3. CASE Forget({o}) BY <2>2, <3>2, <3>3, KnownForget
    <3>4. CASE UNCHANGED grantVars
      <4>1. lease'.owner # 0 => lease' = lease BY <2>2 DEF NoLease
      <4>2. UNCHANGED <<home, fence, born>> BY <3>4 DEF grantVars
      <4> QED BY <2>2, <4>1, <4>2, KnownStays
    <3> QED BY <2>2, <3>3, <3>4 DEF Released
  <2>3. CASE RunRelease(o) BY <2>2, <2>3 DEF RunRelease, ReleaseDue
  <2>4. CASE FailRelease(o) BY <2>2, <2>4 DEF FailRelease, ReleaseDue, dbVars
  <2>5. CASE UNCHANGED <<dbVars, grantVars, repoVars>> BY <1>u, <2>5 DEF repoVars
  <2> QED BY <1>2, <2>1, <2>3, <2>4, <2>5, KnownWrite DEF StorageStep, EnqueueWrite,
        WriteFindsLeaseLost, RejectWrite, TimerFires, BeatFails, BeatEnds
<1>3. CASE Tick \/ SetClock
  <2>1. /\ lease'.owner = lease.owner /\ lease'.fence = lease.fence
        /\ UNCHANGED <<session, claims, log, grantVars, hand>>
    BY <1>3 DEF Tick, SetClock, TypeOK, DbTypes, Lease, repoVars
  <2> QED BY <2>1, KnownUnchanged
<1>4. CASE UNCHANGED vars BY <1>u, <1>4 DEF vars, storageVars, repoVars
<1> QED BY <1>1, <1>2, <1>3, <1>4 DEF Next

Grounds == TypeOK /\ HandWhenMade /\ LogInv /\ Rows /\ KnownInv

LEMMA Grounded == SafetySpec => []Grounds
<1>1. Init => Grounds
  <2> SUFFICES ASSUME Init PROVE Grounds OBVIOUS
  <2>1. LogInv /\ Rows BY Sizes DEF Init, LogInv, Rows, NoLease, WritersDoNotMix, NoClaimWithoutSession
  <2>2. KnownInv
    BY Sizes DEF Init, KnownInv, Hands, HolderKnows, Fresh, WritesReachTheirSession, NoLease, Owner
  <2> QED BY <2>1, <2>2, InitTypes DEF Grounds, Init, HandWhenMade
<1>2. Grounds /\ [Next]_vars => Grounds'
  BY NextTypes, NextHand, NextLogInv, NextRows, NextKnown DEF Grounds
<1> QED BY <1>1, <1>2, PTL DEF SafetySpec

\* What a storage that is still there wrote went into the session it was opened on
\* (WritesReachTheirSession), although the row of its claim names neither.
THEOREM WritesStayInTheirSession == SafetySpec => []WritesReachTheirSession
<1>1. Grounds => WritesReachTheirSession BY DEF Grounds, KnownInv
<1> QED BY <1>1, Grounded, PTL
-----------------------------------------------------------------------------
(***************************************************************************)
(* Heartbeats: the claim of a storage whose heartbeats are on time runs    *)
(* at least Ttl - Heartbeat longer than the timer of the next one.         *)
(***************************************************************************)
Timely(o) == home[o] # None /\ o \notin lost \cup closing \cup missed
Safe(o) ==
  /\ lease.owner = o /\ lease.fence = fence[o] /\ beat[o] # "off"
  /\ timer[o] + (Ttl - Heartbeat) <= lease.left
BeatInv ==
  /\ \A o \in Owner : Timely(o) => Safe(o)
  /\ released \subseteq closing
  /\ TimelyWriterKeepsLease

LEMMA SafeRenews == ASSUME TypeOK, NEW o \in Owner, Safe(o) PROVE Renews(o) /\ lease.owner # 0
<1>1. timer[o] \in Nat /\ lease.left \in Nat BY Sizes DEF TypeOK, DbTypes, StorageTypes, Lease
<1>2. lease.left > 0 BY <1>1, Sizes DEF Safe
<1>3. o # 0 BY Sizes DEF Owner
<1> QED BY <1>2, <1>3 DEF Safe, Renews, Owns

\* Nobody can claim the session while there is a timely storage.
LEMMA SafeKeepsOthersOut ==
  ASSUME TypeOK, BeatInv, Claimable, NEW o \in Owner
  PROVE  ~Timely(o)
BY SafeRenews DEF BeatInv, Claimable, Renews

\* No timely storage comes up, and those there are keep their lease or renew it.
LEMMA BeatStays ==
  ASSUME TypeOK, BeatInv,
         lease'.owner = lease.owner, lease'.fence = lease.fence,
         lease'.left = lease.left \/ lease'.left = Ttl,
         \A o \in Owner : Timely(o)' =>
           /\ Timely(o) /\ beat'[o] # "off" /\ fence'[o] = fence[o]
           /\ timer'[o] = timer[o] \/ (timer'[o] = Heartbeat /\ lease'.left = Ttl),
         released' \subseteq closing', lost' \subseteq missed' \cup closing'
  PROVE  BeatInv'
<1> SUFFICES ASSUME NEW o \in Owner, Timely(o)' PROVE Safe(o)'
  BY DEF BeatInv, TimelyWriterKeepsLease
<1>1. Safe(o) BY DEF BeatInv
<1>2. timer[o] \in 0..Heartbeat /\ lease.left \in Nat BY Sizes DEF TypeOK, StorageTypes, DbTypes, Lease
<1>3. timer'[o] + (Ttl - Heartbeat) <= lease'.left BY <1>1, <1>2, Sizes DEF Safe
<1> QED BY <1>1, <1>3 DEF Safe

LEMMA BeatUnchanged ==
  ASSUME TypeOK, BeatInv, UNCHANGED <<lease, storageVars>> PROVE BeatInv'
<1>1. UNCHANGED <<home, fence, beat, timer, lost, closing, released, missed>>
  BY DEF storageVars, grantVars, queueVars, flagVars
<1> QED BY <1>1 DEF BeatInv, TimelyWriterKeepsLease, Timely, Safe

\* The storages S are gone.
LEMMA BeatForgets ==
  ASSUME TypeOK, BeatInv, NEW S, Forget(S),
         lease' = lease \/ \A o \in Owner : Timely(o) => o \in S
  PROVE  BeatInv'
<1>1. \A o \in Owner : Timely(o)' => o \notin S /\ Timely(o)
  BY DEF Forget, Timely
<1>2. \A o \in Owner : o \notin S => /\ beat'[o] = beat[o] /\ fence'[o] = fence[o]
                                    /\ timer'[o] = timer[o]
  BY DEF Forget
<1>3. released' \subseteq closing' /\ lost' \subseteq missed' \cup closing'
  BY DEF Forget, BeatInv, TimelyWriterKeepsLease
<1>4. \A o \in Owner : Timely(o)' => Safe(o)' BY <1>1, <1>2 DEF BeatInv, Safe
<1> QED BY <1>3, <1>4 DEF BeatInv, TimelyWriterKeepsLease

\* A new claim is only made when there is no timely storage.
LEMMA BeatClaim ==
  ASSUME TypeOK, Rows, BeatInv, NEW r \in Repo, OpenClaim(r) \/ CreateInsert(r) PROVE BeatInv'
<1>1. CASE OpenClaim(r) /\ Claimable /\ Claim /\ SetTimer(claims + 1)
           /\ home' = [home EXCEPT ![claims + 1] = r]
  <2>1. UNCHANGED <<lost, closing, released, missed>> BY <1>1 DEF OpenClaim, flagVars
  <2>2. /\ claims + 1 \in Owner /\ lease'.owner = claims + 1 /\ lease'.left = Ttl
        /\ fence'[claims + 1] = lease'.fence
    BY <1>1, ClaimTypes DEF TypeOK
  <2>3. beat'[claims + 1] = "timer" /\ timer'[claims + 1] = Heartbeat
    BY <1>1, <2>2 DEF SetTimer, TypeOK, StorageTypes
  <2>4. \A o \in Owner : o # claims + 1 => home'[o] = home[o]
    BY <1>1, <2>2 DEF TypeOK, StorageTypes
  <2>5. \A o \in Owner : o # claims + 1 => ~Timely(o)'
    BY <1>1, <2>1, <2>4, SafeKeepsOthersOut DEF Timely
  <2>6. ASSUME NEW o \in Owner, o = claims + 1 PROVE Safe(o)'
    BY <2>2, <2>3, <2>6, Sizes DEF Safe
  <2> QED BY <2>1, <2>5, <2>6 DEF BeatInv, TimelyWriterKeepsLease
<1>2. CASE CreateInsert(r) /\ Claimable
  <2>1. UNCHANGED <<home, lost, closing, released, missed>> BY <1>2 DEF CreateInsert, flagVars
  <2>2. \A o \in Owner : ~Timely(o)' BY <1>2, <2>1, SafeKeepsOthersOut DEF Timely
  <2> QED BY <2>1, <2>2 DEF BeatInv, TimelyWriterKeepsLease
<1>3. CASE OpenClaim(r) /\ UNCHANGED <<lease, claims, grantVars, beat, timer>>
  <2>1. UNCHANGED <<lease, storageVars>> BY <1>3 DEF OpenClaim, storageVars, queueVars
  <2> QED BY <2>1, BeatUnchanged
<1>4. CASE CreateInsert(r) /\ UNCHANGED <<session, births, lease, claims, fence, born, hand>>
  <2>1. UNCHANGED <<lease, storageVars>> BY <1>4 DEF CreateInsert, storageVars, grantVars
  <2> QED BY <2>1, BeatUnchanged
<1> QED BY <1>1, <1>2, <1>3, <1>4 DEF OpenClaim, CreateInsert

LEMMA BeatDone ==
  ASSUME Grounds, BeatInv, NEW r \in Repo, CreateDone(r) PROVE BeatInv'
<1>h. hand[r] # 0 /\ hand[r] \in Owner /\ lease' = lease
  BY Sizes DEF CreateDone, dbVars, Grounds, HandWhenMade, TypeOK, RepoTypes, Owner
<1>p. PICK h \in Owner : h = hand[r] BY <1>h
<1>0. lease' = lease /\ h # 0 BY <1>h, <1>p
<1>1. CASE /\ home' = [home EXCEPT ![h] = r] /\ SetTimer(h)
           /\ missed' = IF lease.owner = h /\ lease.left = Ttl THEN missed ELSE missed \cup {h}
           /\ UNCHANGED <<fence, lost, closing, released>>
  <2>1. /\ \A o \in Owner : o # h => home'[o] = home[o] /\ beat'[o] = beat[o] /\ timer'[o] = timer[o]
        /\ beat'[h] = "timer" /\ timer'[h] = Heartbeat
    BY <1>0, <1>1 DEF Grounds, TypeOK, StorageTypes, SetTimer
  <2>2. missed \subseteq missed' BY <1>1
  <2>3. \A o \in Owner : o # h /\ Timely(o)' => Safe(o)'
    BY <1>0, <1>1, <2>1, <2>2 DEF BeatInv, Timely, Safe
  <2>4. ASSUME Timely(h)' PROVE Safe(h)'
    <3>1. lease.owner = h /\ lease.left = Ttl BY <1>0, <1>1, <2>4 DEF Timely
    <3>2. fence[h] = lease.fence BY <1>p, <3>1 DEF Grounds, KnownInv, HolderKnows, Held
    <3> QED BY <1>0, <1>1, <2>1, <3>1, <3>2, Sizes DEF Safe
  <2> QED BY <1>0, <1>1, <2>2, <2>3, <2>4 DEF BeatInv, TimelyWriterKeepsLease
<1>2. CASE Forget({h}) BY <1>0, <1>2, BeatForgets DEF Grounds
<1> QED BY <1>p, <1>1, <1>2 DEF CreateDone

LEMMA BeatTime == ASSUME TypeOK, BeatInv, Tick \/ SetClock PROVE BeatInv'
<1>1. CASE Tick
  <2>1. /\ UNCHANGED <<home, fence, beat, lost, closing, released>>
        /\ missed' = missed \cup {o \in Owner : beat[o] # "off" /\ timer[o] = 0}
        /\ \A o \in Owner : timer'[o] = IF timer[o] = 0 THEN 0 ELSE timer[o] - 1
    BY <1>1 DEF Tick, grantVars, TypeOK, StorageTypes
  <2>2. /\ lease'.owner = lease.owner /\ lease'.fence = lease.fence
        /\ lease'.left = IF lease.left = 0 THEN 0 ELSE lease.left - 1
    BY <1>1 DEF Tick, TypeOK, DbTypes, Lease
  <2>3. ASSUME NEW o \in Owner, Timely(o)' PROVE Safe(o)'
    <3>1. Timely(o) BY <2>1, <2>3 DEF Timely
    <3>2. Safe(o) /\ timer[o] # 0 BY <2>1, <2>3, <3>1 DEF BeatInv, Safe, Timely
    <3>3. timer[o] \in Nat /\ lease.left \in Nat
      BY Sizes DEF TypeOK, StorageTypes, DbTypes, Lease
    <3> DEFINE t == timer[o]  l == lease.left
    <3>4. t \in Nat /\ l \in Nat /\ t # 0 /\ t + (Ttl - Heartbeat) <= l
      BY <3>2, <3>3 DEF Safe
    <3>5. timer'[o] = t - 1 /\ lease'.left = IF l = 0 THEN 0 ELSE l - 1 BY <2>1, <2>2, <3>2
    <3> HIDE DEF t, l
    <3>6. timer'[o] + (Ttl - Heartbeat) <= lease'.left BY <3>4, <3>5, Sizes
    <3> QED BY <2>1, <2>2, <3>2, <3>6 DEF Safe
  <2> QED BY <2>1, <2>3 DEF BeatInv, TimelyWriterKeepsLease
<1>2. CASE SetClock
  <2>1. /\ UNCHANGED <<home, lost, closing, released>>
        /\ missed' = missed \cup {o \in Owner : home[o] # None}
    BY <1>2 DEF SetClock, grantVars
  <2>2. \A o \in Owner : ~Timely(o)' BY <2>1 DEF Timely
  <2> QED BY <2>1, <2>2 DEF BeatInv, TimelyWriterKeepsLease
<1> QED BY <1>1, <1>2

LEMMA BeatQueue ==
  ASSUME TypeOK, BeatInv, NEW o \in Owner,
         \/ EnqueueWrite(o) \/ Write(o) \/ WriteFindsLeaseLost(o) \/ RejectWrite(o)
         \/ TimerFires(o) \/ BeatRenews(o) \/ BeatFails(o) \/ BeatEnds(o)
  PROVE  BeatInv'
<1>0. lost \subseteq missed \cup closing /\ released \subseteq closing
  BY DEF BeatInv, TimelyWriterKeepsLease
<1>s. \A p \in Owner : Timely(p) => beat[p] # "off" BY DEF BeatInv, Safe
<1>1. CASE EnqueueWrite(o) \/ RejectWrite(o)
  <2>1. /\ UNCHANGED <<lease, home, fence, beat, timer, lost, closing, released, missed>>
    BY <1>1 DEF EnqueueWrite, RejectWrite, dbVars, grantVars, flagVars
  <2> QED BY <2>1 DEF BeatInv, TimelyWriterKeepsLease, Timely, Safe
<1>2. CASE Write(o)
  <2>1. /\ UNCHANGED <<home, fence, beat, timer, lost, closing, released, missed>>
        /\ lease'.owner = lease.owner /\ lease'.fence = lease.fence /\ lease'.left = Ttl
    BY <1>2, RenewedTypes DEF Write, grantVars, flagVars, TypeOK, DbTypes
  <2> QED BY <1>0, <1>s, <2>1, BeatStays DEF Timely
<1>3. CASE WriteFindsLeaseLost(o)
  <2>1. /\ UNCHANGED <<lease, home, fence, closing, released, missed>>
        /\ lost' = lost \cup {o} /\ ~Renews(o)
        /\ \A p \in Owner : p # o => beat'[p] = beat[p] /\ timer'[p] = timer[p]
    BY <1>3 DEF WriteFindsLeaseLost, dbVars, grantVars, ClearTimer, TypeOK, StorageTypes
  <2>2. ~Timely(o) BY <2>1, SafeRenews DEF BeatInv
  <2>3. o \in lost \cup closing \cup missed
    BY <1>3, <2>2, LeaseAssumption DEF Timely, WriteFindsLeaseLost, Dequeue, Runs
  <2>4. \A p \in Owner : Timely(p)' => Timely(p) /\ p # o BY <2>1 DEF Timely
  <2>5. lost' \subseteq missed' \cup closing' BY <1>0, <2>1, <2>3
  <2> QED BY <1>0, <1>s, <2>1, <2>4, <2>5, BeatStays
<1>4. CASE TimerFires(o)
  <2>1. /\ UNCHANGED <<lease, home, fence, timer, lost, closing, released, missed>>
        /\ \A p \in Owner : beat[p] # "off" => beat'[p] # "off"
    BY <1>4 DEF TimerFires, dbVars, grantVars, flagVars, TypeOK, StorageTypes
  <2> QED BY <1>0, <1>s, <2>1, BeatStays DEF Timely
<1>5. CASE BeatRenews(o)
  <2>1. /\ UNCHANGED <<home, fence, lost, closing, released>>
        /\ missed' = missed \ {o} /\ Renews(o) /\ o \notin closing \cup lost
        /\ lease'.owner = lease.owner /\ lease'.fence = lease.fence /\ lease'.left = Ttl
    BY <1>5, RenewedTypes DEF BeatRenews, Scheduled, grantVars, TypeOK, DbTypes
  <2>2. /\ beat'[o] = "timer" /\ timer'[o] = Heartbeat
        /\ \A p \in Owner : p # o => beat'[p] = beat[p] /\ timer'[p] = timer[p]
    BY <1>5 DEF BeatRenews, SetTimer, TypeOK, StorageTypes
  <2>3. Safe(o)' BY <2>1, <2>2, Sizes DEF Safe, Renews, Owns
  <2>4. ASSUME NEW p \in Owner, p # o, Timely(p)' PROVE FALSE
    <3>1. Timely(p) BY <2>1, <2>4 DEF Timely
    <3> QED BY <2>1, <2>4, <3>1 DEF BeatInv, Safe, Renews, Owns
  <2>5. lost' \subseteq missed' \cup closing' BY <1>0, <2>1
  <2> QED BY <1>0, <2>1, <2>3, <2>4, <2>5 DEF BeatInv, TimelyWriterKeepsLease
<1>6. CASE BeatFails(o)
  <2>1. /\ UNCHANGED <<lease, home, fence, lost, closing, released>> /\ missed' = missed \cup {o}
        /\ \A p \in Owner : p # o => beat'[p] = beat[p] /\ timer'[p] = timer[p]
    BY <1>6 DEF BeatFails, dbVars, grantVars, SetTimer, TypeOK, StorageTypes
  <2>2. \A p \in Owner : Timely(p)' => Timely(p) /\ p # o BY <2>1 DEF Timely
  <2>3. lost' \subseteq missed' \cup closing' BY <1>0, <2>1
  <2> QED BY <1>0, <1>s, <2>1, <2>2, <2>3, BeatStays
<1>7. CASE BeatEnds(o)
  <2>1. /\ UNCHANGED <<lease, home, fence, timer, closing, released, missed>>
        /\ \A p \in Owner : p # o => beat'[p] = beat[p]
        /\ \/ Scheduled(o) /\ ~Renews(o) /\ lost' = lost \cup {o}
           \/ ~Scheduled(o) /\ lost' = lost
    BY <1>7 DEF BeatEnds, dbVars, grantVars, TypeOK, StorageTypes
  <2>2. ~Timely(o) BY <2>1, SafeRenews DEF BeatInv, Scheduled, Timely
  <2>3. o \in lost \cup closing \cup missed
    BY <1>7, <2>2, LeaseAssumption DEF Timely, BeatEnds, Beats, Runs
  <2>4. \A p \in Owner : Timely(p)' => Timely(p) /\ p # o BY <2>1, <2>2 DEF Timely
  <2>5. lost' \subseteq missed' \cup closing' BY <1>0, <2>1, <2>3 DEF Scheduled
  <2> QED BY <1>0, <1>s, <2>1, <2>4, <2>5, BeatStays
<1> QED BY <1>1, <1>2, <1>3, <1>4, <1>5, <1>6, <1>7

LEMMA BeatRelease ==
  ASSUME TypeOK, BeatInv, NEW o \in Owner, UNCHANGED lease, Release(o) PROVE BeatInv'
<1>1. /\ UNCHANGED <<home, fence, lost, released, missed>> /\ closing' = closing \cup {o}
      /\ \A p \in Owner : p # o => beat'[p] = beat[p] /\ timer'[p] = timer[p]
  BY DEF Release, grantVars, ClearTimer, TypeOK, StorageTypes
<1>2. \A p \in Owner : Timely(p)' => Timely(p) /\ p # o BY <1>1 DEF Timely
<1>3. lost' \subseteq missed' \cup closing' /\ released' \subseteq closing'
  BY <1>1 DEF BeatInv, TimelyWriterKeepsLease
<1>4. \A p \in Owner : Timely(p) => beat[p] # "off" BY DEF BeatInv, Safe
<1> QED BY <1>1, <1>2, <1>3, <1>4, BeatStays

LEMMA BeatReleased ==
  ASSUME TypeOK, BeatInv, NEW o \in Owner, RunRelease(o) \/ FailRelease(o) PROVE BeatInv'
<1>1. Released(o) /\ o \in closing BY DEF RunRelease, FailRelease, ReleaseDue
<1>2. lease' = lease \/ \A p \in Owner : ~Timely(p)
  <2>1. CASE lease' # lease
    <3>1. lease.owner = o BY <2>1 DEF RunRelease, FailRelease, Owns, dbVars
    <3> QED BY <1>1, <3>1 DEF BeatInv, Timely, Safe
  <2> QED BY <2>1
<1>3. CASE Forget({o}) BY <1>2, <1>3, BeatForgets
<1>4. CASE /\ released' = released \cup {o}
           /\ UNCHANGED <<grantVars, queueVars, lost, closing, shut, missed>>
  <2>1. /\ released' \subseteq closing' /\ UNCHANGED <<home, fence, beat, timer, lost, closing, missed>>
    BY <1>1, <1>4 DEF BeatInv, grantVars, queueVars
  <2>2. CASE lease' = lease BY <2>1, <2>2 DEF BeatInv, TimelyWriterKeepsLease, Timely, Safe
  <2>3. CASE \A p \in Owner : ~Timely(p)
    BY <2>1, <2>3 DEF BeatInv, TimelyWriterKeepsLease, Timely
  <2> QED BY <1>2, <2>2, <2>3
<1> QED BY <1>1, <1>3, <1>4 DEF Released

LEMMA BeatOperations ==
  ASSUME Grounds, BeatInv, NEW r \in Repo, Request(r) \/ RepoStep(r) \/ Crash(r)
  PROVE  BeatInv'
<1> USE DEF Grounds
<1>1. CASE DeleteRows(r)
  <2>1. CASE session = 0 \/ Claimable
    <3>1. Claimable BY <2>1 DEF Rows, NoClaimWithoutSession, Claimable
    <3>2. \A o \in Owner : ~Timely(o) BY <3>1, SafeKeepsOthersOut
    <3>3. UNCHANGED <<home, lost, closing, released, missed>>
      BY <1>1 DEF DeleteRows, storageVars, grantVars, flagVars
    <3> QED BY <3>2, <3>3 DEF BeatInv, TimelyWriterKeepsLease, Timely
  <2>2. CASE UNCHANGED <<session, log, lease>>
    BY <1>1, <2>2, BeatUnchanged DEF DeleteRows
  <2> QED BY <1>1, <2>1, <2>2 DEF DeleteRows
<1>2. CASE RebuildCache(r)
  <2>1. CASE Claimable
    <3>1. \A o \in Owner : ~Timely(o) BY <2>1, SafeKeepsOthersOut
    <3>2. UNCHANGED <<home, lost, closing, released, missed>>
      BY <1>2 DEF RebuildCache, storageVars, grantVars, flagVars
    <3> QED BY <3>1, <3>2 DEF BeatInv, TimelyWriterKeepsLease, Timely
  <2>2. CASE UNCHANGED lease BY <1>2, <2>2, BeatUnchanged DEF RebuildCache
  <2> QED BY <1>2, <2>1, <2>2 DEF RebuildCache
<1>3. CASE ReleaseNext(r) BY <1>3, BeatRelease DEF ReleaseNext, dbVars
<1>4. CASE CloseNext(r)
  <2>1. toClose[r] \subseteq Owner BY DEF TypeOK, RepoTypes
  <2> QED BY <1>4, <2>1, BeatRelease DEF CloseNext, dbVars
<1>5. CASE CloseDatabase(r)
  <2>1. UNCHANGED <<lease, home, fence, beat, timer, lost, closing, released, missed>>
    BY <1>5 DEF CloseDatabase, dbVars, grantVars, queueVars
  <2> QED BY <2>1 DEF BeatInv, TimelyWriterKeepsLease, Timely, Safe
<1>6. CASE Crash(r)
  <2> DEFINE S == {o \in Owner : home[o] = r \/ o = hand[r]}
  <2>1. Forget(S) /\ lease' = lease BY <1>6 DEF Crash, dbVars
  <2> HIDE DEF S
  <2> QED BY <2>1, BeatForgets
<1>7. CASE UNCHANGED <<dbVars, storageVars>> BY <1>7, BeatUnchanged DEF dbVars
<1> QED BY <1>1, <1>2, <1>3, <1>4, <1>5, <1>6, <1>7, BeatClaim, BeatDone
        DEF Request, RepoStep, OpenCheck, CreateCheck, CloseBegin, Begin, AllReleased

\* A storage whose heartbeats are on time does not lose its lease before it is released
\* (TimelyWriterKeepsLease), for every Heartbeat < Ttl.
THEOREM TimelyWritersKeepTheirLease == SafetySpec => []TimelyWriterKeepsLease
<1>1. Init => BeatInv BY DEF Init, BeatInv, Timely, TimelyWriterKeepsLease
<1>2. Grounds /\ BeatInv /\ [Next]_vars => BeatInv'
  <2> SUFFICES ASSUME Grounds, BeatInv, [Next]_vars PROVE BeatInv' OBVIOUS
  <2>1. ASSUME NEW o \in Owner, EnqueueWrite(o) \/ StorageStep(o) PROVE BeatInv'
    BY <2>1, BeatQueue, BeatReleased DEF StorageStep, Grounds
  <2>2. CASE UNCHANGED vars BY <2>2, BeatUnchanged DEF Grounds, vars, dbVars
  <2> QED BY <2>1, <2>2, BeatOperations, BeatTime DEF Next, Grounds
<1>3. BeatInv => TimelyWriterKeepsLease BY DEF BeatInv
<1> QED BY <1>1, <1>2, <1>3, Grounded, PTL DEF SafetySpec
-----------------------------------------------------------------------------
\* A tree: a parent has been added before its children; 0 is no parent.
IsTree(par) == par \in Seq(Nat) /\ \A e \in 1..Len(par) : par[e] < e

Closed(par, S) == \A e \in S : par[e] # 0 => par[e] \in S

\* Path(e) in a tree.
Anc(par, e) == {a \in 1..e : \A S \in SUBSET (1..e) : e \in S /\ Closed(par, S) => a \in S}

\* S is a branch of the tree that ends in t: nothing lies between a member and its parent.
Rooted(par, S, t) ==
  /\ S \subseteq 1..t /\ t \in S
  /\ Closed(par, S)
  /\ \A x, p \in S : p < x => p <= par[x]

-----------------------------------------------------------------------------
\* A set of numbers that has members has a least one.
LEMMA MinNat ==
  ASSUME NEW T, T \subseteq Nat, T # {}
  PROVE  \E m \in T : \A n \in T : m <= n
<1>1. IsWellFoundedOn(OpToRel(<, Nat), Nat)
  BY NatLessThanWellFounded
<1>2. \E x \in T : \A y \in T : ~ (<<y, x>> \in OpToRel(<, Nat))
  BY <1>1, WFMin
<1>3. PICK m \in T : \A y \in T : ~ (<<y, m>> \in OpToRel(<, Nat))
  BY <1>2
<1>4. ASSUME NEW n \in T PROVE m <= n
  <2>1. ~ (n < m) BY <1>3 DEF OpToRel
  <2> QED BY <2>1
<1> QED BY <1>4

\* The path of an entry is in every closed set that holds the entry.
LEMMA AncLeast ==
  ASSUME NEW par, NEW e \in Nat, NEW S \in SUBSET (1..e), e \in S, Closed(par, S)
  PROVE  Anc(par, e) \subseteq S
BY DEF Anc

\* It holds the entry and the parents of its members itself.
LEMMA AncClosed ==
  ASSUME NEW par, IsTree(par), NEW e \in 1..Len(par)
  PROVE  Anc(par, e) \subseteq 1..e /\ e \in Anc(par, e) /\ Closed(par, Anc(par, e))
<1>1. Anc(par, e) \subseteq 1..e /\ e \in Anc(par, e)
  BY DEF Anc, IsTree
<1>2. ASSUME NEW x \in Anc(par, e), par[x] # 0 PROVE par[x] \in Anc(par, e)
  <2>1. x \in 1..e /\ par[x] \in Nat /\ par[x] < x
    BY <1>1 DEF IsTree
  <2>2. par[x] \in 1..e
    BY <2>1, <1>2
  <2>3. ASSUME NEW S \in SUBSET (1..e), e \in S, Closed(par, S) PROVE par[x] \in S
    <3>1. x \in S BY <2>3 DEF Anc
    <3> QED BY <3>1, <2>3, <1>2 DEF Closed
  <2> QED BY <2>2, <2>3 DEF Anc
<1> QED BY <1>1, <1>2 DEF Closed

\* It is a branch.
LEMMA AncRooted ==
  ASSUME NEW par, IsTree(par), NEW e \in 1..Len(par)
  PROVE  Rooted(par, Anc(par, e), e)
<1> DEFINE P == Anc(par, e)
           S == {y \in P : \A z \in P : z > y => par[z] >= y}
<1>1. P \subseteq 1..e /\ e \in P /\ Closed(par, P)
  BY AncClosed
<1>2. \A x \in P : x \in 1..Len(par) /\ x \in Nat /\ par[x] \in Nat /\ par[x] < x
  BY <1>1 DEF IsTree
<1>3. e \in S
  BY <1>1, <1>2
<1>4. ASSUME NEW y \in S, par[y] # 0 PROVE par[y] \in S
  <2> DEFINE Q == {u \in P : u >= y \/ u <= par[y]}
  <2>1. par[y] \in P /\ par[y] < y /\ y \in Nat /\ par[y] \in Nat
    BY <1>1, <1>2, <1>4 DEF Closed
  <2>2. ASSUME NEW u \in Q, par[u] # 0 PROVE par[u] \in Q
    <3>1. par[u] \in P /\ par[u] < u /\ u \in Nat /\ par[u] \in Nat
      BY <1>1, <1>2, <2>2 DEF Closed
    <3>2. u > y => par[u] >= y
      BY <1>4
    <3> QED BY <3>1, <3>2, <2>1, <2>2
  <2>3. e \in Q
    BY <1>1, <2>1, <1>2
  <2>4. Closed(par, Q)
    BY <2>2 DEF Closed
  <2>5. Q \in SUBSET (1..e)
    BY <1>1
  <2>6. P \subseteq Q
    <3> HIDE DEF Q
    <3> QED BY <2>3, <2>4, <2>5, AncLeast
  <2>7. ASSUME NEW z \in P, z > par[y] PROVE par[z] >= par[y]
    <3>1. z >= y
      BY <2>6, <2>7, <1>2, <2>1
    <3>2. z > y => par[z] >= y
      BY <1>4
    <3> QED BY <3>1, <3>2, <2>1, <1>2
  <2> QED BY <2>1, <2>7
<1>5. Closed(par, S)
  BY <1>4 DEF Closed
<1>6. S \in SUBSET (1..e)
  BY <1>1
<1>7. P \subseteq S
  <2> HIDE DEF S
  <2> QED BY <1>3, <1>5, <1>6, AncLeast
<1>8. \A x, p \in P : p < x => p <= par[x]
  BY <1>7, <1>2
<1> QED BY <1>1, <1>8 DEF Rooted

\* A branch, up to one of its members, is the path of the member.
LEMMA BranchIsPath ==
  ASSUME NEW par, IsTree(par), NEW t \in 1..Len(par), NEW S, Rooted(par, S, t), NEW e \in S
  PROVE  Through(S, e) = Anc(par, e)
<1> DEFINE B == Through(S, e)
           P == Anc(par, e)
<1>1. e \in 1..Len(par) /\ \A x \in S : x \in 1..t /\ x \in Nat /\ par[x] \in Nat /\ par[x] < x
  BY DEF Rooted, IsTree
<1>2. P \subseteq 1..e /\ e \in P /\ Closed(par, P)
  BY <1>1, AncClosed
<1>3. P \subseteq B
  <2>1. e \in B /\ B \in SUBSET (1..e)
    <3>1. e <= e BY <1>1
    <3>2. e \in B BY <3>1 DEF Through
    <3>3. ASSUME NEW x \in B PROVE x \in 1..e
      <4>1. x \in S /\ x <= e BY DEF Through
      <4> QED BY <4>1, <1>1
    <3> QED BY <3>2, <3>3
  <2>2. Closed(par, B)
    BY <1>1 DEF Closed, Through, Rooted
  <2> HIDE DEF B
  <2> QED BY <2>1, <2>2, <1>1, AncLeast
<1>4. ASSUME NEW y \in B, y \notin P PROVE FALSE
  <2> DEFINE T == {x \in P : x > y}
  <2>1. y \in S /\ y <= e /\ y \in Nat /\ y > 0
    BY <1>1 DEF Through
  <2>2. e \in T /\ T \subseteq Nat
    BY <2>1, <1>1, <1>2, <1>4
  <2>3. PICK m \in T : \A n \in T : m <= n
    <3> HIDE DEF T
    <3> QED BY <2>2, MinNat
  <2>4. m \in S /\ m \in P /\ m > y
    BY <1>3 DEF Through
  <2>5. y <= par[m] /\ par[m] < m /\ par[m] \in Nat
    BY <2>1, <2>4, <1>1 DEF Rooted
  <2>6. par[m] \in P
    BY <2>1, <2>4, <2>5, <1>2 DEF Closed
  <2>7. par[m] \in T
    BY <2>6, <2>5, <2>1, <1>4
  <2>8. m <= par[m]
    BY <2>7, <2>3
  <2> QED BY <2>8, <2>5, <2>4, <1>1
<1> QED BY <1>3, <1>4

\* A whole branch is the path of its tip.
LEMMA WholeBranch ==
  ASSUME NEW par, IsTree(par), NEW t \in 1..Len(par), NEW S, Rooted(par, S, t)
  PROVE  S = Anc(par, t)
<1>1. \A x \in S : x <= t
  BY DEF Rooted
<1>2. Through(S, t) = S
  BY <1>1 DEF Through
<1>3. t \in S
  BY DEF Rooted
<1> QED BY <1>2, <1>3, BranchIsPath

\* The beginning of a branch is one.
LEMMA CutBranch ==
  ASSUME NEW par, IsTree(par), NEW t \in 1..Len(par), NEW S, Rooted(par, S, t), NEW e \in S
  PROVE  Rooted(par, Through(S, e), e)
<1>1. e \in 1..Len(par)
  BY DEF Rooted
<1> QED BY <1>1, BranchIsPath, AncRooted

\* Another entry does not change the paths of those that are there.
LEMMA PathsStay ==
  ASSUME NEW par, IsTree(par), NEW p \in 0..Len(par)
  PROVE  LET new == Append(par, p) IN
         /\ IsTree(new) /\ Len(new) = Len(par) + 1 /\ new[Len(par) + 1] = p
         /\ \A e \in 1..Len(par) : Anc(new, e) = Anc(par, e)
         /\ \A t \in 1..Len(par) : \A S : Rooted(par, S, t) => Rooted(new, S, t)
<1> DEFINE new == Append(par, p)
<1>1. new \in Seq(Nat) /\ Len(new) = Len(par) + 1 /\ Len(par) \in Nat /\ new[Len(par) + 1] = p
  BY DEF IsTree
<1>2. \A e \in 1..Len(par) : new[e] = par[e]
  BY DEF IsTree
<1>3. IsTree(new)
  <2>1. ASSUME NEW e \in 1..Len(new) PROVE new[e] < e
    <3>1. CASE e \in 1..Len(par) BY <3>1, <1>2 DEF IsTree
    <3>2. CASE e = Len(par) + 1 BY <3>2, <1>1
    <3> QED BY <3>1, <3>2, <1>1
  <2> QED BY <2>1, <1>1 DEF IsTree
<1> HIDE DEF new
<1>4. ASSUME NEW e \in 1..Len(par) PROVE Anc(new, e) = Anc(par, e)
  <2>1. \A x \in 1..e : new[x] = par[x]
    BY <1>1, <1>2
  <2>2. ASSUME NEW S \in SUBSET (1..e) PROVE Closed(new, S) <=> Closed(par, S)
    <3>1. \A x \in S : new[x] = par[x] BY <2>1
    <3> QED BY <3>1 DEF Closed
  <2> QED BY <2>2 DEF Anc
<1>5. ASSUME NEW t \in 1..Len(par), NEW S, Rooted(par, S, t) PROVE Rooted(new, S, t)
  <2>1. \A x \in S : new[x] = par[x]
    BY <1>5, <1>1, <1>2, SMTT(30) DEF Rooted
  <2> QED BY <2>1, <1>5 DEF Rooted, Closed
<1>6. IsTree(new) /\ Len(new) = Len(par) + 1 /\ new[Len(par) + 1] = p
  BY <1>1, <1>3
<1> QED BY <1>4, <1>5, <1>6 DEF new

\* A branch grows by an entry under its tip.
LEMMA BranchGrows ==
  ASSUME NEW par, IsTree(par), NEW t \in 1..Len(par), NEW S, Rooted(par, S, t)
  PROVE  Rooted(Append(par, t), S \cup {Len(par) + 1}, Len(par) + 1)
<1> DEFINE new == Append(par, t)
           n == Len(par) + 1
<1>1. Rooted(new, S, t) /\ IsTree(new) /\ new[n] = t /\ Len(par) \in Nat
  BY PathsStay DEF IsTree
<1>2. \A x \in S : x \in 1..t
  BY DEF Rooted
<1> HIDE DEF new
<1>3. S \cup {n} \subseteq 1..n
  BY <1>1, <1>2
<1>4. Closed(new, S \cup {n})
  BY <1>1 DEF Closed, Rooted
<1>5. ASSUME NEW x \in S \cup {n}, NEW q \in S \cup {n}, q < x PROVE q <= new[x]
  <2>1. q \in S
    BY <1>1, <1>2, <1>5
  <2>2. CASE x \in S BY <2>1, <2>2, <1>1, <1>5 DEF Rooted
  <2>3. CASE x = n BY <2>1, <2>3, <1>1, <1>2
  <2> QED BY <2>2, <2>3
<1>6. Rooted(new, S \cup {n}, n)
  BY <1>3, <1>4, <1>5 DEF Rooted
<1> QED BY <1>6 DEF new

\* A root is a branch of its own.
LEMMA RootIsBranch ==
  ASSUME NEW par, IsTree(par)
  PROVE  Rooted(Append(par, 0), {Len(par) + 1}, Len(par) + 1)
<1>1. Append(par, 0)[Len(par) + 1] = 0 /\ Len(par) \in Nat
  BY DEF IsTree
<1> QED BY <1>1 DEF Rooted, Closed

\* Each entry of a closed set is on the path of an entry without children in it.
LEMMA LeavesCover ==
  ASSUME NEW par, IsTree(par), NEW E \in SUBSET (1..Len(par)), NEW e \in E
  PROVE  \E t \in {x \in E : \A c \in E : par[c] # x} : e \in Anc(par, t)
<1> DEFINE Below == {x \in E : e \in Anc(par, x)}
           T == {Len(par) - x : x \in Below}
<1>1. Len(par) \in Nat /\ \A x \in E : x \in 1..Len(par)
  BY DEF IsTree
<1>2. e \in Below
  BY <1>1, AncClosed
<1>3. T \subseteq Nat /\ T # {}
  BY <1>1, <1>2
<1>4. PICK m \in T : \A n \in T : m <= n
  <2> HIDE DEF T
  <2> QED BY <1>3, MinNat
<1>5. PICK t \in Below : m = Len(par) - t
  OBVIOUS
<1>6. ASSUME NEW c \in E, par[c] = t PROVE FALSE
  <2>1. t \in E /\ t \in Nat /\ t > 0 /\ e \in Anc(par, t)
    BY <1>1
  <2>2. c > t
    BY <1>1, <1>6 DEF IsTree
  <2>3. Rooted(par, Anc(par, c), c) /\ t \in Anc(par, c)
    BY <1>1, <1>6, <2>1, AncRooted DEF Rooted, Closed
  <2>4. Through(Anc(par, c), t) = Anc(par, t)
    BY <2>3, <1>1, BranchIsPath
  <2>5. e \in Anc(par, c)
    BY <2>1, <2>4 DEF Through
  <2>6. Len(par) - c \in T
    BY <2>5
  <2>7. m <= Len(par) - c
    BY <2>6, <1>4
  <2> QED BY <2>7, <2>2, <2>1, <1>5, <1>1
<1> QED BY <1>5, <1>6
-----------------------------------------------------------------------------
\* The definitions of the model are those of the lemmas, for the tree of the session.
LEMMA PathIsAnc ==
  /\ \A e : Path(e) = Anc(parent, e)
  /\ \A S : IsClosed(S) <=> Closed(parent, S)
BY DEF Path, Anc, IsClosed, Closed

\* The rows of the session hold the parents of their members; lanes point at rows.
Tree ==
  /\ IsTree(parent)
  /\ Closed(parent, entries)
  /\ \A l \in Lane : leaf[l] \in entries \cup {0, NoLane}

\* Every branch of the cache is one, and every row is on one.
Branches ==
  /\ \A b \in cache : b.tip \in entries /\ b.entries \subseteq entries /\ Rooted(parent, b.entries, b.tip)
  /\ \A e \in entries : \E b \in cache : e \in b.entries

CacheInv == TreeTypeOK /\ Tree /\ Branches

LEMMA CacheInit == TreeInit => CacheInv
<1> SUFFICES ASSUME TreeInit PROVE CacheInv
  OBVIOUS
<1> USE TreeAssumption DEF TreeInit
<1>1. NoFork \in ForkRecord
  BY DEF NoFork, ForkRecord, Stages, NoLane
<1>2. TreeTypeOK
  BY <1>1 DEF TreeTypeOK, Added, NoLane
<1>3. Tree
  BY DEF Tree, IsTree, Closed
<1>4. Branches
  BY DEF Branches
<1> QED BY <1>2, <1>3, <1>4 DEF CacheInv

\* The rows of the session are not those of a lane that does not exist.
LEMMA RowsAreAdded ==
  ASSUME CacheInv
  PROVE  /\ entries \subseteq 1..Len(parent) /\ Len(parent) \in 0..MaxEntries
         /\ NoLane \notin entries /\ 0 \notin entries /\ NoLane # 0 /\ NoLane \in Nat
BY TreeAssumption DEF CacheInv, TreeTypeOK, Added, NoLane

LEMMA AppendKeepsCache ==
  ASSUME CacheInv, NEW l \in Lane, AppendEntry(l)
  PROVE  CacheInv'
<1> DEFINE p == leaf[l]
           e == Len(parent) + 1
<1>1. /\ p # NoLane /\ Len(parent) < MaxEntries /\ parent' = Append(parent, p)
      /\ entries' = entries \cup {e} /\ leaf' = [leaf EXCEPT ![l] = e]
      /\ AppendToCache(p, e) /\ rebuilds' = rebuilds /\ fork' = fork
      /\ p \in entries \cup {0}
  BY DEF AppendEntry
<1>2. /\ entries \subseteq 1..Len(parent) /\ Len(parent) \in Nat /\ 0 \notin entries /\ e \in Nat
      /\ IsTree(parent) /\ p \in 0..Len(parent)
  BY <1>1, RowsAreAdded DEF CacheInv, Tree
<1>3. /\ IsTree(parent') /\ Len(parent') = e /\ parent'[e] = p
      /\ \A t \in 1..Len(parent) : \A S : Rooted(parent, S, t) => Rooted(parent', S, t)
      /\ \A x \in 1..Len(parent) : parent'[x] = parent[x]
  <2>1. \A x \in 1..Len(parent) : parent'[x] = parent[x]
    BY <1>1, <1>2 DEF IsTree
  <2> QED BY <2>1, <1>1, <1>2, PathsStay
<1>4. Closed(parent', entries')
  BY <1>1, <1>2, <1>3 DEF CacheInv, Tree, Closed
<1>5. leaf' \in [Lane -> 0..NoLane] /\ \A k \in Lane : leaf'[k] \in entries' \cup {0, NoLane}
  BY <1>1, <1>2, TreeAssumption DEF CacheInv, TreeTypeOK, Tree, NoLane
<1>6. Tree'
  BY <1>3, <1>4, <1>5 DEF Tree, NoLane
<1>7. rebuilds \in Nat /\ <<rebuilds, e>> \in Nat \X Nat
  BY <1>2, TreeAssumption DEF CacheInv, TreeTypeOK
<1>8. ASSUME NEW b \in cache
      PROVE  /\ b.id \in Nat \X Nat /\ b.tip \in 1..Len(parent) /\ b.tip \in entries
             /\ b.entries \subseteq entries /\ Rooted(parent, b.entries, b.tip)
             /\ Rooted(parent', b.entries, b.tip) /\ b \in BranchRow
  BY <1>2, <1>3 DEF CacheInv, Branches, TreeTypeOK, BranchRow
\* The new branch, whatever it is made of.
<1>9. ASSUME NEW i \in Nat \X Nat, NEW S \in SUBSET entries, Rooted(parent', S \cup {e}, e)
      PROVE  LET b == Branch(i, e, S \cup {e}) IN
             b \in BranchRow /\ b.id = i /\ b.tip = e /\ b.entries = S \cup {e}
  <2>1. S \cup {e} \in SUBSET Nat
    <3>1. entries \subseteq Nat /\ e \in Nat BY <1>2
    <3> HIDE DEF e
    <3> QED BY <3>1
  <2> QED BY <2>1, <1>2 DEF Branch, BranchRow
\* What is left of the invariant once the cache is known.
<1>20. ASSUME cache' \in SUBSET BranchRow, Branches' PROVE CacheInv'
  <2>1. parent' \in Seq(Nat) /\ Len(parent') <= MaxEntries
    BY <1>1, <1>2, <1>3, TreeAssumption DEF IsTree
  <2>2. entries' \in SUBSET (1..Len(parent'))
    <3>1. \A x \in entries : x \in 1..e BY <1>2
    <3>2. e \in 1..e BY <1>2
    <3>3. entries' = entries \cup {e} /\ Len(parent') = e BY <1>1, <1>3
    <3> HIDE DEF e
    <3> QED BY <3>1, <3>2, <3>3
  <2>3. rebuilds' \in 0..MaxRebuilds /\ fork' \in ForkRecord
    BY <1>1 DEF CacheInv, TreeTypeOK
  <2>4. TreeTypeOK'
    BY <2>1, <2>2, <2>3, <1>20, <1>5 DEF TreeTypeOK, Added
  <2> QED BY <2>4, <1>6, <1>20 DEF CacheInv
<1>10. CASE p = 0 /\ cache' = cache \cup {Branch(<<rebuilds, e>>, e, {e})}
  <2> DEFINE b == Branch(<<rebuilds, e>>, e, {e})
  <2>1. Rooted(parent', {e}, e)
    BY <1>10, <1>1, <1>2, RootIsBranch
  <2>2. b \in BranchRow /\ b.tip = e /\ b.entries = {e}
    BY <1>2, <1>7 DEF Branch, BranchRow
  <2>3. Branches'
    BY <2>1, <2>2, <1>10, <1>8, <1>1 DEF Branches, CacheInv
  <2>4. cache' \in SUBSET BranchRow
    BY <2>2, <1>10, <1>8
  <2> QED BY <2>3, <2>4, <1>20
<1>11. CASE p # 0 /\ Extended(p, e)
  <2>1. PICK o \in TipBranches(p) : cache' = (cache \ {o}) \cup {Branch(o.id, e, o.entries \cup {e})}
    BY <1>11 DEF Extended
  <2>2. o \in cache /\ o.tip = p
    BY <2>1 DEF TipBranches
  <2> DEFINE b == Branch(o.id, e, o.entries \cup {e})
  <2>3. Rooted(parent', o.entries \cup {e}, e)
    BY <2>2, <1>8, <1>1, <1>2, BranchGrows
  <2>4. b \in BranchRow /\ b.tip = e /\ b.entries = o.entries \cup {e}
    <3>1. o.entries \in SUBSET entries /\ o.id \in Nat \X Nat
      BY <2>2, <1>8
    <3> QED BY <3>1, <2>3, <1>9, ZenonT(60)
  <2>5. \A x \in entries' : \E c \in cache' : x \in c.entries
    <3> SUFFICES ASSUME NEW x \in entries' PROVE \E c \in cache' : x \in c.entries
      OBVIOUS
    <3>1. b \in cache' /\ \A c \in cache : c # o => c \in cache'
      BY <2>1
    <3>2. CASE x = e BY <3>1, <3>2, <2>4
    <3>3. CASE x \in entries
      <4>1. PICK c \in cache : x \in c.entries
        BY <3>3 DEF CacheInv, Branches
      <4> QED BY <4>1, <3>1, <2>4
    <3> QED BY <3>2, <3>3, <1>1
  <2>6. \A c \in cache' : c.tip \in entries' /\ c.entries \subseteq entries' /\ Rooted(parent', c.entries, c.tip)
    BY <2>1, <2>3, <2>4, <2>2, <1>8, <1>1
  <2>7. cache' \in SUBSET BranchRow
    BY <2>1, <2>4, <1>8
  <2>8. Branches'
    BY <2>5, <2>6 DEF Branches
  <2> QED BY <2>7, <2>8, <1>20
<1>12. CASE p # 0 /\ Copied(p, e)
  <2>1. PICK o \in Containing(p) :
          cache' = cache \cup {Branch(<<rebuilds, e>>, e, Through(o.entries, p) \cup {e})}
    BY <1>12 DEF Copied
  <2>2. o \in cache /\ p \in o.entries
    BY <2>1 DEF Containing
  <2> DEFINE S == Through(o.entries, p)
             b == Branch(<<rebuilds, e>>, e, S \cup {e})
  <2>3. Rooted(parent, S, p) /\ S \subseteq entries
    BY <2>2, <1>8, <1>2, CutBranch DEF Through
  <2>4. Rooted(parent', S \cup {e}, e)
    BY <2>3, <1>12, <1>1, <1>2, BranchGrows
  <2>5. b \in BranchRow /\ b.tip = e /\ b.entries = S \cup {e}
    BY <2>3, <2>4, <1>7, <1>9, ZenonT(60)
  <2>6. \A x \in entries' : \E c \in cache' : x \in c.entries
    BY <2>1, <2>5, <1>1 DEF CacheInv, Branches
  <2>7. \A c \in cache' : c.tip \in entries' /\ c.entries \subseteq entries' /\ Rooted(parent', c.entries, c.tip)
    BY <2>1, <2>3, <2>4, <2>5, <1>8, <1>1
  <2>8. cache' \in SUBSET BranchRow
    BY <2>1, <2>5, <1>8
  <2>9. Branches'
    BY <2>6, <2>7 DEF Branches
  <2> QED BY <2>8, <2>9, <1>20
<1> QED BY <1>1, <1>10, <1>11, <1>12 DEF AppendToCache

LEMMA RebuildKeepsCache ==
  ASSUME CacheInv, Rebuild
  PROVE  CacheInv'
<1> DEFINE New(t) == Branch(<<rebuilds + 1, t>>, t, Path(t))
<1>1. /\ \A t \in Leaves : Path(t) \subseteq entries
      /\ rebuilds < MaxRebuilds /\ rebuilds' = rebuilds + 1 /\ cache' = {New(t) : t \in Leaves}
      /\ parent' = parent /\ entries' = entries /\ leaf' = leaf /\ fork' = fork
  BY DEF Rebuild
<1>2. /\ entries \subseteq 1..Len(parent) /\ IsTree(parent) /\ rebuilds \in Nat /\ Len(parent) \in Nat
      /\ rebuilds' \in 0..MaxRebuilds
  BY <1>1, RowsAreAdded, TreeAssumption DEF CacheInv, Tree, TreeTypeOK
<1>3. Leaves = {x \in entries : \A c \in entries : parent[c] # x}
  BY DEF Leaves
<1>4. ASSUME NEW t \in Leaves
      PROVE  /\ t \in 1..Len(parent) /\ t \in entries /\ t \in Nat
             /\ New(t).tip = t /\ New(t).entries = Path(t) /\ Path(t) \subseteq entries
             /\ Rooted(parent, Path(t), t) /\ New(t) \in BranchRow
  <2>1. t \in 1..Len(parent) /\ t \in entries /\ t \in Nat
    BY <1>2, <1>3
  <2>2. Path(t) = Anc(parent, t) /\ Path(t) \subseteq entries
    BY <1>1, PathIsAnc
  <2>3. Rooted(parent, Path(t), t)
    BY <2>1, <2>2, <1>2, AncRooted
  <2>4. New(t).tip = t /\ New(t).entries = Path(t)
    BY DEF Branch
  <2>5. <<rebuilds + 1, t>> \in Nat \X Nat /\ Path(t) \in SUBSET Nat
    <3>1. rebuilds + 1 \in Nat /\ entries \subseteq Nat
      BY <1>2
    <3> QED BY <3>1, <2>1, <2>2
  <2>6. New(t) \in BranchRow
    BY <2>1, <2>5 DEF Branch, BranchRow
  <2> QED BY <2>1, <2>2, <2>3, <2>4, <2>6
<1>5. ASSUME NEW e \in entries PROVE \E b \in cache' : e \in b.entries
  <2>1. PICK t \in Leaves : e \in Anc(parent, t)
    BY <1>2, <1>3, LeavesCover
  <2>2. New(t) \in cache' /\ e \in New(t).entries
    BY <2>1, <1>1, <1>4, PathIsAnc
  <2> QED BY <2>2
<1>6. Branches'
  <2>1. ASSUME NEW b \in cache'
        PROVE  b.tip \in entries' /\ b.entries \subseteq entries' /\ Rooted(parent', b.entries, b.tip)
    <3>1. PICK t \in Leaves : b = New(t) BY <1>1
    <3> HIDE DEF New
    <3> QED BY <3>1, <1>1, <1>4
  <2> QED BY <2>1, <1>1, <1>5 DEF Branches
<1>7. cache' \in SUBSET BranchRow
  BY <1>1, <1>4
<1>8. Tree'
  BY <1>1 DEF CacheInv, Tree, Closed
<1>9. TreeTypeOK'
  BY <1>1, <1>2, <1>7 DEF CacheInv, TreeTypeOK, Added
<1> QED BY <1>6, <1>8, <1>9 DEF CacheInv

\* The steps of a fork leave the source alone.
LEMMA ReadingKeepsCache ==
  ASSUME CacheInv, UNCHANGED source, fork' \in ForkRecord
  PROVE  CacheInv'
<1> USE DEF source
<1>1. TreeTypeOK' BY DEF CacheInv, TreeTypeOK, Added
<1>2. Tree' BY DEF CacheInv, Tree, Closed
<1>3. Branches' BY DEF CacheInv, Branches
<1> QED BY <1>1, <1>2, <1>3 DEF CacheInv

\* Nor do lanes touch the tree, or the creation of a session under the id of another.
LEMMA LanesKeepCache ==
  ASSUME CacheInv, UNCHANGED <<parent, entries, cache, rebuilds, fork>>,
         NEW l \in Lane, NEW at \in Target, leaf' = [leaf EXCEPT ![l] = at]
  PROVE  CacheInv'
<1>1. leaf \in [Lane -> 0..NoLane] /\ at \in 0..NoLane /\ at \in entries \cup {0}
  <2>1. at \in entries \cup {0} BY DEF Target
  <2>2. \A e \in entries : e \in 0..NoLane BY RowsAreAdded, TreeAssumption DEF NoLane
  <2>3. 0 \in 0..NoLane BY RowsAreAdded
  <2> QED BY <2>1, <2>2, <2>3 DEF CacheInv, TreeTypeOK
<1>2. leaf' \in [Lane -> 0..NoLane] /\ \A k \in Lane : leaf'[k] \in entries \cup {0, NoLane}
  BY <1>1 DEF CacheInv, Tree
<1>3. TreeTypeOK' BY <1>2 DEF CacheInv, TreeTypeOK, Added, NoLane
<1>4. Tree' BY <1>2 DEF CacheInv, Tree, Closed, NoLane
<1>5. Branches' BY DEF CacheInv, Branches
<1> QED BY <1>3, <1>4, <1>5 DEF CacheInv

LEMMA DeleteKeepsCache ==
  ASSUME CacheInv, Delete
  PROVE  CacheInv'
<1>1. /\ entries' = {} /\ cache' = {} /\ leaf' = [l \in Lane |-> NoLane]
      /\ parent' = parent /\ rebuilds' = rebuilds /\ fork' = [fork EXCEPT !.sourceGone = TRUE]
  BY DEF Delete
<1>2. fork' \in ForkRecord BY <1>1 DEF CacheInv, TreeTypeOK, ForkRecord
<1>3. TreeTypeOK' BY <1>1, <1>2, TreeAssumption DEF CacheInv, TreeTypeOK, Added, NoLane
<1>4. Tree' BY <1>1 DEF CacheInv, Tree, Closed, NoLane
<1>5. Branches' BY <1>1 DEF Branches
<1> QED BY <1>3, <1>4, <1>5 DEF CacheInv

-----------------------------------------------------------------------------
\* What is known of a fork while it is read, as long as its source is there.
ForkPaths == UNION {Anc(parent, t) : t \in fork.tips}
LanesAre(S) == fork.leaf[main] # NoLane /\ \A l \in Lane : fork.leaf[l] \in S \cup {0, NoLane}

\* A branch keeps its id, and no other branch is ever given it.
Ids ==
  /\ \A b \in cache : b.id[1] <= rebuilds /\ b.id[2] <= Len(parent)
  /\ \A b, c \in cache : b.id = c.id => b = c
  /\ fork.stage = "members" =>
       /\ fork.cached[1] <= rebuilds /\ fork.cached[2] <= Len(parent)
       /\ \A b \in cache : b.id = fork.cached => fork.tips \subseteq b.entries

\* What was read first is there still when the tips are read.
Reads ==
  /\ fork.tips \subseteq 1..Len(parent)
  /\ fork.stage \in {"branch", "members"} =>
       fork.entries = {} /\ \E t \in Nat : fork.tips = {t} /\ LanesAre({t})
  /\ ~fork.sourceGone =>
       /\ fork.stage \in {"lanes", "tips"} => Exists /\ fork.entries \subseteq entries
       /\ fork.stage = "tips" => LanesAre(entries)
       /\ fork.stage = "build" => fork.entries \subseteq ForkPaths /\ LanesAre(ForkPaths)
       /\ fork.stage = "forked" => fork.entries = ForkPaths /\ LanesAre(fork.entries)

ForkInv == Ids /\ Reads

\* The fields of a fork that begins.
LEMMA NoForkFields ==
  /\ NoFork.stage = "none" /\ NoFork.entries = {} /\ NoFork.tips = {} /\ NoFork.sourceGone = FALSE
  /\ NoFork.leaf = [l \in Lane |-> NoLane] /\ NoFork \in ForkRecord
BY TreeAssumption DEF NoFork, ForkRecord, Stages, NoLane

LEMMA ForkInit == TreeInit => ForkInv
<1> SUFFICES ASSUME TreeInit PROVE ForkInv
  OBVIOUS
<1>1. Ids BY NoForkFields DEF TreeInit, Ids
<1>2. Reads BY NoForkFields DEF TreeInit, Reads
<1> QED BY <1>1, <1>2 DEF ForkInv

\* A fork that has ended knows nothing.
LEMMA NoForkFits ==
  ASSUME CacheInv, ForkInv, UNCHANGED source, fork' = NoFork
  PROVE  fork' \in ForkRecord /\ ForkInv'
<1>1. Ids' BY NoForkFields DEF ForkInv, Ids, source
<1>2. Reads' BY NoForkFields DEF ForkInv, Reads
<1> QED BY <1>1, <1>2, NoForkFields DEF ForkInv

LEMMA StartTreeKeeps ==
  ASSUME CacheInv, ForkInv, StartTree
  PROVE  fork' \in ForkRecord /\ ForkInv'
<1>1. /\ Exists /\ UNCHANGED source
      /\ fork' = [NoFork EXCEPT !.stage = "lanes", !.entries = entries]
  BY DEF StartTree
<1>2. entries \in SUBSET Nat
  BY RowsAreAdded
<1>3. /\ fork'.stage = "lanes" /\ fork'.entries = entries /\ fork'.tips = {} /\ fork'.sourceGone = FALSE
      /\ fork' \in ForkRecord
  BY <1>1, <1>2, NoForkFields DEF NoFork, ForkRecord, Stages
<1>4. Ids' BY <1>1, <1>3 DEF ForkInv, Ids, source
<1>5. Reads' BY <1>1, <1>3 DEF Reads, source, Exists
<1> QED BY <1>3, <1>4, <1>5 DEF ForkInv

LEMMA ReadLanesKeeps ==
  ASSUME CacheInv, ForkInv, ReadLanes
  PROVE  fork' \in ForkRecord /\ ForkInv'
<1>1. fork.stage = "lanes" /\ UNCHANGED source
  BY DEF ReadLanes
<1>2. CASE fork' = NoFork
  BY <1>1, <1>2, NoForkFits
<1>3. CASE fork' = [fork EXCEPT !.stage = "tips", !.leaf = leaf]
  <2>1. /\ fork'.stage = "tips" /\ fork'.leaf = leaf /\ fork'.entries = fork.entries
        /\ fork'.tips = fork.tips /\ fork'.sourceGone = fork.sourceGone /\ fork' \in ForkRecord
    BY <1>3 DEF CacheInv, TreeTypeOK, ForkRecord, Stages
  <2>2. Ids' BY <1>1, <2>1 DEF ForkInv, Ids, source
  <2>3. ~fork'.sourceGone => Exists /\ fork'.entries \subseteq entries
    BY <1>1, <2>1 DEF ForkInv, Reads
  <2>4. ~fork'.sourceGone => LanesAre(entries)'
    BY <1>1, <2>1, <2>3 DEF LanesAre, CacheInv, Tree, Exists, NoLane, source
  <2>5. Reads' BY <1>1, <2>1, <2>3, <2>4 DEF ForkInv, Reads, source, Exists
  <2> QED BY <2>1, <2>2, <2>5 DEF ForkInv
<1> QED BY <1>2, <1>3 DEF ReadLanes

\* When the tips are read, every row is on the path of one of them.
LEMMA ReadTipsKeeps ==
  ASSUME CacheInv, ForkInv, ReadTips
  PROVE  fork' \in ForkRecord /\ ForkInv'
<1>1. fork.stage = "tips" /\ UNCHANGED source /\ fork' = [fork EXCEPT !.stage = "build", !.tips = Tips(cache)]
  BY DEF ReadTips
<1>2. Tips(cache) \subseteq entries /\ entries \subseteq 1..Len(parent) /\ entries \subseteq Nat
  BY RowsAreAdded DEF Tips, CacheInv, Branches
<1>3. /\ fork'.stage = "build" /\ fork'.leaf = fork.leaf /\ fork'.entries = fork.entries
      /\ fork'.tips = Tips(cache) /\ fork'.sourceGone = fork.sourceGone
  BY <1>1 DEF CacheInv, TreeTypeOK, ForkRecord
<1>4. fork' \in ForkRecord
  BY <1>1, <1>2 DEF CacheInv, TreeTypeOK, ForkRecord, Stages
<1>5. ForkPaths' = UNION {Anc(parent, t) : t \in Tips(cache)}
  BY <1>1, <1>3 DEF ForkPaths, source
<1>6. entries \subseteq ForkPaths'
  <2> SUFFICES ASSUME NEW e \in entries PROVE e \in ForkPaths'
    OBVIOUS
  <2>1. PICK b \in cache : e \in b.entries
    BY DEF CacheInv, Branches
  <2>2. b.tip \in 1..Len(parent) /\ Rooted(parent, b.entries, b.tip) /\ b.tip \in Tips(cache)
    BY <1>2 DEF CacheInv, Branches, Tips
  <2>3. e \in Anc(parent, b.tip)
    BY <2>1, <2>2, WholeBranch DEF CacheInv, Tree
  <2> QED BY <2>2, <2>3, <1>5
<1>7. ~fork'.sourceGone => fork'.entries \subseteq ForkPaths' /\ LanesAre(ForkPaths)'
  <2> SUFFICES ASSUME ~fork.sourceGone PROVE fork'.entries \subseteq ForkPaths' /\ LanesAre(ForkPaths)'
    BY <1>3
  <2>1. fork.entries \subseteq entries /\ LanesAre(entries)
    BY <1>1 DEF ForkInv, Reads
  <2>2. fork'.entries \subseteq ForkPaths'
    BY <2>1, <1>3, <1>6
  <2>3. LanesAre(ForkPaths)'
    BY <2>1, <1>3, <1>6 DEF LanesAre, NoLane
  <2> QED BY <2>2, <2>3
<1>8. Ids' BY <1>1, <1>3 DEF ForkInv, Ids, source
<1>9. fork'.tips \subseteq 1..Len(parent')
  BY <1>1, <1>2, <1>3 DEF source
<1>10. Reads' BY <1>3, <1>7, <1>9 DEF Reads
<1> QED BY <1>4, <1>8, <1>10 DEF ForkInv

LEMMA StartBranchKeeps ==
  ASSUME CacheInv, ForkInv, StartBranch
  PROVE  fork' \in ForkRecord /\ ForkInv'
<1>1. Exists /\ UNCHANGED source
  BY DEF StartBranch
<1>2. PICK e \in entries \cup {leaf[main]}, at \in {TRUE, FALSE} :
        LET target == IF at \/ e = 0 THEN e ELSE parent[e] IN
        fork' = [NoFork EXCEPT !.stage = IF target = 0 THEN "build" ELSE "branch",
                               !.leaf[main] = target, !.tips = {target} \ {0}]
  BY DEF StartBranch
<1> DEFINE target == IF at \/ e = 0 THEN e ELSE parent[e]
<1>3. leaf[main] \in entries \cup {0}
  BY <1>1, TreeAssumption DEF CacheInv, Tree, Exists
<1>4. target \in entries \cup {0}
  BY <1>3 DEF CacheInv, Tree, Closed
<1>5. /\ \A x \in entries : x \in 1..Len(parent) /\ x \in 0..NoLane /\ x \in Nat
      /\ 0 \in 0..NoLane /\ NoLane \notin entries /\ NoLane # 0 /\ NoLane \in 0..NoLane
  BY RowsAreAdded, TreeAssumption DEF NoLane
<1>6. fork' = [NoFork EXCEPT !.stage = IF target = 0 THEN "build" ELSE "branch",
                             !.leaf[main] = target, !.tips = {target} \ {0}]
  BY <1>2
<1> HIDE DEF target
<1> DEFINE start == [l \in Lane |-> IF l = main THEN target ELSE NoLane]
<1>7. [NoFork.leaf EXCEPT ![main] = target] = start
  BY NoForkFields
<1>8. /\ fork'.stage = (IF target = 0 THEN "build" ELSE "branch") /\ fork'.leaf = start
      /\ fork'.entries = {} /\ fork'.tips = {target} \ {0} /\ fork'.sourceGone = FALSE
  BY <1>6, <1>7 DEF NoFork
<1>9. start \in [Lane -> 0..NoLane]
  BY <1>4, <1>5
<1>10. {target} \ {0} \in SUBSET (1..Len(parent)) /\ {target} \ {0} \in SUBSET Nat
  BY <1>4, <1>5
<1>11. fork' \in ForkRecord
  <2> HIDE DEF start
  <2>1. NoFork.cached = <<0, 0>>
    BY DEF NoFork
  <2> QED BY <1>6, <1>7, <1>8, <1>9, <1>10, <2>1 DEF NoFork, ForkRecord, Stages
<1>12. start[main] # NoLane /\ \A l \in Lane : start[l] \in {target, NoLane}
  BY <1>4, <1>5, TreeAssumption
<1> HIDE DEF start
<1>13. Ids' BY <1>1, <1>8 DEF ForkInv, Ids, source
<1>14. CASE target = 0
  <2>1. fork'.stage = "build" /\ fork'.tips = {} /\ LanesAre(ForkPaths)'
    BY <1>14, <1>8, <1>12 DEF LanesAre
  <2>2. Reads' BY <2>1, <1>8 DEF Reads
  <2> QED BY <2>2, <1>11, <1>13 DEF ForkInv
<1>15. CASE target # 0
  <2>1. fork'.stage = "branch" /\ fork'.tips = {target} /\ target \in Nat
    BY <1>15, <1>8, <1>4, <1>5
  <2>2. fork'.leaf[main] # NoLane /\ \A l \in Lane : fork'.leaf[l] \in {target} \cup {0, NoLane}
    BY <1>8, <1>12
  <2>3. fork'.tips \subseteq 1..Len(parent')
    BY <1>1, <1>8, <1>10 DEF source
  <2>4. \E t \in Nat : fork'.tips = {t} /\ fork'.leaf[main] # NoLane
                        /\ \A l \in Lane : fork'.leaf[l] \in {t} \cup {0, NoLane}
    BY <2>1, <2>2
  <2>5. (\E t \in Nat : fork.tips = {t} /\ LanesAre({t}))'
    BY <2>4 DEF LanesAre, NoLane
  <2>6. Reads' BY <2>1, <2>3, <2>5, <1>8 DEF Reads
  <2> QED BY <2>6, <1>11, <1>13 DEF ForkInv
<1> QED BY <1>14, <1>15

LEMMA FindBranchKeeps ==
  ASSUME CacheInv, ForkInv, FindBranch
  PROVE  fork' \in ForkRecord /\ ForkInv'
<1>1. fork.stage = "branch" /\ UNCHANGED source
  BY DEF FindBranch
<1>2. CASE fork' = NoFork
  BY <1>1, <1>2, NoForkFits
<1>3. ASSUME NEW target \in fork.tips, NEW b \in Containing(target),
             fork' = [fork EXCEPT !.stage = "members", !.cached = b.id]
      PROVE  fork' \in ForkRecord /\ ForkInv'
  <2>1. b \in cache /\ target \in b.entries /\ b.id \in Nat \X Nat
    BY <1>3 DEF Containing, CacheInv, TreeTypeOK, BranchRow
  <2>2. /\ fork'.stage = "members" /\ fork'.cached = b.id /\ fork'.entries = fork.entries
        /\ fork'.leaf = fork.leaf /\ fork'.tips = fork.tips /\ fork'.sourceGone = fork.sourceGone
    BY <1>3 DEF CacheInv, TreeTypeOK, ForkRecord
  <2>3. fork' \in ForkRecord
    BY <1>3, <2>1 DEF CacheInv, TreeTypeOK, ForkRecord, Stages
  <2>4. fork.tips = {target}
    BY <1>1, <1>3 DEF ForkInv, Reads
  <2>5. \A c \in cache : c.id = b.id => fork.tips \subseteq c.entries
    <3> SUFFICES ASSUME NEW c \in cache, c.id = b.id PROVE fork.tips \subseteq c.entries
      OBVIOUS
    <3>1. c = b BY <2>1 DEF ForkInv, Ids
    <3> QED BY <3>1, <2>1, <2>4
  <2>6. Ids'
    <3>1. b.id[1] <= rebuilds /\ b.id[2] <= Len(parent)
      BY <2>1 DEF ForkInv, Ids
    <3> QED BY <3>1, <2>2, <2>5, <1>1 DEF ForkInv, Ids, source
  <2>7. Reads'
    <3>1. fork.entries = {} /\ \E t \in Nat : fork.tips = {t} /\ LanesAre({t})
      BY <1>1 DEF ForkInv, Reads
    <3>2. \A S : LanesAre(S)' <=> fork.leaf[main] # NoLane /\ \A l \in Lane : fork.leaf[l] \in S \cup {0, NoLane}
      BY <2>2 DEF LanesAre, NoLane
    <3>3. PICK t \in Nat : fork.tips = {t} /\ LanesAre({t})
      BY <3>1
    <3>4. fork'.tips = {t} /\ LanesAre({t})'
      BY <3>3, <2>2 DEF LanesAre, NoLane
    <3>5. fork'.tips \subseteq 1..Len(parent')
      BY <1>1, <2>2 DEF ForkInv, Reads, source
    <3> QED BY <3>1, <3>4, <3>5, <2>2 DEF Reads
  <2> QED BY <2>3, <2>6, <2>7 DEF ForkInv
<1> QED BY <1>2, <1>3 DEF FindBranch

\* Of the branch that was found, the members up to the target are its path; if
\* the cache was rebuilt, there are none.
LEMMA ReadMembersKeeps ==
  ASSUME CacheInv, ForkInv, ReadMembers
  PROVE  fork' \in ForkRecord /\ ForkInv'
<1>1. fork.stage = "members" /\ UNCHANGED source
  BY DEF ReadMembers
<1>2. PICK target \in fork.tips :
        fork' = [fork EXCEPT !.stage = "build",
                   !.entries = UNION {Through(b.entries, target) : b \in {c \in cache : c.id = fork.cached}}]
  BY DEF ReadMembers
<1> DEFINE read == UNION {Through(b.entries, target) : b \in {c \in cache : c.id = fork.cached}}
<1>3. fork.tips = {target} /\ LanesAre({target}) /\ target \in 1..Len(parent) /\ target \in Nat
  BY <1>1 DEF ForkInv, Reads
<1>4. ASSUME NEW b \in cache, b.id = fork.cached PROVE Through(b.entries, target) = Anc(parent, target)
  <2>1. target \in b.entries
    BY <1>1, <1>4 DEF ForkInv, Ids
  <2>2. b.tip \in 1..Len(parent) /\ Rooted(parent, b.entries, b.tip) /\ IsTree(parent)
    BY RowsAreAdded DEF CacheInv, Tree, Branches
  <2> QED BY <2>1, <2>2, BranchIsPath
<1>5. read \subseteq Anc(parent, target)
  BY <1>4
<1>6. target \in Anc(parent, target) /\ Anc(parent, target) \subseteq Nat
  BY <1>3, AncClosed DEF CacheInv, Tree
<1> HIDE DEF read
<1>7. /\ fork'.stage = "build" /\ fork'.entries = read
      /\ fork'.leaf = fork.leaf /\ fork'.tips = fork.tips /\ fork'.sourceGone = fork.sourceGone
  BY <1>2 DEF CacheInv, TreeTypeOK, ForkRecord, read
<1>8. fork' \in ForkRecord
  <2>1. read \in SUBSET Nat BY <1>5, <1>6
  <2>2. fork' = [fork EXCEPT !.stage = "build", !.entries = read]
    BY <1>2 DEF read
  <2> QED BY <2>1, <2>2 DEF CacheInv, TreeTypeOK, ForkRecord, Stages
<1>9. Ids' BY <1>1, <1>7 DEF ForkInv, Ids, source
<1>10. ForkPaths' = Anc(parent, target)
  <2>1. parent' = parent /\ fork'.tips = {target}
    BY <1>1, <1>3, <1>7 DEF source
  <2> QED BY <2>1 DEF ForkPaths
<1>11. LanesAre(ForkPaths)'
  BY <1>3, <1>6, <1>7, <1>10 DEF LanesAre, NoLane
<1>12. fork'.tips \subseteq 1..Len(parent')
  BY <1>1, <1>3, <1>7 DEF source
<1>13. Reads'
  BY <1>5, <1>7, <1>10, <1>11, <1>12 DEF Reads
<1> QED BY <1>8, <1>9, <1>13 DEF ForkInv

\* The fork is built when the paths of all tips have been read: then they are all
\* that was read.
LEMMA BuildForkKeeps ==
  ASSUME CacheInv, ForkInv, BuildFork
  PROVE  fork' \in ForkRecord /\ ForkInv'
<1>1. fork.stage = "build" /\ UNCHANGED source
  BY DEF BuildFork
<1>2. CASE fork' = NoFork
  BY <1>1, <1>2, NoForkFits
<1>3. CASE Builds /\ fork' = [fork EXCEPT !.stage = "forked"]
  <2>1. /\ fork'.stage = "forked" /\ fork'.entries = fork.entries
        /\ fork'.leaf = fork.leaf /\ fork'.tips = fork.tips /\ fork'.sourceGone = fork.sourceGone
        /\ fork' \in ForkRecord
    BY <1>3 DEF CacheInv, TreeTypeOK, ForkRecord, Stages
  <2>2. Ids' BY <1>1, <2>1 DEF ForkInv, Ids, source
  <2>3. ForkPaths' = ForkPaths
    BY <1>1, <2>1 DEF ForkPaths, source
  <2>4. ForkPaths \subseteq fork.entries
    BY <1>3, PathIsAnc DEF Builds, ForkPaths
  <2>5. ~fork.sourceGone => fork.entries = ForkPaths /\ LanesAre(fork.entries)
    <3>1. ~fork.sourceGone => fork.entries \subseteq ForkPaths /\ LanesAre(ForkPaths)
      BY <1>1 DEF ForkInv, Reads
    <3>2. ~fork.sourceGone => fork.entries = ForkPaths
      BY <3>1, <2>4
    <3> QED BY <3>1, <3>2
  <2>6. ~fork'.sourceGone => fork'.entries = ForkPaths' /\ LanesAre(fork.entries)'
    BY <2>1, <2>3, <2>5 DEF LanesAre, NoLane
  <2>7. fork'.tips \subseteq 1..Len(parent')
    BY <1>1, <2>1 DEF ForkInv, Reads, source
  <2>8. Reads' BY <2>1, <2>6, <2>7 DEF Reads
  <2> QED BY <2>1, <2>2, <2>8 DEF ForkInv
<1> QED BY <1>2, <1>3 DEF BuildFork

\* The writer takes nothing away that a fork has read, as long as it does not delete.
LEMMA WritesKeepReads ==
  ASSUME CacheInv, ForkInv, fork' = fork, entries \subseteq entries', Exists => Exists',
         Len(parent) <= Len(parent'), Len(parent') \in Nat,
         \A t \in 1..Len(parent) : Anc(parent', t) = Anc(parent, t)
  PROVE  Reads'
<1>1. fork.tips \subseteq 1..Len(parent) /\ Len(parent) \in Nat
  BY RowsAreAdded DEF ForkInv, Reads
<1>2. ForkPaths' = ForkPaths
  BY <1>1 DEF ForkPaths
<1>3. \A x \in 1..Len(parent) : x \in 1..Len(parent')
  BY <1>1
<1>4. fork'.tips \subseteq 1..Len(parent')
  BY <1>1, <1>3
<1>5. LanesAre(entries) => LanesAre(entries)'
  BY DEF LanesAre, NoLane
<1>6. LanesAre(ForkPaths) <=> LanesAre(ForkPaths)'
  BY <1>2 DEF LanesAre, NoLane
<1>7. LanesAre(fork.entries) <=> LanesAre(fork.entries)'
  BY DEF LanesAre, NoLane
<1>8. fork.stage \in {"branch", "members"} =>
        fork.entries = {} /\ (\E t \in Nat : fork.tips = {t} /\ LanesAre({t}))'
  BY DEF ForkInv, Reads, LanesAre, NoLane
<1> QED BY <1>2, <1>4, <1>5, <1>6, <1>7, <1>8 DEF ForkInv, Reads

LEMMA AppendKeepsFork ==
  ASSUME CacheInv, ForkInv, NEW l \in Lane, AppendEntry(l)
  PROVE  ForkInv'
<1> DEFINE p == leaf[l]
           e == Len(parent) + 1
<1>1. /\ p # NoLane /\ Len(parent) < MaxEntries /\ parent' = Append(parent, p)
      /\ entries' = entries \cup {e} /\ leaf' = [leaf EXCEPT ![l] = e]
      /\ AppendToCache(p, e) /\ rebuilds' = rebuilds /\ fork' = fork
      /\ p \in entries \cup {0}
  BY DEF AppendEntry
<1>2. /\ Len(parent) \in Nat /\ e \in Nat /\ IsTree(parent) /\ p \in 0..Len(parent) /\ rebuilds \in Nat
      /\ leaf \in [Lane -> 0..NoLane] /\ e # NoLane
  BY <1>1, RowsAreAdded, TreeAssumption DEF CacheInv, Tree, TreeTypeOK, NoLane
<1>3. /\ Len(parent') = e
      /\ \A t \in 1..Len(parent) : Anc(parent', t) = Anc(parent, t)
  BY <1>1, <1>2, PathsStay
<1>4. Exists => Exists'
  BY <1>1, <1>2 DEF Exists, NoLane
<1>5. Len(parent) <= Len(parent') /\ Len(parent') \in Nat
  BY <1>2, <1>3
<1>6. Reads'
  <2>1. entries \subseteq entries' BY <1>1
  <2> QED BY <2>1, <1>1, <1>3, <1>4, <1>5, WritesKeepReads
<1>7. /\ \A b \in cache : b.id[1] <= rebuilds /\ b.id[2] <= Len(parent) /\ b.id \in Nat \X Nat
      /\ \A b, c \in cache : b.id = c.id => b = c
      /\ fork.stage = "members" =>
           /\ fork.cached[1] <= rebuilds /\ fork.cached[2] <= Len(parent)
           /\ \A b \in cache : b.id = fork.cached => fork.tips \subseteq b.entries
      /\ fork.cached \in Nat \X Nat
  BY DEF ForkInv, Ids, CacheInv, TreeTypeOK, BranchRow, ForkRecord
\* The id of a new branch is in use nowhere.
<1>8. /\ \A b \in cache : b.id # <<rebuilds, e>> /\ b.id[2] <= e
      /\ fork.stage = "members" => fork.cached # <<rebuilds, e>> /\ fork.cached[2] <= e
  <2>1. <<rebuilds, e>>[2] = e
    OBVIOUS
  <2>2. ASSUME NEW i \in Nat \X Nat, i[2] <= Len(parent) PROVE i # <<rebuilds, e>> /\ i[2] <= e
    BY <2>1, <2>2, <1>2
  <2> QED BY <2>2, <1>7
<1>9. ASSUME NEW S, cache' = cache \cup {Branch(<<rebuilds, e>>, e, S)} PROVE Ids'
  <2> DEFINE n == Branch(<<rebuilds, e>>, e, S)
  <2>1. n.id = <<rebuilds, e>> /\ n.id[1] <= rebuilds /\ n.id[2] <= e
    BY <1>2 DEF Branch
  <2> HIDE DEF n
  <2>2. cache' = cache \cup {n}
    BY <1>9 DEF n
  <2>3. \A b \in cache' : b.id[1] <= rebuilds' /\ b.id[2] <= Len(parent')
    BY <2>1, <2>2, <1>1, <1>3, <1>7, <1>8
  <2>4. \A b, c \in cache' : b.id = c.id => b = c
    BY <2>1, <2>2, <1>7, <1>8
  <2>5. fork'.stage = "members" =>
           /\ fork'.cached[1] <= rebuilds' /\ fork'.cached[2] <= Len(parent')
           /\ \A b \in cache' : b.id = fork'.cached => fork'.tips \subseteq b.entries
    BY <2>1, <2>2, <1>1, <1>3, <1>7, <1>8
  <2> QED BY <2>3, <2>4, <2>5 DEF Ids
<1>10. ASSUME Extended(p, e) PROVE Ids'
  <2>1. PICK o \in cache : cache' = (cache \ {o}) \cup {Branch(o.id, e, o.entries \cup {e})}
    BY <1>10 DEF Extended, TipBranches
  <2> DEFINE n == Branch(o.id, e, o.entries \cup {e})
  <2>2. n.id = o.id /\ o.entries \subseteq n.entries
    BY DEF Branch
  <2> HIDE DEF n
  <2>3. cache' = (cache \ {o}) \cup {n}
    BY <2>1 DEF n
  <2>4. \A b \in cache' : b.id[1] <= rebuilds' /\ b.id[2] <= Len(parent')
    BY <2>2, <2>3, <1>1, <1>3, <1>7, <1>8
  <2>5. \A b, c \in cache' : b.id = c.id => b = c
    BY <2>2, <2>3, <1>7
  <2>6. fork'.stage = "members" =>
           /\ fork'.cached[1] <= rebuilds' /\ fork'.cached[2] <= Len(parent')
           /\ \A b \in cache' : b.id = fork'.cached => fork'.tips \subseteq b.entries
    BY <2>2, <2>3, <1>1, <1>3, <1>7, <1>8
  <2> QED BY <2>4, <2>5, <2>6 DEF Ids
<1>11. Ids'
  <2>1. CASE p = 0 /\ cache' = cache \cup {Branch(<<rebuilds, e>>, e, {e})}
    BY <2>1, <1>9
  <2>2. CASE Copied(p, e)
    <3>1. PICK o \in Containing(p) :
            cache' = cache \cup {Branch(<<rebuilds, e>>, e, Through(o.entries, p) \cup {e})}
      BY <2>2 DEF Copied
    <3> QED BY <3>1, <1>9
  <2>3. AppendToCache(p, e)
    BY <1>1
  <2> HIDE DEF e, p
  <2> QED BY <2>1, <2>2, <2>3, <1>10 DEF AppendToCache
<1> QED BY <1>6, <1>11 DEF ForkInv

LEMMA RebuildKeepsFork ==
  ASSUME CacheInv, ForkInv, Rebuild
  PROVE  ForkInv'
<1> DEFINE New(t) == Branch(<<rebuilds + 1, t>>, t, Path(t))
<1>1. /\ rebuilds' = rebuilds + 1 /\ cache' = {New(t) : t \in Leaves} /\ rebuilds \in Nat
      /\ parent' = parent /\ entries' = entries /\ leaf' = leaf /\ fork' = fork
  BY TreeAssumption DEF Rebuild, CacheInv, TreeTypeOK
<1>2. Len(parent) \in Nat /\ \A t \in Leaves : t \in 1..Len(parent)
  BY RowsAreAdded DEF Leaves
<1>3. Reads'
  BY <1>1, <1>2, WritesKeepReads DEF Exists, NoLane
<1>4. \A t \in Leaves : New(t).id = <<rebuilds + 1, t>> /\ New(t).id[1] = rebuilds + 1 /\ New(t).id[2] = t
  BY DEF Branch
<1> HIDE DEF New
<1>5. \A b \in cache' : b.id[1] = rebuilds + 1 /\ b.id[2] <= Len(parent)
  BY <1>1, <1>2, <1>4
<1>6. \A b, c \in cache' : b.id = c.id => b = c
  BY <1>1, <1>4
<1>7. fork.stage = "members" =>
         /\ fork.cached[1] <= rebuilds /\ fork.cached[1] \in Nat /\ fork.cached[2] <= Len(parent)
  BY DEF ForkInv, Ids, CacheInv, TreeTypeOK, ForkRecord
<1>8. fork.stage = "members" => \A b \in cache' : b.id # fork.cached
  BY <1>1, <1>5, <1>7
<1>9. \A b \in cache' : b.id[1] <= rebuilds' /\ b.id[2] <= Len(parent')
  BY <1>1, <1>5
<1>10. fork.stage = "members" => fork.cached[1] <= rebuilds' /\ fork.cached[2] <= Len(parent')
  BY <1>1, <1>7
<1>11. Ids'
  BY <1>1, <1>6, <1>8, <1>9, <1>10 DEF Ids
<1> QED BY <1>3, <1>11 DEF ForkInv

LEMMA LanesKeepFork ==
  ASSUME CacheInv, ForkInv, UNCHANGED <<parent, entries, cache, rebuilds, fork>>, Exists => Exists'
  PROVE  ForkInv'
<1>1. Len(parent) \in Nat
  BY RowsAreAdded
<1>2. Reads' BY <1>1, WritesKeepReads
<1>3. Ids' BY DEF ForkInv, Ids
<1> QED BY <1>2, <1>3 DEF ForkInv

LEMMA DeleteKeepsFork ==
  ASSUME CacheInv, ForkInv, Delete
  PROVE  ForkInv'
<1>1. /\ cache' = {} /\ parent' = parent /\ rebuilds' = rebuilds
      /\ fork'.stage = fork.stage /\ fork'.entries = fork.entries /\ fork'.leaf = fork.leaf
      /\ fork'.tips = fork.tips /\ fork'.cached = fork.cached /\ fork'.sourceGone = TRUE
  BY DEF Delete, CacheInv, TreeTypeOK, ForkRecord
<1>2. Ids' BY <1>1 DEF ForkInv, Ids
<1>3. Reads' BY <1>1 DEF ForkInv, Reads, LanesAre, NoLane
<1> QED BY <1>2, <1>3 DEF ForkInv

-----------------------------------------------------------------------------
Inv == CacheInv /\ ForkInv

LEMMA InvStep == Inv /\ [TreeNext]_treeVars => Inv'
<1> SUFFICES ASSUME CacheInv, ForkInv, [TreeNext]_treeVars PROVE CacheInv' /\ ForkInv'
  BY DEF Inv
<1>1. ASSUME NEW l \in Lane, AppendEntry(l) PROVE CacheInv' /\ ForkInv'
  BY <1>1, AppendKeepsCache, AppendKeepsFork
<1>2. ASSUME NEW l \in Lane, CreateLane(l) PROVE CacheInv' /\ ForkInv'
  <2>1. PICK at \in Target : leaf' = [leaf EXCEPT ![l] = at]
    BY <1>2 DEF CreateLane
  <2>2. leaf[l] = NoLane /\ Exists /\ UNCHANGED <<parent, entries, cache, rebuilds, fork>>
    BY <1>2 DEF CreateLane
  <2>3. Exists'
    BY <2>1, <2>2, TreeAssumption DEF Exists, CacheInv, TreeTypeOK, NoLane
  <2> QED BY <2>1, <2>2, <2>3, LanesKeepCache, LanesKeepFork
<1>3. ASSUME NEW l \in Lane, MoveLane(l) PROVE CacheInv' /\ ForkInv'
  <2>1. PICK to \in Target : leaf' = [leaf EXCEPT ![l] = to]
    BY <1>3 DEF MoveLane
  <2>2. UNCHANGED <<parent, entries, cache, rebuilds, fork>>
    BY <1>3 DEF MoveLane
  <2>3. Exists => Exists'
    BY <2>1, RowsAreAdded, TreeAssumption DEF Exists, Target, CacheInv, TreeTypeOK, NoLane
  <2> QED BY <2>1, <2>2, <2>3, LanesKeepCache, LanesKeepFork
<1>4. ASSUME Rebuild PROVE CacheInv' /\ ForkInv'
  BY <1>4, RebuildKeepsCache, RebuildKeepsFork
<1>5. ASSUME Delete PROVE CacheInv' /\ ForkInv'
  BY <1>5, DeleteKeepsCache, DeleteKeepsFork
<1>6. ASSUME Create PROVE CacheInv' /\ ForkInv'
  <2>1. leaf' = [leaf EXCEPT ![main] = 0] /\ 0 \in Target
        /\ UNCHANGED <<parent, entries, cache, rebuilds, fork>> /\ ~Exists
    BY <1>6 DEF Create, Target
  <2> QED BY <2>1, TreeAssumption, LanesKeepCache, LanesKeepFork
<1>7. ASSUME Fork PROVE CacheInv' /\ ForkInv'
  <2>1. UNCHANGED source
    BY <1>7 DEF Fork, StartTree, ReadLanes, ReadTips, StartBranch, FindBranch, ReadMembers, BuildFork, EndFork
  <2>2. CASE EndFork
    <3>1. fork' = NoFork BY <2>2 DEF EndFork
    <3> QED BY <3>1, <2>1, NoForkFits, ReadingKeepsCache
  <2>3. fork' \in ForkRecord /\ ForkInv'
    BY <1>7, <2>1, <2>2, StartTreeKeeps, ReadLanesKeeps, ReadTipsKeeps, StartBranchKeeps, FindBranchKeeps,
       ReadMembersKeeps, BuildForkKeeps, NoForkFits DEF Fork, EndFork
  <2> QED BY <2>1, <2>3, ReadingKeepsCache
<1>8. CASE UNCHANGED treeVars
  <2>1. UNCHANGED source /\ fork' = fork /\ fork' \in ForkRecord /\ UNCHANGED <<parent, entries, cache, rebuilds, fork>>
        /\ Exists' = Exists
    BY <1>8 DEF treeVars, source, CacheInv, TreeTypeOK, Exists, NoLane
  <2> QED BY <2>1, ReadingKeepsCache, LanesKeepFork
<1> QED BY <1>1, <1>2, <1>3, <1>4, <1>5, <1>6, <1>7, <1>8 DEF TreeNext, HolderStep

THEOREM Invariance == TreeSpec => []Inv
<1>1. TreeInit => Inv
  BY CacheInit, ForkInit DEF Inv
<1> QED BY <1>1, InvStep, PTL DEF TreeSpec

\* Lanes, rows, branches and forks have their types: entries of the session are
\* among those that were added (appendEntry, moveLane, createLane).
THEOREM TreeTypeCorrect == TreeSpec => []TreeTypeOK
<1>1. Inv => TreeTypeOK
  BY DEF Inv, CacheInv
<1> QED BY <1>1, Invariance, PTL

\* Whichever branch readCachedBranch picks for an entry, it finds one, and the rows
\* up to the entry are its ancestors (findEntriesOnBranch).
THEOREM BranchReadsAreExact == TreeSpec => []ReadsAreRootPaths
<1>1. ASSUME Inv PROVE ReadsAreRootPaths
  <2> SUFFICES ASSUME NEW e \in entries
               PROVE  Containing(e) # {} /\ \A b \in Containing(e) : Through(b.entries, e) = Path(e)
    BY DEF ReadsAreRootPaths
  <2>1. Containing(e) # {}
    BY <1>1 DEF Inv, CacheInv, Branches, Containing
  <2>2. ASSUME NEW b \in Containing(e) PROVE Through(b.entries, e) = Path(e)
    <3>1. b \in cache /\ e \in b.entries
      BY DEF Containing
    <3>2. b.tip \in 1..Len(parent) /\ Rooted(parent, b.entries, b.tip) /\ IsTree(parent)
      BY <3>1, <1>1, RowsAreAdded DEF Inv, CacheInv, Tree, Branches
    <3> QED BY <3>1, <3>2, BranchIsPath, PathIsAnc
  <2> QED BY <2>1, <2>2
<1> QED BY <1>1, Invariance, PTL

\* A fork of a session that was not deleted meanwhile is whole, although its source
\* is read statement by statement while another process writes (SqliteSessionRepo.fork).
THEOREM ForksStayWhole == TreeSpec => []ForksAreWhole
<1>1. ASSUME Inv PROVE ForksAreWhole
  <2> SUFFICES ASSUME fork.stage = "forked", ~fork.sourceGone PROVE ForkIsWhole
    BY DEF ForksAreWhole
  <2>1. fork.entries = ForkPaths /\ LanesAre(fork.entries)
    BY <1>1 DEF Inv, ForkInv, Reads
  <2>2. ForkPaths = UNION {Path(t) : t \in fork.tips}
    BY PathIsAnc DEF ForkPaths
  <2> QED BY <2>1, <2>2 DEF ForkIsWhole, LanesAre
<1> QED BY <1>1, Invariance, PTL
=============================================================================
