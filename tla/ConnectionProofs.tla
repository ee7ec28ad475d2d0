-------------------------- MODULE ConnectionProofs ---------------------------
(***************************************************************************)
(* Theorems about the two ends of a connection.                            *)
(*                                                                         *)
(* ClientLeases: the books of the client are right, and a lease is good,   *)
(* for any number of users, whatever fails and however often the           *)
(* connection is lost.                                                     *)
(*                                                                         *)
(* ServerSnapshots: with somebody connected all the time, nobody is left   *)
(* with an old snapshot, for any number of connections, changes and        *)
(* failures.                                                               *)
(***************************************************************************)
EXTENDS ClientLeases, ServerSnapshots, FiniteSetTheorems, SequenceTheorems, TLAPS

Busy == Waiting \cup {"releasing"}

-----------------------------------------------------------------------------
(* Types.                                                                  *)

LEMMA InitType == Init => TypeOK
<1> SUFFICES ASSUME Init PROVE TypeOK
  OBVIOUS
<1> USE DEF Init
<1>1. wire \in Seq(Messages)
  OBVIOUS
<1>2. rev \in Revs /\ drops \in 0..MaxDrops /\ count \in Nat /\ gen \in Nat /\ snap \in Revs \cup {-1}
  BY BoundsAssumption DEF Revs
<1>3. /\ pc \in [User -> {"idle", "held", "releasing"} \cup Waiting]
      /\ mode \in [User -> {"shared", "exclusive"}]
      /\ quiet \in [User -> BOOLEAN]
      /\ leaseGen \in [User -> Nat]
      /\ on \in [User -> User \cup {None}]
      /\ res \in [User -> {"none", "ok", "err"}]
      /\ previous \in [User -> Revs \cup {-1}]
      /\ req \in [User -> {"none", "attach", "attaching", "detach", "detaching"}]
  OBVIOUS
<1> QED BY <1>1, <1>2, <1>3 DEF TypeOK

(* The types of what a wait changes.                                       *)
WaitsTyped ==
  /\ pc \in [User -> {"idle", "held", "releasing"} \cup Waiting]
  /\ on \in [User -> User \cup {None}]
  /\ res \in [User -> {"none", "ok", "err"}]

LEMMA WaitType ==
  ASSUME TypeOK, NEW u \in User, NEW x \in User \cup {None}, Wait(u, x)
  PROVE  on' \in [User -> User \cup {None}]
  BY DEF TypeOK, Wait

LEMMA AwaitType ==
  ASSUME TypeOK, NEW u \in User, NEW p \in Busy, NEW owner \in User, Await(u, p, owner)
  PROVE  WaitsTyped'
  BY WaitType DEF TypeOK, Await, WaitsTyped, Busy

LEMMA AskType ==
  ASSUME TypeOK, NEW u \in User, NEW p \in Busy, NEW c \in {"attach", "detach"}, Ask(u, p, c)
  PROVE  /\ WaitsTyped'
         /\ req' \in [User -> {"none", "attach", "attaching", "detach", "detaching"}]
<1>1. on' \in [User -> User \cup {None}]
  BY WaitType DEF Ask
<1>2. pc' \in [User -> {"idle", "held", "releasing"} \cup Waiting]
  BY DEF TypeOK, Ask, Busy
<1>3. res' \in [User -> {"none", "ok", "err"}]
  BY DEF TypeOK, Ask
<1>4. req' \in [User -> {"none", "attach", "attaching", "detach", "detaching"}]
  BY DEF TypeOK, Ask
<1> QED BY <1>1, <1>2, <1>3, <1>4 DEF WaitsTyped

LEMMA ResumeType ==
  ASSUME TypeOK, NEW u \in User, NEW p \in {"idle", "held"}, Resume(u, p)
  PROVE  WaitsTyped'
<1>1. on' \in [User -> User \cup {None}]
  BY WaitType DEF Resume
<1> QED BY <1>1 DEF TypeOK, Resume, WaitsTyped

(* What attaching, reconciling and granting change. *)
ProceedTyped ==
  /\ WaitsTyped
  /\ attachment \in User \cup {None}
  /\ reconciliation \in User \cup {None}
  /\ snap \in Revs \cup {-1}
  /\ previous \in [User -> Revs \cup {-1}]
  /\ leaseGen \in [User -> Nat]
  /\ strayed \in BOOLEAN
  /\ req \in [User -> {"none", "attach", "attaching", "detach", "detaching"}]

LEMMA AttachType ==
  ASSUME TypeOK, NEW u \in User, Attach(u), reconciliation' \in User \cup {None}
  PROVE  ProceedTyped'
<1>1. CASE StartAttach(u)
  <2>1. Ask(u, "waitAttach", "attach")
    BY <1>1 DEF StartAttach
  <2>2. /\ WaitsTyped'
        /\ req' \in [User -> {"none", "attach", "attaching", "detach", "detaching"}]
    BY <2>1, AskType DEF Busy, Waiting
  <2> QED BY <1>1, <2>2 DEF StartAttach, Attach, TypeOK, ProceedTyped
<1>2. CASE JoinAttach(u)
  <2>1. Await(u, "waitAttach", attachment) /\ attachment \in User
    BY <1>2 DEF JoinAttach, TypeOK
  <2>2. WaitsTyped'
    BY <2>1, AwaitType DEF Busy, Waiting
  <2> QED BY <1>2, <2>2 DEF JoinAttach, Attach, TypeOK, ProceedTyped
<1> QED BY <1>1, <1>2 DEF Attach

LEMMA ProceedType ==
  ASSUME TypeOK, NEW u \in User, Proceed(u)
  PROVE  ProceedTyped'
<1>1. CASE cleanup
  <2>0. Reconcile(u) /\ UNCHANGED <<attachment, snap, previous, leaseGen, strayed>>
    BY <1>1 DEF Proceed
  <2>1. CASE reconciliation = None
    <3>1. Ask(u, "waitReconcile", "detach") /\ reconciliation' = u
      BY <2>0, <2>1 DEF Reconcile
    <3>2. /\ WaitsTyped'
          /\ req' \in [User -> {"none", "attach", "attaching", "detach", "detaching"}]
      BY <3>1, AskType DEF Busy, Waiting
    <3> QED BY <2>0, <3>1, <3>2 DEF TypeOK, ProceedTyped
  <2>2. CASE reconciliation # None
    <3>1. Await(u, "waitReconcile", reconciliation) /\ reconciliation \in User
          /\ UNCHANGED <<reconciliation, req>>
      BY <2>0, <2>2 DEF Reconcile, TypeOK
    <3>2. WaitsTyped'
      BY <3>1, AwaitType DEF Busy, Waiting
    <3> QED BY <2>0, <3>1, <3>2 DEF TypeOK, ProceedTyped
  <2> QED BY <2>1, <2>2
<1>2. CASE ~cleanup /\ ~attached
  BY <1>2, AttachType DEF Proceed, TypeOK
<1>3. CASE ~cleanup /\ attached
  <2>1. Resume(u, "held") /\ leaseGen' = [leaseGen EXCEPT ![u] = gen] /\ strayed' \in BOOLEAN
        /\ UNCHANGED <<attachment, reconciliation, snap, previous, req>>
    BY <1>3 DEF Proceed, Grant
  <2>2. WaitsTyped'
    BY <2>1, ResumeType
  <2> QED BY <2>1, <2>2 DEF TypeOK, ProceedTyped
<1> QED BY <1>1, <1>2, <1>3

LEMMA ReleaseLeaseType ==
  ASSUME TypeOK, NEW u \in User, ReleaseLease(u)
  PROVE  count' \in Nat /\ exclusive' \in User \cup {None}
  BY DEF TypeOK, ReleaseLease

LEMMA AcquireType ==
  ASSUME TypeOK, NEW u \in User, NEW m \in {"shared", "exclusive"}, Acquire(u, m)
  PROVE  TypeOK'
<1>1. count' \in Nat /\ exclusive' \in User \cup {None} /\ mode' \in [User -> {"shared", "exclusive"}]
  BY DEF Acquire, ReserveLease, TypeOK
<1>2. UNCHANGED <<gen, cleanup, detachment, attached, quiet, link, serves, rev>>
  BY DEF Acquire
<1>3. ProceedTyped'
  <2>1. CASE detachment # None
    <3>1. Await(u, "waitDetach", detachment) /\ detachment \in User
          /\ UNCHANGED <<attachment, reconciliation, snap, previous, leaseGen, strayed, req>>
      BY <2>1 DEF Acquire, TypeOK
    <3>2. WaitsTyped'
      BY <3>1, AwaitType DEF Busy, Waiting
    <3> QED BY <3>1, <3>2 DEF ProceedTyped, TypeOK
  <2>2. CASE detachment = None
    BY <2>2, ProceedType DEF Acquire
  <2> QED BY <2>1, <2>2
<1> QED BY <1>1, <1>2, <1>3 DEF TypeOK, ProceedTyped, WaitsTyped, link

LEMMA ContinueType ==
  ASSUME TypeOK, NEW u \in User, Continue(u)
  PROVE  TypeOK'
<1>1. CASE AfterDetachment(u)
  <2>1. ProceedTyped'
    BY <1>1, ProceedType DEF AfterDetachment
  <2>2. UNCHANGED <<books, detachment, attached, mode, quiet, link, serves, rev>>
    BY <1>1 DEF AfterDetachment
  <2> QED BY <2>1, <2>2 DEF TypeOK, ProceedTyped, WaitsTyped, books, link
<1>2. CASE AfterReconcile(u)
  <2>1. UNCHANGED <<gen, detachment, attached, mode, quiet, link, serves, rev>>
    BY <1>2 DEF AfterReconcile
  <2>2. reconciliation' \in User \cup {None}
    BY <1>2 DEF AfterReconcile, TypeOK
  <2>3. CASE res[u] = "ok"
    <3>1. ProceedTyped'
      BY <1>2, <2>2, <2>3, AttachType DEF AfterReconcile
    <3>2. cleanup' \in BOOLEAN /\ UNCHANGED <<count, exclusive>>
      BY <1>2, <2>3 DEF AfterReconcile, TypeOK
    <3> QED BY <2>1, <3>1, <3>2 DEF TypeOK, ProceedTyped, WaitsTyped, link
  <2>4. CASE res[u] = "err"
    <3>1. Resume(u, "idle") /\ ReleaseLease(u) /\ UNCHANGED <<leaseGen, strayed>>
          /\ UNCHANGED <<cleanup, attachment, snap, previous, req>>
      BY <1>2, <2>4 DEF AfterReconcile, GiveUp
    <3>2. WaitsTyped' /\ count' \in Nat /\ exclusive' \in User \cup {None}
      BY <3>1, ResumeType, ReleaseLeaseType
    <3> QED BY <2>1, <2>2, <3>1, <3>2 DEF TypeOK, WaitsTyped, link
  <2> QED BY <1>2, <2>3, <2>4 DEF AfterReconcile
<1>3. CASE AfterAttach(u)
  <2>1. /\ UNCHANGED <<gen, cleanup, detachment, reconciliation, attached, mode, quiet, link, server>>
        /\ attachment' \in User \cup {None}
        /\ previous' \in [User -> Revs \cup {-1}]
    BY <1>3 DEF AfterAttach, TypeOK
  <2>2. CASE res[u] = "ok"
    <3>1. Resume(u, "held") /\ leaseGen' = [leaseGen EXCEPT ![u] = gen] /\ strayed' \in BOOLEAN
          /\ UNCHANGED <<count, exclusive, snap>>
      BY <1>3, <2>2 DEF AfterAttach, Grant
    <3>2. WaitsTyped'
      BY <3>1, ResumeType
    <3> QED BY <2>1, <3>1, <3>2 DEF TypeOK, WaitsTyped, link, server
  <2>3. CASE res[u] = "err"
    <3>1. Resume(u, "idle") /\ ReleaseLease(u) /\ UNCHANGED <<leaseGen, strayed>>
      BY <1>3, <2>3 DEF AfterAttach, GiveUp
    <3>2. WaitsTyped' /\ count' \in Nat /\ exclusive' \in User \cup {None}
      BY <3>1, ResumeType, ReleaseLeaseType
    <3>3. snap' \in Revs \cup {-1}
      BY <1>3, <2>3 DEF AfterAttach, TypeOK
    <3> QED BY <2>1, <3>1, <3>2, <3>3 DEF TypeOK, WaitsTyped, link, server
  <2> QED BY <1>3, <2>2, <2>3 DEF AfterAttach
<1>4. CASE AfterRelease(u)
  <2>1. /\ UNCHANGED <<gen, attachment, reconciliation, state, mode, leaseGen, strayed, link, server>>
        /\ detachment' \in User \cup {None} /\ quiet' \in [User -> BOOLEAN]
    BY <1>4 DEF AfterRelease, TypeOK
  <2>2. cleanup' \in BOOLEAN
    BY <1>4 DEF AfterRelease, TypeOK
  <2>3. count' \in Nat /\ exclusive' \in User \cup {None}
    BY <1>4, ReleaseLeaseType DEF AfterRelease, TypeOK
  <2>4. WaitsTyped'
    BY <1>4, ResumeType DEF AfterRelease
  <2> QED BY <2>1, <2>2, <2>3, <2>4 DEF TypeOK, WaitsTyped, state, link, server
<1> QED BY <1>1, <1>2, <1>3, <1>4 DEF Continue

LEMMA ReleaseType ==
  ASSUME TypeOK, NEW u \in User, NEW q \in BOOLEAN, Release(u, q)
  PROVE  TypeOK'
<1>1. UNCHANGED <<gen, cleanup, attachment, reconciliation, state, mode, leaseGen, strayed, link,
                 serves, rev>>
  BY DEF Release
<1>2. CASE Resume(u, "idle") /\ UNCHANGED <<detachment, quiet, req>>
  <2>1. WaitsTyped'
    BY <1>2, ResumeType
  <2>2. count' \in Nat /\ exclusive' \in User \cup {None}
    BY ReleaseLeaseType DEF Release, TypeOK
  <2> QED BY <1>1, <1>2, <2>1, <2>2 DEF TypeOK, WaitsTyped, state, link
<1>3. CASE /\ Ask(u, "releasing", "detach") /\ detachment' = u
           /\ quiet' = [quiet EXCEPT ![u] = q] /\ UNCHANGED <<count, exclusive>>
  <2>1. /\ WaitsTyped'
        /\ req' \in [User -> {"none", "attach", "attaching", "detach", "detaching"}]
    BY <1>3, AskType DEF Busy
  <2> QED BY <1>1, <1>3, <2>1 DEF TypeOK, WaitsTyped, state, link
<1> QED BY <1>2, <1>3 DEF Release

LEMMA ReceiveType ==
  ASSUME TypeOK, Receive
  PROVE  TypeOK'
<1> DEFINE m == Head(wire)
<1>1. m \in Messages /\ wire' \in Seq(Messages)
  BY DEF TypeOK, Receive
<1>2. UNCHANGED <<books, maps, previous, pc, mode, quiet, leaseGen, on, strayed, conn, connecting,
                 drops, server>>
  BY DEF Receive
<1> HIDE DEF m
<1>3. res' \in [User -> {"none", "ok", "err"}]
  <2>1. UNCHANGED res \/ Settle(m.to, "ok") \/ Settle(m.to, "err")
    BY DEF Receive, m
  <2> QED BY <2>1 DEF Settle, TypeOK
<1>4. attached' \in BOOLEAN /\ snap' \in Revs \cup {-1}
  <2>1. CASE m.kind = "event" /\ ApplySnapshot(m.rev, TRUE)
    <3>1. m.rev \in Revs
      BY <1>1, <2>1 DEF Messages
    <3> QED BY <2>1, <3>1 DEF ApplySnapshot, TypeOK
  <2>2. CASE m.kind = "attach" /\ m.ok /\ ApplySnapshot(m.rev, m.attached)
    <3>1. m.rev \in Revs /\ m.attached \in BOOLEAN
      BY <1>1, <2>2 DEF Messages
    <3> QED BY <2>2, <3>1 DEF ApplySnapshot, TypeOK
  <2>3. CASE attached' \in {FALSE, attached} /\ UNCHANGED snap
    BY <2>3 DEF TypeOK
  <2> QED BY <2>1, <2>2, <2>3 DEF Receive, m
<1> QED BY <1>1, <1>2, <1>3, <1>4 DEF TypeOK, books, maps, server

LEMMA DisconnectType ==
  ASSUME TypeOK, Disconnect
  PROVE  TypeOK'
<1>1. drops' \in 0..MaxDrops
  BY BoundsAssumption DEF Disconnect, TypeOK
<1>2. count' \in Nat /\ exclusive' \in User \cup {None} /\ gen' \in Nat /\ cleanup' \in BOOLEAN
  <2>1. InvalidateAll
    BY DEF Disconnect
  <2>2. count' \in Nat
    BY <2>1 DEF InvalidateAll
  <2>3. exclusive' \in User \cup {None}
    BY <2>1 DEF InvalidateAll, TypeOK
  <2>4. gen' \in Nat
    BY <2>1 DEF InvalidateAll, TypeOK
  <2>5. cleanup' \in BOOLEAN
    BY <2>1 DEF InvalidateAll
  <2> QED BY <2>2, <2>3, <2>4, <2>5
<1>3. wire' \in Seq(Messages)
  BY DEF Disconnect
<1>4. res' \in [User -> {"none", "ok", "err"}]
  BY DEF Disconnect, RejectPending, TypeOK
<1>6. req' \in [User -> {"none", "attach", "attaching", "detach", "detaching"}]
  <2>1. req' = [u \in User |-> "none"]
    BY DEF Disconnect
  <2> QED BY <2>1
<1>5. /\ conn' = FALSE /\ connecting' = FALSE /\ attached' = FALSE /\ serves' = FALSE
      /\ UNCHANGED <<maps, snap, previous, pc, mode, quiet, leaseGen, on, strayed, rev>>
  BY DEF Disconnect
<1> QED BY <1>1, <1>2, <1>3, <1>4, <1>5, <1>6 DEF TypeOK, maps

LEMMA ConnectType ==
  ASSUME TypeOK, Connect \/ Connected
  PROVE  TypeOK'
  BY DEF TypeOK, Connect, Connected, books, maps, state, users, server

LEMMA ServerType ==
  ASSUME TypeOK, NEW u \in User, ServerStep(u)
  PROVE  TypeOK'
<1>1. UNCHANGED <<books, maps, state, users, conn, connecting, drops>>
  BY DEF ServerStep, Apart
<1>2. Event \in Messages /\ AttachReply(u) \in Messages /\ DetachReply(u) \in Messages
  BY DEF TypeOK, Event, AttachReply, DetachReply, Messages
<1>3. \A k \in {"attach", "detach"} : Failure(u, k) \in Messages
  BY DEF Failure, Messages
<1>4. wire' \in Seq(Messages)
  <2>1. ASSUME NEW ms \in Seq(Messages), Answer(u, ms) PROVE wire' \in Seq(Messages)
    BY <2>1 DEF Answer, TypeOK
  <2>2. /\ <<DetachReply(u)>> \in Seq(Messages)
        /\ \A k \in {"attach", "detach"} : <<Failure(u, k)>> \in Seq(Messages)
    BY <1>2, <1>3
  <2>3. (IF serves THEN <<Event>> ELSE <<>>) \o <<AttachReply(u)>> \in Seq(Messages)
    BY <1>2
  <2>4. CASE ServerAttach(u)
    BY <2>4 DEF ServerAttach, TypeOK
  <2>5. CASE ServerAttached(u)
    BY <2>1, <2>3, <2>5 DEF ServerAttached
  <2>6. CASE ServerRefuses(u)
    BY <2>1, <2>2, <2>6 DEF ServerRefuses
  <2>7. CASE ServerDetach(u)
    BY <2>1, <2>2, <2>7 DEF ServerDetach, TypeOK
  <2>8. CASE ServerDetached(u)
    BY <2>1, <2>2, <2>8 DEF ServerDetached
  <2> QED BY <2>4, <2>5, <2>6, <2>7, <2>8 DEF ServerStep
<1>5. /\ req' \in [User -> {"none", "attach", "attaching", "detach", "detaching"}]
      /\ serves' \in BOOLEAN /\ rev' = rev
  BY DEF TypeOK, ServerStep, ServerAttach, ServerAttached, ServerRefuses, ServerDetach, ServerDetached, Answer
<1> QED BY <1>1, <1>4, <1>5 DEF TypeOK, books, maps, state, users

LEMMA RuntimeType ==
  ASSUME TypeOK, RuntimeStep
  PROVE  TypeOK'
<1>1. UNCHANGED <<books, maps, state, users, conn, connecting, drops, req, serves>>
  BY DEF RuntimeStep, Apart, RuntimeEvent, Reopen
<1>2. CASE RuntimeEvent
  <2>1. rev' \in Revs /\ rev' = rev + 1
    BY <1>2, BoundsAssumption DEF RuntimeEvent, TypeOK, Revs
  <2>2. [Event EXCEPT !.rev = rev + 1] \in Messages
    BY <2>1 DEF Event, Messages
  <2>3. wire' \in Seq(Messages)
    <3>1. CASE serves
      <4>1. wire' = Append(wire, [Event EXCEPT !.rev = rev + 1])
        BY <1>2, <3>1 DEF RuntimeEvent
      <4> QED BY <2>2, <4>1 DEF TypeOK
    <3>2. CASE ~serves
      BY <1>2, <3>2 DEF RuntimeEvent, TypeOK
    <3> QED BY <3>1, <3>2
  <2> QED BY <1>1, <2>1, <2>3 DEF TypeOK, books, maps, state, users
<1>3. CASE Reopen
  <2>1. rev' \in Revs /\ UNCHANGED wire
    BY <1>3 DEF Reopen
  <2> QED BY <1>1, <2>1 DEF TypeOK, books, maps, state, users
<1> QED BY <1>2, <1>3 DEF RuntimeStep

LEMMA StutterType ==
  ASSUME TypeOK, UNCHANGED vars
  PROVE  TypeOK'
  BY DEF TypeOK, vars, books, maps, state, users, link, server

LEMMA NextType == TypeOK /\ [Next]_vars => TypeOK'
  BY AcquireType, ReleaseType, ContinueType, ReceiveType, DisconnectType, ConnectType,
     ServerType, RuntimeType, StutterType DEF Next

(* The books, the promises, the users and the messages have their types,   *)
(* for any number of users.                                                *)
THEOREM TypeCorrect == Spec => []TypeOK
  BY InitType, NextType, PTL DEF Spec

-----------------------------------------------------------------------------
(* Promises: the owner of each that is in a map waits for it itself.       *)

Promised ==
  /\ attachment # None => pc[attachment] = "waitAttach" /\ on[attachment] = attachment
  /\ detachment # None => pc[detachment] = "releasing" /\ on[detachment] = detachment
  /\ reconciliation # None =>
       pc[reconciliation] = "waitReconcile" /\ on[reconciliation] = reconciliation

(* A step of u, which then waits for x, leaves the promises of others      *)
(* alone.                                                                  *)
LEMMA OthersWait ==
  ASSUME TypeOK, NEW u \in User, NEW x, Wait(u, x), pc' = [pc EXCEPT ![u] = pc'[u]],
         NEW w \in User, w # u
  PROVE  pc'[w] = pc[w] /\ (on[w] = w => on'[w] = w)
  BY DEF TypeOK, Wait

(* Where a step of u may lead: it changes nothing of the others' stages.   *)
LEMMA AskSteps ==
  ASSUME TypeOK, NEW u \in User, NEW p, NEW c, Ask(u, p, c)
  PROVE  /\ pc' = [pc EXCEPT ![u] = pc'[u]] /\ pc'[u] = p
         /\ Wait(u, u) /\ on'[u] = u
         /\ res' = [res EXCEPT ![u] = res'[u]] /\ (~conn => res'[u] = "err")
  BY DEF TypeOK, Ask, Wait

LEMMA AwaitSteps ==
  ASSUME TypeOK, NEW u \in User, NEW p, NEW owner \in User, Await(u, p, owner)
  PROVE  /\ pc' = [pc EXCEPT ![u] = pc'[u]] /\ pc'[u] = p
         /\ Wait(u, owner)
         /\ res' = [res EXCEPT ![u] = res'[u]] /\ res'[u] = res[owner]
  BY DEF TypeOK, Await, Wait

LEMMA ResumeSteps ==
  ASSUME TypeOK, NEW u \in User, NEW p, Resume(u, p)
  PROVE  /\ pc' = [pc EXCEPT ![u] = pc'[u]] /\ pc'[u] = p
         /\ Wait(u, None)
         /\ res' = [res EXCEPT ![u] = res'[u]] /\ res'[u] = "none"
  BY DEF TypeOK, Resume, Wait

(* What attaching does to the stages and promises. *)
LEMMA AttachSteps ==
  ASSUME TypeOK, NEW u \in User, Attach(u)
  PROVE  /\ pc' = [pc EXCEPT ![u] = pc'[u]] /\ pc'[u] = "waitAttach"
         /\ res' = [res EXCEPT ![u] = res'[u]]
         /\ \E x \in User : Wait(u, x)
         /\ leaseGen' = leaseGen
         /\ \/ attachment = None /\ attachment' = u /\ on'[u] = u /\ (~conn => res'[u] = "err")
            \/ attachment # None /\ attachment' = attachment /\ res'[u] = res[attachment]
<1>1. CASE StartAttach(u)
  <2>1. Ask(u, "waitAttach", "attach") /\ attachment = None /\ attachment' = u
    BY <1>1 DEF StartAttach
  <2> QED BY <2>1, AskSteps DEF Attach
<1>2. CASE JoinAttach(u)
  <2>1. Await(u, "waitAttach", attachment) /\ attachment \in User /\ attachment' = attachment
    BY <1>2 DEF JoinAttach, TypeOK
  <2>2. attachment # None
    BY <1>2 DEF JoinAttach
  <2> QED BY <2>1, <2>2, AwaitSteps DEF Attach
<1> QED BY <1>1, <1>2 DEF Attach

LEMMA ReconcileSteps ==
  ASSUME TypeOK, NEW u \in User, Reconcile(u)
  PROVE  /\ pc' = [pc EXCEPT ![u] = pc'[u]] /\ pc'[u] = "waitReconcile"
         /\ res' = [res EXCEPT ![u] = res'[u]]
         /\ \E x \in User : Wait(u, x)
         /\ \/ reconciliation = None /\ reconciliation' = u /\ on'[u] = u /\ (~conn => res'[u] = "err")
            \/ /\ reconciliation # None /\ reconciliation' = reconciliation
               /\ res'[u] = res[reconciliation]
<1>1. CASE reconciliation = None
  <2>1. Ask(u, "waitReconcile", "detach") /\ reconciliation' = u
    BY <1>1 DEF Reconcile
  <2> QED BY <1>1, <2>1, AskSteps
<1>2. CASE reconciliation # None
  <2>1. /\ Await(u, "waitReconcile", reconciliation) /\ reconciliation \in User
        /\ reconciliation' = reconciliation
    BY <1>2 DEF Reconcile, TypeOK
  <2> QED BY <1>2, <2>1, AwaitSteps
<1> QED BY <1>1, <1>2

LEMMA ProceedSteps ==
  ASSUME TypeOK, NEW u \in User, Proceed(u)
  PROVE  /\ pc' = [pc EXCEPT ![u] = pc'[u]]
         /\ res' = [res EXCEPT ![u] = res'[u]]
         /\ \E x \in User \cup {None} : Wait(u, x)
         /\ \/ /\ pc'[u] = "waitReconcile" /\ attachment' = attachment /\ leaseGen' = leaseGen
               /\ \/ reconciliation = None /\ reconciliation' = u /\ on'[u] = u /\ (~conn => res'[u] = "err")
                  \/ /\ reconciliation # None /\ reconciliation' = reconciliation
                     /\ res'[u] = res[reconciliation]
            \/ /\ pc'[u] = "waitAttach" /\ reconciliation' = reconciliation /\ leaseGen' = leaseGen
               /\ \/ attachment = None /\ attachment' = u /\ on'[u] = u /\ (~conn => res'[u] = "err")
                  \/ attachment # None /\ attachment' = attachment /\ res'[u] = res[attachment]
            \/ /\ pc'[u] = "held" /\ attached /\ leaseGen' = [leaseGen EXCEPT ![u] = gen]
               /\ attachment' = attachment /\ reconciliation' = reconciliation
<1>1. CASE cleanup
  BY <1>1, ReconcileSteps DEF Proceed
<1>2. CASE ~cleanup /\ ~attached
  BY <1>2, AttachSteps DEF Proceed
<1>3. CASE ~cleanup /\ attached
  BY <1>3, ResumeSteps DEF Proceed, Grant
<1> QED BY <1>1, <1>2, <1>3

LEMMA PromisesKept ==
  ASSUME TypeOK, TypeOK', Promised, NEW u \in User, pc' = [pc EXCEPT ![u] = pc'[u]],
         \E x \in User \cup {None} : Wait(u, x),
         \/ attachment' = attachment /\ attachment # u
         \/ attachment' = None
         \/ attachment' = u /\ pc'[u] = "waitAttach" /\ on'[u] = u,
         \/ detachment' = detachment /\ detachment # u
         \/ detachment' = None
         \/ detachment' = u /\ pc'[u] = "releasing" /\ on'[u] = u,
         \/ reconciliation' = reconciliation /\ reconciliation # u
         \/ reconciliation' = None
         \/ reconciliation' = u /\ pc'[u] = "waitReconcile" /\ on'[u] = u
  PROVE  Promised'
<1>1. \A w \in User : w # u => pc'[w] = pc[w] /\ (on[w] = w => on'[w] = w)
  BY OthersWait
<1>2. attachment' # None => pc'[attachment'] = "waitAttach" /\ on'[attachment'] = attachment'
  BY <1>1 DEF TypeOK, Promised
<1>3. detachment' # None => pc'[detachment'] = "releasing" /\ on'[detachment'] = detachment'
  BY <1>1 DEF TypeOK, Promised
<1>4. reconciliation' # None =>
        pc'[reconciliation'] = "waitReconcile" /\ on'[reconciliation'] = reconciliation'
  BY <1>1 DEF TypeOK, Promised
<1> QED BY <1>2, <1>3, <1>4 DEF Promised

LEMMA AcquirePromised ==
  ASSUME TypeOK, TypeOK', Promised, NEW u \in User, NEW m \in {"shared", "exclusive"}, Acquire(u, m)
  PROVE  Promised'
<1>1. pc[u] = "idle" /\ detachment' = detachment
  BY DEF Acquire
<1>2. attachment # u /\ detachment # u /\ reconciliation # u
  BY <1>1, NoneAssumption DEF Promised
<1>3. CASE detachment # None
  <2>1. Await(u, "waitDetach", detachment) /\ detachment \in User
        /\ UNCHANGED <<attachment, reconciliation>>
    BY <1>3 DEF Acquire, TypeOK
  <2>2. pc' = [pc EXCEPT ![u] = pc'[u]] /\ Wait(u, detachment)
    BY <2>1, AwaitSteps
  <2> QED BY <1>1, <1>2, <2>1, <2>2, PromisesKept
<1>4. CASE detachment = None
  <2>1. Proceed(u)
    BY <1>4 DEF Acquire
  <2> QED BY <1>1, <1>2, <2>1, ProceedSteps, PromisesKept
<1> QED BY <1>3, <1>4

LEMMA ContinuePromised ==
  ASSUME TypeOK, TypeOK', Promised, NEW u \in User, Continue(u)
  PROVE  Promised'
<1>1. CASE AfterDetachment(u)
  <2>1. pc[u] = "waitDetach" /\ Proceed(u) /\ detachment' = detachment
    BY <1>1 DEF AfterDetachment
  <2>2. attachment # u /\ detachment # u /\ reconciliation # u
    BY <2>1, NoneAssumption DEF Promised
  <2> QED BY <2>1, <2>2, ProceedSteps, PromisesKept
<1>2. CASE AfterReconcile(u)
  <2>1. /\ pc[u] = "waitReconcile" /\ detachment' = detachment
        /\ reconciliation' = IF on[u] = u THEN None ELSE reconciliation
    BY <1>2 DEF AfterReconcile
  <2>2. attachment # u /\ detachment # u /\ (reconciliation = u => on[u] = u)
    BY <2>1, NoneAssumption DEF Promised
  <2>3. CASE Attach(u)
    BY <2>1, <2>2, <2>3, AttachSteps, PromisesKept
  <2>4. CASE GiveUp(u) /\ attachment' = attachment
    BY <2>1, <2>2, <2>4, ResumeSteps, PromisesKept DEF GiveUp
  <2> QED BY <1>2, <2>3, <2>4 DEF AfterReconcile
<1>3. CASE AfterAttach(u)
  <2>1. /\ pc[u] = "waitAttach" /\ detachment' = detachment /\ reconciliation' = reconciliation
        /\ attachment' = IF on[u] = u THEN None ELSE attachment
    BY <1>3 DEF AfterAttach
  <2>2. reconciliation # u /\ detachment # u /\ (attachment = u => on[u] = u)
    BY <2>1, NoneAssumption DEF Promised
  <2>3. \E p \in {"held", "idle"} : Resume(u, p)
    BY <1>3 DEF AfterAttach, Grant, GiveUp
  <2> QED BY <2>1, <2>2, <2>3, ResumeSteps, PromisesKept
<1>4. CASE AfterRelease(u)
  <2>1. /\ pc[u] = "releasing" /\ attachment' = attachment /\ reconciliation' = reconciliation
        /\ detachment' = IF detachment = u THEN None ELSE detachment
    BY <1>4 DEF AfterRelease
  <2>2. reconciliation # u /\ attachment # u
    BY <2>1, NoneAssumption DEF Promised
  <2>3. \E p \in {"held", "idle"} : Resume(u, p)
    BY <1>4 DEF AfterRelease
  <2> QED BY <2>1, <2>2, <2>3, ResumeSteps, PromisesKept
<1> QED BY <1>1, <1>2, <1>3, <1>4 DEF Continue

LEMMA ReleasePromised ==
  ASSUME TypeOK, TypeOK', Promised, NEW u \in User, NEW q \in BOOLEAN, Release(u, q)
  PROVE  Promised'
<1>1. pc[u] = "held" /\ attachment' = attachment /\ reconciliation' = reconciliation
  BY DEF Release
<1>2. attachment # u /\ detachment # u /\ reconciliation # u
  BY <1>1, NoneAssumption DEF Promised
<1>3. CASE Resume(u, "idle") /\ detachment' = detachment
  BY <1>1, <1>2, <1>3, ResumeSteps, PromisesKept
<1>4. CASE Ask(u, "releasing", "detach") /\ detachment' = u
  BY <1>1, <1>2, <1>4, AskSteps, PromisesKept
<1> QED BY <1>3, <1>4 DEF Release

LEMMA NextPromised == TypeOK /\ TypeOK' /\ Promised /\ [Next]_vars => Promised'
<1> SUFFICES ASSUME TypeOK, TypeOK', Promised, [Next]_vars PROVE Promised'
  OBVIOUS
<1>1. CASE Receive \/ Disconnect \/ Connect \/ Connected \/ RuntimeStep \/ UNCHANGED vars
           \/ \E u \in User : ServerStep(u)
  <2>1. UNCHANGED <<attachment, detachment, reconciliation, pc, on>>
    BY <1>1 DEF Receive, Disconnect, Connect, Connected, RuntimeStep, Apart, ServerStep, vars, maps, users
  <2> QED BY <2>1 DEF Promised
<1> QED BY <1>1, AcquirePromised, ReleasePromised, ContinuePromised DEF Next

-----------------------------------------------------------------------------
(* The books, until a lease strays.  While there is a connection they are  *)
(* those of the owners; while there is none every lease is of an earlier   *)
(* generation, nobody waits for an answer any more, and there are at least *)
(* as many whose acquisition is not over as are still counted: when the    *)
(* last of them has given up the books are empty.                          *)

Owners  == {u \in User : Owns(u)}
Waiters == {u \in User : pc[u] \in Waiting}

Stamped == \A u \in User : leaseGen[u] <= gen

Counted ==
  /\ count = Cardinality({u \in User : Owns(u)})
  /\ \A u \in User : exclusive = u <=> Owns(u) /\ mode[u] = "exclusive"

Alone == \A u, v \in User : Owns(u) /\ mode[u] = "exclusive" /\ Owns(v) => u = v

Online ==
  conn => /\ Counted
          /\ Alone
          /\ \A u \in User : pc[u] = "releasing" => leaseGen[u] = gen

Silent == ~attached /\ ~serves /\ wire = <<>> /\ \A u \in User : req[u] = "none"

Offline ==
  ~conn => /\ Silent
           /\ \A u \in User : pc[u] \in Busy => res[u] # "none"
           /\ \A u \in User : pc[u] \in {"held", "releasing"} => leaseGen[u] # gen
           /\ count <= Cardinality(Waiters)
           /\ \A u \in User : exclusive = u => pc[u] \in Waiting

BooksInv == TypeOK /\ Promised /\ Stamped /\ Online /\ Offline

(* The size of a set of users, with one more or one fewer. *)
LEMMA Sizes ==
  ASSUME NEW S \in SUBSET User, NEW u \in User
  PROVE  /\ Cardinality(S) \in Nat
         /\ u \notin S => Cardinality(S \cup {u}) = Cardinality(S) + 1
         /\ u \in S => Cardinality(S) = Cardinality(S \ {u}) + 1
         /\ Cardinality(S \ {u}) \in Nat
<1>1. IsFiniteSet(S) /\ IsFiniteSet(S \ {u})
  BY UserAssumption, FS_Subset
<1>2. Cardinality(S) \in Nat /\ Cardinality(S \ {u}) \in Nat
  BY <1>1, FS_CardinalityType
<1>3. u \notin S => Cardinality(S \cup {u}) = Cardinality(S) + 1
  BY <1>1, FS_AddElement
<1>4. u \in S => Cardinality(S \ {u}) = Cardinality(S) - 1
  BY <1>1, FS_RemoveElement
<1> QED BY <1>2, <1>3, <1>4

(* A step of u changes whether u is an owner, and nobody else. *)
LEMMA OwnersMove ==
  ASSUME TypeOK, TypeOK', NEW u \in User, gen' = gen,
         pc' = [pc EXCEPT ![u] = pc'[u]], leaseGen' = [leaseGen EXCEPT ![u] = leaseGen'[u]]
  PROVE  /\ \A v \in User : v # u => (Owns(v)' <=> Owns(v))
         /\ Owns(u)' => Owners' = Owners \cup {u}
         /\ ~Owns(u)' => Owners' = Owners \ {u}
<1>1. \A v \in User : v # u => pc'[v] = pc[v] /\ leaseGen'[v] = leaseGen[v]
  BY DEF TypeOK
<1>2. \A v \in User : v # u => (Owns(v)' <=> Owns(v))
  BY <1>1 DEF Owns, CurrentLease
<1> QED BY <1>2 DEF Owners

LEMMA OnlineMoves ==
  ASSUME TypeOK, TypeOK', Online, conn, NEW u \in User, gen' = gen,
         pc' = [pc EXCEPT ![u] = pc'[u]], leaseGen' = [leaseGen EXCEPT ![u] = leaseGen'[u]],
         mode' = [mode EXCEPT ![u] = mode'[u]],
         pc'[u] = "releasing" => leaseGen'[u] = gen,
         \/ /\ ~Owns(u) /\ Owns(u)' /\ CanReserve(mode'[u]) /\ ReserveLease(u, mode'[u])
         \/ /\ Owns(u)' <=> Owns(u)
            /\ UNCHANGED <<count, exclusive, mode>>
         \/ /\ Owns(u) /\ ~Owns(u)' /\ ReleaseLease(u) /\ UNCHANGED mode
  PROVE  Online'
<1>1. /\ count = Cardinality(Owners)
      /\ \A v \in User : exclusive = v <=> Owns(v) /\ mode[v] = "exclusive"
      /\ \A v \in User : pc[v] = "releasing" => leaseGen[v] = gen
      /\ \A v, w \in User : Owns(v) /\ mode[v] = "exclusive" /\ Owns(w) => v = w
  BY DEF Online, Counted, Alone, Owners
<1>2. \A v \in User : pc'[v] = "releasing" => leaseGen'[v] = gen'
  <2>1. \A v \in User : v # u => pc'[v] = pc[v] /\ leaseGen'[v] = leaseGen[v]
    BY DEF TypeOK
  <2> QED BY <1>1, <2>1
<1>3. \A v \in User : v # u => mode'[v] = mode[v] /\ (Owns(v)' <=> Owns(v))
  BY OwnersMove, ZenonT(60) DEF TypeOK
<1>4. Owners \in SUBSET User
  BY DEF Owners
<1>5. CASE ~Owns(u) /\ Owns(u)' /\ CanReserve(mode'[u]) /\ ReserveLease(u, mode'[u])
  <2>1. u \notin Owners /\ Owners' = Owners \cup {u}
    BY <1>5, OwnersMove DEF Owners
  <2>2. count' = Cardinality(Owners')
    BY <1>1, <1>4, <1>5, <2>1, Sizes DEF ReserveLease
  <2>3. ASSUME NEW v \in User
        PROVE  exclusive' = v <=> Owns(v)' /\ mode'[v] = "exclusive"
    <3>1. CASE mode'[u] = "exclusive"
      <4>1. count = 0 /\ exclusive' = u
        BY <1>5, <3>1 DEF CanReserve, ReserveLease
      <4>2. ASSUME NEW w \in User, w # u PROVE ~Owns(w)'
        <5>1. w \notin Owners
          <6>1. w \in Owners => Cardinality(Owners) = Cardinality(Owners \ {w}) + 1
            BY <1>4, <4>2, Sizes
          <6>2. Cardinality(Owners \ {w}) \in Nat
            BY <1>4, <4>2, Sizes
          <6> QED BY <1>1, <4>1, <6>1, <6>2
        <5>2. ~Owns(w)
          BY <5>1 DEF Owners
        <5> QED BY <1>3, <4>2, <5>2
      <4> QED BY <1>5, <3>1, <4>1, <4>2
    <3>2. CASE mode'[u] # "exclusive"
      <4>1. exclusive = None /\ exclusive' = exclusive
        BY <1>5, <3>2 DEF CanReserve, ReserveLease
      <4> QED BY <1>1, <1>3, <3>2, <4>1, NoneAssumption
    <3> QED BY <3>1, <3>2
  <2>4. ASSUME NEW v \in User, NEW w \in User, Owns(v)', mode'[v] = "exclusive", Owns(w)'
        PROVE  v = w
    <3>1. CASE mode'[u] = "exclusive"
      <4>1. exclusive' = u /\ count = 0
        BY <1>5, <3>1 DEF ReserveLease, CanReserve
      <4>2. v = u
        BY <2>3, <2>4, <4>1
      <4>3. Owners = {}
        <5> SUFFICES ASSUME NEW x \in User, x \in Owners PROVE FALSE
          BY <1>4
        <5>1. Cardinality(Owners) = Cardinality(Owners \ {x}) + 1
          BY <1>4, Sizes
        <5>2. Cardinality(Owners \ {x}) \in Nat
          BY <1>4, Sizes
        <5>3. Cardinality(Owners) = 0
          BY <1>1, <4>1
        <5> QED BY <5>1, <5>2, <5>3
      <4>4. w = u
        <5>1. ~Owns(w)
          BY <4>3 DEF Owners
        <5> QED BY <1>3, <2>4, <5>1
      <4> QED BY <4>2, <4>4
    <3>2. CASE mode'[u] # "exclusive"
      <4>1. exclusive' = None
        BY <1>5, <3>2 DEF ReserveLease, CanReserve
      <4> QED BY <2>3, <2>4, <4>1, NoneAssumption
    <3> QED BY <3>1, <3>2
  <2> QED BY <1>2, <2>2, <2>3, <2>4 DEF Online, Counted, Alone, Owners
<1>6. CASE (Owns(u)' <=> Owns(u)) /\ UNCHANGED <<count, exclusive, mode>>
  <2>1. Owners' = Owners
    BY <1>3, <1>6 DEF Owners
  <2>2. \A v \in User : Owns(v)' <=> Owns(v)
    BY <1>3, <1>6
  <2>3. \A v, w \in User : Owns(v)' /\ mode'[v] = "exclusive" /\ Owns(w)' => v = w
    BY <1>1, <1>6, <2>2
  <2> QED BY <1>1, <1>2, <1>6, <2>1, <2>2, <2>3 DEF Online, Counted, Alone, Owners
<1>7. CASE Owns(u) /\ ~Owns(u)' /\ ReleaseLease(u) /\ UNCHANGED mode
  <2>1. u \in Owners /\ Owners' = Owners \ {u}
    BY <1>7, OwnersMove DEF Owners
  <2>2. count' = Cardinality(Owners')
    BY <1>1, <1>4, <1>7, <2>1, Sizes DEF ReleaseLease
  <2>3. \A v \in User : exclusive' = v <=> Owns(v)' /\ mode'[v] = "exclusive"
    BY <1>1, <1>3, <1>7, NoneAssumption DEF ReleaseLease
  <2>4. \A v \in User : Owns(v)' => Owns(v)
    BY <1>3, <1>7
  <2>5. \A v, w \in User : Owns(v)' /\ mode'[v] = "exclusive" /\ Owns(w)' => v = w
    BY <1>1, <1>7, <2>4
  <2> QED BY <1>2, <2>2, <2>3, <2>5 DEF Online, Counted, Alone, Owners
<1> QED BY <1>5, <1>6, <1>7

LEMMA OfflineMoves ==
  ASSUME TypeOK, TypeOK', Offline, ~conn, NEW u \in User, gen' = gen, Silent',
         pc' = [pc EXCEPT ![u] = pc'[u]], res' = [res EXCEPT ![u] = res'[u]], leaseGen' = leaseGen,
         pc'[u] \in Busy => res'[u] # "none",
         pc'[u] \in {"held", "releasing"} => leaseGen[u] # gen,
         \/ /\ pc[u] \notin Waiting /\ pc'[u] \in Waiting
            /\ count' = count + 1 /\ exclusive' \in {u, exclusive}
         \/ /\ pc[u] \in Waiting <=> pc'[u] \in Waiting
            /\ UNCHANGED <<count, exclusive>>
         \/ /\ pc[u] \in Waiting /\ pc'[u] \notin Waiting /\ ReleaseLease(u)
         \/ /\ pc[u] \notin Waiting /\ pc'[u] \notin Waiting /\ ReleaseLease(u)
  PROVE  Offline'
<1>1. \A v \in User : v # u => pc'[v] = pc[v] /\ res'[v] = res[v]
  BY DEF TypeOK
<1>2. \A v \in User : pc'[v] \in Busy => res'[v] # "none"
  BY <1>1 DEF Offline
<1>3. \A v \in User : pc'[v] \in {"held", "releasing"} => leaseGen'[v] # gen'
  BY <1>1 DEF Offline
<1>4. Waiters \in SUBSET User /\ count <= Cardinality(Waiters) /\ count \in Nat
  BY DEF Waiters, Offline, TypeOK
<1>5. \A v \in User : exclusive' = v => pc'[v] \in Waiting
  BY <1>1, NoneAssumption DEF Offline, ReleaseLease
<1>6. count' <= Cardinality(Waiters')
  <2>1. CASE pc[u] \notin Waiting /\ pc'[u] \in Waiting /\ count' = count + 1
    <3>1. u \notin Waiters /\ Waiters' = Waiters \cup {u}
      BY <1>1, <2>1 DEF Waiters
    <3> QED BY <1>4, <2>1, <3>1, Sizes
  <2>2. CASE (pc[u] \in Waiting <=> pc'[u] \in Waiting) /\ count' = count
    <3>1. Waiters' = Waiters
      BY <1>1, <2>2 DEF Waiters
    <3> QED BY <1>4, <2>2, <3>1
  <2>3. CASE pc[u] \in Waiting /\ pc'[u] \notin Waiting /\ ReleaseLease(u)
    <3>1. u \in Waiters /\ Waiters' = Waiters \ {u}
      BY <1>1, <2>3 DEF Waiters
    <3>2. Cardinality(Waiters) = Cardinality(Waiters') + 1 /\ Cardinality(Waiters') \in Nat
      BY <1>4, <3>1, Sizes
    <3> QED BY <1>4, <2>3, <3>2 DEF ReleaseLease
  <2>4. CASE pc[u] \notin Waiting /\ pc'[u] \notin Waiting /\ ReleaseLease(u)
    <3>1. Waiters' = Waiters /\ Cardinality(Waiters) \in Nat
      BY <1>1, <1>4, <2>4, Sizes DEF Waiters
    <3> QED BY <1>4, <2>4, <3>1 DEF ReleaseLease
  <2> QED BY <2>1, <2>2, <2>3, <2>4
<1> QED BY <1>2, <1>3, <1>5, <1>6 DEF Offline

(* What the waiting do in a step is enough for both halves of the books.   *)
LEMMA StampsKept ==
  ASSUME TypeOK, Stamped, NEW u \in User, gen' = gen,
         leaseGen' \in {leaseGen, [leaseGen EXCEPT ![u] = gen]}
  PROVE  Stamped' /\ leaseGen' = [leaseGen EXCEPT ![u] = leaseGen'[u]]
<1>1. leaseGen \in [User -> Nat] /\ gen \in Nat
  BY DEF TypeOK
<1>2. leaseGen' = [leaseGen EXCEPT ![u] = leaseGen'[u]]
  BY <1>1
<1>3. \A v \in User : leaseGen'[v] = leaseGen[v] \/ leaseGen'[v] = gen
  BY <1>1
<1> QED BY <1>1, <1>2, <1>3 DEF Stamped

(* The promises that are joined while there is no connection are settled.  *)
LEMMA SettledPromises ==
  ASSUME TypeOK, Promised, Offline, ~conn
  PROVE  /\ attachment # None => res[attachment] # "none"
         /\ detachment # None => res[detachment] # "none"
         /\ reconciliation # None => res[reconciliation] # "none"
<1>1. \A o \in User : pc[o] \in {"waitAttach", "releasing", "waitReconcile"} => res[o] # "none"
  BY DEF Offline, Busy, Waiting
<1>2. attachment \in User \cup {None} /\ detachment \in User \cup {None} /\ reconciliation \in User \cup {None}
  BY DEF TypeOK
<1> QED BY <1>1, <1>2 DEF Promised

LEMMA AcquireBooks ==
  ASSUME BooksInv, TypeOK', NEW u \in User, NEW m \in {"shared", "exclusive"}, Acquire(u, m)
  PROVE  Stamped' /\ Online' /\ Offline'
<1> USE DEF BooksInv
<1>1. /\ pc[u] = "idle" /\ CanReserve(m) /\ ReserveLease(u, m)
      /\ mode' = [mode EXCEPT ![u] = m] /\ mode'[u] = m
      /\ gen' = gen /\ conn' = conn /\ attached' = attached /\ serves' = serves /\ wire' = wire
  BY DEF Acquire, link, TypeOK
<1>2. /\ pc' = [pc EXCEPT ![u] = pc'[u]]
      /\ res' = [res EXCEPT ![u] = res'[u]]
      /\ \/ pc'[u] \in Waiting /\ leaseGen' = leaseGen /\ (~conn => res'[u] # "none")
         \/ attached /\ pc'[u] = "held" /\ leaseGen' = [leaseGen EXCEPT ![u] = gen]
      /\ ~conn => req' = req
  <2>1. CASE detachment # None
    <3>1. Await(u, "waitDetach", detachment) /\ detachment \in User
          /\ UNCHANGED <<leaseGen, req>>
      BY <2>1 DEF Acquire, TypeOK
    <3> QED BY <2>1, <3>1, AwaitSteps, SettledPromises DEF Waiting
  <2>2. CASE detachment = None
    <3>1. Proceed(u)
      BY <2>2 DEF Acquire
    <3>2. ~conn => req' = req
      BY <3>1 DEF Proceed, Reconcile, Attach, StartAttach, JoinAttach, Ask
    <3> QED BY <3>1, <3>2, ProceedSteps, SettledPromises DEF Waiting
  <2> QED BY <2>1, <2>2
<1>3. Stamped' /\ leaseGen' = [leaseGen EXCEPT ![u] = leaseGen'[u]]
  BY <1>1, <1>2, StampsKept
<1>4. ~Owns(u) /\ Owns(u)'
  BY <1>1, <1>2 DEF Owns, CurrentLease, Waiting, TypeOK
<1>5. CASE conn
  <2>1. Online'
    BY <1>1, <1>2, <1>3, <1>4, <1>5, OnlineMoves DEF Waiting
  <2> QED BY <1>1, <1>3, <1>5, <2>1 DEF Offline
<1>6. CASE ~conn
  <2>1. Silent' /\ pc'[u] \in Waiting /\ leaseGen' = leaseGen /\ res'[u] # "none"
    BY <1>1, <1>2, <1>6 DEF Offline, Silent
  <2>2. pc[u] \notin Waiting /\ count' = count + 1 /\ exclusive' \in {u, exclusive}
    BY <1>1 DEF Waiting, ReserveLease
  <2>3. Offline'
    BY <1>1, <1>2, <1>6, <2>1, <2>2, OfflineMoves DEF Waiting
  <2> QED BY <1>1, <1>3, <1>6, <2>3 DEF Online
<1> QED BY <1>5, <1>6

LEMMA ReleaseBooks ==
  ASSUME BooksInv, TypeOK', NEW u \in User, NEW q \in BOOLEAN, Release(u, q)
  PROVE  Stamped' /\ Online' /\ Offline'
<1> USE DEF BooksInv
<1>1. /\ pc[u] = "held" /\ leaseGen' = leaseGen /\ mode' = mode
      /\ gen' = gen /\ conn' = conn /\ attached' = attached /\ serves' = serves /\ wire' = wire
  BY DEF Release, link, state
<1>2. Stamped' /\ leaseGen' = [leaseGen EXCEPT ![u] = leaseGen'[u]] /\ mode' = [mode EXCEPT ![u] = mode'[u]]
  BY <1>1, StampsKept DEF TypeOK
<1>3. CASE ~CurrentLease(u) /\ Resume(u, "idle") /\ UNCHANGED <<count, exclusive, detachment, quiet, req>>
  <2>1. pc' = [pc EXCEPT ![u] = pc'[u]] /\ pc'[u] = "idle" /\ res' = [res EXCEPT ![u] = res'[u]]
    BY <1>3, ResumeSteps
  <2>2. ~Owns(u) /\ ~Owns(u)'
    BY <1>1, <1>3, <2>1 DEF Owns, Waiting
  <2>3. CASE conn
    BY <1>1, <1>2, <1>3, <2>1, <2>2, <2>3, OnlineMoves DEF Offline
  <2>4. CASE ~conn
    <3>1. Silent'
      BY <1>1, <1>3, <2>4 DEF Offline, Silent
    <3>2. Offline'
      BY <1>1, <1>3, <2>1, <2>4, <3>1, OfflineMoves DEF Waiting, Busy
    <3> QED BY <1>1, <1>2, <2>4, <3>2 DEF Online
  <2> QED BY <2>3, <2>4
<1>4. CASE CurrentLease(u) /\ conn /\ Ask(u, "releasing", "detach") /\ UNCHANGED <<count, exclusive>>
  <2>1. pc' = [pc EXCEPT ![u] = pc'[u]] /\ pc'[u] = "releasing"
    BY <1>4, AskSteps
  <2>2. Owns(u) /\ Owns(u)' /\ leaseGen'[u] = gen
    BY <1>1, <1>4, <2>1 DEF Owns, Waiting, CurrentLease
  <2> QED BY <1>1, <1>2, <1>4, <2>1, <2>2, OnlineMoves DEF Offline
<1>5. CASE CurrentLease(u) /\ conn /\ ReleaseLease(u) /\ Resume(u, "idle")
  <2>1. pc' = [pc EXCEPT ![u] = pc'[u]] /\ pc'[u] = "idle"
    BY <1>5, ResumeSteps
  <2>2. Owns(u) /\ ~Owns(u)'
    BY <1>1, <1>5, <2>1 DEF Owns, Waiting, CurrentLease
  <2> QED BY <1>1, <1>2, <1>5, <2>1, <2>2, OnlineMoves DEF Offline
<1> QED BY <1>3, <1>4, <1>5 DEF Release

(* A failing acquireSession gives back what it reserved, in either half.   *)
LEMMA GiveUpBooks ==
  ASSUME BooksInv, TypeOK', NEW u \in User, pc[u] \in Waiting, GiveUp(u),
         gen' = gen, conn' = conn, attached' = attached, serves' = serves, wire' = wire,
         req' = req, mode' = mode
  PROVE  Stamped' /\ Online' /\ Offline'
<1> USE DEF BooksInv
<1>1. /\ pc' = [pc EXCEPT ![u] = pc'[u]] /\ pc'[u] = "idle" /\ res' = [res EXCEPT ![u] = res'[u]]
      /\ ReleaseLease(u) /\ leaseGen' = leaseGen
  BY ResumeSteps DEF GiveUp
<1>2. Stamped' /\ leaseGen' = [leaseGen EXCEPT ![u] = leaseGen'[u]] /\ mode' = [mode EXCEPT ![u] = mode'[u]]
  BY <1>1, StampsKept DEF TypeOK
<1>3. pc'[u] \notin Waiting /\ pc'[u] \notin Busy
  BY <1>1 DEF Waiting, Busy
<1>4. Owns(u) /\ ~Owns(u)'
  BY <1>1, <1>3 DEF Owns
<1>5. CASE conn
  BY <1>1, <1>2, <1>4, <1>5, OnlineMoves DEF Offline
<1>6. CASE ~conn
  <2>1. Silent'
    BY <1>6 DEF Offline, Silent
  <2>2. Offline'
    BY <1>1, <1>3, <1>6, <2>1, OfflineMoves
  <2> QED BY <1>2, <1>6, <2>2 DEF Online
<1> QED BY <1>5, <1>6

(* Neither does going on to the next request, or being granted a lease,    *)
(* change who is counted.                                                  *)
LEMMA GoOnBooks ==
  ASSUME BooksInv, TypeOK', NEW u \in User, pc[u] \in Waiting,
         gen' = gen, conn' = conn, attached' = attached, serves' = serves, wire' = wire,
         mode' = mode, count' = count, exclusive' = exclusive,
         pc' = [pc EXCEPT ![u] = pc'[u]], res' = [res EXCEPT ![u] = res'[u]],
         \/ pc'[u] \in Waiting /\ leaseGen' = leaseGen /\ (~conn => res'[u] # "none")
         \/ conn /\ pc'[u] = "held" /\ leaseGen' = [leaseGen EXCEPT ![u] = gen],
         ~conn => req' = req
  PROVE  Stamped' /\ Online' /\ Offline'
<1> USE DEF BooksInv
<1>1. Stamped' /\ leaseGen' = [leaseGen EXCEPT ![u] = leaseGen'[u]] /\ mode' = [mode EXCEPT ![u] = mode'[u]]
  BY StampsKept DEF TypeOK
<1>2. Owns(u) /\ Owns(u)' /\ pc'[u] # "releasing"
  BY DEF Owns, CurrentLease, Waiting, TypeOK
<1>3. CASE conn
  BY <1>1, <1>2, <1>3, OnlineMoves DEF Offline
<1>4. CASE ~conn
  <2>1. Silent' /\ pc'[u] \in Waiting /\ leaseGen' = leaseGen /\ res'[u] # "none"
    BY <1>4 DEF Offline, Silent
  <2>2. pc'[u] \notin {"held", "releasing"}
    BY <2>1 DEF Waiting
  <2>3. Offline'
    BY <1>4, <2>1, <2>2, OfflineMoves
  <2> QED BY <1>1, <1>4, <2>3 DEF Online
<1> QED BY <1>3, <1>4

LEMMA ContinueBooks ==
  ASSUME BooksInv, TypeOK', ~strayed', NEW u \in User, Continue(u)
  PROVE  Stamped' /\ Online' /\ Offline'
<1> USE DEF BooksInv
<1>1. CASE AfterDetachment(u)
  <2>1. /\ pc[u] \in Waiting /\ Proceed(u)
        /\ gen' = gen /\ conn' = conn /\ attached' = attached /\ serves' = serves /\ wire' = wire
        /\ mode' = mode /\ count' = count /\ exclusive' = exclusive
    BY <1>1 DEF AfterDetachment, Waiting, books, link
  <2>2. ~conn => req' = req
    BY <2>1 DEF Proceed, Reconcile, Attach, StartAttach, JoinAttach, Ask
  <2>3. attached => conn
    BY DEF Offline, Silent
  <2>4. /\ pc' = [pc EXCEPT ![u] = pc'[u]] /\ res' = [res EXCEPT ![u] = res'[u]]
        /\ \/ pc'[u] \in Waiting /\ leaseGen' = leaseGen /\ (~conn => res'[u] # "none")
           \/ conn /\ pc'[u] = "held" /\ leaseGen' = [leaseGen EXCEPT ![u] = gen]
    BY <2>1, <2>3, ProceedSteps, SettledPromises DEF Waiting
  <2> QED BY <2>1, <2>2, <2>4, GoOnBooks
<1>2. CASE AfterReconcile(u)
  <2>1. /\ pc[u] \in Waiting
        /\ gen' = gen /\ conn' = conn /\ attached' = attached /\ serves' = serves /\ wire' = wire
        /\ mode' = mode
    BY <1>2 DEF AfterReconcile, Waiting, link
  <2>2. CASE Attach(u) /\ UNCHANGED <<count, exclusive>>
    <3>1. ~conn => req' = req
      BY <2>2 DEF Attach, StartAttach, JoinAttach, Ask
    <3>2. /\ pc' = [pc EXCEPT ![u] = pc'[u]] /\ res' = [res EXCEPT ![u] = res'[u]]
          /\ pc'[u] \in Waiting /\ leaseGen' = leaseGen /\ (~conn => res'[u] # "none")
      BY <2>2, AttachSteps, SettledPromises DEF Waiting
    <3> QED BY <2>1, <2>2, <3>1, <3>2, GoOnBooks
  <2>3. CASE GiveUp(u) /\ req' = req
    BY <2>1, <2>3, GiveUpBooks
  <2> QED BY <1>2, <2>2, <2>3 DEF AfterReconcile
<1>3. CASE AfterAttach(u)
  <2>1. /\ pc[u] \in Waiting
        /\ gen' = gen /\ conn' = conn /\ attached' = attached /\ serves' = serves /\ wire' = wire
        /\ mode' = mode /\ req' = req
    BY <1>3 DEF AfterAttach, Waiting, link, server
  <2>2. CASE res[u] = "ok"
    <3>1. Grant(u) /\ UNCHANGED <<count, exclusive>>
      BY <1>3, <2>2 DEF AfterAttach
    <3>2. conn
      BY <3>1 DEF Grant
    <3>3. /\ pc' = [pc EXCEPT ![u] = pc'[u]] /\ res' = [res EXCEPT ![u] = res'[u]]
          /\ pc'[u] = "held" /\ leaseGen' = [leaseGen EXCEPT ![u] = gen]
      BY <3>1, ResumeSteps DEF Grant
    <3> QED BY <2>1, <3>1, <3>2, <3>3, GoOnBooks
  <2>3. CASE GiveUp(u)
    BY <2>1, <2>3, GiveUpBooks
  <2> QED BY <1>3, <2>2, <2>3 DEF AfterAttach
<1>4. CASE AfterRelease(u)
  <2>1. /\ pc[u] = "releasing" /\ leaseGen' = leaseGen /\ mode' = mode
        /\ gen' = gen /\ conn' = conn /\ attached' = attached /\ serves' = serves /\ wire' = wire
        /\ req' = req
    BY <1>4 DEF AfterRelease, link, state, server
  <2>2. Stamped' /\ leaseGen' = [leaseGen EXCEPT ![u] = leaseGen'[u]] /\ mode' = [mode EXCEPT ![u] = mode'[u]]
    BY <2>1, StampsKept DEF TypeOK
  <2>3. CASE conn
    <3>1. leaseGen[u] = gen
      BY <2>1, <2>3 DEF Online
    <3>2. Owns(u)
      BY <2>1, <3>1 DEF Owns, CurrentLease
    <3>3. CASE ReleaseLease(u) /\ Resume(u, "idle")
      <4>1. pc' = [pc EXCEPT ![u] = pc'[u]] /\ pc'[u] = "idle"
        BY <3>3, ResumeSteps
      <4>2. ~Owns(u)'
        BY <4>1 DEF Owns, Waiting
      <4> QED BY <2>1, <2>2, <2>3, <3>2, <3>3, <4>1, <4>2, OnlineMoves DEF Offline
    <3>4. CASE Resume(u, "held") /\ UNCHANGED <<count, exclusive>>
      <4>1. pc' = [pc EXCEPT ![u] = pc'[u]] /\ pc'[u] = "held"
        BY <3>4, ResumeSteps
      <4>2. Owns(u)'
        BY <2>1, <3>1, <4>1 DEF Owns, CurrentLease
      <4> QED BY <2>1, <2>2, <2>3, <3>2, <3>4, <4>1, <4>2, OnlineMoves DEF Offline
    <3> QED BY <1>4, <3>1, <3>3, <3>4 DEF AfterRelease, CurrentLease
  <2>4. CASE ~conn
    <3>1. res[u] # "none" /\ leaseGen[u] # gen
      BY <2>1, <2>4 DEF Offline, Busy
    <3>2. Resume(u, "idle") /\ (ReleaseLease(u) \/ UNCHANGED <<count, exclusive>>)
      BY <1>4, <3>1 DEF AfterRelease, CurrentLease
    <3>3. pc' = [pc EXCEPT ![u] = pc'[u]] /\ pc'[u] = "idle" /\ res' = [res EXCEPT ![u] = res'[u]]
      BY <3>2, ResumeSteps
    <3>4. Silent'
      BY <2>1, <2>4 DEF Offline, Silent
    <3>5. Offline'
      BY <2>1, <2>4, <3>2, <3>3, <3>4, OfflineMoves DEF Waiting, Busy
    <3> QED BY <2>1, <2>2, <2>4, <3>5 DEF Online
  <2> QED BY <2>3, <2>4
<1> QED BY <1>1, <1>2, <1>3, <1>4 DEF Continue

(* Messages and the server reach the books only through the users. *)
LEMMA QuietBooks ==
  ASSUME BooksInv, UNCHANGED <<count, exclusive, gen, pc, mode, leaseGen, conn>>,
         ~conn => Silent' /\ res' = res
  PROVE  Stamped' /\ Online' /\ Offline'
<1> USE DEF BooksInv
<1>1. Stamped'
  BY DEF Stamped
<1>2. Online'
  <2>1. \A u \in User : Owns(u)' <=> Owns(u)
    BY DEF Owns, CurrentLease
  <2>2. {u \in User : Owns(u)}' = {u \in User : Owns(u)}
    BY <2>1
  <2> QED BY <2>1, <2>2 DEF Online, Counted, Alone
<1>3. Offline'
  BY DEF Offline, Waiters
<1> QED BY <1>1, <1>2, <1>3

(* The connection is lost, or the next one before it is there: whoever     *)
(* owns a lease is one generation behind.                                  *)
LEMMA DisconnectBooks ==
  ASSUME BooksInv, TypeOK', Disconnect
  PROVE  Stamped' /\ Online' /\ Offline'
<1> USE DEF BooksInv
<1>1. /\ ~conn' /\ pc' = pc /\ leaseGen' = leaseGen /\ InvalidateAll /\ Silent'
  BY DEF Disconnect, Silent
<1>2. Stamped' /\ Online'
  BY <1>1 DEF Stamped, Online, InvalidateAll, TypeOK
<1>3. \A u \in User : pc'[u] \in Busy => res'[u] # "none"
  BY <1>1 DEF Disconnect, RejectPending, Busy, TypeOK
<1>5. ASSUME NEW u \in User, pc[u] \in {"held", "releasing"} PROVE leaseGen[u] # gen'
  <2>1. CASE count = 0
    <3>1. gen' = gen
      BY <1>1, <2>1 DEF InvalidateAll
    <3>2. ~Owns(u) \/ ~conn
      <4>1. Owners \in SUBSET User /\ (conn => count = Cardinality(Owners))
        BY DEF Owners, Online, Counted
      <4>2. u \in Owners =>
              Cardinality(Owners) = Cardinality(Owners \ {u}) + 1 /\ Cardinality(Owners \ {u}) \in Nat
        BY <4>1, Sizes
      <4>3. u \notin Owners \/ ~conn
        BY <2>1, <4>1, <4>2
      <4> QED BY <4>3 DEF Owners
    <3> QED BY <1>5, <3>1, <3>2 DEF Owns, CurrentLease, Offline
  <2>2. CASE count # 0
    <3>1. gen' = gen + 1 /\ leaseGen[u] <= gen /\ gen \in Nat /\ leaseGen[u] \in Nat
      BY <1>1, <2>2 DEF InvalidateAll, TypeOK, Stamped
    <3> QED BY <3>1
  <2> QED BY <2>1, <2>2
<1>6. ASSUME NEW u \in User, exclusive' = u PROVE pc'[u] \in Waiting
  <2>1. count = 0 /\ exclusive = u
    BY <1>1, <1>6, NoneAssumption DEF InvalidateAll, TypeOK
  <2>2. ~conn
    <3> SUFFICES ASSUME conn PROVE FALSE
      OBVIOUS
    <3>1. /\ count = Cardinality(Owners) /\ Owners \in SUBSET User /\ u \in Owners
      BY <2>1 DEF Online, Counted, Owners
    <3>2. Cardinality(Owners) = Cardinality(Owners \ {u}) + 1 /\ Cardinality(Owners \ {u}) \in Nat
      BY <3>1, Sizes
    <3> QED BY <2>1, <3>1, <3>2
  <2> QED BY <1>1, <2>1, <2>2 DEF Offline
<1>8. count' <= Cardinality(Waiters')
  <2>1. Waiters \in SUBSET User /\ Waiters' = Waiters /\ count' = 0
    BY <1>1 DEF Waiters, InvalidateAll
  <2>2. Cardinality(Waiters) \in Nat
    BY <2>1, UserAssumption, FS_Subset, FS_CardinalityType
  <2> QED BY <2>1, <2>2
<1>9. \A u \in User : pc'[u] \in {"held", "releasing"} => leaseGen'[u] # gen'
  BY <1>1, <1>5
<1>10. \A u \in User : exclusive' = u => pc'[u] \in Waiting
  BY <1>6
<1> QED BY <1>1, <1>2, <1>3, <1>8, <1>9, <1>10 DEF Offline

(* A new connection starts when the last who waited has given up. *)
LEMMA ConnectedBooks ==
  ASSUME BooksInv, TypeOK', Connected
  PROVE  Stamped' /\ Online' /\ Offline'
<1> USE DEF BooksInv
<1>1. /\ conn' /\ Drained
      /\ UNCHANGED <<count, exclusive, gen, pc, mode, leaseGen>>
  BY DEF Connected, books, users
<1>0. ~conn
  BY DEF Connected
<1>2. \A u \in User : pc[u] \notin Busy
  BY <1>0, <1>1 DEF Drained, Offline
<1>3. \A u \in User : ~Owns(u) /\ pc[u] # "releasing" /\ exclusive # u
  BY <1>0, <1>1, <1>2 DEF Offline, Owns, CurrentLease, Busy
<1>4. Waiters = {} /\ Owners = {}
  BY <1>2, <1>3 DEF Waiters, Owners, Busy
<1>5. count = Cardinality(Owners)
  <2>1. Cardinality({}) = 0
    BY FS_EmptySet
  <2> QED BY <1>0, <1>1, <1>4, <2>1 DEF Offline, TypeOK
<1>6. Stamped'
  BY <1>1 DEF Stamped
<1>7. Online'
  <2>1. \A u \in User : ~Owns(u)'
    BY <1>1, <1>3 DEF Owns, CurrentLease
  <2>2. {u \in User : Owns(u)}' = {}
    BY <2>1
  <2> QED BY <1>1, <1>3, <1>4, <1>5, <2>1, <2>2 DEF Online, Counted, Alone
<1> QED BY <1>1, <1>6, <1>7 DEF Offline

LEMMA NextBooks == BooksInv /\ [Next]_vars /\ ~strayed' => BooksInv'
<1> SUFFICES ASSUME BooksInv, [Next]_vars, ~strayed' PROVE BooksInv'
  OBVIOUS
<1>1. TypeOK' /\ Promised'
  BY NextType, NextPromised DEF BooksInv
<1>2. CASE Receive
  <2>1. wire # <<>> /\ UNCHANGED <<count, exclusive, gen, pc, mode, leaseGen, conn>>
    BY <1>2 DEF Receive, books
  <2>2. conn
    BY <2>1 DEF BooksInv, Offline, Silent
  <2> QED BY <1>1, <2>1, <2>2, QuietBooks DEF BooksInv
<1>3. CASE \E u \in User : ServerStep(u)
  <2>1. PICK u \in User : ServerStep(u)
    BY <1>3
  <2>2. UNCHANGED <<count, exclusive, gen, pc, mode, leaseGen, conn, res, attached>>
    BY <2>1 DEF ServerStep, Apart, books, users, state
  <2>3. conn
    <3>1. req[u] # "none"
      BY <2>1 DEF ServerStep, ServerAttach, ServerAttached, ServerRefuses, ServerDetach, ServerDetached
    <3> QED BY <3>1 DEF BooksInv, Offline, Silent
  <2> QED BY <1>1, <2>2, <2>3, QuietBooks DEF BooksInv
<1>4. CASE RuntimeStep
  <2>1. UNCHANGED <<count, exclusive, gen, pc, mode, leaseGen, conn, res, attached, req, serves>>
    BY <1>4 DEF RuntimeStep, RuntimeEvent, Reopen, Apart, books, users, state
  <2>2. ~serves => wire' = wire
    BY <1>4 DEF RuntimeStep, RuntimeEvent, Reopen
  <2>3. ~conn => Silent'
    BY <2>1, <2>2 DEF BooksInv, Offline, Silent
  <2> QED BY <1>1, <2>1, <2>3, QuietBooks DEF BooksInv
<1>5. CASE UNCHANGED vars
  <2>1. UNCHANGED <<count, exclusive, gen, pc, mode, leaseGen, conn, res, attached, req, serves, wire>>
    BY <1>5 DEF vars, books, users, state, link, server
  <2>2. ~conn => Silent'
    BY <2>1 DEF BooksInv, Offline, Silent
  <2> QED BY <1>1, <2>1, <2>2, QuietBooks DEF BooksInv
<1>6. CASE Disconnect
  BY <1>1, <1>6, DisconnectBooks DEF BooksInv
<1>7. CASE Connect
  <2>1. UNCHANGED <<count, exclusive, gen, pc, mode, leaseGen, conn, res, req, serves, wire>>
    BY <1>7 DEF Connect, books, users, server
  <2>2. ~conn => Silent'
    BY <1>7, <2>1 DEF BooksInv, Offline, Silent, Connect
  <2> QED BY <1>1, <2>1, <2>2, QuietBooks DEF BooksInv
<1>11. CASE Connected
  BY <1>1, <1>11, ConnectedBooks DEF BooksInv
<1>8. CASE \E u \in User, m \in {"shared", "exclusive"} : Acquire(u, m)
  BY <1>1, <1>8, AcquireBooks DEF BooksInv
<1>9. CASE \E u \in User, q \in BOOLEAN : Release(u, q)
  BY <1>1, <1>9, ReleaseBooks DEF BooksInv
<1>10. CASE \E u \in User : Continue(u)
  BY <1>1, <1>10, ContinueBooks DEF BooksInv
<1> QED BY <1>2, <1>3, <1>4, <1>5, <1>6, <1>7, <1>8, <1>9, <1>10, <1>11 DEF Next

LEMMA InitBooks == Init => BooksInv
<1> SUFFICES ASSUME Init PROVE BooksInv
  OBVIOUS
<1>1. TypeOK
  BY InitType
<1>2. Promised /\ Stamped /\ Offline
  BY DEF Init, Promised, Stamped, Offline
<1>3. Online
  <2>1. \A u \in User : ~Owns(u) /\ pc[u] # "releasing"
    BY DEF Init, Owns, Waiting
  <2>2. {u \in User : Owns(u)} = {}
    BY <2>1
  <2>3. count = Cardinality({u \in User : Owns(u)})
    BY <2>2, FS_EmptySet DEF Init
  <2> QED BY <2>1, <2>3, NoneAssumption DEF Init, Online, Counted, Alone
<1> QED BY <1>1, <1>2, <1>3 DEF BooksInv

(* A lease that has strayed is never forgotten.                            *)
LEMMA StrayStays == strayed /\ [Next]_vars => strayed'
<1> SUFFICES ASSUME strayed, [Next]_vars PROVE strayed'
  OBVIOUS
<1>1. \A u \in User : Attach(u) \/ Proceed(u) \/ GiveUp(u) \/ Grant(u) => strayed'
  BY DEF Attach, Proceed, GiveUp, Grant
<1>2. CASE \E u \in User, m \in {"shared", "exclusive"} : Acquire(u, m)
  BY <1>1, <1>2 DEF Acquire
<1>3. CASE \E u \in User, q \in BOOLEAN : Release(u, q)
  BY <1>3 DEF Release
<1>4. CASE \E u \in User : Continue(u)
  BY <1>1, <1>4 DEF Continue, AfterDetachment, AfterReconcile, AfterAttach, AfterRelease
<1>5. CASE Receive \/ Disconnect
  BY <1>5 DEF Receive, Disconnect
<1>6. CASE Connect \/ Connected \/ RuntimeStep \/ UNCHANGED vars \/ \E u \in User : ServerStep(u)
  <2>1. UNCHANGED users
    BY <1>6 DEF Connect, Connected, RuntimeStep, ServerStep, Apart, vars
  <2> QED BY <2>1 DEF users
<1> QED BY <1>2, <1>3, <1>4, <1>5, <1>6 DEF Next

LEMMA BooksInvariant == Spec => [](~strayed => BooksInv)
<1>1. Init => (~strayed => BooksInv)
  BY InitBooks
<1>2. (~strayed => BooksInv) /\ [Next]_vars => (~strayed => BooksInv)'
  BY NextBooks, StrayStays
<1> QED BY <1>1, <1>2, PTL DEF Spec

(* The books of a connection are those of its leases and reservations, for *)
(* any number of users, failures and lost connections, wherever between    *)
(* two steps of the client the connection ends, until a lease is granted   *)
(* while there is none.                                                    *)
THEOREM BooksAreRight == Spec => []BooksMatchOwners
<1>1. (~strayed => BooksInv) => BooksMatchOwners
  BY DEF BooksInv, Online, Counted, BooksMatchOwners
<1> QED BY BooksInvariant, <1>1, PTL

(* An exclusive lease is the only one, for any number of users: its token  *)
(* is in the books, and there is room for one.                             *)
THEOREM ExclusiveLeasesStandAlone == Spec => []ExclusiveAlone
<1>1. (~strayed => BooksInv) => ExclusiveAlone
  BY DEF BooksInv, Online, Alone, ExclusiveAlone
<1> QED BY BooksInvariant, <1>1, PTL
-----------------------------------------------------------------------------
(* The link.  Whoever waits for a promise waits for the one in the map and *)
(* has its result; one request at a time is under way, and the messages    *)
(* are about it; and what the client knows of the session agrees with      *)
(* them.                                                                   *)

Joined ==
  \A v \in User :
    /\ pc[v] = "waitAttach" /\ on[v] # None => on[v] = attachment
    /\ pc[v] = "waitReconcile" /\ on[v] # None => on[v] = reconciliation
    /\ pc[v] = "waitDetach" /\ on[v] # None => on[v] = detachment
    /\ pc[v] = "releasing" => on[v] = v /\ detachment = v
    /\ on[v] # None => pc[v] \in Busy /\ res[v] = res[on[v]]
    /\ on[v] = None => (pc[v] \in Busy <=> res[v] # "none")

Outstanding(u) == pc[u] \in Busy /\ on[u] = u /\ res[u] = "none"
Attaching(u) == Outstanding(u) /\ pc[u] = "waitAttach"

OneRequest == \A u, v \in User : Outstanding(u) /\ Outstanding(v) => u = v

RequestsMatch ==
  \A u \in User :
    /\ req[u] # "none" =>
         Outstanding(u) /\ (req[u] \in {"attach", "attaching"} <=> pc[u] = "waitAttach")
    /\ req[u] = "attach" => ~serves /\ wire = <<>>
    /\ req[u] = "attaching" => serves
    /\ req[u] = "detaching" => ~serves

(* A message is the answer to the request under way.  Nothing follows the  *)
(* answer to a detach, and a refusal is alone.                             *)
Answers(m) ==
  /\ Outstanding(m.to) /\ req[m.to] = "none"
  /\ m.kind = "attach" <=> pc[m.to] = "waitAttach"
  /\ m.kind = "attach" /\ m.ok => m.attached
  /\ m.kind = "detach" \/ ~m.ok => ~serves

RepliesMatch ==
  \A i \in 1..Len(wire) : wire[i].kind # "event" =>
    /\ Answers(wire[i])
    /\ \A j \in 1..Len(wire) : wire[j].kind # "event" => i = j
    /\ wire[i].kind = "detach" \/ ~wire[i].ok => i = Len(wire)
    /\ wire[i].kind = "attach" /\ ~wire[i].ok => i = 1

NoEvents == \A i \in 1..Len(wire) : wire[i].kind # "event"

(* A session that the server serves is known to be attached, or about to.  *)
ServesKnown == attached \/ (~serves /\ NoEvents) \/ \E u \in User : Attaching(u)

(* The snapshot that the next attach brings will not be ignored.           *)
Unremembered == \A u \in User : Attaching(u) => snap = -1 \/ attached

(* Until those who waited for an answer have gone on, nothing happens.     *)
SettledQuiet ==
  \A u \in User :
    pc[u] \in Busy /\ res[u] # "none" /\ ~(pc[u] = "waitAttach" /\ res[u] = "ok") =>
      wire = <<>> /\ ~serves
AttachSettled == \A u \in User : pc[u] = "waitAttach" /\ res[u] = "ok" => attached
ReconcileSettled == \A u \in User : pc[u] = "waitReconcile" /\ res[u] = "ok" => ~attached
ReleaseSettled == \A u \in User : pc[u] = "releasing" /\ res[u] # "ok" => attached

(* A detach that was left undone is done before there is another lease.    *)
CleanupAlone ==
  cleanup => \A u \in User : Owns(u) => pc[u] \in {"waitDetach", "waitReconcile"}
CleanupOwned ==
  \A u \in User : pc[u] = "waitReconcile" =>
    /\ on[u] = u => cleanup
    /\ on[u] = None /\ res[u] = "ok" => ~cleanup

(* Who releases the last lease is the only owner; whoever comes waits.     *)
ReleaseAlone ==
  \A u, v \in User : pc[v] = "releasing" /\ Owns(u) /\ u # v => pc[u] = "waitDetach" /\ on[u] = v

ServesOwned == serves => \E u \in User : Owns(u)
HeldAttached == \A u \in User : Held(u) => attached

Channel == OneRequest /\ RequestsMatch /\ RepliesMatch
Known ==
  /\ ServesKnown /\ Unremembered
  /\ SettledQuiet /\ AttachSettled /\ ReconcileSettled /\ ReleaseSettled
  /\ CleanupAlone /\ CleanupOwned /\ ReleaseAlone
  /\ ServesOwned /\ HeldAttached

LinkInv == BooksInv /\ Joined /\ (conn => Channel /\ Known)

-----------------------------------------------------------------------------
(* The steps of the users.                                                 *)

(* A user that has nothing to wait for goes on, and what it has been sent  *)
(* and the connection stay as they are.                                    *)
Moves(u) ==
  /\ UNCHANGED <<gen, attached, serves, wire, conn>>
  /\ pc[u] \in Busy => Ready(u)
  /\ pc' = [pc EXCEPT ![u] = pc'[u]]
  /\ res' = [res EXCEPT ![u] = res'[u]]
  /\ leaseGen' = [leaseGen EXCEPT ![u] = leaseGen'[u]]
  /\ Wait(u, on'[u])

Asks(u, c) ==
  /\ on'[u] = u
  /\ res'[u] = IF conn THEN "none" ELSE "err"
  /\ req' = IF conn THEN [req EXCEPT ![u] = c] ELSE req

Follows(u, o) == o \in User /\ on'[u] = o /\ res'[u] = res[o] /\ req' = req

Rests(u) ==
  pc'[u] \in {"idle", "held"} /\ on'[u] = None /\ res'[u] = "none" /\ req' = req

LEMMA AskMoves ==
  ASSUME TypeOK, NEW u \in User, NEW p, NEW c, Ask(u, p, c)
  PROVE  /\ pc' = [pc EXCEPT ![u] = pc'[u]] /\ pc'[u] = p
         /\ res' = [res EXCEPT ![u] = res'[u]] /\ Wait(u, on'[u]) /\ Asks(u, c)
  BY DEF TypeOK, Ask, Wait, Asks

LEMMA AwaitMoves ==
  ASSUME TypeOK, NEW u \in User, NEW p, NEW o \in User, Await(u, p, o), req' = req
  PROVE  /\ pc' = [pc EXCEPT ![u] = pc'[u]] /\ pc'[u] = p
         /\ res' = [res EXCEPT ![u] = res'[u]] /\ Wait(u, on'[u]) /\ Follows(u, o)
  BY DEF TypeOK, Await, Wait, Follows

LEMMA ResumeMoves ==
  ASSUME TypeOK, NEW u \in User, NEW p \in {"idle", "held"}, Resume(u, p), req' = req
  PROVE  /\ pc' = [pc EXCEPT ![u] = pc'[u]] /\ pc'[u] = p
         /\ res' = [res EXCEPT ![u] = res'[u]] /\ Wait(u, on'[u]) /\ Rests(u)
  BY DEF TypeOK, Resume, Wait, Rests

(* What attaching, reconciling and proceeding do.                          *)
Attaches(u) ==
  /\ pc'[u] = "waitAttach" /\ leaseGen' = leaseGen
  /\ \/ attachment = None /\ attachment' = u /\ Asks(u, "attach") /\ snap' = -1
     \/ /\ attachment # None /\ attachment' = attachment
        /\ Follows(u, attachment) /\ snap' = snap

Reconciles(u) ==
  /\ pc'[u] = "waitReconcile"
  /\ \/ reconciliation = None /\ reconciliation' = u /\ Asks(u, "detach")
     \/ /\ reconciliation # None /\ reconciliation' = reconciliation
        /\ Follows(u, reconciliation)

LEMMA AttachMoves ==
  ASSUME TypeOK, NEW u \in User, Attach(u)
  PROVE  /\ pc' = [pc EXCEPT ![u] = pc'[u]] /\ res' = [res EXCEPT ![u] = res'[u]]
         /\ Wait(u, on'[u]) /\ Attaches(u)
<1>1. CASE StartAttach(u)
  BY <1>1, AskMoves DEF StartAttach, Attach, Attaches
<1>2. CASE JoinAttach(u)
  <2>1. attachment \in User
    BY <1>2 DEF JoinAttach, TypeOK
  <2> QED BY <1>2, <2>1, AwaitMoves DEF JoinAttach, Attach, Attaches
<1> QED BY <1>1, <1>2 DEF Attach

LEMMA ReconcileMoves ==
  ASSUME TypeOK, NEW u \in User, Reconcile(u)
  PROVE  /\ pc' = [pc EXCEPT ![u] = pc'[u]] /\ res' = [res EXCEPT ![u] = res'[u]]
         /\ Wait(u, on'[u]) /\ Reconciles(u)
<1>1. CASE reconciliation = None
  BY <1>1, AskMoves DEF Reconcile, Reconciles
<1>2. CASE reconciliation # None
  <2>1. reconciliation \in User
    BY <1>2 DEF TypeOK
  <2> QED BY <1>2, <2>1, AwaitMoves DEF Reconcile, Reconciles
<1> QED BY <1>1, <1>2

LEMMA ProceedMoves ==
  ASSUME TypeOK, NEW u \in User, Proceed(u)
  PROVE  /\ pc' = [pc EXCEPT ![u] = pc'[u]] /\ res' = [res EXCEPT ![u] = res'[u]]
         /\ leaseGen' = [leaseGen EXCEPT ![u] = leaseGen'[u]]
         /\ Wait(u, on'[u])
         /\ \/ /\ cleanup /\ Reconciles(u) /\ leaseGen' = leaseGen
               /\ attachment' = attachment /\ snap' = snap
            \/ ~cleanup /\ ~attached /\ Attaches(u) /\ reconciliation' = reconciliation
            \/ /\ ~cleanup /\ attached /\ pc'[u] = "held" /\ Rests(u) /\ leaseGen'[u] = gen
               /\ attachment' = attachment /\ reconciliation' = reconciliation /\ snap' = snap
<1>1. leaseGen \in [User -> Nat]
  BY DEF TypeOK
<1>2. CASE cleanup
  BY <1>1, <1>2, ReconcileMoves DEF Proceed
<1>3. CASE ~cleanup /\ ~attached
  BY <1>1, <1>3, AttachMoves DEF Proceed, Attaches
<1>4. CASE ~cleanup /\ attached
  BY <1>1, <1>4, ResumeMoves DEF Proceed, Grant
<1> QED BY <1>2, <1>3, <1>4

(* The others stay where they are; who was behind u may go on.             *)
LEMMA OthersStay ==
  ASSUME TypeOK, NEW u \in User, Moves(u), NEW v \in User, v # u
  PROVE  /\ pc'[v] = pc[v] /\ res'[v] = res[v]
         /\ on'[v] = IF on[v] = u THEN None ELSE on[v]
         /\ Owns(v)' <=> Owns(v)
         /\ Held(v)' <=> Held(v)
         /\ Outstanding(v)' <=> Outstanding(v)
<1>1. /\ pc'[v] = pc[v] /\ res'[v] = res[v] /\ leaseGen'[v] = leaseGen[v] /\ gen' = gen
      /\ on'[v] = IF on[v] = u THEN None ELSE on[v]
  BY DEF TypeOK, Moves, Wait
<1>2. on'[v] = v <=> on[v] = v
  BY <1>1, NoneAssumption
<1> QED BY <1>1, <1>2 DEF Owns, Held, CurrentLease, Outstanding

LEMMA JoinedMoves ==
  ASSUME TypeOK, Promised, Joined, NEW u \in User, Moves(u),
         attachment' = attachment \/ attachment \in {None, u},
         detachment' = detachment \/ detachment \in {None, u},
         reconciliation' = reconciliation \/ reconciliation \in {None, u},
         \/ Rests(u)
         \/ /\ pc'[u] \in Busy /\ on'[u] # None /\ res'[u] = res'[on'[u]]
            /\ pc'[u] = "waitAttach" => on'[u] = attachment'
            /\ pc'[u] = "waitReconcile" => on'[u] = reconciliation'
            /\ pc'[u] = "waitDetach" => on'[u] = detachment'
            /\ pc'[u] = "releasing" => on'[u] = u /\ detachment' = u
  PROVE  Joined'
<1> SUFFICES ASSUME NEW v \in User
             PROVE  /\ pc'[v] = "waitAttach" /\ on'[v] # None => on'[v] = attachment'
                    /\ pc'[v] = "waitReconcile" /\ on'[v] # None => on'[v] = reconciliation'
                    /\ pc'[v] = "waitDetach" /\ on'[v] # None => on'[v] = detachment'
                    /\ pc'[v] = "releasing" => on'[v] = v /\ detachment' = v
                    /\ on'[v] # None => pc'[v] \in Busy /\ res'[v] = res'[on'[v]]
                    /\ on'[v] = None => (pc'[v] \in Busy <=> res'[v] # "none")
  BY DEF Joined
<1>1. CASE v = u
  BY <1>1 DEF Rests, Busy, Waiting
<1>2. CASE v # u
  <2>1. /\ pc'[v] = pc[v] /\ res'[v] = res[v]
        /\ on'[v] = IF on[v] = u THEN None ELSE on[v]
    BY <1>2, OthersStay
  <2>2. CASE on[v] = u
    <3>1. pc[v] \in Busy /\ res[v] = res[u] /\ pc[v] # "releasing"
      BY <1>2, <2>2, NoneAssumption DEF Joined
    <3>2. pc[u] \in Busy
      BY <1>2, <2>2, <3>1, NoneAssumption DEF Joined, Promised, Busy, Waiting
    <3>3. res[u] # "none"
      BY <3>2 DEF Moves, Ready
    <3> QED BY <2>1, <2>2, <3>1, <3>3
  <2>3. CASE on[v] # u
    <3>1. on'[v] = on[v] /\ (on[v] # None => on[v] \in User /\ res'[on[v]] = res[on[v]])
      BY <2>1, <2>3, OthersStay DEF TypeOK
    <3> QED BY <1>2, <2>1, <2>3, <3>1, NoneAssumption DEF Joined
  <2> QED BY <2>2, <2>3
<1> QED BY <1>1, <1>2

(* Behind a message that is alone there is none.                           *)
LEMMA TailOfOne ==
  ASSUME NEW S, NEW s \in Seq(S), s # <<>>, 1 = Len(s)
  PROVE  Tail(s) = <<>>
<1>1. Tail(s) \in Seq(S) /\ Len(Tail(s)) = 0 OBVIOUS
<1> QED BY <1>1, EmptySeq

(* The messages but the events answer somebody.                            *)
LEMMA MessagesTo ==
  ASSUME TypeOK
  PROVE  \A i \in 1..Len(wire) :
           /\ wire[i] \in Messages /\ wire[i].kind \in {"event", "attach", "detach"}
           /\ wire[i].kind # "event" => wire[i].to \in User /\ wire[i].ok \in BOOLEAN
<1>1. \A i \in 1..Len(wire) : wire[i] \in Messages
  BY DEF TypeOK
<1>2. \A m \in Messages :
        /\ m.kind \in {"event", "attach", "detach"}
        /\ m.kind # "event" => m.to \in User /\ m.ok \in BOOLEAN
  BY DEF Messages
<1> QED BY <1>1, <1>2

(* A step that sends nothing leaves the request under way as it is.        *)
LEMMA ChannelQuiet ==
  ASSUME TypeOK, Channel, NEW u \in User, Moves(u), req' = req, ~Outstanding(u)'
  PROVE  Channel'
<1>1. ~Outstanding(u)
  BY DEF Moves, Ready, Outstanding
<1>2. \A v \in User : Outstanding(v)' <=> Outstanding(v)
  BY <1>1, OthersStay
<1>3. \A v \in User : Outstanding(v) => pc'[v] = pc[v]
  BY <1>1, OthersStay
<1>4. serves' = serves /\ wire' = wire
  BY DEF Moves
<1>5. OneRequest'
  BY <1>2 DEF Channel, OneRequest
<1>6. RequestsMatch'
  BY <1>2, <1>3, <1>4 DEF Channel, RequestsMatch
<1>7. \A i \in 1..Len(wire) : wire[i].kind # "event" => wire[i].to \in User
  BY MessagesTo
<1>8. RepliesMatch'
  BY <1>2, <1>3, <1>4, <1>7 DEF Channel, RepliesMatch, Answers
<1> QED BY <1>5, <1>6, <1>8 DEF Channel

(* A request is sent while none is under way.                              *)
LEMMA ChannelAsks ==
  ASSUME TypeOK, Channel, conn, NEW u \in User, Moves(u), pc'[u] \in Busy,
         NEW c \in {"attach", "detach"}, Asks(u, c), c = "attach" <=> pc'[u] = "waitAttach",
         \A v \in User : v # u => ~Outstanding(v),
         c = "attach" => ~serves /\ wire = <<>>
  PROVE  Channel'
<1>1. \A v \in User : ~Outstanding(v)
  BY DEF Moves, Ready, Outstanding
<1>2. \A v \in User : req[v] = "none"
  BY <1>1 DEF Channel, RequestsMatch
<1>3. \A i \in 1..Len(wire) : wire[i].kind = "event"
  <2>1. \A i \in 1..Len(wire) : wire[i].kind # "event" => wire[i].to \in User
    BY MessagesTo
  <2> QED BY <1>1, <2>1 DEF Channel, RepliesMatch, Answers
<1>4. \A v \in User : v # u => ~Outstanding(v)' /\ req'[v] = "none"
  BY <1>1, <1>2, OthersStay DEF Asks, TypeOK
<1>5. req'[u] = c /\ Outstanding(u)' /\ serves' = serves /\ wire' = wire
  BY DEF Asks, TypeOK, Outstanding, Moves
<1>6. OneRequest'
  BY <1>4 DEF OneRequest
<1>7. RequestsMatch'
  BY <1>4, <1>5 DEF RequestsMatch
<1>8. RepliesMatch'
  BY <1>3, <1>5 DEF RepliesMatch
<1> QED BY <1>6, <1>7, <1>8 DEF Channel

(* What a step of u has to see to, for the client to know as much as it    *)
(* did.                                                                    *)
KnowsStep(u) ==
  /\ (snap' # snap /\ snap' # -1) => \A v \in User : v # u => ~Attaching(v)
  /\ Attaching(u)' => snap' = -1
  /\ (pc'[u] \in Busy /\ res'[u] # "none") =>
       IF pc'[u] = "waitAttach" /\ res'[u] = "ok" THEN attached ELSE wire = <<>> /\ ~serves
  /\ pc'[u] = "waitReconcile" /\ res'[u] = "ok" => ~attached
  /\ pc'[u] = "releasing" => attached
  /\ cleanup' =>
       /\ Owns(u)' => pc'[u] \in {"waitDetach", "waitReconcile"}
       /\ cleanup \/ \A v \in User : v # u /\ Owns(v) => pc[v] = "waitDetach"
  /\ (cleanup /\ ~cleanup') => reconciliation = u
  /\ (reconciliation = u /\ res[u] = "ok") => ~cleanup'
  /\ pc'[u] = "waitReconcile" => cleanup' /\ on'[u] # None
  /\ \A v \in User : v # u /\ pc[v] = "releasing" /\ Owns(u)' => pc'[u] = "waitDetach" /\ on'[u] = v
  /\ pc'[u] = "releasing" => \A v \in User : v # u => ~Owns(v)
  /\ serves => Owns(u)' \/ ~Owns(u) \/ \E v \in User : v # u /\ Owns(v)
  /\ Held(u)' => attached

LEMMA KnownMoves ==
  ASSUME TypeOK, Promised, Joined, Known, NEW u \in User, Moves(u), KnowsStep(u)
  PROVE  Known'
<1>1. attached' = attached /\ serves' = serves /\ wire' = wire /\ gen' = gen
  BY DEF Moves
<1>2. ASSUME NEW v \in User, v # u
      PROVE  /\ pc'[v] = pc[v] /\ res'[v] = res[v]
             /\ on'[v] = IF on[v] = u THEN None ELSE on[v]
             /\ Owns(v)' <=> Owns(v)
             /\ Held(v)' <=> Held(v)
             /\ Attaching(v)' <=> Attaching(v)
  BY <1>2, OthersStay DEF Attaching
<1>3. ~Attaching(u)
  BY DEF Attaching, Outstanding, Moves, Ready
<1>4. ServesKnown'
  BY <1>1, <1>2, <1>3 DEF Known, ServesKnown, NoEvents
<1>5. Unremembered'
  BY <1>1, <1>2 DEF Known, Unremembered, KnowsStep
<1>6. SettledQuiet' /\ AttachSettled' /\ ReconcileSettled' /\ ReleaseSettled'
  <2>1. /\ (pc'[u] \in Busy /\ res'[u] # "none") =>
             IF pc'[u] = "waitAttach" /\ res'[u] = "ok" THEN attached ELSE wire = <<>> /\ ~serves
        /\ pc'[u] = "waitReconcile" /\ res'[u] = "ok" => ~attached
        /\ pc'[u] = "releasing" => attached
    BY DEF KnowsStep
  <2>2. SettledQuiet'
    BY <1>1, <1>2, <2>1 DEF Known, SettledQuiet
  <2>3. AttachSettled'
    BY <1>1, <1>2, <2>1 DEF Known, AttachSettled, Busy, Waiting
  <2>4. ReconcileSettled'
    BY <1>1, <1>2, <2>1 DEF Known, ReconcileSettled
  <2>5. ReleaseSettled'
    BY <1>1, <1>2, <2>1 DEF Known, ReleaseSettled
  <2> QED BY <2>2, <2>3, <2>4, <2>5
<1>7. CleanupAlone'
  BY <1>2 DEF Known, CleanupAlone, KnowsStep
<1>8. CleanupOwned'
  <2> SUFFICES ASSUME NEW v \in User, pc'[v] = "waitReconcile"
               PROVE  /\ on'[v] = v => cleanup'
                      /\ on'[v] = None /\ res'[v] = "ok" => ~cleanup'
    BY DEF CleanupOwned
  <2>0. /\ (reconciliation = u /\ res[u] = "ok") => ~cleanup'
        /\ cleanup' => cleanup \/ \A w \in User : w # u /\ Owns(w) => pc[w] = "waitDetach"
    BY DEF KnowsStep
  <2>1. CASE v = u
    BY <2>1 DEF KnowsStep
  <2>2. CASE v # u
    <3>1. pc[v] = "waitReconcile" /\ res'[v] = res[v] /\ Owns(v)
      BY <1>2, <2>2 DEF Owns, Waiting
    <3>2. on'[v] = v => cleanup'
      <4>1. on'[v] = v => on[v] = v /\ reconciliation = v
        BY <1>2, <2>2, <3>1, NoneAssumption DEF Joined
      <4> QED BY <2>2, <3>1, <4>1 DEF Known, CleanupOwned, KnowsStep
    <3>3. ASSUME on'[v] = None, res'[v] = "ok" PROVE ~cleanup'
      <4>1. CASE on[v] = u
        <5>1. reconciliation = u /\ res[v] = res[u]
          BY <3>1, <4>1, NoneAssumption DEF Joined
        <5> QED BY <2>0, <3>1, <3>3, <5>1
      <4>2. CASE on[v] # u
        <5>1. on[v] = None /\ ~cleanup
          BY <1>2, <2>2, <3>1, <3>3, <4>2 DEF Known, CleanupOwned
        <5> QED BY <2>0, <2>2, <3>1, <5>1
      <4> QED BY <4>1, <4>2
    <3> QED BY <3>2, <3>3
  <2> QED BY <2>1, <2>2
<1>9. ReleaseAlone'
  <2> SUFFICES ASSUME NEW v \in User, NEW w \in User, pc'[v] = "releasing", Owns(w)', w # v
               PROVE  pc'[w] = "waitDetach" /\ on'[w] = v
    BY DEF ReleaseAlone
  <2>1. CASE v = u
    BY <1>2, <2>1 DEF KnowsStep
  <2>2. CASE v # u /\ w = u
    BY <1>2, <2>2 DEF KnowsStep
  <2>3. CASE v # u /\ w # u
    BY <1>2, <2>3 DEF Known, ReleaseAlone
  <2> QED BY <2>1, <2>2, <2>3
<1>10. ServesOwned'
  BY <1>1, <1>2 DEF Known, ServesOwned, KnowsStep
<1>11. HeldAttached'
  BY <1>1, <1>2 DEF Known, HeldAttached, KnowsStep
<1> QED BY <1>4, <1>5, <1>6, <1>7, <1>8, <1>9, <1>10, <1>11 DEF Known

(* The promises that may be joined, as their owners see them.              *)
LEMMA Owned ==
  ASSUME TypeOK, Promised, Joined, NEW v \in User
  PROVE  /\ Outstanding(v) /\ pc[v] = "waitAttach" => attachment = v
         /\ Outstanding(v) /\ pc[v] = "waitReconcile" => reconciliation = v
         /\ Outstanding(v) => pc[v] \in {"waitAttach", "waitReconcile", "releasing"}
         /\ pc[v] = "releasing" => detachment = v
<1>1. on[v] = v => on[v] # None
  BY NoneAssumption
<1>2. ~(pc[v] = "waitDetach" /\ on[v] = v)
  BY <1>1 DEF Joined, Promised
<1> QED BY <1>1, <1>2 DEF Outstanding, Joined, Busy, Waiting

(* Of several owners none has the last lease, and the last has it alone.   *)
LEMMA SoleOwner ==
  ASSUME TypeOK, Online, conn, NEW u \in User, Owns(u)
  PROVE  /\ LastLease => \A v \in User : v # u => ~Owns(v)
         /\ ~LastLease => \E v \in User : v # u /\ Owns(v)
<1> DEFINE Others == Owners \ {u}
<1>1. count = Cardinality(Others) + 1 /\ Cardinality(Others) \in Nat
  <2>1. Owners \in SUBSET User /\ u \in Owners /\ count = Cardinality(Owners)
    BY DEF Owners, Online, Counted
  <2> QED BY <2>1, Sizes
<1>2. IsFiniteSet(Others)
  BY UserAssumption, FS_Subset DEF Owners
<1>3. Cardinality(Others) = 0 <=> Others = {}
  BY <1>2, FS_EmptySet
<1>4. LastLease <=> Others = {}
  BY <1>1, <1>3 DEF LastLease
<1> QED BY <1>4 DEF Owners

(* acquireSession proceeds when no detach is under way, and nothing is     *)
(* where a request would not be welcome.                                   *)
LEMMA ProceedLink ==
  ASSUME LinkInv, NEW u \in User, Moves(u), Proceed(u), pc[u] \in {"idle", "waitDetach"},
         detachment' = detachment, cleanup' = cleanup,
         conn => \A v \in User : pc[v] # "releasing"
  PROVE  Joined' /\ (conn => Channel' /\ Known')
<1> USE DEF LinkInv, BooksInv
<1>1. \/ /\ cleanup /\ Reconciles(u) /\ leaseGen' = leaseGen
         /\ attachment' = attachment /\ snap' = snap
      \/ ~cleanup /\ ~attached /\ Attaches(u) /\ reconciliation' = reconciliation
      \/ /\ ~cleanup /\ attached /\ pc'[u] = "held" /\ Rests(u) /\ leaseGen'[u] = gen
         /\ attachment' = attachment /\ reconciliation' = reconciliation /\ snap' = snap
  BY ProceedMoves
<1>2. attachment # u /\ reconciliation # u /\ detachment # u
  BY NoneAssumption DEF Promised
<1>3. Joined'
  <2>1. CASE Reconciles(u) /\ attachment' = attachment
    <3>1. on'[u] = reconciliation' /\ on'[u] \in User /\ reconciliation' \in {u, reconciliation}
      BY <2>1, <1>2 DEF Reconciles, Asks, Follows
    <3>2. res'[u] = res'[on'[u]]
      BY <2>1, <1>2, <3>1, OthersStay DEF Reconciles, Asks, Follows
    <3> QED BY <1>2, <2>1, <3>1, <3>2, JoinedMoves, NoneAssumption DEF Reconciles, Busy, Waiting
  <2>2. CASE Attaches(u) /\ reconciliation' = reconciliation
    <3>1. on'[u] = attachment' /\ on'[u] \in User /\ attachment' \in {u, attachment}
      BY <2>2, <1>2 DEF Attaches, Asks, Follows
    <3>2. res'[u] = res'[on'[u]]
      BY <2>2, <1>2, <3>1, OthersStay DEF Attaches, Asks, Follows
    <3> QED BY <1>2, <2>2, <3>1, <3>2, JoinedMoves, NoneAssumption DEF Attaches, Busy, Waiting
  <2>3. CASE Rests(u) /\ attachment' = attachment /\ reconciliation' = reconciliation
    BY <2>3, JoinedMoves
  <2> QED BY <1>1, <2>1, <2>2, <2>3
<1>4. ASSUME conn PROVE Channel' /\ Known'
  <2>1. \A v \in User : v # u => (Outstanding(v) => pc[v] \in {"waitAttach", "waitReconcile"})
    BY <1>4, Owned
  <2>2. reconciliation # None => reconciliation \in User /\ pc[reconciliation] = "waitReconcile"
    BY DEF TypeOK, Promised
  <2>3. attachment # None => attachment \in User /\ pc[attachment] = "waitAttach"
    BY DEF TypeOK, Promised
  <2>4. ~Attaching(u) /\ ~Outstanding(u) /\ (pc[u] = "waitDetach" => Owns(u))
    BY DEF Attaching, Outstanding, Moves, Ready, Owns, Waiting
  <2>5. CASE cleanup /\ Reconciles(u) /\ snap' = snap
    <3>1. pc'[u] = "waitReconcile" /\ Owns(u)' /\ ~Held(u)' /\ ~Attaching(u)' /\ on'[u] # None
      BY <2>2, <2>5, NoneAssumption
      DEF Reconciles, Owns, Held, Waiting, Attaching, Asks, Follows
    <3>2. \A v \in User : Outstanding(v) => pc[v] # "waitAttach"
      BY <1>4, <2>5 DEF Known, CleanupAlone, Owns, Waiting
    <3>3. Channel'
      <4>1. CASE reconciliation = None
        <5>1. \A v \in User : v # u => ~Outstanding(v)
          BY <2>1, <3>2, <4>1, Owned, NoneAssumption
        <5> QED BY <1>4, <2>5, <3>1, <4>1, <5>1, ChannelAsks DEF Reconciles, Busy, Waiting
      <4>2. CASE reconciliation # None
        <5>1. req' = req /\ on'[u] = reconciliation
          BY <2>5, <4>2 DEF Reconciles, Follows
        <5> QED BY <1>2, <1>4, <5>1, ChannelQuiet DEF Outstanding
      <4> QED BY <4>1, <4>2
    <3>4. res'[u] # "none" => wire = <<>> /\ ~serves /\ (res'[u] = "ok" => ~attached)
      <4>1. res'[u] # "none" => reconciliation # None /\ res'[u] = res[reconciliation]
        BY <1>4, <2>5 DEF Reconciles, Asks, Follows
      <4> QED BY <1>4, <2>2, <4>1 DEF Known, SettledQuiet, ReconcileSettled, Busy, Waiting
    <3>5. KnowsStep(u)
      BY <1>2, <1>4, <2>5, <3>1, <3>4 DEF KnowsStep
    <3> QED BY <1>4, <3>3, <3>5, KnownMoves
  <2>6. CASE ~cleanup /\ ~attached /\ Attaches(u)
    <3>1. pc'[u] = "waitAttach" /\ Owns(u)' /\ ~Held(u)' /\ on'[u] # None
      BY <2>3, <2>6, NoneAssumption DEF Attaches, Owns, Held, Waiting, Asks, Follows
    <3>2. \A v \in User : Outstanding(v) => pc[v] # "waitReconcile"
      BY <1>4, <2>6 DEF Known, CleanupOwned, Outstanding
    <3>3. Channel' /\ (Attaching(u)' => snap' = -1) /\ (snap' = snap \/ snap' = -1)
      <4>1. CASE attachment = None
        <5>1. \A v \in User : v # u => ~Outstanding(v)
          BY <2>1, <3>2, <4>1, Owned, NoneAssumption
        <5>2. ~serves /\ NoEvents
          BY <1>4, <2>4, <2>6, <5>1 DEF Known, ServesKnown, Attaching
        <5>3. wire = <<>>
          <6>1. \A i \in 1..Len(wire) : FALSE
            BY <1>4, <2>4, <5>1, <5>2, MessagesTo DEF NoEvents, Channel, RepliesMatch, Answers
          <6> QED BY <6>1 DEF TypeOK
        <5>4. Channel'
          BY <1>4, <2>6, <3>1, <4>1, <5>1, <5>2, <5>3, ChannelAsks DEF Attaches, Busy, Waiting
        <5> QED BY <2>6, <4>1, <5>4 DEF Attaches
      <4>2. CASE attachment # None
        <5>1. req' = req /\ on'[u] = attachment /\ snap' = snap
          BY <2>6, <4>2 DEF Attaches, Follows
        <5>2. ~Outstanding(u)' /\ ~Attaching(u)'
          BY <1>2, <5>1 DEF Outstanding, Attaching
        <5> QED BY <1>4, <5>1, <5>2, ChannelQuiet
      <4> QED BY <4>1, <4>2
    <3>4. res'[u] # "none" => IF res'[u] = "ok" THEN attached ELSE wire = <<>> /\ ~serves
      <4>1. res'[u] # "none" => attachment # None /\ res'[u] = res[attachment]
        BY <1>4, <2>6 DEF Attaches, Asks, Follows
      <4> QED BY <1>4, <2>3, <4>1 DEF Known, SettledQuiet, AttachSettled, Busy, Waiting
    <3>5. KnowsStep(u)
      BY <1>2, <1>4, <2>6, <3>1, <3>3, <3>4 DEF KnowsStep
    <3> QED BY <1>4, <3>3, <3>5, KnownMoves
  <2>7. CASE ~cleanup /\ attached /\ pc'[u] = "held" /\ Rests(u) /\ leaseGen'[u] = gen /\ snap' = snap
    <3>1. Owns(u)' /\ ~Attaching(u)' /\ ~Outstanding(u)'
      BY <2>7 DEF Owns, CurrentLease, Attaching, Outstanding, Busy, Waiting, Moves
    <3>2. Channel'
      BY <1>4, <2>7, <3>1, ChannelQuiet DEF Rests
    <3>3. KnowsStep(u)
      BY <1>2, <1>4, <2>7, <3>1 DEF KnowsStep, Rests
    <3> QED BY <1>4, <3>2, <3>3, KnownMoves
  <2> QED BY <1>1, <2>5, <2>6, <2>7
<1> QED BY <1>3, <1>4

LEMMA AcquireLink ==
  ASSUME LinkInv, NEW u \in User, NEW m \in {"shared", "exclusive"}, Acquire(u, m)
  PROVE  Joined' /\ (conn => Channel' /\ Known')
<1> USE DEF LinkInv, BooksInv
<1>1. /\ pc[u] = "idle" /\ detachment' = detachment /\ cleanup' = cleanup
      /\ UNCHANGED <<gen, attached, serves, wire, conn>>
  BY DEF Acquire, link
<1>2. detachment # u /\ pc[u] \notin Busy /\ leaseGen \in [User -> Nat]
  BY <1>1, NoneAssumption DEF Promised, Busy, Waiting, TypeOK
<1>3. CASE detachment = None
  <2>1. Proceed(u)
    BY <1>3 DEF Acquire
  <2>2. Moves(u)
    BY <1>1, <1>2, <2>1, ProceedMoves DEF Moves
  <2>3. \A v \in User : pc[v] # "releasing"
    BY <1>3, NoneAssumption DEF Joined
  <2> QED BY <1>1, <2>1, <2>2, <2>3, ProceedLink
<1>4. CASE detachment # None
  <2>1. /\ Await(u, "waitDetach", detachment) /\ detachment \in User /\ pc[detachment] = "releasing"
        /\ UNCHANGED <<attachment, reconciliation, snap, leaseGen, req>>
    BY <1>4 DEF Acquire, TypeOK, Promised
  <2>2. /\ pc' = [pc EXCEPT ![u] = pc'[u]] /\ pc'[u] = "waitDetach"
        /\ res' = [res EXCEPT ![u] = res'[u]] /\ Wait(u, on'[u]) /\ Follows(u, detachment)
    BY <2>1, AwaitMoves
  <2>3. Moves(u)
    BY <1>1, <1>2, <2>1, <2>2 DEF Moves
  <2>4. res'[u] = res'[on'[u]] /\ on'[u] = detachment
    BY <1>2, <2>1, <2>2, <2>3, OthersStay DEF Follows
  <2>5. Joined'
    BY <1>1, <2>1, <2>2, <2>3, <2>4, JoinedMoves, NoneAssumption DEF Busy, Waiting
  <2>6. ~Outstanding(u)' /\ ~Attaching(u)' /\ Owns(u)' /\ ~Held(u)'
    BY <1>2, <2>2, <2>4 DEF Outstanding, Attaching, Owns, Held, Waiting
  <2>7. ASSUME conn PROVE Channel' /\ Known'
    <3>1. Channel'
      BY <2>1, <2>3, <2>6, <2>7, ChannelQuiet
    <3>2. res'[u] # "none" => wire = <<>> /\ ~serves
      BY <2>1, <2>2, <2>7 DEF Follows, Known, SettledQuiet, Busy
    <3>3. reconciliation # u
      BY <1>1, NoneAssumption DEF Promised
    <3>4. \A v \in User : pc[v] = "releasing" => on'[u] = v
      BY <2>4 DEF Joined
    <3>5. KnowsStep(u)
      BY <1>1, <2>1, <2>2, <2>6, <3>2, <3>3, <3>4 DEF KnowsStep
    <3> QED BY <2>3, <2>7, <3>1, <3>5, KnownMoves
  <2> QED BY <2>5, <2>7
<1> QED BY <1>3, <1>4

LEMMA AfterDetachmentLink ==
  ASSUME LinkInv, NEW u \in User, AfterDetachment(u)
  PROVE  Joined' /\ (conn => Channel' /\ Known')
<1> USE DEF LinkInv, BooksInv
<1>1. /\ pc[u] = "waitDetach" /\ Ready(u) /\ Proceed(u)
      /\ detachment' = detachment /\ cleanup' = cleanup
      /\ UNCHANGED <<gen, attached, serves, wire, conn>>
  BY DEF AfterDetachment, books, link
<1>2. Moves(u)
  BY <1>1, ProceedMoves DEF Moves
<1>3. ASSUME conn, NEW v \in User PROVE pc[v] # "releasing"
  <2>1. Owns(u) /\ on[u] \in {u, None}
    BY <1>1 DEF Owns, Waiting, Ready
  <2> QED BY <1>1, <1>3, <2>1, NoneAssumption DEF Known, ReleaseAlone
<1> QED BY <1>1, <1>2, <1>3, ProceedLink

(* A failing acquireSession leaves while the server does not serve.        *)
LEMMA GiveUpLink ==
  ASSUME LinkInv, NEW u \in User, Moves(u), GiveUp(u), req' = req, cleanup' = cleanup,
         pc[u] \in {"waitReconcile", "waitAttach"}, res[u] = "err", detachment' = detachment,
         attachment' = attachment \/ attachment = u,
         reconciliation' = reconciliation \/ reconciliation = u,
         snap' = snap \/ attachment = u
  PROVE  Joined' /\ (conn => Channel' /\ Known')
<1> USE DEF LinkInv, BooksInv
<1>1. Rests(u) /\ pc'[u] = "idle"
  BY ResumeMoves DEF GiveUp
<1>2. Joined'
  BY <1>1, JoinedMoves
<1>3. ASSUME conn PROVE Channel' /\ Known'
  <2>1. ~Outstanding(u)' /\ ~Attaching(u)' /\ ~Owns(u)' /\ ~Held(u)'
    BY <1>1 DEF Outstanding, Attaching, Owns, Held, Busy, Waiting
  <2>2. Channel'
    BY <1>3, <2>1, ChannelQuiet
  <2>3. ~serves
    BY <1>3 DEF Known, SettledQuiet, Busy, Waiting
  <2>4. attachment = u => \A v \in User : v # u => ~Attaching(v)
    BY Owned DEF Attaching
  <2>5. KnowsStep(u)
    BY <1>1, <2>1, <2>3, <2>4 DEF KnowsStep, Busy, Waiting
  <2> QED BY <1>3, <2>2, <2>5, KnownMoves
<1> QED BY <1>2, <1>3

LEMMA AfterReconcileLink ==
  ASSUME LinkInv, NEW u \in User, AfterReconcile(u)
  PROVE  Joined' /\ (conn => Channel' /\ Known')
<1> USE DEF LinkInv, BooksInv
<1>1. /\ pc[u] = "waitReconcile" /\ Ready(u) /\ detachment' = detachment
      /\ UNCHANGED <<gen, attached, serves, wire, conn>>
      /\ reconciliation' = IF on[u] = u THEN None ELSE reconciliation
  BY DEF AfterReconcile, link
<1>2. /\ detachment # u /\ attachment # u /\ (on[u] = u => reconciliation = u)
      /\ reconciliation = u => on[u] = u
  BY <1>1, NoneAssumption DEF Promised, Joined
<1>3. leaseGen \in [User -> Nat]
  BY DEF TypeOK
<1>4. CASE res[u] = "ok"
  <2>1. Attach(u) /\ cleanup' = (IF on[u] = u THEN FALSE ELSE cleanup)
    BY <1>4 DEF AfterReconcile
  <2>2. Attaches(u) /\ Moves(u)
    BY <1>1, <1>3, <2>1, AttachMoves DEF Moves, Attaches
  <2>3. on'[u] = attachment' /\ on'[u] \in User /\ attachment' \in {u, attachment}
    BY <2>2, <1>2 DEF Attaches, Asks, Follows
  <2>4. res'[u] = res'[on'[u]]
    BY <1>2, <2>2, <2>3, OthersStay DEF Attaches, Asks, Follows
  <2>5. Joined'
    BY <1>1, <1>2, <2>2, <2>3, <2>4, JoinedMoves, NoneAssumption DEF Attaches, Busy, Waiting
  <2>6. ASSUME conn PROVE Channel' /\ Known'
    <3>1. wire = <<>> /\ ~serves /\ ~attached
      BY <1>1, <1>4, <2>6 DEF Known, SettledQuiet, ReconcileSettled, Busy, Waiting
    <3>2. ~cleanup' /\ (cleanup => reconciliation = u)
      BY <1>1, <1>2, <1>4, <2>1, <2>6 DEF Known, CleanupOwned, Ready
    <3>3. pc'[u] = "waitAttach" /\ Owns(u)' /\ Owns(u) /\ ~Held(u)'
      BY <1>1, <2>2 DEF Attaches, Owns, Held, Waiting
    <3>4. \A v \in User : pc[v] # "releasing"
      BY <1>1, <2>6, <3>3 DEF Known, ReleaseAlone
    <3>5. \A v \in User : v # u /\ Outstanding(v) => pc[v] = "waitAttach"
      <4> SUFFICES ASSUME NEW v \in User, v # u, Outstanding(v), pc[v] = "waitReconcile"
                   PROVE  FALSE
        BY <3>4, Owned
      <4>1. reconciliation = v /\ cleanup
        BY <2>6, Owned DEF Known, CleanupOwned, Outstanding
      <4> QED BY <3>2, <4>1
    <3>6. Channel' /\ (Attaching(u)' => snap' = -1) /\ (snap' = snap \/ snap' = -1)
      <4>1. CASE attachment = None
        <5>1. \A v \in User : v # u => ~Outstanding(v)
          BY <3>5, <4>1, Owned, NoneAssumption
        <5>2. Channel'
          BY <2>2, <2>6, <3>1, <3>3, <4>1, <5>1, ChannelAsks DEF Attaches, Busy, Waiting
        <5> QED BY <2>2, <4>1, <5>2 DEF Attaches
      <4>2. CASE attachment # None
        <5>1. req' = req /\ on'[u] = attachment /\ snap' = snap
          BY <2>2, <4>2 DEF Attaches, Follows
        <5>2. ~Outstanding(u)' /\ ~Attaching(u)'
          BY <1>2, <5>1 DEF Outstanding, Attaching
        <5> QED BY <2>2, <2>6, <5>1, <5>2, ChannelQuiet
      <4> QED BY <4>1, <4>2
    <3>7. res'[u] # "ok"
      <4>1. res'[u] # "none" => attachment # None /\ res'[u] = res[attachment]
        BY <2>2, <2>6 DEF Attaches, Asks, Follows
      <4>2. attachment # None => attachment \in User /\ pc[attachment] = "waitAttach"
        BY DEF TypeOK, Promised
      <4> QED BY <2>6, <3>1, <4>1, <4>2 DEF Known, AttachSettled
    <3>8. KnowsStep(u)
      BY <2>6, <3>1, <3>2, <3>3, <3>4, <3>6, <3>7 DEF KnowsStep
    <3> QED BY <2>2, <2>6, <3>6, <3>8, KnownMoves
  <2> QED BY <2>5, <2>6
<1>5. CASE res[u] = "err"
  <2>1. GiveUp(u) /\ UNCHANGED <<cleanup, attachment, snap, req>>
    BY <1>5 DEF AfterReconcile
  <2>2. Moves(u)
    BY <1>1, <1>3, <2>1, ResumeMoves DEF Moves, GiveUp
  <2> QED BY <1>1, <1>2, <1>5, <2>1, <2>2, GiveUpLink
<1> QED BY <1>4, <1>5 DEF AfterReconcile

LEMMA AfterAttachLink ==
  ASSUME LinkInv, NEW u \in User, AfterAttach(u)
  PROVE  Joined' /\ (conn => Channel' /\ Known')
<1> USE DEF LinkInv, BooksInv
<1>1. /\ pc[u] = "waitAttach" /\ Ready(u) /\ req' = req
      /\ detachment' = detachment /\ cleanup' = cleanup /\ reconciliation' = reconciliation
      /\ UNCHANGED <<gen, attached, serves, wire, conn>>
      /\ attachment' = IF on[u] = u THEN None ELSE attachment
  BY DEF AfterAttach, link, server
<1>2. /\ detachment # u /\ reconciliation # u
      /\ on[u] = u => attachment = u
  BY <1>1, NoneAssumption DEF Promised, Joined
<1>3. leaseGen \in [User -> Nat]
  BY DEF TypeOK
<1>4. CASE res[u] = "ok"
  <2>1. Grant(u) /\ snap' = snap
    BY <1>4 DEF AfterAttach
  <2>2. Moves(u) /\ Rests(u) /\ pc'[u] = "held" /\ leaseGen'[u] = gen
    BY <1>1, <1>3, <2>1, ResumeMoves DEF Moves, Grant
  <2>3. Joined'
    BY <1>1, <1>2, <2>2, JoinedMoves
  <2>4. ASSUME conn PROVE Channel' /\ Known'
    <3>1. ~Outstanding(u)' /\ ~Attaching(u)' /\ Owns(u)' /\ Owns(u)
      BY <1>1, <2>2 DEF Outstanding, Attaching, Owns, CurrentLease, Busy, Waiting, Moves
    <3>2. Channel'
      BY <1>1, <2>2, <2>4, <3>1, ChannelQuiet
    <3>3. attached /\ ~cleanup /\ \A v \in User : pc[v] # "releasing"
      BY <1>1, <1>4, <2>4, <3>1 DEF Known, AttachSettled, CleanupAlone, ReleaseAlone
    <3>4. KnowsStep(u)
      BY <1>1, <1>2, <2>1, <2>2, <3>1, <3>3 DEF KnowsStep, Rests
    <3> QED BY <2>2, <2>4, <3>2, <3>4, KnownMoves
  <2> QED BY <2>3, <2>4
<1>5. CASE res[u] = "err"
  <2>1. GiveUp(u) /\ snap' = IF on[u] = u /\ snap = -1 THEN previous[u] ELSE snap
    BY <1>5 DEF AfterAttach
  <2>2. Moves(u)
    BY <1>1, <1>3, <2>1, ResumeMoves DEF Moves, GiveUp
  <2> QED BY <1>1, <1>2, <1>5, <2>1, <2>2, GiveUpLink
<1> QED BY <1>4, <1>5 DEF AfterAttach

LEMMA AfterReleaseLink ==
  ASSUME LinkInv, NEW u \in User, AfterRelease(u)
  PROVE  Joined' /\ (conn => Channel' /\ Known')
<1> USE DEF LinkInv, BooksInv
<1>1. /\ pc[u] = "releasing" /\ Ready(u) /\ req' = req /\ leaseGen' = leaseGen
      /\ attachment' = attachment /\ reconciliation' = reconciliation
      /\ UNCHANGED <<gen, attached, serves, wire, conn, snap>>
      /\ detachment' = IF detachment = u THEN None ELSE detachment
  BY DEF AfterRelease, link, server, state
<1>2. attachment # u /\ reconciliation # u /\ detachment = u /\ leaseGen \in [User -> Nat]
  BY <1>1, NoneAssumption DEF Promised, Joined, TypeOK
<1>3. \E p \in {"idle", "held"} : Resume(u, p)
  BY DEF AfterRelease
<1>4. Moves(u) /\ Rests(u) /\ pc'[u] \in {"idle", "held"} /\ leaseGen'[u] = leaseGen[u]
  BY <1>1, <1>2, <1>3, ResumeMoves DEF Moves
<1>5. Joined'
  BY <1>1, <1>2, <1>4, JoinedMoves
<1>6. ASSUME conn PROVE Channel' /\ Known'
  <2>1. CurrentLease(u) /\ Owns(u)
    BY <1>1, <1>6 DEF Online, CurrentLease, Owns
  <2>2. ~Outstanding(u)' /\ ~Attaching(u)'
    BY <1>4 DEF Outstanding, Attaching, Busy, Waiting
  <2>3. Channel'
    BY <1>1, <1>4, <1>6, <2>2, ChannelQuiet
  <2>4. ~serves /\ (res[u] = "err" => attached)
    BY <1>1, <1>6 DEF Known, SettledQuiet, ReleaseSettled, Ready, Busy, TypeOK
  <2>5. /\ \A v \in User : v # u /\ Owns(v) => pc[v] = "waitDetach"
        /\ \A v \in User : v # u => pc[v] # "releasing"
    BY <1>1, <1>2, <1>6 DEF Known, ReleaseAlone, Joined
  <2>6. ~cleanup
    BY <1>1, <1>6, <2>1 DEF Known, CleanupAlone
  <2>7. /\ pc'[u] = "held" => res[u] = "err"
        /\ cleanup' => pc'[u] = "idle"
    <3>1. CASE res[u] = "ok" /\ Resume(u, "idle") /\ UNCHANGED cleanup
      BY <2>6, <3>1, ResumeSteps
    <3>2. CASE res[u] = "err" /\ Resume(u, "idle")
      BY <3>2, ResumeSteps
    <3>3. CASE res[u] = "err" /\ Resume(u, "held") /\ UNCHANGED cleanup
      BY <2>6, <3>3, ResumeSteps
    <3> QED BY <3>1, <3>2, <3>3 DEF AfterRelease
  <2>8. Owns(u)' \/ Held(u)' => pc'[u] = "held"
    BY <1>4 DEF Owns, Held, Waiting
  <2>9. KnowsStep(u)
    BY <1>1, <1>2, <1>4, <2>2, <2>4, <2>5, <2>6, <2>7, <2>8 DEF KnowsStep, Rests, Busy, Waiting
  <2> QED BY <1>4, <1>6, <2>3, <2>9, KnownMoves
<1> QED BY <1>5, <1>6

LEMMA ReleaseLink ==
  ASSUME LinkInv, NEW u \in User, NEW q \in BOOLEAN, Release(u, q)
  PROVE  Joined' /\ (conn => Channel' /\ Known')
<1> USE DEF LinkInv, BooksInv
<1>1. /\ pc[u] = "held" /\ leaseGen' = leaseGen /\ cleanup' = cleanup /\ snap' = snap
      /\ attachment' = attachment /\ reconciliation' = reconciliation
      /\ UNCHANGED <<gen, attached, serves, wire, conn>>
  BY DEF Release, link, state
<1>2. /\ attachment # u /\ reconciliation # u /\ detachment # u /\ leaseGen \in [User -> Nat]
      /\ pc[u] \notin Busy /\ (CurrentLease(u) => Owns(u))
  BY <1>1, NoneAssumption DEF Promised, TypeOK, Busy, Waiting, Owns
<1>3. CASE Resume(u, "idle") /\ UNCHANGED <<detachment, req>> /\ (CurrentLease(u) => ~LastLease)
  <2>1. Rests(u) /\ Moves(u) /\ pc'[u] = "idle"
    BY <1>1, <1>2, <1>3, ResumeMoves DEF Moves
  <2>2. Joined'
    BY <1>1, <1>3, <2>1, JoinedMoves
  <2>3. ~Outstanding(u)' /\ ~Attaching(u)' /\ ~Owns(u)' /\ ~Held(u)'
    BY <2>1 DEF Outstanding, Attaching, Owns, Held, Busy, Waiting
  <2>4. ASSUME conn PROVE Channel' /\ Known'
    <3>1. Channel'
      BY <1>3, <2>1, <2>3, <2>4, ChannelQuiet
    <3>2. ~Owns(u) \/ \E v \in User : v # u /\ Owns(v)
      BY <1>1, <1>3, <2>4, SoleOwner DEF Owns, Waiting
    <3>3. KnowsStep(u)
      BY <1>1, <1>2, <2>1, <2>3, <3>2 DEF KnowsStep, Busy, Waiting
    <3> QED BY <2>1, <2>4, <3>1, <3>3, KnownMoves
  <2> QED BY <2>2, <2>4
<1>4. CASE /\ CurrentLease(u) /\ conn /\ attached /\ LastLease
           /\ Ask(u, "releasing", "detach") /\ detachment' = u
  <2>1. \A v \in User : v # u => ~Owns(v)
    BY <1>2, <1>4, SoleOwner
  <2>2. \A v \in User : v # u => pc[v] \notin Busy
    BY <1>4, <2>1 DEF Online, Owns, CurrentLease, Busy
  <2>3. /\ Asks(u, "detach") /\ Moves(u) /\ pc'[u] = "releasing"
    BY <1>1, <1>2, <1>4, AskMoves DEF Moves
  <2>4. detachment = None
    BY <1>2, <2>2 DEF Promised, TypeOK, Busy
  <2>5. Joined'
    BY <1>1, <1>4, <2>3, <2>4, JoinedMoves, NoneAssumption DEF Asks, Busy
  <2>6. \A v \in User : v # u => ~Outstanding(v) /\ pc[v] # "releasing"
    BY <2>2 DEF Outstanding, Busy
  <2>7. Channel'
    BY <1>4, <2>3, <2>6, ChannelAsks DEF Busy
  <2>8. ~cleanup
    BY <1>1, <1>2, <1>4 DEF Known, CleanupAlone
  <2>9. ~Attaching(u)' /\ ~Held(u)' /\ Owns(u)'
    BY <1>1, <1>4, <2>3 DEF Attaching, Held, Owns, CurrentLease
  <2>10. KnowsStep(u)
    BY <1>1, <1>2, <1>4, <2>1, <2>3, <2>6, <2>8, <2>9 DEF KnowsStep, Asks
  <2> QED BY <1>4, <2>3, <2>5, <2>7, <2>10, KnownMoves
<1> QED BY <1>3, <1>4 DEF Release

-----------------------------------------------------------------------------
(* The steps of the connection and of the server.                          *)

LEMMA OwnersOwn ==
  ASSUME TypeOK, Promised, Joined, NEW v \in User, on[v] # None
  PROVE  /\ on[v] \in User /\ on[on[v]] = on[v] /\ pc[on[v]] \in Busy
         /\ pc[v] = "waitAttach" <=> pc[on[v]] = "waitAttach"
         /\ pc[v] = "waitReconcile" <=> pc[on[v]] = "waitReconcile"
<1>1. pc[v] \in Busy /\ on[v] \in User
  BY DEF Joined, TypeOK
<1> QED BY <1>1, NoneAssumption DEF Joined, Promised, Busy, Waiting

LEMMA SettleJoined ==
  ASSUME TypeOK, Promised, Joined, UNCHANGED <<maps, pc, on>>,
         NEW o \in User, NEW r \in {"ok", "err"}, Settle(o, r)
  PROVE  Joined'
<1>1. ASSUME NEW v \in User, on[v] # None PROVE res'[v] = res'[on[v]]
  BY <1>1, OwnersOwn DEF Settle, Joined
<1>2. ASSUME NEW v \in User, on[v] = None PROVE res'[v] = res[v]
  BY <1>2, NoneAssumption DEF Settle
<1> QED BY <1>1, <1>2 DEF Joined, maps

(* When the request under way is answered, nothing is under way.           *)
LEMMA AnsweredChannel ==
  ASSUME TypeOK, Channel, wire # <<>>, wire' = Tail(wire), wire[1].kind # "event",
         UNCHANGED <<pc, on, req, serves>>, NEW r \in {"ok", "err"}, Settle(wire[1].to, r)
  PROVE  /\ Channel' /\ \A v \in User : ~Outstanding(v)'
         /\ \A i \in 1..Len(wire) : i # 1 => wire[i].kind = "event"
<1> DEFINE o == wire[1].to
<1>1. 1 \in 1..Len(wire) /\ o \in User /\ Outstanding(o) /\ req[o] = "none"
  <2>1. 1 \in 1..Len(wire)
    BY DEF TypeOK
  <2> QED BY <2>1, MessagesTo DEF Channel, RepliesMatch, Answers
<1>2. \A v \in User : v # o => ~Outstanding(v)
  BY <1>1 DEF Channel, OneRequest
<1>3. \A v \in User : ~Outstanding(v)'
  BY <1>1, <1>2 DEF Outstanding, Settle
<1>4. \A v \in User : req[v] = "none"
  BY <1>1, <1>2 DEF Channel, RequestsMatch
<1>5. \A i \in 1..Len(wire) : i # 1 => wire[i].kind = "event"
  BY <1>1 DEF Channel, RepliesMatch
<1>6. \A i \in 1..Len(wire') : i + 1 \in 1..Len(wire) /\ wire'[i] = wire[i + 1]
  BY DEF TypeOK
<1>7. RepliesMatch'
  BY <1>5, <1>6 DEF RepliesMatch
<1>8. OneRequest' /\ RequestsMatch'
  BY <1>3, <1>4 DEF OneRequest, RequestsMatch
<1> QED BY <1>3, <1>5, <1>7, <1>8 DEF Channel

(* A step that moves no user leaves their leases as they are.              *)
LEMMA SamePlaces ==
  ASSUME UNCHANGED <<pc, leaseGen, gen>>
  PROVE  \A u \in User : (Owns(u)' <=> Owns(u)) /\ (Held(u)' <=> Held(u))
  BY DEF Owns, Held, CurrentLease

(* An event can only tell the client more.                                 *)
LEMMA EventLink ==
  ASSUME LinkInv, conn, wire # <<>>, wire' = Tail(wire), wire[1].kind = "event",
         NEW r, ApplySnapshot(r, TRUE),
         UNCHANGED <<books, maps, users, conn, server>>
  PROVE  Joined' /\ Channel' /\ Known'
<1> USE DEF LinkInv, BooksInv
<1>1. UNCHANGED <<cleanup, gen, attachment, detachment, reconciliation, pc, leaseGen, on, res,
                  req, serves>>
  BY DEF books, maps, users, server
<1>2. \A i \in 1..Len(wire') : i + 1 \in 1..Len(wire) /\ wire'[i] = wire[i + 1]
  BY DEF TypeOK
<1>3. 1 \in 1..Len(wire) /\ Len(wire) = Len(wire') + 1
  BY DEF TypeOK
<1>4. Joined'
  BY <1>1 DEF Joined
<1>5. \A u : (Outstanding(u)' <=> Outstanding(u)) /\ (Attaching(u)' <=> Attaching(u))
  BY <1>1 DEF Outstanding, Attaching
<1>6. Channel'
  <2>1. OneRequest' /\ RequestsMatch'
    BY <1>1, <1>5 DEF Channel, OneRequest, RequestsMatch
  <2>2. \A i \in 1..Len(wire) : wire[i].kind # "event" =>
          /\ wire[i].kind = "detach" \/ ~wire[i].ok => i = Len(wire)
          /\ wire[i].kind = "attach" /\ ~wire[i].ok => i = 1
          /\ \A j \in 1..Len(wire) : wire[j].kind # "event" => i = j
    BY DEF Channel, RepliesMatch
  <2>3. ASSUME NEW i \in 1..Len(wire'), wire'[i].kind # "event"
        PROVE  /\ \A j \in 1..Len(wire') : wire'[j].kind # "event" => i = j
               /\ wire'[i].kind = "detach" \/ ~wire'[i].ok => i = Len(wire')
               /\ wire'[i].kind = "attach" /\ ~wire'[i].ok => i = 1
    <3>1. i + 1 \in 1..Len(wire) /\ wire'[i] = wire[i + 1] /\ i \in Nat /\ i >= 1
      BY <1>2
    <3>2. ASSUME NEW j \in 1..Len(wire'), wire'[j].kind # "event" PROVE i = j
      <4>1. j + 1 \in 1..Len(wire) /\ wire'[j] = wire[j + 1] /\ j \in Nat
        BY <1>2
      <4>2. i + 1 = j + 1
        BY <2>2, <2>3, <3>1, <3>2, <4>1
      <4> QED BY <3>1, <4>1, <4>2
    <3>3. ASSUME wire'[i].kind = "detach" \/ ~wire'[i].ok PROVE i = Len(wire')
      <4>1. i + 1 = Len(wire)
        BY <2>2, <2>3, <3>1, <3>3
      <4>2. Len(wire) = Len(wire') + 1 /\ Len(wire') \in Nat
        BY DEF TypeOK
      <4>3. \A n \in Nat : i + 1 = n + 1 => i = n
        BY <3>1
      <4> QED BY <4>1, <4>2, <4>3, Zenon
    <3>4. ASSUME wire'[i].kind = "attach" /\ ~wire'[i].ok PROVE FALSE
      <4>1. i + 1 = 1
        BY <2>2, <2>3, <3>1, <3>4
      <4> QED BY <3>1, <4>1
    <3> QED BY <3>2, <3>3, <3>4
  <2>4. \A i \in 1..Len(wire) : wire[i].kind # "event" => Answers(wire[i])
    BY DEF Channel, RepliesMatch
  <2>5. RepliesMatch'
    BY <1>1, <1>2, <2>3, <2>4 DEF RepliesMatch, Answers, Outstanding
  <2> QED BY <2>1, <2>5 DEF Channel
<1>7. attached => attached'
  BY DEF ApplySnapshot, TypeOK
<1>8. attached' \/ (snap' = snap /\ snap # -1 /\ ~attached)
  <2>1. CASE snap # -1 /\ r < snap
    BY <2>1 DEF ApplySnapshot, TypeOK
  <2>2. CASE ~(snap # -1 /\ r < snap)
    BY <2>2 DEF ApplySnapshot
  <2> QED BY <2>1, <2>2
<1>9. ServesKnown' /\ Unremembered'
  BY <1>3, <1>5, <1>7, <1>8 DEF Known, ServesKnown, Unremembered, NoEvents
<1>10. SettledQuiet' /\ AttachSettled' /\ ReconcileSettled' /\ ReleaseSettled'
  <2>1. \A u \in User : pc[u] \in Busy /\ res[u] # "none" => pc[u] = "waitAttach" /\ res[u] = "ok"
    BY DEF Known, SettledQuiet
  <2> QED BY <1>1, <1>7, <2>1
          DEF Known, SettledQuiet, AttachSettled, ReconcileSettled, ReleaseSettled, Busy, Waiting
<1>11. CleanupAlone' /\ CleanupOwned' /\ ReleaseAlone' /\ ServesOwned' /\ HeldAttached'
  BY <1>1, <1>7, SamePlaces
  DEF Known, CleanupAlone, CleanupOwned, ReleaseAlone, ServesOwned, HeldAttached
<1> QED BY <1>4, <1>6, <1>9, <1>10, <1>11 DEF Known

(* What everyone knew of the promises that are not settled now.            *)
LEMMA Settles ==
  ASSUME TypeOK, NEW o \in User, NEW r \in {"ok", "err"}, Settle(o, r)
  PROVE  \A v \in User :
           /\ res[v] # "none" \/ on[v] # o => res'[v] = res[v]
           /\ res[v] = "none" /\ on[v] = o => res'[v] = r
  BY DEF Settle, TypeOK

LEMMA ReplyLink ==
  ASSUME LinkInv, conn, Receive, wire[1].kind # "event"
  PROVE  Joined' /\ Channel' /\ Known'
<1> USE DEF LinkInv, BooksInv
<1> DEFINE m == wire[1]
           o == m.to
           r == IF m.ok THEN "ok" ELSE "err"
<1>1. /\ wire # <<>> /\ wire' = Tail(wire) /\ m = Head(wire)
      /\ UNCHANGED <<cleanup, gen, attachment, detachment, reconciliation, pc, leaseGen, on,
                     req, serves>>
      /\ UNCHANGED maps
  BY DEF Receive, books, maps, server, TypeOK
<1>2. 1 \in 1..Len(wire) /\ Len(wire) \in Nat
  BY <1>1 DEF TypeOK
<1>3. m.kind \in {"attach", "detach"} /\ o \in User /\ m.ok \in BOOLEAN
  BY <1>2, MessagesTo
<1>4. Settle(o, r)
  BY <1>1, <1>3 DEF Receive
<1>5. /\ Answers(m)
      /\ m.kind = "detach" \/ ~m.ok => wire' = <<>> /\ ~serves
  <2>1. Answers(m) /\ (m.kind = "detach" \/ ~m.ok => 1 = Len(wire))
    BY <1>2, <1>3 DEF Channel, RepliesMatch
  <2>2. 1 = Len(wire) => Tail(wire) = <<>>
    <3>1. wire \in Seq(Messages) BY DEF TypeOK
    <3> QED BY <1>1, <3>1, TailOfOne, Zenon
  <2> QED BY <1>1, <1>3, <2>1, <2>2 DEF Answers
<1>6. Joined'
  BY <1>1, <1>3, <1>4, SettleJoined
<1>7. /\ Channel' /\ \A v \in User : ~Outstanding(v)'
      /\ \A i \in 1..Len(wire) : i # 1 => wire[i].kind = "event"
  BY <1>1, <1>3, <1>4, AnsweredChannel
<1>8. \A v \in User : /\ res[v] # "none" \/ on[v] # o => res'[v] = res[v]
                      /\ res[v] = "none" /\ on[v] = o => res'[v] = r
  BY <1>3, <1>4, Settles
<1>9. CleanupAlone' /\ CleanupOwned' /\ ReleaseAlone' /\ ServesOwned'
  BY <1>1, <1>3, <1>8, SamePlaces, NoneAssumption
  DEF Known, CleanupAlone, CleanupOwned, ReleaseAlone, ServesOwned
<1>10. Unremembered' /\ ~\E v \in User : Attaching(v)'
  BY <1>7 DEF Unremembered, Attaching
<1>11. \A v \in User : pc[v] \in Busy /\ res[v] # "none" => pc[v] = "waitAttach" /\ res[v] = "ok"
  BY <1>1 DEF Known, SettledQuiet
<1>12. Outstanding(o) /\ o # None
  BY <1>3, <1>5, NoneAssumption DEF Answers
<1>13. CASE m.kind = "attach" /\ m.ok
  <2>1. ApplySnapshot(m.rev, m.attached) /\ m.attached /\ Attaching(o)
    BY <1>1, <1>5, <1>12, <1>13 DEF Receive, Answers, Attaching
  <2>2. attached'
    BY <1>3, <2>1 DEF ApplySnapshot, Known, Unremembered
  <2>3. ASSUME NEW v \in User, pc[v] \in Busy, res'[v] # "none"
        PROVE  pc[v] = "waitAttach" /\ res'[v] = "ok"
    <3>1. CASE res[v] # "none"
      BY <1>8, <1>11, <2>3, <3>1
    <3>2. CASE res[v] = "none"
      <4>1. on[v] = o /\ res'[v] = "ok"
        BY <1>8, <1>13, <2>3, <3>2
      <4> QED BY <1>12, <2>1, <4>1, OwnersOwn DEF Attaching
    <3> QED BY <3>1, <3>2
  <2>4. SettledQuiet' /\ AttachSettled' /\ ReconcileSettled' /\ ReleaseSettled'
    BY <1>1, <2>2, <2>3
    DEF SettledQuiet, AttachSettled, ReconcileSettled, ReleaseSettled, Busy, Waiting
  <2> QED BY <1>6, <1>7, <1>9, <1>10, <2>2, <2>4 DEF Known, ServesKnown, HeldAttached
<1>14. CASE m.kind = "detach" /\ m.ok
  <2>1. attached' = FALSE /\ wire' = <<>> /\ ~serves' /\ pc[o] # "waitAttach"
    BY <1>1, <1>5, <1>14 DEF Receive, Answers
  <2>2. pc[o] \in {"waitReconcile", "releasing"}
    BY <1>3, <1>12, <2>1, Owned
  <2>3. \A v \in User : Owns(v) => v = o \/ pc[v] \in {"waitDetach", "waitReconcile"}
    BY <1>3, <1>12, <2>2 DEF Known, CleanupOwned, CleanupAlone, ReleaseAlone, Outstanding
  <2>4. \A v \in User : ~Held(v) /\ pc[v] # "waitAttach"
    BY <2>2, <2>3 DEF Held, Owns, Waiting
  <2>5. \A v \in User : pc[v] = "releasing" => v = o
    BY <2>3 DEF Online, Owns, CurrentLease
  <2>6. res'[o] = "ok"
    BY <1>3, <1>8, <1>12, <1>14 DEF Outstanding
  <2>7. ServesKnown' /\ SettledQuiet' /\ AttachSettled' /\ ReconcileSettled' /\ ReleaseSettled'
    BY <1>1, <2>1, <2>4, <2>5, <2>6
    DEF ServesKnown, NoEvents, SettledQuiet, AttachSettled, ReconcileSettled, ReleaseSettled
  <2>8. HeldAttached'
    BY <1>1, <2>4, SamePlaces DEF HeldAttached
  <2> QED BY <1>6, <1>7, <1>9, <1>10, <2>7, <2>8 DEF Known
<1>15. CASE ~m.ok
  <2>1. attached' = attached /\ wire' = <<>> /\ ~serves'
    BY <1>1, <1>3, <1>5, <1>15 DEF Receive
  <2>2. \A v \in User : res'[v] = "ok" <=> res[v] = "ok"
    BY <1>8, <1>15
  <2>3. ServesKnown' /\ SettledQuiet'
    <3>1. NoEvents'
      BY <2>1 DEF NoEvents
    <3> QED BY <2>1, <3>1 DEF ServesKnown, SettledQuiet
  <2>5. AttachSettled' /\ ReconcileSettled' /\ ReleaseSettled'
    BY <1>1, <2>1, <2>2 DEF Known, AttachSettled, ReconcileSettled, ReleaseSettled
  <2>4. HeldAttached'
    BY <1>1, <2>1, SamePlaces DEF Known, HeldAttached
  <2> QED BY <1>6, <1>7, <1>9, <1>10, <2>3, <2>4, <2>5 DEF Known
<1> QED BY <1>3, <1>13, <1>14, <1>15

LEMMA ReceiveLink ==
  ASSUME LinkInv, Receive
  PROVE  Joined' /\ (conn' => Channel' /\ Known')
<1> USE DEF LinkInv, BooksInv
<1>1. conn /\ wire # <<>> /\ Head(wire) = wire[1]
  BY DEF Receive, Offline, Silent, TypeOK
<1>2. CASE wire[1].kind = "event"
  BY <1>1, <1>2, EventLink DEF Receive, users
<1>3. CASE wire[1].kind # "event"
  BY <1>1, <1>3, ReplyLink
<1> QED BY <1>2, <1>3

(* The connection is lost: who waits for the same has the same result.     *)
LEMMA DisconnectLink ==
  ASSUME LinkInv, Disconnect
  PROVE  Joined' /\ ~conn'
<1> USE DEF LinkInv, BooksInv
<1>1. /\ UNCHANGED <<attachment, detachment, reconciliation, pc, on>> /\ ~conn'
      /\ \A v \in User :
           res'[v] = IF pc[v] \in Busy /\ res[v] = "none" THEN "err" ELSE res[v]
  BY DEF Disconnect, maps, RejectPending, Busy
<1>2. \A v \in User : on[v] # None => on[v] \in User /\ pc[v] \in Busy /\ pc[on[v]] \in Busy
  BY OwnersOwn DEF Joined
<1>3. Joined'
  BY <1>1, <1>2 DEF Joined
<1> QED BY <1>1, <1>3

(* A new connection starts with nothing under way and nothing known.       *)
LEMMA ConnectedLink ==
  ASSUME LinkInv, Connected
  PROVE  Joined' /\ Channel' /\ Known'
<1> USE DEF LinkInv, BooksInv
<1>1. /\ ~conn /\ Drained /\ attached' = FALSE
      /\ UNCHANGED <<cleanup, gen, attachment, detachment, reconciliation, pc, leaseGen, on, res,
                     wire, req, serves>>
  BY DEF Connected, books, maps, state, users, server, Offline, Silent
<1>2. ~serves /\ wire = <<>> /\ \A u \in User : req[u] = "none"
  BY <1>1 DEF Offline, Silent
<1>3. \A u \in User : pc[u] \notin Busy
  BY <1>1 DEF Offline, Drained
<1>4. \A u \in User : ~Owns(u) /\ ~Held(u)
  BY <1>1, <1>3 DEF Offline, Owns, Held, CurrentLease, Busy
<1>5. Joined'
  BY <1>1 DEF Joined
<1>6. NoEvents'
  BY <1>1, <1>2 DEF NoEvents
<1>7. OneRequest' /\ RequestsMatch' /\ RepliesMatch'
  BY <1>1, <1>2, <1>3 DEF OneRequest, RequestsMatch, RepliesMatch, Outstanding
<1>8. ServesKnown' /\ Unremembered' /\ SettledQuiet' /\ AttachSettled' /\ ReconcileSettled' /\ ReleaseSettled'
  BY <1>1, <1>2, <1>3, <1>6
  DEF ServesKnown, Unremembered, SettledQuiet, AttachSettled, ReconcileSettled, ReleaseSettled,
      Attaching, Outstanding, Busy, Waiting
<1>9. CleanupAlone' /\ CleanupOwned' /\ ReleaseAlone' /\ ServesOwned' /\ HeldAttached'
  BY <1>1, <1>2, <1>3, <1>4, SamePlaces
  DEF CleanupAlone, CleanupOwned, ReleaseAlone, ServesOwned, HeldAttached, Busy, Waiting
<1> QED BY <1>5, <1>7, <1>8, <1>9 DEF Channel, Known

-----------------------------------------------------------------------------
LEMMA PairOf == ASSUME NEW a, NEW b PROVE <<a>> \o <<b>> = <<a, b>>
<1> DEFINE S == {a, b}
<1>1. <<a>> \o <<b>> \in Seq(S) /\ Len(<<a>> \o <<b>>) = 2
  OBVIOUS
<1>2. <<a, b>> \in Seq(S) /\ Len(<<a, b>>) = 2
  OBVIOUS
<1>3. \A i \in 1..2 : (<<a>> \o <<b>>)[i] = <<a, b>>[i]
  OBVIOUS
<1> HIDE DEF S
<1> QED BY <1>1, <1>2, <1>3, SeqEqual

(* What the server sends with an answer: an event may go before it.        *)
Brings(ms, m) == ms = <<m>> \/ \E e : e.kind = "event" /\ ms = <<e, m>>

(* What is appended to a wire on which there are events only.              *)
LEMMA AnsweredWire ==
  ASSUME NEW w \in Seq(Messages), \A i \in 1..Len(w) : w[i].kind = "event",
         NEW ms, NEW m, Brings(ms, m)
  PROVE  /\ Len(w \o ms) = Len(w) + Len(ms) /\ Len(w \o ms) \in Nat /\ Len(w \o ms) >= 1
         /\ (w \o ms)[Len(w \o ms)] = m
         /\ \A i \in 1..Len(w \o ms) : i # Len(w \o ms) => (w \o ms)[i].kind = "event"
<1>1. CASE ms = <<m>>
  BY <1>1
<1>2. CASE \E e : e.kind = "event" /\ ms = <<e, m>>
  <2>1. PICK e : e.kind = "event" /\ ms = <<e, m>>
    BY <1>2
  <2>2. Len(w \o ms) = Len(w) + 2 /\ Len(w) \in Nat
    BY <2>1
  <2>3. \A i \in 1..(Len(w) + 2) : (w \o ms)[i] = IF i <= Len(w) THEN w[i] ELSE ms[i - Len(w)]
    BY <2>1
  <2>4. ms[1] = e /\ ms[2] = m /\ Len(ms) = 2
    BY <2>1
  <2>5. (w \o ms)[Len(w) + 2] = m /\ (w \o ms)[Len(w) + 1] = e
    BY <2>2, <2>3, <2>4
  <2>6. ASSUME NEW i \in 1..(Len(w) + 2), i # Len(w) + 2 PROVE (w \o ms)[i].kind = "event"
    <3>1. CASE i <= Len(w)
      <4>1. i \in 1..Len(w) /\ (w \o ms)[i] = w[i]
        BY <2>2, <2>3, <3>1
      <4> QED BY <4>1
    <3>2. CASE ~(i <= Len(w))
      <4>1. i = Len(w) + 1
        BY <2>2, <2>6, <3>2
      <4> QED BY <2>1, <2>5, <4>1
    <3> QED BY <3>1, <3>2
  <2> QED BY <2>2, <2>4, <2>5, <2>6
<1> QED BY <1>1, <1>2 DEF Brings

(* The server answers the request of u, which is then all that is under    *)
(* way.                                                                    *)
LEMMA AnswerChannel ==
  ASSUME TypeOK, Channel, UNCHANGED <<pc, on, res>>, NEW u \in User, req[u] # "none",
         NEW m, NEW ms, Answer(u, ms),
         Brings(ms, m),
         m.kind # "event", m.to = u, m.kind = "attach" <=> pc[u] = "waitAttach",
         m.kind = "attach" /\ m.ok => m.attached,
         m.kind = "detach" \/ ~m.ok => ~serves',
         m.kind = "attach" /\ ~m.ok => wire = <<>> /\ ms = <<m>>
  PROVE  Channel'
<1>1. Outstanding(u) /\ \A v \in User : v # u => ~Outstanding(v) /\ req[v] = "none"
  BY DEF Channel, RequestsMatch, OneRequest
<1>2. \A i \in 1..Len(wire) : wire[i].kind = "event"
  BY MessagesTo, <1>1 DEF Channel, RepliesMatch, Answers
<1>3. wire' = wire \o ms /\ \A v \in User : req'[v] = "none"
  BY <1>1 DEF Answer, TypeOK
<1>4. /\ Len(wire') \in Nat /\ Len(wire') >= 1 /\ wire'[Len(wire')] = m
      /\ \A i \in 1..Len(wire') : i # Len(wire') => wire'[i].kind = "event"
  <2>1. wire \in Seq(Messages)
    BY DEF TypeOK
  <2>2. /\ Len(wire \o ms) \in Nat /\ Len(wire \o ms) >= 1 /\ (wire \o ms)[Len(wire \o ms)] = m
        /\ \A i \in 1..Len(wire \o ms) : i # Len(wire \o ms) => (wire \o ms)[i].kind = "event"
    BY <1>2, <2>1, AnsweredWire, Zenon
  <2> QED BY <1>3, <2>2
<1>5. ASSUME m.kind = "attach" /\ ~m.ok PROVE Len(wire') = 1
  <2>1. wire' = <<>> \o <<m>>
    BY <1>3, <1>5
  <2> QED BY <2>1
<1>6. OneRequest' /\ RequestsMatch'
  BY <1>1, <1>3 DEF Channel, OneRequest, RequestsMatch, Outstanding
<1>7. ASSUME NEW i \in 1..Len(wire'), wire'[i].kind # "event"
      PROVE  i = Len(wire') /\ wire'[i] = m
  BY <1>4, <1>7
<1>8. RepliesMatch'
  BY <1>1, <1>3, <1>5, <1>7 DEF RepliesMatch, Answers, Outstanding
<1> QED BY <1>6, <1>8 DEF Channel

(* A step of the server, while no continuation is left to run, keeps what  *)
(* the client knows if it serves only who asks for it.                     *)
LEMMA ServerKnown ==
  ASSUME LinkInv, conn, Drained, UNCHANGED <<books, maps, state, users>>,
         serves' => serves \/ \E u \in User : Attaching(u),
         (~serves /\ NoEvents) => NoEvents' \/ \E u \in User : Attaching(u)
  PROVE  Joined' /\ Known'
<1> USE DEF LinkInv, BooksInv
<1>1. /\ UNCHANGED <<cleanup, gen, attachment, detachment, reconciliation, pc, leaseGen, on, res,
                     attached, snap>>
      /\ \A u \in User : res[u] = "none"
  BY DEF books, maps, state, users, Drained
<1>2. \A u : Attaching(u)' <=> Attaching(u)
  BY <1>1 DEF Attaching, Outstanding
<1>3. Joined'
  BY <1>1 DEF Joined
<1>4. ServesKnown' /\ Unremembered'
  BY <1>1, <1>2 DEF Known, ServesKnown, Unremembered
<1>5. SettledQuiet' /\ AttachSettled' /\ ReconcileSettled' /\ ReleaseSettled'
  BY <1>1 DEF Known, SettledQuiet, AttachSettled, ReconcileSettled, ReleaseSettled
<1>6. \A u \in User : Attaching(u) => Owns(u)
  BY DEF Attaching, Owns, Waiting
<1>7. CleanupAlone' /\ CleanupOwned' /\ ReleaseAlone' /\ ServesOwned' /\ HeldAttached'
  BY <1>1, <1>6, SamePlaces
  DEF Known, CleanupAlone, CleanupOwned, ReleaseAlone, ServesOwned, HeldAttached
<1> QED BY <1>3, <1>4, <1>5, <1>7 DEF Known

LEMMA ServerLink ==
  ASSUME LinkInv, NEW u \in User, ServerStep(u)
  PROVE  Joined' /\ (conn' => Channel' /\ Known')
<1> USE DEF LinkInv, BooksInv
<1>1. /\ Drained /\ UNCHANGED <<books, maps, state, users, conn>>
      /\ UNCHANGED <<pc, on, res>> /\ req[u] # "none"
  BY DEF ServerStep, Apart, users,
         ServerAttach, ServerAttached, ServerRefuses, ServerDetach, ServerDetached
<1>2. conn /\ Channel /\ Known
  BY <1>1 DEF Offline, Silent
<1>3. /\ Outstanding(u) /\ \A v \in User : v # u => req[v] = "none"
      /\ req[u] \in {"attach", "attaching"} <=> pc[u] = "waitAttach"
      /\ req[u] = "attach" => ~serves /\ wire = <<>>
      /\ req[u] = "attaching" => serves
      /\ req[u] = "detaching" => ~serves
  BY <1>1, <1>2 DEF Channel, RequestsMatch, OneRequest
<1>4. \A v : Outstanding(v)' <=> Outstanding(v)
  BY <1>1 DEF Outstanding
<1>5. pc[u] = "waitAttach" => Attaching(u)
  BY <1>3 DEF Attaching
<1>6. ASSUME NEW m, m.kind # "event", wire' = wire \o <<m>>, NoEvents
      PROVE  NoEvents'
  <2>1. wire' = Append(wire, m)
    BY <1>6 DEF TypeOK
  <2>2. \A i \in 1..Len(wire') :
          (i \in 1..Len(wire) /\ wire'[i] = wire[i]) \/ wire'[i] = m
    BY <2>1 DEF TypeOK
  <2> QED BY <1>6, <2>2 DEF NoEvents
<1>7. CASE ServerAttach(u)
  <2>1. /\ req[u] = "attach" /\ req' = [req EXCEPT ![u] = "attaching"] /\ serves' = TRUE
        /\ wire' = wire
    BY <1>7 DEF ServerAttach
  <2>2. OneRequest' /\ RequestsMatch'
    BY <1>1, <1>2, <1>3, <1>4, <2>1 DEF Channel, OneRequest, RequestsMatch, TypeOK
  <2>3. RepliesMatch'
    <3>1. \A i \in 1..Len(wire') : FALSE
      BY <1>3, <2>1
    <3> QED BY <3>1 DEF RepliesMatch
  <2> QED BY <1>1, <1>2, <1>3, <1>5, <2>1, <2>2, <2>3, ServerKnown DEF Channel
<1>8. CASE ServerAttached(u)
  <2>1. /\ req[u] = "attaching" /\ serves' = serves /\ serves
        /\ Answer(u, <<Event>> \o <<AttachReply(u)>>)
    BY <1>3, <1>8 DEF ServerAttached
  <2>2. <<Event>> \o <<AttachReply(u)>> = <<Event, AttachReply(u)>>
    BY PairOf
  <2>3. Event.kind = "event"
    BY DEF Event
  <2>4. Brings(<<Event, AttachReply(u)>>, AttachReply(u))
    BY <2>3 DEF Brings
  <2>5. LET m == AttachReply(u) IN
          m.kind = "attach" /\ m.to = u /\ m.ok = TRUE /\ m.attached = serves
    BY DEF AttachReply
  <2>6. Channel'
    BY <1>1, <1>2, <1>3, <2>1, <2>2, <2>4, <2>5, AnswerChannel
  <2> QED BY <1>1, <1>2, <1>3, <1>5, <2>1, <2>6, ServerKnown
<1>9. CASE ServerRefuses(u)
  <2>1. /\ req[u] = "attach" /\ serves' = serves /\ Answer(u, <<Failure(u, "attach")>>)
    BY <1>9 DEF ServerRefuses
  <2>2. LET m == Failure(u, "attach") IN m.kind = "attach" /\ m.to = u /\ m.ok = FALSE
    BY DEF Failure
  <2>3. Brings(<<Failure(u, "attach")>>, Failure(u, "attach"))
    BY DEF Brings
  <2>4. Channel'
    BY <1>1, <1>2, <1>3, <2>1, <2>2, <2>3, AnswerChannel
  <2> QED BY <1>1, <1>2, <1>3, <1>5, <2>1, <2>4, ServerKnown
<1>10. CASE ServerDetach(u) /\ serves
  <2>1. /\ req[u] = "detach" /\ req' = [req EXCEPT ![u] = "detaching"] /\ serves' = FALSE
        /\ wire' = wire
    BY <1>10 DEF ServerDetach
  <2>2. OneRequest' /\ RequestsMatch'
    BY <1>1, <1>2, <1>3, <1>4, <2>1 DEF Channel, OneRequest, RequestsMatch, TypeOK
  <2>3. \A i \in 1..Len(wire) : wire[i].kind = "event"
    BY <1>1, <1>2, <1>3, MessagesTo DEF Channel, OneRequest, RepliesMatch, Answers
  <2>4. RepliesMatch'
    BY <2>1, <2>3 DEF RepliesMatch
  <2>5. Channel'
    BY <2>2, <2>4 DEF Channel
  <2> QED BY <1>1, <1>2, <1>10, <2>1, <2>5, ServerKnown
<1>11. CASE /\ serves' = FALSE /\ ~serves /\ pc[u] # "waitAttach"
            /\ Answer(u, <<DetachReply(u)>>) \/ Answer(u, <<Failure(u, "detach")>>)
  <2>1. PICK m \in {DetachReply(u), Failure(u, "detach")} : Answer(u, <<m>>)
    BY <1>11
  <2>2. m.kind = "detach" /\ m.to = u
    BY DEF DetachReply, Failure
  <2>3. Brings(<<m>>, m)
    BY DEF Brings
  <2>4. Channel'
    BY <1>1, <1>2, <1>11, <2>1, <2>2, <2>3, AnswerChannel
  <2>5. NoEvents => NoEvents'
    BY <1>6, <2>1, <2>2 DEF Answer
  <2> QED BY <1>1, <1>2, <1>11, <2>4, <2>5, ServerKnown
<1>12. CASE ServerDetach(u) /\ ~serves
  BY <1>3, <1>11, <1>12 DEF ServerDetach
<1>13. CASE ServerDetached(u)
  <2>1. req[u] = "detaching" /\ serves' = serves /\ serves = FALSE
    BY <1>3, <1>13 DEF ServerDetached, TypeOK
  <2>2. Answer(u, <<DetachReply(u)>>) \/ Answer(u, <<Failure(u, "detach")>>)
    BY <1>13 DEF ServerDetached
  <2> QED BY <1>3, <1>11, <2>1, <2>2
<1> QED BY <1>7, <1>8, <1>9, <1>10, <1>12, <1>13 DEF ServerStep

(* The runtime reports to whom it serves.                                  *)
LEMMA RuntimeLink ==
  ASSUME LinkInv, RuntimeStep
  PROVE  Joined' /\ (conn' => Channel' /\ Known')
<1> USE DEF LinkInv, BooksInv
<1>1. /\ Drained /\ UNCHANGED <<books, maps, state, users, conn>>
      /\ UNCHANGED <<attachment, detachment, reconciliation, pc, on, res, req, serves>>
  BY DEF RuntimeStep, RuntimeEvent, Reopen, Apart, users, maps
<1>2. Joined'
  BY <1>1 DEF Joined
<1>3. \A v : Outstanding(v)' <=> Outstanding(v)
  BY <1>1 DEF Outstanding
<1>4. \/ wire' = wire
      \/ serves /\ \E e : e.kind = "event" /\ wire' = Append(wire, e)
  BY DEF RuntimeStep, RuntimeEvent, Reopen, Event
<1>5. ASSUME conn PROVE Channel' /\ Known'
  <2>1. OneRequest'
    BY <1>3, <1>5 DEF Channel, OneRequest
  <2>2. CASE wire' = wire
    <3>1. RequestsMatch' /\ RepliesMatch'
      BY <1>1, <1>3, <1>5, <2>2 DEF Channel, RequestsMatch, RepliesMatch, Answers
    <3>2. NoEvents => NoEvents'
      BY <2>2 DEF NoEvents
    <3> QED BY <1>1, <1>5, <2>1, <3>1, <3>2, ServerKnown DEF Channel
  <2>3. CASE serves /\ \E e : e.kind = "event" /\ wire' = Append(wire, e)
    <3>1. PICK e : e.kind = "event" /\ wire' = Append(wire, e)
      BY <2>3
    <3>2. RequestsMatch'
      BY <1>1, <1>3, <1>5, <2>3 DEF Channel, RequestsMatch
    <3>3. \A i \in 1..Len(wire') :
            (i \in 1..Len(wire) /\ wire'[i] = wire[i]) \/ wire'[i] = e
      BY <3>1 DEF TypeOK
    <3>4. \A i \in 1..Len(wire) : wire[i].kind # "event" =>
            Answers(wire[i]) /\ wire[i].kind # "detach" /\ wire[i].ok
      BY <1>5, <2>3 DEF Channel, RepliesMatch, Answers
    <3>5. RepliesMatch'
      BY <1>1, <1>3, <1>5, <3>1, <3>3, <3>4 DEF Channel, RepliesMatch, Answers
    <3> QED BY <1>1, <1>5, <2>1, <2>3, <3>2, <3>5, ServerKnown DEF Channel
  <2> QED BY <1>4, <2>2, <2>3
<1> QED BY <1>1, <1>2, <1>5

LEMMA StutterLink ==
  ASSUME LinkInv, UNCHANGED vars
  PROVE  Joined' /\ (conn' => Channel' /\ Known')
<1> USE DEF LinkInv, BooksInv
<1>1. /\ UNCHANGED <<cleanup, gen, attachment, detachment, reconciliation, pc, leaseGen, on, res,
                     attached, snap, conn, wire, req, serves>>
  BY DEF vars, books, maps, state, users, link, server
<1>2. Joined'
  BY <1>1 DEF Joined
<1>3. \A v : (Outstanding(v)' <=> Outstanding(v)) /\ (Attaching(v)' <=> Attaching(v))
  BY <1>1 DEF Outstanding, Attaching
<1>4. ASSUME conn PROVE Channel' /\ Known'
  <2>1. OneRequest' /\ RequestsMatch'
    BY <1>1, <1>3, <1>4 DEF Channel, OneRequest, RequestsMatch
  <2>2. RepliesMatch'
    BY <1>1, <1>3, <1>4 DEF Channel, RepliesMatch, Answers
  <2>3. ServesKnown' /\ Unremembered'
    BY <1>1, <1>3, <1>4 DEF Known, ServesKnown, Unremembered, NoEvents
  <2>4. SettledQuiet' /\ AttachSettled' /\ ReconcileSettled' /\ ReleaseSettled'
    BY <1>1, <1>4 DEF Known, SettledQuiet, AttachSettled, ReconcileSettled, ReleaseSettled
  <2>5. CleanupAlone' /\ CleanupOwned' /\ ReleaseAlone' /\ ServesOwned' /\ HeldAttached'
    BY <1>1, <1>4, SamePlaces
    DEF Known, CleanupAlone, CleanupOwned, ReleaseAlone, ServesOwned, HeldAttached
  <2> QED BY <2>1, <2>2, <2>3, <2>4, <2>5 DEF Channel, Known
<1> QED BY <1>1, <1>2, <1>4

-----------------------------------------------------------------------------
LEMMA NextLink == LinkInv /\ [Next]_vars /\ ~strayed' => LinkInv'
<1> SUFFICES ASSUME LinkInv, [Next]_vars, ~strayed' PROVE LinkInv'
  OBVIOUS
<1>1. BooksInv'
  BY NextBooks DEF LinkInv
<1> SUFFICES Joined' /\ (conn' => Channel' /\ Known')
  BY <1>1 DEF LinkInv
<1>2. CASE \E u \in User, m \in {"shared", "exclusive"} : Acquire(u, m)
  <2>1. PICK u \in User, m \in {"shared", "exclusive"} : Acquire(u, m)
    BY <1>2
  <2>2. conn' = conn
    BY <2>1 DEF Acquire, link
  <2> QED BY <2>1, <2>2, AcquireLink
<1>3. CASE \E u \in User, q \in BOOLEAN : Release(u, q)
  <2>1. PICK u \in User, q \in BOOLEAN : Release(u, q)
    BY <1>3
  <2>2. conn' = conn
    BY <2>1 DEF Release, link
  <2> QED BY <2>1, <2>2, ReleaseLink
<1>4. CASE \E u \in User : Continue(u)
  <2>1. PICK u \in User : Continue(u)
    BY <1>4
  <2>2. conn' = conn
    BY <2>1 DEF Continue, AfterDetachment, AfterReconcile, AfterAttach, AfterRelease, link
  <2> QED BY <2>1, <2>2, AfterDetachmentLink, AfterReconcileLink, AfterAttachLink, AfterReleaseLink
          DEF Continue
<1>5. CASE Receive
  BY <1>5, ReceiveLink
<1>6. CASE Disconnect
  BY <1>6, DisconnectLink
<1>7. CASE Connect
  <2>1. ~conn' /\ UNCHANGED <<attachment, detachment, reconciliation, pc, on, res>>
    BY <1>7 DEF Connect, maps, users
  <2> QED BY <2>1 DEF LinkInv, Joined
<1>11. CASE Connected
  BY <1>11, ConnectedLink
<1>8. CASE \E u \in User : ServerStep(u)
  BY <1>8, ServerLink
<1>9. CASE RuntimeStep
  BY <1>9, RuntimeLink
<1>10. CASE UNCHANGED vars
  BY <1>10, StutterLink
<1> QED BY <1>2, <1>3, <1>4, <1>5, <1>6, <1>7, <1>8, <1>9, <1>10, <1>11 DEF Next

LEMMA InitLink == Init => LinkInv
<1> SUFFICES ASSUME Init PROVE LinkInv
  OBVIOUS
<1>1. \A u \in User : /\ pc[u] = "idle" /\ on[u] = None /\ res[u] = "none" /\ req[u] = "none"
                      /\ ~Owns(u) /\ ~Held(u)
  BY DEF Init, Owns, Held, Waiting
<1>2. ~serves /\ wire = <<>>
  BY DEF Init
<1>3. Joined
  BY <1>1 DEF Joined, Busy, Waiting
<1>4. NoEvents
  BY <1>2 DEF NoEvents
<1>5. Channel
  BY <1>1, <1>2 DEF Channel, OneRequest, RequestsMatch, RepliesMatch, Outstanding, Busy, Waiting
<1>6. Known
  BY <1>1, <1>2, <1>4
  DEF Known, ServesKnown, Unremembered, SettledQuiet, AttachSettled, ReconcileSettled,
      ReleaseSettled, CleanupAlone, CleanupOwned, ReleaseAlone, ServesOwned, HeldAttached,
      Busy, Waiting, Attaching
<1> QED BY <1>3, <1>5, <1>6, InitBooks DEF LinkInv

LEMMA LinkInvariant == Spec => [](~strayed => LinkInv)
<1>1. Init => (~strayed => LinkInv)
  BY InitLink
<1>2. (~strayed => LinkInv) /\ [Next]_vars => (~strayed => LinkInv)'
  BY NextLink, StrayStays
<1> QED BY <1>1, <1>2, PTL DEF Spec

(* Who holds a lease has a session that the client knows to be attached,   *)
(* for any number of users and whatever the server refuses, the runtime    *)
(* reports or the connection loses, until a lease is granted while there   *)
(* is no connection.                                                       *)
THEOREM LeasesAreAttached == Spec => []LeaseIsAttached
<1>1. (~strayed => LinkInv) => LeaseIsAttached
  BY DEF LinkInv, Known, HeldAttached, LeaseIsAttached
<1> QED BY LinkInvariant, <1>1, PTL

(* When the last lease is gone and nothing is under way, the server no     *)
(* longer serves the connection: no runtime is kept alive for nobody, as   *)
(* long as no lease is granted while there is no connection.               *)
THEOREM NothingIsLeaked == Spec => []NothingLeaks
<1>1. (~strayed => LinkInv) => NothingLeaks
  BY DEF LinkInv, Known, ServesOwned, NothingLeaks
<1> QED BY LinkInvariant, <1>1, PTL
-----------------------------------------------------------------------------
(* The snapshots of the server.                                            *)

Casting == {"models", "list", "send"}

\* Where a connection can be, and in which order the revisions are.
StageShape ==
  \A c \in Connection :
    /\ stage[c] \in {"none", "awaitingHello"} => step[c] = "none"
    /\ stage[c] = "handshaking" => step[c] \in {"list", "models", "hello", "returned"}
    /\ stage[c] = "ready" => step[c] \in Caught
SeenShape ==
  \A c \in Connection :
    /\ draft[c].rev \leq revision /\ seen[c].rev \leq revision
    /\ stage[c] = "handshaking" /\ step[c] = "hello" => seen[c] = draft[c]
CastShape ==
  /\ cast.step = "idle" => cast.to = {}
  /\ cast.step # "idle" => cast.rev = revision
  /\ \A c \in cast.to : stage[c] \in {"ready", "closing", "closed"} /\ draft[c].rev < revision
Shape == StageShape /\ SeenShape /\ CastShape

Calm == closing = "open" /\ owed = 0 /\ queued = 0

\* The newer one of what a client shows and what is on its way to it is current.
Current(c) ==
  IF step[c] = "done" \/ draft[c].rev < seen[c].rev THEN seen[c].ver = content
  ELSE step[c] = "relist" \/ draft[c].ver = content

CastCurrent == cast.step = "send" => cast.ver = content
DraftsCurrent ==
  \A c \in Connection :
    HasRead(c) /\ draft[c].rev = revision /\ c \notin missed
      => draft[c].ver = content
ClientsCurrent ==
  \A c \in Connection :
    stage[c] = "ready" /\ open[c] /\ c \notin missed =>
      (cast.step = "idle" /\ lost) \/ c \in cast.to \/ Current(c)
CalmCurrent == Calm => CastCurrent /\ DraftsCurrent /\ ClientsCurrent

SnapshotsInv == Shape /\ CalmCurrent

ConnectionStep(c) ==
  \/ Accept(c) \/ Hello(c) \/ BadMessage(c) \/ TransportCloses(c)
  \/ HandshakeStep(c) \/ ReadFails(c) \/ HandshakeTimeout(c) \/ Disconnects(c)

-----------------------------------------------------------------------------
(* Types.                                                                  *)

LEMMA SnapshotsInitType == SnapshotsInit => SnapshotsTypeOK
<1> SUFFICES ASSUME SnapshotsInit PROVE SnapshotsTypeOK OBVIOUS
<1> USE DEF SnapshotsInit, Stage, Step, Caught, Snapshot
<1>1. stage \in [Connection -> Stage] /\ step \in [Connection -> Step] OBVIOUS
<1>2. open \in [Connection -> BOOLEAN] OBVIOUS
<1>3. draft \in [Connection -> Snapshot] /\ seen \in [Connection -> Snapshot] OBVIOUS
<1>4. cast \in [step : {"idle", "models", "list", "send"}, rev : Nat, ver : Nat,
                to : SUBSET Connection]
  BY DEF Idle
<1> QED BY <1>1, <1>2, <1>3, <1>4 DEF SnapshotsTypeOK

LEMMA HandshakeTypes ==
  ASSUME SnapshotsTypeOK, NEW c \in Connection,
         Accept(c) \/ Hello(c) \/ HandshakeStep(c)
  PROVE  SnapshotsTypeOK'
<1> USE DEF SnapshotsTypeOK, Stage, Step, Caught, Snapshot, castVars
<1>1. CASE Accept(c) BY <1>1 DEF Accept
<1>2. CASE Hello(c)
  <2>1. draft' \in [Connection -> Snapshot] BY <1>2 DEF Hello, Reading
  <2>2. stage' \in [Connection -> Stage] BY <1>2 DEF Hello
  <2>3. step' \in [Connection -> Step] BY <1>2 DEF Hello
  <2> QED BY <1>2, <2>1, <2>2, <2>3 DEF Hello
<1>3. CASE Read(c)
  <2>1. draft' \in [Connection -> Snapshot] BY <1>3 DEF Read
  <2>2. step' \in [Connection -> Step] BY <1>3 DEF Read
  <2> QED BY <1>3, <2>1, <2>2 DEF Read
<1>4. CASE SendHello(c) BY <1>4, SMTT(30) DEF SendHello
<1>5. CASE HelloSent(c)
  <2>1. draft' \in [Connection -> Snapshot] BY <1>5, SMTT(30) DEF HelloSent, Reading
  <2>2. stage' \in [Connection -> Stage] /\ step' \in [Connection -> Step]
    BY <1>5 DEF HelloSent
  <2> QED BY <1>5, <2>1, <2>2 DEF HelloSent
<1>6. CASE CatchUp(c)
  <2>1. seen' \in [Connection -> Snapshot] BY <1>6 DEF CatchUp, Applied
  <2>2. step' \in [Connection -> Step] BY <1>6 DEF CatchUp
  <2> QED BY <1>6, <2>1, <2>2 DEF CatchUp
<1> QED BY <1>1, <1>2, <1>3, <1>4, <1>5, <1>6 DEF HandshakeStep

LEMMA FailureTypes ==
  ASSUME SnapshotsTypeOK, NEW c \in Connection,
         BadMessage(c) \/ TransportCloses(c) \/ ReadFails(c) \/ HandshakeTimeout(c) \/ Disconnects(c)
  PROVE  SnapshotsTypeOK'
<1> USE DEF SnapshotsTypeOK, Stage, Step, Caught, Snapshot, castVars
<1>1. CASE BadMessage(c) BY <1>1 DEF BadMessage, Fail
<1>2. CASE TransportCloses(c) BY <1>2 DEF TransportCloses
<1>3. CASE ReadFails(c) BY <1>3 DEF ReadFails, Fail
<1>4. CASE HandshakeTimeout(c) BY <1>4 DEF HandshakeTimeout, Fail
<1>5. CASE Disconnects(c) BY <1>5 DEF Disconnects
<1> QED BY <1>1, <1>2, <1>3, <1>4, <1>5

LEMMA ServerTypes ==
  ASSUME SnapshotsTypeOK,
         Change \/ Announce \/ StartBroadcast \/ CastStep \/ CastFails \/ Close \/ CloseConnections
  PROVE  SnapshotsTypeOK'
<1> USE DEF SnapshotsTypeOK, Stage, Step, Caught, Snapshot, connectionVars, castVars, Idle
<1>1. CASE Change BY <1>1 DEF Change
<1>2. CASE Announce BY <1>2 DEF Announce
<1>3. CASE StartBroadcast BY <1>3 DEF StartBroadcast, IsReady
<1>4. CASE CastModels BY <1>4 DEF CastModels
<1>5. CASE CastSessions BY <1>5 DEF CastSessions
<1>6. ASSUME NEW c \in Connection, CastSend(c) PROVE SnapshotsTypeOK'
  BY <1>6 DEF CastSend, Applied
<1>7. CASE CastFails BY <1>7 DEF CastFails, AfterFailure
<1>8. CASE Close BY <1>8 DEF Close
<1>9. CASE CloseConnections BY <1>9 DEF CloseConnections
<1> QED BY <1>1, <1>2, <1>3, <1>4, <1>5, <1>6, <1>7, <1>8, <1>9 DEF CastStep

LEMMA SnapshotsNextType == SnapshotsTypeOK /\ [SnapshotsNext]_snapshotsVars => SnapshotsTypeOK'
<1> SUFFICES ASSUME SnapshotsTypeOK, [SnapshotsNext]_snapshotsVars PROVE SnapshotsTypeOK' OBVIOUS
<1>1. CASE UNCHANGED snapshotsVars BY <1>1 DEF snapshotsVars, connectionVars, castVars, SnapshotsTypeOK
<1>2. CASE SnapshotsNext BY <1>2, HandshakeTypes, FailureTypes, ServerTypes DEF SnapshotsNext
<1> QED BY <1>1, <1>2

\* Every variable of the server and of its clients keeps its type.
THEOREM SnapshotsTypeCorrect == SnapshotsSpec => []SnapshotsTypeOK
BY SnapshotsInitType, SnapshotsNextType, PTL DEF SnapshotsSpec

-----------------------------------------------------------------------------
(* The shape of the state.                                                 *)

LEMMA ConnectionShape ==
  ASSUME SnapshotsTypeOK, Shape, NEW c \in Connection, ConnectionStep(c)
  PROVE  Shape'
<1> USE DEF SnapshotsTypeOK, Shape, Caught, Snapshot, castVars, Terminal
<1>1. CASE Accept(c)
  <2>1. StageShape' BY <1>1 DEF Accept, StageShape
  <2>2. SeenShape' BY <1>1 DEF Accept, StageShape, SeenShape
  <2>3. CastShape' BY <1>1 DEF Accept, StageShape, SeenShape, CastShape
  <2> QED BY <2>1, <2>2, <2>3
<1>2. CASE Hello(c)
  <2>1. StageShape' BY <1>2 DEF Hello, Reading, StageShape
  <2>2. SeenShape' BY <1>2 DEF Hello, Reading, StageShape, SeenShape
  <2>3. CastShape' BY <1>2 DEF Hello, Reading, StageShape, SeenShape, CastShape
  <2> QED BY <2>1, <2>2, <2>3
<1>3. CASE Read(c)
  <2>1. StageShape' BY <1>3 DEF Read, StageShape
  <2>2. SeenShape' BY <1>3 DEF Read, StageShape, SeenShape
  <2>3. CastShape' BY <1>3 DEF Read, StageShape, SeenShape, CastShape
  <2> QED BY <2>1, <2>2, <2>3
<1>4. CASE SendHello(c)
  <2>1. StageShape' BY <1>4 DEF SendHello, StageShape
  <2>2. SeenShape' BY <1>4 DEF SendHello, StageShape, SeenShape
  <2>3. CastShape' BY <1>4 DEF SendHello, StageShape, SeenShape, CastShape
  <2> QED BY <2>1, <2>2, <2>3
<1>5. CASE HelloSent(c)
  <2>1. StageShape' BY <1>5 DEF HelloSent, Reading, StageShape
  <2>2. SeenShape' BY <1>5 DEF HelloSent, Reading, StageShape, SeenShape
  <2>3. CastShape' BY <1>5 DEF HelloSent, Reading, StageShape, SeenShape, CastShape
  <2> QED BY <2>1, <2>2, <2>3
<1>6. CASE CatchUp(c)
  <2>1. StageShape' BY <1>6 DEF CatchUp, Applied, StageShape
  <2>2. SeenShape' BY <1>6 DEF CatchUp, Applied, StageShape, SeenShape
  <2>3. CastShape' BY <1>6 DEF CatchUp, Applied, StageShape, SeenShape, CastShape
  <2> QED BY <2>1, <2>2, <2>3
<1>7. CASE BadMessage(c)
  <2>1. StageShape' BY <1>7 DEF BadMessage, Fail, StageShape
  <2>2. SeenShape' BY <1>7 DEF BadMessage, Fail, StageShape, SeenShape
  <2>3. CastShape' BY <1>7 DEF BadMessage, Fail, StageShape, SeenShape, CastShape
  <2> QED BY <2>1, <2>2, <2>3
<1>8. CASE TransportCloses(c)
  <2>1. StageShape' BY <1>8 DEF TransportCloses, StageShape
  <2>2. SeenShape' BY <1>8 DEF TransportCloses, StageShape, SeenShape
  <2>3. CastShape' BY <1>8 DEF TransportCloses, StageShape, SeenShape, CastShape
  <2> QED BY <2>1, <2>2, <2>3
<1>9. CASE ReadFails(c)
  <2>1. StageShape' BY <1>9 DEF ReadFails, Fail, StageShape
  <2>2. SeenShape' BY <1>9 DEF ReadFails, Fail, StageShape, SeenShape
  <2>3. CastShape' BY <1>9 DEF ReadFails, Fail, StageShape, SeenShape, CastShape
  <2> QED BY <2>1, <2>2, <2>3
<1>10. CASE HandshakeTimeout(c)
  <2>1. StageShape' BY <1>10 DEF HandshakeTimeout, Timed, Fail, StageShape
  <2>2. SeenShape' BY <1>10 DEF HandshakeTimeout, Timed, Fail, StageShape, SeenShape
  <2>3. CastShape' BY <1>10 DEF HandshakeTimeout, Timed, Fail, StageShape, SeenShape, CastShape
  <2> QED BY <2>1, <2>2, <2>3
<1>11. CASE Disconnects(c)
  <2>1. StageShape' BY <1>11 DEF Disconnects, StageShape
  <2>2. SeenShape' BY <1>11 DEF Disconnects, StageShape, SeenShape
  <2>3. CastShape' BY <1>11 DEF Disconnects, StageShape, SeenShape, CastShape
  <2> QED BY <2>1, <2>2, <2>3
<1> QED
  BY <1>1, <1>2, <1>3, <1>4, <1>5, <1>6, <1>7, <1>8, <1>9, <1>10, <1>11 DEF ConnectionStep, HandshakeStep

LEMMA ServerShape ==
  ASSUME SnapshotsTypeOK, Shape,
         Change \/ Announce \/ StartBroadcast \/ CastStep \/ CastFails \/ Close \/ CloseConnections
  PROVE  Shape'
<1> USE DEF SnapshotsTypeOK, Shape, Caught, Snapshot, connectionVars, castVars, Terminal, Idle
<1>1. CASE Change
  <2>1. StageShape' BY <1>1 DEF Change, StageShape
  <2>2. SeenShape' BY <1>1 DEF Change, SeenShape
  <2>3. CastShape' BY <1>1 DEF Change, SeenShape, CastShape
  <2> QED BY <2>1, <2>2, <2>3
<1>2. CASE Announce
  <2>1. StageShape' BY <1>2 DEF Announce, StageShape
  <2>2. SeenShape' BY <1>2 DEF Announce, SeenShape
  <2>3. CastShape' BY <1>2 DEF Announce, SeenShape, CastShape
  <2> QED BY <2>1, <2>2, <2>3
<1>3. CASE StartBroadcast
  <2>1. StageShape' BY <1>3 DEF StartBroadcast, IsReady, StageShape
  <2>2. SeenShape' BY <1>3 DEF StartBroadcast, IsReady, SeenShape
  <2>3. CastShape' BY <1>3 DEF StartBroadcast, IsReady, SeenShape, CastShape
  <2> QED BY <2>1, <2>2, <2>3
<1>4. CASE CastModels
  <2>1. StageShape' BY <1>4 DEF CastModels, StageShape
  <2>2. SeenShape' BY <1>4 DEF CastModels, SeenShape
  <2>3. CastShape' BY <1>4 DEF CastModels, SeenShape, CastShape
  <2> QED BY <2>1, <2>2, <2>3
<1>5. CASE CastSessions
  <2>1. StageShape' BY <1>5 DEF CastSessions, StageShape
  <2>2. SeenShape' BY <1>5 DEF CastSessions, SeenShape
  <2>3. CastShape' BY <1>5 DEF CastSessions, SeenShape, CastShape
  <2> QED BY <2>1, <2>2, <2>3
<1>6. CASE CastFails
  <2>1. StageShape' BY <1>6 DEF CastFails, AfterFailure, StageShape
  <2>2. SeenShape' BY <1>6 DEF CastFails, AfterFailure, SeenShape
  <2>3. CastShape' BY <1>6 DEF CastFails, AfterFailure, SeenShape, CastShape
  <2> QED BY <2>1, <2>2, <2>3
<1>7. CASE Close
  <2>1. StageShape' BY <1>7 DEF Close, StageShape
  <2>2. SeenShape' BY <1>7 DEF Close, SeenShape
  <2>3. CastShape' BY <1>7 DEF Close, SeenShape, CastShape
  <2> QED BY <2>1, <2>2, <2>3
<1>8. CASE CloseConnections
  <2>1. StageShape' BY <1>8 DEF CloseConnections, StageShape
  <2>2. SeenShape' BY <1>8 DEF CloseConnections, SeenShape
  <2>3. CastShape' BY <1>8 DEF CloseConnections, SeenShape, CastShape
  <2> QED BY <2>1, <2>2, <2>3
<1>9. ASSUME NEW c \in Connection, CastSend(c) PROVE Shape'
  <2>1. StageShape' BY <1>9 DEF CastSend, StageShape
  <2>2. SeenShape' BY <1>9 DEF CastSend, Applied, SeenShape, CastShape
  <2>3. CastShape' BY <1>9 DEF CastSend, CastShape
  <2> QED BY <2>1, <2>2, <2>3
<1> QED BY <1>1, <1>2, <1>3, <1>4, <1>5, <1>6, <1>7, <1>8, <1>9 DEF CastStep

-----------------------------------------------------------------------------
(* What is shown when nothing is owed.                                     *)

LEMMA ConnectionCalm ==
  ASSUME SnapshotsTypeOK, SnapshotsInv, NEW c \in Connection, ConnectionStep(c), Calm'
  PROVE  CastCurrent' /\ DraftsCurrent' /\ ClientsCurrent'
<1> USE DEF SnapshotsTypeOK, Caught, Snapshot, castVars, Terminal, HasRead
<1>1. Calm /\ Shape
  BY DEF Calm, SnapshotsInv, ConnectionStep, HandshakeStep, Accept, Hello, Read, SendHello, HelloSent, CatchUp,
         BadMessage, TransportCloses, ReadFails, HandshakeTimeout, Disconnects, Fail
<1>2. CastCurrent /\ DraftsCurrent /\ ClientsCurrent BY <1>1 DEF SnapshotsInv, CalmCurrent
<1>3. cast' = cast /\ content' = content /\ lost' = lost /\ revision' = revision
  BY DEF ConnectionStep, HandshakeStep, Accept, Hello, Read, SendHello, HelloSent, CatchUp,
         BadMessage, TransportCloses, ReadFails, HandshakeTimeout, Disconnects, Fail
<1>4. CastCurrent' BY <1>2, <1>3 DEF CastCurrent
<1>5. CASE Accept(c)
  <2>1. DraftsCurrent' BY <1>1, <1>2, <1>3, <1>5 DEF Accept, DraftsCurrent
  <2>2. ClientsCurrent' BY <1>1, <1>2, <1>3, <1>5 DEF Accept, ClientsCurrent, DraftsCurrent, Current, Shape, StageShape, SeenShape
  <2> QED BY <1>4, <2>1, <2>2
<1>6. CASE Hello(c)
  <2>1. DraftsCurrent' BY <1>1, <1>2, <1>3, <1>6 DEF Hello, Reading, DraftsCurrent
  <2>2. ClientsCurrent' BY <1>1, <1>2, <1>3, <1>6 DEF Hello, Reading, ClientsCurrent, DraftsCurrent, Current, Shape, StageShape, SeenShape
  <2> QED BY <1>4, <2>1, <2>2
<1>7. CASE Read(c)
  <2>1. DraftsCurrent' BY <1>1, <1>2, <1>3, <1>7 DEF Read, DraftsCurrent
  <2>2. ClientsCurrent' BY <1>1, <1>2, <1>3, <1>7 DEF Read, ClientsCurrent, DraftsCurrent, Current, Shape, StageShape, SeenShape
  <2> QED BY <1>4, <2>1, <2>2
<1>8. CASE SendHello(c)
  <2>1. DraftsCurrent' BY <1>1, <1>2, <1>3, <1>8 DEF SendHello, DraftsCurrent
  <2>2. ClientsCurrent' BY <1>1, <1>2, <1>3, <1>8 DEF SendHello, ClientsCurrent, DraftsCurrent, Current, Shape, StageShape, SeenShape
  <2> QED BY <1>4, <2>1, <2>2
<1>9. CASE HelloSent(c)
  <2>1. DraftsCurrent' BY <1>1, <1>2, <1>3, <1>9 DEF HelloSent, Reading, IsLate, DraftsCurrent
  <2>2. ClientsCurrent' BY <1>1, <1>2, <1>3, <1>9 DEF HelloSent, Reading, IsLate, ClientsCurrent, DraftsCurrent, Current, Shape, StageShape, SeenShape
  <2> QED BY <1>4, <2>1, <2>2
<1>10. CASE CatchUp(c)
  <2>1. DraftsCurrent' BY <1>1, <1>2, <1>3, <1>10 DEF CatchUp, Applied, DraftsCurrent
  <2>2. ClientsCurrent' BY <1>1, <1>2, <1>3, <1>10 DEF CatchUp, Applied, ClientsCurrent, DraftsCurrent, Current, Shape, StageShape, SeenShape
  <2> QED BY <1>4, <2>1, <2>2
<1>11. CASE BadMessage(c)
  <2>1. DraftsCurrent' BY <1>1, <1>2, <1>3, <1>11 DEF BadMessage, Fail, DraftsCurrent
  <2>2. ClientsCurrent' BY <1>1, <1>2, <1>3, <1>11 DEF BadMessage, Fail, ClientsCurrent, DraftsCurrent, Current, Shape, StageShape, SeenShape
  <2> QED BY <1>4, <2>1, <2>2
<1>12. CASE TransportCloses(c)
  <2>1. DraftsCurrent' BY <1>1, <1>2, <1>3, <1>12 DEF TransportCloses, DraftsCurrent
  <2>2. ClientsCurrent' BY <1>1, <1>2, <1>3, <1>12 DEF TransportCloses, ClientsCurrent, DraftsCurrent, Current, Shape, StageShape, SeenShape
  <2> QED BY <1>4, <2>1, <2>2
<1>13. CASE ReadFails(c)
  <2>1. DraftsCurrent' BY <1>1, <1>2, <1>3, <1>13 DEF ReadFails, Fail, DraftsCurrent
  <2>2. ClientsCurrent' BY <1>1, <1>2, <1>3, <1>13 DEF ReadFails, Fail, ClientsCurrent, DraftsCurrent, Current, Shape, StageShape, SeenShape
  <2> QED BY <1>4, <2>1, <2>2
<1>14. CASE HandshakeTimeout(c)
  <2>1. DraftsCurrent' BY <1>1, <1>2, <1>3, <1>14 DEF HandshakeTimeout, Timed, Fail, DraftsCurrent
  <2>2. ClientsCurrent' BY <1>1, <1>2, <1>3, <1>14 DEF HandshakeTimeout, Timed, Fail, ClientsCurrent, DraftsCurrent, Current, Shape, StageShape, SeenShape
  <2> QED BY <1>4, <2>1, <2>2
<1>15. CASE Disconnects(c)
  <2>1. DraftsCurrent' BY <1>1, <1>2, <1>3, <1>15 DEF Disconnects, DraftsCurrent
  <2>2. ClientsCurrent' BY <1>1, <1>2, <1>3, <1>15 DEF Disconnects, ClientsCurrent, DraftsCurrent, Current, Shape, StageShape, SeenShape
  <2> QED BY <1>4, <2>1, <2>2
<1> QED
  BY <1>5, <1>6, <1>7, <1>8, <1>9, <1>10, <1>11, <1>12, <1>13, <1>14, <1>15 DEF ConnectionStep, HandshakeStep

LEMMA ServerCalm ==
  ASSUME SnapshotsTypeOK, SnapshotsInv, Calm',
         Change \/ Announce \/ StartBroadcast \/ CastStep \/ CastFails \/ Close \/ CloseConnections
  PROVE  CastCurrent' /\ DraftsCurrent' /\ ClientsCurrent'
<1> USE DEF SnapshotsTypeOK, Caught, Snapshot, connectionVars, castVars, HasRead
<1>1. CASE StartBroadcast
  <2>1. closing = "open" BY <1>1 DEF StartBroadcast, Calm
  <2>2. DEFINE to == {c \in Connection : IsReady(c)}
  <2>3. CASE to # {}
    <3>1. /\ revision' = revision + 1 /\ cast'.step = "models" /\ cast'.to = to
          /\ UNCHANGED <<connectionVars, missed>>
      BY <1>1, <2>1, <2>3 DEF StartBroadcast
    <3>2. CastCurrent' BY <3>1 DEF CastCurrent
    <3>3. DraftsCurrent' BY <3>1 DEF DraftsCurrent, SnapshotsInv, Shape, SeenShape
    <3>4. ClientsCurrent' BY <3>1 DEF ClientsCurrent, IsReady
    <3> QED BY <3>2, <3>3, <3>4
  <2>4. CASE to = {}
    <3>1. /\ missed' = missed \cup {c \in Connection : HasRead(c)}
          /\ UNCHANGED <<connectionVars, revision, cast, closing>>
      BY <1>1, <2>4 DEF StartBroadcast
    <3>2. CastCurrent' BY <1>1, <2>4, <3>1 DEF CastCurrent, IsReady, SnapshotsInv, Shape, CastShape, StartBroadcast, Idle
    <3>3. DraftsCurrent' BY <3>1 DEF DraftsCurrent
    <3>4. ClientsCurrent' BY <2>4, <3>1 DEF ClientsCurrent, IsReady
    <3> QED BY <3>2, <3>3, <3>4
  <2> QED BY <2>3, <2>4
<1>2. ASSUME Calm, CastStep \/ CastFails PROVE CastCurrent' /\ DraftsCurrent' /\ ClientsCurrent'
  <2>1. CastCurrent /\ DraftsCurrent /\ ClientsCurrent BY <1>2 DEF SnapshotsInv, CalmCurrent
  <2>2. CASE CastModels
    BY <2>1, <2>2 DEF CastModels, CastCurrent, DraftsCurrent, ClientsCurrent, Current
  <2>3. CASE CastSessions
    BY <2>1, <2>3 DEF CastSessions, CastCurrent, DraftsCurrent, ClientsCurrent, Current
  <2>4. CASE CastFails
    BY <2>1, <2>4 DEF CastFails, AfterFailure, Idle, CastCurrent, DraftsCurrent, ClientsCurrent, Current
  <2>5. ASSUME NEW c \in Connection, CastSend(c)
        PROVE  CastCurrent' /\ DraftsCurrent' /\ ClientsCurrent'
    <3>1. cast.ver = content /\ cast.rev = revision /\ draft[c].rev < revision /\ seen[c].rev \leq revision
      BY <2>1, <2>5 DEF CastSend, CastCurrent, SnapshotsInv, Shape, CastShape, SeenShape
    <3>2. CastCurrent' BY <2>1, <2>5 DEF CastSend, CastCurrent, Idle
    <3>3. DraftsCurrent'
      <4>1. stage[c] # "handshaking" BY <2>5 DEF CastSend, SnapshotsInv, Shape, CastShape
      <4> QED BY <2>1, <2>5, <4>1 DEF CastSend, DraftsCurrent
    <3>4. ClientsCurrent'
      <4> SUFFICES ASSUME NEW d \in Connection, stage[d] = "ready", open[d],
                                d \notin missed'
                   PROVE  (cast'.step = "idle" /\ lost') \/ d \in cast'.to \/ Current(d)'
        BY <2>5 DEF ClientsCurrent, CastSend
      <4>1. CASE d = c
        <5>1. seen'[c].rev = revision /\ seen'[c].ver = content
          BY <2>5, <3>1, <4>1 DEF CastSend, Applied
        <5> QED BY <2>5, <3>1, <4>1, <5>1 DEF CastSend, Current
      <4>2. CASE d # c
        <5>1. d \in cast.to \/ Current(d) BY <2>1, <2>5 DEF ClientsCurrent, CastSend
        <5>2. CASE d \in cast.to BY <2>5, <4>2, <5>2 DEF CastSend
        <5>3. CASE Current(d) BY <2>5, <4>2, <5>3 DEF CastSend, Current, Applied
        <5> QED BY <5>1, <5>2, <5>3
      <4> QED BY <4>1, <4>2
    <3> QED BY <3>2, <3>3, <3>4
  <2> QED BY <1>2, <2>2, <2>3, <2>4, <2>5 DEF CastStep
<1>3. Calm \/ StartBroadcast
  BY DEF Calm, Change, Announce, CastStep, CastModels, CastSessions, CastSend, CastFails, Close,
         CloseConnections
<1>4. CastStep \/ CastFails \/ StartBroadcast
  BY DEF Calm, Change, Announce, Close, CloseConnections
<1> QED BY <1>1, <1>2, <1>3, <1>4

-----------------------------------------------------------------------------
(* The theorem.                                                            *)

LEMMA InitInv == SnapshotsInit => SnapshotsInv
<1> SUFFICES ASSUME SnapshotsInit PROVE SnapshotsInv OBVIOUS
<1> SnapshotsTypeOK BY SnapshotsInitType
<1>1. StageShape
  <2> SUFFICES ASSUME NEW c \in Connection
               PROVE  /\ stage[c] \in {"none", "awaitingHello"} => step[c] = "none"
                      /\ stage[c] = "handshaking" => step[c] \in {"list", "models", "hello", "returned"}
                      /\ stage[c] = "ready" => step[c] \in Caught
    BY Zenon DEF StageShape
  <2>1. stage[c] = "none" /\ step[c] = "none" BY Zenon DEF SnapshotsInit
  <2> QED BY <2>1 DEF SnapshotsTypeOK, Caught
<1>3. SeenShape
  <2>1. /\ draft \in [Connection -> Snapshot] /\ seen \in [Connection -> Snapshot]
        /\ revision = 0
    BY DEF SnapshotsTypeOK, SnapshotsInit
  <2>2. \A c \in Connection :
          draft[c] = [rev |-> 0, ver |-> 0] /\ seen[c] = [rev |-> 0, ver |-> 0]
    BY Zenon DEF SnapshotsInit
  <2>3. ASSUME NEW c \in Connection
        PROVE  draft[c].rev \leq revision /\ seen[c].rev \leq revision /\ seen[c] = draft[c]
    <3>1. draft[c].rev = 0 /\ seen[c].rev = 0 /\ seen[c] = draft[c] BY <2>2
    <3> QED BY <2>1, <3>1 DEF Snapshot
  <2> QED BY Zenon, <2>3 DEF SeenShape
<1> USE DEF SnapshotsInit, Idle, Caught
<1>4. CastShape BY DEF CastShape
<1>5. CalmCurrent
  BY DEF CalmCurrent, CastCurrent, DraftsCurrent, ClientsCurrent, HasRead
<1> QED BY <1>1, <1>3, <1>4, <1>5 DEF SnapshotsInv, Shape

LEMMA NextInv == SnapshotsTypeOK /\ SnapshotsInv /\ [SnapshotsNext]_snapshotsVars => SnapshotsInv'
<1> SUFFICES ASSUME SnapshotsTypeOK, SnapshotsInv, [SnapshotsNext]_snapshotsVars PROVE SnapshotsInv' OBVIOUS
<1>1. CASE UNCHANGED snapshotsVars
  BY <1>1 DEF snapshotsVars, connectionVars, castVars, SnapshotsInv, Shape, StageShape, SeenShape,
     CastShape, CalmCurrent, Calm, CastCurrent, DraftsCurrent, ClientsCurrent, Current, HasRead
<1>2. ASSUME NEW c \in Connection, ConnectionStep(c) PROVE SnapshotsInv'
  <2>1. Shape' BY <1>2, ConnectionShape DEF SnapshotsInv
  <2>2. CalmCurrent' BY <1>2, ConnectionCalm DEF CalmCurrent
  <2> QED BY <2>1, <2>2 DEF SnapshotsInv
<1>3. ASSUME Change \/ Announce \/ StartBroadcast \/ CastStep \/ CastFails \/ Close \/ CloseConnections
      PROVE  SnapshotsInv'
  <2>1. Shape' BY <1>3, ServerShape DEF SnapshotsInv
  <2>2. CalmCurrent' BY <1>3, ServerCalm DEF CalmCurrent
  <2> QED BY <2>1, <2>2 DEF SnapshotsInv
<1> QED BY <1>1, <1>2, <1>3 DEF SnapshotsNext, ConnectionStep

\* Every client that is ready shows what the server has when nothing is owed any
\* more, unless a broadcast that found nobody ready missed it during its handshake
\* (CaughtUp), for any number of connections, changes and calls that fail.
THEOREM ClientsAreCaughtUp == SnapshotsSpec => []CaughtUp
<1>1. SnapshotsTypeOK /\ SnapshotsInv /\ [SnapshotsNext]_snapshotsVars => SnapshotsInv' BY NextInv
<1>2. SnapshotsInv => CaughtUp
  BY DEF SnapshotsInv, CalmCurrent, Calm, ClientsCurrent, Current, CaughtUp, Quiet, Shape, CastShape, Idle
<1> QED BY <1>1, <1>2, InitInv, SnapshotsTypeCorrect, PTL DEF SnapshotsSpec
=============================================================================
