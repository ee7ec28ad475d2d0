---------------------------- MODULE ClientLeases ----------------------------
(***************************************************************************)
(* The leases a PiClient hands out for one session, over one connection    *)
(* that may be lost and made again (packages/client/src/client.ts), and as *)
(* much of the server's attach and detach commands as they depend on       *)
(* (packages/server/src/sessions.ts).                                      *)
(*                                                                         *)
(* A user is a caller of acquireSession that holds at most one lease at a  *)
(* time.  Callers share one attachment of the connection: the first to     *)
(* need it sends attach, the last to let go sends detach, and whoever      *)
(* comes in between waits for the promise of another.  A promise is named  *)
(* by the user who sent its request; a user who waits for it continues in  *)
(* a step of its own, after the owner of the promise has.                  *)
(***************************************************************************)
EXTENDS Integers, Sequences, FiniteSets

CONSTANTS User, None,
          Faults,     \* which requests the server may fail: "attach", "detach"
          MaxRev,     \* revisions of the session's snapshot are 0..MaxRev
          MaxDrops,   \* how often the connection is lost
          MaxWire     \* a runtime's event waits while so many messages do

ASSUME NoneAssumption   == None \notin User
ASSUME UserAssumption   == IsFiniteSet(User)
ASSUME FaultsAssumption == Faults \subseteq {"attach", "detach"}
ASSUME BoundsAssumption == MaxRev \in Nat /\ MaxDrops \in Nat /\ MaxWire \in Nat

VARIABLES
  count, exclusive, gen, cleanup,           \* the session's lease bookkeeping
  attachment, detachment, reconciliation,   \* owners of the promises in the maps
  attached, snap, previous,                 \* ClientState
  pc, mode, quiet, leaseGen, on, res,       \* the users and their leases
  strayed,                                  \* history: a lease was granted off-line
  conn, connecting, drops, wire,            \* the connection
  req, serves, rev                          \* the server

books   == <<count, exclusive, gen, cleanup>>
maps    == <<attachment, detachment, reconciliation>>
state   == <<attached, snap, previous>>
users   == <<pc, mode, quiet, leaseGen, on, res, strayed>>
link    == <<conn, connecting, drops, wire>>
server  == <<req, serves, rev>>
vars    == <<books, maps, state, users, link, server>>

Waiting == {"waitDetach", "waitReconcile", "waitAttach"}
Revs    == 0..MaxRev

Init ==
  /\ count = 0 /\ exclusive = None /\ gen = 0 /\ cleanup = FALSE
  /\ attachment = None /\ detachment = None /\ reconciliation = None
  /\ attached = FALSE /\ snap = -1 /\ previous = [u \in User |-> -1]
  /\ pc = [u \in User |-> "idle"]
  /\ mode = [u \in User |-> "shared"]
  /\ quiet = [u \in User |-> FALSE]
  /\ leaseGen = [u \in User |-> 0]
  /\ on = [u \in User |-> None]
  /\ res = [u \in User |-> "none"]
  /\ strayed = FALSE
  /\ conn = TRUE /\ connecting = FALSE /\ drops = 0 /\ wire = <<>>
  /\ req = [u \in User |-> "none"]
  /\ serves = FALSE /\ rev = 0

-----------------------------------------------------------------------------
(* Promises and requests.                                                  *)

(* u waits for x; those who were behind u may go on when it does.          *)
Wait(u, x) ==
  on' = [v \in User |-> IF v = u THEN x ELSE IF on[v] = u THEN None ELSE on[v]]

(* u waits, at stage p, for the promise that owner made.  If its request   *)
(* has been answered and the owner has not gone on yet, so has u's.        *)
Await(u, p, owner) ==
  /\ pc' = [pc EXCEPT ![u] = p]
  /\ Wait(u, owner)
  /\ res' = [res EXCEPT ![u] = res[owner]]

(* u sends a request and waits for it: without a connection #request       *)
(* returns a promise that is rejected already.                             *)
Ask(u, p, command) ==
  /\ pc' = [pc EXCEPT ![u] = p]
  /\ Wait(u, u)
  /\ res' = [res EXCEPT ![u] = IF conn THEN "none" ELSE "err"]
  /\ req' = IF conn THEN [req EXCEPT ![u] = command] ELSE req

(* u waits no longer. *)
Resume(u, p) ==
  /\ pc' = [pc EXCEPT ![u] = p]
  /\ Wait(u, None)
  /\ res' = [res EXCEPT ![u] = "none"]

(* The promise of owner settles, for all who wait for it. *)
Settle(owner, r) ==
  res' = [v \in User |-> IF on[v] = owner /\ res[v] = "none" THEN r ELSE res[v]]

(* u may go on: what it waits for is settled, and the owner of the promise,*)
(* who was the first to wait for it, has gone on before.                   *)
Ready(u) == res[u] # "none" /\ on[u] \in {u, None}

(* No continuation is left to run: the event loop may turn. *)
Drained == \A u \in User : res[u] = "none"

-----------------------------------------------------------------------------
(* The lease bookkeeping.                                                  *)

CanReserve(m) ==
  IF m = "exclusive" THEN count = 0 ELSE exclusive = None

ReserveLease(u, m) ==
  /\ count' = count + 1
  /\ exclusive' = IF m = "exclusive" THEN u ELSE exclusive

(* #releaseSessionLease does not ask in which generation the token was     *)
(* reserved.                                                               *)
ReleaseLease(u) ==
  /\ count' = IF count <= 1 THEN 0 ELSE count - 1
  /\ exclusive' = IF exclusive = u THEN None ELSE exclusive

(* A slip: the generation is over, and its leases are still counted. *)
InvalidateUncounted ==
  /\ gen' = IF count > 0 THEN gen + 1 ELSE gen
  /\ cleanup' = FALSE
  /\ UNCHANGED <<count, exclusive>>

(* Only a session that is counted is invalidated. *)
InvalidateAll ==
  /\ count' = 0
  /\ exclusive' = IF count > 0 THEN None ELSE exclusive
  /\ gen' = IF count > 0 THEN gen + 1 ELSE gen
  /\ cleanup' = FALSE

(* The lease of the session's present generation that u holds. *)
CurrentLease(u) == leaseGen[u] = gen

(* The lease is one of the present generation, though its place may have   *)
(* been reserved in the one before: nothing asks whether the connection    *)
(* has ended since the attach was answered.  Such a lease strays into the  *)
(* books of the next connection.                                           *)
Grant(u) ==
  /\ Resume(u, "held")
  /\ leaseGen' = [leaseGen EXCEPT ![u] = gen]
  /\ strayed' = (strayed \/ ~conn)

(* A slip: the snapshot of the runtime that was attached before is kept. *)
StartAttachRemembering(u) ==
  /\ attachment = None
  /\ Ask(u, "waitAttach", "attach")
  /\ attachment' = u
  /\ UNCHANGED <<previous, snap>>

(* One attach serves all who need it: its sender drops the snapshot it     *)
(* has, so that a runtime that was opened anew may count from a lower      *)
(* revision.                                                               *)
StartAttach(u) ==
  /\ attachment = None
  /\ Ask(u, "waitAttach", "attach")
  /\ attachment' = u
  /\ previous' = [previous EXCEPT ![u] = snap]
  /\ snap' = -1

JoinAttach(u) ==
  /\ attachment # None
  /\ Await(u, "waitAttach", attachment)
  /\ UNCHANGED <<attachment, previous, snap, req>>

Attach(u) ==
  /\ StartAttach(u) \/ JoinAttach(u)
  /\ UNCHANGED <<leaseGen, strayed>>

(* A detach that dispose had left undone is done before anything else. *)
Reconcile(u) ==
  \/ /\ reconciliation = None
     /\ Ask(u, "waitReconcile", "detach")
     /\ reconciliation' = u
  \/ /\ reconciliation # None
     /\ Await(u, "waitReconcile", reconciliation)
     /\ UNCHANGED <<reconciliation, req>>

(* acquireSession once no detach is under way. *)
Proceed(u) ==
  \/ /\ cleanup
     /\ Reconcile(u)
     /\ UNCHANGED <<attachment, snap, previous, leaseGen, strayed>>
  \/ /\ ~cleanup /\ ~attached
     /\ Attach(u)
     /\ UNCHANGED reconciliation
  \/ /\ ~cleanup /\ attached
     /\ Grant(u)
     /\ UNCHANGED <<attachment, reconciliation, snap, previous, req>>

-----------------------------------------------------------------------------
(* The users' calls and the continuations of their awaits.                 *)

(* acquireSession up to its first await. *)
Acquire(u, m) ==
  /\ pc[u] = "idle" /\ CanReserve(m)
  /\ ReserveLease(u, m)
  /\ mode' = [mode EXCEPT ![u] = m]
  /\ \/ /\ detachment # None
        /\ Await(u, "waitDetach", detachment)
        /\ UNCHANGED <<attachment, reconciliation, snap, previous, leaseGen, strayed, req>>
     \/ /\ detachment = None
        /\ Proceed(u)
  /\ UNCHANGED <<gen, cleanup, detachment, attached, quiet, link, serves, rev>>

(* The detach that u waited for is over, whatever came of it. *)
AfterDetachment(u) ==
  /\ pc[u] = "waitDetach" /\ Ready(u)
  /\ Proceed(u)
  /\ UNCHANGED <<books, detachment, attached, mode, quiet, link, serves, rev>>

(* The failing acquireSession gives its reservation back. *)
GiveUp(u) ==
  /\ Resume(u, "idle")
  /\ ReleaseLease(u)
  /\ UNCHANGED <<leaseGen, strayed>>

AfterReconcile(u) ==
  /\ pc[u] = "waitReconcile" /\ Ready(u)
  /\ reconciliation' = IF on[u] = u THEN None ELSE reconciliation
  /\ \/ /\ res[u] = "ok"
        /\ cleanup' = IF on[u] = u THEN FALSE ELSE cleanup
        /\ Attach(u)
        /\ UNCHANGED <<count, exclusive>>
     \/ /\ res[u] = "err"
        /\ GiveUp(u)
        /\ UNCHANGED <<cleanup, attachment, snap, previous, req>>
  /\ UNCHANGED <<gen, detachment, attached, mode, quiet, link, serves, rev>>

AfterAttach(u) ==
  /\ pc[u] = "waitAttach" /\ Ready(u)
  /\ attachment' = IF on[u] = u THEN None ELSE attachment
  /\ \/ /\ res[u] = "ok"
        /\ Grant(u)
        /\ UNCHANGED <<count, exclusive, snap>>
     \/ /\ res[u] = "err"
        /\ snap' = IF on[u] = u /\ snap = -1 THEN previous[u] ELSE snap
        /\ GiveUp(u)
  /\ previous' = [previous EXCEPT ![u] = -1]
  /\ UNCHANGED <<gen, cleanup, detachment, reconciliation, attached, mode, quiet,
                 link, server>>

(* detach (q is FALSE) or dispose (q is TRUE) of a lease.  A lease of an   *)
(* earlier generation is let go without a word; one that is not attached   *)
(* refuses.                                                                *)
LastLeaseLate == count < 1   \* a slip: off by one
LastLease == count <= 1

Release(u, q) ==
  /\ pc[u] = "held"
  /\ \/ /\ ~CurrentLease(u)
        /\ Resume(u, "idle")
        /\ UNCHANGED <<count, exclusive, detachment, quiet, req>>
     \/ /\ CurrentLease(u) /\ conn /\ attached /\ LastLease
        /\ Ask(u, "releasing", "detach")
        /\ detachment' = u
        /\ quiet' = [quiet EXCEPT ![u] = q]
        /\ UNCHANGED <<count, exclusive>>
     \/ /\ CurrentLease(u) /\ conn /\ attached /\ ~LastLease
        /\ ReleaseLease(u)
        /\ Resume(u, "idle")
        /\ UNCHANGED <<detachment, quiet, req>>
  /\ UNCHANGED <<gen, cleanup, attachment, reconciliation, state, mode, leaseGen,
                 strayed, link, serves, rev>>

(* The detach is over: a failure leaves an explicit detach to be retried,  *)
(* and a dispose to be reconciled by whoever comes next.                   *)
AfterRelease(u) ==
  /\ pc[u] = "releasing" /\ Ready(u)
  /\ quiet' = [quiet EXCEPT ![u] = FALSE]
  /\ detachment' = IF detachment = u THEN None ELSE detachment
  /\ \/ /\ res[u] = "ok"
        /\ ReleaseLease(u)
        /\ Resume(u, "idle")
        /\ UNCHANGED cleanup
     \/ /\ res[u] = "err" /\ ~CurrentLease(u)
        /\ Resume(u, "idle")
        /\ UNCHANGED <<count, exclusive, cleanup>>
     \/ /\ res[u] = "err" /\ CurrentLease(u) /\ quiet[u]
        /\ ReleaseLease(u)
        /\ cleanup' = TRUE
        /\ Resume(u, "idle")
     \/ /\ res[u] = "err" /\ CurrentLease(u) /\ ~quiet[u]
        /\ Resume(u, "held")
        /\ UNCHANGED <<count, exclusive, cleanup>>
  /\ UNCHANGED <<gen, attachment, reconciliation, state, mode, leaseGen, strayed,
                 link, server>>

-----------------------------------------------------------------------------
(* What arrives at the client.                                             *)

(* #applySessionSnapshot: a lower revision is ignored. *)
ApplySnapshot(r, a) ==
  IF snap # -1 /\ r < snap
    THEN UNCHANGED <<attached, snap>>
    ELSE attached' = a /\ snap' = r

Receive ==
  /\ wire # <<>>
  /\ wire' = Tail(wire)
  /\ LET m == Head(wire) IN
     \/ /\ m.kind = "event"
        /\ ApplySnapshot(m.rev, TRUE)
        /\ UNCHANGED res
     \/ /\ m.kind = "attach" /\ m.ok
        /\ ApplySnapshot(m.rev, m.attached)
        /\ Settle(m.to, "ok")
     \/ /\ m.kind = "detach" /\ m.ok
        /\ attached' = FALSE
        /\ Settle(m.to, "ok")
        /\ UNCHANGED snap
     \/ /\ m.kind \in {"attach", "detach"} /\ ~m.ok
        /\ Settle(m.to, "err")
        /\ UNCHANGED <<attached, snap>>
  /\ UNCHANGED <<books, maps, previous, pc, mode, quiet, leaseGen, on, strayed, conn,
                 connecting, drops, server>>

(* A slip: the promises of the lost connection are left pending. *)
RejectNothing == UNCHANGED res

(* The requests that are not answered yet.  One that is, is no longer      *)
(* pending, though its caller may not have gone on.                        *)
RejectPending ==
  res' = [v \in User |->
            IF pc[v] \in Waiting \cup {"releasing"} /\ res[v] = "none" THEN "err" ELSE res[v]]

(* The connection is lost, at any point: its socket closes, a caller or a  *)
(* listener disconnects, or a message that cannot be accepted comes behind *)
(* an answer in the same chunk, before whoever waits for it has gone on.   *)
Disconnect ==
  /\ conn \/ connecting
  /\ drops < MaxDrops
  /\ conn' = FALSE /\ connecting' = FALSE /\ drops' = drops + 1 /\ wire' = <<>>
  /\ attached' = FALSE
  /\ InvalidateAll
  /\ RejectPending
  /\ req' = [u \in User |-> "none"] /\ serves' = FALSE
  /\ UNCHANGED <<maps, snap, previous, pc, mode, quiet, leaseGen, on, strayed, rev>>

(* connect, which anyone may call once the connection is lost: the state   *)
(* is reset at once.                                                       *)
Connect ==
  /\ ~conn /\ ~connecting
  /\ connecting' = TRUE
  /\ snap' = -1 /\ attached' = FALSE
  /\ UNCHANGED <<books, maps, previous, users, conn, drops, wire, server>>

(* The hello of the server comes over a socket that was opened since: in   *)
(* another turn of the event loop, when no continuation is left to run.    *)
Connected ==
  /\ ~conn /\ connecting /\ Drained
  /\ conn' = TRUE /\ connecting' = FALSE
  /\ UNCHANGED <<books, maps, state, users, drops, wire, server>>

-----------------------------------------------------------------------------
(* The server's side of the connection.                                    *)

Event          == [kind |-> "event", rev |-> rev]
AttachReply(u) == [kind |-> "attach", to |-> u, ok |-> TRUE, rev |-> rev, attached |-> serves]
DetachReply(u) == [kind |-> "detach", to |-> u, ok |-> TRUE]
Failure(u, k)  == [kind |-> k, to |-> u, ok |-> FALSE]

Answer(u, messages) ==
  /\ req' = [req EXCEPT ![u] = "none"]
  /\ wire' = wire \o messages

(* attach: the connection joins the live session before the snapshot of    *)
(* the answer is taken.                                                    *)
ServerAttach(u) ==
  /\ req[u] = "attach"
  /\ req' = [req EXCEPT ![u] = "attaching"]
  /\ serves' = TRUE
  /\ UNCHANGED <<wire, rev>>

ServerAttached(u) ==
  /\ req[u] = "attaching"
  /\ Answer(u, (IF serves THEN <<Event>> ELSE <<>>) \o <<AttachReply(u)>>)
  /\ UNCHANGED <<serves, rev>>

(* The session cannot be opened, or its runtime is terminating. *)
ServerRefuses(u) ==
  /\ "attach" \in Faults /\ req[u] = "attach"
  /\ Answer(u, <<Failure(u, "attach")>>)
  /\ UNCHANGED <<serves, rev>>

(* detach: the connection leaves at once, and then the snapshot for the    *)
(* others or the runtime's dispose may fail.                               *)
ServerDetach(u) ==
  /\ req[u] = "detach"
  /\ \/ /\ serves
        /\ req' = [req EXCEPT ![u] = "detaching"]
        /\ UNCHANGED wire
     \/ /\ ~serves
        /\ Answer(u, <<DetachReply(u)>>)
  /\ serves' = FALSE
  /\ UNCHANGED rev

ServerDetached(u) ==
  /\ req[u] = "detaching"
  /\ \/ Answer(u, <<DetachReply(u)>>)
     \/ "detach" \in Faults /\ Answer(u, <<Failure(u, "detach")>>)
  /\ UNCHANGED <<serves, rev>>

(* The runtime reports progress of the session. *)
RuntimeEvent ==
  /\ rev < MaxRev /\ Len(wire) < MaxWire
  /\ rev' = rev + 1
  /\ wire' = IF serves THEN Append(wire, [Event EXCEPT !.rev = rev + 1]) ELSE wire
  /\ UNCHANGED <<req, serves>>

(* Nobody is attached: the runtime is disposed, and opened anew it counts  *)
(* its revisions from wherever it likes.                                   *)
Reopen ==
  /\ ~serves
  /\ rev' \in Revs \ {rev}
  /\ UNCHANGED <<wire, req, serves>>

(* The server is another process.  What it sends while continuations of    *)
(* the client are left to run is received after them, so that nothing is   *)
(* lost by letting it take its steps in between.  Messages that are on the *)
(* wire already may arrive in one chunk, and are then handled in a row.    *)
Apart ==
  /\ Drained
  /\ UNCHANGED <<books, maps, state, users, conn, connecting, drops>>

ServerStep(u) ==
  /\ \/ ServerAttach(u)
     \/ ServerAttached(u)
     \/ ServerRefuses(u)
     \/ ServerDetach(u)
     \/ ServerDetached(u)
  /\ Apart

RuntimeStep ==
  /\ RuntimeEvent \/ Reopen
  /\ Apart

-----------------------------------------------------------------------------
Continue(u) ==
  AfterDetachment(u) \/ AfterReconcile(u) \/ AfterAttach(u) \/ AfterRelease(u)

Next ==
  \/ \E u \in User, m \in {"shared", "exclusive"} : Acquire(u, m)
  \/ \E u \in User, q \in BOOLEAN : Release(u, q)
  \/ \E u \in User : Continue(u)
  \/ Receive
  \/ Disconnect
  \/ Connect
  \/ Connected
  \/ \E u \in User : ServerStep(u)
  \/ RuntimeStep

Spec == Init /\ [][Next]_vars

(* Continuations run, what was sent arrives, and the server answers every  *)
(* request: neither the users nor the connection have to do anything.      *)
Fairness ==
  /\ \A u \in User : WF_vars(Continue(u)) /\ WF_vars(ServerStep(u))
  /\ WF_vars(Receive)

FairSpec == Spec /\ Fairness

-----------------------------------------------------------------------------
(* A lease that is good: its generation is the session's, and no release   *)
(* has begun.                                                              *)
Held(u) == pc[u] = "held" /\ CurrentLease(u)

(* What the bookkeeping has to count: reservations and leases.             *)
Owns(u) == pc[u] \in Waiting \/ (pc[u] \in {"held", "releasing"} /\ CurrentLease(u))

Messages ==
  [kind : {"event"}, rev : Revs]
    \cup [kind : {"attach"}, to : User, ok : {TRUE}, rev : Revs, attached : BOOLEAN]
    \cup [kind : {"detach"}, to : User, ok : {TRUE}]
    \cup [kind : {"attach", "detach"}, to : User, ok : {FALSE}]

TypeOK ==
  /\ count \in Nat /\ exclusive \in User \cup {None} /\ gen \in Nat /\ cleanup \in BOOLEAN
  /\ attachment \in User \cup {None}
  /\ detachment \in User \cup {None}
  /\ reconciliation \in User \cup {None}
  /\ attached \in BOOLEAN /\ snap \in Revs \cup {-1}
  /\ previous \in [User -> Revs \cup {-1}]
  /\ pc \in [User -> {"idle", "held", "releasing"} \cup Waiting]
  /\ mode \in [User -> {"shared", "exclusive"}]
  /\ quiet \in [User -> BOOLEAN]
  /\ leaseGen \in [User -> Nat]
  /\ on \in [User -> User \cup {None}]
  /\ res \in [User -> {"none", "ok", "err"}]
  /\ strayed \in BOOLEAN
  /\ conn \in BOOLEAN /\ connecting \in BOOLEAN /\ drops \in 0..MaxDrops /\ wire \in Seq(Messages)
  /\ req \in [User -> {"none", "attach", "attaching", "detach", "detaching"}]
  /\ serves \in BOOLEAN /\ rev \in Revs

(* The rule of acquireSession, over the leases there are: an exclusive     *)
(* lease is the only one, whatever was reserved, refused, released or      *)
(* invalidated before it, on this connection or an earlier one, until a    *)
(* lease has strayed.                                                      *)
ExclusiveAlone ==
  (conn /\ ~strayed) =>
    \A u, v \in User : (Owns(u) /\ mode[u] = "exclusive" /\ Owns(v)) => u = v

(* The count by which the last lease is told from the others is that of    *)
(* the reservations and leases of this connection, and the token of an     *)
(* exclusive lease is that of one of them: none is counted twice, or       *)
(* forgotten, or taken off by a lease of an earlier generation, and no     *)
(* token is left that would lock out everyone.  One thing breaks the books *)
(* for good, a lease that is granted when the connection has just ended.   *)
BooksMatchOwners ==
  (conn /\ ~strayed) =>
    /\ count = Cardinality({u \in User : Owns(u)})
    /\ \A u \in User : exclusive = u <=> Owns(u) /\ mode[u] = "exclusive"

(* Who has been given a lease, and not begun to release it, has a session  *)
(* that the client knows to be attached: no detach of another, answer that *)
(* comes late, snapshot of an older runtime or end of an earlier           *)
(* connection takes it away, until a lease has strayed.                    *)
LeaseIsAttached ==
  \A u \in User : (conn /\ ~strayed /\ Held(u)) => attached

(* When all leases are gone and nothing is under way, the server has let   *)
(* go of the connection, so that it may dispose of the runtime, unless a   *)
(* lease has strayed: its release may come before the attach of another.   *)
NothingLeaks ==
  (/\ conn /\ ~strayed /\ wire = <<>>
   /\ \A u \in User : ~Owns(u) /\ req[u] = "none") => ~serves

(* Every acquisition comes to an end, with a lease or without, though it   *)
(* may wait for three requests of others in turn, and whatever has strayed.*)
AcquisitionsEnd ==
  \A u \in User : pc[u] \in Waiting ~> pc[u] \in {"idle", "held"}

(* What a lease is for: as long as nothing is under way the server serves  *)
(* the session of whoever holds one.                                       *)
LeaseIsServed ==
  \A u \in User : (conn /\ Held(u) /\ \A v \in User : pc[v] \in {"idle", "held"}) => serves

(* What the comment above #createSessionLease says: the handles of a lost  *)
(* connection are invalid, and do no harm to the next one.                 *)
NoLeaseStrays == conn => ~strayed
=============================================================================
