---------------------------- MODULE LiveSessions ----------------------------
(***************************************************************************)
(* LiveSessionManager (packages/server/src/sessions.ts), as one durable    *)
(* session sees it.  Connections attach to the session; the first attach   *)
(* acquires a runtime from the service, the others share it, and it is     *)
(* disposed when nobody is attached and nothing runs.  The requests of a   *)
(* connection are not queued behind each other.                            *)
(*                                                                         *)
(* A step is the code between two awaits.  The service and the transports  *)
(* are interfaces: their promises settle in any order, and runtimes report *)
(* events at any time.  When a promise has several waiters, their          *)
(* continuations run before anything they set off can complete, so they    *)
(* are one step with the settling of the promise.                          *)
(***************************************************************************)
EXTENDS Naturals, FiniteSets

CONSTANTS
  Connection,    \* the client connections
  MaxPipelined,  \* requests a connection has in progress at once
  MaxRuntimes,   \* runtimes the service hands out
  None           \* no request

Request == Connection \X (1..MaxPipelined)
Runtime == 1..MaxRuntimes
Client(r) == r[1]

ASSUME BoundAssumption ==
  MaxPipelined \in Nat /\ MaxRuntimes \in Nat /\ None \notin Request

VARIABLES
  connection,   \* stage of each connection
  sessionIds,   \* the connections whose sessionIds contain the session
  liveSession,  \* liveSessions.get(id); 0 when there is none
  opening,      \* openingSessions.get(id): the request that awaits create()
  stage,        \* what has become of each runtime
  connections,  \* LiveSession.connections of each runtime
  terminal,     \* the runtimes that reported an error
  terminating,  \* the runtimes whose terminate() is closing connections
  closers,      \* the connections it closes
  busy,         \* the runtimes whose phase is not idle
  pc,           \* what each request awaits
  target,       \* the runtime it has in hand
  closing       \* how far close() is

vars == <<connection, sessionIds, liveSession, opening, stage, connections, terminal,
          terminating, closers, busy, pc, target, closing>>

mapVars == <<liveSession, opening>>
requestVars == <<pc, target>>
eventVars == <<terminal, terminating, closers, busy>>

(***************************************************************************)
(* A runtime is unused until the service hands it out; create() reads its  *)
(* snapshot and enters it in the map, where it is live.  It is disposed by *)
(* maybeDispose, by close(), or by create() when that fails.               *)
(***************************************************************************)
Stage == {"unused", "snapshot", "live", "disposing", "closing", "failing", "disposed"}
Point == {"idle", "awaitDisposing", "awaitOpening", "opening", "snapshot", "acquired",
          "operating", "detaching"}
Closing == {"open", "listeners", "connections", "disposing", "closed"}

Init ==
  /\ connection = [c \in Connection |-> "ready"] /\ sessionIds = {}
  /\ liveSession = 0 /\ opening = None
  /\ stage = [n \in Runtime |-> "unused"]
  /\ connections = [n \in Runtime |-> {}]
  /\ terminal = {} /\ terminating = {} /\ closers = [n \in Runtime |-> {}] /\ busy = {}
  /\ pc = [r \in Request |-> "idle"] /\ target = [r \in Request |-> 0]
  /\ closing = "open"
-----------------------------------------------------------------------------
\* operationCount: the requests that operate on n, when they await `at' with `on' in hand.
OperationsNone(n, at, on) == {}   \* a slip: the count is not looked at
Operations(n, at, on) == {r \in Request : at[r] = "operating" /\ on[r] = n}

\* live.disposing is set, or it was.
IsDisposing(n) == stage[n] \in {"disposing", "disposed"}

\* maybeDispose, in the state that the rest of the step leaves.
MaybeDisposeIdle(n) ==   \* a slip: also a runtime that failed has to be idle
  stage' = IF /\ n # 0 /\ closing = "open"
              /\ stage[n] = "live"
              /\ connections'[n] = {} /\ Operations(n, pc', target') = {}
              /\ n \notin busy'
             THEN [stage EXCEPT ![n] = "disposing"] ELSE stage
MaybeDispose(n) ==
  stage' = IF /\ n # 0 /\ closing = "open"
              /\ stage[n] = "live"
              /\ connections'[n] = {} /\ Operations(n, pc', target') = {}
              /\ n \in terminal' \/ n \notin busy'
             THEN [stage EXCEPT ![n] = "disposing"] ELSE stage

Waiting(point, n) == {r \in Request : pc[r] = point /\ target[r] = n}

\* The requests rs go on at `point' with runtime n; they are over when it is "idle".
Resume(rs, point, n) ==
  /\ pc' = [r \in Request |-> IF r \in rs THEN point ELSE pc[r]]
  /\ target' = [r \in Request |-> IF r \in rs THEN n ELSE target[r]]

Issue(r) == pc[r] = "idle" /\ connection[Client(r)] = "ready"
-----------------------------------------------------------------------------
(***************************************************************************)
(* attach (create is the same, with an id that nobody knows yet).          *)
(***************************************************************************)
SharesNever == FALSE   \* a slip: every attach opens for itself
Shares == opening # None

\* acquire: what is in the maps decides.  A session_locked error changes nothing.
Acquire(r) ==
  /\ Issue(r)
  /\ \/ /\ liveSession # 0 /\ liveSession \notin terminal
        /\ Resume({r}, IF IsDisposing(liveSession) THEN "awaitDisposing" ELSE "acquired",
                  liveSession)
        /\ UNCHANGED opening
     \/ /\ liveSession = 0 /\ Shares
        /\ Resume({r}, "awaitOpening", 0)
        /\ UNCHANGED opening
     \/ /\ liveSession = 0 /\ ~Shares
        /\ Resume({r}, "opening", 0)
        /\ opening' = r
  /\ UNCHANGED <<connection, sessionIds, liveSession, stage, connections, eventVars, closing>>

\* The promise in openingSessions is rejected.
WithoutWaiters(r) == {r}   \* a slip: who shares the promise is forgotten
WithWaiters(r) == {r} \cup Waiting("awaitOpening", 0)
OpeningFails(r) ==
  /\ opening' = None
  /\ Resume(WithWaiters(r), "idle", 0)

\* create: the service hands out a runtime, which is disposed when the server closes.
Opened(r) ==
  /\ pc[r] = "opening"
  /\ \E n \in Runtime :
       /\ stage[n] = "unused" /\ \A m \in Runtime : m < n => stage[m] # "unused"
       /\ stage' = [stage EXCEPT ![n] = IF closing = "open" THEN "snapshot" ELSE "failing"]
       /\ Resume({r}, "snapshot", n)
  /\ UNCHANGED <<connection, sessionIds, mapVars, connections, eventVars, closing>>

OpenFails(r) ==
  /\ pc[r] = "opening"
  /\ OpeningFails(r)
  /\ UNCHANGED <<connection, sessionIds, liveSession, stage, connections, eventVars, closing>>

\* The first snapshot: the runtime goes live, and everybody who waited acquires it.
SnapshotRead(r) ==
  /\ pc[r] = "snapshot" /\ stage[target[r]] = "snapshot"
  /\ stage' = [stage EXCEPT ![target[r]] = "live"]
  /\ liveSession' = target[r] /\ opening' = None
  /\ Resume(WithWaiters(r), "acquired", target[r])
  /\ UNCHANGED <<connection, sessionIds, connections, eventVars, closing>>

\* It cannot be read, or is of another session.
SnapshotFails(r) ==
  /\ pc[r] = "snapshot" /\ stage[target[r]] = "snapshot"
  /\ stage' = [stage EXCEPT ![target[r]] = "failing"]
  /\ UNCHANGED <<connection, sessionIds, mapVars, connections, eventVars, requestVars, closing>>

CreateFails(r) ==
  /\ pc[r] = "snapshot" /\ stage[target[r]] = "failing"
  /\ stage' = [stage EXCEPT ![target[r]] = "disposed"]
  /\ OpeningFails(r)
  /\ UNCHANGED <<connection, sessionIds, liveSession, connections, eventVars, closing>>

MayAttach(c) == connection[c] = "ready"

\* LiveSessionManager.attach: it looks at the connection, and not at the session.
\* The snapshot that answers the request, or fails, changes nothing any more.
Attach(r) ==
  /\ pc[r] = "acquired" /\ MayAttach(Client(r))
  /\ sessionIds' = sessionIds \cup {Client(r)}
  /\ connections' = [connections EXCEPT ![target[r]] = @ \cup {Client(r)}]
  /\ Resume({r}, "idle", 0)
  /\ UNCHANGED <<connection, mapVars, stage, eventVars, closing>>

AttachRefused(r) ==
  /\ pc[r] = "acquired" /\ ~MayAttach(Client(r))
  /\ Resume({r}, "idle", 0)
  /\ UNCHANGED <<connection, sessionIds, mapVars, connections, eventVars, closing>>
  /\ MaybeDispose(target[r])
-----------------------------------------------------------------------------
(***************************************************************************)
(* detach, and the operations of an attached connection.                   *)
(***************************************************************************)
LeaveLive(cs) ==
  connections' = IF liveSession = 0 THEN connections
                 ELSE [connections EXCEPT ![liveSession] = @ \ cs]

\* Who stays gets a snapshot first.
Detach(r) ==
  LET c == Client(r)
      n == liveSession
      tells == n # 0 /\ connections[n] \ {c} # {} /\ n \notin terminal /\ ~IsDisposing(n)
  IN  /\ Issue(r) /\ c \in sessionIds
      /\ sessionIds' = sessionIds \ {c}
      /\ LeaveLive({c})
      /\ IF tells THEN Resume({r}, "detaching", n) ELSE UNCHANGED requestVars
      /\ UNCHANGED <<connection, mapVars, eventVars, closing>>
      /\ IF tells THEN UNCHANGED stage ELSE MaybeDispose(n)

\* maybeDispose is skipped when the snapshot fails.
FinishDetach(r) ==
  /\ pc[r] = "detaching"
  /\ Resume({r}, "idle", 0)
  /\ UNCHANGED <<connection, sessionIds, mapVars, connections, eventVars, closing>>
  /\ UNCHANGED stage \/ MaybeDispose(target[r])

\* requireAttached, and the start of prompt, steer, abort, set_model or set_thinking.
Operate(r) ==
  /\ Issue(r) /\ Client(r) \in sessionIds
  /\ liveSession # 0 /\ liveSession \notin terminal /\ ~IsDisposing(liveSession)
  /\ Resume({r}, "operating", liveSession)
  /\ UNCHANGED <<connection, sessionIds, mapVars, stage, connections, eventVars, closing>>

\* The operation and the snapshot after it settled: the finally block of runOperation.
FinishOperation(r) ==
  /\ pc[r] = "operating"
  /\ Resume({r}, "idle", 0)
  /\ UNCHANGED <<connection, sessionIds, mapVars, connections, eventVars, closing>>
  /\ MaybeDispose(target[r])
-----------------------------------------------------------------------------
(***************************************************************************)
(* Connections and runtimes.                                               *)
(***************************************************************************)
TransportCloses(c) ==
  /\ connection[c] = "ready"
  /\ connection' = [connection EXCEPT ![c] = "closing"]
  /\ UNCHANGED <<sessionIds, mapVars, stage, connections, eventVars, requestVars, closing>>

\* PiServer.disconnect and LiveSessionManager.disconnect.
Disconnect(c) ==
  /\ connection[c] # "closed"
  /\ connection' = [connection EXCEPT ![c] = "closed"]
  /\ sessionIds' = sessionIds \ {c}
  /\ IF c \in sessionIds THEN LeaveLive({c}) ELSE UNCHANGED connections
  /\ UNCHANGED <<mapVars, eventVars, requestVars, closing>>
  /\ IF c \in sessionIds THEN MaybeDispose(liveSession) ELSE UNCHANGED stage

\* A snapshot or progress event, which may come with a new phase.
RuntimeEvent(n) ==
  /\ stage[n] = "live" /\ n \notin terminal
  /\ \E busyNow \in BOOLEAN : busy' = IF busyNow THEN busy \cup {n} ELSE busy \ {n}
  /\ UNCHANGED <<connection, sessionIds, mapVars, connections, terminal, terminating,
                 closers, requestVars, closing>>
  /\ MaybeDispose(n)

\* An error event: terminate closes the connections of now.
RuntimeError(n) ==
  /\ stage[n] = "live" /\ n \notin terminal
  /\ terminal' = terminal \cup {n}
  /\ terminating' = terminating \cup {n}
  /\ closers' = [closers EXCEPT ![n] = connections[n]]
  /\ UNCHANGED <<connection, sessionIds, mapVars, stage, connections, busy, requestVars, closing>>

\* They are closed: terminate disconnects them.
Terminate(n) ==
  LET held == {c \in closers[n] : connection[c] # "closed" /\ c \in sessionIds}
  IN  /\ n \in terminating
      /\ terminating' = terminating \ {n}
      /\ closers' = [closers EXCEPT ![n] = {}]
      /\ connection' = [c \in Connection |-> IF c \in closers[n] THEN "closed" ELSE connection[c]]
      /\ sessionIds' = sessionIds \ closers[n]
      /\ LeaveLive(held)
      /\ UNCHANGED <<mapVars, terminal, busy, requestVars, closing>>
      /\ MaybeDispose(IF held # {} /\ liveSession # 0 THEN liveSession ELSE n)

\* What is left of a runtime that is disposed is not looked at again.
Discard(n) ==
  /\ stage' = [stage EXCEPT ![n] = "disposed"]
  /\ connections' = [connections EXCEPT ![n] = {}]
  /\ terminal' = terminal \ {n} /\ busy' = busy \ {n}
  /\ UNCHANGED <<terminating, closers>>

\* runtime.dispose() of maybeDispose settled, and the entry goes.  Who waited for
\* it looks at the maps again, the first one opens, the others share its promise;
\* or they fail with it.
Disposed(n) ==
  /\ stage[n] = "disposing" /\ Discard(n)
  /\ liveSession' = IF liveSession = n THEN 0 ELSE liveSession
  /\ LET waiting == Waiting("awaitDisposing", n)
     IN  \/ /\ Resume(waiting, "idle", 0)
            /\ UNCHANGED opening
         \/ \E first \in waiting :
              /\ pc' = [r \in Request |-> IF r = first THEN "opening"
                                          ELSE IF r \in waiting THEN "awaitOpening" ELSE pc[r]]
              /\ target' = [r \in Request |-> IF r \in waiting THEN 0 ELSE target[r]]
              /\ opening' = first
  /\ UNCHANGED <<connection, sessionIds, closing>>
-----------------------------------------------------------------------------
(***************************************************************************)
(* PiServer.close: the listeners, the connections, then the sessions.      *)
(***************************************************************************)
Close ==
  /\ closing = "open" /\ closing' = "listeners"
  /\ UNCHANGED <<connection, sessionIds, mapVars, stage, connections, eventVars, requestVars>>

CloseConnections ==
  /\ closing = "listeners" /\ closing' = "connections"
  /\ connection' = [c \in Connection |-> IF connection[c] = "ready" THEN "closing" ELSE connection[c]]
  /\ UNCHANGED <<sessionIds, mapVars, stage, connections, eventVars, requestVars>>

\* LiveSessionManager.close, when what was opening has settled.
CloseSessions ==
  /\ closing = "connections" /\ closing' = "disposing"
  /\ \A c \in Connection : connection[c] = "closed"
  /\ opening = None
  /\ liveSession' = 0
  /\ stage' = [n \in Runtime |-> IF n = liveSession /\ ~IsDisposing(n) THEN "closing" ELSE stage[n]]
  /\ UNCHANGED <<connection, sessionIds, opening, connections, eventVars, requestVars>>

DisposedByClose(n) ==
  /\ stage[n] = "closing" /\ Discard(n)
  /\ UNCHANGED <<connection, sessionIds, mapVars, requestVars, closing>>

Closed ==
  /\ closing = "disposing" /\ closing' = "closed"
  /\ \A n \in Runtime : stage[n] \notin {"disposing", "closing"}
  /\ UNCHANGED <<connection, sessionIds, mapVars, stage, connections, eventVars, requestVars>>
-----------------------------------------------------------------------------
\* Clients come and go as they like.
ClientStep(r) == Acquire(r) \/ Detach(r) \/ Operate(r)

Settles(r) ==
  \/ Opened(r) \/ OpenFails(r) \/ SnapshotRead(r) \/ SnapshotFails(r) \/ CreateFails(r)
  \/ Attach(r) \/ AttachRefused(r) \/ FinishDetach(r) \/ FinishOperation(r)

RuntimeSettles(n) == Terminate(n) \/ Disposed(n) \/ DisposedByClose(n)

CloseSettles == CloseConnections \/ CloseSessions \/ Closed

\* Nobody is left to ask for anything.
Rest == (\A c \in Connection : connection[c] = "closed") /\ UNCHANGED vars

Next ==
  \/ \E r \in Request : ClientStep(r) \/ Settles(r)
  \/ \E c \in Connection : TransportCloses(c) \/ Disconnect(c)
  \/ \E n \in Runtime : RuntimeEvent(n) \/ RuntimeError(n) \/ RuntimeSettles(n)
  \/ Close \/ CloseSettles \/ Rest

\* The service, the transports and the operations settle; a closed transport
\* reports it.  Nothing is assumed of the clients, nor of events of the runtimes.
Fairness ==
  /\ \A r \in Request : WF_vars(Settles(r))
  /\ \A n \in Runtime : WF_vars(RuntimeSettles(n))
  /\ \A c \in Connection : WF_vars(connection[c] = "closing" /\ Disconnect(c))
  /\ WF_vars(CloseSettles)

Spec == Init /\ [][Next]_vars /\ Fairness
-----------------------------------------------------------------------------
(***************************************************************************)
(* Properties.                                                             *)
(***************************************************************************)
TypeOK ==
  /\ connection \in [Connection -> {"ready", "closing", "closed"}]
  /\ sessionIds \in SUBSET Connection
  /\ liveSession \in Runtime \cup {0} /\ opening \in Request \cup {None}
  /\ stage \in [Runtime -> Stage]
  /\ connections \in [Runtime -> SUBSET Connection]
  /\ terminal \in SUBSET Runtime /\ terminating \in SUBSET Runtime
  /\ closers \in [Runtime -> SUBSET Connection] /\ busy \in SUBSET Runtime
  /\ pc \in [Request -> Point] /\ target \in [Request -> Runtime \cup {0}]
  /\ closing \in Closing
  /\ \A r \in Request : target[r] = 0 <=> pc[r] \in {"idle", "awaitOpening", "opening"}

IsOpen(n) == stage[n] \notin {"unused", "disposed"}

\* packages/server/src/types.ts:54, "exclusively acquired runtimes": the service is
\* never asked for a runtime of a session while an earlier one is not disposed, and
\* never twice at once, whatever the requests, disposals and the shutdown do.
ExclusiveRuntime ==
  /\ \A m, n \in Runtime : IsOpen(m) /\ IsOpen(n) => m = n
  /\ \A r \in Request : pc[r] = "opening" => opening = r /\ \A n \in Runtime : ~IsOpen(n)

\* Why: an open runtime is the one in the map, or the one that a request is opening,
\* or no client is left that could ask for another (sessions.ts:192-254).
MapsAgree ==
  /\ liveSession # 0 => stage[liveSession] \in {"live", "disposing"}
  /\ opening # None => liveSession = 0 /\ pc[opening] \in {"opening", "snapshot"}
  /\ \A r \in Request :
       /\ pc[r] \in {"opening", "snapshot"} => opening = r
       /\ pc[r] = "snapshot" => stage[target[r]] \in {"snapshot", "failing"}
       /\ pc[r] = "awaitDisposing" => stage[target[r]] = "disposing"
  /\ \A n \in Runtime : IsOpen(n) =>
       \/ n = liveSession
       \/ opening # None /\ pc[opening] = "snapshot" /\ n = target[opening]
       \/ /\ opening = None /\ liveSession = 0 /\ stage[n] \in {"disposing", "closing"}
          /\ \A c \in Connection : connection[c] = "closed"

\* operationCount protects a runtime: until the server closes, none is being disposed
\* under an operation, whoever disconnects meanwhile (sessions.ts:180-189).
OperationsKeepRuntime ==
  closing = "open" => \A r \in Request : pc[r] = "operating" => stage[target[r]] = "live"

\* Every request is answered, whoever else waits for the same runtime
\* (sessions.ts:192-215).
RequestsAnswered == \A r \in Request : pc[r] # "idle" ~> pc[r] = "idle"

Unused(n) ==
  /\ IsOpen(n)
  /\ \/ closing # "open"
     \/ connections[n] = {} /\ Operations(n, pc, target) = {} /\ (n \in terminal \/ n \notin busy)

\* A runtime that nobody is attached to and that does nothing is disposed or used
\* again, and one that is open when the server closes is disposed, although most
\* triggers of maybeDispose come to nothing (sessions.ts:156-173, 332-353).
UnusedRuntimesGo == \A n \in Runtime : Unused(n) ~> ~Unused(n)

\* packages/server/src/sessions.ts:193, of acquire: a disposing instance must not be
\* used again, the request has to wait for its end and try again.
HalfClosedNotReused ==
  [][\A n \in Runtime : connections'[n] \ connections[n] # {} => stage[n] = "live"]_vars

\* packages/server/test/conformance.test.ts:344, "gracefully closes connections,
\* sessions, and listener resources".
ClosedMeansDisposed ==
  closing = "closed" => opening = None /\ \A n \in Runtime : ~IsOpen(n)
=============================================================================
