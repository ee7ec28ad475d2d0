------------------------- MODULE LiveSessionsProofs -------------------------
(***************************************************************************)
(* Theorems about LiveSessions, for any number of connections, requests    *)
(* and runtimes.                                                           *)
(***************************************************************************)
EXTENDS LiveSessions, TLAPS

Inv == TypeOK /\ MapsAgree /\ ExclusiveRuntime

\* What maybeDispose may do to the stages.
MayDispose(n) ==
  \/ stage' = stage
  \/ n \in Runtime /\ stage[n] = "live" /\ stage' = [stage EXCEPT ![n] = "disposing"]

LEMMA RuntimeIsNotZero == Runtime \subseteq Nat \ {0}
BY BoundAssumption DEF Runtime

LEMMA MaybeDisposeEffect ==
  ASSUME NEW n \in Runtime \cup {0}, MaybeDispose(n)
  PROVE  MayDispose(n)
BY RuntimeIsNotZero DEF MaybeDispose, MayDispose

LEMMA ClientType == ASSUME NEW r \in Request PROVE Client(r) \in Connection
BY DEF Request, Client

\* Requests are resumed at a point that agrees with what they have in hand.
LEMMA ResumeTypes ==
  ASSUME TypeOK, NEW rs, NEW point \in Point, NEW n \in Runtime \cup {0},
         n = 0 <=> point \in {"idle", "awaitOpening", "opening"}, Resume(rs, point, n)
  PROVE  /\ pc' \in [Request -> Point] /\ target' \in [Request -> Runtime \cup {0}]
         /\ \A r \in Request : target'[r] = 0 <=> pc'[r] \in {"idle", "awaitOpening", "opening"}
BY DEF TypeOK, Resume

RequestTypes ==
  /\ pc \in [Request -> Point] /\ target \in [Request -> Runtime \cup {0}]
  /\ \A r \in Request : target[r] = 0 <=> pc[r] \in {"idle", "awaitOpening", "opening"}

LEMMA InitTypes == Init => TypeOK
BY RuntimeIsNotZero DEF Init, TypeOK, Stage, Point, Closing

LEMMA NextTypes == TypeOK /\ [Next]_vars => TypeOK'
<1> SUFFICES ASSUME TypeOK, [Next]_vars PROVE TypeOK' OBVIOUS
<1> USE RuntimeIsNotZero
<1>1. ASSUME NEW n \in Runtime \cup {0}, MayDispose(n) PROVE stage' \in [Runtime -> Stage]
  BY <1>1 DEF MayDispose, TypeOK, Stage
<1>2. ASSUME NEW r \in Request, ClientStep(r) PROVE TypeOK'
  <2>1. CASE Acquire(r)
    <3>1. RequestTypes'
      BY <2>1, ResumeTypes DEF Acquire, RequestTypes, Point, TypeOK
    <3> QED BY <2>1, <3>1 DEF Acquire, RequestTypes, TypeOK, eventVars
  <2>2. CASE Detach(r)
    <3>1. RequestTypes'
      BY <2>2, ResumeTypes DEF Detach, RequestTypes, Point, TypeOK, requestVars
    <3>2. stage' \in [Runtime -> Stage]
      BY <1>1, <2>2, MaybeDisposeEffect DEF Detach, TypeOK
    <3>3. connections' \in [Runtime -> SUBSET Connection]
      BY <2>2 DEF Detach, LeaveLive, TypeOK
    <3> QED BY <2>2, <3>1, <3>2, <3>3 DEF Detach, RequestTypes, TypeOK, eventVars, mapVars
  <2>3. CASE Operate(r)
    <3>1. RequestTypes'
      BY <2>3, ResumeTypes DEF Operate, RequestTypes, Point, TypeOK
    <3> QED BY <2>3, <3>1 DEF Operate, RequestTypes, TypeOK, eventVars, mapVars
  <2> QED BY <1>2, <2>1, <2>2, <2>3 DEF ClientStep
<1>3. ASSUME NEW r \in Request, Settles(r) PROVE TypeOK'
  <2>1. CASE Opened(r)
    <3>1. PICK n \in Runtime : Resume({r}, "snapshot", n) BY <2>1 DEF Opened
    <3>2. RequestTypes' BY <3>1, ResumeTypes DEF RequestTypes, Point
    <3> QED BY <2>1, <3>2 DEF Opened, RequestTypes, TypeOK, eventVars, mapVars, Stage
  <2>2. CASE OpenFails(r) \/ CreateFails(r)
    <3>1. RequestTypes'
      BY <2>2, ResumeTypes DEF OpenFails, CreateFails, OpeningFails, RequestTypes, Point
    <3>2. /\ opening' = None /\ stage' \in [Runtime -> Stage]
          /\ UNCHANGED <<connection, sessionIds, liveSession, connections, terminal,
                         terminating, closers, busy, closing>>
      BY <2>2 DEF OpenFails, CreateFails, OpeningFails, TypeOK, eventVars, Stage
    <3> QED BY <3>1, <3>2 DEF RequestTypes, TypeOK
  <2>3. CASE SnapshotRead(r)
    <3>1. target[r] \in Runtime BY <2>3 DEF SnapshotRead, TypeOK
    <3>2. RequestTypes' BY <2>3, <3>1, ResumeTypes DEF SnapshotRead, RequestTypes, Point
    <3> QED BY <2>3, <3>1, <3>2 DEF SnapshotRead, RequestTypes, TypeOK, eventVars, Stage
  <2>4. CASE SnapshotFails(r)
    BY <2>4 DEF SnapshotFails, TypeOK, eventVars, mapVars, requestVars, Stage
  <2>5. CASE Attach(r)
    <3>1. RequestTypes' BY <2>5, ResumeTypes DEF Attach, RequestTypes, Point
    <3>2. connections' \in [Runtime -> SUBSET Connection] /\ sessionIds' \in SUBSET Connection
      BY <2>5, ClientType DEF Attach, TypeOK
    <3> QED BY <2>5, <3>1, <3>2 DEF Attach, RequestTypes, TypeOK, eventVars, mapVars
  <2>6. CASE AttachRefused(r) \/ FinishDetach(r) \/ FinishOperation(r)
    <3>1. RequestTypes'
      BY <2>6, ResumeTypes DEF AttachRefused, FinishDetach, FinishOperation, RequestTypes, Point
    <3>2. target[r] \in Runtime \cup {0} BY DEF TypeOK
    <3>3. stage' \in [Runtime -> Stage]
      BY <1>1, <2>6, <3>2, MaybeDisposeEffect
      DEF AttachRefused, FinishDetach, FinishOperation, TypeOK
    <3> QED BY <2>6, <3>1, <3>3 DEF AttachRefused, FinishDetach, FinishOperation,
                                    RequestTypes, TypeOK, eventVars, mapVars
  <2> QED BY <1>3, <2>1, <2>2, <2>3, <2>4, <2>5, <2>6 DEF Settles
<1>4. ASSUME NEW c \in Connection, TransportCloses(c) \/ Disconnect(c) PROVE TypeOK'
  <2>1. CASE TransportCloses(c)
    BY <2>1 DEF TransportCloses, TypeOK, eventVars, mapVars, requestVars
  <2>2. CASE Disconnect(c)
    <3>1. stage' \in [Runtime -> Stage]
      BY <1>1, <2>2, MaybeDisposeEffect DEF Disconnect, TypeOK
    <3>2. connections' \in [Runtime -> SUBSET Connection]
      BY <2>2 DEF Disconnect, LeaveLive, TypeOK
    <3> QED BY <2>2, <3>1, <3>2 DEF Disconnect, TypeOK, eventVars, mapVars, requestVars
  <2> QED BY <1>4, <2>1, <2>2
<1>5. ASSUME NEW n \in Runtime, RuntimeEvent(n) \/ RuntimeError(n) PROVE TypeOK'
  <2>1. stage' \in [Runtime -> Stage]
    BY <1>1, <1>5, MaybeDisposeEffect DEF RuntimeEvent, RuntimeError, TypeOK
  <2> QED BY <1>5, <2>1 DEF RuntimeEvent, RuntimeError, TypeOK, mapVars, requestVars
<1>6. ASSUME NEW n \in Runtime, RuntimeSettles(n) PROVE TypeOK'
  <2>1. CASE Terminate(n)
    <3>1. stage' \in [Runtime -> Stage]
      BY <1>1, <2>1, MaybeDisposeEffect DEF Terminate, TypeOK
    <3>2. connections' \in [Runtime -> SUBSET Connection]
      BY <2>1 DEF Terminate, LeaveLive, TypeOK
    <3> QED BY <2>1, <3>1, <3>2 DEF Terminate, TypeOK, mapVars, requestVars
  <2>2. CASE Disposed(n)
    <3>1. RequestTypes'
      <4>1. CASE Resume(Waiting("awaitDisposing", n), "idle", 0)
        BY <4>1, ResumeTypes DEF RequestTypes, Point
      <4>2. CASE ~Resume(Waiting("awaitDisposing", n), "idle", 0)
        BY <2>2, <4>2 DEF Disposed, RequestTypes, Point, TypeOK
      <4> QED BY <4>1, <4>2
    <3>2. opening' \in Request \cup {None}
      BY <2>2 DEF Disposed, Waiting, TypeOK
    <3> QED BY <2>2, <3>1, <3>2 DEF Disposed, Discard, RequestTypes, TypeOK, Stage
  <2>3. CASE DisposedByClose(n)
    BY <2>3 DEF DisposedByClose, Discard, TypeOK, mapVars, requestVars, Stage
  <2> QED BY <1>6, <2>1, <2>2, <2>3 DEF RuntimeSettles
<1>7. CASE Close \/ CloseSettles
  BY <1>7 DEF Close, CloseSettles, CloseConnections, CloseSessions, Closed, TypeOK,
              eventVars, mapVars, requestVars, Stage, Closing
<1>8. CASE UNCHANGED vars
  BY <1>8 DEF vars, TypeOK
<1> QED BY <1>2, <1>3, <1>4, <1>5, <1>6, <1>7, <1>8 DEF Next, Rest

\* Every variable keeps its type, and a request has a runtime in hand exactly at the
\* points that need one (TypeOK).
THEOREM TypeCorrect == Spec => []TypeOK
BY InitTypes, NextTypes, PTL DEF Spec
-----------------------------------------------------------------------------
LEMMA InitMaps == Init => MapsAgree /\ ExclusiveRuntime
BY RuntimeIsNotZero, BoundAssumption DEF Init, MapsAgree, ExclusiveRuntime, IsOpen

\* The requests at this point are the same as before, and so is what they have in hand.
SameAt(point) ==
  \A r \in Request : pc'[r] = point => pc[r] = point /\ target'[r] = target[r]

\* A step that hands out no runtime and ends no disposal: maybeDispose may start one.
QuietRequests ==
  /\ SameAt("opening") /\ SameAt("snapshot")
  /\ \A r \in Request : pc'[r] = "awaitDisposing" =>
       \/ pc[r] = "awaitDisposing" /\ target'[r] = target[r]
       \/ target'[r] \in Runtime /\ stage[target'[r]] = "disposing"
  /\ \A r \in Request : pc[r] \in {"opening", "snapshot"} =>
       pc'[r] = pc[r] /\ target'[r] = target[r]

Quiet ==
  /\ UNCHANGED mapVars
  /\ \E n \in Runtime \cup {0} : MayDispose(n)
  /\ QuietRequests
  /\ \A c \in Connection : connection[c] = "closed" => connection'[c] = "closed"

LEMMA QuietKeepsMaps == ASSUME Inv, Quiet PROVE (MapsAgree /\ ExclusiveRuntime)'
<1> USE RuntimeIsNotZero DEF Inv
<1>1. /\ liveSession' = liveSession /\ opening' = opening
      /\ \A m \in Runtime : stage'[m] = stage[m] \/ (stage[m] = "live" /\ stage'[m] = "disposing")
  <2>1. PICK n \in Runtime \cup {0} : MayDispose(n) BY DEF Quiet
  <2>2. stage \in [Runtime -> Stage] BY DEF TypeOK
  <2> QED BY <2>1, <2>2 DEF Quiet, MayDispose, mapVars
<1>2. \A m \in Runtime : IsOpen(m)' <=> IsOpen(m) BY <1>1 DEF IsOpen
<1>3. ExclusiveRuntime'
  BY <1>1, <1>2 DEF ExclusiveRuntime, Quiet, QuietRequests, SameAt
<1>4. liveSession' # 0 => stage'[liveSession'] \in {"live", "disposing"}
  BY <1>1 DEF MapsAgree, TypeOK
<1>5. opening' # None => liveSession' = 0 /\ pc'[opening'] \in {"opening", "snapshot"}
  <2> HAVE opening' # None
  <2>1. opening \in Request /\ liveSession = 0 /\ pc[opening] \in {"opening", "snapshot"}
    BY <1>1 DEF MapsAgree, TypeOK
  <2>2. pc'[opening] = pc[opening] BY <2>1 DEF Quiet, QuietRequests
  <2> QED BY <1>1, <2>1, <2>2
<1>6. ASSUME NEW r \in Request
      PROVE  /\ pc'[r] \in {"opening", "snapshot"} => opening' = r
             /\ pc'[r] = "snapshot" => stage'[target'[r]] \in {"snapshot", "failing"}
             /\ pc'[r] = "awaitDisposing" => stage'[target'[r]] = "disposing"
  <2>1. pc'[r] \in {"opening", "snapshot"} => opening' = r
    BY <1>1 DEF MapsAgree, Quiet, QuietRequests, SameAt
  <2>2. pc'[r] = "snapshot" => stage'[target'[r]] \in {"snapshot", "failing"}
    <3> HAVE pc'[r] = "snapshot"
    <3>1. pc[r] = "snapshot" /\ target'[r] = target[r] BY DEF Quiet, QuietRequests, SameAt
    <3>2. target[r] \in Runtime BY <3>1 DEF TypeOK
    <3>3. stage[target[r]] \in {"snapshot", "failing"} BY <3>1 DEF MapsAgree
    <3> QED BY <1>1, <3>1, <3>2, <3>3
  <2>3. pc'[r] = "awaitDisposing" => stage'[target'[r]] = "disposing"
    <3> HAVE pc'[r] = "awaitDisposing"
    <3>1. CASE pc[r] = "awaitDisposing" /\ target'[r] = target[r]
      <4>1. target[r] \in Runtime /\ stage[target[r]] = "disposing"
        BY <3>1 DEF MapsAgree, TypeOK
      <4> QED BY <1>1, <3>1, <4>1
    <3>2. CASE target'[r] \in Runtime /\ stage[target'[r]] = "disposing" BY <1>1, <3>2
    <3> QED BY <3>1, <3>2 DEF Quiet, QuietRequests
  <2> QED BY <2>1, <2>2, <2>3
<1>7. ASSUME NEW n \in Runtime, IsOpen(n)'
      PROVE  \/ n = liveSession'
             \/ opening' # None /\ pc'[opening'] = "snapshot" /\ n = target'[opening']
             \/ /\ opening' = None /\ liveSession' = 0 /\ stage'[n] \in {"disposing", "closing"}
                /\ \A c \in Connection : connection'[c] = "closed"
  <2>1. IsOpen(n) BY <1>2, <1>7
  <2>2. CASE opening # None /\ pc[opening] = "snapshot" /\ n = target[opening]
    <3>1. opening \in Request BY <2>2 DEF TypeOK
    <3> QED BY <1>1, <2>2, <3>1 DEF Quiet, QuietRequests
  <2>3. CASE n = liveSession BY <1>1, <2>3
  <2>4. CASE /\ opening = None /\ liveSession = 0 /\ stage[n] \in {"disposing", "closing"}
             /\ \A c \in Connection : connection[c] = "closed"
    BY <1>1, <2>4 DEF Quiet
  <2>5. \/ n = liveSession
        \/ opening # None /\ pc[opening] = "snapshot" /\ n = target[opening]
        \/ /\ opening = None /\ liveSession = 0 /\ stage[n] \in {"disposing", "closing"}
           /\ \A c \in Connection : connection[c] = "closed"
    BY <2>1 DEF MapsAgree
  <2> QED BY <2>2, <2>3, <2>4, <2>5
<1> QED BY <1>3, <1>4, <1>5, <1>6, <1>7 DEF MapsAgree

LEMMA ResumeIsQuiet ==
  ASSUME TypeOK, NEW r \in Request, NEW point, NEW n, Resume({r}, point, n),
         pc[r] \notin {"opening", "snapshot"}, point \notin {"opening", "snapshot"},
         point = "awaitDisposing" => n \in Runtime /\ stage[n] = "disposing"
  PROVE  QuietRequests
BY DEF QuietRequests, SameAt, Resume, TypeOK

\* While a runtime is being opened nobody waits for the end of another.
LEMMA NobodyWaits ==
  ASSUME Inv, opening # None
  PROVE  \A q \in Request : pc[q] # "awaitDisposing"
<1> USE RuntimeIsNotZero DEF Inv
<1> SUFFICES ASSUME NEW q \in Request, pc[q] = "awaitDisposing" PROVE FALSE OBVIOUS
<1>1. target[q] \in Runtime /\ stage[target[q]] = "disposing" BY DEF MapsAgree, TypeOK
<1>2. liveSession = 0 /\ opening \in Request BY DEF MapsAgree, TypeOK
<1>3. pc[opening] = "snapshot" /\ target[q] = target[opening]
  BY <1>1, <1>2 DEF MapsAgree, IsOpen
<1> QED BY <1>1, <1>2, <1>3 DEF MapsAgree

\* A step after which no runtime is open, and nobody is opening or waiting for one.
LEMMA AllGone ==
  ASSUME liveSession' = 0, opening' = None, \A n \in Runtime : ~IsOpen(n)',
         \A q \in Request : pc'[q] \notin {"opening", "snapshot", "awaitDisposing"}
  PROVE  (MapsAgree /\ ExclusiveRuntime)'
BY DEF MapsAgree, ExclusiveRuntime

LEMMA NextMaps == Inv /\ [Next]_vars => (MapsAgree /\ ExclusiveRuntime)'
<1> SUFFICES ASSUME Inv, [Next]_vars PROVE (MapsAgree /\ ExclusiveRuntime)' OBVIOUS
<1> USE RuntimeIsNotZero DEF Inv
<1>1. ASSUME NEW r \in Request, ClientStep(r) PROVE (MapsAgree /\ ExclusiveRuntime)'
  <2>1. CASE Acquire(r) /\ opening' = opening
    <3>1. QuietRequests
      <4>1. CASE Resume({r}, "awaitOpening", 0)
        BY <2>1, <4>1, ResumeIsQuiet DEF Acquire, Issue
      <4>2. CASE liveSession # 0 /\ IsDisposing(liveSession) /\ Resume({r}, "awaitDisposing", liveSession)
        <5>1. liveSession \in Runtime /\ stage[liveSession] = "disposing"
          BY <4>2 DEF TypeOK, MapsAgree, IsDisposing
        <5> QED BY <2>1, <4>2, <5>1, ResumeIsQuiet DEF Acquire, Issue
      <4>3. CASE Resume({r}, "acquired", liveSession)
        BY <2>1, <4>3, ResumeIsQuiet DEF Acquire, Issue
      <4> QED BY <2>1, <4>1, <4>2, <4>3, BoundAssumption DEF Acquire, Shares
    <3>2. Quiet BY <2>1, <3>1 DEF Acquire, Quiet, MayDispose, mapVars
    <3> QED BY <3>2, QuietKeepsMaps
  <2>2. CASE Acquire(r) /\ opening' # opening
    <3>1. /\ liveSession = 0 /\ opening = None /\ opening' = r
          /\ pc[r] = "idle" /\ connection[Client(r)] = "ready" /\ Client(r) \in Connection
          /\ Resume({r}, "opening", 0)
          /\ UNCHANGED <<liveSession, stage, connection>>
      BY <2>2, ClientType DEF Acquire, Issue, Shares
    <3>2. pc' = [pc EXCEPT ![r] = "opening"] /\ target' = [target EXCEPT ![r] = 0]
      BY <3>1 DEF Resume, TypeOK
    <3>3. \A n \in Runtime : ~IsOpen(n) /\ ~IsOpen(n)' BY <3>1 DEF MapsAgree, IsOpen
    <3>4. \A q \in Request : pc[q] \notin {"opening", "snapshot"}
      BY <3>1, BoundAssumption DEF MapsAgree
    <3>5. ASSUME NEW q \in Request
          PROVE  /\ pc'[q] \in {"opening", "snapshot"} => q = r /\ pc'[q] = "opening"
                 /\ pc'[q] = "awaitDisposing" => stage'[target'[q]] = "disposing"
      BY <3>1, <3>2, <3>4 DEF MapsAgree, TypeOK
    <3>6. pc'[r] = "opening" BY <3>2 DEF TypeOK
    <3> QED BY <3>1, <3>3, <3>5, <3>6 DEF MapsAgree, ExclusiveRuntime
  <2>3. CASE Detach(r)
    <3>1. QuietRequests
      <4>1. CASE Resume({r}, "detaching", liveSession)
        BY <2>3, <4>1, ResumeIsQuiet DEF Detach, Issue
      <4>2. CASE UNCHANGED requestVars BY <4>2 DEF requestVars, QuietRequests, SameAt, TypeOK
      <4> QED BY <2>3, <4>1, <4>2 DEF Detach
    <3>2. \E n \in Runtime \cup {0} : MayDispose(n)
      BY <2>3, MaybeDisposeEffect DEF Detach, MayDispose, TypeOK
    <3>3. Quiet BY <2>3, <3>1, <3>2 DEF Detach, Quiet
    <3> QED BY <3>3, QuietKeepsMaps
  <2>4. CASE Operate(r)
    <3>1. QuietRequests BY <2>4, ResumeIsQuiet DEF Operate, Issue
    <3>2. Quiet BY <2>4, <3>1 DEF Operate, Quiet, MayDispose
    <3> QED BY <3>2, QuietKeepsMaps
  <2> QED BY <1>1, <2>1, <2>2, <2>3, <2>4 DEF ClientStep
<1>2. ASSUME NEW r \in Request, Opened(r) PROVE (MapsAgree /\ ExclusiveRuntime)'
  <2>1. PICK n \in Runtime :
          /\ stage[n] = "unused" /\ Resume({r}, "snapshot", n)
          /\ stage' = [stage EXCEPT ![n] = IF closing = "open" THEN "snapshot" ELSE "failing"]
    BY <1>2 DEF Opened
  <2>2. pc' = [pc EXCEPT ![r] = "snapshot"] /\ target' = [target EXCEPT ![r] = n]
    BY <2>1 DEF Resume, TypeOK
  <2>3. /\ pc[r] = "opening" /\ opening = r /\ opening' = r
        /\ liveSession = 0 /\ liveSession' = 0
    BY <1>2, BoundAssumption DEF Opened, mapVars, MapsAgree
  <2>4. \A m \in Runtime : ~IsOpen(m) /\ (IsOpen(m)' => m = n)
    BY <2>1, <2>3 DEF ExclusiveRuntime, IsOpen, TypeOK
  <2>5. /\ pc'[r] = "snapshot" /\ target'[r] = n /\ stage'[n] \in {"snapshot", "failing"}
        /\ \A q \in Request : q # r => pc'[q] = pc[q] /\ target'[q] = target[q]
    BY <2>1, <2>2 DEF TypeOK
  <2>6. ASSUME NEW q \in Request
        PROVE  /\ pc'[q] \in {"opening", "snapshot"} => q = r
               /\ pc'[q] # "awaitDisposing"
    <3>1. pc[q] = "awaitDisposing" => target[q] \in Runtime /\ stage[target[q]] = "disposing"
      BY DEF MapsAgree, TypeOK
    <3>2. pc[q] # "awaitDisposing" BY <2>4, <3>1 DEF IsOpen
    <3> QED BY <2>3, <2>5, <3>2 DEF MapsAgree
  <2> QED BY <2>3, <2>4, <2>5, <2>6, BoundAssumption DEF MapsAgree, ExclusiveRuntime
<1>3. ASSUME NEW r \in Request, OpeningFails(r), opening = r, UNCHANGED <<liveSession, connection>>,
             \A n \in Runtime : ~IsOpen(n)'
      PROVE  (MapsAgree /\ ExclusiveRuntime)'
  <2>1. liveSession' = 0 /\ opening' = None BY <1>3, BoundAssumption DEF OpeningFails, MapsAgree
  <2>2. ASSUME NEW q \in Request
        PROVE  pc'[q] \notin {"opening", "snapshot", "awaitDisposing"}
    BY <1>3, NobodyWaits, BoundAssumption DEF OpeningFails, Resume, WithWaiters, MapsAgree
  <2> QED BY <1>3, <2>1, <2>2, AllGone
<1>4. ASSUME NEW r \in Request, OpenFails(r) \/ CreateFails(r) PROVE (MapsAgree /\ ExclusiveRuntime)'
  <2>1. opening = r /\ OpeningFails(r) /\ UNCHANGED <<liveSession, connection>>
    BY <1>4 DEF OpenFails, CreateFails, MapsAgree
  <2>2. CASE OpenFails(r)
    <3>1. \A n \in Runtime : ~IsOpen(n)' BY <2>2 DEF OpenFails, ExclusiveRuntime, IsOpen
    <3> QED BY <1>3, <2>1, <3>1
  <2>3. CASE CreateFails(r)
    <3>1. target[r] \in Runtime /\ IsOpen(target[r]) /\ pc[r] = "snapshot"
      BY <2>3 DEF CreateFails, TypeOK, IsOpen
    <3>2. \A n \in Runtime : n # target[r] => ~IsOpen(n) BY <3>1 DEF ExclusiveRuntime
    <3>3. \A n \in Runtime : ~IsOpen(n)' BY <2>3, <3>1, <3>2 DEF CreateFails, IsOpen, TypeOK
    <3> QED BY <1>3, <2>1, <3>3
  <2> QED BY <1>4, <2>2, <2>3
<1>5. ASSUME NEW r \in Request, SnapshotRead(r) PROVE (MapsAgree /\ ExclusiveRuntime)'
  <2>1. /\ target[r] \in Runtime /\ stage[target[r]] = "snapshot" /\ opening = r
        /\ opening' = None /\ liveSession' = target[r] /\ liveSession' # 0
        /\ stage' = [stage EXCEPT ![target[r]] = "live"]
    BY <1>5 DEF SnapshotRead, MapsAgree, TypeOK
  <2>2. \A n \in Runtime : n # target[r] => ~IsOpen(n)
    BY <2>1 DEF ExclusiveRuntime, IsOpen
  <2>3. stage'[target[r]] = "live" /\ \A n \in Runtime : IsOpen(n)' => n = target[r]
    BY <2>1, <2>2 DEF IsOpen, TypeOK
  <2>4. ASSUME NEW q \in Request
        PROVE  pc'[q] \notin {"opening", "snapshot", "awaitDisposing"}
    BY <1>5, <2>1, NobodyWaits, BoundAssumption DEF SnapshotRead, Resume, WithWaiters, MapsAgree
  <2> QED BY <2>1, <2>3, <2>4 DEF MapsAgree, ExclusiveRuntime
<1>6. ASSUME NEW r \in Request, SnapshotFails(r) PROVE (MapsAgree /\ ExclusiveRuntime)'
  <2>1. /\ target[r] \in Runtime /\ stage[target[r]] = "snapshot" /\ opening = r /\ liveSession = 0
        /\ UNCHANGED <<opening, liveSession, pc, target, connection>>
        /\ stage' = [stage EXCEPT ![target[r]] = "failing"]
    BY <1>6, BoundAssumption DEF SnapshotFails, MapsAgree, TypeOK, mapVars, requestVars
  <2>2. /\ stage'[target[r]] = "failing"
        /\ \A n \in Runtime : IsOpen(n)' <=> IsOpen(n)
    BY <2>1 DEF IsOpen, TypeOK
  <2>3. \A q \in Request : /\ pc[q] \in {"opening", "snapshot"} => q = r
                           /\ pc[q] # "awaitDisposing"
    BY <2>1, NobodyWaits, BoundAssumption DEF MapsAgree
  <2> QED BY <1>6, <2>1, <2>2, <2>3 DEF MapsAgree, ExclusiveRuntime, SnapshotFails
<1>7. ASSUME QuietRequests, \E n \in Runtime \cup {0} : MayDispose(n), UNCHANGED mapVars,
             \A c \in Connection : connection[c] = "closed" => connection'[c] = "closed"
      PROVE  (MapsAgree /\ ExclusiveRuntime)'
  BY <1>7, QuietKeepsMaps DEF Quiet
<1>8. ASSUME UNCHANGED requestVars PROVE QuietRequests
  BY <1>8 DEF requestVars, QuietRequests, SameAt
<1>9. ASSUME NEW r \in Request,
             Attach(r) \/ AttachRefused(r) \/ FinishDetach(r) \/ FinishOperation(r)
      PROVE  (MapsAgree /\ ExclusiveRuntime)'
  <2>1. QuietRequests
    BY <1>9, ResumeIsQuiet DEF Attach, AttachRefused, FinishDetach, FinishOperation
  <2>2. target[r] \in Runtime \cup {0} BY DEF TypeOK
  <2>3. \E n \in Runtime \cup {0} : MayDispose(n)
    BY <1>9, <2>2, MaybeDisposeEffect
    DEF Attach, AttachRefused, FinishDetach, FinishOperation, MayDispose
  <2>4. UNCHANGED <<mapVars, connection>>
    BY <1>9 DEF Attach, AttachRefused, FinishDetach, FinishOperation
  <2> QED BY <1>7, <2>1, <2>3, <2>4
<1>10. ASSUME NEW c \in Connection, TransportCloses(c) \/ Disconnect(c)
       PROVE  (MapsAgree /\ ExclusiveRuntime)'
  <2>1. UNCHANGED <<mapVars, requestVars>> BY <1>10 DEF TransportCloses, Disconnect
  <2>2. \E n \in Runtime \cup {0} : MayDispose(n)
    BY <1>10, MaybeDisposeEffect DEF TransportCloses, Disconnect, MayDispose, TypeOK
  <2>3. \A d \in Connection : connection[d] = "closed" => connection'[d] = "closed"
    BY <1>10 DEF TransportCloses, Disconnect, TypeOK
  <2> QED BY <1>7, <1>8, <2>1, <2>2, <2>3
<1>11. ASSUME NEW n \in Runtime, RuntimeEvent(n) \/ RuntimeError(n) \/ Terminate(n)
       PROVE  (MapsAgree /\ ExclusiveRuntime)'
  <2>1. UNCHANGED <<mapVars, requestVars>> BY <1>11 DEF RuntimeEvent, RuntimeError, Terminate
  <2>2. \E m \in Runtime \cup {0} : MayDispose(m)
    BY <1>11, MaybeDisposeEffect DEF RuntimeEvent, RuntimeError, Terminate, MayDispose, TypeOK
  <2>3. \A d \in Connection : connection[d] = "closed" => connection'[d] = "closed"
    BY <1>11 DEF RuntimeEvent, RuntimeError, Terminate, TypeOK
  <2> QED BY <1>7, <1>8, <2>1, <2>2, <2>3
<1>12. CASE Close \/ CloseConnections \/ Closed
  <2>1. UNCHANGED <<mapVars, requestVars, stage>> BY <1>12 DEF Close, CloseConnections, Closed
  <2>2. \A d \in Connection : connection[d] = "closed" => connection'[d] = "closed"
    BY <1>12 DEF Close, CloseConnections, Closed, TypeOK
  <2> QED BY <1>7, <1>8, <2>1, <2>2 DEF MayDispose
<1>13. ASSUME NEW n \in Runtime, Disposed(n) PROVE (MapsAgree /\ ExclusiveRuntime)'
  <2> DEFINE waiting == Waiting("awaitDisposing", n)
  <2>1. stage[n] = "disposing" /\ IsOpen(n) /\ stage' = [stage EXCEPT ![n] = "disposed"]
    BY <1>13 DEF Disposed, Discard, IsOpen
  <2>2. opening = None /\ \A q \in Request : pc[q] \notin {"opening", "snapshot"}
    <3>1. opening # None => opening \in Request /\ liveSession = 0 BY DEF MapsAgree, TypeOK
    <3>2. opening # None => pc[opening] = "snapshot" /\ n = target[opening]
      BY <2>1, <3>1 DEF MapsAgree
    <3>3. opening = None BY <2>1, <3>1, <3>2 DEF MapsAgree
    <3> QED BY <3>3, BoundAssumption DEF MapsAgree
  <2>3. \A m \in Runtime : IsOpen(m) => m = n BY <2>1 DEF ExclusiveRuntime
  <2>4. liveSession' = 0
    <3>1. liveSession # 0 => liveSession \in Runtime /\ IsOpen(liveSession)
      BY DEF MapsAgree, TypeOK, IsOpen
    <3> QED BY <1>13, <2>3, <3>1 DEF Disposed
  <2>5. \A m \in Runtime : ~IsOpen(m)' BY <2>1, <2>3 DEF IsOpen, TypeOK
  <2>6. \A q \in Request : pc[q] = "awaitDisposing" => q \in waiting
    <3> SUFFICES ASSUME NEW q \in Request, pc[q] = "awaitDisposing" PROVE q \in waiting
      OBVIOUS
    <3>1. target[q] \in Runtime BY DEF TypeOK
    <3>2. stage[target[q]] = "disposing" BY DEF MapsAgree
    <3>3. target[q] = n BY <2>3, <3>1, <3>2 DEF IsOpen
    <3> QED BY <3>3 DEF Waiting
  <2>7. CASE Resume(waiting, "idle", 0) /\ UNCHANGED opening
    <3>1. \A q \in Request : pc'[q] \notin {"opening", "snapshot", "awaitDisposing"}
      BY <2>2, <2>6, <2>7 DEF Resume
    <3> QED BY <2>2, <2>4, <2>5, <2>7, <3>1, AllGone
  <2>8. CASE ~(Resume(waiting, "idle", 0) /\ UNCHANGED opening)
    <3>1. PICK first \in waiting :
            /\ pc' = [r \in Request |-> IF r = first THEN "opening"
                                        ELSE IF r \in waiting THEN "awaitOpening" ELSE pc[r]]
            /\ opening' = first
      BY <1>13, <2>8 DEF Disposed
    <3>2. first \in Request BY DEF Waiting
    <3>3. pc'[first] = "opening" BY <3>1, <3>2
    <3>4. \A q \in Request : /\ pc'[q] \in {"opening", "snapshot"} => q = first
                             /\ pc'[q] \notin {"snapshot", "awaitDisposing"}
      BY <2>2, <2>6, <3>1
    <3> QED BY <2>4, <2>5, <3>1, <3>2, <3>3, <3>4 DEF MapsAgree, ExclusiveRuntime
  <2> QED BY <2>7, <2>8
<1>14. ASSUME NEW n \in Runtime, DisposedByClose(n) PROVE (MapsAgree /\ ExclusiveRuntime)'
  <2>1. /\ stage[n] = "closing" /\ IsOpen(n) /\ stage' = [stage EXCEPT ![n] = "disposed"]
        /\ UNCHANGED <<liveSession, opening, pc>>
    BY <1>14 DEF DisposedByClose, Discard, IsOpen, mapVars, requestVars
  <2>2. \A m \in Runtime : IsOpen(m) => m = n BY <2>1 DEF ExclusiveRuntime
  <2>3. opening # None => opening \in Request BY DEF TypeOK
  <2>4. liveSession = 0 /\ opening = None BY <2>1, <2>3 DEF MapsAgree
  <2>5. \A m \in Runtime : ~IsOpen(m)' BY <2>1, <2>2 DEF IsOpen, TypeOK
  <2>6. \A q \in Request : pc[q] \notin {"opening", "snapshot"}
    BY <2>4, BoundAssumption DEF MapsAgree
  <2>7. ASSUME NEW q \in Request, pc[q] = "awaitDisposing" PROVE FALSE
    <3>1. target[q] \in Runtime /\ stage[target[q]] = "disposing" BY <2>7 DEF MapsAgree, TypeOK
    <3> QED BY <2>1, <2>2, <3>1 DEF IsOpen
  <2> QED BY <2>1, <2>4, <2>5, <2>6, <2>7, AllGone
<1>15. CASE CloseSessions
  <2>1. /\ opening = None /\ liveSession' = 0 /\ UNCHANGED <<connection, opening, pc, target>>
        /\ \A c \in Connection : connection[c] = "closed"
        /\ stage' = [n \in Runtime |->
                      IF n = liveSession /\ ~IsDisposing(n) THEN "closing" ELSE stage[n]]
    BY <1>15 DEF CloseSessions, requestVars
  <2>2. \A n \in Runtime : n = liveSession => stage[n] \in {"live", "disposing"} BY DEF MapsAgree
  <2>3. \A n \in Runtime : /\ IsOpen(n)' <=> IsOpen(n)
                           /\ stage[n] = "disposing" => stage'[n] = "disposing"
    BY <2>1, <2>2 DEF IsOpen, IsDisposing
  <2>4. \A n \in Runtime : IsOpen(n) => stage'[n] \in {"disposing", "closing"}
    BY <2>1, <2>2 DEF MapsAgree, IsDisposing
  <2>5. ASSUME NEW q \in Request
        PROVE  /\ pc[q] \notin {"opening", "snapshot"}
               /\ pc[q] = "awaitDisposing" => stage'[target[q]] = "disposing"
    <3>1. pc[q] \notin {"opening", "snapshot"} BY <2>1, BoundAssumption DEF MapsAgree
    <3>2. pc[q] = "awaitDisposing" => target[q] \in Runtime /\ stage[target[q]] = "disposing"
      BY DEF MapsAgree, TypeOK
    <3> QED BY <2>3, <3>1, <3>2
  <2> QED BY <2>1, <2>3, <2>4, <2>5 DEF MapsAgree, ExclusiveRuntime
<1>16. CASE UNCHANGED vars
  BY <1>7, <1>8, <1>16 DEF vars, mapVars, requestVars, MayDispose
<1> QED BY <1>1, <1>2, <1>4, <1>5, <1>6, <1>9, <1>10, <1>11, <1>12, <1>13, <1>14, <1>15, <1>16
        DEF Next, Rest, Settles, RuntimeSettles, CloseSettles
-----------------------------------------------------------------------------
\* The maps of the live and of the opening sessions name every runtime that is open
\* (MapsAgree): the inductive invariant behind RuntimesAreExclusive.
THEOREM MapsNameOpenRuntimes == Spec => [](MapsAgree /\ ExclusiveRuntime)
<1>1. Init => Inv BY InitTypes, InitMaps DEF Inv
<1>2. Inv /\ [Next]_vars => Inv' BY NextTypes, NextMaps DEF Inv
<1>3. Inv => MapsAgree /\ ExclusiveRuntime BY DEF Inv
<1> QED BY <1>1, <1>2, <1>3, PTL DEF Spec

\* At most one runtime of the session is open, and the service is asked for one only
\* when none is (ExclusiveRuntime), for any number of clients and requests.
THEOREM RuntimesAreExclusive == Spec => []ExclusiveRuntime
BY MapsNameOpenRuntimes, PTL
-----------------------------------------------------------------------------
\* maybeDispose spares a runtime that an operation of the next state has in hand.
LEMMA OperationSpared ==
  ASSUME TypeOK, NEW n \in Runtime \cup {0}, MaybeDispose(n), NEW r \in Request,
         pc'[r] = "operating", target'[r] \in Runtime, stage[target'[r]] = "live"
  PROVE  stage'[target'[r]] = "live"
<1>1. CASE target'[r] = n
  <2>1. Operations(n, pc', target') # {} BY <1>1 DEF Operations
  <2> QED BY <2>1 DEF MaybeDispose
<1>2. CASE target'[r] # n
  BY <1>2 DEF MaybeDispose, TypeOK
<1> QED BY <1>1, <1>2

\* An operation of the next state was running before, or starts on the live session.
LEMMA OperationsStart ==
  ASSUME Inv, [Next]_vars, NEW r \in Request, pc'[r] = "operating"
  PROVE  Operate(r) \/ (pc[r] = "operating" /\ target'[r] = target[r])
<1> USE DEF Inv
<1>1. ASSUME NEW q \in Request, ClientStep(q)
      PROVE  Operate(r) \/ (pc[r] = "operating" /\ target'[r] = target[r])
  BY <1>1 DEF ClientStep, Acquire, Detach, Operate, Resume, requestVars, TypeOK
<1>2. ASSUME NEW q \in Request, Settles(q)
      PROVE  pc[r] = "operating" /\ target'[r] = target[r]
  BY <1>2 DEF Settles, Opened, OpenFails, SnapshotRead, SnapshotFails, CreateFails, Attach,
              AttachRefused, FinishDetach, FinishOperation, OpeningFails, Resume,
              requestVars, TypeOK
<1>3. ASSUME NEW n \in Runtime, RuntimeSettles(n)
      PROVE  pc[r] = "operating" /\ target'[r] = target[r]
  BY <1>3 DEF RuntimeSettles, Terminate, Disposed, DisposedByClose, Resume, requestVars, TypeOK
<1>4. CASE UNCHANGED requestVars
  BY <1>4 DEF requestVars
<1>5. ASSUME NEW c \in Connection, TransportCloses(c) \/ Disconnect(c) PROVE UNCHANGED requestVars
  BY <1>5 DEF TransportCloses, Disconnect
<1>6. ASSUME NEW n \in Runtime, RuntimeEvent(n) \/ RuntimeError(n) PROVE UNCHANGED requestVars
  BY <1>6 DEF RuntimeEvent, RuntimeError
<1>7. CASE Close \/ CloseSettles
  BY <1>4, <1>7 DEF Close, CloseSettles, CloseConnections, CloseSessions, Closed
<1>8. CASE UNCHANGED vars
  BY <1>4, <1>8 DEF vars, requestVars
<1> QED BY <1>1, <1>2, <1>3, <1>4, <1>5, <1>6, <1>7, <1>8 DEF Next, Rest

LEMMA NextOperations == Inv /\ OperationsKeepRuntime /\ [Next]_vars => OperationsKeepRuntime'
<1> SUFFICES ASSUME Inv, OperationsKeepRuntime, [Next]_vars, closing' = "open",
                    NEW r \in Request, pc'[r] = "operating"
             PROVE  stage'[target'[r]] = "live"
  BY DEF OperationsKeepRuntime
<1> USE RuntimeIsNotZero DEF Inv
<1>1. closing = "open"
  BY DEF Next, ClientStep, Settles, RuntimeSettles, CloseSettles, Rest, vars, Acquire, Detach,
         Operate, Opened, OpenFails, SnapshotRead, SnapshotFails, CreateFails, Attach,
         AttachRefused, FinishDetach, FinishOperation, TransportCloses, Disconnect,
         RuntimeEvent, RuntimeError, Terminate, Disposed, DisposedByClose, Close,
         CloseConnections, CloseSessions, Closed
<1>2. target'[r] \in Runtime /\ stage[target'[r]] = "live"
  <2>1. CASE Operate(r)
    <3>1. target'[r] = liveSession /\ liveSession # 0 /\ ~IsDisposing(liveSession)
      BY <2>1 DEF Operate, Resume
    <3> QED BY <3>1 DEF TypeOK, MapsAgree, IsDisposing
  <2>2. CASE pc[r] = "operating" /\ target'[r] = target[r]
    BY <1>1, <2>2 DEF OperationsKeepRuntime, TypeOK
  <2> QED BY <2>1, <2>2, OperationsStart
<1>3. ASSUME NEW n \in Runtime \cup {0}, MaybeDispose(n) PROVE stage'[target'[r]] = "live"
  BY <1>2, <1>3, OperationSpared
<1>4. ASSUME UNCHANGED stage PROVE stage'[target'[r]] = "live"
  BY <1>2, <1>4
<1>5. ASSUME NEW q \in Request, ClientStep(q) PROVE stage'[target'[r]] = "live"
  BY <1>3, <1>4, <1>5 DEF ClientStep, Acquire, Detach, Operate, TypeOK
<1>6. ASSUME NEW q \in Request, Settles(q) PROVE stage'[target'[r]] = "live"
  <2>1. target[q] \in Runtime \cup {0} BY DEF TypeOK
  <2>2. CASE Opened(q) \/ SnapshotRead(q) \/ SnapshotFails(q) \/ CreateFails(q)
    BY <1>2, <2>2 DEF Opened, SnapshotRead, SnapshotFails, CreateFails, TypeOK
  <2>3. CASE OpenFails(q) \/ Attach(q)
    BY <1>4, <2>3 DEF OpenFails, Attach
  <2>4. CASE AttachRefused(q) \/ FinishDetach(q) \/ FinishOperation(q)
    BY <1>3, <1>4, <2>1, <2>4 DEF AttachRefused, FinishDetach, FinishOperation
  <2> QED BY <1>6, <2>2, <2>3, <2>4 DEF Settles
<1>7. ASSUME NEW c \in Connection, TransportCloses(c) \/ Disconnect(c)
      PROVE  stage'[target'[r]] = "live"
  BY <1>3, <1>4, <1>7 DEF TransportCloses, Disconnect, TypeOK
<1>8. ASSUME NEW n \in Runtime, RuntimeEvent(n) \/ RuntimeError(n)
      PROVE  stage'[target'[r]] = "live"
  BY <1>3, <1>4, <1>8 DEF RuntimeEvent, RuntimeError
<1>9. ASSUME NEW n \in Runtime, RuntimeSettles(n) PROVE stage'[target'[r]] = "live"
  <2>1. CASE Terminate(n)
    BY <1>3, <2>1 DEF Terminate, TypeOK
  <2>2. CASE Disposed(n) \/ DisposedByClose(n)
    BY <1>2, <2>2 DEF Disposed, DisposedByClose, Discard, TypeOK
  <2> QED BY <1>9, <2>1, <2>2 DEF RuntimeSettles
<1>10. CASE Close \/ CloseSettles
  BY <1>1, <1>4, <1>10 DEF Close, CloseSettles, CloseConnections, CloseSessions, Closed
<1>11. CASE UNCHANGED vars
  BY <1>4, <1>11 DEF vars
<1> QED BY <1>5, <1>6, <1>7, <1>8, <1>9, <1>10, <1>11 DEF Next, Rest

\* While the server is open, no runtime is disposed under a prompt, a steer, an abort or
\* a change of model (OperationsKeepRuntime), whoever detaches or disconnects meanwhile.
THEOREM OperationsKeepTheirRuntime == Spec => []OperationsKeepRuntime
<1>1. Init => Inv /\ OperationsKeepRuntime
  BY InitTypes, InitMaps DEF Inv, Init, OperationsKeepRuntime
<1>2. Inv /\ OperationsKeepRuntime /\ [Next]_vars => (Inv /\ OperationsKeepRuntime)'
  BY NextTypes, NextMaps, NextOperations DEF Inv
<1> QED BY <1>1, <1>2, PTL DEF Spec
=============================================================================
