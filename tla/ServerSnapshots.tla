--------------------------- MODULE ServerSnapshots ---------------------------
(***************************************************************************)
(* The handshake of PiServer and the snapshots by which its clients learn   *)
(* of sessions and models (packages/server/src/server.ts, snapshots.ts).    *)
(* A snapshot is read while others change what it shows: the handshake      *)
(* sends what it read, and catches up if the revision has moved; broadcasts *)
(* are queued one behind the other and go to those who are ready.           *)
(*                                                                          *)
(* What a snapshot shows is a version, `content'.  A connection delivers in *)
(* order, so that a message is applied when it is sent.  A continuation     *)
(* that comes after its connection has failed does nothing.                 *)
(***************************************************************************)
EXTENDS Naturals

CONSTANTS Connection,
          MaxChanges,     \* bound: changes of the sessions
          MaxFailures     \* bound: calls of the service that fail

ASSUME SnapshotAssumption ==
  MaxChanges \in Nat /\ MaxFailures \in Nat

VARIABLES closing,    \* PiServer: "open", "closing" its listeners, "down"
          stage,      \* ConnectionState.stage, and "none" before accept
          open,       \* the transport has not closed
          step,       \* what finishHandshake awaits
          draft,      \* the snapshot it has in hand
          seen,       \* the snapshot the client has
          revision,   \* ServerSnapshotPublisher.revision
          content,    \* the version of what listSessions and listModels tell
          owed,       \* changes whose broadcast is not called yet
          queued,     \* broadcasts in broadcastQueue that have not begun
          cast,       \* the broadcast that runs
          lost,       \* history: the last broadcast that was begun has failed
          missed,     \* history: a broadcast found nobody ready while they were in the
                      \* handshake with a snapshot in hand, and nothing was sent since
          failures

connectionVars == <<stage, open, step, draft, seen>>
castVars == <<revision, queued, cast, lost, missed>>
snapshotsVars == <<connectionVars, castVars, closing, content, owed, failures>>

Stage == {"none", "awaitingHello", "handshaking", "ready", "closing", "closed"}
Caught == {"relist", "remodels", "done"}      \* handshakeComplete
Step == {"none", "list", "models", "hello", "returned"} \cup Caught
Snapshot == [rev : Nat, ver : Nat]
Idle == [step |-> "idle", rev |-> 0, ver |-> 0, to |-> {}]

SnapshotsInit ==
  /\ closing = "open"
  /\ stage = [c \in Connection |-> "none"]
  /\ open = [c \in Connection |-> FALSE]
  /\ step = [c \in Connection |-> "none"]
  /\ draft = [c \in Connection |-> [rev |-> 0, ver |-> 0]]
  /\ seen = [c \in Connection |-> [rev |-> 0, ver |-> 0]]
  /\ revision = 0 /\ queued = 0 /\ cast = Idle /\ lost = FALSE /\ missed = {}
  /\ content = 0 /\ owed = 0 /\ failures = 0

Terminal(c) == stage[c] \in {"none", "closing", "closed"}
Complete(c) == step[c] \in Caught

\* ClientState.applyServerSnapshot: an older revision is ignored.
Applied(c, s) == [seen EXCEPT ![c] = IF s.rev < @.rev THEN @ ELSE s]

-----------------------------------------------------------------------------
(* The handshake.                                                           *)

Accept(c) ==
  /\ stage[c] = "none" /\ closing = "open"
  /\ stage' = [stage EXCEPT ![c] = "awaitingHello"]
  /\ open' = [open EXCEPT ![c] = TRUE]
  /\ UNCHANGED <<step, draft, seen, castVars, closing, content, owed, failures>>

\* ServerSnapshotPublisher.get takes the revision before it reads.
Reading(c) == draft' = [draft EXCEPT ![c].rev = revision]

Hello(c) ==
  /\ stage[c] = "awaitingHello" /\ open[c]
  /\ stage' = [stage EXCEPT ![c] = "handshaking"]
  /\ step' = [step EXCEPT ![c] = "list"]
  /\ Reading(c)
  /\ UNCHANGED <<open, seen, castVars, closing, content, owed, failures>>

\* listSessions has answered, and listModels is awaited.
Read(c) ==
  /\ ~Terminal(c) /\ step[c] \in {"list", "relist"}
  /\ step' = [step EXCEPT ![c] = IF @ = "list" THEN "models" ELSE "remodels"]
  /\ draft' = [draft EXCEPT ![c].ver = content]
  /\ UNCHANGED <<stage, open, seen, castVars, closing, content, owed, failures>>

\* A server that closes leaves the handshake to its timer, or to closeServerState.
SendHello(c) ==
  /\ stage[c] = "handshaking" /\ step[c] = "models" /\ open[c]
  /\ \/ /\ closing = "open"
        /\ step' = [step EXCEPT ![c] = "hello"]
        /\ seen' = [seen EXCEPT ![c] = draft[c]]
     \/ /\ closing # "open"
        /\ step' = [step EXCEPT ![c] = "returned"]
        /\ UNCHANGED seen
  /\ UNCHANGED <<stage, open, draft, castVars, closing, content, owed, failures>>

\* What changed since the snapshot was begun is sent after it.
NeverLate(c) == FALSE   \* a slip: the snapshot of the handshake is taken as current
IsLate(c) == draft[c].rev # revision

HelloSent(c) ==
  /\ stage[c] = "handshaking" /\ step[c] = "hello"
  /\ stage' = [stage EXCEPT ![c] = "ready"]
  /\ \/ /\ IsLate(c)
        /\ step' = [step EXCEPT ![c] = "relist"] /\ Reading(c)
        /\ missed' = missed \ {c}
     \/ /\ ~IsLate(c)
        /\ step' = [step EXCEPT ![c] = "done"]
        /\ UNCHANGED <<draft, missed>>
  /\ UNCHANGED <<open, seen, revision, queued, cast, lost, closing, content, owed, failures>>

CatchUp(c) ==
  /\ ~Terminal(c) /\ step[c] = "remodels" /\ open[c]
  /\ step' = [step EXCEPT ![c] = "done"]
  /\ seen' = Applied(c, draft[c])
  /\ UNCHANGED <<stage, open, draft, castVars, closing, content, owed, failures>>

\* failProtocol, also of a connection that is ready.
Fail(c) ==
  /\ ~Terminal(c)
  /\ stage' = [stage EXCEPT ![c] = "closing"]
  /\ UNCHANGED <<open, step, draft, seen, castVars, closing, content, owed>>

\* The service rejects listSessions or listModels.
ReadFails(c) ==
  /\ failures < MaxFailures /\ failures' = failures + 1
  /\ step[c] \in {"list", "models", "relist", "remodels"}
  /\ Fail(c)

\* A frame that cannot be decoded, an unsupported version, no hello first or a second one.
BadMessage(c) == open[c] /\ Fail(c) /\ UNCHANGED failures

\* The timer is cleared when the hello of the server has been sent, and not before.
Timed(c) == stage[c] \in {"awaitingHello", "handshaking"}
HandshakeTimeout(c) == Timed(c) /\ Fail(c) /\ UNCHANGED failures

\* The peer closes, or a send fails.
TransportCloses(c) ==
  /\ open[c]
  /\ open' = [open EXCEPT ![c] = FALSE]
  /\ UNCHANGED <<stage, step, draft, seen, castVars, closing, content, owed, failures>>

\* transportClosed, or what failProtocol, sendMessage and close do behind closeConnection.
Disconnects(c) ==
  /\ stage[c] \notin {"none", "closed"} /\ (stage[c] = "closing" \/ ~open[c])
  /\ stage' = [stage EXCEPT ![c] = "closed"]
  /\ open' = [open EXCEPT ![c] = FALSE]
  /\ owed' = IF Complete(c) THEN owed + 1 ELSE owed
  /\ UNCHANGED <<step, draft, seen, castVars, closing, content, failures>>

-----------------------------------------------------------------------------
(* Changes and broadcasts.                                                  *)

\* A request of a client, also of one that has left since, changes a session.
Change ==
  /\ content < MaxChanges /\ \E c \in Connection : Complete(c)
  /\ content' = content + 1 /\ owed' = owed + 1
  /\ UNCHANGED <<connectionVars, castVars, closing, failures>>

\* The awaits behind the change are over, and broadcast is called.
Announce ==
  /\ owed > 0 /\ owed' = owed - 1
  /\ queued' = IF closing = "open" THEN queued + 1 ELSE queued
  /\ UNCHANGED <<connectionVars, revision, cast, lost, missed, closing, content, failures>>

IsReady(c) == stage[c] = "ready"
HasRead(c) == stage[c] = "handshaking" /\ step[c] \in {"models", "hello"}

StartBroadcast ==
  /\ queued > 0 /\ cast.step = "idle"
  /\ queued' = queued - 1
  /\ LET to == {c \in Connection : IsReady(c)} IN
     \/ /\ to = {} \/ closing # "open"
        /\ missed' = missed \cup {c \in Connection : HasRead(c)}
        /\ UNCHANGED <<revision, cast>>
     \/ /\ to # {} /\ closing = "open"
        /\ revision' = revision + 1
        /\ cast' = [step |-> "models", rev |-> revision + 1, ver |-> 0, to |-> to]
        /\ UNCHANGED missed
  /\ UNCHANGED <<connectionVars, lost, closing, content, owed, failures>>

\* The models are read first, and then the sessions.
CastModels ==
  /\ cast.step = "models" /\ cast' = [cast EXCEPT !.step = "list"]
  /\ UNCHANGED <<connectionVars, revision, queued, lost, missed, closing, content, owed, failures>>

CastSessions ==
  /\ cast.step = "list"
  /\ cast' = [cast EXCEPT !.step = "send", !.ver = content]
  /\ UNCHANGED <<connectionVars, revision, queued, lost, missed, closing, content, owed, failures>>

\* One connection after the other; those that are gone are passed over.
CastSend(c) ==
  /\ cast.step = "send" /\ c \in cast.to
  /\ seen' = IF stage[c] = "closed" \/ ~open[c] THEN seen
             ELSE Applied(c, [rev |-> cast.rev, ver |-> cast.ver])
  /\ cast' = IF cast.to = {c} THEN Idle ELSE [cast EXCEPT !.to = @ \ {c}]
  /\ lost' = (lost /\ cast.to # {c})
  /\ missed' = missed \ {c}
  /\ UNCHANGED <<stage, open, step, draft, revision, queued, closing, content, owed, failures>>

\* broadcastQueue goes on behind a broadcast that was rejected.
AfterRejection == [cast EXCEPT !.step = "rejected"]   \* a slip: it is rejected for good
AfterFailure == Idle

CastFails ==
  /\ cast.step \in {"models", "list"}
  /\ failures < MaxFailures /\ failures' = failures + 1
  /\ cast' = AfterFailure /\ lost' = TRUE
  /\ UNCHANGED <<connectionVars, revision, queued, missed, closing, content, owed>>

-----------------------------------------------------------------------------
(* The end of the server.                                                   *)

Close ==
  /\ closing = "open" /\ closing' = "closing"
  /\ UNCHANGED <<connectionVars, castVars, content, owed, failures>>

\* closeServerState, when all listeners are closed.
CloseConnections ==
  /\ closing = "closing" /\ closing' = "down"
  /\ stage' = [c \in Connection |-> IF Terminal(c) THEN stage[c] ELSE "closing"]
  /\ UNCHANGED <<open, step, draft, seen, castVars, content, owed, failures>>

HandshakeStep(c) == Read(c) \/ SendHello(c) \/ HelloSent(c) \/ CatchUp(c)
CastStep == CastModels \/ CastSessions \/ \E c \in Connection : CastSend(c)

SnapshotsNext ==
  \/ \E c \in Connection :
       \/ Accept(c) \/ Hello(c) \/ BadMessage(c) \/ TransportCloses(c)
       \/ HandshakeStep(c) \/ ReadFails(c) \/ HandshakeTimeout(c) \/ Disconnects(c)
  \/ Change \/ Announce \/ StartBroadcast \/ CastStep \/ CastFails
  \/ Close \/ CloseConnections

\* Timers fire, connections that are told to close do, and so do listeners; what
\* was begun in the session manager ends in a broadcast.
SnapshotsFairness ==
  /\ \A c \in Connection : WF_snapshotsVars(HandshakeTimeout(c)) /\ WF_snapshotsVars(Disconnects(c))
  /\ WF_snapshotsVars(Announce) /\ WF_snapshotsVars(StartBroadcast) /\ WF_snapshotsVars(CloseConnections)

SnapshotsSpec == SnapshotsInit /\ [][SnapshotsNext]_snapshotsVars /\ SnapshotsFairness

\* The service answers, and the transports take what is sent.
ServiceAnswers ==
  WF_snapshotsVars(CastStep) /\ \A c \in Connection : WF_snapshotsVars(HandshakeStep(c))

-----------------------------------------------------------------------------
(* Properties.                                                              *)

SnapshotsTypeOK ==
  /\ closing \in {"open", "closing", "down"}
  /\ stage \in [Connection -> Stage]
  /\ open \in [Connection -> BOOLEAN]
  /\ step \in [Connection -> Step]
  /\ draft \in [Connection -> Snapshot]
  /\ seen \in [Connection -> Snapshot]
  /\ revision \in Nat /\ content \in Nat /\ owed \in Nat /\ queued \in Nat
  /\ cast \in [step : {"idle", "models", "list", "send"}, rev : Nat, ver : Nat,
               to : SUBSET Connection]
  /\ lost \in BOOLEAN /\ missed \subseteq Connection /\ failures \in Nat

\* Once everything that was begun is over, each client that is ready shows the
\* sessions as they are, also one whose handshake ran beside the changes.  A
\* broadcast that failed is made up for by the next one only, and one that found
\* nobody ready is not made up for at those it missed (performBroadcast).
Quiet(c) ==
  /\ closing = "open" /\ owed = 0 /\ queued = 0 /\ cast = Idle /\ ~lost
  /\ stage[c] = "ready" /\ open[c] /\ step[c] = "done"
CaughtUp == \A c \in Connection : Quiet(c) /\ c \notin missed => seen[c].ver = content

\* What a test asks, also of a client that nobody else is connected beside.  A
\* broadcast that finds nobody ready counts no revision, and nothing is late.
AloneCaughtUp == \A c \in Connection : Quiet(c) => seen[c].ver = content

\* No client that was not missed stays behind, whatever broadcast fails before it: the queue goes on,
\* and the connections that are gone hold nobody up (broadcast, sendMessage).
Excused == lost /\ owed = 0 /\ queued = 0
Behind(c) == stage[c] = "ready" /\ seen[c].ver # content /\ ~Excused /\ c \notin missed
NobodyStaysBehind == ServiceAnswers => \A c \in Connection : []<>~Behind(c)
=============================================================================
