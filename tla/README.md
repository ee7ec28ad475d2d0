# Verification of the pi agent

TLA+ models of the concurrent and stateful parts of this repository: the agent
loop and the session around it, the queue that serializes file mutations, the
handshake, the snapshots and the live sessions of the server, the leases of its
client, the durable session log in its JSONL file and in the SQLite backend, the
credentials and the settings that processes share, and the decisions of the
security agent. TLC checks the models on small instances;
TLAPS proves the invariants that matter most for all values of the constants.
Paths below are relative to the root of the repository; line numbers are those of
the commit the models were translated from.

1. [The system](#1-the-system)
2. [The modules](#2-the-modules)
3. [What the runs check](#3-what-the-runs-check)
4. [Fairness](#4-fairness)
5. [What is proved](#5-what-is-proved)
6. [Where the code and its documentation disagree](#6-where-the-code-and-its-documentation-disagree)
7. [What is not modelled](#7-what-is-not-modelled)
8. [Plan](#8-plan)

## 1. The system

The repository is a coding agent: a core that talks to language models and runs
their tool calls, a durable format for the sessions, a server that shares live
sessions among clients, and applications on top. Everything runs on Node.js. A
process is single-threaded, so code between two `await`s is atomic, and almost
every hazard is about what may happen *during* an `await`: another caller,
another client, a failure, the end of the process.

| Component | State | Operations | What is hard | What makes it correct |
|---|---|---|---|---|
| **Agent and agent loop** `packages/agent/src/agent.ts`, `agent-loop.ts` | transcript, two queues (steering, follow-up), `pendingToolCalls`, abort signal of the active run; the loop's own copy of the transcript | `prompt`, `continue`, `steer`, `followUp`, `abort`, `reset`, clearing of queues; events to awaited listeners | the owner acts during any await; parallel tools end in any order; listeners may throw; executions outlive a failed run | the model is asked with the transcript; results follow their calls; no queued message lost, repeated or overtaken; every run settles |
| **File mutation queue** `packages/agent/src/harness/tools/file-mutation-queue.ts` and a copy in `packages/coding-agent` | a registration chain and a map from key to the last promise | `withFileMutationQueue` | key resolution is asynchronous, functions throw, entries are removed while others wait | one at a time and in order per key; nothing left behind; nobody stuck |
| **Live sessions** `packages/server/src/sessions.ts` | maps of live and opening sessions; per session the runtime, connections, operation count, terminal flag | attach, create, detach, operations, disconnect, runtime events and errors, close | everything happens in every `await` of everything else | never two runtimes of a session; none disposed under an operation; none kept by a dead connection; unused ones go; everybody is answered |
| **Session log and JSONL storage** `packages/agent/src/harness/session/state.ts`, `jsonl/storage.ts` | the mutations in memory (entries, records, lanes, labels, name) and a file with a line for each | append, create and move lanes, labels, name; load with its repairs; fork | crashes and failures within an append or a repair; memory and file must not fork | what was acknowledged survives; memory is what a load gives; one open operation per lane; forks keep the branches |
| **SQLite backend: writer leases** `packages/session-backends/sqlite-node/src/sqlite/repo.ts`, `storage/writer-leases.ts` | rows in a shared database; per process repositories and storages with their queues, heartbeats and timers | create, open, write, renew, release, delete, repair, close | a writer that lost its lease goes on with its queue; processes end, transactions fail, the clock is set | only the holder writes; a replaced holder never comes back; a dead claim runs out; every operation ends |
| **SQLite backend: entry tree** `branch-cache.ts`, `storage/branch-entries.ts`, `branch-tips.ts`, `lanes.ts` | entries, lanes, a cache of root paths | append, make and move lanes, rebuild, delete, fork from another process | branches share entries, a fork reads in several statements | a read gives exactly the ancestors; a fork is whole |
| **Client leases** `packages/client/src/client.ts`, `state.ts` | per session a generation, the count of leases, the exclusive token, promises of attach, detach and reconciliation | acquire, detach, dispose, reconnect | every caller joins, follows or outlives the requests of others; a detach may fail | the count is the number of owners; a lease has an attachment; nothing stays attached without a lease |
| **Server handshake and snapshots** `packages/server/src/server.ts`, `snapshots.ts` | stages of connections, the revision, a queue of broadcasts | accept, hello, catch-up, broadcast, close | snapshots are read before an await | who is ready is shown the present state |
| **AgentSession** `packages/coding-agent/src/core/agent-session.ts` | the session log, pending lists, retry and compaction state around the agent's queues | prompt, queue, record a bash result, abort, compact; retry, recovery, settling | decides after each run whether another one follows; listeners are awaited between the context and the session | idle means idle and with nothing queued; context and session agree; one recovery from an overflow |
| **Stored credentials** `packages/coding-agent/src/core/auth-storage.ts`, `packages/ai/src/auth/resolve.ts` | `auth.json` and its lock, a cache per process | read, modify, delete, login, logout, refresh | two processes refresh one token; the cache is updated after the unlock | the rotated token is kept, nothing is overwritten |
| Session repository `jsonl/repo.ts`, `memory.ts` | a directory of session files, claimed destinations | create, open, fork, delete | crashes during creation, races for a name | a session exists completely or not at all |
| Lane reducer `packages/agent/src/harness/reducer.ts` | none | records of a lane to its state | pure | agrees with what the loop did |
| **Settings** `packages/coding-agent/src/core/settings-manager.ts` | the global and the project file and their locks; per process what it has loaded, the marks of what was set, a queue of writes | setters, merge under the lock, reload, trust in the project | other processes and editors write meanwhile; marks are cleared under a queue | what others have set is kept; what was set is written or reported |
| **Security decisions** `packages/secagent/src/core/autonomous-loop.ts`, `tools/gateway.ts`, `core/search-board.ts` | decisions, actions, intents, explored paths and budgets, replayed from the events of a session | step of the search loop, plan, execute, atomic call, complete | tool calls overlap; the process ends between two events | a decision is executed once; an intent has one decision; none is left pending |
| Session files `session-manager.ts` | a file of entries | append, branch, migrate | versions | what was written is read |
| Competition scheduler `packages/secagent/src/competition/scheduler.ts` | attempts with their instances | start, resume, restart, submit, stop | limits are checked before an await | never more attempts than the limit |
| Unix transport `packages/server/src/transports/unix/` | a socket file and its lock | listen, connect, close | servers that start at once | one server has the socket |

How they interact. `AgentSession` and the server's runtimes own an `Agent`; the
`Agent` calls the loop, which calls the provider, the tools and, through events,
the `Agent` again; every listener is awaited. The `write` and `edit` tools of a
parallel batch meet in the file mutation queue. The server dispatches the
requests of a connection without queueing them, so that attach, detach and
operations of all connections interleave in `LiveSessionManager`; a client counts
the leases its callers hold of a session and turns the first and the last of them
into an attach and a detach. A session's records and entries go through a storage
object, which appends to a file that the next process replays, or writes to a
database under a lease. Providers get their tokens through `auth.json`.

`PROJECT.json` lists all the components with their status, and under `hazards`
what can go wrong at which line, with the properties that would notice.

## 2. The modules

| Module | What it is |
|---|---|
| `AgentLoop`, `AgentLoopProofs` | the agent and its loop |
| `FileLock` | abstract: a first-come first-served lock for each key |
| `FileMutationQueue` | the chains of promises, and the mapping onto `FileLock` |
| `LiveSessions`, `LiveSessionsProofs` | the session manager of the server, for one session |
| `SessionLog` | `SessionState` as operators on the sequence of its mutations; no state |
| `JsonlStorage` | storage objects on a file of such mutations |
| `FencedLog` | abstract: one holder at a time adds to a log, and none comes back |
| `WriterLeases` | the lease of one session in SQLite, and the mapping onto `FencedLog` |
| `BranchCache` | the entry tree of one session in SQLite |
| `ClientLeases` | the leases a client hands out for one session |
| `ServerSnapshots` | handshakes and broadcasts of the server |
| `ConnectionProofs` | theorems about `ClientLeases` and `ServerSnapshots` |
| `HarnessProofs` | theorems about `FileMutationQueue` and `JsonlStorage` |
| `SqliteProofs` | theorems about `WriterLeases` and `BranchCache` |
| `AgentSession` | the coding agent's session around an agent |
| `AuthStorage`, `AuthStorageProofs` | `auth.json` and the refresh of a token in it |
| `Settings` | the settings files and the managers of several processes |
| `CodingAgentProofs` | theorems about `AgentSession` and `Settings` |
| `SecurityDecisions`, `SecurityDecisionsProofs` | decisions, intents and budgets of one security task |
| `MC*` | constants and symmetry for TLC that a `.cfg` cannot express |

In all of them a step is the code between two awaits at which something can
interfere. An operator marked *a slip* is the plausible bug that a property is
there to find: replacing the definition it resembles by the slip makes TLC find
the property violated.

### AgentLoop

`messages`, `steeringQueue`, `followUpQueue`, `pendingToolCalls` and `aborted` are
the state of `Agent`; `context`, `pendingMessages`, `skipPoll`, `mode`, `calls`,
`toolResults` and `hasMoreToolCalls` are the locals of `runLoop` and of the tool
execution; `pc` is what the run awaits. `late` holds executions of a run that has
failed: `Promise.all` rejects at the first failure and the others go on
(agent-loop.ts:581). `started` remembers the calls of the run that were prepared for
execution, for the property only.

- The owner: `Prompt`, `Continue`, `Steer`, `FollowUp`, `Abort`, the three ways to
  clear the queues, and `Reset`, at any time their guards allow.
- The loop: `PollAtStart` → (`EmitMessage`)* → `Request` → `Reply` → tool calls →
  `EndTurn` → `PollFollowUp` → … → `FinishRun`. A reply is a number of tool calls
  and whether its stop reason ends the run (`StopAfterError`).
- Tool calls: `PrepareCall` (also the sequential mode, blocked, unknown and
  invalid calls, and replies cut off by the output limit), `ExecuteAll`,
  `FinishCall`, `AnswerCall`, `EndBatch`.
- Failure: `RunFails` is a listener or callback that throws at any await,
  `FinishCallFails` one that throws within a parallel batch; `HandleRunFailure` may
  be cut short by a listener that throws again.

A message is its origin: a user message a number, a reply and a result the run and
request they belong to. Texts, partial replies, thinking and usage are left out.

### FileMutationQueue and FileLock

`registration` is the promise chain `state.registration`, `queues` is the map
`state.queues`, `currentQueue` what a call found in it, `released` and `chained` the
promises it resolves. `CanonicalPath` is what `realpath` would answer; `existing`
says for which files it answers, and changes at any time (`FileSystemStep`).
`ResolveKey` and `RejectKey` are the two outcomes of `getMutationQueueKey`; the calls
may throw (`Leave`). `FileLock` knows for each key who stands in line, for each caller
who stands ahead of it, and who is inside. The queue implements it: in the line of a key
are its linked calls that are not over, and ahead of a call are the older ones of them.

### LiveSessions

The manager keeps its sessions apart, so the model has one session, with any
number of connections, each of which may have several requests in progress.
`liveSession` and `opening` are the entries of the two maps, `stage` follows each
runtime the service hands out, `connections`, `terminal`, `terminating` and `closers`
are its `LiveSession`, `pc` and `target` what each request awaits and has in hand.
`operationCount` is the number of requests at "operating". `acquire` is
`Acquire` with the continuations `Opened`, `OpenFails`, `SnapshotRead`,
`SnapshotFails`, `CreateFails`, `Disposed`; then `Attach` or `AttachRefused`. `Detach`,
`FinishDetach`, `Operate`, `FinishOperation` are the other commands; `Disconnect`,
`RuntimeEvent`, `RuntimeError`, `Terminate` what happens to the session; `Close` to
`Closed` the shutdown of `PiServer`. Every action ends with the `maybeDispose` the
code ends with, evaluated in the state that the rest of the action leaves.

Waiters of one promise go on in one step with its settling: their continuations
are queued microtasks, which run before any other promise of the service settles.

### SessionLog and JsonlStorage

`SessionState` is a set of indexes over the mutations applied so far. `SessionLog`
defines the indexes from the log: ids in use, lanes and their leaves, open
operations, labels, the name; `Accepts` is the validation in `applyMutation`, and
`ForkMutations` is `createForkMutations`. Nothing is recursive, so that no proof needs an
induction over the length: the latest of some positions is the element of a set;
what `walkToRoot` visits is the least set of entries with the start and the parent
of every member, which is what its loop yields on a log that replays (there the
parents exist and are older, so its errors for a missing entry and a cycle do
not occur); and the order of `findEntries` and `findEntriesOnBranch`, oldest first,
is the order of the log, because a parent is older than its children.

A file is a sequence of lines and whether the last one is terminated. A line is a
mutation, the beginning of one, or garbage (two texts on one line, an empty line).
An append is `Write`, or `WritePart` then `Write`: after `WritePart` the file has
a torn line, or a whole one without its newline. `Read` drops a torn tail and
chooses the repair: the prefix is staged in a temporary file (`Stage`) and renamed
(`Publish`), or the newline is added (`RepairNewline`); each may fail (`LoadFails`).
`Crash` ends the process in any state. A storage works on one operation at a time,
as `enqueue` makes it; several storages may be open on one file.

### WriterLeases and FencedLog

One database, with the row of one session, its row in `writer_leases` and its log;
repositories, each in a process of its own; and a storage for each owner id that
was ever claimed, with its queue of writes, its heartbeat and its timer. A
transaction is one step and so is a statement outside of one: what another process
commits comes between them. `op` is the operation at the head of a repository's
queue, `hand` an owner id that `create` has claimed before it made the storage.
`lease.left` is the time to `expires_at_ms`; `Tick` moves it and the timers of the
processes that are not late, and the clock may be set once (`clockSet`). A process
ends at any time (`Crash`), transactions fail, databases are closed under their
storages. `missed` remembers who did not renew in time, for the property only.

`FencedLog` has a holder, a log and the ids issued; `holder <- lease.owner`. A claim
is `Grant`, an expiry is not a step of it (who has run out may write until somebody
else claims, and that is what the code allows), a removal of the row is `Vacate`.

### BranchCache

`entries`, `leaf` (the lanes) and `cache` (branches with an id, a tip and members)
are the rows of one session. The holder of the lease appends, makes and moves
lanes, rebuilds the cache, deletes and creates the session, each in one
transaction. `fork` is a repository in another process, which reads lanes, tips
and members with one statement after the other (`ReadLanes` to `BuildFork`). The path
of an entry to its root is the least set that holds it and is closed under
`parent`, which needs no recursion.

### ClientLeases

The session's books (`count`, `exclusive`, `gen`, `cleanup`), the three maps of promises
(`attachment`, `detachment`, `reconciliation`, each the user whose request made it), as
much of `ClientState` as leases look at, the wire with its messages in order, and the
server's side of attach and detach. A user is one caller of `acquireSession` and its
lease: it waits in `waitDetach`, `waitReconcile` or `waitAttach`, holds, releases. The
one who made a promise goes on first, those who joined it later, each in a step of
its own, since other callers come between. `Disconnect` ends the connection, also
between an answer and the step of the caller that waits for it, and invalidates every
lease and all books; `Connect` resets the state at any time after that, and `Connected` is
the hello of the server, which comes over a socket and therefore when no continuation is
left to run (`Drained`). The server is another process: what it sends is received behind
the continuations, so that its steps may wait for them; what it has sent already may
arrive in one chunk and be handled in a row. `strayed` remembers that a lease was granted
while there was no connection.

### ServerSnapshots

`content` is the version of what `listSessions` and `listModels` tell; a snapshot is
such a version and a revision. A handshake reads its snapshot in two calls of the
service (`step`), sends its hello, looks at the revision again and catches up;
`Announce` queues a broadcast for a change, `cast` is the one that runs. The service
may fail, or never answer; transports close; the server closes its listeners and
then its connections. `seen` is what `applyServerSnapshot` of the client has kept.
`missed` remembers the clients that had read their snapshot when a broadcast found nobody
ready, for the property only.

### AgentSession

A caller is an invocation of `prompt()` or `sendCustomMessage()`, and `at` what it
awaits. `messages` is the agent's context, `log` the entries of the session, `unsaved`
the message that is in the first and not yet in the second; `steering` and `followUp`
are the agent's queues (the texts shown as queued are left out). The run of the agent is
the part of `AgentLoop` that touches a session: prompts, polls, replies, a tool
result, the end of a turn. `PostRun` is `_handlePostAgentRun` with retry, overflow,
truncated reply, threshold and what is still queued; a backoff and a summary are
awaited (`BackoffOver`, `SummaryEnds`). `Context(log)` is the context a reload of the session
gives: the last summary and what was kept. A token count is a choice, and the cut
point counts messages. Prompts, triggers and compactions are taken whenever the code takes
them, also while another prompt is in its preflight; `overlap` remembers the first that
was accepted so, and whether one has started its run beside an active one.

### AuthStorage

`file` is `auth.json`: one token and the number of edits made to the credentials of
other providers. `lock` names the request, or the process in its reload, that has the
lock directory. A cache or a request knows the revision of the file or does not
(`current`): every write makes all revisions old. A resolve reads the cache or joins
the reload of its process, and with a token about to expire it goes on with
`modify`: under the lock it looks again, refreshes, writes, unlocks, and only then
updates the cache (`Finish`). The provider takes a token for one refresh. Requests are
aborted while they wait, refreshes fail before or after the exchange, processes
crash and leave a lock that becomes stale.

### Settings

A path is what a merge tells apart: a field, or a key of a field whose setter marks
the key; a value is the number of the call or edit that made it. `memory`, `modified`
and `queue` are those of a `SettingsManager`; a write is `Begin` (lock and read),
`Write` (merge, write, unlock), with `LockLate` between them for a file that did not
exist; `Refuse` is a task that throws, which the queue records. `Load` is shared by
`Reloads`, by `SetProjectTrusted` and by `Create` in the next process. `Crash` may tear the
file, empty it (an empty file loads as one without settings, and no error is recorded,
`settings-manager.ts:400`) or leave the lock, `StaleLock` takes it away. `Edit` is an editor
that takes no lock and saves at any time; `missed` remembers what it has saved since a
process has read the file it is about to write.

### SecurityDecisions

`state` is what `replaySecurityState` makes of the events of one task. The code between
two awaits appends a sequence of events (`Section`); the process may end behind each of
them, and the next one replays what is there (`Replayed`). A path is a tool with its
capability, targets and input: the candidate that runs it and the intent that
proposes it. `Step` is one step of the search loop, `Atomic`, `Plan` and `Execute` what the
model asks for; all of them go through the gateway, where a call waits for its
approval and preconditions, is rejected or started, and finishes (`Reject`, `Start`,
`Finish`). A gateway knows the decisions it has in flight; each extension has its own, and
only that of `security_execute` takes calls with an intent (`Keyed`). Its actions bear the
name of their tool call: one that has the name of another is answered when its decision is
recorded, paid for and not executed (`Repeats`); an `Execute` of that kind changes nothing.
The origin of a decision is not part of the program's state.

## 3. What the runs check

Every run explores all states of its instance. Deadlock is checked except
in six runs: `agent_session`, where the clients stop sending; `client_leases`, where a lease
that strayed can be neither used nor released until the connection is lost again; `server_snapshots`,
where a server that is down and whose connections are closed has nothing left to
do; and `auth_storage`, `settings` and `security_decisions`, where users and the model ask
for nothing more. In the other models the
rest of a system is a step of its own (`Rest` of an idle agent or server), or
something can always come: a file, a crash, a tick of the clock.

| Run (cfg) | Instance | States | Shows |
|---|---|---|---|
| `agent_loop` (AgentLoop) | 2 user messages, 2 runs, tool calls in 2 requests, 2 calls each, mode "all" for follow-ups and one at a time for steering; listeners and callbacks may throw | 201,155 | `ContextIsTranscript`, `AnswersFollowCalls`, `RequestsAreAnswered`, `DeliveredInOrder`, `NoMessageLost`, `RunSettles` |
| `file_mutation_queue` (FileMutationQueue) | 3 calls, a file and a link to it | 146,824 | `CallsSettle`, `ImplementsLock` |
| `live_sessions` (LiveSessions) | 2 connections, 1 request at a time each, 2 runtimes | 192,460 | `ExclusiveRuntime`, `OperationsKeepRuntime`, `UnusedRuntimesGo`, `RequestsAnswered` |
| `jsonl_storage` (JsonlStorage) | 1 storage, 2 lanes, 3 ids, logs of up to 4 mutations, clean failures, crashes | 311,432 | `AcknowledgedKept`, `MemoryIsFile`, `ForksAreFaithful` |
| `writer_leases` (WriterLeases) | 2 processes, one creates the session and the other opens, deletes, repairs and closes it; 2 owner ids, the session created twice, 1 write in a queue | 81,316 | `TimelyWriterKeepsLease`, `ImplementsFencedLog`, `DeadClaimsExpire`, `OperationsEnd` |
| `branch_cache` (BranchCache) | 2 lanes, trees of up to 4 entries, 1 repair | 1,997,776 | `ReadsAreRootPaths`, `ForksAreWhole` |
| `client_leases` (ClientLeases) | 2 users, 2 lost connections, snapshots of 2 revisions | 330,321 | `BooksMatchOwners`, `LeaseIsAttached`, `NothingLeaks`, `AcquisitionsEnd` |
| `agent_session` (AgentSession) | 2 callers, 2 messages, 2 replies that call a tool or fail (none of them after prompts have overlapped), 1 retry, 1 compaction | 754,689 | `IdleIsIdle`, `RecoversOnce`, `MessagesAreKept`, `ContextIsSession`, `SettlesEmpty`, `WaitersReturn` |
| `server_snapshots` (ServerSnapshots) | 2 clients that come and go, 2 changes, 1 failed call of the service | 600,091 | `CaughtUp`, `NobodyStaysBehind` |
| `auth_storage` (AuthStorage) | 2 requests in one process and 1 in another, 2 tokens, 1 change by a user, 1 crash | 109,445 | `NothingIsLost`, `RequestsEnd` |
| `settings` (Settings) | 2 processes, a global file that exists and a project file that does not, 3 values, 1 reload, 1 crash, 1 change of trust | 3,513,818 | `SavedOrReported`, `EditsAreKept` |
| `security_decisions` (SecurityDecisions) | 2 calls at once, 2 gateways beside that of the loop, 3 paths, 3 decisions of which 2 of the model, executions of existing decisions while there are fewer than 2 actions, 1 tool call, 1 crash between any two events, 1 completion by hand | 1,203,248 | `OneDecisionPerIntent`, `PendingHasOwner`, `ExecutedOnce` |

Type invariants are theorems (section 5) and not in the runs. `WaitersWake` and
`RetryClosed` of `AgentSession` hold on the same instance and are left out of its configuration. Two modules that share a module of
proofs may not share names, which is why `FileMutationQueue`, `BranchCache` and `Settings` say
`QueueInit`, `TreeInit` and `SettingsInit` where the others say `Init`.

Why the bounds are enough.

- *Agent.* Two calls are the least with an order between them and one that
  outlives the other; two runs the least where an execution of the first ends in
  the second; two requests the least where a result of one must be in the context
  of the next; two messages the least with an order. A request beyond `MaxRequests`
  gets a reply without tool calls, so no bound cuts off the end of a run.
- *Queue.* Three calls are a call that runs, one linked behind it and one that
  registers meanwhile. Two paths are a file and its alias.
- *Sessions.* An action looks at "this connection" and "another one"; two runtimes
  are one that goes and its successor. That the service hands out no runtime after
  the last is one of the ways in which it may fail (`OpenFails` remains).
- *JSONL.* Four mutations are the shortest log whose tree has a fork (entry,
  entry, the lane moved back, entry). Three ids are the entries of that log; ids
  are only compared, so they are symmetric.
- *Writer leases.* Two owner ids are one that is replaced and one that replaces it;
  two births a session that is created again under the id of a deleted one. A ttl
  of two beats is the least where a beat may be late and the lease not run out. Who
  is asked for what is divided (`Shared`) so that the liveness properties can be
  checked; with `Asked <- Everything` and symmetry the safety properties hold in
  1,264,079 states, and the theorems say so for any number of processes.
- *Branch cache.* Four entries are the least where a branch that shares two of them
  with another is copied in part and a third branch starts inside of it.
- *Client leases.* Two users are one who makes a promise and one who joins it, or one
  whose detach is under way and one who waits for it; two lost connections let a lease
  of the first be released in the third. With three users (one whose detach is under
  way, one who waits for it and one who joins that one), one lost connection and the
  constraint `~strayed` the same properties hold in 106,657 states, and the theorems
  say so for any number. Snapshots of two revisions are an older and a newer one.
- *AgentSession.* Two unusual replies (failed, or with a tool call) are a failure and
  its repetition, or a call behind a failure. Two callers are one that drives the
  agent and one that comes in the middle of it. `MaxBeside` is 0, so that the replies after
  two prompts have overlapped are good ones; with one unusual reply in all, at any time, the
  same properties hold in 800,178 states, and with two the safety properties and
  `SettlesEmpty` in 11,124,714.
- *Snapshots.* Two clients are one in its handshake and one that is ready, or is not when
  a broadcast looks. Two changes are one in a handshake and one behind it.
- *Credentials.* Three requests are two that share a reload and a third with a
  cache of its own. One token is refreshed once and one change comes beside it: a
  lost update needs two writers.
- *Settings.* Three values are one that is set, one that is queued behind it and one
  that somebody else sets in between; two processes are alike (symmetry).
- *Decisions.* Two calls at once are the least that overlap. A decision of the model,
  a step of the loop and a step on what the first has found are three decisions, and so are
  a call, the call that repeats it and a step of the loop; two branches and one tool call
  are limits that these can reach. Two actions are two gateways, or one and a restart, that
  execute one decision; a refusal or a completion by hand takes the place of a second tool call.

## 4. Fairness

Weak fairness is assumed of the program's own steps only, because a promise the
code awaits settles some time; strong fairness is not needed anywhere.

| Model | Fair | Why |
|---|---|---|
| `AgentLoop` | `LoopStep`, the executions in `late` | providers, tools and listeners return |
| `FileMutationQueue` | `CallerStep` of each call | `realpath` answers, the functions called return |
| `LiveSessions` | `Settles` of each request, `RuntimeSettles` of each runtime, the `Disconnect` of a transport that is closing, `CloseSettles` | the service and the operations answer |
| `WriterLeases` | `RepoStep` of each repository, `StorageStep` of each owner, `Tick` | event loops run what is queued, time passes |
| `ClientLeases` | `Continue` and `ServerStep` of each user, `Receive` | continuations run, the server answers what arrives |
| `AgentSession` | `RunStep`, `Manual`, `CallerStep` of each caller | the model replies, timers fire, listeners return |
| `ServerSnapshots` | `HandshakeTimeout`, `Disconnects`, `Announce`, `StartBroadcast`, `CloseConnections` | timers fire, closing transports close |
| `AuthStorage` | `RequestStep` of each request, `ReloadStep` and `ReloadEnds` of each process | locks are granted or time out, and so do refreshes; a reload that was left goes on beside the next one |

Nothing is assumed of owners, users and clients, of events that runtimes report, of
crashes, or of failures: a run must settle although nobody aborts it, a runtime must
go although no further event comes. `NobodyStaysBehind` has the answers of the service as an antecedent
(`ServiceAnswers`), because a broadcast that never gets one holds up the queue, in the
model as in the code. In the same way a tool that never returns blocks its run:
`RunSettles` says that nothing *else* does. `JsonlStorage`, `BranchCache`, `Settings` and
`SecurityDecisions` state safety only.

## 5. What is proved

The constants are arbitrary in all theorems, under the assumptions named in the
modules: bounds are natural numbers, `realpath` is idempotent, `None` and `Null` are not
members of the sets they complement, `Heartbeat < Ttl`, finitely many intents follow from
a fact (`Derives`). That every variable keeps its type
is a theorem of each of them: `TypeCorrect`, `QueueTypeCorrect`, `TreeTypeCorrect`,
`SnapshotsTypeCorrect`, and a part of `SettingsSaved` and `NothingLost`.

- **AgentLoopProofs.** `RequestsCarryTranscript`: every request carries exactly the
  transcript. The invariant the run checks, `ContextIsTranscript`, speaks of the moment
  of the request only; the inductive one is `ContextCopy`, which says at every `pc` what
  the loop's copy lacks (the results of the current reply) and by what it is ahead
  (prompts that are not emitted yet). `PendingCallsExact`: `pendingToolCalls` names the
  started and unfinished calls; inductive with `CallControl`, which ties the statuses
  of the calls to `pc` and says that late executions belong to older requests, so
  that their end cannot touch a call of the current one.
  `MessagesArriveInOrder` and `MessagesAreKept` follow the messages of a user from the
  queues through the hands of the loop into the transcript. `SentInv` says what each of
  the three may hold (only messages that were sent, each queue those of its own, and
  nothing in hand at a `pc` that does not emit); `OrderInv` says for each way of sending
  that numbers grow along the three and from each to the one behind it, because a drain
  splits a queue in two and an emission moves the first in hand to the end of the
  transcript. `ResultsFollowTheirCalls` rests on `BatchInv`: calls are entered, and
  answered, in the order of the reply, and until the batch ends the transcript ends in
  its reply or its last result. `RequestsFollowResults` adds `AnsweredSoFar`: between two
  batches every call that was started has its result, whether the run was aborted or not,
  and in a run that was not, every call; within a batch the last reply is the only exception.
- **HarnessProofs**, the queue. `KeysAreSerialized`, `QueuesStayTidy`, from
  `OrderIsInvariant`. The inductive invariant `QueueOrder` orders calls by a ticket drawn
  when the call is made: along the registration, from the map to the youngest
  linked call of a key, and from each call to the next older one it waits for. A
  resolved promise then means that all older calls of the key have left, without an
  induction along the chain. `QueueImplementsLock`, the refinement of `FileLock`, maps a
  registration to `Join`, an entry to `Enter`, a departure to `Leave` and everything else
  to a stutter: who is first in line is the one whose chain has resolved.
- **LiveSessionsProofs.** `RuntimesAreExclusive`, `MapsNameOpenRuntimes`. `ExclusiveRuntime`
  is not inductive: `MapsAgree` adds that every open runtime is the one in the map, or
  the one a request is opening, or that all connections are gone and nobody can ask
  for another. The last case is why an attach that was waiting when the server
  closed (section 6) does not break the exclusion. `OperationsKeepTheirRuntime`: the
  count of operations keeps a runtime from being disposed until the last has ended.
- **HarnessProofs**, the storage. `TypeCorrect` holds for any number of storages and failures of
  both kinds; `Durable`, `MemoryAgrees` and `OneOpen` under `OneStorage` (one storage on the
  file, appends that fail cleanly), which are exactly the conditions that the
  configurations `AppendFails` and `OpenedTwice` drop. The invariant `FileIs(h)` says for
  every point of an append or a repair what is in the file: the memory, with
  nothing, a part or all of the pending mutation behind it; and `FileKept` the same
  for the file after a crash, when nobody remembers. The lemmas `PrefixKnows` (what a
  prefix of a log knows does not depend on the rest), `ReplaysOneMore` and
  `LeavesExist` say that an operation that passed its validation passes
  `applyMutation`, in memory now and in a later load.
  `ForksKeepTheirBranches` needs neither condition: whatever a storage has in memory was
  accepted mutation by mutation (`MemoryReplays`), also when others disturbed the file,
  and every allowed fork of a log that replays is faithful (`ForkIsGood`). What a fork
  copies is closed under parents (`ForkIsClosed`), and a walk to the root does not leave
  a closed set (`WalkStays`); `ForkSources` names the positions that
  `createForkMutations` goes through, `ForkIs` what it puts together from them, one part
  behind the other, and the lemmas after that read off the fork what a session that
  replays it knows.
- **SqliteProofs**, the leases. `LeaseImplementsFencedLog`: every step is a grant, a write of the
  holder, a vacation or a stutter; from it `WritersStayApart`. The invariant says what a
  storage knows (`HolderKnows`, `Fresh`): an owner id in the row is that of a storage
  with the same fence and session, or in a hand. `WritesStayInTheirSession` and
  `ClaimsHaveSessions` come with it. `TimelyWritersKeepTheirLease` bounds the time a lease
  has left by what the timer of its storage has to run; this is where
  `Heartbeat < Ttl` is used.
- **SqliteProofs**, the entry tree. `BranchReadsAreExact` and `ForksStayWhole`, for trees of any size. The
  first part is about the least sets that are closed under `parent`: where an induction
  over the tree would be expected, the least element of a set of entries gives the
  contradiction. The invariant for a fork says at each of its stages what the rows it
  has read can still be extended to.
- **ConnectionProofs**, the client. `BooksAreRight`: the count is the number of reservations and
  leases of the present connection, which are finite sets that grow and shrink by
  one, and while there is no connection it is bounded by those who wait to be
  rejected; `ExclusiveLeasesStandAlone` follows from the token. All four speak of the time
  before a lease has strayed: what an earlier connection has left behind is in none of
  the books, and what may go wrong after that is in section 6. `LeasesAreAttached` and
  `NothingIsLeaked` rest on `LinkInv`, which says of a connected client who waits for
  whom (`Joined`), that one request is under way at most and its messages are those of
  the user who made it (`Channel`), and what the client and the server know of the
  session at each point of an attach, a release or a clean-up (`Known`); among the last,
  that the server serves only while somebody owns a reservation or lease, which is the
  second theorem, and that a lease is held only while attached, which is the first.
- **ConnectionProofs**, the server. `ClientsAreCaughtUp`: who is ready is shown
  the present state once nothing is owed, unless a broadcast has `missed` it. The inductive invariant has two
  parts: `Shape` orders the revisions (what a client has and what is on its way to
  it against that of the server and of the broadcast) and `CalmCurrent` says which of
  them has the present content when no change is owed. `LateHandshake` shows what becomes
  of a client that was missed.
- **CodingAgentProofs**, the session. The bounds, the callers and the sizes of the context
  are arbitrary. `IdleSessionsAreIdle` holds also when prompts overlap: `Drives` says that
  one caller at most is at work and that the session is active for as long, until a prompt
  starts on a session that has become active since it was accepted (`TwoPrompts`). The other
  theorems speak of the time before prompts overlap (`overlap = "none"`; TLC checks the
  properties but `ContextIsSession` without that). `Control` is inductive by itself: it says
  which callers may be in a prompt, a retry or a compaction while another one is, what
  they hold there, at which `pc` the run then stands, and that `recoveries` is counted
  with the flag that prevents the next one. `TypeCorrect`,
  `RecoveryIsBounded` and `IdleLeavesNothingQueued` follow from it. `NoMessageIsLostOrDoubled`
  needs `Kept`: an equation for each message between the number of its places, in the
  queues and lists and in the prompts that callers hold, and what was withdrawn or
  rejected. An action moves messages from one sequence to another, so that the proof is
  about how the set of places splits when sequences are joined or cut. `ContextIsReloaded` is
  itself inductive once `Control` is there; what it takes is that the cut of a compaction,
  whose summary replaces a prefix of the log, gives the same context to the agent and to
  a reload (`Context`, `CutPoint`), and that leaving out failed replies and asides goes
  through a join of sequences (`Agree`).
- **CodingAgentProofs**, the settings. `SettingsSaved`, for any number of processes, files
  and paths: the invariant `SetIsQueued` says that a value which is not written is carried
  by a task of the queue whose marks name its path, or that an error is recorded, also
  while a write has cleared the marks of setters behind it. `EditsKept`: the marks of a task
  are those of setters its process has called (`MarksAreSet`, also of setters that mark a
  whole field), and since the lock is held from the read to the write, what was read is
  what the file holds, but for what an editor has saved in between (`ReadIsFile`): a merge
  takes every other path from the file as it is.
- **AuthStorageProofs.** `NothingLost`, if no lock is taken from a live holder (`SlowRefresh`
  drops this). The file changes only under the lock, and from what was read under it
  (`HoldersLock`, `RefreshesFile`): edits are then counted one by one (`EditsCount`), and the
  token in the file is alive unless its answer was lost or its holder is about to write
  the next one. A login brings a token of its own, which nobody else writes
  (`LoginsAreFresh`).
- **SecurityDecisionsProofs.** A section of code appends a sequence of events, and the
  process may end behind each of them: `Along` lists the states between. Lemmas about
  sequences of events that record no decision (`AlongQuiet`, `AlongNotes`,
  `SectionOpens`) reduce every operation to a few facts about decisions and actions
  (`FinishStep`, `StartStep`, `ExecuteStep`, `RunStep`, `PlanStep`, `CompleteStep`,
  `EndStep`, joined in `NextIs`). `DecisionsAreOwned` and `IntentsHaveOneDecision` are
  then inductive with `Handed` and `OwnActions`: a call in progress has an action of its
  decision that no other call has. `ADecisionIsExecutedOnce` speaks of each gateway, however
  many share the decision; it needs `OwnDecisions`, that a gateway has a decision in the
  hand of one call, `StartedHeld` and `SucceededIsOver`, that an action which has started
  is in the hand of a call until it ends, and that a decision which succeeded is over and
  out of the hands of its gateway. Of all gateways together `TwoGateways` refutes it.

An induction over the length of a sequence is not available in the provers; where one
is needed, the least number of a set for which the claim fails gives the contradiction
(`LeastNumber`), and definitions that go through a sequence are recursive functions.

Only model-checked: all liveness properties, which the provers do not handle. Every
safety property that a run checks is a theorem, of `AgentSession` until prompts overlap.

## 6. Where the code and its documentation disagree

The following configurations are kept beside the runs; each ends in a
counterexample to the property it names. They describe behaviour that the
runs exclude by a constant or do not speak of, so that what does hold is still
checked. A configuration of a run is meant with that property in place of its own.

| Configuration (module) | Property | What happens |
|---|---|---|
| `RetryThenOverflow` (AgentSession) | `ContinueAccepted` | The retry of a failed reply overflows. The compaction restores both failed replies, one of them is removed (`agent-session.ts:2338`), `agent.continue()` finds an assistant message at the end and throws; the prompt is rejected. |
| `TwoPrompts` (AgentSession) | `IdleIsAlwaysIdle` | A second prompt is accepted during the preflight of the first (`agent-session.ts:1201`), and fails; the session says that it is idle while the first runs. `IdleIsIdle` speaks of the time before it starts. |
| `AgentSession` (AgentSession) | `ContextAgrees` | `compact()` waits for the session to be idle, once; a custom message that triggers a turn (`agent-session.ts:1496`) does not look whether a compaction is under way. When the compaction rebuilds the context from the session, a reply that the run has emitted and not saved drops out of the context, and comes back when the session is loaded. `ContextIsSession` excepts what follows an overlap. |
| `SlowRefresh` (MCAuthStorage; `SlowRefresh`) | `NothingIsLost` | The constructor of `AuthStorage` locks with the default of ten seconds for a stale lock (`auth-storage.ts:76`), while the holder of the asynchronous lock touches it every fifteen. During a slow refresh the lock is taken away; another process stores a credential, and the refresh writes what it had read before. |
| `AgentSettled` (AgentLoop) | `IdleMeansSettled` | `waitForIdle` is documented to resolve when the run and its listeners have finished. When a listener throws at the end of one of several parallel executions, the run fails at once and the agent is idle while the others go on. |
| `SameFile` (MCFileMutationQueue) | `SameFileExclusive` | The key of a path without a file is the path itself: two calls that create one file through two aliases run together. |
| `HalfClosed` (LiveSessions) | `HalfClosedNotReused` | `acquire` refuses instances that are being disposed, but `attach`, which goes on after the await, does not look again. |
| `ServerClosed` (LiveSessions) | `ClosedMeansDisposed` | An attach that waits for a disposal opens the session again when it ends, also while the server is closing; `close()` does not wait for that one. |
| `AppendFails` (MCJsonlStorage; `PartialWrites`) | `AcknowledgedKept` | When an append fails after a part of its text was written, the next one continues on that line; it is acknowledged and the next load drops it. |
| `OpenedTwice` (MCJsonlStorage; two handles) | `AcknowledgedKept` | A load takes a line that is being written for one that was cut off, and renames the prefix over the file. |
| `ForkTorn` (BranchCache) | `ForksAreSnapshots` | `packages/agent/docs/harness.md:802`: "SQLite uses one read transaction". The fork reads statement by statement; one whose source is deleted meanwhile is made of two states of it. |
| `DetachFails` (ClientLeases) | `LeaseIsServed` | The server lets go of the connection and then answers a detach with an error (`packages/server/src/sessions.ts:92`). The client takes its lease for held again, and the server does not serve it. |
| `ClientLeases` (ClientLeases) | `NoLeaseStrays` | The comment above `#createSessionLease` (`client.ts:217`) says that old handles become invalid when the connection ends. An answer to an attach may be followed, in the same chunk or by a listener, by the end of the connection (`connection.ts:160`) before its caller goes on; the lease that `client.ts:176` then grants has the generation of the next connection, is in none of its books, and is active as soon as somebody attaches: two exclusive leases, or a release of one that detaches the other. |
| `LateHandshake` (ServerSnapshots) | `AloneCaughtUp` | `packages/server/test/conformance.test.ts:126`: "catches up a handshaking client after a concurrent server change". The handshake compares revisions (`server.ts:246`), but a broadcast that finds nobody ready counts none (`snapshots.ts:54`): a client that joins alone keeps an old list until the next broadcast. `CaughtUp` excepts it. |
| `Settings` (MCSettings) | `ExternalEditsAreKept` | `packages/coding-agent/CHANGELOG.md:3820`: "External edits to `settings.json` while pi is running are now preserved when pi saves settings". An editor takes no lock: what it saves between `readFileSync` (`settings-manager.ts:258`) and `writeFileSync` (line 268) is overwritten. `EditsAreKept` excepts such edits and no others. |
| `Settings` (MCSettings) | `AllEditsAreKept` | `packages/coding-agent/CHANGELOG.md:2759`: "per-scope locked read/merge/write". When the file does not exist, `withLock` merges without the lock and without reading (`settings-manager.ts:258`), locks only to write, and does not read what another process has created by then. |
| `WholeField` (MCSettings; `WholeFields`) | `KeysAreKept` | `CHANGELOG.md:3820`, as above. `setModelThinkingLevel` sets one key and marks the whole field (`settings-manager.ts:801`): levels of other models that were added meanwhile are dropped. |
| `Settings` (MCSettings) | `WrittenOnce` | A setter takes over the marks of one whose write is still queued (`settings-manager.ts:655`); the value of that one is written a second time, over a later edit of the same path. |
| `UnknownRepeated` (MCSecurityDecisions) | `UnknownIsNotRepeated` | `packages/secagent/plan.md:10`: what was started before a restart becomes unknown and is not replayed automatically. The mark is set, but the path of the action is entered only when its decision completes, and the loop chooses the same tool, target and input again (`candidate-generator.ts:377`). |
| `TwoGateways` (MCSecurityDecisions) | `ExecutedByOne` | `packages/secagent/test/gateway-replanning.test.ts:216`: "rejects concurrent execution of the same decision". The decisions in flight are a field of the gateway (`gateway.ts:84`), and each extension makes its own (`profile.ts:100`); `ExecutedOnce` holds of each. |
| `SecurityDecisions` (MCSecurityDecisions) | `RepeatsLeaveNothing` | A pending decision is somebody's. The test "rejects retries with the same idempotency key" (`packages/secagent/test/gateway-replanning.test.ts:113`) retries an execution, which records no decision; an atomic tool call that repeats the name of another one has its decision recorded and paid for (`gateway.ts:77`, 98) before the name is looked up (line 179), and is answered without its completion: the decision stays pending, and counts as a branch until it is completed by hand. |
| `ToolBudget` (MCSecurityDecisions) | `BudgetKept` | `packages/secagent/docs/competition.md:10`: "isolation, protected paths, budgets, and audit remain mandatory". The budget is compared with the state on entry (`gateway.ts:211`) and paid three awaits later (line 227): calls that overlap exceed it. |
| `TornSection` (MCSecurityDecisions; `Torn`) | `NoRepeatedSuccess` | A process that ends between the completion of a decision and the events of its memory (`runtime.ts:276`) never makes up for them; the loop runs the path again. |
| `SecurityDecisions` (MCSecurityDecisions) | `ResultsStand` | `complete_decision` (`extension.ts:318`) replaces the result of a decision that has ended, or is replaced by its end. |

Noticed while translating, and in no property: a server that starts while
another one does, and finds the private bind path in use, fails and then removes that
path, which is the socket of the other (`packages/server/src/transports/unix/listener.ts:155`); a listener that throws at
`agent_end` causes a second `agent_end` (`agent.ts:535`, against
`packages/agent/README.md:164`, "Final event for the run"); a listener that throws
while the loop holds drained messages loses them (`agent-loop.ts:199`; `NoMessageLost`
excepts failed runs); `sessionIds` keeps an id although the instance the connection
had joined is gone (`sessions.ts:322`); an attach whose snapshot fails has attached
(`sessions.ts:75`).

## 7. What is not modelled

Inside the modelled parts: changing the queue modes while a run is active,
assignments to `state.messages` or `state.tools`, several prompts at once, a
`prepareNextTurn` that replaces the context, and `transformMessages`
(`packages/ai/src/api/transform-messages.ts:161`), which adds what is missing in a request
when an abort has left calls without results (`AgentLoop`); what is in a snapshot or an
answer (`LiveSessions`); the header line, creation, deletion and the publication of a
fork (`JsonlStorage`); loss of data that the operating system had not written when
the *machine* stopped (the code does not call `fsync`); migrations by two processes, records, facts,
statistics, names and the search index (SQLite); `createSession`, `session_removed`, the disposal of the
client and commands through a lease (`ClientLeases`); listeners and the decoding of
frames (`ServerSnapshots`); extension commands, the transformation of input, models and
their settings, the texts shown as queued, branches of a session, replacement and
export (`AgentSession`); replans, evidence, findings and the order of the candidates
(`SecurityDecisions`); old formats and the merge of the scopes for reading (`Settings`); the
in-memory and read-only storage, API keys, and a write of `auth.json` that a crash tears
or that another process reads without the lock (`AuthStorage`: `writeFileSync` writes in
place, and `ReadOnlyAuthStorage` takes no lock).

Not modelled yet: the session repository, session files, the lane reducer, the frame
decoder, the unix transport, and the competition scheduler (it checks the limit of
running attempts before an await, `packages/secagent/src/competition/scheduler.ts:98`, and
enters the attempt after it).

Not planned: providers of `packages/ai`, CBOR and the schemas of `packages/protocol`, the
user interfaces, extension loading, telemetry and evaluation. These translate
formats, draw, or start third-party code; their correctness is about data that a
model would have to copy.

## 8. Plan

1. `JsonlRepo` on top of `SessionLog`: `create` writes the header in place, a fork is
   staged and published under a claimed destination, the process may crash between
   any two steps. A session that can be listed can be opened; a fork is never half
   there; two creations of one id do not overwrite each other.
2. `Scheduler`: limit and call rate of the competition scheduler.
3. `UnixListener`: the socket file, its lock, and servers that start at once.
4. `FrameDecoder` and `LaneReducer`: pure operators against a reference definition.
