-------------------------- MODULE FileMutationQueue --------------------------
(***************************************************************************)
(* withFileMutationQueue (packages/agent/src/harness/tools/                *)
(* file-mutation-queue.ts), which the write and edit tools of a parallel   *)
(* batch of tool calls go through.                                         *)
(*                                                                         *)
(* The lock is a chain of promises.  A caller first takes its place in     *)
(* state.registration, a chain in the order of the calls; when its turn    *)
(* comes it asks the file system for the key of its path, then links       *)
(* itself behind the last promise in state.queues for that key.  A step is *)
(* the code between two awaits, or the resolution of a promise.            *)
(***************************************************************************)
EXTENDS Naturals, Sequences

CONSTANTS
  Caller,         \* the calls of withFileMutationQueue
  Path,           \* absolute paths
  CanonicalPath,  \* what realpath answers when the file exists
  None            \* no promise

ASSUME PathAssumption ==
  /\ CanonicalPath \in [Path -> Path]
  /\ \A p \in Path : CanonicalPath[CanonicalPath[p]] = CanonicalPath[p]
  /\ None \notin Caller

VARIABLES
  status,        \* how far each call is
  path,          \* the path each call was given
  key,           \* the key each call was given by getMutationQueueKey
  registration,  \* the calls in state.registration, in order
  queues,        \* state.queues: the call whose chainedQueue each key maps to
  currentQueue,  \* the call whose chainedQueue each call found there
  released,      \* the calls that resolved their nextQueue
  chained,       \* the calls whose chainedQueue is resolved
  existing,      \* the canonical paths at which there is a file
  ticket,        \* history: the order in which the calls were made
  made           \* history: how many were made

queueVars == <<status, path, key, registration, queues, currentQueue, released, chained,
          existing, ticket, made>>

SettledStatus == {"returned", "threw", "rejected"}
Status == {"new", "registering", "keyed", "waiting", "running"} \cup SettledStatus

QueueInit ==
  /\ status = [c \in Caller |-> "new"]
  /\ path \in [Caller -> Path] /\ key = path
  /\ registration = <<>>
  /\ queues = [k \in Path |-> None]
  /\ currentQueue = [c \in Caller |-> None]
  /\ released = {} /\ chained = {}
  /\ existing \in SUBSET {CanonicalPath[p] : p \in Path}
  /\ ticket = [c \in Caller |-> 0] /\ made = 0
-----------------------------------------------------------------------------
Call(c) ==
  /\ status[c] = "new"
  /\ status' = [status EXCEPT ![c] = "registering"]
  /\ registration' = Append(registration, c)
  /\ ticket' = [ticket EXCEPT ![c] = made] /\ made' = made + 1
  /\ UNCHANGED <<path, key, queues, currentQueue, released, chained, existing>>

IsRegistering(c) == registration # <<>> /\ Head(registration) = c

\* getMutationQueueKey: realpath of a file, the path itself when there is none.
KeyOf(p) == IF CanonicalPath[p] \in existing THEN CanonicalPath[p] ELSE p

ResolveKey(c) ==
  /\ IsRegistering(c) /\ status[c] = "registering"
  /\ status' = [status EXCEPT ![c] = "keyed"]
  /\ key' = [key EXCEPT ![c] = KeyOf(path[c])]
  /\ UNCHANGED <<path, registration, queues, currentQueue, released, chained, existing,
                 ticket, made>>

\* getMutationQueueKey throws (no permission, a loop of links): the call is
\* rejected, and the next registration goes on.
RejectKey(c) ==
  /\ IsRegistering(c) /\ status[c] = "registering"
  /\ status' = [status EXCEPT ![c] = "rejected"]
  /\ registration' = Tail(registration)
  /\ UNCHANGED <<path, key, queues, currentQueue, released, chained, existing, ticket, made>>

\* The rest of the registration, without an await.
Register(c) ==
  /\ IsRegistering(c) /\ status[c] = "keyed"
  /\ status' = [status EXCEPT ![c] = "waiting"]
  /\ registration' = Tail(registration)
  /\ currentQueue' = [currentQueue EXCEPT ![c] = queues[key[c]]]
  /\ queues' = [queues EXCEPT ![key[c]] = c]
  /\ UNCHANGED <<path, key, released, chained, existing, ticket, made>>

CurrentResolved(c) == currentQueue[c] = None \/ currentQueue[c] \in chained

\* `await currentQueue' is over: fn is called.
Enter(c) ==
  /\ status[c] = "waiting" /\ CurrentResolved(c)
  /\ status' = [status EXCEPT ![c] = "running"]
  /\ UNCHANGED <<path, key, registration, queues, currentQueue, released, chained, existing,
                 ticket, made>>

\* The finally block: releaseNext, and the map entry goes if nobody is behind.
ReleasesUnlessThrown(threw) == ~threw   \* a slip: no finally
Releases(threw) == TRUE
ClearsAlways(c) == TRUE    \* a slip: the entry goes whoever is behind
Clears(c) == queues[key[c]] = c

Leave(c) ==
  /\ status[c] = "running"
  /\ \E threw \in BOOLEAN :
       /\ status' = [status EXCEPT ![c] = IF threw THEN "threw" ELSE "returned"]
       /\ released' = IF Releases(threw) THEN released \cup {c} ELSE released
  /\ queues' = IF Clears(c) THEN [queues EXCEPT ![key[c]] = None] ELSE queues
  /\ UNCHANGED <<path, key, registration, currentQueue, chained, existing, ticket, made>>

\* currentQueue.then(() => nextQueue) resolves.
ResolveChained(c) ==
  /\ c \in released \ chained /\ CurrentResolved(c)
  /\ chained' = chained \cup {c}
  /\ UNCHANGED <<status, path, key, registration, queues, currentQueue, released, existing,
                 ticket, made>>

\* A file comes or goes: the functions called create files, and so does
\* everything else on the machine.
FileSystemStep(p) ==
  /\ p = CanonicalPath[p]
  /\ existing' = IF p \in existing THEN existing \ {p} ELSE existing \cup {p}
  /\ UNCHANGED <<status, path, key, registration, queues, currentQueue, released, chained,
                 ticket, made>>

CallerStep(c) ==
  ResolveKey(c) \/ RejectKey(c) \/ Register(c) \/ Enter(c) \/ Leave(c) \/ ResolveChained(c)

QueueNext ==
  \/ \E c \in Caller : Call(c) \/ CallerStep(c)
  \/ \E p \in Path : FileSystemStep(p)

\* realpath answers, the functions settle, and promises are resolved.
Fairness == \A c \in Caller : WF_queueVars(CallerStep(c))

QueueSpec == QueueInit /\ [][QueueNext]_queueVars /\ Fairness
-----------------------------------------------------------------------------
QueueTypeOK ==
  /\ status \in [Caller -> Status]
  /\ path \in [Caller -> Path] /\ key \in [Caller -> Path]
  /\ registration \in Seq(Caller)
  /\ queues \in [Path -> Caller \cup {None}]
  /\ currentQueue \in [Caller -> Caller \cup {None}]
  /\ released \in SUBSET Caller /\ chained \in SUBSET Caller
  /\ existing \in SUBSET Path
  /\ ticket \in [Caller -> Nat] /\ made \in Nat

Linked(c) == status[c] \in {"waiting", "running", "returned", "threw"}
Left(c) == status[c] \in {"returned", "threw"}

\* d is linked for the key of c, and was called earlier.
Before(d, c) == Linked(c) /\ Linked(d) /\ key[c] = key[d] /\ ticket[d] < ticket[c]

\* Functions of one key run one at a time and in the order of the calls: a
\* function starts only when every earlier one of its key has settled
\* (file-mutation-queue.ts:31-55).
OneAtATimeInOrder ==
  \A c, d \in Caller : Before(d, c) /\ status[c] # "waiting" => Left(d)

\* The map holds a key exactly as long as a call of that key is not over: no
\* entry outlives its calls, none is dropped under a call (file-mutation-queue.ts:54).
QueuesTidy ==
  \A k \in Path :
    queues[k] # None <=> \E c \in Caller : key[c] = k /\ status[c] \in {"waiting", "running"}

\* Why: tickets grow along the registration and the calls already linked are older
\* than those; the map names the youngest linked call of a key, and a call waits
\* for the next older one of its key (file-mutation-queue.ts:31-46).
RegistrationInOrder ==
  /\ \A i \in DOMAIN registration : status[registration[i]] \in {"registering", "keyed"}
  /\ \A i, j \in DOMAIN registration : i < j => ticket[registration[i]] < ticket[registration[j]]
  /\ \A c \in Caller, i \in DOMAIN registration :
       Linked(c) => ticket[c] < ticket[registration[i]]
  /\ \A c \in Caller : status[c] # "new" => ticket[c] < made
  /\ \A c, d \in Caller :
       c # d /\ status[c] # "new" /\ status[d] # "new" => ticket[c] # ticket[d]

MapNamesYoungest ==
  /\ \A k \in Path : queues[k] # None =>
       status[queues[k]] \in {"waiting", "running"} /\ key[queues[k]] = k
  /\ \A c \in Caller : Linked(c) =>
       IF queues[key[c]] = None THEN Left(c) ELSE ticket[c] <= ticket[queues[key[c]]]

WaitsForNextOlder ==
  /\ \A c \in Caller : Linked(c) /\ currentQueue[c] # None => Before(currentQueue[c], c)
  /\ \A c, d \in Caller : Before(d, c) =>
       IF currentQueue[c] = None THEN Left(d) ELSE ticket[d] <= ticket[currentQueue[c]]

ReleasedHaveLeft == chained \subseteq released /\ \A c \in released : Left(c)

QueueOrder ==
  RegistrationInOrder /\ MapNamesYoungest /\ WaitsForNextOlder /\ ReleasedHaveLeft

\* Every call settles, also behind calls that were rejected or threw.
CallsSettle == \A c \in Caller : status[c] = "registering" ~> status[c] \in SettledStatus

\* The chain of promises implements the lock.
InLine(k) == {c \in Caller : key[c] = k /\ status[c] \in {"waiting", "running"}}
AheadOf(c) == {d \in Caller : Before(d, c) /\ ~Left(d)}

Lock == INSTANCE FileLock WITH
  Key    <- Path,
  line   <- [k \in Path |-> InLine(k)],
  ahead  <- [c \in Caller |-> AheadOf(c)],
  inside <- {c \in Caller : status[c] = "running"},
  left   <- {c \in Caller : Left(c)}

ImplementsLock == Lock!Safety

\* packages/coding-agent/src/core/tools/file-mutation-queue.ts:29, "Serialize file
\* mutation operations targeting the same file."
SameFileExclusive ==
  \A c, d \in Caller :
    c # d /\ status[c] = "running" /\ status[d] = "running" =>
      CanonicalPath[path[c]] # CanonicalPath[path[d]]
=============================================================================
