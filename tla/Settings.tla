------------------------------- MODULE Settings -------------------------------
(***************************************************************************)
(* The settings files (packages/coding-agent/src/core/settings-manager.ts): *)
(* each process of a user has a SettingsManager with what it has loaded, and *)
(* the fields its user has set; a queue of writes merges those into what the *)
(* file holds by then, under the lock of the file (FileSettingsStorage).     *)
(*                                                                          *)
(* A path is what a merge tells apart: a field, or a key of a field whose    *)
(* setter marks that key.  A value is the number of the call or of the edit  *)
(* that made it.  All calls of the file system are synchronous: a process    *)
(* does nothing else meanwhile, but other processes do.                      *)
(***************************************************************************)
EXTENDS Naturals, Sequences, FiniteSets

CONSTANTS Process, Path,
          FieldOf,       \* the field of each path
          WholeFields,   \* fields whose setters mark all of the field
          Scopes,        \* the files: "global", "project"
          Existing,      \* those that exist in the beginning
          MaxEdits,      \* values that are ever set, by setters or by hand
          MaxReloads, MaxCrashes, MaxTrust

ASSUME SettingsAssumption ==
  /\ DOMAIN FieldOf = Path
  /\ Scopes \subseteq {"global", "project"} /\ Existing \subseteq Scopes
  /\ {MaxEdits, MaxReloads, MaxCrashes, MaxTrust} \subseteq Nat
  /\ Process \cap {"free", "dead"} = {}

VARIABLES file,       \* of each scope: its state, and what each path is set to
          lock,       \* "free", the process that has it, "dead": one that has crashed
          memory,     \* globalSettings, projectSettings
          modified,   \* modifiedFields, modifiedNestedFields
          loadError,  \* the scopes that could not be loaded
          trusted,    \* projectTrusted
          queue,      \* writeQueue
          phase,      \* where in a write each process is
          read,       \* what it has read of the file it is writing
          missed,     \* history: what was edited by hand since it has read it
          edits, reloads, crashes, trusts,
          lastSet,    \* history: the last value a process has set, since its creation
          written,    \* history: values that were written to a file
          reported    \* history: it has recorded an error

managerVars == <<memory, modified, loadError, trusted, queue>>
writeVars   == <<phase, read, missed>>
historyVars == <<lastSet, written, reported>>
boundVars   == <<edits, reloads, crashes, trusts>>
settingsVars == <<file, lock, managerVars, writeVars, boundVars, historyVars>>

Value == 0..MaxEdits
Empty == [x \in Path |-> 0]
File == [state : {"ok", "missing", "broken"}, values : [Path -> Value]]
Ok(values) == [state |-> "ok", values |-> values]
Broken == [state |-> "broken", values |-> Empty]
PerScope(v) == [p \in Process |-> [s \in Scopes |-> v]]

SettingsInit ==
  /\ file = [s \in Scopes |-> [state |-> IF s \in Existing THEN "ok" ELSE "missing", values |-> Empty]]
  /\ lock = [s \in Scopes |-> "free"]
  /\ memory = PerScope(Empty) /\ modified = PerScope({})
  /\ loadError = [p \in Process |-> {}] /\ trusted = [p \in Process |-> TRUE]
  /\ queue = [p \in Process |-> <<>>] /\ phase = [p \in Process |-> "idle"]
  /\ read = [p \in Process |-> Empty] /\ missed = [p \in Process |-> {}]
  /\ edits = 0 /\ reloads = 0 /\ crashes = 0 /\ trusts = 0
  /\ lastSet = PerScope(Empty) /\ written = {0}
  /\ reported = [p \in Process |-> FALSE]

(***************************************************************************)
(* Setters.                                                                 *)
(***************************************************************************)
\* What a setter of a path marks: markModified, markProjectModified.
Marks(x) ==
  IF FieldOf[x] \in WholeFields THEN {y \in Path : FieldOf[y] = FieldOf[x]} ELSE {x}

\* A write of what memory holds of the marked paths.
Task(s, marks, values) == [kind |-> "write", scope |-> s, marks |-> marks, values |-> values]

\* A setter, its mark, and save; nothing is queued for a file that was not loaded.
Set(p, s, x) ==
  /\ phase[p] = "idle" /\ edits < MaxEdits
  /\ s = "project" => trusted[p]
  /\ edits' = edits + 1
  /\ memory' = [memory EXCEPT ![p][s][x] = edits']
  /\ modified' = [modified EXCEPT ![p][s] = @ \cup Marks(x)]
  /\ queue' = IF s \in loadError[p] THEN queue
              ELSE [queue EXCEPT ![p] = Append(@, Task(s, modified'[p][s], memory'[p][s]))]
  /\ lastSet' = [lastSet EXCEPT ![p][s][x] = edits']
  /\ UNCHANGED <<file, lock, loadError, trusted, writeVars, reloads, crashes, trusts, written, reported>>

(***************************************************************************)
(* The queue: enqueueWrite, persistScopedSettings and withLock.             *)
(***************************************************************************)
Job(p) == Head(queue[p])
Writes(p) == phase[p] = "idle" /\ queue[p] # <<>> /\ Job(p).kind = "write"

\* assertProjectTrustedForWrite, when the task runs.
MayWrite(p) == Job(p).scope = "project" => trusted[p]

\* JSON.parse throws on a broken file.
Parses(s) == file[s].state = "ok"

\* A slip: the file is read, and then locked.
BeginUnlocked(p) ==
  LET s == Job(p).scope IN
  /\ Writes(p) /\ MayWrite(p) /\ file[s].state # "broken"
  /\ phase' = [phase EXCEPT ![p] = "merged"] /\ read' = [read EXCEPT ![p] = file[s].values]
  /\ UNCHANGED <<file, lock, managerVars, missed, boundVars, historyVars>>

\* A file that exists is locked and read; of one that does not there is nothing to read.
Begin(p) ==
  LET s == Job(p).scope IN
  /\ Writes(p) /\ MayWrite(p)
  /\ \/ /\ Parses(s) /\ lock[s] = "free"
        /\ lock' = [lock EXCEPT ![s] = p] /\ phase' = [phase EXCEPT ![p] = "locked"]
     \/ /\ file[s].state = "missing"
        /\ phase' = [phase EXCEPT ![p] = "merged"] /\ UNCHANGED lock
  /\ read' = [read EXCEPT ![p] = file[s].values]
  /\ UNCHANGED <<file, managerVars, missed, boundVars, historyVars>>

\* What did not exist is locked when it is to be written.
LockLate(p) ==
  LET s == Job(p).scope IN
  /\ phase[p] = "merged" /\ lock[s] = "free"
  /\ lock' = [lock EXCEPT ![s] = p] /\ phase' = [phase EXCEPT ![p] = "locked"]
  /\ UNCHANGED <<file, managerVars, read, missed, boundVars, historyVars>>

\* The task is over, and the next one is up.
Over(p) ==
  /\ queue' = [queue EXCEPT ![p] = Tail(@)]
  /\ phase' = [phase EXCEPT ![p] = "idle"] /\ read' = [read EXCEPT ![p] = Empty]
  /\ missed' = [missed EXCEPT ![p] = {}]

\* A slip: the marks are those of the time of the write.
MarksNow(p) == modified[p][Job(p).scope]

MarksOf(p) == Job(p).marks

\* The merge of persistScopedSettings, and clearModifiedScope.
Write(p) ==
  LET s == Job(p).scope
      merged == [x \in Path |-> IF x \in MarksOf(p) THEN Job(p).values[x] ELSE read[p][x]] IN
  /\ phase[p] = "locked"
  /\ file' = [file EXCEPT ![s] = Ok(merged)] /\ lock' = [lock EXCEPT ![s] = "free"]
  /\ modified' = [modified EXCEPT ![p][s] = {}]
  /\ written' = written \cup {merged[x] : x \in Path}
  /\ Over(p)
  /\ UNCHANGED <<memory, loadError, trusted, boundVars, lastSet, reported>>

\* The task throws: the project is not trusted any more, the file is broken, or
\* its lock was not free in ten attempts.  The queue records it and goes on.
Refuse(p) ==
  LET s == Job(p).scope IN
  /\ \/ /\ Writes(p)
        /\ \/ ~MayWrite(p)
           \/ (file[s].state # "missing" /\ (lock[s] # "free" \/ ~Parses(s)))
     \/ (phase[p] = "merged" /\ lock[s] # "free")
  /\ reported' = [reported EXCEPT ![p] = TRUE]
  /\ Over(p)
  /\ UNCHANGED <<file, lock, memory, modified, loadError, trusted, boundVars, lastSet, written>>

(***************************************************************************)
(* Loading.                                                                 *)
(***************************************************************************)
Hidden(p, s) == s = "project" /\ ~trusted'[p]

\* tryLoadFromStorage fails on a broken file, and on a lock it does not get.
Fails(p) ==
  {s \in Scopes : ~Hidden(p, s) /\ (file[s].state = "broken"
                                    \/ (file[s].state = "ok" /\ lock[s] # "free"))}

\* What a scope holds after a load; kept is what a failed one leaves.
Loaded(p, s, kept) ==
  IF Hidden(p, s) THEN Empty ELSE IF s \in Fails(p) THEN kept ELSE file[s].values

Load(p, scopes, kept) ==
  /\ memory' = [memory EXCEPT ![p] = [s \in Scopes |->
                  IF s \in scopes THEN Loaded(p, s, kept[s]) ELSE @[s]]]
  /\ loadError' = [loadError EXCEPT ![p] = (@ \ scopes) \cup (Fails(p) \cap scopes)]
  /\ modified' = [modified EXCEPT ![p] = [s \in Scopes |-> IF s \in scopes THEN {} ELSE @[s]]]
  /\ reported' = [reported EXCEPT ![p] = @ \/ (Fails(p) \cap scopes # {})]

\* reload waits for the writes that are queued, and for none behind them.
Reload(p) ==
  /\ phase[p] = "idle" /\ reloads < MaxReloads /\ reloads' = reloads + 1
  /\ queue' = [queue EXCEPT ![p] = Append(@, [kind |-> "reload"])]
  /\ UNCHANGED <<file, lock, memory, modified, loadError, trusted, writeVars, edits, crashes, trusts,
                 historyVars>>

Reloads(p) ==
  /\ phase[p] = "idle" /\ queue[p] # <<>> /\ Job(p).kind = "reload"
  /\ UNCHANGED trusted
  /\ Load(p, Scopes, memory[p]) /\ Over(p)
  /\ UNCHANGED <<file, lock, boundVars, lastSet, written>>

\* setProjectTrusted: the file is forgotten, or loaded.
SetProjectTrusted(p) ==
  /\ phase[p] = "idle" /\ trusts < MaxTrust /\ trusts' = trusts + 1
  /\ trusted' = [trusted EXCEPT ![p] = ~@]
  /\ Load(p, Scopes \cap {"project"}, [s \in Scopes |-> Empty])
  /\ UNCHANGED <<file, lock, queue, writeVars, edits, reloads, crashes, lastSet, written>>

(***************************************************************************)
(* Processes that die, and the files edited by hand.                        *)
(***************************************************************************)
\* The process dies, with the lock in its hands, a part of the file written, or the
\* file cut to nothing, which loads as one without settings.
Crash(p) ==
  /\ phase[p] # "down" /\ crashes < MaxCrashes /\ crashes' = crashes + 1
  /\ phase' = [phase EXCEPT ![p] = "down"]
  /\ \/ UNCHANGED file
     \/ /\ phase[p] = "locked"
        /\ \E left \in {Broken, Ok(Empty)} : file' = [file EXCEPT ![Job(p).scope] = left]
  /\ lock' = [s \in Scopes |-> IF lock[s] = p THEN "dead" ELSE lock[s]]
  /\ queue' = [queue EXCEPT ![p] = <<>>] /\ read' = [read EXCEPT ![p] = Empty]
  /\ missed' = [missed EXCEPT ![p] = {}]
  /\ UNCHANGED <<memory, modified, loadError, trusted, edits, reloads, trusts, historyVars>>

\* SettingsManager.create in the next process.
Create(p) ==
  /\ phase[p] = "down" /\ phase' = [phase EXCEPT ![p] = "idle"]
  /\ trusted' = [trusted EXCEPT ![p] = TRUE]
  /\ memory' = [memory EXCEPT ![p] = [s \in Scopes |-> Loaded(p, s, Empty)]]
  /\ loadError' = [loadError EXCEPT ![p] = Fails(p)]
  /\ modified' = [modified EXCEPT ![p] = [s \in Scopes |-> {}]]
  /\ reported' = [reported EXCEPT ![p] = Fails(p) # {}]
  /\ lastSet' = [lastSet EXCEPT ![p] = [s \in Scopes |-> Empty]]
  /\ UNCHANGED <<file, lock, queue, read, missed, boundVars, written>>

\* A lock that is not touched any more is taken for stale.
StaleLock(s) ==
  /\ lock[s] = "dead" /\ lock' = [lock EXCEPT ![s] = "free"]
  /\ UNCHANGED <<file, managerVars, writeVars, boundVars, historyVars>>

\* The processes that have read the file of s and not yet written it.
Writing(s) == {p \in Process : phase[p] \in {"merged", "locked"} /\ Job(p).scope = s}

\* The user's editor takes no lock, and saves whenever the user likes: also between the
\* read and the write of a process, which then overwrites what it has not seen.
Edit(s, x) ==
  /\ edits < MaxEdits /\ edits' = edits + 1
  /\ \/ /\ file' = [file EXCEPT ![s] = Ok([@.values EXCEPT ![x] = edits'])]
        /\ missed' = [p \in Process |-> missed[p] \cup IF p \in Writing(s) THEN {x} ELSE {}]
     \/ /\ file' = [file EXCEPT ![s] = Broken]
        /\ missed' = [p \in Process |-> missed[p] \cup IF p \in Writing(s) THEN Path ELSE {}]
  /\ UNCHANGED <<lock, managerVars, phase, read, reloads, crashes, trusts, historyVars>>

SettingsNext ==
  \/ \E p \in Process :
       \/ \E s \in Scopes, x \in Path : Set(p, s, x)
       \/ Begin(p) \/ LockLate(p) \/ Write(p) \/ Refuse(p)
       \/ Reload(p) \/ Reloads(p) \/ SetProjectTrusted(p) \/ Crash(p) \/ Create(p)
  \/ \E s \in Scopes : StaleLock(s) \/ \E x \in Path : Edit(s, x)

SettingsSpec == SettingsInit /\ [][SettingsNext]_settingsVars

-----------------------------------------------------------------------------
SettingsTypeOK ==
  /\ file \in [Scopes -> File] /\ lock \in [Scopes -> Process \cup {"free", "dead"}]
  /\ memory \in [Process -> [Scopes -> [Path -> Value]]]
  /\ modified \in [Process -> [Scopes -> SUBSET Path]]
  /\ loadError \in [Process -> SUBSET Scopes] /\ trusted \in [Process -> BOOLEAN]
  /\ phase \in [Process -> {"idle", "merged", "locked", "down"}]
  /\ read \in [Process -> [Path -> Value]] /\ missed \in [Process -> SUBSET Path]
  /\ edits \in 0..MaxEdits /\ lastSet \in [Process -> [Scopes -> [Path -> Value]]]
  /\ written \subseteq Value /\ reported \in [Process -> BOOLEAN]

\* What p has set, and all that its setters have marked.
SetBy(p, s) == {x \in Path : lastSet[p][s][x] # 0}
MarkedBy(p, s) == UNION {Marks(x) : x \in SetBy(p, s)}

\* What a write of p to the file of s changes.
Wrote(p, s) == lock[s] = p /\ lock'[s] = "free" /\ file'[s].state = "ok"
Changed(s) == {x \in Path : file'[s].values[x] # file[s].values[x]}

\* A file that exists is read under the lock and merged with what it holds then
\* (persistScopedSettings in withLock): a write changes what the setters of its process
\* have marked, and keeps what other processes, and edits by hand, have put there since
\* the process has loaded the file.  Only an edit by hand that falls between the read
\* and the write, which takes no lock, may be undone.
EditsAreKept ==
  [][\A p \in Process, s \in Existing :
       Wrote(p, s) => Changed(s) \subseteq MarkedBy(p, s) \cup missed[p]]_settingsVars

\* "External edits to `settings.json` while pi is running are now preserved" (the
\* changelog).  It does not hold of one that is made between a read and a write.
ExternalEditsAreKept ==
  [][\A p \in Process, s \in Existing :
       Wrote(p, s) => Changed(s) \subseteq MarkedBy(p, s)]_settingsVars

\* The same of single keys: it does not hold where a setter marks all of a field.
KeysAreKept ==
  [][\A p \in Process, s \in Existing :
       Wrote(p, s) => Changed(s) \subseteq SetBy(p, s) \cup missed[p]]_settingsVars

\* "per-scope locked read/merge/write" (the changelog), of every file.  It does not hold
\* of one that has to be created.
AllEditsAreKept ==
  [][\A p \in Process, s \in Scopes :
       Wrote(p, s) => Changed(s) \subseteq MarkedBy(p, s) \cup missed[p]]_settingsVars

\* What a value was set to is written, or an error is recorded: marks that one
\* write clears are not missed by the next (enqueueWrite, save).
SavedOrReported ==
  \A p \in Process : phase[p] = "idle" /\ queue[p] = <<>> /\ ~reported[p] =>
    \A s \in Scopes, x \in Path : lastSet[p][s][x] \in written

\* A value is written once, and what is set to the path afterwards stays.  It does
\* not hold: a second setter takes over the marks of the first, whose write is
\* still queued, and the value is written again.
WrittenOnce ==
  [][\A p \in Process, s \in Scopes :
       Wrote(p, s) => \A x \in Changed(s) \ missed[p] : file'[s].values[x] \notin written]_settingsVars
=============================================================================
