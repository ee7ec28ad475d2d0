---------------------------- MODULE JsonlStorage ----------------------------
(***************************************************************************)
(* JsonlSessionStorage (packages/agent/src/harness/session/jsonl/          *)
(* storage.ts): a session is a file with one JSON line per mutation.  A    *)
(* storage object keeps the state in memory, appends a line for every      *)
(* mutation and applies the mutation when the line is written.  load       *)
(* replays the file and repairs what an append that was cut off left.      *)
(*                                                                         *)
(* A storage runs one operation at a time (enqueue), so a call is modelled *)
(* when its turn comes; calls that fail their validation change nothing.   *)
(* The header line is not modelled: the file was created.  The process may *)
(* crash at any step, and appends and publications may fail.               *)
(***************************************************************************)
EXTENDS SessionLog

CONSTANTS
  Handle,         \* the storage objects on the file
  Writer,         \* those that are written through; the others are read and forked from
  PartialWrites,  \* may an append that fails leave part of its text behind?
  MaxMutations,   \* bound of the log
  NoFile          \* there is no temporary file

VARIABLES
  file,      \* the lines behind the header, and whether the last one is terminated
  tmp,       \* the temporary file next to it
  pc,        \* what each storage awaits
  mem,       \* the log of each storage's SessionState
  pending,   \* the mutation it is appending
  detached,  \* the storages that are writing to a file that was renamed over
  acked      \* history: the mutations that a caller was told of

vars == <<file, tmp, pc, mem, pending, detached, acked>>

Point == {"closed", "stage", "rename", "newline", "ready", "append", "part", "written"}

(***************************************************************************)
(* A line is a mutation, the beginning of one, or something that is not    *)
(* JSON either: two texts on one line, or an empty line.                   *)
(***************************************************************************)
Torn(m) == [kind |-> "torn", of |-> m]
Garbage == [kind |-> "garbage"]
IsSyntaxError(line) == line.kind \in {"torn", "garbage"}
Line == Mutation \cup [kind : {"torn"}, of : Mutation] \cup {Garbage}
Content == [lines : Seq(Line), ended : BOOLEAN]

ASSUME StorageAssumption ==
  Writer \subseteq Handle /\ PartialWrites \in BOOLEAN /\ MaxMutations \in Nat
    /\ NoFile \notin Content /\ Null \notin Mutation

\* A line, or the beginning of one, is appended to a file.
AddText(c, line, ended) ==
  IF c.ended THEN [lines |-> Append(c.lines, line), ended |-> ended]
             ELSE [lines |-> Append(Front(c.lines), Garbage), ended |-> ended]

\* The rest of m is appended: to the part of it, unless something came between.
AddRest(c, m) ==
  IF ~c.ended /\ Last(c.lines) \in {Torn(m), m}
  THEN [lines |-> Append(Front(c.lines), m), ended |-> TRUE]
  ELSE AddText(c, Garbage, TRUE)

HasTornTail(c) == c.lines # <<>> /\ IsSyntaxError(Last(c.lines))
ValidPrefix(c) == IF HasTornTail(c) THEN Front(c.lines) ELSE c.lines
Loadable(c) ==
  LET lines == ValidPrefix(c)
  IN  (\A i \in 1..Len(lines) : ~IsSyntaxError(lines[i])) /\ Replays(lines)

Init ==
  /\ file = [lines |-> <<>>, ended |-> TRUE] /\ tmp = NoFile
  /\ pc = [h \in Handle |-> "closed"]
  /\ mem = [h \in Handle |-> <<>>]
  /\ pending = [h \in Handle |-> Null]
  /\ detached = {} /\ acked = {}
-----------------------------------------------------------------------------
(***************************************************************************)
(* load                                                                    *)
(***************************************************************************)
\* The mutations of a storage that is loaded are known to its caller.
Goto(h, point) ==
  /\ pc' = [pc EXCEPT ![h] = point]
  /\ acked' = IF point = "ready" THEN acked \cup ToSet(mem'[h]) ELSE acked

AfterReadTrusting(c) == "ready"   \* a slip: nothing is repaired
AfterRead(c) == IF HasTornTail(c) THEN "stage" ELSE IF c.ended THEN "ready" ELSE "newline"

Read(h) ==
  /\ pc[h] = "closed" /\ Loadable(file)
  /\ mem' = [mem EXCEPT ![h] = ValidPrefix(file)]
  /\ Goto(h, AfterRead(file))
  /\ UNCHANGED <<file, tmp, pending, detached>>

\* publishFileAtomically: the valid prefix is written next to the file ...
Stage(h) ==
  /\ pc[h] = "stage"
  /\ tmp' = [lines |-> mem[h], ended |-> TRUE]
  /\ Goto(h, "rename")
  /\ UNCHANGED <<file, mem, pending, detached>>

\* ... and renamed over it.  Who is writing goes on in the file that was there.
Publish(h) ==
  /\ pc[h] = "rename" /\ tmp # NoFile
  /\ file' = tmp /\ tmp' = NoFile
  /\ detached' = detached \cup {g \in Handle : pc[g] = "part"}
  /\ UNCHANGED <<mem, pending>>
  /\ Goto(h, "ready")

RepairNewline(h) ==
  /\ pc[h] = "newline"
  /\ file' = IF file.ended THEN AddText(file, Garbage, TRUE) ELSE [file EXCEPT !.ended = TRUE]
  /\ UNCHANGED <<tmp, mem, pending, detached>>
  /\ Goto(h, "ready")

\* The repair fails, and load with it; the temporary file is removed.
LoadFails(h) ==
  /\ pc[h] \in {"stage", "rename", "newline"}
  /\ tmp' = IF pc[h] = "newline" THEN tmp ELSE NoFile
  /\ mem' = [mem EXCEPT ![h] = <<>>]
  /\ Goto(h, "closed")
  /\ UNCHANGED <<file, pending, detached>>
-----------------------------------------------------------------------------
(***************************************************************************)
(* The operations: validation against the memory, and the mutation.        *)
(***************************************************************************)
NextSequence(h) == Len(mem[h]) + 1
HasLane(h, lane) == lane \in Lanes(mem[h], Len(mem[h]))
IsTarget(h, id) == id = Null \/ id \in EntryIds(mem[h], Len(mem[h]))
IsUnused(h, id) == id \notin UsedIds(mem[h], Len(mem[h]))
IsIdle(h, lane) == OpenOperations(mem[h], Len(mem[h]), lane) = {}

Begin(h, m) ==
  /\ h \in Writer /\ pc[h] = "ready" /\ m.seq <= MaxMutations
  /\ pending' = [pending EXCEPT ![h] = m]
  /\ Goto(h, "append")
  /\ UNCHANGED <<file, tmp, mem, detached>>

PointLane(h, lane, to) ==
  Begin(h, [kind |-> "lane", seq |-> NextSequence(h), lane |-> lane, leafId |-> to])
CreateLane(h, lane, at) == ~HasLane(h, lane) /\ IsTarget(h, at) /\ PointLane(h, lane, at)
MoveLane(h, lane, to) == HasLane(h, lane) /\ IsTarget(h, to) /\ PointLane(h, lane, to)

AppendEntry(h, lane, id, type) ==
  /\ HasLane(h, lane) /\ IsUnused(h, id)
  /\ Begin(h, [kind |-> "entry", seq |-> NextSequence(h), lane |-> lane, id |-> id,
               parentId |-> LeafOf(mem[h], Len(mem[h]), lane), type |-> type])

\* appendRecord.  The records of other types are as one that finishes nothing.
StartOperation(h, lane, id) ==
  /\ HasLane(h, lane) /\ IsUnused(h, id) /\ IsIdle(h, lane)
  /\ Begin(h, [kind |-> "record", seq |-> NextSequence(h), lane |-> lane, id |-> id,
               type |-> "operation_started", runId |-> Null])
FinishOperation(h, lane, id, runId) ==
  /\ HasLane(h, lane) /\ IsUnused(h, id)
  /\ Begin(h, [kind |-> "record", seq |-> NextSequence(h), lane |-> lane, id |-> id,
               type |-> "operation_finished", runId |-> runId])

SetName(h, name) == Begin(h, [kind |-> "name", seq |-> NextSequence(h), name |-> name])
SetLabel(h, id, label) ==
  /\ IsTarget(h, id)
  /\ Begin(h, [kind |-> "label", seq |-> NextSequence(h), targetId |-> id, label |-> label])

Operation(h) ==
  \/ \E lane \in Lane, to \in Id \cup {Null} : CreateLane(h, lane, to) \/ MoveLane(h, lane, to)
  \/ \E lane \in Lane, id \in Id :
       \/ \E type \in EntryType : AppendEntry(h, lane, id, type)
       \/ StartOperation(h, lane, id)
       \/ \E runId \in Id : FinishOperation(h, lane, id, runId)
  \/ \E text \in Text \cup {Null} :
       SetName(h, text) \/ \E id \in Id : SetLabel(h, id, text)
-----------------------------------------------------------------------------
(***************************************************************************)
(* appendMutation and applyMutation                                        *)
(***************************************************************************)
\* Part of the text is in the file, or all of it but the newline.
WritePart(h) ==
  /\ pc[h] = "append"
  /\ \E text \in {Torn(pending[h]), pending[h]} : file' = AddText(file, text, FALSE)
  /\ Goto(h, "part")
  /\ UNCHANGED <<tmp, mem, pending, detached>>

Write(h) ==
  /\ pc[h] \in {"append", "part"}
  /\ file' = IF h \in detached THEN file
             ELSE IF pc[h] = "part" THEN AddRest(file, pending[h])
             ELSE AddText(file, pending[h], TRUE)
  /\ detached' = detached \ {h}
  /\ Goto(h, "written")
  /\ UNCHANGED <<tmp, mem, pending>>

Settled(h) == pending' = [pending EXCEPT ![h] = Null]

\* The append was reported to be done: the mutation is applied, and the caller told.
Applied(log, m) == IF Accepts(log, Len(log), m) THEN Append(log, m) ELSE log

Acknowledge(h) ==
  /\ pc[h] = "written"
  /\ mem' = [mem EXCEPT ![h] = Applied(@, pending[h])]
  /\ Settled(h)
  /\ Goto(h, "ready")
  /\ UNCHANGED <<file, tmp, detached>>

\* The append fails: the caller is told, the state stays.
AfterFailureApplied(log, m) == Append(log, m)   \* a slip: applied before it is written
AfterFailure(log, m) == log

AppendFails(h) ==
  /\ pc[h] = "append" \/ (PartialWrites /\ pc[h] = "part")
  /\ mem' = [mem EXCEPT ![h] = AfterFailure(@, pending[h])]
  /\ Settled(h)
  /\ detached' = detached \ {h}
  /\ Goto(h, "ready")
  /\ UNCHANGED <<file, tmp>>

\* The process ends, at any time; the files stay as they are.
Crash ==
  /\ \E h \in Handle : pc[h] # "closed"
  /\ pc' = [h \in Handle |-> "closed"]
  /\ mem' = [h \in Handle |-> <<>>]
  /\ pending' = [h \in Handle |-> Null]
  /\ detached' = {}
  /\ UNCHANGED <<file, tmp, acked>>

Next ==
  \/ \E h \in Handle :
       \/ Read(h) \/ Stage(h) \/ Publish(h) \/ RepairNewline(h) \/ LoadFails(h)
       \/ Operation(h)
       \/ WritePart(h) \/ Write(h) \/ Acknowledge(h) \/ AppendFails(h)
  \/ Crash

Spec == Init /\ [][Next]_vars
-----------------------------------------------------------------------------
TypeOK ==
  /\ file \in Content /\ (~file.ended => file.lines # <<>>)
  /\ tmp = NoFile \/ (tmp \in Content /\ tmp.ended)
  /\ pc \in [Handle -> Point]
  /\ mem \in [Handle -> Seq(Mutation)]
  /\ pending \in [Handle -> Mutation \cup {Null}]
  /\ \A h \in Handle : pending[h] # Null <=> pc[h] \in {"append", "part", "written"}
  /\ detached \in SUBSET Handle /\ acked \in SUBSET Mutation

\* Whatever crashes, failures and repairs came before, and at whatever step the
\* process ends now: the file can be loaded, and every mutation that a caller was
\* told of is in it (storage.ts:69-108, 267-272).
AcknowledgedKept == Loadable(file) /\ acked \subseteq ToSet(ValidPrefix(file))

\* Between two operations the memory of the storage is exactly what a load of the
\* file gives, and the next append starts a line of its own (state.ts:100-101, the
\* state in memory and the durable log must not fork).
MemoryIsFile ==
  \A h \in Handle : pc[h] = "ready" => file = [lines |-> mem[h], ended |-> TRUE]

\* A lane has at most one open operation, also after a reload (storage.ts:176-182;
\* applyMutation does not look at it again).
AtMostOneOpen(log) ==
  \A lane \in Lane : \A a, b \in OpenOperations(log, Len(log), lane) : a = b
OneOpenOperation == \A h \in Handle : AtMostOneOpen(mem[h])

\* Every fork replays into a session whose lanes point where they did, with the
\* branches they had, the name, and the labels of what was copied (state.ts:269-308).
ForkIsFaithful(log, options) ==
  LET fork == ForkMutations(log, options)
      lanes == ForkLanes(log, options)
  IN  /\ Replays(fork)
      /\ Lanes(fork, Len(fork)) = DOMAIN lanes
      /\ \A lane \in DOMAIN lanes :
           /\ LeafOf(fork, Len(fork), lane) = lanes[lane]
           /\ WalkToRoot(fork, lanes[lane]) = WalkToRoot(log, lanes[lane])
      /\ NameOf(fork) = NameOf(log)
      /\ \A id \in EntryIds(fork, Len(fork)) : LabelOf(fork, id) = LabelOf(log, id)
      /\ options.scope = "branch" =>
           EntryIds(fork, Len(fork)) = WalkToRoot(log, ForkTarget(log, options))

ForksAreFaithful ==
  \A h \in Handle : pc[h] = "ready" =>
    \A options \in ForkOptions :
      ForkAllowed(mem[h], options) => ForkIsFaithful(mem[h], options)
=============================================================================
