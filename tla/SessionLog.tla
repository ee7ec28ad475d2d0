----------------------------- MODULE SessionLog -----------------------------
(***************************************************************************)
(* SessionState (packages/agent/src/harness/session/state.ts): the state   *)
(* of a durable session is the sequence of the mutations applied to it.    *)
(* The maps and lists of the class are indexes over that sequence; here    *)
(* they are operators on its first n elements.                             *)
(*                                                                         *)
(* The entries form a tree; a lane points at the entry that the next one   *)
(* of the lane continues.  Ids are shared by entries and records.          *)
(***************************************************************************)
EXTENDS Naturals, Sequences, FiniteSets, SequencesExt

CONSTANTS
  Lane,    \* the names of lanes
  Main,    \* the lane every session has
  Id,      \* the ids of entries and records
  Null,    \* null and undefined
  Text     \* the texts of labels and names

ASSUME NameAssumption == Main \in Lane /\ Null \notin Id \cup Lane \cup Text

EntryType == {"message", "custom"}   \* only messages can be forked at

EntryMutation == [kind : {"entry"}, seq : Nat, lane : Lane \cup {Null}, id : Id,
                  parentId : Id \cup {Null}, type : EntryType]
RecordMutation == [kind : {"record"}, seq : Nat, lane : Lane, id : Id,
                   type : {"operation_started", "operation_finished"},
                   runId : Id \cup {Null}]
LaneMutation == [kind : {"lane"}, seq : Nat, lane : Lane, leafId : Id \cup {Null}]
NameMutation == [kind : {"name"}, seq : Nat, name : Text \cup {Null}]
LabelMutation == [kind : {"label"}, seq : Nat, targetId : Id, label : Text \cup {Null}]

Mutation == EntryMutation \cup RecordMutation \cup LaneMutation \cup NameMutation
              \cup LabelMutation
-----------------------------------------------------------------------------
(***************************************************************************)
(* What SessionState knows after the first n mutations of a log.           *)
(***************************************************************************)
Of(log, n, kinds) == {i \in 1..n : log[i].kind \in kinds}

\* The latest of some positions in the log, as a set: there is none among none.
Latest(is) == {i \in is : \A j \in is : j <= i}

EntryIds(log, n) == {log[i].id : i \in Of(log, n, {"entry"})}
UsedIds(log, n) == {log[i].id : i \in Of(log, n, {"entry", "record"})}
Lanes(log, n) == {Main} \cup {log[i].lane : i \in Of(log, n, {"lane"})}

\* lanes.get(lane): moved by every lane mutation, and by the entries of the lane.
LeafOf(log, n, lane) ==
  LET moves == {i \in Of(log, n, {"lane", "entry"}) : log[i].lane = lane}
      move  == log[CHOOSE i \in Latest(moves) : TRUE]
  IN  IF Latest(moves) = {} THEN Null ELSE IF move.kind = "lane" THEN move.leafId ELSE move.id

\* findOpenOperations: the ids of what was started and is not finished.
OpenOperations(log, n, lane) ==
  {log[i].id : i \in {i \in Of(log, n, {"record"}) :
    /\ log[i].lane = lane /\ log[i].type = "operation_started"
    /\ \A j \in Of(log, n, {"record"}) :
         ~(/\ i < j /\ log[j].lane = lane
           /\ log[j].type = "operation_finished" /\ log[j].runId = log[i].id)}}

\* The name, and labels.get(id).
NameOf(log) ==
  LET names == Of(log, Len(log), {"name"})
  IN  IF names = {} THEN Null ELSE log[CHOOSE i \in Latest(names) : TRUE].name

LabelOf(log, id) ==
  LET labels == {i \in Of(log, Len(log), {"label"}) : log[i].targetId = id}
  IN  IF labels = {} THEN Null ELSE log[CHOOSE i \in Latest(labels) : TRUE].label

(***************************************************************************)
(* applyMutation accepts m after the first n mutations of the log.         *)
(***************************************************************************)
Accepts(log, n, m) ==
  /\ m.seq = n + 1
  /\ m.kind = "entry" =>
       /\ m.id \notin UsedIds(log, n)
       /\ m.lane # Null => m.lane \in Lanes(log, n) /\ m.parentId = LeafOf(log, n, m.lane)
       /\ m.parentId \in EntryIds(log, n) \cup {Null}
  /\ m.kind = "record" => m.lane \in Lanes(log, n) /\ m.id \notin UsedIds(log, n)
  /\ m.kind = "lane" => m.leafId \in EntryIds(log, n) \cup {Null}
  /\ m.kind = "label" => m.targetId \in EntryIds(log, n)

Replays(log) == \A n \in 1..Len(log) : Accepts(log, n - 1, log[n])
-----------------------------------------------------------------------------
(***************************************************************************)
(* Forks.                                                                  *)
(***************************************************************************)
EntryOf(log, id) == log[CHOOSE i \in Of(log, Len(log), {"entry"}) : log[i].id = id]

\* walkToRoot visits its start and the parent of whatever it visits, and nothing else.
IsClosed(log, ids) == \A id \in ids : EntryOf(log, id).parentId \in ids \cup {Null}
WalkToRoot(log, start) ==
  LET all == EntryIds(log, Len(log))
  IN  {id \in all : start \in all /\ \A ids \in SUBSET all :
                      start \in ids /\ IsClosed(log, ids) => id \in ids}

\* findEntries and findEntriesOnBranch answer the oldest entry first, which is the
\* order the entries are in the log.
Ascending(positions) ==
  CHOOSE order \in [1..Cardinality(positions) -> positions] :
    \A i, j \in 1..Cardinality(positions) : i < j => order[i] < order[j]
PositionsOf(log, ids) == {i \in Of(log, Len(log), {"entry"}) : log[i].id \in ids}

\* What a fork may ask for.  A position is ignored by a tree.
ForkOptions ==
  {[scope |-> "tree"]} \cup
  [scope : {"branch"}, entryId : Id \cup {Null}, position : {"at", "before", Null}]

SelectedEntry(log, options) ==
  IF options.entryId = Null THEN LeafOf(log, Len(log), Main) ELSE options.entryId

ForkAllowed(log, options) ==
  options.scope = "branch" =>
    LET selected == SelectedEntry(log, options)
    IN  selected # Null => /\ selected \in EntryIds(log, Len(log))
                           /\ EntryOf(log, selected).type = "message"

ForkTarget(log, options) ==
  LET selected == SelectedEntry(log, options)
      at == options.position = "at" \/ (options.position = Null /\ options.entryId = Null)
  IN  IF selected = Null \/ at THEN selected ELSE EntryOf(log, selected).parentId

ForkLanes(log, options) ==
  IF options.scope = "branch" THEN [lane \in {Main} |-> ForkTarget(log, options)]
  ELSE [lane \in Lanes(log, Len(log)) |-> LeafOf(log, Len(log), lane)]

CopiedIdsLinear(log, options) ==   \* a slip: a branch is what is older than its entry
  IF options.scope = "tree" THEN EntryIds(log, Len(log))
  ELSE LET target == ForkTarget(log, options)
       IN  {id \in EntryIds(log, Len(log)) :
              target # Null /\ EntryOf(log, id).seq <= EntryOf(log, target).seq}
CopiedIds(log, options) ==
  IF options.scope = "tree" THEN EntryIds(log, Len(log))
  ELSE WalkToRoot(log, ForkTarget(log, options))

\* createForkMutations: the entries, where the lanes are, the name, the labels.
CopiedEntries(log, ids) ==
  LET order == Ascending(PositionsOf(log, ids))
  IN  [i \in DOMAIN order |-> [log[order[i]] EXCEPT !.lane = Null]]

PointersTo(lanes) ==
  LET order == SetToSeq(DOMAIN lanes)
  IN  [i \in DOMAIN order |-> [kind |-> "lane", seq |-> 0, lane |-> order[i],
                              leafId |-> lanes[order[i]]]]

CopiedName(log) ==
  IF NameOf(log) = Null THEN <<>> ELSE <<[kind |-> "name", seq |-> 0, name |-> NameOf(log)]>>

CopiedLabels(log, ids) ==
  LET order == Ascending({i \in PositionsOf(log, ids) : LabelOf(log, log[i].id) # Null})
  IN  [i \in DOMAIN order |-> [kind |-> "label", seq |-> 0, targetId |-> log[order[i]].id,
                              label |-> LabelOf(log, log[order[i]].id)]]

Numbered(mutations) == [i \in DOMAIN mutations |-> [mutations[i] EXCEPT !.seq = i]]

ForkMutations(log, options) ==
  LET copied == CopiedIds(log, options)
  IN  Numbered(CopiedEntries(log, copied) \o PointersTo(ForkLanes(log, options))
                 \o CopiedName(log) \o CopiedLabels(log, copied))
=============================================================================
