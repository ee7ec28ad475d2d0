------------------------------ MODULE BranchCache ------------------------------
(***************************************************************************)
(* The entry tree of a session of the sqlite backend, its lanes and the    *)
(* cache of its branches (packages/session-backends/sqlite-node/src/       *)
(* sqlite: branch-cache.ts, storage/branch-entries.ts, branch-tips.ts,     *)
(* lanes.ts, entries.ts and the operations of repo.ts that use them).      *)
(*                                                                         *)
(* The holder of the session's writer lease (module WriterLeases) adds     *)
(* entries, makes and moves lanes, rebuilds the cache and deletes the      *)
(* session, each in one transaction.  A repository in another process      *)
(* forks the session meanwhile: it needs no lease and reads the source     *)
(* with one statement after the other, outside of a transaction.           *)
(***************************************************************************)
EXTENDS Naturals, Sequences, FiniteSets

CONSTANTS
  Lane,         \* names of lanes
  main,         \* the lane every session starts with
  MaxEntries,   \* entries that are ever added
  MaxRebuilds   \* repairs of the cache

NoLane == MaxEntries + 1   \* the leaf of a lane that does not exist

ASSUME TreeAssumption == main \in Lane /\ MaxEntries \in Nat /\ MaxRebuilds \in Nat

VARIABLES
  parent,    \* parent[e] is the parent of the e-th entry that was added, 0 for a root;
             \* ids are never used again, and the order of ids is that of seq
  entries,   \* the rows of the session in entries
  leaf,      \* leaf[l] is leaf_id of the lane l: an entry, 0 for null, or NoLane
  cache,     \* branch_entries and branch_tips: a branch has an id, a tip and its members
  rebuilds,
  fork       \* the fork in the other process

treeVars == <<parent, entries, leaf, cache, rebuilds, fork>>
source == <<parent, entries, leaf, cache, rebuilds>>

Added == 1..Len(parent)
Exists == leaf[main] # NoLane   \* the session has its row, and with it the lane main

\* A branch id is a uuid: it tells when, and by which entry, the branch was made.
Branch(id, tip, members) == [id |-> id, tip |-> tip, entries |-> members]
Tips(branches) == {b.tip : b \in branches}

(***************************************************************************)
(* insertBranchEntriesForPath walks from an entry through the parents to   *)
(* the root: the least set with the entry that is closed under parent.     *)
(***************************************************************************)
IsClosed(S) == \A e \in S : parent[e] # 0 => parent[e] \in S
Path(e) == {a \in 1..e : \A S \in SUBSET (1..e) : e \in S /\ IsClosed(S) => a \in S}

\* queryCachedBranchRows without further conditions: the branch up to a seq.
Through(members, e) == {a \in members : a <= e}

NoFork == [stage |-> "none", entries |-> {}, leaf |-> [l \in Lane |-> NoLane],
           tips |-> {}, cached |-> <<0, 0>>, sourceGone |-> FALSE]

TreeInit ==
  /\ parent = <<>> /\ entries = {} /\ cache = {} /\ rebuilds = 0
  /\ leaf = [l \in Lane |-> IF l = main THEN 0 ELSE NoLane]
  /\ fork = NoFork
-----------------------------------------------------------------------------
(***************************************************************************)
(* appendEntry: the new entry goes under the leaf of a lane, which moves   *)
(* on to it, and into the cache.                                           *)
(***************************************************************************)
\* The parent is the tip of a branch, which grows ...
TipBranches(p) == {b \in cache : b.tip = p}
Extended(p, e) ==
  \E b \in TipBranches(p) :
    cache' = (cache \ {b}) \cup {Branch(b.id, e, b.entries \cup {e})}

\* ... or it is inside of one, any of which is copied up to the parent.
Containing(p) == {b \in cache : p \in b.entries}
CopiedWhole(p, e) ==   \* a slip: the branch is copied up to its tip
  \E b \in Containing(p) :
    cache' = cache \cup {Branch(<<rebuilds, e>>, e, b.entries \cup {e})}
Copied(p, e) ==
  \E b \in Containing(p) :
    cache' = cache \cup {Branch(<<rebuilds, e>>, e, Through(b.entries, p) \cup {e})}

AppendToCache(p, e) ==
  \/ p = 0 /\ cache' = cache \cup {Branch(<<rebuilds, e>>, e, {e})}
  \/ p # 0 /\ Extended(p, e)
  \/ p # 0 /\ TipBranches(p) = {} /\ Copied(p, e)

AppendEntry(l) ==
  /\ leaf[l] # NoLane /\ Len(parent) < MaxEntries
  /\ leaf[l] = 0 \/ leaf[l] \in entries   \* readLaneHead
  /\ LET e == Len(parent) + 1 IN
       /\ parent' = Append(parent, leaf[l])
       /\ entries' = entries \cup {e}
       /\ leaf' = [leaf EXCEPT ![l] = e]
       /\ AppendToCache(leaf[l], e)
  /\ UNCHANGED <<rebuilds, fork>>

\* createLane and moveLane: to null, or to an entry of the session.
Target == entries \cup {0}
CreateLane(l) ==
  /\ Exists /\ leaf[l] = NoLane
  /\ \E at \in Target : leaf' = [leaf EXCEPT ![l] = at]
  /\ UNCHANGED <<parent, entries, cache, rebuilds, fork>>
MoveLane(l) ==
  /\ leaf[l] # NoLane
  /\ \E to \in Target : leaf' = [leaf EXCEPT ![l] = to]
  /\ UNCHANGED <<parent, entries, cache, rebuilds, fork>>

\* rebuildBranchCache (repairBranchCache): a branch for each entry without a child.
LastEntry == {e \in entries : \A x \in entries : x <= e}   \* a slip: only the newest
Leaves == {e \in entries : \A c \in entries : parent[c] # e}
Rebuild ==
  /\ Exists /\ rebuilds < MaxRebuilds
  /\ \A t \in Leaves : Path(t) \subseteq entries   \* or it throws
  /\ rebuilds' = rebuilds + 1
  /\ cache' = {Branch(<<rebuilds + 1, t>>, t, Path(t)) : t \in Leaves}
  /\ UNCHANGED <<parent, entries, leaf, fork>>

\* delete; and create, which may use the session's id again.
Delete ==
  /\ Exists
  /\ entries' = {} /\ cache' = {} /\ leaf' = [l \in Lane |-> NoLane]
  /\ fork' = [fork EXCEPT !.sourceGone = TRUE]
  /\ UNCHANGED <<parent, rebuilds>>
Create ==
  /\ ~Exists
  /\ leaf' = [leaf EXCEPT ![main] = 0]
  /\ UNCHANGED <<parent, entries, cache, rebuilds, fork>>
-----------------------------------------------------------------------------
(***************************************************************************)
(* fork.  With scope "tree" it reads the entries, then the lanes, then the *)
(* tips.  With scope "branch" it reads the target, then a branch that      *)
(* contains it, then the members of that branch.  A transaction builds the *)
(* fork out of what was read, or nothing at all.                           *)
(***************************************************************************)
StartTree ==
  /\ fork.stage = "none" /\ Exists
  /\ fork' = [NoFork EXCEPT !.stage = "lanes", !.entries = entries]
  /\ UNCHANGED source

\* readLanes throws when a leaf is missing.
LanesFit == \A l \in Lane : leaf[l] \in entries \cup {0, NoLane}
ReadLanes ==
  /\ fork.stage = "lanes"
  /\ fork' = IF LanesFit THEN [fork EXCEPT !.stage = "tips", !.leaf = leaf] ELSE NoFork
  /\ UNCHANGED source

ReadTips ==
  /\ fork.stage = "tips"
  /\ fork' = [fork EXCEPT !.stage = "build", !.tips = Tips(cache)]
  /\ UNCHANGED source

\* The target is the leaf of main or an entry that was asked for, or its parent.
\* An empty target needs nothing more.
StartBranch ==
  /\ fork.stage = "none" /\ Exists
  /\ \E e \in entries \cup {leaf[main]} : \E at \in {TRUE, FALSE} :
       LET target == IF at \/ e = 0 THEN e ELSE parent[e] IN
       fork' = [NoFork EXCEPT !.stage = IF target = 0 THEN "build" ELSE "branch",
                              !.leaf[main] = target, !.tips = {target} \ {0}]
  /\ UNCHANGED source

\* readCachedBranch
FindBranch ==
  /\ fork.stage = "branch"
  /\ \E target \in fork.tips :
       \/ \E b \in Containing(target) :
            fork' = [fork EXCEPT !.stage = "members", !.cached = b.id]
       \/ Containing(target) = {} /\ fork' = NoFork
  /\ UNCHANGED source

\* queryCachedBranchRows
ReadMembers ==
  /\ fork.stage = "members"
  /\ \E target \in fork.tips :
       fork' = [fork EXCEPT !.stage = "build",
                  !.entries = UNION {Through(b.entries, target) : b \in {c \in cache : c.id = fork.cached}}]
  /\ UNCHANGED source

\* buildCachedBranch throws when an entry of the path is missing.
BuildsUnchecked == TRUE   \* a slip: it takes what it finds
Builds == \A t \in fork.tips : Path(t) \subseteq fork.entries
BuildFork ==
  /\ fork.stage = "build"
  /\ fork' = IF Builds THEN [fork EXCEPT !.stage = "forked"] ELSE NoFork
  /\ UNCHANGED source

EndFork ==
  /\ fork.stage = "forked"
  /\ fork' = NoFork
  /\ UNCHANGED source
-----------------------------------------------------------------------------
HolderStep ==
  \/ \E l \in Lane : AppendEntry(l) \/ CreateLane(l) \/ MoveLane(l)
  \/ Rebuild \/ Delete \/ Create

Fork ==
  \/ StartTree \/ ReadLanes \/ ReadTips
  \/ StartBranch \/ FindBranch \/ ReadMembers
  \/ BuildFork \/ EndFork

TreeNext == HolderStep \/ Fork

TreeSpec == TreeInit /\ [][TreeNext]_treeVars
-----------------------------------------------------------------------------
Stages == {"none", "lanes", "tips", "branch", "members", "build", "forked"}
BranchRow == [id : Nat \X Nat, tip : Nat, entries : SUBSET Nat]
ForkRecord == [stage : Stages, entries : SUBSET Nat, leaf : [Lane -> 0..NoLane],
               tips : SUBSET Nat, cached : Nat \X Nat, sourceGone : BOOLEAN]

TreeTypeOK ==
  /\ parent \in Seq(Nat) /\ Len(parent) <= MaxEntries
  /\ entries \in SUBSET Added
  /\ leaf \in [Lane -> 0..NoLane]
  /\ cache \in SUBSET BranchRow
  /\ rebuilds \in 0..MaxRebuilds
  /\ fork \in ForkRecord

\* The branches are the root paths of the tips, and each entry is on one: a query
\* for the branch of an entry finds one, and whichever it finds (the first by id)
\* returns the ancestors of the entry (findEntriesOnBranch).
ReadsAreRootPaths ==
  \A e \in entries :
    /\ Containing(e) # {}
    /\ \A b \in Containing(e) : Through(b.entries, e) = Path(e)

\* What was forked, whatever the writer did between the statements, is a session
\* that can be worked with: its lanes and branches are made of its own entries,
\* it has its main lane and each entry is on a branch - if the source was not deleted.
ForkIsWhole ==
  /\ fork.leaf[main] # NoLane
  /\ \A l \in Lane : fork.leaf[l] \in fork.entries \cup {0, NoLane}
  /\ fork.entries = UNION {Path(t) : t \in fork.tips}
ForksAreWhole == fork.stage = "forked" /\ ~fork.sourceGone => ForkIsWhole

\* "SQLite uses one read transaction" (packages/agent/docs/harness.md:802): also a
\* fork whose source is deleted meanwhile is made of one snapshot.
ForksAreSnapshots == fork.stage = "forked" => ForkIsWhole
=============================================================================
