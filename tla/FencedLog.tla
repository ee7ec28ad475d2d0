------------------------------ MODULE FencedLog ------------------------------
(***************************************************************************)
(* What the writer leases of the sqlite backend promise about one session: *)
(* there is at most one holder, only the holder adds to the log, and a     *)
(* holder that was replaced never comes back, because every claim is made  *)
(* under a new owner id (packages/session-backends/sqlite-node).           *)
(***************************************************************************)
EXTENDS Naturals, Sequences

VARIABLES
  log,     \* who added to the session's log, in order; the items of one writer that
           \* follow each other count as one
  holder,  \* the current holder; 0 when there is none
  issued   \* the owner ids in use are 1..issued

vars == <<log, holder, issued>>

Init == log = <<>> /\ holder = 0 /\ issued = 0

\* A claim, whoever held the lease before.
Grant == issued' = issued + 1 /\ holder' = issued + 1 /\ UNCHANGED log

\* The holder's write.
Add ==
  /\ holder # 0
  /\ log' = IF log # <<>> /\ log[Len(log)] = holder THEN log ELSE Append(log, holder)
  /\ UNCHANGED <<holder, issued>>

\* The holder lets go, or somebody who may claim the session removes the
\* claim, or the whole session.
Vacate == holder' = 0 /\ log' \in {log, <<>>} /\ UNCHANGED issued

Next == Grant \/ Add \/ Vacate

Spec == Init /\ [][Next]_vars

\* The items of an owner are next to each other: nobody writes between them.
Unmixed == \A i, j \in DOMAIN log : i # j => log[i] # log[j]
=============================================================================
