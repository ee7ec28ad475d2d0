------------------------------ MODULE FileLock ------------------------------
(***************************************************************************)
(* What withFileMutationQueue promises: for every key a first-come         *)
(* first-served lock.  A caller joins the line of its key behind everyone  *)
(* in it; it goes inside when nobody is ahead of it any more, and is out   *)
(* of the line when its function is over.                                  *)
(***************************************************************************)
CONSTANTS Caller, Key

VARIABLES
  line,    \* for each key, the callers that have joined and not left
  ahead,   \* for each caller, those of its line that joined before it
  inside,  \* the callers whose function is running
  left     \* the callers that are done

lockVars == <<line, ahead, inside, left>>

Init ==
  /\ line = [k \in Key |-> {}] /\ ahead = [c \in Caller |-> {}]
  /\ inside = {} /\ left = {}

Join(c, k) ==
  /\ c \notin left /\ \A j \in Key : c \notin line[j]
  /\ line' = [line EXCEPT ![k] = line[k] \cup {c}]
  /\ ahead' = [ahead EXCEPT ![c] = line[k]]
  /\ UNCHANGED <<inside, left>>

Enter(c) ==
  /\ c \notin inside /\ \E k \in Key : c \in line[k]
  /\ ahead[c] = {}
  /\ inside' = inside \cup {c}
  /\ UNCHANGED <<line, ahead, left>>

Leave(c, k) ==
  /\ c \in inside /\ c \in line[k]
  /\ inside' = inside \ {c}
  /\ line' = [line EXCEPT ![k] = line[k] \ {c}]
  /\ ahead' = [d \in Caller |-> ahead[d] \ {c}]
  /\ left' = left \cup {c}

Next == \E c \in Caller : Enter(c) \/ \E k \in Key : Join(c, k) \/ Leave(c, k)

Safety == Init /\ [][Next]_lockVars
=============================================================================
