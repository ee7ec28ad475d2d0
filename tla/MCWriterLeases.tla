--------------------------- MODULE MCWriterLeases ---------------------------
(* What two processes are asked for: either of them for everything, or one for  *)
(* new sessions and the other one for the rest, which needs fewer states.       *)
EXTENDS WriterLeases, TLC

CONSTANTS r1, r2

Everything == [r \in Repo |-> {"open", "create", "delete", "repair", "close"}]
Shared == (r1 :> {"open", "delete", "repair", "close"}) @@ (r2 :> {"create"})

Alike == Permutations(Repo)
=============================================================================
