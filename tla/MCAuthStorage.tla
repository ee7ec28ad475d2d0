---------------------------- MODULE MCAuthStorage ----------------------------
(***************************************************************************)
(* Two requests in one process, and one in another.                         *)
(***************************************************************************)
EXTENDS AuthStorage, TLC

CONSTANTS p1, p2, r1, r2, r3

MCHome == (r1 :> p1) @@ (r2 :> p1) @@ (r3 :> p2)
=============================================================================
