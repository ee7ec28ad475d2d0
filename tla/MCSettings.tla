------------------------------ MODULE MCSettings ------------------------------
(***************************************************************************)
(* Two paths that are marked by themselves, and two keys of one field, whose *)
(* setter marks the field.  The processes are alike.                        *)
(***************************************************************************)
EXTENDS Settings, TLC

CONSTANTS p, q

MCModels == ("m1" :> "models") @@ ("m2" :> "models")
MCFlat == ("theme" :> "theme") @@ ("images" :> "images")
Alike == Permutations(Process)
=============================================================================
