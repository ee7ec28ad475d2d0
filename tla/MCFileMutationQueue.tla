------------------------- MODULE MCFileMutationQueue -------------------------
(* A file and a link to it: two paths, and two keys while there is no file. *)
EXTENDS FileMutationQueue

CONSTANTS file, link

MCPath == {file, link}
MCCanonicalPath == [p \in MCPath |-> IF p = link THEN file ELSE p]
=============================================================================
