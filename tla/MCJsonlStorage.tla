--------------------------- MODULE MCJsonlStorage ---------------------------
EXTENDS JsonlStorage, TLC

\* Ids are compared with each other only.
IdSymmetry == Permutations(Id)
=============================================================================
