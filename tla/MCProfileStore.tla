--------------------------- MODULE MCProfileStore ---------------------------
(* Two store instances on one directory, three changes, two faults.         *)
EXTENDS ProfileStore, TLC
Interchangeable == Permutations(Changes) \cup Permutations(Writers)
=============================================================================
