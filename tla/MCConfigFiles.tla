--------------------------- MODULE MCConfigFiles ---------------------------
(* Instances of ConfigFiles for TLC. *)
EXTENDS ConfigFiles, TLC

Symmetric == Permutations(Creators) \cup Permutations(Updaters) \cup Permutations(Contents)
=============================================================================
