-------------------------- MODULE MCRollingRestart --------------------------
EXTENDS RollingRestart, TLC

(* For the invariants: the handlers are interchangeable. *)
Symmetric == Permutations(Handlers)
=============================================================================
