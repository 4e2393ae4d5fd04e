------------------------- MODULE MCServiceLifecycle -------------------------
(* Instances of ServiceLifecycle for TLC. *)
EXTENDS ServiceLifecycle, TLC

NoOverlap == {}
CreateOverlap == {<<"create", "create">>}
UpdateOverlap == (AllOps \ {"delete"}) \X (AllOps \ {"delete"})

Symmetric == Permutations(UUIDs) \cup Permutations(Handlers) \cup Permutations(Services)
=============================================================================
