--------------------------- MODULE MCRecordStore ---------------------------
EXTENDS RecordStore, TLC

(* For the invariants: the clients are interchangeable. *)
Symmetric == Permutations(Clients)
=============================================================================
