--------------------------- MODULE MCVolumeDriver ---------------------------
(* Instances of VolumeDriver for TLC. *)
EXTENDS VolumeDriver, TLC

(* All nodes and members in one availability zone. *)
OneZone == [x \in Nodes \cup Members |-> "a"]

(* Task ids are opaque to the driver; in one zone, so are nodes and members. *)
TaskSymmetry == Permutations(Tasks)
NodeSymmetry == Permutations(Tasks) \cup Permutations(Nodes)
ClusterSymmetry == NodeSymmetry \cup Permutations(Members)
=============================================================================
