--------------------------- MODULE MemberVolumes ---------------------------
(***************************************************************************)
(* What the volume driver promises for a volume of a member: at any time   *)
(* the file system is mounted on at most one node, and it moves to another *)
(* node only after it was released.                                        *)
(***************************************************************************)
CONSTANTS Nodes, Volumes

VARIABLE users   \* users[v]: the nodes that have volume v mounted

Init == users = [v \in Volumes |-> {}]

(* A node mounts a volume no other node uses. *)
Acquire(v, n) ==
  /\ users[v] \subseteq {n}
  /\ users' = [users EXCEPT ![v] = {n}]

(* A node stops using some of its volumes: an umount, an exit, a reboot. *)
Release(n, S) ==
  /\ \A v \in S : users[v] = {n}
  /\ users' = [v \in Volumes |-> IF v \in S THEN {} ELSE users[v]]

Next == \E n \in Nodes :
          \/ \E v \in Volumes : Acquire(v, n)
          \/ \E S \in SUBSET Volumes : Release(n, S)

Spec == Init /\ [][Next]_users
=============================================================================
