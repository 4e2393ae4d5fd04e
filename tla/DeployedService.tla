-------------------------- MODULE DeployedService --------------------------
(***************************************************************************)
(* What the modules of the volume driver family are parameterised by: one  *)
(* stateful service, deployed on the nodes of one cluster.                 *)
(***************************************************************************)
CONSTANTS None,     \* no node, no member, no task
          Kinds,    \* {"primary"} or {"primary", "journal"}
          Members,  \* members of the service
          Nodes,    \* EC2 instances, also the ECS container instances
          Tasks     \* ids of the tasks the framework starts, each at most once

ASSUME KindsAssumption == "primary" \in Kinds /\ Kinds \subseteq {"primary", "journal"}

ASSUME NoneAssumption == None \notin Nodes \cup Members \cup Tasks
=============================================================================
