-------------------------- MODULE ContainerService --------------------------
(***************************************************************************)
(* The container framework as the volume driver sees it: the ECS service   *)
(* scheduler (pkg/containersvc/awsecs/ecs.go queries it) and the docker    *)
(* daemon of each node, which calls the volume plugin.  The scheduler and  *)
(* docker are external; ListActiveServiceTasks and GetServiceTask are the  *)
(* repository's queries.                                                   *)
(*                                                                         *)
(* A task leaves `active' as soon as its desired status is not RUNNING:    *)
(* its container may still be starting, running or stopping on its node.   *)
(***************************************************************************)
EXTENDS Naturals, FiniteSets, DeployedService

CONSTANT NamedMembers    \* the framework passes the member name to the volume

ASSUME NamedMembersAssumption == NamedMembers \in BOOLEAN

VARIABLES active,     \* tasks whose desired status is RUNNING
          taskNode,   \* taskNode[t]: the container instance t was placed on
          ctr         \* ctr[n]: the service's container on node n

ctrVars == <<active, taskNode, ctr>>

NoContainer == [phase |-> "none", refs |-> {}, slot |-> None]

(* refs: the volume names docker has mounted and not unmounted yet. *)
Containers == [phase : {"none", "starting", "running", "stopping"},
               refs : SUBSET Kinds, slot : Members \cup {None}]

CtrTypeOK ==
  /\ active \in SUBSET Tasks
  /\ taskNode \in [Tasks -> Nodes \cup {None}]
  /\ ctr \in [Nodes -> Containers]

CtrInit ==
  /\ active = {}
  /\ taskNode = [t \in Tasks |-> None]
  /\ ctr = [n \in Nodes |-> NoContainer]

-----------------------------------------------------------------------------
(* Tasks of the service with DesiredStatus RUNNING. *)
ListActiveServiceTasks == active

(* The tasks of the service on the local container instance: an error       *)
(* unless there is exactly one.                                             *)
LocalTasks(n) == {t \in active : taskNode[t] = n}
GetServiceTask(n, t, ok) ==
  IF ok THEN LocalTasks(n) = {t} ELSE \A x \in Tasks : LocalTasks(n) # {x}

-----------------------------------------------------------------------------
(* The scheduler keeps at most one active task per member and, as volume.go *)
(* assumes, one container of the service per node.                          *)
StartTask(t, n, slot) ==
  /\ taskNode[t] = None
  /\ ctr[n].phase = "none"
  /\ Cardinality(active) < Cardinality(Members)
  /\ (slot = None) <=> ~NamedMembers
  /\ active' = active \cup {t}
  /\ taskNode' = [taskNode EXCEPT ![t] = n]
  /\ ctr' = [ctr EXCEPT ![n] = [NoContainer EXCEPT !.phase = "starting", !.slot = slot]]

(* A task is stopped, or its node is considered lost, at any time. *)
StopTask(t) ==
  /\ t \in active
  /\ active' = active \ {t}
  /\ UNCHANGED <<taskNode, ctr>>

(* docker's view of a finished plugin call for volume name k. *)
MountReturns(n, k, ok) ==
  /\ ctr' = IF ok THEN [ctr EXCEPT ![n].refs = @ \cup {k}]
                  ELSE [ctr EXCEPT ![n].phase = "stopping"]
  /\ UNCHANGED <<active, taskNode>>

UnmountReturns(n, k) ==
  /\ ctr' = [ctr EXCEPT ![n].refs = @ \ {k}]
  /\ UNCHANGED <<active, taskNode>>

SetPhase(n, from, to) ==
  /\ ctr[n].phase = from
  /\ ctr' = [ctr EXCEPT ![n].phase = to]
  /\ UNCHANGED <<active, taskNode>>

(* All the volumes of a stopped container were unmounted. *)
RemoveContainer(n) ==
  /\ ctr[n].phase = "stopping"
  /\ ctr[n].refs = {}
  /\ ctr' = [ctr EXCEPT ![n] = NoContainer]
  /\ UNCHANGED <<active, taskNode>>
=============================================================================
