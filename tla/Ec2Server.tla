----------------------------- MODULE Ec2Server -----------------------------
(***************************************************************************)
(* The server package's EC2 implementation (pkg/server/awsec2/ec2.go): the *)
(* EBS volumes of the members of one service and the network interface     *)
(* that holds each member's static ip.                                     *)
(*                                                                         *)
(* A member m has one volume per kind k: the primary (data) volume and,    *)
(* for some services, the journal volume.  All the volumes of one kind use *)
(* the same device name on every node, because the device is assigned to   *)
(* the service (common.ServiceVolumes), so a node can hold at most one     *)
(* volume of a kind.                                                       *)
(*                                                                         *)
(* Every call takes the outcome ok as a parameter: ok is the nil error.    *)
(* What EBS does between two calls (an attachment or a detachment          *)
(* completes) is external to the repository; a device still mounted by the *)
(* host or by a container keeps its volume in "detaching", which is what   *)
(* the comments of volume.go rely on.                                      *)
(***************************************************************************)
EXTENDS DeployedService

VARIABLES vol,    \* vol[m, k]: state of the volume and the node it is attached to
          ipAt    \* ipAt[m]: node whose network interface holds m's static ip

ec2Vars == <<vol, ipAt>>

Volumes == Members \X Kinds
VolumeStates == {"available", "attaching", "in-use", "detaching"}

Ec2TypeOK ==
  /\ vol \in [Volumes -> [state : VolumeStates, at : Nodes \cup {None}]]
  /\ ipAt \in [Members -> Nodes \cup {None}]

Ec2Init ==
  vol = [v \in Volumes |-> [state |-> "available", at |-> None]]

-----------------------------------------------------------------------------
(* The state GetVolumeState reports: the attachment state, when there is    *)
(* one, overrides "in-use".                                                 *)
GetVolumeState(m, k) == vol[m, k].state

(* The node the device of kind k is present on holds that volume.  The      *)
(* device appears when the attachment completes and disappears when the     *)
(* detachment does.                                                         *)
DeviceOf(n, k) == {m \in Members : /\ vol[m, k].at = n
                                   /\ vol[m, k].state \in {"in-use", "detaching"}}

(* Without Force, EBS only starts the detachment.  IncorrectState with the  *)
(* volume available counts as success; a volume attached elsewhere is an    *)
(* error; EBS may or may not accept to detach an attachment in progress.    *)
Mutant_ForceDetach(m, k, n, ok) ==
  /\ ok
  /\ vol' = [vol EXCEPT ![<<m, k>>] = [state |-> "available", at |-> None]]
DetachVolume(m, k, n, ok) ==
  \/ ok /\ vol[m, k].state = "available" /\ UNCHANGED vol
  \/ ok /\ vol[m, k].at = n /\ vol' = [vol EXCEPT ![<<m, k>>].state = "detaching"]
  \/ /\ ~ok
     /\ vol[m, k].state # "available"
     /\ vol[m, k].at # n \/ vol[m, k].state = "attaching"
     /\ UNCHANGED vol

CanAttach(m, k, n) == /\ vol[m, k].state = "available"
                      /\ \A x \in Members : vol[x, k].at # n

AttachVolume(m, k, n, ok) ==
  \/ ok /\ CanAttach(m, k, n)
        /\ vol' = [vol EXCEPT ![<<m, k>>] = [state |-> "attaching", at |-> n]]
  \/ ~ok /\ ~CanAttach(m, k, n) /\ UNCHANGED vol

(* The polling loops: the answer once they return.  While the volume stays  *)
(* in the state waited on, the loop may use up its maxRetryCount and give   *)
(* ErrTimeout; any other state is ErrVolumeIncorrectState.  Neither loop    *)
(* looks at the instance of the attachment.                                 *)
Mutant_WaitForever(m, k, ok) == ok /\ vol[m, k].state = "available"
WaitVolumeDetached(m, k, ok) == ok = (vol[m, k].state = "available")
WaitVolumeAttached(m, k, ok) == ok = (vol[m, k].state = "in-use")

-----------------------------------------------------------------------------
(* Assigning an address another interface holds is refused (the request     *)
(* does not set AllowReassignment); unassigning one it does not hold is     *)
(* reported as success.                                                     *)
AssignStaticIP(n, m, ok) ==
  \/ ok /\ ipAt[m] \in {None, n} /\ ipAt' = [ipAt EXCEPT ![m] = n]
  \/ ~ok /\ ipAt[m] \notin {None, n} /\ UNCHANGED ipAt

UnassignStaticIP(n, m) ==
  ipAt' = [ipAt EXCEPT ![m] = IF @ = n THEN None ELSE @]

-----------------------------------------------------------------------------
(* EBS completes what was requested.  Busy(m, k) is the set of nodes where  *)
(* a file system of the volume is still mounted.                            *)
AttachCompletes(m, k) ==
  /\ vol[m, k].state = "attaching"
  /\ vol' = [vol EXCEPT ![<<m, k>>].state = "in-use"]
  /\ UNCHANGED ipAt

DetachCompletes(m, k, busy) ==
  /\ vol[m, k].state = "detaching"
  /\ vol[m, k].at \notin busy
  /\ vol' = [vol EXCEPT ![<<m, k>>] = [state |-> "available", at |-> None]]
  /\ UNCHANGED ipAt
=============================================================================
