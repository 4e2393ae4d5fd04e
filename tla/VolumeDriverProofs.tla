------------------------- MODULE VolumeDriverProofs -------------------------
(***************************************************************************)
(* Proofs about VolumeDriver for any number of nodes, members and tasks,   *)
(* any bound on faults and crashes, and both kinds of services.            *)
(*                                                                         *)
(* First the types, MountedWhereAttached, the promise of MemberVolumes and *)
(* the owners of a member (OwnerIsLatest).  All but the types rest on the  *)
(* type invariant TypeInv and on a classification of the steps, by what    *)
(* they do to the volumes and the mounts, and by what they do to the       *)
(* member records; each is proved once per action.                         *)
(*                                                                         *)
(* Then the host of a member: what a node has mounted, cached, counted and *)
(* on its interface agrees with the request its driver works on.           *)
(* HostOK(n) relates these for one node; it depends on the state of n      *)
(* alone, so a step of one driver is checked at its own node, and          *)
(* UntouchedOK carries the others over.  ConnectionsCoverRefs,             *)
(* CachedIsMounted, ServedByItsMember and NoStrayIP follow from it.        *)
(***************************************************************************)
EXTENDS VolumeDriver, FiniteSetTheorems, TLAPS

(* What a request in progress needs from the state around it: docker waits  *)
(* for a Mount with the container still starting, a named container names a *)
(* member, and a request past the selection, or of Unmount, has a member.   *)
ChosenSteps == MountSteps \ {"list", "localIPs", "select"}
MemberSteps == ChosenSteps \cup UnmountSteps

RequestsWellFormed ==
  \A n \in Nodes :
    /\ pc[n] \in MountSteps => ctr[n].phase = "starting"
    /\ NamedMembers /\ ctr[n].phase # "none" => ctr[n].slot \in Members
    /\ pc[n] \in MemberSteps => req[n].m \in Members

(* The part of the invariant about the flow of requests, and the rest. *)
FlowInv == CtrTypeOK /\ RequestTypeOK /\ RequestsWellFormed
DataInv == /\ Ec2TypeOK /\ NetTypeOK /\ HostTypeOK
           /\ mem \in [Members -> MemberRecords]
           /\ faults \in 0..MaxFaults
           /\ crashes \in 0..MaxCrashes
TypeInv == FlowInv /\ DataInv

LEMMA NoRequestType == NoRequest \in Requests /\ NoRecord \in MemberRecords
  BY KindsAssumption DEF NoRequest, NoRecord, Requests, MemberRecords, IPRecords

(* The ways a step of a request ends. *)
LEMMA FlowContinue ==
  ASSUME FlowInv, NEW n \in Nodes, NEW step \in Steps, NEW r \in Requests,
         Continue(n, step, r),
         step \in MountSteps => ctr[n].phase = "starting",
         step \in MemberSteps => r.m \in Members
  PROVE  FlowInv'
  BY DEF FlowInv, CtrTypeOK, RequestTypeOK, RequestsWellFormed, Continue, Goto, ctrVars

LEMMA FlowMountFails ==
  ASSUME FlowInv, NEW n \in Nodes, pc[n] \in MountSteps, MountFails(n)
  PROVE  FlowInv'
  BY NoRequestType
  DEF FlowInv, CtrTypeOK, RequestTypeOK, RequestsWellFormed, MountFails, Release,
      MountReturns, Goto, Containers, Steps, MountSteps, UnmountSteps, ChosenSteps, MemberSteps

LEMMA FlowMountSucceeds ==
  ASSUME FlowInv, NEW n \in Nodes, pc[n] \in MountSteps, MountSucceeds(n)
  PROVE  FlowInv'
  <1>1. req[n].name \in Kinds
    BY DEF FlowInv, RequestTypeOK, Requests
  <1> QED
  BY <1>1, NoRequestType
  DEF FlowInv, CtrTypeOK, RequestTypeOK, RequestsWellFormed, MountSucceeds, Release,
      MountReturns, Goto, Containers, Steps, MountSteps, UnmountSteps, ChosenSteps, MemberSteps

LEMMA FlowUnmountDone ==
  ASSUME FlowInv, NEW n \in Nodes, UnmountDone(n)
  PROVE  FlowInv'
  BY NoRequestType
  DEF FlowInv, CtrTypeOK, RequestTypeOK, RequestsWellFormed, UnmountDone, Release,
      UnmountReturns, Goto, Containers, Steps, MountSteps, UnmountSteps, ChosenSteps, MemberSteps

(* The data a step does not touch. *)
LEMMA FaultType ==
  ASSUME DataInv, Fault \/ NoFault
  PROVE  faults' \in 0..MaxFaults
  BY BoundsAssumption DEF DataInv, Fault, NoFault

LEMMA DataUnchanged ==
  ASSUME DataInv, Fault \/ NoFault, UNCHANGED <<ec2Vars, netVars, hostVars, mem, crashes>>
  PROVE  DataInv'
  BY FaultType
  DEF DataInv, Ec2TypeOK, NetTypeOK, HostTypeOK, ec2Vars, netVars, hostVars

(* The calls that change a volume or an ip keep the types. *)
LEMMA DetachVolumeType ==
  ASSUME Ec2TypeOK, NEW m \in Members, NEW k \in Kinds, NEW n, NEW ok,
         DetachVolume(m, k, n, ok) \/ UNCHANGED vol, UNCHANGED ipAt
  PROVE  Ec2TypeOK'
  <1>1. \/ vol' = [vol EXCEPT ![<<m, k>>].state = "detaching"]
        \/ UNCHANGED vol
    BY Zenon DEF DetachVolume
  <1> QED BY <1>1 DEF Ec2TypeOK, Volumes, VolumeStates

LEMMA TryDetachType ==
  ASSUME DataInv, NEW m \in Members, NEW k \in Kinds, NEW n, TryDetach(m, k, n), UNCHANGED ipAt
  PROVE  Ec2TypeOK' /\ faults' \in 0..MaxFaults
  BY DetachVolumeType, FaultType DEF DataInv, TryDetach

LEMMA AttachVolumeType ==
  ASSUME Ec2TypeOK, NEW m \in Members, NEW k \in Kinds, NEW n \in Nodes, NEW ok \in BOOLEAN,
         AttachVolume(m, k, n, ok) \/ UNCHANGED vol, UNCHANGED ipAt
  PROVE  Ec2TypeOK'
  <1>1. \/ vol' = [vol EXCEPT ![<<m, k>>] = [state |-> "attaching", at |-> n]]
        \/ UNCHANGED vol
    BY Zenon DEF AttachVolume
  <1> QED BY <1>1 DEF Ec2TypeOK, Volumes, VolumeStates

LEMMA UnassignType ==
  ASSUME Ec2TypeOK, NEW m \in Members, NEW n, UnassignStaticIP(n, m)
  PROVE  ipAt' \in [Members -> Nodes \cup {None}]
  BY DEF Ec2TypeOK, UnassignStaticIP

LEMMA DeleteIPType ==
  ASSUME NetTypeOK, NEW m, NEW n \in Nodes, DeleteIP(n, m) \/ UNCHANGED localIP
  PROVE  localIP' \in [Nodes -> SUBSET Members]
  BY DEF NetTypeOK, DeleteIP

(* The facts a step of Mount starts from. *)
LEMMA RequestFacts ==
  ASSUME TypeInv, NEW n \in Nodes
  PROVE  /\ req[n] \in Requests
         /\ req[n].k \in Kinds /\ req[n].name \in Kinds
         /\ pc[n] \in MountSteps => ctr[n].phase = "starting"
         /\ pc[n] \in ChosenSteps => req[n].m \in Members
         /\ pc[n] \in UnmountSteps => req[n].m \in Members
  BY DEF TypeInv, FlowInv, RequestTypeOK, RequestsWellFormed, Requests, MemberSteps

LEMMA NextVolumeFlow ==
  ASSUME TypeInv, NEW n \in Nodes, NEW step \in ChosenSteps, NEW after \in ChosenSteps,
         pc[n] \in ChosenSteps, NextVolume(n, step, after)
  PROVE  FlowInv'
  <1>1. pc[n] \in MountSteps /\ step \in Steps /\ after \in Steps
    BY DEF ChosenSteps, Steps
  <1>2. [req[n] EXCEPT !.k = "primary"] \in Requests /\ [req[n] EXCEPT !.k = "primary"].m = req[n].m
    BY RequestFacts, KindsAssumption DEF Requests
  <1>3. HasJournal => /\ [req[n] EXCEPT !.k = "journal"] \in Requests
                      /\ [req[n] EXCEPT !.k = "journal"].m = req[n].m
    BY RequestFacts DEF Requests, HasJournal
  <1> QED BY <1>1, <1>2, <1>3, FlowContinue, RequestFacts DEF TypeInv, NextVolume

-----------------------------------------------------------------------------
(* One lemma per step of Mount *)

LEMMA ListTasksType ==
  ASSUME TypeInv, NEW n \in Nodes, ListTasks(n)
  PROVE  TypeInv'
  <1>1. pc[n] \in MountSteps
    BY DEF ListTasks, MountSteps
  <1>2. [req[n] EXCEPT !.tasks = ListActiveServiceTasks] \in Requests
    BY RequestFacts DEF TypeInv, FlowInv, CtrTypeOK, Requests, ListActiveServiceTasks
  <1>3. FlowInv'
    BY <1>1, <1>2, RequestFacts, FlowContinue, FlowMountFails
    DEF TypeInv, ListTasks, ChosenSteps, MemberSteps, Steps, MountSteps, UnmountSteps
  <1>4. DataInv'
    BY DataUnchanged DEF TypeInv, ListTasks
  <1> QED BY <1>3, <1>4 DEF TypeInv

LEMMA ListLocalIPsType ==
  ASSUME TypeInv, NEW n \in Nodes, ListLocalIPs(n)
  PROVE  TypeInv'
  <1>1. pc[n] \in MountSteps
    BY DEF ListLocalIPs, MountSteps
  <1>2. [req[n] EXCEPT !.ips = {m \in Members : ipAt[m] = n}] \in Requests
    BY RequestFacts DEF Requests
  <1>3. FlowInv'
    BY <1>1, <1>2, RequestFacts, FlowContinue, FlowMountFails
    DEF TypeInv, ListLocalIPs, ChosenSteps, MemberSteps, Steps, MountSteps, UnmountSteps
  <1>4. DataInv'
    BY DataUnchanged DEF TypeInv, ListLocalIPs
  <1> QED BY <1>3, <1>4 DEF TypeInv

LEMMA SelectMemberType ==
  ASSUME TypeInv, NEW n \in Nodes, SelectMember(n)
  PROVE  TypeInv'
  <1>1. pc[n] \in MountSteps
    BY DEF SelectMember, MountSteps
  <1>2. Candidates(n) \subseteq Members
    BY <1>1, RequestFacts
    DEF TypeInv, FlowInv, RequestsWellFormed, Candidates, Preferred, IdleMembers, LocalZone
  <1>3. ASSUME NEW m \in Candidates(n), NEW k \in Kinds
        PROVE  /\ [req[n] EXCEPT !.m = m, !.rec = mem[m], !.task = n, !.k = k] \in Requests
               /\ [req[n] EXCEPT !.m = m, !.rec = mem[m], !.task = n, !.k = k].m \in Members
    BY <1>2, <1>3, RequestFacts DEF Requests, TypeInv, DataInv
  <1>4. ASSUME NEW m \in Candidates(n)
        PROVE  /\ (IF HasJournal /\ mem[m].server # None THEN "journal" ELSE "primary") \in Kinds
               /\ (IF mem[m].server = None THEN AfterDetached ELSE "lastState") \in Steps
    BY KindsAssumption DEF HasJournal, AfterDetached, Steps, MountSteps
  <1>5. FlowInv'
    BY <1>1, <1>3, <1>4, RequestFacts, FlowContinue, FlowMountFails DEF TypeInv, SelectMember
  <1>6. DataInv'
    BY DataUnchanged DEF TypeInv, SelectMember
  <1> QED BY <1>5, <1>6 DEF TypeInv

LEMMA LastOwnerDetachedFlow ==
  ASSUME TypeInv, NEW n \in Nodes, pc[n] \in ChosenSteps, LastOwnerDetached(n)
  PROVE  FlowInv'
  <1>1. pc[n] \in MountSteps
    BY DEF ChosenSteps
  <1>2. [req[n] EXCEPT !.k = "primary"] \in Requests /\ [req[n] EXCEPT !.k = "primary"].m = req[n].m
    BY RequestFacts, KindsAssumption DEF Requests
  <1>3. "lastState" \in Steps /\ AfterDetached \in Steps
    BY DEF AfterDetached, Steps, MountSteps
  <1> QED BY <1>1, <1>2, <1>3, FlowContinue, RequestFacts DEF TypeInv, LastOwnerDetached

LEMMA CheckLastStateType ==
  ASSUME TypeInv, NEW n \in Nodes, CheckLastState(n)
  PROVE  TypeInv'
  <1>1. pc[n] \in ChosenSteps /\ pc[n] \in MountSteps
    BY DEF CheckLastState, ChosenSteps, MountSteps
  <1>2. FlowInv'
    BY <1>1, LastOwnerDetachedFlow, RequestFacts, FlowContinue, FlowMountFails
    DEF TypeInv, CheckLastState, Steps, MountSteps
  <1>3. DataInv'
    BY DataUnchanged DEF TypeInv, CheckLastState
  <1> QED BY <1>2, <1>3 DEF TypeInv

LEMMA DetachLastOwnerType ==
  ASSUME TypeInv, NEW n \in Nodes, DetachLastOwner(n)
  PROVE  TypeInv'
  <1>1. pc[n] \in ChosenSteps /\ pc[n] \in MountSteps
    BY DEF DetachLastOwner, ChosenSteps, MountSteps
  <1>2. FlowInv'
    BY <1>1, RequestFacts, FlowContinue, FlowMountFails
    DEF TypeInv, DetachLastOwner, Steps, MountSteps
  <1>3. Ec2TypeOK'
    BY <1>1, RequestFacts, DetachVolumeType DEF TypeInv, DataInv, DetachLastOwner
  <1>4. DataInv'
    BY <1>3, FaultType DEF TypeInv, DataInv, DetachLastOwner, NetTypeOK, HostTypeOK, netVars, hostVars
  <1> QED BY <1>2, <1>4 DEF TypeInv

LEMMA WaitLastDetachedType ==
  ASSUME TypeInv, NEW n \in Nodes, WaitLastDetached(n)
  PROVE  TypeInv'
  <1>1. pc[n] \in ChosenSteps /\ pc[n] \in MountSteps
    BY DEF WaitLastDetached, ChosenSteps, MountSteps
  <1>2. FlowInv'
    BY <1>1, LastOwnerDetachedFlow, FlowMountFails DEF TypeInv, WaitLastDetached
  <1>3. DataInv'
    BY DataUnchanged DEF TypeInv, WaitLastDetached
  <1> QED BY <1>2, <1>3 DEF TypeInv

LEMMA GetLocalTaskType ==
  ASSUME TypeInv, NEW n \in Nodes, GetLocalTask(n)
  PROVE  TypeInv'
  <1>1. pc[n] \in ChosenSteps /\ pc[n] \in MountSteps /\ "cas" \in Steps
    BY DEF GetLocalTask, ChosenSteps, Steps, MountSteps
  <1>2. ASSUME NEW t \in Tasks
        PROVE  /\ [req[n] EXCEPT !.task = t] \in Requests
               /\ [req[n] EXCEPT !.task = t].m = req[n].m
    BY RequestFacts DEF Requests
  <1>3. FlowInv'
    BY <1>1, <1>2, RequestFacts, FlowContinue, FlowMountFails DEF TypeInv, GetLocalTask
  <1>4. DataInv'
    BY DataUnchanged DEF TypeInv, GetLocalTask
  <1> QED BY <1>3, <1>4 DEF TypeInv

LEMMA WriteOwnerType ==
  ASSUME TypeInv, NEW n \in Nodes, WriteOwner(n)
  PROVE  TypeInv'
  <1> DEFINE new == UpdateServiceMemberOwner(req[n].rec, req[n].task, n)
  <1>1. pc[n] \in ChosenSteps /\ pc[n] \in MountSteps /\ AfterOwned \in Steps
    BY DEF WriteOwner, ChosenSteps, Steps, MountSteps, AfterOwned
  <1>2. new \in MemberRecords
    BY RequestFacts DEF Requests, MemberRecords, UpdateServiceMemberOwner
  <1>3. [req[n] EXCEPT !.rec = new] \in Requests /\ [req[n] EXCEPT !.rec = new].m = req[n].m
    BY <1>2, RequestFacts DEF Requests
  <1>4. FlowInv'
    BY <1>1, <1>3, RequestFacts, FlowContinue, FlowMountFails DEF TypeInv, WriteOwner
  <1>5. mem' \in [Members -> MemberRecords]
    BY <1>1, <1>2 DEF WriteOwner, TypeInv, DataInv, UpdateServiceMember
  <1>6. DataInv'
    BY <1>5, FaultType
    DEF TypeInv, DataInv, WriteOwner, Ec2TypeOK, NetTypeOK, HostTypeOK, ec2Vars, netVars, hostVars
  <1> QED BY <1>4, <1>6 DEF TypeInv

LEMMA UpdateDNSType ==
  ASSUME TypeInv, NEW n \in Nodes, UpdateDNS(n)
  PROVE  TypeInv'
  <1>1. pc[n] \in ChosenSteps /\ pc[n] \in MountSteps /\ "dnsWait" \in Steps
    BY DEF UpdateDNS, ChosenSteps, Steps, MountSteps
  <1>2. FlowInv'
    BY <1>1, RequestFacts, FlowContinue, FlowMountFails DEF TypeInv, UpdateDNS
  <1>3. dns' \in [Members -> Nodes \cup {None}]
    BY DEF UpdateDNS, UpdateDNSRecord, TypeInv, DataInv, NetTypeOK
  <1>4. DataInv'
    BY <1>3, FaultType
    DEF TypeInv, DataInv, UpdateDNS, Ec2TypeOK, NetTypeOK, HostTypeOK, ec2Vars, hostVars
  <1> QED BY <1>2, <1>4 DEF TypeInv

LEMMA WaitDNSType ==
  ASSUME TypeInv, NEW n \in Nodes, WaitDNS(n)
  PROVE  TypeInv'
  <1>1. pc[n] \in ChosenSteps /\ pc[n] \in MountSteps /\ "attach" \in Steps
    BY DEF WaitDNS, ChosenSteps, Steps, MountSteps
  <1>2. FlowInv'
    BY <1>1, RequestFacts, FlowContinue, FlowMountFails DEF TypeInv, WaitDNS
  <1>3. DataInv'
    BY DataUnchanged DEF TypeInv, WaitDNS
  <1> QED BY <1>2, <1>3 DEF TypeInv

LEMMA GetInterfaceType ==
  ASSUME TypeInv, NEW n \in Nodes, GetInterface(n)
  PROVE  TypeInv'
  <1> DEFINE r == [req[n] EXCEPT !.ips = {m \in Members : ipAt[m] = n},
                                 !.iprec = ipRec[req[n].m]]
  <1>1. pc[n] \in ChosenSteps /\ pc[n] \in MountSteps /\ "dangling" \in Steps
    BY DEF GetInterface, ChosenSteps, Steps, MountSteps
  <1>2. r \in Requests /\ r.m = req[n].m
    BY <1>1, RequestFacts DEF Requests, TypeInv, DataInv, NetTypeOK
  <1>3. FlowInv'
    BY <1>1, <1>2, RequestFacts, FlowContinue, FlowMountFails DEF TypeInv, GetInterface
  <1>4. DataInv'
    BY DataUnchanged DEF TypeInv, GetInterface
  <1> QED BY <1>3, <1>4 DEF TypeInv

LEMMA DropDanglingIPType ==
  ASSUME TypeInv, NEW n \in Nodes, DropDanglingIP(n)
  PROVE  TypeInv'
  <1> DEFINE drop(m) == [req[n] EXCEPT !.ips = @ \ {m}]
             read(i) == [req[n] EXCEPT !.iprec = i]
  <1>1. /\ pc[n] \in ChosenSteps /\ pc[n] \in MountSteps
        /\ {"dangling", "attach", "ipRecord", "unassign"} \subseteq Steps
    BY DEF DropDanglingIP, ChosenSteps, Steps, MountSteps
  <1>2. \A m \in Members : drop(m) \in Requests /\ drop(m).m = req[n].m
    BY RequestFacts DEF Requests
  <1>3. \A i \in {req[n].iprec, ipRec[req[n].m]} : read(i) \in Requests /\ read(i).m = req[n].m
    BY <1>1, RequestFacts DEF Requests, TypeInv, DataInv, NetTypeOK
  <1>4. req[n].ips \subseteq Members
    BY RequestFacts DEF Requests
  <1>5. FlowInv'
    BY <1>1, <1>2, <1>3, <1>4, RequestFacts, FlowContinue, FlowMountFails
    DEF TypeInv, DropDanglingIP
  <1>6. ipAt' \in [Members -> Nodes \cup {None}]
    BY <1>4, UnassignType DEF TypeInv, DataInv, DropDanglingIP, Ec2TypeOK
  <1>7. localIP' \in [Nodes -> SUBSET Members]
    BY <1>4, DeleteIPType DEF TypeInv, DataInv, DropDanglingIP, NetTypeOK
  <1>8. DataInv'
    BY <1>6, <1>7, FaultType
    DEF TypeInv, DataInv, DropDanglingIP, Ec2TypeOK, NetTypeOK, HostTypeOK, hostVars
  <1> QED BY <1>5, <1>8 DEF TypeInv

LEMMA UnassignOldIPType ==
  ASSUME TypeInv, NEW n \in Nodes, UnassignOldIP(n)
  PROVE  TypeInv'
  <1>1. pc[n] \in ChosenSteps /\ pc[n] \in MountSteps /\ "assign" \in Steps
    BY DEF UnassignOldIP, ChosenSteps, Steps, MountSteps
  <1>2. FlowInv'
    BY <1>1, RequestFacts, FlowContinue, FlowMountFails DEF TypeInv, UnassignOldIP
  <1>3. ipAt' \in [Members -> Nodes \cup {None}]
    BY <1>1, RequestFacts, UnassignType DEF TypeInv, DataInv, UnassignOldIP, Ec2TypeOK
  <1>4. DataInv'
    BY <1>3, FaultType
    DEF TypeInv, DataInv, UnassignOldIP, Ec2TypeOK, NetTypeOK, HostTypeOK, netVars, hostVars
  <1> QED BY <1>2, <1>4 DEF TypeInv

LEMMA AssignLocalIPType ==
  ASSUME TypeInv, NEW n \in Nodes, AssignLocalIP(n)
  PROVE  TypeInv'
  <1>1. pc[n] \in ChosenSteps /\ pc[n] \in MountSteps /\ "ipRecord" \in Steps
    BY DEF AssignLocalIP, ChosenSteps, Steps, MountSteps
  <1>2. FlowInv'
    BY <1>1, RequestFacts, FlowContinue, FlowMountFails DEF TypeInv, AssignLocalIP
  <1>3. ipAt' \in [Members -> Nodes \cup {None}]
    BY DEF TypeInv, DataInv, AssignLocalIP, AssignStaticIP, Ec2TypeOK
  <1>4. DataInv'
    BY <1>3, FaultType
    DEF TypeInv, DataInv, AssignLocalIP, Ec2TypeOK, NetTypeOK, HostTypeOK, netVars, hostVars
  <1> QED BY <1>2, <1>4 DEF TypeInv

LEMMA WriteIPRecordType ==
  ASSUME TypeInv, NEW n \in Nodes, WriteIPRecord(n)
  PROVE  TypeInv'
  <1>1. pc[n] \in ChosenSteps /\ pc[n] \in MountSteps /\ "attach" \in Steps
    BY DEF WriteIPRecord, ChosenSteps, Steps, MountSteps
  <1>2. FlowInv'
    BY <1>1, RequestFacts, FlowContinue, FlowMountFails DEF TypeInv, WriteIPRecord
  <1>3. [node |-> n, rev |-> req[n].iprec.rev + 1] \in IPRecords
    BY RequestFacts DEF Requests, IPRecords
  <1>4. ipRec' \in [Members -> IPRecords]
    BY <1>3 DEF TypeInv, DataInv, WriteIPRecord, UpdateServiceStaticIP, NetTypeOK
  <1>5. DataInv'
    BY <1>4, FaultType
    DEF TypeInv, DataInv, WriteIPRecord, Ec2TypeOK, NetTypeOK, HostTypeOK, ec2Vars, hostVars
  <1> QED BY <1>2, <1>5 DEF TypeInv

LEMMA AttachVolumesType ==
  ASSUME TypeInv, NEW n \in Nodes, AttachVolumes(n)
  PROVE  TypeInv'
  <1> DEFINE r == [req[n] EXCEPT !.k = "primary"]
  <1>1. pc[n] \in ChosenSteps /\ pc[n] \in MountSteps
    BY DEF AttachVolumes, ChosenSteps, MountSteps
  <1>2. {"attach", "attachWait", "attachUndo"} \subseteq ChosenSteps \cap Steps
    BY DEF ChosenSteps, Steps, MountSteps
  <1>3. r \in Requests /\ r.m = req[n].m
    BY RequestFacts, KindsAssumption DEF Requests
  <1>4. AttachFails(n) => FlowInv'
    BY <1>1, <1>2, <1>3, RequestFacts, FlowContinue, FlowMountFails DEF TypeInv, AttachFails
  <1>5. FlowInv'
    BY <1>1, <1>2, <1>4, NextVolumeFlow DEF AttachVolumes
  <1>6. Ec2TypeOK'
    BY <1>1, RequestFacts, AttachVolumeType DEF TypeInv, DataInv, AttachVolumes
  <1>7. DataInv'
    BY <1>6, FaultType DEF TypeInv, DataInv, AttachVolumes, NetTypeOK, HostTypeOK, netVars, hostVars
  <1> QED BY <1>5, <1>7 DEF TypeInv

LEMMA UndoAttachType ==
  ASSUME TypeInv, NEW n \in Nodes, UndoAttach(n)
  PROVE  TypeInv'
  <1>1. pc[n] \in ChosenSteps /\ pc[n] \in MountSteps
    BY DEF UndoAttach, ChosenSteps, MountSteps
  <1>2. FlowInv'
    BY <1>1, FlowMountFails DEF TypeInv, UndoAttach
  <1>3. Ec2TypeOK' /\ faults' \in 0..MaxFaults
    BY <1>1, RequestFacts, TryDetachType, KindsAssumption DEF TypeInv, UndoAttach
  <1>4. DataInv'
    BY <1>3 DEF TypeInv, DataInv, UndoAttach, NetTypeOK, HostTypeOK, netVars, hostVars
  <1> QED BY <1>2, <1>4 DEF TypeInv

LEMMA WaitAttachedType ==
  ASSUME TypeInv, NEW n \in Nodes, WaitAttached(n)
  PROVE  TypeInv'
  <1> DEFINE r == [req[n] EXCEPT !.k = "primary"]
  <1>1. pc[n] \in ChosenSteps /\ pc[n] \in MountSteps
    BY DEF WaitAttached, ChosenSteps, MountSteps
  <1>2. {"attachWait", "attachAbort", "format"} \subseteq ChosenSteps \cap Steps
    BY DEF ChosenSteps, Steps, MountSteps
  <1>3. r \in Requests /\ r.m = req[n].m
    BY RequestFacts, KindsAssumption DEF Requests
  <1>4. FlowInv'
    BY <1>1, <1>2, <1>3, RequestFacts, FlowContinue, NextVolumeFlow DEF TypeInv, WaitAttached
  <1>5. DataInv'
    BY DataUnchanged DEF TypeInv, WaitAttached
  <1> QED BY <1>4, <1>5 DEF TypeInv

LEMMA AbortAttachType ==
  ASSUME TypeInv, NEW n \in Nodes, AbortAttach(n)
  PROVE  TypeInv'
  <1> DEFINE r == [req[n] EXCEPT !.k = "journal"]
  <1>1. pc[n] \in ChosenSteps /\ pc[n] \in MountSteps /\ "attachAbort" \in Steps
    BY DEF AbortAttach, ChosenSteps, Steps, MountSteps
  <1>2. HasJournal => r \in Requests /\ r.m = req[n].m
    BY RequestFacts DEF Requests, HasJournal
  <1>3. FlowInv'
    BY <1>1, <1>2, RequestFacts, FlowContinue, FlowMountFails DEF TypeInv, AbortAttach
  <1>4. Ec2TypeOK' /\ faults' \in 0..MaxFaults
    BY <1>1, RequestFacts, TryDetachType DEF TypeInv, AbortAttach
  <1>5. DataInv'
    BY <1>4 DEF TypeInv, DataInv, AbortAttach, NetTypeOK, HostTypeOK, netVars, hostVars
  <1> QED BY <1>3, <1>5 DEF TypeInv

LEMMA FormatVolumesType ==
  ASSUME TypeInv, NEW n \in Nodes, FormatVolumes(n)
  PROVE  TypeInv'
  <1>1. pc[n] \in ChosenSteps /\ pc[n] \in MountSteps
    BY DEF FormatVolumes, ChosenSteps, MountSteps
  <1>2. "format" \in ChosenSteps /\ AfterFormat \in ChosenSteps
    BY DEF ChosenSteps, MountSteps, AfterFormat
  <1>3. FlowInv'
    BY <1>1, <1>2, NextVolumeFlow, FlowMountFails DEF TypeInv, FormatVolumes, Mkfs
  <1>4. formats' \in [Volumes -> 0..1]
    <2>1. \/ \E m \in Members : formats' = [formats EXCEPT ![<<m, req[n].k>>] = 1]
          \/ UNCHANGED formats
      BY Zenon DEF FormatVolumes, Mkfs, DeviceOf
    <2>2. formats \in [Volumes -> 0..1]
      BY DEF TypeInv, DataInv, HostTypeOK
    <2>3. \A m \in Members : <<m, req[n].k>> \in Volumes
      BY RequestFacts DEF Volumes
    <2>4. ASSUME NEW v \in Volumes, formats' = [formats EXCEPT ![v] = 1]
          PROVE  formats' \in [Volumes -> 0..1]
      BY <2>2, <2>4
    <2> QED BY <2>1, <2>2, <2>3, <2>4
  <1>5. DataInv'
    BY <1>4, FaultType
    DEF TypeInv, DataInv, FormatVolumes, Ec2TypeOK, NetTypeOK, HostTypeOK, ec2Vars, netVars
  <1> QED BY <1>3, <1>5 DEF TypeInv

LEMMA AddLocalIPType ==
  ASSUME TypeInv, NEW n \in Nodes, AddLocalIP(n)
  PROVE  TypeInv'
  <1>1. pc[n] \in ChosenSteps /\ pc[n] \in MountSteps /\ "mountFS" \in Steps
    BY DEF AddLocalIP, ChosenSteps, Steps, MountSteps
  <1>2. FlowInv'
    BY <1>1, RequestFacts, FlowContinue, FlowMountFails DEF TypeInv, AddLocalIP
  <1>3. localIP' \in [Nodes -> SUBSET Members]
    BY <1>1, RequestFacts DEF TypeInv, DataInv, NetTypeOK, AddLocalIP, AddIP
  <1>4. DataInv'
    BY <1>3, FaultType
    DEF TypeInv, DataInv, AddLocalIP, Ec2TypeOK, NetTypeOK, HostTypeOK, ec2Vars, hostVars
  <1> QED BY <1>2, <1>4 DEF TypeInv

(* Mounting and unmounting a path keeps the type of mnt. *)
LEMMA PathType ==
  ASSUME HostTypeOK, NEW n \in Nodes, NEW k \in Kinds,
         \/ \E m \in Members : MountPath(n, k, m)
         \/ UnmountPath(n, k)
         \/ UNCHANGED mnt
  PROVE  mnt' \in [Nodes -> [Kinds -> Members \cup {None}]]
  <1>1. ASSUME NEW m \in Members \cup {None}, mnt' = [mnt EXCEPT ![n][k] = m]
        PROVE  mnt' \in [Nodes -> [Kinds -> Members \cup {None}]]
    <2>1. [mnt[n] EXCEPT ![k] = m] \in [Kinds -> Members \cup {None}]
      BY DEF HostTypeOK
    <2>2. mnt' = [mnt EXCEPT ![n] = [mnt[n] EXCEPT ![k] = m]]
      BY <1>1
    <2> QED BY <2>1, <2>2 DEF HostTypeOK
  <1> QED BY <1>1 DEF HostTypeOK, MountPath, UnmountPath

LEMMA CacheType ==
  ASSUME HostTypeOK, NEW n \in Nodes, NEW e \in CacheEntries,
         cache' = [cache EXCEPT ![n] = e] \/ UNCHANGED cache
  PROVE  cache' \in [Nodes -> CacheEntries]
  BY DEF HostTypeOK

LEMMA CacheEntryTypes ==
  NotCached \in CacheEntries /\ \A m \in Members : [m |-> m, conns |-> 1] \in CacheEntries
  BY DEF NotCached, CacheEntries

LEMMA MountVolumesType ==
  ASSUME TypeInv, NEW n \in Nodes, MountVolumes(n)
  PROVE  TypeInv'
  <1>1. pc[n] \in ChosenSteps /\ pc[n] \in MountSteps
    BY DEF MountVolumes, ChosenSteps, MountSteps
  <1>2. "mountFS" \in ChosenSteps /\ "config" \in ChosenSteps
    BY DEF ChosenSteps, MountSteps
  <1>3. FlowInv'
    BY <1>1, <1>2, NextVolumeFlow, FlowMountFails DEF TypeInv, MountVolumes
  <1>4. mnt' \in [Nodes -> [Kinds -> Members \cup {None}]]
    BY RequestFacts, PathType, KindsAssumption DEF TypeInv, DataInv, MountVolumes, DeviceOf
  <1>5. localIP' \in [Nodes -> SUBSET Members]
    BY DeleteIPType DEF TypeInv, DataInv, MountVolumes, DeleteIPAgain, TryDeleteIP
  <1>6. faults' \in 0..MaxFaults
    <2>1. \/ Fault \/ NoFault
          \/ faults + 1 < MaxFaults /\ faults' = faults + 2
      BY DEF MountVolumes
    <2> QED BY <2>1, FaultType, BoundsAssumption DEF TypeInv, DataInv
  <1>7. DataInv'
    BY <1>4, <1>5, <1>6
    DEF TypeInv, DataInv, MountVolumes, Ec2TypeOK, NetTypeOK, HostTypeOK, ec2Vars
  <1> QED BY <1>3, <1>7 DEF TypeInv

LEMMA CreateConfigType ==
  ASSUME TypeInv, NEW n \in Nodes, CreateConfig(n)
  PROVE  TypeInv'
  <1>1. pc[n] \in ChosenSteps /\ pc[n] \in MountSteps /\ "undoUmount" \in Steps
    BY DEF CreateConfig, ChosenSteps, Steps, MountSteps
  <1>2. FlowInv'
    BY <1>1, RequestFacts, FlowContinue, FlowMountSucceeds DEF TypeInv, CreateConfig
  <1>3. cache' \in [Nodes -> CacheEntries]
    BY <1>1, RequestFacts, CacheType, CacheEntryTypes
    DEF TypeInv, DataInv, CreateConfig, addMountedVolume
  <1>4. memFile' \in [Nodes -> Members \cup {None}]
    BY <1>1, RequestFacts DEF TypeInv, DataInv, HostTypeOK, CreateConfig
  <1>5. DataInv'
    BY <1>3, <1>4, FaultType
    DEF TypeInv, DataInv, CreateConfig, Ec2TypeOK, NetTypeOK, HostTypeOK, ec2Vars, netVars
  <1> QED BY <1>2, <1>5 DEF TypeInv

LEMMA UmountOneType ==
  ASSUME TypeInv, NEW n \in Nodes, NEW ok \in BOOLEAN, UmountOne(n, ok)
  PROVE  /\ mnt' \in [Nodes -> [Kinds -> Members \cup {None}]]
         /\ faults' \in 0..MaxFaults
  BY RequestFacts, PathType, FaultType DEF TypeInv, DataInv, UmountOne

LEMMA UndoUmountType ==
  ASSUME TypeInv, NEW n \in Nodes, UndoUmount(n)
  PROVE  TypeInv'
  <1> DEFINE next(e) == [req[n] EXCEPT !.k = "journal", !.err = e]
             done == [req[n] EXCEPT !.k = "primary"]
  <1>1. /\ pc[n] \in ChosenSteps /\ pc[n] \in MountSteps
        /\ "undoUmount" \in Steps /\ "undoDetach" \in Steps
    BY DEF UndoUmount, ChosenSteps, Steps, MountSteps
  <1>2. ~LastVolume(n) => \A e \in BOOLEAN : next(e) \in Requests /\ next(e).m = req[n].m
    BY RequestFacts DEF Requests, LastVolume, HasJournal
  <1>3. done \in Requests /\ done.m = req[n].m
    BY RequestFacts, KindsAssumption DEF Requests
  <1>4. PICK ok \in BOOLEAN :
          /\ UmountOne(n, ok)
          /\ LET err == req[n].err \/ ~ok IN
             \/ ~LastVolume(n) /\ Continue(n, "undoUmount", next(err)) /\ UNCHANGED cache
             \/ LastVolume(n) /\ ~err /\ Continue(n, "undoDetach", done) /\ UNCHANGED cache
             \/ LastVolume(n) /\ err /\ addMountedVolume(n, req[n].m) /\ MountSucceeds(n)
    BY DEF UndoUmount
  <1>5. (req[n].err \/ ~ok) \in BOOLEAN
    OBVIOUS
  <1>6. FlowInv'
    BY <1>1, <1>2, <1>3, <1>4, <1>5, RequestFacts, FlowContinue, FlowMountSucceeds DEF TypeInv
  <1>7. cache' \in [Nodes -> CacheEntries]
    BY <1>1, <1>4, RequestFacts, CacheType, CacheEntryTypes DEF TypeInv, DataInv, addMountedVolume
  <1>8. DataInv'
    BY <1>4, <1>7, UmountOneType
    DEF TypeInv, DataInv, UndoUmount, Ec2TypeOK, NetTypeOK, HostTypeOK, ec2Vars, netVars
  <1> QED BY <1>6, <1>8 DEF TypeInv

LEMMA UndoDetachType ==
  ASSUME TypeInv, NEW n \in Nodes, UndoDetach(n)
  PROVE  TypeInv'
  <1> DEFINE r == [req[n] EXCEPT !.k = "journal"]
  <1>1. pc[n] \in ChosenSteps /\ pc[n] \in MountSteps /\ "undoDetach" \in Steps
    BY DEF UndoDetach, ChosenSteps, Steps, MountSteps
  <1>2. ~LastVolume(n) => r \in Requests /\ r.m = req[n].m
    BY RequestFacts DEF Requests, HasJournal, LastVolume
  <1>3. FlowInv'
    BY <1>1, <1>2, RequestFacts, FlowContinue, FlowMountFails DEF TypeInv, UndoDetach
  <1>4. Ec2TypeOK' /\ faults' \in 0..MaxFaults
    BY <1>1, RequestFacts, TryDetachType DEF TypeInv, UndoDetach
  <1>5. localIP' \in [Nodes -> SUBSET Members]
    BY DeleteIPType DEF TypeInv, DataInv, UndoDetach, DeleteIPAgain
  <1>6. DataInv'
    BY <1>4, <1>5 DEF TypeInv, DataInv, UndoDetach, NetTypeOK, HostTypeOK, hostVars
  <1> QED BY <1>3, <1>6 DEF TypeInv

LEMMA MountStepType ==
  ASSUME TypeInv, NEW n \in Nodes, MountStep(n)
  PROVE  TypeInv'
  BY ListTasksType, ListLocalIPsType, SelectMemberType, CheckLastStateType,
     DetachLastOwnerType, WaitLastDetachedType, GetLocalTaskType, WriteOwnerType,
     UpdateDNSType, WaitDNSType, GetInterfaceType, DropDanglingIPType, UnassignOldIPType,
     AssignLocalIPType, WriteIPRecordType, AttachVolumesType, UndoAttachType,
     WaitAttachedType, AbortAttachType, FormatVolumesType, AddLocalIPType,
     MountVolumesType, CreateConfigType, UndoUmountType, UndoDetachType
  DEF MountStep

-----------------------------------------------------------------------------
(* One lemma per step of Unmount *)

LEMMA UnmountDeleteIPType ==
  ASSUME TypeInv, NEW n \in Nodes, UnmountDeleteIP(n)
  PROVE  TypeInv'
  <1>1. pc[n] \in UnmountSteps /\ "memberFile" \in Steps /\ "memberFile" \notin MountSteps
    BY DEF UnmountDeleteIP, Steps, UnmountSteps, MountSteps
  <1>2. FlowInv'
    BY <1>1, RequestFacts, FlowContinue, FlowUnmountDone DEF TypeInv, UnmountDeleteIP, ChosenSteps, MemberSteps
  <1>3. localIP' \in [Nodes -> SUBSET Members]
    BY DeleteIPType DEF TypeInv, DataInv, UnmountDeleteIP
  <1>4. DataInv'
    BY <1>3, FaultType
    DEF TypeInv, DataInv, UnmountDeleteIP, Ec2TypeOK, NetTypeOK, HostTypeOK, ec2Vars, hostVars
  <1> QED BY <1>2, <1>4 DEF TypeInv

LEMMA DeleteMemberFileType ==
  ASSUME TypeInv, NEW n \in Nodes, DeleteMemberFile(n)
  PROVE  TypeInv'
  <1>1. pc[n] \in UnmountSteps /\ "umount" \in Steps /\ "umount" \notin MountSteps
    BY DEF DeleteMemberFile, Steps, UnmountSteps, MountSteps
  <1>2. FlowInv'
    BY <1>1, RequestFacts, FlowContinue, FlowUnmountDone DEF TypeInv, DeleteMemberFile, ChosenSteps, MemberSteps
  <1>3. memFile' \in [Nodes -> Members \cup {None}]
    BY DEF TypeInv, DataInv, HostTypeOK, DeleteMemberFile
  <1>4. DataInv'
    BY <1>3, FaultType
    DEF TypeInv, DataInv, DeleteMemberFile, Ec2TypeOK, NetTypeOK, HostTypeOK, ec2Vars, netVars
  <1> QED BY <1>2, <1>4 DEF TypeInv

LEMMA UmountVolumesType ==
  ASSUME TypeInv, NEW n \in Nodes, UmountVolumes(n)
  PROVE  TypeInv'
  <1> DEFINE next(e) == [req[n] EXCEPT !.k = "journal", !.err = e]
             done == [req[n] EXCEPT !.k = "primary"]
  <1>1. /\ pc[n] \in UnmountSteps /\ "umount" \in Steps /\ "detach" \in Steps
        /\ "umount" \notin MountSteps /\ "detach" \notin MountSteps
    BY DEF UmountVolumes, Steps, UnmountSteps, MountSteps
  <1>2. ~LastVolume(n) => \A e \in BOOLEAN : next(e) \in Requests /\ next(e).m = req[n].m
    BY RequestFacts DEF Requests, LastVolume, HasJournal
  <1>3. done \in Requests /\ done.m = req[n].m
    BY RequestFacts, KindsAssumption DEF Requests
  <1>4. PICK ok \in BOOLEAN :
          /\ UmountOne(n, ok)
          /\ LET err == req[n].err \/ ~ok IN
             \/ ~LastVolume(n) /\ Continue(n, "umount", next(err)) /\ UNCHANGED cache
             \/ LastVolume(n) /\ ~err /\ deleteVolume(n) /\ Continue(n, "detach", done)
             \/ LastVolume(n) /\ err /\ UnmountDone(n) /\ UNCHANGED cache
    BY DEF UmountVolumes
  <1>5. (req[n].err \/ ~ok) \in BOOLEAN
    OBVIOUS
  <1>6. FlowInv'
    BY <1>1, <1>2, <1>3, <1>4, <1>5, RequestFacts, FlowContinue, FlowUnmountDone
    DEF TypeInv, ChosenSteps, MemberSteps
  <1>7. cache' \in [Nodes -> CacheEntries]
    BY <1>4, CacheType, CacheEntryTypes DEF TypeInv, DataInv, deleteVolume
  <1>8. DataInv'
    BY <1>4, <1>7, UmountOneType
    DEF TypeInv, DataInv, UmountVolumes, Ec2TypeOK, NetTypeOK, HostTypeOK, ec2Vars, netVars
  <1> QED BY <1>6, <1>8 DEF TypeInv
LEMMA DetachVolumesType ==
  ASSUME TypeInv, NEW n \in Nodes, DetachVolumes(n)
  PROVE  TypeInv'
  <1> DEFINE r == [req[n] EXCEPT !.k = "journal"]
  <1>1. pc[n] \in UnmountSteps /\ "detach" \in Steps /\ "detach" \notin MountSteps
    BY DEF DetachVolumes, Steps, UnmountSteps, MountSteps
  <1>2. ~LastVolume(n) => r \in Requests /\ r.m = req[n].m
    BY RequestFacts DEF Requests, HasJournal, LastVolume
  <1>3. FlowInv'
    BY <1>1, <1>2, RequestFacts, FlowContinue, FlowUnmountDone DEF TypeInv, DetachVolumes, ChosenSteps, MemberSteps
  <1>4. Ec2TypeOK' /\ faults' \in 0..MaxFaults
    BY <1>1, RequestFacts, TryDetachType DEF TypeInv, DetachVolumes
  <1>5. DataInv'
    BY <1>4 DEF TypeInv, DataInv, DetachVolumes, NetTypeOK, HostTypeOK, netVars, hostVars
  <1> QED BY <1>3, <1>5 DEF TypeInv

LEMMA UnmountStepType ==
  ASSUME TypeInv, NEW n \in Nodes, UnmountStep(n)
  PROVE  TypeInv'
  BY UnmountDeleteIPType, DeleteMemberFileType, UmountVolumesType, DetachVolumesType
  DEF UnmountStep

-----------------------------------------------------------------------------
(* One lemma per step of docker, the scheduler, EBS and a restart *)

(* The container changes while its driver runs no request: only its phase   *)
(* and its slot matter to the flow.                                         *)
LEMMA FlowIdle ==
  ASSUME FlowInv, NEW n \in Nodes, NEW c \in Containers, pc[n] \notin MountSteps,
         ctr' = [ctr EXCEPT ![n] = c], NamedMembers /\ c.phase # "none" => c.slot \in Members,
         UNCHANGED <<active, taskNode, pc, req>>
  PROVE  FlowInv'
  BY DEF FlowInv, CtrTypeOK, RequestTypeOK, RequestsWellFormed

LEMMA ContainerFacts ==
  ASSUME TypeInv, NEW n \in Nodes
  PROVE  /\ ctr \in [Nodes -> Containers] /\ ctr[n] \in Containers
         /\ NamedMembers /\ ctr[n].phase # "none" => ctr[n].slot \in Members
         /\ cache \in [Nodes -> CacheEntries] /\ cache[n] \in CacheEntries
  BY DEF TypeInv, FlowInv, DataInv, CtrTypeOK, HostTypeOK, RequestsWellFormed

LEMMA ConnectionsType ==
  ASSUME NEW e \in CacheEntries, e.conns > 0
  PROVE  /\ e.m \in Members
         /\ [e EXCEPT !.conns = e.conns + 1] \in CacheEntries
         /\ e.conns > 1 => [e EXCEPT !.conns = e.conns - 1] \in CacheEntries
  BY DEF CacheEntries, NotCached

LEMMA MountRequestType ==
  ASSUME TypeInv, NEW n \in Nodes, NEW k \in Kinds, MountRequest(n, k)
  PROVE  TypeInv'
  <1> DEFINE r == [NoRequest EXCEPT !.name = k]
             step == IF NamedMembers THEN "select" ELSE "list"
             c == [ctr[n] EXCEPT !.refs = ctr[n].refs \cup {k}]
             e == [cache[n] EXCEPT !.conns = cache[n].conns + 1]
  <1>1. /\ pc[n] \notin MountSteps /\ ctr[n].phase = "starting"
        /\ step \in Steps /\ step \notin MemberSteps
    BY DEF MountRequest, MountSteps, MemberSteps, ChosenSteps, UnmountSteps, Steps
  <1>2. r \in Requests
    BY NoRequestType DEF Requests
  <1>3. c \in Containers /\ c.phase = ctr[n].phase /\ c.slot = ctr[n].slot
    BY ContainerFacts DEF Containers
  <1>4. CASE Cached(n)
    <2>1. ctr' = [ctr EXCEPT ![n] = c] /\ cache' = [cache EXCEPT ![n] = e]
          /\ UNCHANGED <<active, taskNode, pc, req>>
      BY <1>4, ContainerFacts DEF MountRequest, MountReturns, getMountedVolumeAndIncRef
    <2>2. FlowInv'
      BY <1>1, <1>3, <2>1, FlowIdle, ContainerFacts DEF TypeInv
    <2>3. cache' \in [Nodes -> CacheEntries]
      BY <1>4, <2>1, CacheType, ContainerFacts, ConnectionsType DEF TypeInv, DataInv, Cached
    <2>4. DataInv'
      BY <2>3 DEF TypeInv, DataInv, MountRequest, Ec2TypeOK, NetTypeOK, HostTypeOK, ec2Vars, netVars
    <2> QED BY <2>2, <2>4 DEF TypeInv
  <1>5. CASE ~Cached(n)
    <2>1. Continue(n, step, r) /\ UNCHANGED cache
      BY <1>5 DEF MountRequest
    <2>2. FlowInv'
      BY <1>1, <1>2, <2>1, FlowContinue DEF TypeInv
    <2>3. DataInv'
      BY <2>1 DEF TypeInv, DataInv, MountRequest, Ec2TypeOK, NetTypeOK, HostTypeOK, ec2Vars, netVars
    <2> QED BY <2>2, <2>3 DEF TypeInv
  <1> QED BY <1>4, <1>5

LEMMA UnmountRequestType ==
  ASSUME TypeInv, NEW n \in Nodes, NEW k \in Kinds, UnmountRequest(n, k)
  PROVE  TypeInv'
  <1> DEFINE r == [NoRequest EXCEPT !.name = k, !.m = cache[n].m]
             step == IF RequireStaticIP THEN "delIP" ELSE "memberFile"
             c == [ctr[n] EXCEPT !.refs = ctr[n].refs \ {k}]
             e == [cache[n] EXCEPT !.conns = cache[n].conns - 1]
  <1>1. pc[n] \notin MountSteps /\ step \in Steps /\ step \notin MountSteps
    BY DEF UnmountRequest, MountSteps, UnmountSteps, Steps
  <1>2. c \in Containers /\ c.phase = ctr[n].phase /\ c.slot = ctr[n].slot
    BY ContainerFacts DEF Containers
  <1>3. cache[n].conns = 1 => r \in Requests /\ r.m \in Members
    <2>1. cache[n].conns = 1 => cache[n].m \in Members
      BY ContainerFacts DEF CacheEntries, NotCached
    <2> QED BY <2>1, NoRequestType DEF Requests
  <1>4. \/ /\ UnmountReturns(n, k) /\ UNCHANGED <<pc, req>>
           /\ UNCHANGED cache \/ (cache[n].conns > 1 /\ cache' = [cache EXCEPT ![n] = e])
        \/ cache[n].conns = 1 /\ Continue(n, step, r) /\ UNCHANGED cache
    BY ContainerFacts DEF UnmountRequest
  <1>5. UnmountReturns(n, k) => ctr' = [ctr EXCEPT ![n] = c] /\ UNCHANGED <<active, taskNode>>
    BY ContainerFacts DEF UnmountReturns
  <1>6. FlowInv'
    BY <1>1, <1>2, <1>3, <1>4, <1>5, FlowIdle, FlowContinue, ContainerFacts DEF TypeInv
  <1>7. cache' \in [Nodes -> CacheEntries]
    <2>1. cache[n].conns > 1 => e \in CacheEntries
      BY ContainerFacts DEF CacheEntries, NotCached
    <2> QED BY <1>4, <2>1, CacheType, ContainerFacts DEF TypeInv, DataInv
  <1>8. mnt' \in [Nodes -> [Kinds -> Members \cup {None}]] /\ faults' \in 0..MaxFaults
    BY PathType, FaultType DEF TypeInv, DataInv, UnmountRequest
  <1>9. DataInv'
    BY <1>7, <1>8 DEF TypeInv, DataInv, UnmountRequest, Ec2TypeOK, NetTypeOK, HostTypeOK, ec2Vars, netVars
  <1> QED BY <1>6, <1>9 DEF TypeInv

LEMMA RemoveType ==
  ASSUME TypeInv, NEW n \in Nodes, Remove(n)
  PROVE  TypeInv'
  <1>1. \E e \in CacheEntries : cache' = [cache EXCEPT ![n] = e]
    BY ContainerFacts, CacheEntryTypes DEF Remove
  <1>2. cache' \in [Nodes -> CacheEntries]
    BY <1>1, CacheType DEF TypeInv, DataInv
  <1> QED BY <1>2
    DEF TypeInv, FlowInv, DataInv, Remove, CtrTypeOK, RequestTypeOK, RequestsWellFormed,
        Ec2TypeOK, NetTypeOK, HostTypeOK, ec2Vars, netVars, ctrVars

(* Nothing but the container, and what it has mounted, changes. *)
LEMMA ContainerOnlyType ==
  ASSUME TypeInv, FlowInv', held' \in [Nodes -> [Kinds -> Members \cup {None}]],
         UNCHANGED <<ec2Vars, netVars, mem, cache, mnt, memFile, formats, faults, crashes>>
  PROVE  TypeInv'
  BY DEF TypeInv, DataInv, Ec2TypeOK, NetTypeOK, HostTypeOK, ec2Vars, netVars

LEMMA ContainerStartsType ==
  ASSUME TypeInv, NEW n \in Nodes, ContainerStarts(n)
  PROVE  TypeInv'
  <1> DEFINE c == [ctr[n] EXCEPT !.phase = "running"]
  <1>1. pc[n] \notin MountSteps /\ ctr[n].phase = "starting"
    BY DEF ContainerStarts, SetPhase, MountSteps
  <1>2. c \in Containers /\ c.slot = ctr[n].slot
    BY ContainerFacts DEF Containers
  <1>3. FlowInv'
    BY <1>1, <1>2, FlowIdle, ContainerFacts DEF TypeInv, ContainerStarts, SetPhase
  <1>4. held' \in [Nodes -> [Kinds -> Members \cup {None}]]
    BY DEF TypeInv, DataInv, HostTypeOK, ContainerStarts
  <1> QED BY <1>3, <1>4, ContainerOnlyType DEF ContainerStarts

LEMMA ContainerExitsType ==
  ASSUME TypeInv, NEW n \in Nodes, ContainerExits(n)
  PROVE  TypeInv'
  <1> DEFINE c == [ctr[n] EXCEPT !.phase = "stopping"]
  <1>1. pc[n] \notin MountSteps /\ ctr[n].phase = "running"
    BY RequestFacts DEF ContainerExits, SetPhase
  <1>2. c \in Containers /\ c.slot = ctr[n].slot
    BY ContainerFacts DEF Containers
  <1>3. FlowInv'
    BY <1>1, <1>2, FlowIdle, ContainerFacts DEF TypeInv, ContainerExits, SetPhase
  <1>4. held' \in [Nodes -> [Kinds -> Members \cup {None}]]
    BY DEF TypeInv, DataInv, HostTypeOK, ContainerExits, NothingMounted
  <1> QED BY <1>3, <1>4, ContainerOnlyType DEF ContainerExits

LEMMA NoContainerType == NoContainer \in Containers /\ NoContainer.phase = "none"
  BY DEF NoContainer, Containers

LEMMA ContainerRemovedType ==
  ASSUME TypeInv, NEW n \in Nodes, ContainerRemoved(n)
  PROVE  TypeInv'
  <1>1. pc[n] \notin MountSteps /\ UNCHANGED <<pc, req>>
    BY DEF ContainerRemoved, MountSteps, driverVars
  <1>2. FlowInv'
    BY <1>1, NoContainerType, FlowIdle DEF TypeInv, ContainerRemoved, RemoveContainer
  <1>3. held' \in [Nodes -> [Kinds -> Members \cup {None}]]
    BY DEF TypeInv, DataInv, HostTypeOK, ContainerRemoved, driverVars
  <1> QED BY <1>2, <1>3, ContainerOnlyType DEF ContainerRemoved, driverVars

LEMMA DockerStepType ==
  ASSUME TypeInv, NEW n \in Nodes, DockerStep(n)
  PROVE  TypeInv'
  BY MountRequestType, UnmountRequestType, RemoveType, ContainerStartsType,
     ContainerExitsType, ContainerRemovedType
  DEF DockerStep

LEMMA SchedulerStepType ==
  ASSUME TypeInv, SchedulerStep
  PROVE  TypeInv'
  <1>1. DataInv'
    BY DEF TypeInv, DataInv, SchedulerStep, SchedulerStarts, SchedulerStops, driverVars,
           Ec2TypeOK, NetTypeOK, HostTypeOK, ec2Vars, netVars
  <1>2. UNCHANGED <<pc, req>>
    BY DEF SchedulerStep, SchedulerStarts, SchedulerStops, driverVars
  <1>3. ASSUME NEW t \in Tasks, NEW n \in Nodes, NEW slot \in Members \cup {None},
               StartTask(t, n, slot)
        PROVE  FlowInv'
    <2> DEFINE c == [NoContainer EXCEPT !.phase = "starting", !.slot = slot]
    <2>1. c \in Containers /\ c.slot = slot
      BY DEF Containers, NoContainer
    <2>2. pc[n] \notin MountSteps
      BY <1>3, RequestFacts DEF StartTask
    <2>3. NamedMembers => slot \in Members
      BY <1>3 DEF StartTask
    <2>4. active' \in SUBSET Tasks /\ taskNode' \in [Tasks -> Nodes \cup {None}]
      BY <1>3 DEF StartTask, TypeInv, FlowInv, CtrTypeOK
    <2>5. ctr' = [ctr EXCEPT ![n] = c]
      BY <1>3 DEF StartTask
    <2> QED BY <1>2, <2>1, <2>2, <2>3, <2>4, <2>5
      DEF TypeInv, FlowInv, CtrTypeOK, RequestTypeOK, RequestsWellFormed
  <1>4. ASSUME NEW t \in Tasks, StopTask(t)
        PROVE  FlowInv'
    BY <1>2, <1>4 DEF StopTask, TypeInv, FlowInv, CtrTypeOK, RequestTypeOK, RequestsWellFormed
  <1> QED BY <1>1, <1>3, <1>4 DEF TypeInv, SchedulerStep, SchedulerStarts, SchedulerStops

LEMMA EbsStepType ==
  ASSUME TypeInv, EbsStep
  PROVE  TypeInv'
  <1>1. PICK m \in Members, k \in Kinds : EbsAttaches(m, k) \/ EbsDetaches(m, k)
    BY DEF EbsStep
  <1>2. UNCHANGED <<ipAt, netVars, ctrVars, driverVars>>
    BY <1>1 DEF EbsAttaches, EbsDetaches, AttachCompletes, DetachCompletes
  <1>3. \/ vol' = [vol EXCEPT ![<<m, k>>].state = "in-use"]
        \/ vol' = [vol EXCEPT ![<<m, k>>] = [state |-> "available", at |-> None]]
    BY <1>1 DEF EbsAttaches, EbsDetaches, AttachCompletes, DetachCompletes
  <1>4. vol' \in [Volumes -> [state : VolumeStates, at : Nodes \cup {None}]]
    BY <1>3 DEF TypeInv, DataInv, Ec2TypeOK, VolumeStates
  <1> QED BY <1>2, <1>4
    DEF TypeInv, FlowInv, DataInv, Ec2TypeOK, NetTypeOK, HostTypeOK, CtrTypeOK,
        RequestTypeOK, RequestsWellFormed, netVars, ctrVars, driverVars

LEMMA DriverRestartsType ==
  ASSUME TypeInv, NEW n \in Nodes, DriverRestarts(n)
  PROVE  TypeInv'
  <1>1. pc[n] \in Steps
    BY DEF TypeInv, FlowInv, RequestTypeOK
  <1>2. FlowInv'
    <2>1. CASE pc[n] \in MountSteps /\ MountReturns(n, req[n].name, FALSE)
      BY <2>1, FlowMountFails DEF TypeInv, DriverRestarts, MountFails
    <2>2. CASE pc[n] \in UnmountSteps /\ UnmountReturns(n, req[n].name)
      BY <2>2, FlowUnmountDone DEF TypeInv, DriverRestarts, UnmountDone
    <2>3. CASE pc[n] = "idle" /\ UNCHANGED ctrVars
      BY <2>3, NoRequestType
      DEF TypeInv, FlowInv, DriverRestarts, Release, Goto, CtrTypeOK, RequestTypeOK, ctrVars,
          RequestsWellFormed, Steps, MountSteps, UnmountSteps, ChosenSteps, MemberSteps
    <2> QED BY <2>1, <2>2, <2>3 DEF DriverRestarts, CallAborted
  <1>3. cache' \in [Nodes -> CacheEntries]
    BY CacheType, CacheEntryTypes DEF TypeInv, DataInv, DriverRestarts
  <1>4. crashes' \in 0..MaxCrashes
    BY BoundsAssumption DEF TypeInv, DataInv, DriverRestarts, Crash
  <1>5. DataInv'
    BY <1>3, <1>4
    DEF TypeInv, DataInv, DriverRestarts, Ec2TypeOK, NetTypeOK, HostTypeOK, ec2Vars, netVars
  <1> QED BY <1>2, <1>5 DEF TypeInv

LEMMA NodeRebootsType ==
  ASSUME TypeInv, NEW n \in Nodes, NodeReboots(n)
  PROVE  TypeInv'
  <1>1. FlowInv'
    BY NoRequestType, NoContainerType
    DEF TypeInv, FlowInv, NodeReboots, Release, Goto, CtrTypeOK, RequestTypeOK,
        RequestsWellFormed, Steps, MountSteps, UnmountSteps, ChosenSteps, MemberSteps
  <1>2. cache' \in [Nodes -> CacheEntries]
    BY CacheType, CacheEntryTypes DEF TypeInv, DataInv, NodeReboots
  <1>3. crashes' \in 0..MaxCrashes
    BY BoundsAssumption DEF TypeInv, DataInv, NodeReboots, Crash
  <1>4. /\ mnt' \in [Nodes -> [Kinds -> Members \cup {None}]]
        /\ held' \in [Nodes -> [Kinds -> Members \cup {None}]]
    BY DEF TypeInv, DataInv, HostTypeOK, NodeReboots, NothingMounted
  <1>5. localIP' \in [Nodes -> SUBSET Members]
    BY DEF TypeInv, DataInv, NetTypeOK, NodeReboots
  <1>6. DataInv'
    BY <1>2, <1>3, <1>4, <1>5
    DEF TypeInv, DataInv, NodeReboots, Ec2TypeOK, NetTypeOK, HostTypeOK, ec2Vars
  <1> QED BY <1>1, <1>6 DEF TypeInv

-----------------------------------------------------------------------------
LEMMA InitType == Init => TypeInv
  <1> SUFFICES ASSUME Init PROVE TypeInv
    OBVIOUS
  <1>1. Ec2TypeOK
    BY DEF Init, Ec2Init, NetInit, Ec2TypeOK, VolumeStates
  <1>2. NetTypeOK
    BY <1>1 DEF Init, NetInit, NetTypeOK, IPRecords, Ec2TypeOK
  <1>3. CtrTypeOK
    BY NoContainerType DEF Init, CtrInit, CtrTypeOK
  <1>4. RequestTypeOK
    BY NoRequestType DEF Init, RequestTypeOK, Steps
  <1>5. HostTypeOK
    BY CacheEntryTypes DEF Init, HostTypeOK, NothingMounted
  <1>6. mem \in [Members -> MemberRecords] /\ faults \in 0..MaxFaults /\ crashes \in 0..MaxCrashes
    BY NoRequestType, BoundsAssumption DEF Init
  <1>7. RequestsWellFormed
    BY NoContainerType
    DEF Init, CtrInit, RequestsWellFormed, MountSteps, UnmountSteps, ChosenSteps, MemberSteps
  <1> QED BY <1>1, <1>2, <1>3, <1>4, <1>5, <1>6, <1>7 DEF TypeInv, FlowInv, DataInv

LEMMA StutterType ==
  ASSUME TypeInv, UNCHANGED vars
  PROVE  TypeInv'
  BY DEF TypeInv, FlowInv, DataInv, Ec2TypeOK, NetTypeOK, HostTypeOK, CtrTypeOK,
         RequestTypeOK, RequestsWellFormed, vars, ec2Vars, netVars, ctrVars, driverVars

LEMMA NextType ==
  ASSUME TypeInv, [Next]_vars
  PROVE  TypeInv'
  BY MountStepType, UnmountStepType, DockerStepType, DriverRestartsType, NodeRebootsType,
     SchedulerStepType, EbsStepType, StutterType
  DEF Next, DriverStep, CrashStep

LEMMA TypeInvariant == Spec => []TypeInv
  BY InitType, NextType, PTL DEF Spec

(* Every variable keeps its type through all the requests, faults and       *)
(* restarts, on any cluster: a request past getMemberForTask always has a   *)
(* member, and a cached volume always has one and a positive count.         *)
THEOREM TypeCorrect == Spec => []TypeOK
  <1>1. TypeInv => TypeOK
    BY DEF TypeInv, FlowInv, DataInv, TypeOK
  <1> QED BY <1>1, TypeInvariant, PTL

-----------------------------------------------------------------------------
(* The safety of a member *)

MountTable == [Nodes -> [Kinds -> Members \cup {None}]]

(* The three things a step may do.  It only takes mounts away, on node n    *)
(* (a container starts on what the host has mounted already) ...            *)
OnlyReleases(n) ==
  /\ UNCHANGED vol
  /\ \A x \in Nodes, k \in Kinds :
       /\ mnt'[x][k] \in {mnt[x][k], None}
       /\ held'[x][k] \in {held[x][k], mnt[x][k], None}
       /\ x # n => mnt'[x][k] = mnt[x][k] /\ held'[x][k] = held[x][k]

(* ... or mounts the volume of a present device, ...                        *)
MountsDevice(n, m, k) ==
  /\ m \in DeviceOf(n, k)
  /\ mnt[n][k] = None
  /\ mnt' = [mnt EXCEPT ![n][k] = m]
  /\ UNCHANGED <<held, vol>>

(* ... or leaves the mounts alone and changes volumes, each in a way that   *)
(* does not take it from a node that uses it.                               *)
GentlyMoved(m, k) ==
  \/ vol'[<<m, k>>] = vol[<<m, k>>]
  \/ vol'[<<m, k>>].at = vol[<<m, k>>].at /\ vol'[<<m, k>>].state = "detaching"
  \/ vol[<<m, k>>].state \in {"available", "attaching"}
  \/ vol[<<m, k>>].at \notin Using(m, k)
OnlyMovesVolumes ==
  /\ UNCHANGED <<mnt, held>>
  /\ \A m \in Members, k \in Kinds : GentlyMoved(m, k)

Classified ==
  \/ OnlyMovesVolumes
  \/ \E n \in Nodes : OnlyReleases(n)
  \/ \E n \in Nodes, m \in Members, k \in Kinds : MountsDevice(n, m, k)

LEMMA TypeFacts ==
  ASSUME TypeInv
  PROVE  /\ mnt \in MountTable /\ held \in MountTable
         /\ vol \in [Volumes -> [state : VolumeStates, at : Nodes \cup {None}]]
  BY DEF TypeInv, DataInv, HostTypeOK, Ec2TypeOK, MountTable

LEMMA NothingMoves ==
  ASSUME UNCHANGED <<mnt, held, vol>>
  PROVE  Classified
  BY DEF Classified, OnlyMovesVolumes, GentlyMoved

LEMMA DetachIsGentle ==
  ASSUME TypeInv, NEW m \in Members, NEW k \in Kinds, NEW n, NEW ok,
         DetachVolume(m, k, n, ok) \/ UNCHANGED vol,
         UNCHANGED <<mnt, held>>
  PROVE  Classified
  <1>1. \/ vol' = [vol EXCEPT ![<<m, k>>].state = "detaching"]
        \/ UNCHANGED vol
    BY Zenon DEF DetachVolume
  <1> QED BY <1>1, TypeFacts DEF Classified, OnlyMovesVolumes, GentlyMoved, Volumes

LEMMA TryDetachIsGentle ==
  ASSUME TypeInv, NEW m \in Members, NEW k \in Kinds, NEW n,
         TryDetach(m, k, n), UNCHANGED <<mnt, held>>
  PROVE  Classified
  BY DetachIsGentle DEF TryDetach

LEMMA AttachIsGentle ==
  ASSUME TypeInv, NEW m \in Members, NEW k \in Kinds, NEW n, NEW ok,
         AttachVolume(m, k, n, ok) \/ UNCHANGED vol,
         UNCHANGED <<mnt, held>>
  PROVE  Classified
  <1>1. \/ /\ vol' = [vol EXCEPT ![<<m, k>>] = [state |-> "attaching", at |-> n]]
           /\ vol[<<m, k>>].state = "available"
        \/ UNCHANGED vol
    BY Zenon DEF AttachVolume, CanAttach
  <1> QED BY <1>1, TypeFacts DEF Classified, OnlyMovesVolumes, GentlyMoved, Volumes

(* An umount, or the loss of all the mounts of a node. *)
LEMMA UmountReleases ==
  ASSUME TypeInv, NEW n \in Nodes, NEW k \in Kinds,
         UnmountPath(n, k) \/ UNCHANGED mnt, UNCHANGED <<held, vol>>
  PROVE  Classified
  <1>1. OnlyReleases(n)
    BY TypeFacts DEF OnlyReleases, UnmountPath, MountTable
  <1> QED BY <1>1 DEF Classified

-----------------------------------------------------------------------------
(* Every step is one of the three *)

LEMMA MountVolumesClassified ==
  ASSUME TypeInv, NEW n \in Nodes, MountVolumes(n)
  PROVE  Classified
  <1> DEFINE k == req[n].k
  <1>1. k \in Kinds /\ "primary" \in Kinds
    BY RequestFacts, KindsAssumption
  <1>2. UNCHANGED <<held, vol>>
    BY DEF MountVolumes, ec2Vars
  <1>3. \/ \E m \in DeviceOf(n, k) : mnt[n][k] = None /\ MountPath(n, k, m)
        \/ UnmountPath(n, "primary")
        \/ UNCHANGED mnt
    BY Zenon DEF MountVolumes
  <1>4. ASSUME NEW m \in DeviceOf(n, k), mnt[n][k] = None, MountPath(n, k, m)
        PROVE  Classified
    <2>1. m \in Members
      BY Zenon DEF DeviceOf
    <2>2. MountsDevice(n, m, k)
      BY <1>2, <1>4, Zenon DEF MountsDevice, MountPath
    <2> QED BY <1>1, <2>1, <2>2, Zenon DEF Classified
  <1> QED BY <1>1, <1>2, <1>3, <1>4, UmountReleases

LEMMA MountStepClassified ==
  ASSUME TypeInv, NEW n \in Nodes, MountStep(n)
  PROVE  Classified
  <1>1. req[n].k \in Kinds /\ "primary" \in Kinds
    BY RequestFacts, KindsAssumption
  <1>2. ASSUME pc[n] \in ChosenSteps
        PROVE  req[n].m \in Members
    BY <1>2, RequestFacts
  <1>3. CASE \/ ListTasks(n) \/ ListLocalIPs(n) \/ SelectMember(n) \/ CheckLastState(n)
             \/ WaitLastDetached(n) \/ GetLocalTask(n) \/ WriteOwner(n) \/ UpdateDNS(n)
             \/ WaitDNS(n) \/ GetInterface(n) \/ DropDanglingIP(n) \/ UnassignOldIP(n)
             \/ AssignLocalIP(n) \/ WriteIPRecord(n) \/ WaitAttached(n)
             \/ FormatVolumes(n) \/ AddLocalIP(n) \/ CreateConfig(n)
    <2>1. UNCHANGED <<mnt, held, vol>>
      BY <1>3, Zenon
      DEF ListTasks, ListLocalIPs, SelectMember, CheckLastState, WaitLastDetached,
          GetLocalTask, WriteOwner, UpdateDNS, WaitDNS, GetInterface, DropDanglingIP,
          UnassignOldIP, AssignLocalIP, WriteIPRecord, WaitAttached, FormatVolumes,
          AddLocalIP, CreateConfig, ec2Vars, hostVars
    <2> QED BY <2>1, NothingMoves
  <1>4. CASE DetachLastOwner(n)
    <2>1. req[n].m \in Members /\ UNCHANGED <<mnt, held>>
      BY <1>2, <1>4 DEF DetachLastOwner, hostVars, ChosenSteps, MountSteps
    <2> QED BY <1>1, <1>4, <2>1, DetachIsGentle DEF DetachLastOwner
  <1>5. CASE AttachVolumes(n)
    <2>1. req[n].m \in Members /\ UNCHANGED <<mnt, held>>
      BY <1>2, <1>5 DEF AttachVolumes, hostVars, ChosenSteps, MountSteps
    <2> QED BY <1>1, <1>5, <2>1, AttachIsGentle DEF AttachVolumes
  <1>6. CASE UndoAttach(n) \/ AbortAttach(n) \/ UndoDetach(n)
    <2>1. req[n].m \in Members /\ UNCHANGED <<mnt, held>>
      BY <1>2, <1>6 DEF UndoAttach, AbortAttach, UndoDetach, hostVars, ChosenSteps, MountSteps
    <2> QED BY <1>1, <1>6, <2>1, TryDetachIsGentle DEF UndoAttach, AbortAttach, UndoDetach
  <1>7. CASE UndoUmount(n)
    BY <1>1, <1>7, UmountReleases DEF UndoUmount, UmountOne, ec2Vars
  <1>8. CASE MountVolumes(n)
    BY <1>8, MountVolumesClassified
  <1> QED BY <1>3, <1>4, <1>5, <1>6, <1>7, <1>8 DEF MountStep

LEMMA UnmountStepClassified ==
  ASSUME TypeInv, NEW n \in Nodes, UnmountStep(n)
  PROVE  Classified
  <1>1. req[n].k \in Kinds
    BY RequestFacts
  <1>2. CASE UnmountDeleteIP(n) \/ DeleteMemberFile(n)
    <2>1. UNCHANGED <<mnt, held, vol>>
      BY <1>2 DEF UnmountDeleteIP, DeleteMemberFile, ec2Vars, hostVars
    <2> QED BY <2>1, NothingMoves
  <1>3. CASE UmountVolumes(n)
    BY <1>1, <1>3, UmountReleases DEF UmountVolumes, UmountOne, ec2Vars
  <1>4. CASE DetachVolumes(n)
    <2>1. req[n].m \in Members /\ UNCHANGED <<mnt, held>>
      BY <1>4, RequestFacts DEF DetachVolumes, hostVars, UnmountSteps
    <2> QED BY <1>1, <1>4, <2>1, TryDetachIsGentle DEF DetachVolumes
  <1> QED BY <1>2, <1>3, <1>4 DEF UnmountStep

LEMMA DockerStepClassified ==
  ASSUME TypeInv, NEW n \in Nodes, DockerStep(n)
  PROVE  Classified
  <1>1. CASE \/ \E k \in Kinds : MountRequest(n, k)
             \/ Remove(n) \/ ContainerRemoved(n)
    BY <1>1, NothingMoves DEF MountRequest, Remove, ContainerRemoved, ec2Vars, driverVars
  <1>2. ASSUME NEW k \in Kinds, UnmountRequest(n, k)
        PROVE  Classified
    BY <1>2, UmountReleases DEF UnmountRequest, ec2Vars
  <1>3. CASE ContainerStarts(n) \/ ContainerExits(n)
    <2>1. OnlyReleases(n)
      BY <1>3, TypeFacts
      DEF OnlyReleases, ContainerStarts, ContainerExits, ec2Vars, MountTable, NothingMounted
    <2> QED BY <2>1 DEF Classified
  <1> QED BY <1>1, <1>2, <1>3 DEF DockerStep

LEMMA EbsStepClassified ==
  ASSUME TypeInv, EbsStep
  PROVE  Classified
  <1>1. PICK m \in Members, k \in Kinds : EbsAttaches(m, k) \/ EbsDetaches(m, k)
    BY DEF EbsStep
  <1>2. UNCHANGED <<mnt, held>>
    BY <1>1 DEF EbsAttaches, EbsDetaches, driverVars
  <1>3. \/ /\ vol' = [vol EXCEPT ![<<m, k>>].state = "in-use"]
           /\ vol[<<m, k>>].state = "attaching"
        \/ /\ vol' = [vol EXCEPT ![<<m, k>>] = [state |-> "available", at |-> None]]
           /\ vol[<<m, k>>].at \notin Using(m, k)
    BY <1>1, Zenon DEF EbsAttaches, EbsDetaches, AttachCompletes, DetachCompletes
  <1>4. \A x \in Members, y \in Kinds : GentlyMoved(x, y)
    BY <1>3, TypeFacts DEF GentlyMoved, Volumes
  <1> QED BY <1>2, <1>4 DEF Classified, OnlyMovesVolumes

LEMMA CrashStepClassified ==
  ASSUME TypeInv, NEW n \in Nodes, CrashStep(n)
  PROVE  Classified
  <1>1. CASE DriverRestarts(n)
    BY <1>1, NothingMoves DEF DriverRestarts, ec2Vars
  <1>2. CASE NodeReboots(n)
    <2>1. OnlyReleases(n)
      BY <1>2, TypeFacts DEF OnlyReleases, NodeReboots, ec2Vars, MountTable, NothingMounted
    <2> QED BY <2>1 DEF Classified
  <1> QED BY <1>1, <1>2 DEF CrashStep

LEMMA NextClassified ==
  ASSUME TypeInv, [Next]_vars
  PROVE  Classified
  <1>1. CASE SchedulerStep
    BY <1>1, NothingMoves
    DEF SchedulerStep, SchedulerStarts, SchedulerStops, ec2Vars, driverVars
  <1>2. CASE UNCHANGED vars
    BY <1>2, NothingMoves DEF vars, ec2Vars, driverVars
  <1> QED BY <1>1, <1>2, MountStepClassified, UnmountStepClassified, DockerStepClassified,
             EbsStepClassified, CrashStepClassified
          DEF Next, DriverStep

-----------------------------------------------------------------------------
(* MountedWhereAttached is inductive, given the types *)

LEMMA MountedInit == Init => MountedWhereAttached
  <1> SUFFICES ASSUME Init, NEW m \in Members, NEW k \in Kinds PROVE Using(m, k) = {}
    BY Zenon DEF MountedWhereAttached
  <1> QED BY NoneAssumption DEF Init, Using, NothingMounted

LEMMA MountedStep ==
  ASSUME TypeInv, MountedWhereAttached, [Next]_vars
  PROVE  MountedWhereAttached'
  <1> SUFFICES ASSUME NEW m \in Members, NEW k \in Kinds, NEW n \in Nodes,
                      mnt'[n][k] = m \/ held'[n][k] = m
               PROVE  vol'[<<m, k>>].at = n /\ vol'[<<m, k>>].state \in {"in-use", "detaching"}
    BY DEF MountedWhereAttached, Using
  <1>1. ASSUME mnt[n][k] = m \/ held[n][k] = m
        PROVE  /\ vol[<<m, k>>].at = n /\ vol[<<m, k>>].state \in {"in-use", "detaching"}
               /\ n \in Using(m, k)
    BY <1>1 DEF MountedWhereAttached, Using
  <1>2. Classified
    BY NextClassified
  <1>3. CASE OnlyMovesVolumes
    BY <1>1, <1>3 DEF OnlyMovesVolumes, GentlyMoved
  <1>4. ASSUME NEW x \in Nodes, OnlyReleases(x)
        PROVE  vol'[<<m, k>>].at = n /\ vol'[<<m, k>>].state \in {"in-use", "detaching"}
    BY <1>1, <1>4, NoneAssumption DEF OnlyReleases
  <1>5. ASSUME NEW x \in Nodes, NEW y \in Members, NEW z \in Kinds, MountsDevice(x, y, z)
        PROVE  vol'[<<m, k>>].at = n /\ vol'[<<m, k>>].state \in {"in-use", "detaching"}
    <2>1. vol[<<y, z>>].at = x /\ vol[<<y, z>>].state \in {"in-use", "detaching"}
      BY <1>5, Zenon DEF MountsDevice, DeviceOf
    <2>2. mnt' = [mnt EXCEPT ![x][z] = y] /\ UNCHANGED <<held, vol>>
      BY <1>5 DEF MountsDevice
    <2>3. \/ mnt[n][k] = m \/ held[n][k] = m
          \/ n = x /\ k = z /\ m = y
      BY <2>2, TypeFacts DEF MountTable
    <2> QED BY <1>1, <2>1, <2>2, <2>3
  <1> QED BY <1>2, <1>3, <1>4, <1>5 DEF Classified

(* Neither a takeover by another node nor a crash ever pulls the device     *)
(* from under a mounted file system, on any cluster: DetachVolume without   *)
(* Force, and a host that keeps a busy device, are all it takes.            *)
THEOREM MountedSafely == Spec => []MountedWhereAttached
  <1>1. Init /\ [][Next]_vars /\ []TypeInv => []MountedWhereAttached
    BY MountedInit, MountedStep, PTL
  <1> QED BY <1>1, TypeInvariant, PTL DEF Spec

-----------------------------------------------------------------------------
(* The refinement of MemberVolumes: a step that only releases is a Release, *)
(* a mount is an Acquire, everything else is a stutter.                     *)

LEMMA UsersFacts ==
  ASSUME NEW v \in Volumes
  PROVE  /\ v[1] \in Members /\ v[2] \in Kinds /\ v = <<v[1], v[2]>>
         /\ Users[v] = {n \in Nodes : mnt[n][v[2]] = v[1] \/ held[n][v[2]] = v[1]}
         /\ Users'[v] = {n \in Nodes : mnt'[n][v[2]] = v[1] \/ held'[n][v[2]] = v[1]}
  BY DEF Users, Using, Volumes

(* No two nodes use a volume. *)
LEMMA OneUser ==
  ASSUME MountedWhereAttached, NEW v \in Volumes, NEW n \in Users[v]
  PROVE  n \in Nodes /\ vol[v].at = n /\ Users[v] = {n}
  <1>1. \A x \in Users[v] : x \in Nodes /\ x \in Using(v[1], v[2])
    BY UsersFacts DEF Using
  <1>2. \A x \in Using(v[1], v[2]) : vol[<<v[1], v[2]>>].at = x
    <2>1. ASSUME NEW m \in Members, NEW k \in Kinds, NEW x \in Using(m, k)
          PROVE  vol[<<m, k>>].at = x
      BY <2>1, Zenon DEF MountedWhereAttached
    <2> QED BY <2>1, UsersFacts
  <1>3. \A x \in Users[v] : vol[v].at = x
    BY <1>1, <1>2, UsersFacts
  <1> QED BY <1>1, <1>3

LEMMA ReleaseStep ==
  ASSUME TypeInv, MountedWhereAttached, NEW n \in Nodes, OnlyReleases(n)
  PROVE  Promise!Next
  <1> DEFINE S == {v \in Volumes : n \in Users[v] /\ n \notin Users'[v]}
  <1>1. ASSUME NEW v \in Volumes
        PROVE  /\ Users'[v] \subseteq Users[v]
               /\ \A x \in Nodes \ {n} : x \in Users[v] <=> x \in Users'[v]
    BY UsersFacts, NoneAssumption DEF OnlyReleases
  <1>2. \A v \in S : Users[v] = {n}
    BY OneUser
  <1>3. ASSUME NEW v \in Volumes
        PROVE  Users'[v] = IF v \in S THEN {} ELSE Users[v]
    <2>1. Users[v] \subseteq Nodes
      BY UsersFacts
    <2> QED BY <1>1, <1>2, <2>1
  <1>4. Users' = [v \in Volumes |-> IF v \in S THEN {} ELSE Users[v]]
    <2>1. Users' = [v \in Volumes |-> Users'[v]]
      BY DEF Users
    <2> QED BY <1>3, <2>1, Zenon
  <1> QED BY <1>2, <1>4 DEF Promise!Next, Promise!Release

LEMMA AcquireStep ==
  ASSUME TypeInv, MountedWhereAttached, NEW n \in Nodes, NEW m \in Members, NEW k \in Kinds,
         MountsDevice(n, m, k)
  PROVE  Promise!Next
  <1> DEFINE w == <<m, k>>
  <1>1. w \in Volumes
    BY DEF Volumes
  <1>2. vol[w].at = n
    BY Zenon DEF MountsDevice, DeviceOf
  <1>3. Users[w] \subseteq {n}
    BY <1>1, <1>2, OneUser
  <1>4. mnt' = [mnt EXCEPT ![n][k] = m] /\ mnt[n][k] = None /\ UNCHANGED held
    BY DEF MountsDevice
  <1>5. Users'[w] = {n}
    <2>1. Users'[w] = {x \in Nodes : mnt'[x][k] = m \/ held'[x][k] = m}
      BY <1>1, UsersFacts
    <2>2. Users[w] = {x \in Nodes : mnt[x][k] = m \/ held[x][k] = m}
      BY <1>1, UsersFacts
    <2> QED BY <1>3, <1>4, <2>1, <2>2, TypeFacts DEF MountTable
  <1>6. ASSUME NEW v \in Volumes, v # w
        PROVE  Users'[v] = Users[v]
    <2>1. \A x \in Nodes : mnt'[x][v[2]] = v[1] <=> mnt[x][v[2]] = v[1]
      BY <1>4, <1>6, UsersFacts, TypeFacts, NoneAssumption DEF MountTable
    <2>2. \A x \in Nodes : held'[x][v[2]] = held[x][v[2]]
      BY <1>4
    <2>3. {x \in Nodes : mnt'[x][v[2]] = v[1] \/ held'[x][v[2]] = v[1]}
            = {x \in Nodes : mnt[x][v[2]] = v[1] \/ held[x][v[2]] = v[1]}
      BY <2>1, <2>2
    <2> QED BY <2>3, UsersFacts, Zenon
  <1>7. Users' = [Users EXCEPT ![w] = {n}]
    <2>1. Users' = [v \in Volumes |-> Users'[v]] /\ Users = [v \in Volumes |-> Users[v]]
      BY DEF Users
    <2> QED BY <1>5, <1>6, <2>1
  <1> QED BY <1>1, <1>3, <1>7 DEF Promise!Next, Promise!Acquire

LEMMA PromiseStep ==
  ASSUME TypeInv, MountedWhereAttached, [Next]_vars
  PROVE  [Promise!Next]_Users
  <1>1. CASE OnlyMovesVolumes
    BY <1>1 DEF OnlyMovesVolumes, Users, Using
  <1> QED BY <1>1, NextClassified, ReleaseStep, AcquireStep DEF Classified

LEMMA PromiseInit == Init => Promise!Init
  BY NoneAssumption DEF Init, Promise!Init, Users, Using, NothingMounted, Volumes

(* VolumeDriver implements MemberVolumes on any cluster: the file system of *)
(* a volume is mounted on one node at a time and moves to another node only *)
(* after it was released, whatever the drivers, EBS, the scheduler and      *)
(* crashes do.                                                              *)
THEOREM DriverKeepsPromise == Spec => ImplementsPromise
  <1>1. Init /\ [][Next]_vars /\ []TypeInv /\ []MountedWhereAttached
          => Promise!Init /\ [][Promise!Next]_Users
    BY PromiseInit, PromiseStep, PTL
  <1> QED BY <1>1, TypeInvariant, MountedSafely, PTL DEF Spec, ImplementsPromise, Promise!Spec

-----------------------------------------------------------------------------
(* OwnerIsLatest for any cluster: the conditional update of                 *)
(* getMemberForTask serialises the owners of a member.  Every step but      *)
(* WriteOwner leaves the member records alone and cannot make a request the *)
(* owner, or change the member and the record of one that is.               *)

KeepsOwners ==
  /\ UNCHANGED mem
  /\ \A n \in Nodes : pc'[n] \in OwnedSteps =>
       /\ pc[n] \in OwnedSteps
       /\ req'[n].m = req[n].m
       /\ req'[n].rec = req[n].rec

(* A request that returns owns nothing any more; one that continues keeps   *)
(* what it owns.                                                            *)
LEMMA ReleaseKeeps ==
  ASSUME TypeInv, NEW n \in Nodes, Release(n), UNCHANGED mem
  PROVE  KeepsOwners
  <1>1. "idle" \notin OwnedSteps
    BY DEF OwnedSteps, MountSteps
  <1> QED BY <1>1 DEF KeepsOwners, Release, Goto, TypeInv, FlowInv, RequestTypeOK

LEMMA ContinueKeeps ==
  ASSUME TypeInv, NEW n \in Nodes, NEW step \in Steps, NEW r \in Requests,
         Continue(n, step, r), UNCHANGED mem,
         step \in OwnedSteps => /\ pc[n] \in OwnedSteps
                                /\ r.m = req[n].m /\ r.rec = req[n].rec
  PROVE  KeepsOwners
  BY DEF KeepsOwners, Continue, Goto, TypeInv, FlowInv, RequestTypeOK

LEMMA IdleKeeps ==
  ASSUME UNCHANGED <<pc, req, mem>>
  PROVE  KeepsOwners
  BY DEF KeepsOwners

(* The local variables a step may change without touching the owner. *)
SameOwner(r, s) == r.m = s.m /\ r.rec = s.rec

LEMMA OwnedRequest ==
  ASSUME TypeInv, NEW n \in Nodes
  PROVE  /\ req[n] \in Requests
         /\ [req[n] EXCEPT !.k = "primary"] \in Requests
         /\ SameOwner([req[n] EXCEPT !.k = "primary"], req[n])
         /\ HasJournal => [req[n] EXCEPT !.k = "journal"] \in Requests
         /\ SameOwner([req[n] EXCEPT !.k = "journal"], req[n])
  BY RequestFacts, KindsAssumption DEF Requests, HasJournal, SameOwner

LEMMA NextVolumeKeeps ==
  ASSUME TypeInv, NEW n \in Nodes, NEW step \in Steps, NEW after \in Steps,
         pc[n] \in OwnedSteps, NextVolume(n, step, after), UNCHANGED mem
  PROVE  KeepsOwners
  BY OwnedRequest, ContinueKeeps DEF NextVolume, SameOwner

-----------------------------------------------------------------------------
(* The steps of Mount up to the update of the owner do not reach OwnedSteps *)

LEMMA SelectionKeeps ==
  ASSUME TypeInv, NEW n \in Nodes,
         \/ ListTasks(n) \/ ListLocalIPs(n) \/ SelectMember(n) \/ CheckLastState(n)
         \/ DetachLastOwner(n) \/ WaitLastDetached(n) \/ GetLocalTask(n)
  PROVE  KeepsOwners
  <1> DEFINE early == {"list", "localIPs", "select", "lastState", "lastDetach", "lastWait",
                       "task", "cas", "idle"}
  <1>1. \A s \in early : s \notin OwnedSteps
    BY DEF OwnedSteps, MountSteps
  <1>2. UNCHANGED mem
    BY DEF ListTasks, ListLocalIPs, SelectMember, CheckLastState, DetachLastOwner,
           WaitLastDetached, GetLocalTask
  <1>3. \E step \in early : Goto(n, step)
    BY Zenon
    DEF ListTasks, ListLocalIPs, SelectMember, CheckLastState, DetachLastOwner,
        WaitLastDetached, GetLocalTask, LastOwnerDetached, AfterDetached, Continue,
        MountFails, Release
  <1>4. \A x \in Nodes : x # n => req'[x] = req[x] /\ pc'[x] = pc[x]
    <2>1. \E r : req' = [req EXCEPT ![n] = r]
      BY Zenon
      DEF ListTasks, ListLocalIPs, SelectMember, CheckLastState, DetachLastOwner,
          WaitLastDetached, GetLocalTask, LastOwnerDetached, Continue, MountFails, Release
    <2> QED BY <1>3, <2>1 DEF Goto, TypeInv, FlowInv, RequestTypeOK
  <1>5. pc'[n] \notin OwnedSteps
    BY <1>1, <1>3 DEF Goto, TypeInv, FlowInv, RequestTypeOK
  <1> QED BY <1>2, <1>4, <1>5 DEF KeepsOwners

-----------------------------------------------------------------------------
(* The steps after it keep the member and the record *)

LEMMA NetworkKeeps ==
  ASSUME TypeInv, NEW n \in Nodes,
         \/ UpdateDNS(n) \/ WaitDNS(n) \/ GetInterface(n) \/ DropDanglingIP(n)
         \/ UnassignOldIP(n) \/ AssignLocalIP(n) \/ WriteIPRecord(n) \/ AddLocalIP(n)
  PROVE  KeepsOwners
  <1> DEFINE drop(x) == [req[n] EXCEPT !.ips = @ \ {x}]
             read(i) == [req[n] EXCEPT !.iprec = i]
             look == [req[n] EXCEPT !.ips = {x \in Members : ipAt[x] = n},
                                    !.iprec = ipRec[req[n].m]]
  <1>1. pc[n] \in OwnedSteps /\ pc[n] \in ChosenSteps
    BY DEF UpdateDNS, WaitDNS, GetInterface, DropDanglingIP, UnassignOldIP, AssignLocalIP,
           WriteIPRecord, AddLocalIP, OwnedSteps, ChosenSteps, MountSteps
  <1>2. UNCHANGED mem
    BY DEF UpdateDNS, WaitDNS, GetInterface, DropDanglingIP, UnassignOldIP, AssignLocalIP,
           WriteIPRecord, AddLocalIP
  <1>3. /\ {"dnsWait", "attach", "dangling", "ipRecord", "unassign", "assign", "mountFS"} \subseteq Steps
        /\ req[n] \in Requests /\ SameOwner(req[n], req[n])
    BY RequestFacts DEF Steps, MountSteps, SameOwner
  <1>4. /\ look \in Requests /\ SameOwner(look, req[n])
        /\ \A i \in {req[n].iprec, ipRec[req[n].m]} :
             read(i) \in Requests /\ SameOwner(read(i), req[n])
    BY <1>1, RequestFacts DEF Requests, SameOwner, TypeInv, DataInv, NetTypeOK
  <1>5. \A x : drop(x) \in Requests /\ SameOwner(drop(x), req[n])
    BY RequestFacts DEF Requests, SameOwner
  <1>6. \/ Release(n)
        \/ \E step \in Steps, r \in Requests : Continue(n, step, r) /\ SameOwner(r, req[n])
    <2>1. CASE UpdateDNS(n) \/ WaitDNS(n) \/ UnassignOldIP(n) \/ AssignLocalIP(n)
               \/ WriteIPRecord(n) \/ AddLocalIP(n)
      BY <1>3, <2>1
      DEF UpdateDNS, WaitDNS, UnassignOldIP, AssignLocalIP, WriteIPRecord, AddLocalIP, MountFails
    <2>2. CASE GetInterface(n)
      BY <1>3, <1>4, <2>2 DEF GetInterface, MountFails
    <2>3. CASE DropDanglingIP(n)
      BY <1>3, <1>4, <1>5, <2>3 DEF DropDanglingIP, MountFails
    <2> QED BY <2>1, <2>2, <2>3
  <1> QED BY <1>1, <1>2, <1>6, ReleaseKeeps, ContinueKeeps DEF SameOwner

LEMMA VolumeStepsKeep ==
  ASSUME TypeInv, NEW n \in Nodes,
         \/ AttachVolumes(n) \/ UndoAttach(n) \/ WaitAttached(n) \/ AbortAttach(n)
         \/ FormatVolumes(n) \/ MountVolumes(n) \/ CreateConfig(n) \/ UndoDetach(n)
  PROVE  KeepsOwners
  <1>1. pc[n] \in OwnedSteps
    BY DEF AttachVolumes, UndoAttach, WaitAttached, AbortAttach, FormatVolumes, MountVolumes,
           CreateConfig, UndoDetach, OwnedSteps, MountSteps
  <1>2. UNCHANGED mem
    BY DEF AttachVolumes, UndoAttach, WaitAttached, AbortAttach, FormatVolumes, MountVolumes,
           CreateConfig, UndoDetach
  <1>3. {"attach", "attachWait", "attachUndo", "attachAbort", "format", "addIP", "mountFS",
         "config", "undoUmount", "undoDetach"} \subseteq Steps
    BY DEF Steps, MountSteps
  <1>4. Release(n) => KeepsOwners
    BY <1>2, ReleaseKeeps
  <1>5. ASSUME NEW step \in Steps, NEW r \in Requests, Continue(n, step, r), SameOwner(r, req[n])
        PROVE  KeepsOwners
    BY <1>1, <1>2, <1>5, ContinueKeeps DEF SameOwner
  <1>6. CASE AttachVolumes(n)
    BY <1>1, <1>2, <1>3, <1>4, <1>5, <1>6, OwnedRequest, NextVolumeKeeps
    DEF AttachVolumes, AttachFails, MountFails
  <1>7. CASE WaitAttached(n)
    BY <1>1, <1>2, <1>3, <1>5, <1>7, OwnedRequest, NextVolumeKeeps DEF WaitAttached
  <1>8. CASE UndoAttach(n) \/ AbortAttach(n) \/ UndoDetach(n) \/ CreateConfig(n)
    <2>1. SameOwner(req[n], req[n])
      BY DEF SameOwner
    <2> QED BY <1>3, <1>4, <1>5, <1>8, <2>1, OwnedRequest
      DEF UndoAttach, AbortAttach, UndoDetach, CreateConfig, MountFails, MountSucceeds, LastVolume
  <1>9. CASE FormatVolumes(n)
    <2>1. NextVolume(n, "format", AfterFormat) \/ Release(n)
      BY <1>9, Zenon DEF FormatVolumes, Mkfs, MountFails
    <2> QED BY <1>1, <1>2, <1>3, <1>4, <2>1, NextVolumeKeeps DEF AfterFormat
  <1>10. CASE MountVolumes(n)
    <2>1. NextVolume(n, "mountFS", "config") \/ Release(n)
      BY <1>10, Zenon DEF MountVolumes, MountFails
    <2> QED BY <1>1, <1>2, <1>3, <1>4, <2>1, NextVolumeKeeps
  <1> QED BY <1>6, <1>7, <1>8, <1>9, <1>10

(* The umount of both volumes, in Mount and in Unmount. *)
LEMMA UmountKeeps ==
  ASSUME TypeInv, NEW n \in Nodes, UndoUmount(n) \/ UmountVolumes(n)
  PROVE  KeepsOwners
  <1> DEFINE next(e) == [req[n] EXCEPT !.k = "journal", !.err = e]
             done == [req[n] EXCEPT !.k = "primary"]
  <1>1. UNCHANGED mem
    BY DEF UndoUmount, UmountVolumes
  <1>2. /\ {"undoUmount", "undoDetach", "umount", "detach"} \subseteq Steps
        /\ "umount" \notin OwnedSteps /\ "detach" \notin OwnedSteps /\ "undoUmount" \in OwnedSteps
    BY DEF Steps, MountSteps, UnmountSteps, OwnedSteps
  <1>3. ~LastVolume(n) => \A e \in BOOLEAN : next(e) \in Requests /\ SameOwner(next(e), req[n])
    BY RequestFacts DEF Requests, LastVolume, HasJournal, SameOwner
  <1>4. done \in Requests /\ SameOwner(done, req[n])
    BY OwnedRequest
  <1>5. \/ Release(n)
        \/ /\ ~LastVolume(n)
           /\ \E step \in {pc[n]}, e \in BOOLEAN : Continue(n, step, next(e))
        \/ Continue(n, IF pc[n] = "umount" THEN "detach" ELSE "undoDetach", done)
    <2>1. CASE UndoUmount(n)
      <3>1. PICK ok \in BOOLEAN :
              LET err == req[n].err \/ ~ok IN
              \/ ~LastVolume(n) /\ Continue(n, "undoUmount", next(err))
              \/ Continue(n, "undoDetach", done)
              \/ MountSucceeds(n)
        BY <2>1 DEF UndoUmount
      <3>2. (req[n].err \/ ~ok) \in BOOLEAN
        OBVIOUS
      <3> QED BY <2>1, <3>1, <3>2 DEF UndoUmount, MountSucceeds
    <2>2. CASE UmountVolumes(n)
      <3>1. PICK ok \in BOOLEAN :
              LET err == req[n].err \/ ~ok IN
              \/ ~LastVolume(n) /\ Continue(n, "umount", next(err))
              \/ Continue(n, "detach", done)
              \/ UnmountDone(n)
        BY <2>2 DEF UmountVolumes
      <3>2. (req[n].err \/ ~ok) \in BOOLEAN
        OBVIOUS
      <3> QED BY <2>2, <3>1, <3>2 DEF UmountVolumes, UnmountDone
    <2> QED BY <2>1, <2>2
  <1>6. pc[n] = "undoUmount" \/ pc[n] = "umount"
    BY DEF UndoUmount, UmountVolumes
  <1> QED BY <1>1, <1>2, <1>3, <1>4, <1>5, <1>6, ReleaseKeeps, ContinueKeeps DEF SameOwner

-----------------------------------------------------------------------------
(* Unmount, docker and the environment *)

LEMMA UnmountStepKeeps ==
  ASSUME TypeInv, NEW n \in Nodes, UnmountStep(n)
  PROVE  KeepsOwners
  <1>1. /\ {"memberFile", "umount", "detach"} \subseteq Steps
        /\ \A s \in {"memberFile", "umount", "detach"} : s \notin OwnedSteps
    BY DEF Steps, MountSteps, UnmountSteps, OwnedSteps
  <1>2. CASE UnmountDeleteIP(n) \/ DeleteMemberFile(n)
    BY <1>1, <1>2, RequestFacts, ReleaseKeeps, ContinueKeeps
    DEF UnmountDeleteIP, DeleteMemberFile, UnmountDone
  <1>3. CASE DetachVolumes(n)
    BY <1>1, <1>3, OwnedRequest, ReleaseKeeps, ContinueKeeps
    DEF DetachVolumes, UnmountDone, LastVolume
  <1> QED BY <1>2, <1>3, UmountKeeps DEF UnmountStep

LEMMA DockerStepKeeps ==
  ASSUME TypeInv, NEW n \in Nodes, DockerStep(n)
  PROVE  KeepsOwners
  <1>1. CASE Remove(n) \/ ContainerStarts(n) \/ ContainerExits(n) \/ ContainerRemoved(n)
    BY <1>1, IdleKeeps DEF Remove, ContainerStarts, ContainerExits, ContainerRemoved, driverVars
  <1>2. ASSUME NEW k \in Kinds, MountRequest(n, k) \/ UnmountRequest(n, k)
        PROVE  KeepsOwners
    <2>1. \/ UNCHANGED <<pc, req>>
          \/ \E step \in {"select", "list", "delIP", "memberFile"} : \E r :
               pc' = [pc EXCEPT ![n] = step] /\ req' = [req EXCEPT ![n] = r]
      BY <1>2, Zenon DEF MountRequest, UnmountRequest, Continue, Goto
    <2>2. \A s \in {"select", "list", "delIP", "memberFile"} : s \notin OwnedSteps
      BY DEF OwnedSteps, MountSteps
    <2>3. UNCHANGED mem
      BY <1>2 DEF MountRequest, UnmountRequest
    <2> QED BY <2>1, <2>2, <2>3 DEF KeepsOwners, TypeInv, FlowInv, RequestTypeOK
  <1> QED BY <1>1, <1>2 DEF DockerStep

(* WriteOwner takes the revision it read, which nobody took before it. *)
LEMMA WriteOwnerKeeps ==
  ASSUME TypeInv, OwnerIsLatest, NEW n \in Nodes, WriteOwner(n)
  PROVE  OwnerIsLatest'
  <1> DEFINE m == req[n].m
             old == req[n].rec
             new == UpdateServiceMemberOwner(old, req[n].task, n)
             r == [req[n] EXCEPT !.rec = new]
  <1>1. /\ m \in Members /\ mem \in [Members -> MemberRecords] /\ old \in MemberRecords
        /\ pc \in [Nodes -> Steps] /\ req \in [Nodes -> Requests]
    BY RequestFacts
    DEF WriteOwner, ChosenSteps, MountSteps, TypeInv, FlowInv, DataInv, RequestTypeOK, Requests
  <1>2. new \in MemberRecords /\ new.rev = old.rev + 1 /\ new.server = n
    BY <1>1, RequestFacts DEF Requests, MemberRecords, UpdateServiceMemberOwner
  <1>3. r.m = m /\ r.rec = new
    BY RequestFacts DEF Requests
  <1>4. \/ /\ mem[m].rev = old.rev /\ mem' = [mem EXCEPT ![m] = new]
           /\ Continue(n, AfterOwned, r) \/ Release(n)
        \/ UNCHANGED mem /\ Release(n)
    BY DEF WriteOwner, UpdateServiceMember, MountFails
  <1>5. "idle" \notin OwnedSteps
    BY DEF OwnedSteps, MountSteps
  <1>6. \A x \in Nodes : x # n => pc'[x] = pc[x] /\ req'[x] = req[x]
    BY <1>1, <1>4 DEF Continue, Release, Goto
  <1>7. \/ UNCHANGED mem
        \/ mem[m].rev = old.rev /\ mem' = [mem EXCEPT ![m] = new]
    BY <1>4
  <1>8. ASSUME NEW x \in Nodes, x # n, pc'[x] \in OwnedSteps
        PROVE  LET s == req'[x].rec IN
               /\ s.server = x
               /\ s.rev <= mem'[req'[x].m].rev
               /\ s.rev = mem'[req'[x].m].rev => mem'[req'[x].m] = s
    <2> DEFINE s == req[x].rec
               y == req[x].m
    <2>1. pc[x] \in OwnedSteps /\ req'[x] = req[x]
      BY <1>6, <1>8
    <2>2. s.server = x /\ s.rev <= mem[y].rev /\ (s.rev = mem[y].rev => mem[y] = s)
      BY <2>1 DEF OwnerIsLatest
    <2>3. y \in Members /\ s.rev \in Nat /\ mem[y].rev \in Nat
      <3>1. y \in Members
        BY <2>1, RequestFacts DEF OwnedSteps, ChosenSteps, MountSteps
      <3> QED BY <1>1, <3>1, RequestFacts DEF Requests, MemberRecords
    <2>4. mem'[y] = mem[y] \/ (mem'[y].rev = mem[y].rev + 1)
      BY <1>1, <1>2, <1>7, <2>3
    <2> QED BY <2>1, <2>2, <2>3, <2>4
  <1>9. ASSUME pc'[n] \in OwnedSteps
        PROVE  req'[n].rec = new /\ mem'[req'[n].m] = new
    <2>1. mem' = [mem EXCEPT ![m] = new] /\ req' = [req EXCEPT ![n] = r]
      BY <1>1, <1>4, <1>5, <1>9 DEF Release, Goto, Continue
    <2> QED BY <1>1, <1>3, <2>1
  <1>10. new.rev \in Nat
    BY <1>2 DEF MemberRecords
  <1> QED BY <1>2, <1>8, <1>9, <1>10 DEF OwnerIsLatest

LEMMA KeepsOwnersKeeps ==
  ASSUME OwnerIsLatest, KeepsOwners
  PROVE  OwnerIsLatest'
  BY DEF OwnerIsLatest, KeepsOwners

LEMMA OwnerStep ==
  ASSUME TypeInv, OwnerIsLatest, [Next]_vars
  PROVE  OwnerIsLatest'
  <1>1. ASSUME NEW n \in Nodes, MountStep(n)
        PROVE  KeepsOwners \/ WriteOwner(n)
    BY <1>1, SelectionKeeps, NetworkKeeps, VolumeStepsKeep, UmountKeeps DEF MountStep
  <1>2. ASSUME NEW n \in Nodes, CrashStep(n)
        PROVE  KeepsOwners
    BY <1>2, ReleaseKeeps DEF CrashStep, DriverRestarts, NodeReboots
  <1>3. ASSUME SchedulerStep \/ EbsStep \/ UNCHANGED vars
        PROVE  KeepsOwners
    <2>1. UNCHANGED driverVars
      BY <1>3, Zenon
      DEF SchedulerStep, SchedulerStarts, SchedulerStops, EbsStep, EbsAttaches, EbsDetaches, vars
    <2> QED BY <2>1, IdleKeeps DEF driverVars
  <1>4. KeepsOwners \/ \E n \in Nodes : WriteOwner(n)
    <2>1. ASSUME NEW n \in Nodes, DriverStep(n) \/ DockerStep(n) \/ CrashStep(n)
          PROVE  KeepsOwners \/ WriteOwner(n)
      BY <1>1, <1>2, <2>1, UnmountStepKeeps, DockerStepKeeps DEF DriverStep
    <2> QED BY <1>3, <2>1 DEF Next
  <1> QED BY <1>4, KeepsOwnersKeeps, WriteOwnerKeeps

LEMMA OwnerInit == Init => OwnerIsLatest
  BY DEF Init, OwnerIsLatest, OwnedSteps, MountSteps

(* The conditional update serialises the owners of every member, on any     *)
(* cluster: a driver past getMemberForTask works with the record in the DB, *)
(* or with one that a later owner has replaced, and never shares a          *)
(* revision with another driver.                                            *)
THEOREM OwnersAreSerialised == Spec => []OwnerIsLatest
  <1>1. Init /\ [][Next]_vars /\ []TypeInv => []OwnerIsLatest
    BY OwnerInit, OwnerStep, PTL
  <1> QED BY <1>1, TypeInvariant, PTL DEF Spec

-----------------------------------------------------------------------------
(* The host of a member *)

(* The umounts of a request are between the primary and the journal volume. *)
Halfway(n) == pc[n] \in {"umount", "undoUmount"} /\ req[n].k = "journal"

(* With one volume, or no failing call, an umount never takes away one of  *)
(* two volumes and leaves the other.                                       *)
Whole == Kinds = {"primary"} \/ MaxFaults = 0

(* Host n has volumes of m mounted, and of no other member.                *)
Holding(n, m) ==
  /\ \A k \in Kinds : mnt[n][k] \in {m, None}
  /\ ~Halfway(n) => /\ \E k \in Kinds : mnt[n][k] # None
                    /\ Whole => \A k \in Kinds : mnt[n][k] = m
  /\ Halfway(n) /\ req[n].err => mnt[n]["primary"] # None

(* Steps that find the request at the primary volume. *)
PrimarySteps == {"task", "cas", "dns", "dnsWait", "netif", "dangling", "unassign", "assign",
                 "ipRecord", "addIP", "config", "delIP", "memberFile"}

(* What a request knows: Mount only goes on without a cached volume; the   *)
(* last Unmount works on the cached volume until it has unmounted it.      *)
RequestOK(n) ==
  /\ pc[n] \in MountSteps => ~Cached(n)
  /\ pc[n] \in UnmountSteps => /\ ctr[n].phase = "stopping"
                               /\ ctr[n].refs = {req[n].name}
                               /\ pc[n] = "detach" <=> ~Cached(n)
                               /\ Cached(n) => cache[n].m = req[n].m /\ cache[n].conns = 1
  /\ pc[n] \in PrimarySteps => req[n].k = "primary"
  /\ pc[n] \in {"undoUmount", "undoDetach"} => MaxFaults # 0
  /\ pc[n] \in {"addIP", "delIP"} => RequireStaticIP
  /\ req[n].err => Halfway(n) /\ MaxFaults # 0

(* Once a volume is attached for a request, it is the only one of its kind *)
(* that is attached to the node.                                           *)
DevicesOK(n) ==
  \A x \in Members, k \in Kinds : vol[<<x, k>>].at = n =>
    /\ pc[n] \in {"attachWait", "format", "addIP", "mountFS"} => x = req[n].m
    /\ pc[n] = "attach" /\ req[n].k = "journal" /\ k = "primary" => x = req[n].m

MountsOK(n) ==
  /\ Cached(n) => Holding(n, cache[n].m)
  /\ pc[n] = "undoUmount" => Holding(n, req[n].m)
  /\ pc[n] = "mountFS" /\ req[n].k = "journal" => mnt[n]["primary"] = req[n].m
  /\ pc[n] = "config" => \A k \in Kinds : mnt[n][k] = req[n].m

(* The container: docker mounts a second volume while the first is there,  *)
(* so a Mount that has to start again, after a restart, cannot succeed.    *)
ContainerOK(n) ==
  /\ ctr[n].phase = "starting" /\ ctr[n].refs # {} =>
       /\ pc[n] \notin {"config", "undoUmount", "undoDetach"}
       /\ pc[n] = "mountFS" /\ req[n].k = "journal" => mnt[n]["journal"] # None
       /\ \E k \in Kinds : mnt[n][k] # None
       /\ Whole => \E m \in Members : \A k \in Kinds : mnt[n][k] = m
  /\ ctr[n].phase = "running" =>
       /\ pc[n] = "idle"
       /\ Whole => \E m \in Members : /\ \A k \in Kinds : held[n][k] = m
                                      /\ Cached(n) => cache[n].m = m

ConnectionsOK(n) ==
  /\ Cached(n) => Cardinality(ctr[n].refs) <= cache[n].conns
  /\ crashes = 0 /\ ctr[n].refs # {} => Cached(n) \/ pc[n] = "detach"

(* The member file and the address, when no call fails ...                 *)
KnownOK(n) ==
  MaxFaults = 0 =>
    /\ pc[n] \in {"mountFS", "config"} /\ RequireStaticIP => req[n].m \in localIP[n]
    /\ pc[n] = "idle" /\ Cached(n) => /\ memFile[n] = cache[n].m
                                      /\ RequireStaticIP => cache[n].m \in localIP[n]

(* ... and the addresses, when no driver restarts and no two calls fail.   *)
AddressOK(n) ==
  /\ ~RequireStaticIP => localIP[n] = {}
  /\ MaxCrashes = 0 /\ MaxFaults < 2 =>
       /\ Cached(n) => localIP[n] \subseteq {cache[n].m}
       /\ pc[n] \in {"memberFile", "umount"} => localIP[n] = {}
       /\ ~Cached(n) =>
            IF pc[n] \in {"mountFS", "config", "undoUmount", "undoDetach"}
            THEN localIP[n] \subseteq {req[n].m} ELSE localIP[n] = {}

HostOK(n) == /\ RequestOK(n) /\ DevicesOK(n) /\ MountsOK(n) /\ ContainerOK(n)
             /\ ConnectionsOK(n) /\ KnownOK(n) /\ AddressOK(n)
HostInv == \A n \in Nodes : HostOK(n)

-----------------------------------------------------------------------------
(* A step of node n leaves the other hosts alone, and no volume is attached *)
(* to them; a step elsewhere leaves n alone.                                *)
Untouched(x) ==
  /\ pc'[x] = pc[x] /\ req'[x] = req[x] /\ ctr'[x] = ctr[x]
  /\ cache'[x] = cache[x] /\ mnt'[x] = mnt[x] /\ held'[x] = held[x]
  /\ memFile'[x] = memFile[x] /\ localIP'[x] = localIP[x]
  /\ \A m \in Members, k \in Kinds : vol'[<<m, k>>].at = x => vol[<<m, k>>].at = x
  /\ crashes' = 0 => crashes = 0
OnlyAt(n) == \A x \in Nodes \ {n} : Untouched(x)

LEMMA UntouchedOK ==
  ASSUME NEW x \in Nodes, HostOK(x), Untouched(x)
  PROVE  HostOK(x)'
  <1>1. RequestOK(x)'
    BY DEF HostOK, RequestOK, Untouched, Cached, Halfway
  <1>2. DevicesOK(x)'
    BY DEF HostOK, DevicesOK, Untouched
  <1>3. MountsOK(x)'
    BY DEF HostOK, MountsOK, Untouched, Cached, Holding, Halfway
  <1>4. ContainerOK(x)'
    BY DEF HostOK, ContainerOK, Untouched, Cached
  <1>5. ConnectionsOK(x)'
    BY DEF HostOK, ConnectionsOK, Untouched, Cached
  <1>6. KnownOK(x)' /\ AddressOK(x)'
    BY DEF HostOK, KnownOK, AddressOK, Untouched, Cached
  <1> QED BY <1>1, <1>2, <1>3, <1>4, <1>5, <1>6 DEF HostOK

(* What the ends of a step do to the request and its container. *)
FlowOnlyAt(n) == \A x \in Nodes \ {n} : pc'[x] = pc[x] /\ req'[x] = req[x] /\ ctr'[x] = ctr[x]

LEMMA FlowTypes ==
  ASSUME TypeInv
  PROVE  pc \in [Nodes -> Steps] /\ req \in [Nodes -> Requests] /\ ctr \in [Nodes -> Containers]
  BY DEF TypeInv, FlowInv, RequestTypeOK, CtrTypeOK

LEMMA Continued ==
  ASSUME TypeInv, NEW n \in Nodes, NEW step, NEW r, Continue(n, step, r)
  PROVE  pc'[n] = step /\ req'[n] = r /\ ctr' = ctr /\ FlowOnlyAt(n)
  BY FlowTypes DEF Continue, Goto, ctrVars, FlowOnlyAt

LEMMA Failed ==
  ASSUME TypeInv, NEW n \in Nodes, MountFails(n)
  PROVE  /\ pc'[n] = "idle" /\ req'[n] = NoRequest
         /\ ctr'[n].phase = "stopping" /\ ctr'[n].refs = ctr[n].refs /\ FlowOnlyAt(n)
  BY FlowTypes DEF MountFails, Release, Goto, MountReturns, FlowOnlyAt, Containers

LEMMA Succeeded ==
  ASSUME TypeInv, NEW n \in Nodes, MountSucceeds(n)
  PROVE  /\ pc'[n] = "idle" /\ req'[n] = NoRequest
         /\ ctr'[n].phase = ctr[n].phase /\ ctr'[n].refs = ctr[n].refs \cup {req[n].name}
         /\ FlowOnlyAt(n)
  BY FlowTypes DEF MountSucceeds, Release, Goto, MountReturns, FlowOnlyAt, Containers

LEMMA Done ==
  ASSUME TypeInv, NEW n \in Nodes, UnmountDone(n)
  PROVE  /\ pc'[n] = "idle" /\ req'[n] = NoRequest
         /\ ctr'[n].phase = ctr[n].phase /\ ctr'[n].refs = ctr[n].refs \ {req[n].name}
         /\ FlowOnlyAt(n)
  BY FlowTypes DEF UnmountDone, Release, Goto, UnmountReturns, FlowOnlyAt, Containers

LEMMA NoRequestFacts ==
  NoRequest.k = "primary" /\ ~NoRequest.err
  BY DEF NoRequest

LEMMA HostTypes ==
  ASSUME TypeInv
  PROVE  /\ cache \in [Nodes -> CacheEntries]
         /\ mnt \in [Nodes -> [Kinds -> Members \cup {None}]]
         /\ held \in [Nodes -> [Kinds -> Members \cup {None}]]
         /\ memFile \in [Nodes -> Members \cup {None}]
         /\ localIP \in [Nodes -> SUBSET Members]
         /\ faults \in 0..MaxFaults /\ crashes \in 0..MaxCrashes
         /\ MaxFaults \in Nat /\ MaxCrashes \in Nat
  BY BoundsAssumption DEF TypeInv, DataInv, HostTypeOK, NetTypeOK

-----------------------------------------------------------------------------
(* Mount, up to the mounts *)

SearchSteps == MountSteps \ {"attach", "attachUndo", "attachWait", "attachAbort", "format",
                             "addIP", "mountFS", "config", "undoUmount", "undoDetach"}
EarlySteps == MountSteps \ {"mountFS", "config", "undoUmount", "undoDetach"}

(* A Mount that gives up lets docker remove the container.                  *)
LEMMA GivesUp ==
  ASSUME TypeInv, NEW n \in Nodes, HostOK(n), pc[n] \in MountSteps, MountFails(n),
         UNCHANGED <<cache, crashes>>,
         ~RequireStaticIP => localIP'[n] = {},
         MaxCrashes = 0 /\ MaxFaults < 2 => localIP'[n] = {}
  PROVE  HostOK(n)'
  <1>1. /\ pc'[n] = "idle" /\ req'[n] = NoRequest
        /\ ctr'[n].phase = "stopping" /\ ctr'[n].refs = ctr[n].refs
    BY Failed
  <1>2. ~Cached(n) /\ ~Cached(n)'
    BY DEF HostOK, RequestOK, Cached
  <1>3. RequestOK(n)'
    BY <1>1, NoRequestFacts DEF RequestOK, MountSteps, UnmountSteps, PrimarySteps
  <1>4. DevicesOK(n)' /\ MountsOK(n)' /\ ContainerOK(n)' /\ KnownOK(n)'
    BY <1>1, <1>2 DEF DevicesOK, MountsOK, ContainerOK, KnownOK
  <1>5. ConnectionsOK(n)'
    <2>1. pc[n] # "detach"
      BY DEF MountSteps
    <2> QED BY <1>1, <1>2, <2>1 DEF HostOK, ConnectionsOK
  <1>6. AddressOK(n)'
    BY <1>1, <1>2 DEF AddressOK
  <1> QED BY <1>3, <1>4, <1>5, <1>6 DEF HostOK

LEMMA GoesOn ==
  ASSUME TypeInv, NEW n \in Nodes, HostOK(n), pc[n] \in EarlySteps,
         pc'[n] \in EarlySteps \cup {"mountFS"}, ~req'[n].err,
         UNCHANGED <<ctr, cache, mnt, crashes>>,
         pc'[n] \in PrimarySteps \cup {"mountFS"} => req'[n].k = "primary",
         pc'[n] = "addIP" => RequireStaticIP,
         DevicesOK(n)', KnownOK(n)', AddressOK(n)'
  PROVE  HostOK(n)'
  <1>1. /\ ~Cached(n) /\ ~Cached(n)' /\ pc'[n] \notin UnmountSteps /\ pc[n] \in MountSteps
        /\ pc'[n] \notin {"config", "undoUmount", "undoDetach", "idle"} /\ pc[n] # "detach"
    BY DEF HostOK, RequestOK, Cached, EarlySteps, MountSteps, UnmountSteps
  <1>2. RequestOK(n)'
    BY <1>1 DEF RequestOK, UnmountSteps
  <1>3. MountsOK(n)'
    BY <1>1 DEF MountsOK
  <1>4. ctr[n].phase = "starting"
    BY <1>1, RequestFacts
  <1>5. ContainerOK(n)'
    BY <1>1, <1>4 DEF HostOK, ContainerOK
  <1>6. ConnectionsOK(n)'
    BY <1>1 DEF HostOK, ConnectionsOK
  <1> QED BY <1>2, <1>3, <1>5, <1>6 DEF HostOK

(* A request that looks for a member, or moves its name or address: it has  *)
(* no device and no address on the interface.                               *)
LEMMA SearchGoesOn ==
  ASSUME TypeInv, NEW n \in Nodes, HostOK(n), pc[n] \in SearchSteps,
         NEW step \in SearchSteps \cup {"attach"}, NEW r, ~r.err,
         step \in PrimarySteps \cup {"attach"} => r.k = "primary",
         Continue(n, step, r),
         UNCHANGED <<cache, mnt, crashes>>, localIP'[n] \subseteq localIP[n]
  PROVE  HostOK(n)'
  <1>1. pc'[n] = step /\ req'[n] = r /\ ctr' = ctr
    BY Continued
  <1>2. /\ pc[n] \in EarlySteps /\ step \in EarlySteps
        /\ step \notin {"attachWait", "format", "addIP", "mountFS", "config", "idle", "memberFile",
                        "umount", "undoUmount", "undoDetach"}
        /\ pc[n] \notin {"mountFS", "config", "undoUmount", "undoDetach", "memberFile", "umount"}
    BY DEF SearchSteps, EarlySteps, MountSteps
  <1>3. ~Cached(n) /\ ~Cached(n)'
    BY <1>2 DEF HostOK, RequestOK, Cached, EarlySteps
  <1>4. DevicesOK(n)' /\ KnownOK(n)'
    BY <1>1, <1>2 DEF DevicesOK, KnownOK
  <1>5. AddressOK(n)'
    BY <1>1, <1>2, <1>3 DEF HostOK, AddressOK
  <1> QED BY <1>1, <1>2, <1>4, <1>5, GoesOn

LEMMA EarlyRequest ==
  ASSUME TypeInv, NEW n \in Nodes, HostOK(n), pc[n] \in EarlySteps
  PROVE  /\ req[n] \in Requests /\ ~req[n].err /\ pc[n] \in MountSteps
         /\ ~Cached(n) /\ ctr[n].phase = "starting"
         /\ ~RequireStaticIP => localIP[n] = {}
         /\ MaxCrashes = 0 /\ MaxFaults < 2 => localIP[n] = {}
  <1>1. pc[n] \in MountSteps /\ pc[n] \notin {"umount", "memberFile", "mountFS", "config",
                                              "undoUmount", "undoDetach"}
    BY DEF EarlySteps, MountSteps
  <1>2. ~Cached(n) /\ ~req[n].err
    BY <1>1 DEF HostOK, RequestOK, Halfway
  <1>3. AddressOK(n)
    BY DEF HostOK
  <1> QED BY <1>1, <1>2, <1>3, RequestFacts DEF AddressOK

(* How a step of the search ends. *)
SearchContinues(n) ==
  \E step \in SearchSteps \cup {"attach"}, r \in Requests :
    /\ ~r.err
    /\ step \in PrimarySteps \cup {"attach"} => r.k = "primary"
    /\ Continue(n, step, r)

LEMMA SearchStep ==
  ASSUME TypeInv, NEW n \in Nodes, HostOK(n), pc[n] \in SearchSteps,
         SearchContinues(n) \/ MountFails(n),
         UNCHANGED <<cache, mnt, crashes>>, localIP'[n] \subseteq localIP[n]
  PROVE  HostOK(n)'
  <1>1. pc[n] \in EarlySteps /\ pc[n] \in MountSteps
    BY DEF SearchSteps, EarlySteps
  <1>2. CASE MountFails(n)
    BY <1>1, <1>2, EarlyRequest, GivesUp
  <1>3. CASE SearchContinues(n)
    <2>1. PICK step \in SearchSteps \cup {"attach"}, r \in Requests :
            /\ ~r.err
            /\ step \in PrimarySteps \cup {"attach"} => r.k = "primary"
            /\ Continue(n, step, r)
      BY <1>3 DEF SearchContinues
    <2> QED BY <2>1, SearchGoesOn
  <1> QED BY <1>2, <1>3

(* The request as the search changes it. *)
LEMMA SearchRequests ==
  ASSUME TypeInv, NEW n \in Nodes, HostOK(n), pc[n] \in SearchSteps
  PROVE  /\ req[n] \in Requests /\ ~req[n].err /\ pc[n] \in MountSteps
         /\ req[n].m \in Members \/ pc[n] \in {"list", "localIPs", "select"}
         /\ pc[n] \in PrimarySteps => req[n].k = "primary"
         /\ ctr[n].phase = "starting"
  <1>1. pc[n] \in EarlySteps /\ pc[n] \in MountSteps
    BY DEF SearchSteps, EarlySteps
  <1>2. req[n].m \in Members \/ pc[n] \in {"list", "localIPs", "select"}
    BY <1>1, RequestFacts DEF ChosenSteps
  <1> QED BY <1>1, <1>2, EarlyRequest DEF HostOK, RequestOK

LEMMA ContinuesWith ==
  ASSUME NEW n, NEW step \in SearchSteps \cup {"attach"}, NEW r \in Requests, ~r.err,
         step \in PrimarySteps \cup {"attach"} => r.k = "primary", Continue(n, step, r)
  PROVE  SearchContinues(n)
  BY DEF SearchContinues

LEMMA ListHost ==
  ASSUME TypeInv, NEW n \in Nodes, HostOK(n), ListTasks(n) \/ ListLocalIPs(n)
  PROVE  HostOK(n)'
  <1>1. pc[n] \in SearchSteps
    BY DEF ListTasks, ListLocalIPs, SearchSteps, MountSteps
  <1>2. /\ [req[n] EXCEPT !.tasks = ListActiveServiceTasks] \in Requests
        /\ ~[req[n] EXCEPT !.tasks = ListActiveServiceTasks].err
        /\ [req[n] EXCEPT !.ips = {m \in Members : ipAt[m] = n}] \in Requests
        /\ ~[req[n] EXCEPT !.ips = {m \in Members : ipAt[m] = n}].err
    BY <1>1, SearchRequests DEF TypeInv, FlowInv, CtrTypeOK, Requests, ListActiveServiceTasks
  <1>3. {"localIPs", "select"} \subseteq SearchSteps \ PrimarySteps
    BY DEF SearchSteps, MountSteps, PrimarySteps
  <1>4. SearchContinues(n) \/ MountFails(n)
    BY <1>2, <1>3, ContinuesWith DEF ListTasks, ListLocalIPs
  <1>5. UNCHANGED <<cache, mnt, crashes, localIP>>
    BY DEF ListTasks, ListLocalIPs, hostVars, netVars
  <1> QED BY <1>1, <1>4, <1>5, SearchStep

LEMMA SelectHost ==
  ASSUME TypeInv, NEW n \in Nodes, HostOK(n), SelectMember(n)
  PROVE  HostOK(n)'
  <1>1. pc[n] \in SearchSteps
    BY DEF SelectMember, SearchSteps, MountSteps
  <1>2. Candidates(n) \subseteq Members
    BY <1>1, SearchRequests
    DEF TypeInv, FlowInv, RequestsWellFormed, Candidates, Preferred, IdleMembers, LocalZone
  <1>3. ASSUME NEW m \in Candidates(n), NEW k \in Kinds
        PROVE  /\ [req[n] EXCEPT !.m = m, !.rec = mem[m], !.task = n, !.k = k] \in Requests
               /\ ~[req[n] EXCEPT !.m = m, !.rec = mem[m], !.task = n, !.k = k].err
               /\ [req[n] EXCEPT !.m = m, !.rec = mem[m], !.task = n, !.k = k].k = k
    BY <1>1, <1>2, <1>3, SearchRequests DEF Requests, TypeInv, DataInv
  <1>4. ASSUME NEW m \in Candidates(n)
        PROVE  /\ (IF HasJournal /\ mem[m].server # None THEN "journal" ELSE "primary") \in Kinds
               /\ (IF mem[m].server = None THEN AfterDetached ELSE "lastState") \in SearchSteps
               /\ "lastState" \notin PrimarySteps
    BY KindsAssumption DEF HasJournal, AfterDetached, SearchSteps, MountSteps, PrimarySteps
  <1>5. ASSUME NEW m \in Candidates(n),
               Continue(n, IF mem[m].server = None THEN AfterDetached ELSE "lastState",
                           [req[n] EXCEPT !.m = m, !.rec = mem[m], !.task = n,
                                          !.k = IF HasJournal /\ mem[m].server # None
                                                THEN "journal" ELSE "primary"])
        PROVE  SearchContinues(n)
    <2>1. CASE mem[m].server = None
      BY <1>3, <1>4, <1>5, <2>1, ContinuesWith
    <2>2. CASE mem[m].server # None
      BY <1>3, <1>4, <1>5, <2>2, ContinuesWith DEF SearchSteps
    <2> QED BY <2>1, <2>2
  <1>6. SearchContinues(n) \/ MountFails(n)
    BY <1>5, Zenon DEF SelectMember
  <1>7. UNCHANGED <<cache, mnt, crashes, localIP>>
    BY DEF SelectMember, hostVars, netVars
  <1> QED BY <1>1, <1>6, <1>7, SearchStep

LEMMA DetachedHost ==
  ASSUME TypeInv, NEW n \in Nodes, HostOK(n), pc[n] \in SearchSteps, LastOwnerDetached(n)
  PROVE  SearchContinues(n)
  <1>1. /\ [req[n] EXCEPT !.k = "primary"] \in Requests
        /\ ~[req[n] EXCEPT !.k = "primary"].err
    BY SearchRequests, KindsAssumption DEF Requests
  <1>2. /\ "lastState" \in SearchSteps \ PrimarySteps
        /\ AfterDetached \in SearchSteps
    BY DEF SearchSteps, MountSteps, PrimarySteps, AfterDetached
  <1>3. CASE req[n].k = "journal"
    BY <1>1, <1>2, <1>3, ContinuesWith DEF LastOwnerDetached
  <1>4. CASE req[n].k # "journal"
    <2>1. req[n].k = "primary"
      BY <1>4, SearchRequests, KindsAssumption DEF Requests
    <2> QED BY <1>2, <1>4, <2>1, SearchRequests, ContinuesWith DEF LastOwnerDetached
  <1> QED BY <1>3, <1>4

LEMMA LastOwnerHost ==
  ASSUME TypeInv, NEW n \in Nodes, HostOK(n),
         CheckLastState(n) \/ DetachLastOwner(n) \/ WaitLastDetached(n)
  PROVE  HostOK(n)'
  <1>1. pc[n] \in SearchSteps /\ {"lastDetach", "lastWait"} \subseteq SearchSteps \ PrimarySteps
        /\ "attach" \notin {"lastDetach", "lastWait"}
    BY DEF CheckLastState, DetachLastOwner, WaitLastDetached, SearchSteps, MountSteps, PrimarySteps
  <1>2. req[n] \in Requests /\ ~req[n].err
    BY <1>1, SearchRequests
  <1>3. \/ LastOwnerDetached(n) \/ MountFails(n)
        \/ Continue(n, "lastDetach", req[n]) \/ Continue(n, "lastWait", req[n])
    BY DEF CheckLastState, DetachLastOwner, WaitLastDetached
  <1>4. SearchContinues(n) \/ MountFails(n)
    BY <1>1, <1>2, <1>3, DetachedHost, ContinuesWith
  <1>5. UNCHANGED <<cache, mnt, crashes, localIP>>
    BY DEF CheckLastState, DetachLastOwner, WaitLastDetached, hostVars, netVars
  <1> QED BY <1>1, <1>4, <1>5, SearchStep

LEMMA OwnHost ==
  ASSUME TypeInv, NEW n \in Nodes, HostOK(n), GetLocalTask(n) \/ WriteOwner(n)
  PROVE  HostOK(n)'
  <1> DEFINE new == UpdateServiceMemberOwner(req[n].rec, req[n].task, n)
  <1>1. /\ pc[n] \in SearchSteps /\ pc[n] \in PrimarySteps
        /\ "cas" \in SearchSteps /\ AfterOwned \in SearchSteps \cup {"attach"}
    BY DEF GetLocalTask, WriteOwner, SearchSteps, MountSteps, PrimarySteps, AfterOwned
  <1>2. req[n] \in Requests /\ ~req[n].err /\ req[n].k = "primary"
    BY <1>1, SearchRequests
  <1>3. new \in MemberRecords
    BY <1>2 DEF Requests, MemberRecords, UpdateServiceMemberOwner
  <1>4. \A t \in Tasks : /\ [req[n] EXCEPT !.task = t] \in Requests
                         /\ ~[req[n] EXCEPT !.task = t].err
                         /\ [req[n] EXCEPT !.task = t].k = "primary"
    BY <1>2 DEF Requests
  <1>5. /\ [req[n] EXCEPT !.rec = new] \in Requests
        /\ ~[req[n] EXCEPT !.rec = new].err
        /\ [req[n] EXCEPT !.rec = new].k = "primary"
    BY <1>2, <1>3 DEF Requests
  <1>6. \/ \E t \in Tasks : Continue(n, "cas", [req[n] EXCEPT !.task = t])
        \/ Continue(n, AfterOwned, [req[n] EXCEPT !.rec = new])
        \/ MountFails(n)
    BY Zenon DEF GetLocalTask, WriteOwner
  <1>7. SearchContinues(n) \/ MountFails(n)
    <2> HIDE DEF new
    <2> QED BY <1>1, <1>4, <1>5, <1>6, ContinuesWith
  <1>8. UNCHANGED <<cache, mnt, crashes, localIP>>
    BY DEF GetLocalTask, WriteOwner, hostVars, netVars
  <1> QED BY <1>1, <1>7, <1>8, SearchStep

LEMMA DnsHost ==
  ASSUME TypeInv, NEW n \in Nodes, HostOK(n), UpdateDNS(n) \/ WaitDNS(n)
  PROVE  HostOK(n)'
  <1>1. pc[n] \in SearchSteps /\ pc[n] \in PrimarySteps /\ "dnsWait" \in SearchSteps
    BY DEF UpdateDNS, WaitDNS, SearchSteps, MountSteps, PrimarySteps
  <1>2. req[n] \in Requests /\ ~req[n].err /\ req[n].k = "primary"
    BY <1>1, SearchRequests
  <1>3. Continue(n, "dnsWait", req[n]) \/ Continue(n, "attach", req[n]) \/ MountFails(n)
    BY DEF UpdateDNS, WaitDNS
  <1>4. SearchContinues(n) \/ MountFails(n)
    BY <1>1, <1>2, <1>3, ContinuesWith
  <1>5. UNCHANGED <<cache, mnt, crashes, localIP>>
    BY DEF UpdateDNS, WaitDNS, hostVars, netVars
  <1> QED BY <1>1, <1>4, <1>5, SearchStep

LEMMA InterfaceHost ==
  ASSUME TypeInv, NEW n \in Nodes, HostOK(n), GetInterface(n) \/ DropDanglingIP(n)
  PROVE  HostOK(n)'
  <1> DEFINE got == [req[n] EXCEPT !.ips = {m \in Members : ipAt[m] = n},
                                   !.iprec = ipRec[req[n].m]]
             drop(m) == [req[n] EXCEPT !.ips = @ \ {m}]
             read(i) == [req[n] EXCEPT !.iprec = i]
  <1>1. /\ pc[n] \in SearchSteps /\ pc[n] \in PrimarySteps
        /\ {"dangling", "ipRecord", "unassign"} \subseteq SearchSteps
        /\ pc[n] \notin {"list", "localIPs", "select"}
    BY DEF GetInterface, DropDanglingIP, SearchSteps, MountSteps, PrimarySteps
  <1>2. req[n] \in Requests /\ ~req[n].err /\ req[n].k = "primary" /\ req[n].m \in Members
    BY <1>1, SearchRequests
  <1>3. ipRec[req[n].m] \in IPRecords /\ req[n].iprec \in IPRecords
    BY <1>2 DEF TypeInv, DataInv, NetTypeOK, Requests
  <1>4. got \in Requests /\ ~got.err /\ got.k = "primary"
    BY <1>2, <1>3 DEF Requests
  <1>5. \A m \in Members : drop(m) \in Requests /\ ~drop(m).err /\ drop(m).k = "primary"
    BY <1>2 DEF Requests
  <1>6. \A i \in {req[n].iprec, ipRec[req[n].m]} :
          read(i) \in Requests /\ ~read(i).err /\ read(i).k = "primary"
    BY <1>2, <1>3 DEF Requests
  <1>7. req[n].ips \subseteq Members
    BY <1>2 DEF Requests
  <1>8. \/ Continue(n, "dangling", got)
        \/ \E m \in Members : Continue(n, "dangling", drop(m))
        \/ \E i \in {req[n].iprec, ipRec[req[n].m]} :
             \/ Continue(n, "attach", read(i)) \/ Continue(n, "ipRecord", read(i))
             \/ Continue(n, "unassign", read(i))
        \/ MountFails(n)
    BY <1>7 DEF GetInterface, DropDanglingIP
  <1>9. SearchContinues(n) \/ MountFails(n)
    <2> HIDE DEF got, drop, read
    <2> QED BY <1>1, <1>4, <1>5, <1>6, <1>8, ContinuesWith
  <1>10. UNCHANGED <<cache, mnt, crashes>>
    BY DEF GetInterface, DropDanglingIP, hostVars
  <1>11. localIP'[n] \subseteq localIP[n]
    BY HostTypes DEF GetInterface, DropDanglingIP, netVars, DeleteIP
  <1> QED BY <1>1, <1>9, <1>10, <1>11, SearchStep

LEMMA AddressHost ==
  ASSUME TypeInv, NEW n \in Nodes, HostOK(n),
         UnassignOldIP(n) \/ AssignLocalIP(n) \/ WriteIPRecord(n)
  PROVE  HostOK(n)'
  <1>1. /\ pc[n] \in SearchSteps /\ pc[n] \in PrimarySteps
        /\ {"assign", "ipRecord"} \subseteq SearchSteps
    BY DEF UnassignOldIP, AssignLocalIP, WriteIPRecord, SearchSteps, MountSteps, PrimarySteps
  <1>2. req[n] \in Requests /\ ~req[n].err /\ req[n].k = "primary"
    BY <1>1, SearchRequests
  <1>3. \/ Continue(n, "assign", req[n]) \/ Continue(n, "ipRecord", req[n])
        \/ Continue(n, "attach", req[n]) \/ MountFails(n)
    BY DEF UnassignOldIP, AssignLocalIP, WriteIPRecord
  <1>4. SearchContinues(n) \/ MountFails(n)
    BY <1>1, <1>2, <1>3, ContinuesWith
  <1>5. UNCHANGED <<cache, mnt, crashes, localIP>>
    BY DEF UnassignOldIP, AssignLocalIP, WriteIPRecord, hostVars, netVars
  <1> QED BY <1>1, <1>4, <1>5, SearchStep

-----------------------------------------------------------------------------
(* Mount, with its devices *)

(* Steps that know which devices are on the node. *)
DeviceSteps == {"attachWait", "format", "addIP", "mountFS"}

AttachedOnly(n, ks) ==
  \A x \in Members, k \in ks : vol'[<<x, k>>].at = n => x = req[n].m

(* From the attach to the mounts: the request keeps its member, and no      *)
(* address is added.                                                        *)
LEMMA DevicesGoOn ==
  ASSUME TypeInv, NEW n \in Nodes, HostOK(n), pc[n] \in EarlySteps,
         NEW step \in EarlySteps \cup {"mountFS"}, NEW k \in Kinds,
         Continue(n, step, [req[n] EXCEPT !.k = k]),
         step \in PrimarySteps \cup {"mountFS"} => k = "primary",
         step = "addIP" => RequireStaticIP,
         step = "mountFS" => ~RequireStaticIP,
         step \in DeviceSteps => AttachedOnly(n, Kinds),
         step = "attach" /\ k = "journal" => AttachedOnly(n, {"primary"}),
         UNCHANGED <<cache, mnt, crashes, localIP>>
  PROVE  HostOK(n)'
  <1> DEFINE r == [req[n] EXCEPT !.k = k]
  <1>1. req[n] \in Requests /\ r.m = req[n].m /\ r.k = k /\ ~r.err
    BY EarlyRequest DEF Requests
  <1>2. pc'[n] = step /\ req'[n] = r /\ ctr' = ctr
    BY Continued
  <1>3. DevicesOK(n)'
    <2> HIDE DEF r
    <2> QED BY <1>1, <1>2 DEF DevicesOK, DeviceSteps, AttachedOnly
  <1>4. step \notin {"config", "idle", "memberFile", "umount"}
    BY DEF EarlySteps, MountSteps
  <1>5. KnownOK(n)'
    BY <1>2, <1>4 DEF KnownOK
  <1>6. ~Cached(n)'
    BY EarlyRequest DEF Cached
  <1>7. AddressOK(n)'
    BY <1>2, <1>4, <1>6, EarlyRequest DEF AddressOK
  <1> QED
    <2> HIDE DEF r
    <2> QED BY <1>1, <1>2, <1>3, <1>5, <1>7, GoesOn

LEMMA AttachHost ==
  ASSUME TypeInv, NEW n \in Nodes, HostOK(n), AttachVolumes(n)
  PROVE  HostOK(n)'
  <1>1. /\ pc[n] = "attach" /\ pc[n] \in EarlySteps /\ pc[n] \in MountSteps /\ pc[n] \in ChosenSteps
        /\ {"attach", "attachWait", "attachUndo"} \subseteq EarlySteps \ PrimarySteps
        /\ "attachUndo" \notin DeviceSteps \cup {"attach"}
        /\ "attachWait" \in DeviceSteps
    BY DEF AttachVolumes, EarlySteps, MountSteps, ChosenSteps, PrimarySteps, DeviceSteps
  <1>2. req[n].k \in Kinds /\ req[n].m \in Members /\ req[n] \in Requests
        /\ "primary" \in Kinds /\ (HasJournal => "journal" \in Kinds)
    BY <1>1, RequestFacts, KindsAssumption DEF HasJournal
  <1>3. UNCHANGED <<cache, mnt, crashes, localIP>>
    BY DEF AttachVolumes, hostVars, netVars
  <1>4. CASE MountFails(n)
    BY <1>1, <1>3, <1>4, EarlyRequest, GivesUp
  <1>5. CASE Continue(n, "attachUndo", [req[n] EXCEPT !.k = "primary"])
    BY <1>1, <1>2, <1>3, <1>5, DevicesGoOn
  <1>6. ASSUME AttachVolume(req[n].m, req[n].k, n, TRUE), NextVolume(n, "attach", "attachWait")
        PROVE  HostOK(n)'
    <2>1. /\ \A x \in Members : vol[<<x, req[n].k>>].at # n
          /\ vol' = [vol EXCEPT ![<<req[n].m, req[n].k>>] = [state |-> "attaching", at |-> n]]
      BY <1>6, Zenon DEF AttachVolume, CanAttach
    <2>2. AttachedOnly(n, {req[n].k})
      BY <1>2, <2>1, TypeFacts DEF AttachedOnly, Volumes
    <2>3. req[n].k = "journal" => AttachedOnly(n, {"primary"})
      BY <1>1, <1>2, <2>1, TypeFacts DEF HostOK, DevicesOK, AttachedOnly, Volumes
    <2>4. CASE HasJournal /\ req[n].k = "primary"
      <3>1. Continue(n, "attach", [req[n] EXCEPT !.k = "journal"])
        BY <1>6, <2>4 DEF NextVolume
      <3> QED BY <1>1, <1>2, <1>3, <2>2, <2>4, <3>1, DevicesGoOn DEF DeviceSteps
    <2>5. CASE ~(HasJournal /\ req[n].k = "primary")
      <3>1. Continue(n, "attachWait", [req[n] EXCEPT !.k = "primary"])
        BY <1>6, <2>5 DEF NextVolume
      <3>2. AttachedOnly(n, Kinds)
        BY <1>2, <2>2, <2>3, <2>5, KindsAssumption DEF AttachedOnly, HasJournal
      <3> QED BY <1>1, <1>2, <1>3, <3>1, <3>2, DevicesGoOn
    <2> QED BY <2>4, <2>5
  <1>7. \/ AttachVolume(req[n].m, req[n].k, n, TRUE) /\ NextVolume(n, "attach", "attachWait")
        \/ Continue(n, "attachUndo", [req[n] EXCEPT !.k = "primary"])
        \/ MountFails(n)
    BY DEF AttachVolumes, AttachFails
  <1> QED BY <1>4, <1>5, <1>6, <1>7

LEMMA AttachedBefore ==
  ASSUME TypeInv, NEW n \in Nodes, HostOK(n), pc[n] \in DeviceSteps, UNCHANGED vol
  PROVE  AttachedOnly(n, Kinds)
  BY DEF HostOK, DevicesOK, AttachedOnly, DeviceSteps

(* A step that goes on with the next volume, or with the step after.        *)
LEMMA NextVolumeHost ==
  ASSUME TypeInv, NEW n \in Nodes, HostOK(n), pc[n] \in {"attachWait", "format"},
         NEW after \in {"format", "addIP", "mountFS"}, NextVolume(n, pc[n], after),
         after = "addIP" => RequireStaticIP,
         after = "mountFS" => ~RequireStaticIP,
         UNCHANGED <<vol, cache, mnt, crashes, localIP>>
  PROVE  HostOK(n)'
  <1>1. /\ pc[n] \in EarlySteps \ PrimarySteps
        /\ after \in EarlySteps \cup {"mountFS"} /\ pc[n] \in DeviceSteps
        /\ after # "attach" /\ pc[n] \notin {"attach", "addIP", "mountFS"}
    BY DEF EarlySteps, MountSteps, PrimarySteps, DeviceSteps
  <1>2. AttachedOnly(n, Kinds)
    BY <1>1, AttachedBefore
  <1>3. "primary" \in Kinds /\ (HasJournal => "journal" \in Kinds)
    BY KindsAssumption DEF HasJournal
  <1>4. CASE HasJournal /\ req[n].k = "primary"
    <2>1. Continue(n, pc[n], [req[n] EXCEPT !.k = "journal"])
      BY <1>4 DEF NextVolume
    <2> QED BY <1>1, <1>2, <1>3, <1>4, <2>1, DevicesGoOn
  <1>5. CASE ~(HasJournal /\ req[n].k = "primary")
    <2>1. Continue(n, after, [req[n] EXCEPT !.k = "primary"])
      BY <1>5 DEF NextVolume
    <2> QED BY <1>1, <1>2, <1>3, <2>1, DevicesGoOn
  <1> QED BY <1>4, <1>5

LEMMA WaitHost ==
  ASSUME TypeInv, NEW n \in Nodes, HostOK(n), WaitAttached(n)
  PROVE  HostOK(n)'
  <1>1. /\ pc[n] = "attachWait" /\ pc[n] \in EarlySteps /\ "attachAbort" \in EarlySteps \ PrimarySteps
        /\ "attachAbort" \notin DeviceSteps
    BY DEF WaitAttached, EarlySteps, MountSteps, PrimarySteps, DeviceSteps
  <1>2. UNCHANGED <<vol, cache, mnt, crashes, localIP>>
    BY DEF WaitAttached, hostVars, netVars, ec2Vars
  <1>3. CASE NextVolume(n, "attachWait", "format")
    BY <1>1, <1>2, <1>3, NextVolumeHost
  <1>4. CASE Continue(n, "attachAbort", [req[n] EXCEPT !.k = "primary"])
    BY <1>1, <1>2, <1>4, DevicesGoOn, KindsAssumption
  <1> QED BY <1>3, <1>4 DEF WaitAttached

LEMMA AbortHost ==
  ASSUME TypeInv, NEW n \in Nodes, HostOK(n), UndoAttach(n) \/ AbortAttach(n)
  PROVE  HostOK(n)'
  <1>1. /\ pc[n] \in EarlySteps /\ pc[n] \in MountSteps /\ "attachAbort" \in EarlySteps \ PrimarySteps
        /\ "attachAbort" \notin DeviceSteps
    BY DEF UndoAttach, AbortAttach, EarlySteps, MountSteps, PrimarySteps, DeviceSteps
  <1>2. UNCHANGED <<cache, mnt, crashes, localIP>>
    BY DEF UndoAttach, AbortAttach, hostVars, netVars
  <1>3. CASE MountFails(n)
    BY <1>1, <1>2, <1>3, EarlyRequest, GivesUp
  <1>4. CASE HasJournal /\ Continue(n, "attachAbort", [req[n] EXCEPT !.k = "journal"])
    BY <1>1, <1>2, <1>4, DevicesGoOn DEF HasJournal
  <1> QED BY <1>3, <1>4 DEF UndoAttach, AbortAttach

LEMMA FormatHost ==
  ASSUME TypeInv, NEW n \in Nodes, HostOK(n), FormatVolumes(n)
  PROVE  HostOK(n)'
  <1>1. pc[n] = "format" /\ pc[n] \in EarlySteps /\ pc[n] \in MountSteps
    BY DEF FormatVolumes, EarlySteps, MountSteps
  <1>2. UNCHANGED <<vol, cache, mnt, crashes, localIP>>
    BY DEF FormatVolumes, netVars, ec2Vars
  <1>3. CASE MountFails(n)
    BY <1>1, <1>2, <1>3, EarlyRequest, GivesUp
  <1>4. CASE NextVolume(n, "format", AfterFormat)
    BY <1>1, <1>2, <1>4, NextVolumeHost DEF AfterFormat
  <1> QED BY <1>3, <1>4 DEF FormatVolumes, Mkfs

LEMMA AddIPHost ==
  ASSUME TypeInv, NEW n \in Nodes, HostOK(n), AddLocalIP(n)
  PROVE  HostOK(n)'
  <1>1. /\ pc[n] = "addIP" /\ pc[n] \in EarlySteps /\ pc[n] \in MountSteps
        /\ pc[n] \in PrimarySteps /\ pc[n] \in DeviceSteps
    BY DEF AddLocalIP, EarlySteps, MountSteps, PrimarySteps, DeviceSteps
  <1>2. UNCHANGED <<vol, cache, mnt, crashes>>
    BY DEF AddLocalIP, hostVars, ec2Vars
  <1>3. RequireStaticIP /\ req[n].k = "primary"
    BY <1>1 DEF HostOK, RequestOK
  <1>4. req[n] \in Requests /\ ~req[n].err /\ req[n].m \in Members
    BY <1>1, EarlyRequest, RequestFacts DEF ChosenSteps
  <1>5. CASE AddIP(n, req[n].m, TRUE) /\ Continue(n, "mountFS", req[n])
    <2>1. pc'[n] = "mountFS" /\ req'[n] = req[n] /\ ctr' = ctr
      BY <1>5, Continued
    <2>2. localIP'[n] = localIP[n] \cup {req[n].m}
      BY <1>4, <1>5, HostTypes DEF AddIP
    <2>3. AttachedOnly(n, Kinds)
      BY <1>1, <1>2, AttachedBefore
    <2>4. DevicesOK(n)'
      BY <2>1, <2>3 DEF DevicesOK, AttachedOnly
    <2>5. KnownOK(n)'
      BY <2>1, <2>2 DEF KnownOK
    <2>6. ~Cached(n)'
      BY <1>1, <1>2, EarlyRequest DEF Cached
    <2>7. AddressOK(n)'
      BY <1>1, <1>3, <2>1, <2>2, <2>6, EarlyRequest DEF AddressOK
    <2> QED BY <1>1, <1>2, <1>3, <1>4, <2>1, <2>4, <2>5, <2>7, GoesOn
  <1>6. CASE MountFails(n) /\ UNCHANGED localIP
    BY <1>1, <1>2, <1>6, EarlyRequest, GivesUp
  <1>7. CASE MountFails(n) /\ AddIP(n, req[n].m, FALSE)
    <2>1. localIP'[n] = localIP[n] /\ req[n].m \in localIP[n]
      BY <1>4, <1>7, HostTypes DEF AddIP
    <2> QED BY <1>1, <1>2, <1>3, <1>7, <2>1, EarlyRequest, GivesUp
  <1> QED BY <1>5, <1>6, <1>7 DEF AddLocalIP

LEMMA EarlyHost ==
  ASSUME TypeInv, NEW n \in Nodes, HostOK(n),
         \/ ListTasks(n) \/ ListLocalIPs(n) \/ SelectMember(n)
         \/ CheckLastState(n) \/ DetachLastOwner(n) \/ WaitLastDetached(n)
         \/ GetLocalTask(n) \/ WriteOwner(n) \/ UpdateDNS(n) \/ WaitDNS(n)
         \/ GetInterface(n) \/ DropDanglingIP(n) \/ UnassignOldIP(n)
         \/ AssignLocalIP(n) \/ WriteIPRecord(n)
         \/ AttachVolumes(n) \/ UndoAttach(n) \/ WaitAttached(n) \/ AbortAttach(n)
         \/ FormatVolumes(n) \/ AddLocalIP(n)
  PROVE  HostOK(n)'
  BY ListHost, SelectHost, LastOwnerHost, OwnHost, DnsHost, InterfaceHost, AddressHost,
     AttachHost, AbortHost, WaitHost, FormatHost, AddIPHost

-----------------------------------------------------------------------------
(* Mount, with its file systems *)

LEMMA KindsFacts ==
  /\ "primary" \in Kinds
  /\ \A k \in Kinds : k = "primary" \/ (k = "journal" /\ HasJournal)
  /\ HasJournal => "journal" \in Kinds
  /\ ~HasJournal => Kinds = {"primary"}
  BY KindsAssumption DEF HasJournal

LEMMA MountPathFacts ==
  ASSUME TypeInv, NEW n \in Nodes, NEW k \in Kinds, NEW m, MountPath(n, k, m)
  PROVE  mnt'[n][k] = m /\ \A j \in Kinds \ {k} : mnt'[n][j] = mnt[n][j]
  BY HostTypes DEF MountPath

LEMMA UnmountPathFacts ==
  ASSUME TypeInv, NEW n \in Nodes, NEW k \in Kinds, UnmountPath(n, k)
  PROVE  mnt'[n][k] = None /\ \A j \in Kinds \ {k} : mnt'[n][j] = mnt[n][j]
  BY HostTypes DEF UnmountPath

LEMMA MountVolumesFailHost ==
  ASSUME TypeInv, NEW n \in Nodes, HostOK(n), pc[n] = "mountFS", MountFails(n),
         UNCHANGED <<cache, crashes>>,
         \/ DeleteIPAgain(n, req[n].m)
         \/ TryDeleteIP(n, req[n].m) /\ faults + 1 < MaxFaults
  PROVE  HostOK(n)'
  <1>1. pc[n] \in MountSteps
    BY DEF MountSteps
  <1>2. ~Cached(n)
    BY <1>1 DEF HostOK, RequestOK
  <1>3. /\ ~RequireStaticIP => localIP[n] = {}
        /\ MaxCrashes = 0 /\ MaxFaults < 2 => localIP[n] \subseteq {req[n].m}
    BY <1>2 DEF HostOK, AddressOK
  <1>4. ~RequireStaticIP => localIP'[n] = {}
    BY <1>3 DEF DeleteIPAgain, TryDeleteIP
  <1>5. MaxCrashes = 0 /\ MaxFaults < 2 => localIP'[n] = {}
    <2>1. faults + 1 < MaxFaults => ~(MaxFaults < 2)
      BY HostTypes
    <2>2. CASE DeleteIPAgain(n, req[n].m) /\ RequireStaticIP
      <3>1. localIP'[n] = localIP[n] \ {req[n].m}
        BY <2>2, HostTypes DEF DeleteIPAgain, DeleteIP
      <3> QED BY <1>3, <3>1
    <2> QED BY <1>4, <2>1, <2>2
  <1> QED BY <1>1, <1>4, <1>5, GivesUp

LEMMA MountVolumesHost ==
  ASSUME TypeInv, NEW n \in Nodes, HostOK(n), MountVolumes(n)
  PROVE  HostOK(n)'
  <1> DEFINE k == req[n].k
  <1>1. /\ pc[n] = "mountFS" /\ pc[n] \in MountSteps /\ pc[n] \notin UnmountSteps
        /\ pc[n] \in ChosenSteps
    BY DEF MountVolumes, MountSteps, UnmountSteps, ChosenSteps
  <1>2. /\ req[n] \in Requests /\ k \in Kinds /\ req[n].m \in Members /\ req[n].m # None
        /\ ctr[n].phase = "starting"
    BY <1>1, RequestFacts, NoneAssumption
  <1>3. ~Cached(n) /\ ~req[n].err
    BY <1>1 DEF HostOK, RequestOK, Halfway
  <1>4. UNCHANGED <<vol, cache, held, memFile, crashes>>
    BY DEF MountVolumes, ec2Vars
  <1>5. ASSUME NEW m \in DeviceOf(n, k), mnt[n][k] = None, MountPath(n, k, m),
               NextVolume(n, "mountFS", "config"), UNCHANGED localIP
        PROVE  HostOK(n)'
    <2>1. m = req[n].m
      BY <1>1, <1>2 DEF DeviceOf, HostOK, DevicesOK
    <2>2. mnt'[n][k] = req[n].m /\ \A j \in Kinds \ {k} : mnt'[n][j] = mnt[n][j]
      BY <1>2, <1>5, <2>1, MountPathFacts
    <2>3. ctr[n].refs # {} => /\ k = "primary" /\ HasJournal
                              /\ mnt[n]["journal"] # None
                              /\ ~Whole
      <3>1. ASSUME ctr[n].refs # {}
            PROVE  /\ k # "journal"
                   /\ \E j \in Kinds : mnt[n][j] # None
                   /\ Whole => \E x \in Members : mnt[n][k] = x
        BY <1>1, <1>2, <1>5, <3>1 DEF HostOK, ContainerOK
      <3> QED BY <1>2, <1>5, <3>1, KindsFacts, NoneAssumption
    <2>4. CASE HasJournal /\ k = "primary"
      <3> DEFINE r == [req[n] EXCEPT !.k = "journal"]
      <3>1. /\ pc'[n] = "mountFS" /\ req'[n] = r /\ ctr' = ctr
            /\ r.m = req[n].m /\ r.k = "journal" /\ ~r.err
        BY <1>2, <1>3, <1>5, <2>4, Continued DEF NextVolume, Requests
      <3> HIDE DEF r
      <3>2. RequestOK(n)'
        BY <1>1, <1>3, <1>4, <3>1 DEF RequestOK, PrimarySteps, Cached
      <3>3. DevicesOK(n)'
        BY <1>1, <1>4, <3>1 DEF HostOK, DevicesOK
      <3>4. MountsOK(n)'
        BY <1>3, <1>4, <2>2, <2>4, <3>1 DEF MountsOK, Cached
      <3>5. ContainerOK(n)'
        BY <1>2, <2>2, <2>3, <2>4, <3>1, KindsFacts DEF ContainerOK
      <3>6. ConnectionsOK(n)'
        BY <1>1, <1>3, <1>4, <3>1 DEF HostOK, ConnectionsOK, Cached
      <3>7. KnownOK(n)' /\ AddressOK(n)'
        BY <1>1, <1>3, <1>4, <1>5, <3>1 DEF HostOK, KnownOK, AddressOK, Cached
      <3> QED BY <3>2, <3>3, <3>4, <3>5, <3>6, <3>7 DEF HostOK
    <2>5. CASE ~(HasJournal /\ k = "primary")
      <3> DEFINE r == [req[n] EXCEPT !.k = "primary"]
      <3>1. /\ pc'[n] = "config" /\ req'[n] = r /\ ctr' = ctr
            /\ r.m = req[n].m /\ r.k = "primary" /\ ~r.err
        BY <1>2, <1>3, <1>5, <2>5, Continued DEF NextVolume, Requests
      <3> HIDE DEF r
      <3>2. RequestOK(n)'
        BY <1>1, <1>3, <1>4, <3>1 DEF RequestOK, PrimarySteps, Cached, UnmountSteps
      <3>3. DevicesOK(n)'
        BY <3>1 DEF DevicesOK
      <3>4. \A j \in Kinds : mnt'[n][j] = req[n].m
        <4>1. k = "journal" => mnt[n]["primary"] = req[n].m
          BY <1>1 DEF HostOK, MountsOK
        <4> QED BY <1>2, <2>2, <2>5, <4>1, KindsFacts
      <3>5. MountsOK(n)'
        BY <1>3, <1>4, <3>1, <3>4 DEF MountsOK, Cached
      <3>6. ContainerOK(n)'
        BY <1>2, <2>3, <2>5, <3>1 DEF ContainerOK
      <3>7. ConnectionsOK(n)'
        BY <1>1, <1>3, <1>4, <3>1 DEF HostOK, ConnectionsOK, Cached
      <3>8. KnownOK(n)' /\ AddressOK(n)'
        BY <1>1, <1>3, <1>4, <1>5, <3>1 DEF HostOK, KnownOK, AddressOK, Cached
      <3> QED BY <3>2, <3>3, <3>5, <3>6, <3>7, <3>8 DEF HostOK
    <2> QED BY <2>4, <2>5
  <1>6. CASE MountFails(n) /\ (\/ DeleteIPAgain(n, req[n].m)
                               \/ TryDeleteIP(n, req[n].m) /\ faults + 1 < MaxFaults)
    BY <1>1, <1>4, <1>6, MountVolumesFailHost
  <1>7. \/ \E m \in DeviceOf(n, k) :
             /\ mnt[n][k] = None /\ MountPath(n, k, m)
             /\ NextVolume(n, "mountFS", "config") /\ UNCHANGED localIP
        \/ MountFails(n) /\ (\/ DeleteIPAgain(n, req[n].m)
                             \/ TryDeleteIP(n, req[n].m) /\ faults + 1 < MaxFaults)
    BY Zenon DEF MountVolumes
  <1> QED BY <1>5, <1>6, <1>7

(* A Mount that caches its volume: docker has nothing else on it yet.       *)
LEMMA MountCaches ==
  ASSUME TypeInv, NEW n \in Nodes, HostOK(n), pc[n] \in {"config", "undoUmount"},
         MountSucceeds(n), addMountedVolume(n, req[n].m), UNCHANGED <<crashes, localIP>>,
         \A k \in Kinds : mnt'[n][k] \in {req[n].m, None},
         \E k \in Kinds : mnt'[n][k] # None,
         Whole => \A k \in Kinds : mnt'[n][k] = req[n].m,
         KnownOK(n)'
  PROVE  HostOK(n)'
  <1>1. pc[n] \in MountSteps /\ pc[n] \in ChosenSteps
    BY DEF MountSteps, ChosenSteps
  <1>2. ctr[n].phase = "starting" /\ req[n].m \in Members /\ req[n].name \in Kinds
    BY <1>1, RequestFacts
  <1>3. ctr[n].refs = {} /\ ~Cached(n)
    BY <1>1, <1>2 DEF HostOK, ContainerOK, RequestOK
  <1>4. /\ pc'[n] = "idle" /\ req'[n] = NoRequest
        /\ ctr'[n].phase = "starting" /\ ctr'[n].refs = {req[n].name}
    BY <1>2, <1>3, Succeeded
  <1>5. cache'[n] = [m |-> req[n].m, conns |-> 1]
    BY HostTypes DEF addMountedVolume
  <1>6. cache'[n].m = req[n].m /\ cache'[n].conns = 1 /\ Cached(n)'
    BY <1>5 DEF Cached
  <1>7. RequestOK(n)' /\ DevicesOK(n)'
    BY <1>4, NoRequestFacts DEF RequestOK, DevicesOK, MountSteps, UnmountSteps, PrimarySteps
  <1>9. MountsOK(n)'
    <2>1. Holding(n, cache[n].m)'
      BY <1>4, <1>6 DEF Holding, Halfway
    <2> QED BY <1>4, <2>1 DEF MountsOK
  <1>10. ContainerOK(n)'
    BY <1>2, <1>4 DEF ContainerOK
  <1>11. ConnectionsOK(n)'
    <2>1. Cardinality({req[n].name}) = 1
      BY FS_Singleton
    <2> QED BY <1>4, <1>6, <2>1 DEF ConnectionsOK
  <1>12. AddressOK(n)'
    <2>1. MaxCrashes = 0 /\ MaxFaults < 2 => localIP[n] \subseteq {req[n].m}
      BY <1>3 DEF HostOK, AddressOK
    <2> QED BY <1>4, <1>6, <2>1 DEF HostOK, AddressOK
  <1> QED BY <1>7, <1>9, <1>10, <1>11, <1>12 DEF HostOK

LEMMA ConfigHost ==
  ASSUME TypeInv, NEW n \in Nodes, HostOK(n), CreateConfig(n)
  PROVE  HostOK(n)'
  <1>1. /\ pc[n] = "config" /\ pc[n] \in MountSteps /\ pc[n] \in ChosenSteps
        /\ pc[n] \in PrimarySteps
    BY DEF CreateConfig, MountSteps, ChosenSteps, PrimarySteps
  <1>2. /\ req[n].m \in Members /\ req[n].m # None /\ ctr[n].phase = "starting"
        /\ req[n].k = "primary" /\ ~Cached(n) /\ ~req[n].err /\ ctr[n].refs = {}
        /\ \A k \in Kinds : mnt[n][k] = req[n].m
    <2>1. req[n].m \in Members /\ req[n].m # None /\ ctr[n].phase = "starting"
      BY <1>1, RequestFacts, NoneAssumption
    <2>2. req[n].k = "primary" /\ ~Cached(n) /\ ~req[n].err
      BY <1>1 DEF HostOK, RequestOK, Halfway
    <2> QED BY <1>1, <2>1, <2>2 DEF HostOK, ContainerOK, MountsOK
  <1>3. UNCHANGED <<vol, mnt, held, localIP, crashes>>
    BY DEF CreateConfig, ec2Vars, netVars
  <1>4. CASE /\ memFile' = [memFile EXCEPT ![n] = req[n].m]
             /\ addMountedVolume(n, req[n].m) /\ MountSucceeds(n)
    <2>1. memFile'[n] = req[n].m /\ cache'[n].m = req[n].m /\ pc'[n] = "idle"
      BY <1>4, HostTypes, Succeeded DEF addMountedVolume
    <2>2. KnownOK(n)'
      BY <1>1, <1>3, <2>1 DEF HostOK, KnownOK
    <2> QED BY <1>1, <1>2, <1>3, <1>4, <2>2, KindsFacts, MountCaches
  <1>5. CASE Fault /\ Continue(n, "undoUmount", req[n]) /\ UNCHANGED cache
    <2>1. pc'[n] = "undoUmount" /\ req'[n] = req[n] /\ ctr' = ctr
      BY <1>5, Continued
    <2>2. MaxFaults # 0
      BY <1>5, HostTypes DEF Fault
    <2>3. RequestOK(n)'
      BY <1>2, <1>5, <2>1, <2>2 DEF RequestOK, Cached, UnmountSteps, PrimarySteps
    <2>4. DevicesOK(n)' /\ KnownOK(n)'
      BY <2>1, <2>2 DEF DevicesOK, KnownOK
    <2>5. MountsOK(n)'
      <3>1. ~Cached(n)' /\ ~Halfway(n)' /\ ~req'[n].err
        BY <1>2, <1>5, <2>1 DEF Cached, Halfway
      <3>2. Holding(n, req[n].m)'
        BY <1>2, <1>3, <2>1, <3>1, KindsFacts DEF Holding
      <3> QED BY <2>1, <3>1, <3>2 DEF MountsOK
    <2>6. ContainerOK(n)' /\ ConnectionsOK(n)'
      BY <1>2, <1>5, <2>1 DEF ContainerOK, ConnectionsOK, Cached
    <2>7. AddressOK(n)'
      BY <1>1, <1>2, <1>3, <1>5, <2>1 DEF HostOK, AddressOK, Cached
    <2> QED BY <2>3, <2>4, <2>5, <2>6, <2>7 DEF HostOK
  <1> QED BY <1>4, <1>5 DEF CreateConfig

-----------------------------------------------------------------------------
(* What umountVolumes leaves, in Mount and in Unmount *)

(* The paths after one umount of a host that holds the volumes of m: an     *)
(* error stays remembered by a volume that is still mounted.                *)
LEMMA UmountLeaves ==
  ASSUME TypeInv, NEW n \in Nodes, HostOK(n), pc[n] \in {"umount", "undoUmount"},
         NEW m \in Members, Holding(n, m), NEW ok \in BOOLEAN, UmountOne(n, ok)
  PROVE  /\ \A k \in Kinds : mnt'[n][k] \in {m, None}
         /\ ~LastVolume(n) /\ ~ok => mnt'[n]["primary"] # None
         /\ LastVolume(n) /\ (req[n].err \/ ~ok) =>
              /\ \E k \in Kinds : mnt'[n][k] # None
              /\ Whole => \A k \in Kinds : mnt'[n][k] = m
         /\ ~ok => MaxFaults # 0
  <1> DEFINE k == req[n].k
  <1>1. k \in Kinds
    BY RequestFacts
  <1>2. \/ /\ ok
           /\ mnt'[n][k] = None /\ \A j \in Kinds \ {k} : mnt'[n][j] = mnt[n][j]
        \/ ~ok /\ mnt[n][k] # None /\ mnt'[n] = mnt[n] /\ MaxFaults # 0
    BY <1>1, UnmountPathFacts, HostTypes DEF UmountOne, Fault
  <1>3. \A j \in Kinds : mnt[n][j] \in {m, None}
    BY DEF Holding
  <1>4. Halfway(n) <=> k = "journal"
    BY DEF Halfway
  <1>5. /\ ~Halfway(n) /\ Whole => \A j \in Kinds : mnt[n][j] = m
        /\ Halfway(n) /\ req[n].err => mnt[n]["primary"] # None
        /\ req[n].err => Halfway(n) /\ MaxFaults # 0
    BY DEF Holding, HostOK, RequestOK
  <1>6. LastVolume(n) <=> (HasJournal => k = "journal")
    BY DEF LastVolume
  <1>7. k = "journal" /\ Whole => MaxFaults = 0
    BY <1>1 DEF Whole
  <1> HIDE DEF k
  <1>8. \A j \in Kinds : mnt'[n][j] \in {m, None}
    BY <1>2, <1>3
  <1>9. ~LastVolume(n) /\ ~ok => mnt'[n]["primary"] # None
    BY <1>1, <1>2, <1>6, KindsFacts
  <1>10. ASSUME LastVolume(n), req[n].err \/ ~ok
         PROVE  /\ \E j \in Kinds : mnt'[n][j] # None
                /\ Whole => \A j \in Kinds : mnt'[n][j] = m
    <2>1. \E j \in Kinds : mnt'[n][j] # None
      <3>1. CASE ~ok
        BY <1>1, <1>2, <3>1
      <3>2. CASE ok
        <4>1. req[n].err /\ k = "journal" /\ mnt[n]["primary"] # None
          BY <1>4, <1>5, <1>10, <3>2
        <4> QED BY <1>2, <3>2, <4>1, KindsFacts
      <3> QED BY <3>1, <3>2
    <2>2. ASSUME Whole PROVE \A j \in Kinds : mnt'[n][j] = m
      <3>1. ~Halfway(n) /\ ~ok
        BY <1>2, <1>4, <1>5, <1>7, <1>10, <2>2
      <3> QED BY <1>2, <1>5, <2>2, <3>1
    <2> QED BY <2>1, <2>2
  <1> QED BY <1>2, <1>8, <1>9, <1>10

LEMMA UndoUmountHost ==
  ASSUME TypeInv, NEW n \in Nodes, HostOK(n), UndoUmount(n)
  PROVE  HostOK(n)'
  <1>1. /\ pc[n] = "undoUmount" /\ pc[n] \in MountSteps /\ pc[n] \in ChosenSteps
        /\ {"undoUmount", "undoDetach"} \cap (UnmountSteps \cup PrimarySteps) = {}
    BY DEF UndoUmount, MountSteps, ChosenSteps, UnmountSteps, PrimarySteps
  <1>2. /\ req[n] \in Requests /\ req[n].m \in Members /\ ctr[n].phase = "starting"
        /\ req[n].k \in Kinds
    BY <1>1, RequestFacts
  <1>3. /\ ~Cached(n) /\ ctr[n].refs = {} /\ MaxFaults # 0
        /\ req[n].err => req[n].k = "journal"
        /\ Holding(n, req[n].m)
    BY <1>1, <1>2 DEF HostOK, RequestOK, ContainerOK, MountsOK, Halfway
  <1>4. UNCHANGED <<vol, held, memFile, localIP, crashes>>
    BY DEF UndoUmount, ec2Vars, netVars
  <1>5. PICK ok \in BOOLEAN :
          /\ UmountOne(n, ok)
          /\ \/ /\ ~LastVolume(n)
                /\ Continue(n, "undoUmount", [req[n] EXCEPT !.k = "journal",
                                                            !.err = req[n].err \/ ~ok])
                /\ UNCHANGED cache
             \/ /\ LastVolume(n) /\ ~(req[n].err \/ ~ok)
                /\ Continue(n, "undoDetach", [req[n] EXCEPT !.k = "primary"])
                /\ UNCHANGED cache
             \/ /\ LastVolume(n) /\ (req[n].err \/ ~ok)
                /\ addMountedVolume(n, req[n].m)
                /\ MountSucceeds(n)
    BY Zenon DEF UndoUmount
  <1>6. /\ \A k \in Kinds : mnt'[n][k] \in {req[n].m, None}
        /\ ~LastVolume(n) /\ ~ok => mnt'[n]["primary"] # None
        /\ LastVolume(n) /\ (req[n].err \/ ~ok) =>
             /\ \E k \in Kinds : mnt'[n][k] # None
             /\ Whole => \A k \in Kinds : mnt'[n][k] = req[n].m
    BY <1>1, <1>2, <1>3, <1>5, UmountLeaves
  <1>7. KnownOK(n)'
    BY <1>3 DEF KnownOK
  <1>8. CASE /\ ~LastVolume(n)
             /\ Continue(n, "undoUmount", [req[n] EXCEPT !.k = "journal", !.err = req[n].err \/ ~ok])
             /\ UNCHANGED cache
    <2> DEFINE r == [req[n] EXCEPT !.k = "journal", !.err = req[n].err \/ ~ok]
    <2>1. ~req[n].err
      BY <1>3, <1>8 DEF LastVolume
    <2>2. /\ pc'[n] = "undoUmount" /\ req'[n] = r /\ ctr' = ctr
          /\ r.m = req[n].m /\ r.k = "journal" /\ (r.err => ~ok)
      BY <1>2, <1>8, <2>1, Continued DEF Requests
    <2> HIDE DEF r
    <2>3. RequestOK(n)'
      BY <1>1, <1>3, <1>8, <2>2 DEF RequestOK, Halfway, Cached
    <2>4. DevicesOK(n)'
      BY <2>2 DEF DevicesOK
    <2>5. Halfway(n)'
      BY <2>2 DEF Halfway
    <2>6. Holding(n, req[n].m)'
      BY <1>6, <1>8, <2>2, <2>5 DEF Holding
    <2>7. MountsOK(n)'
      BY <1>3, <1>8, <2>2, <2>6 DEF MountsOK, Cached
    <2>8. ContainerOK(n)' /\ ConnectionsOK(n)'
      BY <1>2, <1>3, <1>8, <2>2 DEF ContainerOK, ConnectionsOK, Cached
    <2>9. AddressOK(n)'
      BY <1>1, <1>3, <1>4, <1>8, <2>2 DEF HostOK, AddressOK, Cached
    <2> QED BY <1>7, <2>3, <2>4, <2>7, <2>8, <2>9 DEF HostOK
  <1>9. CASE /\ LastVolume(n) /\ ~(req[n].err \/ ~ok)
             /\ Continue(n, "undoDetach", [req[n] EXCEPT !.k = "primary"])
             /\ UNCHANGED cache
    <2> DEFINE r == [req[n] EXCEPT !.k = "primary"]
    <2>2. /\ pc'[n] = "undoDetach" /\ req'[n] = r /\ ctr' = ctr
          /\ r.m = req[n].m /\ ~r.err
      BY <1>2, <1>9, Continued DEF Requests
    <2> HIDE DEF r
    <2>3. RequestOK(n)'
      BY <1>1, <1>3, <1>9, <2>2 DEF RequestOK, Cached
    <2>4. DevicesOK(n)'
      BY <2>2 DEF DevicesOK
    <2>7. MountsOK(n)'
      BY <1>3, <1>9, <2>2 DEF MountsOK, Cached
    <2>8. ContainerOK(n)' /\ ConnectionsOK(n)'
      BY <1>2, <1>3, <1>9, <2>2 DEF ContainerOK, ConnectionsOK, Cached
    <2>9. AddressOK(n)'
      BY <1>1, <1>3, <1>4, <1>9, <2>2 DEF HostOK, AddressOK, Cached
    <2> QED BY <1>7, <2>3, <2>4, <2>7, <2>8, <2>9 DEF HostOK
  <1>10. CASE /\ LastVolume(n) /\ (req[n].err \/ ~ok)
              /\ addMountedVolume(n, req[n].m) /\ MountSucceeds(n)
    BY <1>1, <1>4, <1>6, <1>7, <1>10, MountCaches
  <1> QED BY <1>5, <1>8, <1>9, <1>10

LEMMA UndoDetachHost ==
  ASSUME TypeInv, NEW n \in Nodes, HostOK(n), UndoDetach(n)
  PROVE  HostOK(n)'
  <1>1. /\ pc[n] = "undoDetach" /\ pc[n] \in MountSteps /\ pc[n] \in ChosenSteps
        /\ "undoDetach" \notin UnmountSteps \cup PrimarySteps
    BY DEF UndoDetach, MountSteps, ChosenSteps, UnmountSteps, PrimarySteps
  <1>2. req[n] \in Requests /\ ctr[n].phase = "starting"
    BY <1>1, RequestFacts
  <1>3. /\ ~Cached(n) /\ ctr[n].refs = {} /\ MaxFaults # 0 /\ ~req[n].err
        /\ ~RequireStaticIP => localIP[n] = {}
        /\ MaxCrashes = 0 /\ MaxFaults < 2 => localIP[n] \subseteq {req[n].m}
    <2>1. ~Cached(n) /\ ctr[n].refs = {} /\ MaxFaults # 0 /\ ~req[n].err
      BY <1>1, <1>2 DEF HostOK, RequestOK, ContainerOK, Halfway
    <2> QED BY <1>1, <2>1 DEF HostOK, AddressOK
  <1>4. UNCHANGED <<cache, mnt, held, memFile, crashes>>
    BY DEF UndoDetach, hostVars
  <1>5. CASE MountFails(n) /\ DeleteIPAgain(n, req[n].m)
    <2>1. ~RequireStaticIP => localIP'[n] = {}
      BY <1>3, <1>5 DEF DeleteIPAgain
    <2>2. RequireStaticIP => localIP'[n] = localIP[n] \ {req[n].m}
      BY <1>5, HostTypes DEF DeleteIPAgain, DeleteIP
    <2> QED BY <1>1, <1>3, <1>4, <1>5, <2>1, <2>2, GivesUp
  <1>6. CASE Continue(n, "undoDetach", [req[n] EXCEPT !.k = "journal"]) /\ UNCHANGED localIP
    <2> DEFINE r == [req[n] EXCEPT !.k = "journal"]
    <2>1. /\ pc'[n] = "undoDetach" /\ req'[n] = r /\ ctr' = ctr
          /\ r.m = req[n].m /\ ~r.err
      BY <1>2, <1>3, <1>6, Continued DEF Requests
    <2> HIDE DEF r
    <2>2. RequestOK(n)'
      BY <1>1, <1>3, <1>4, <2>1 DEF RequestOK, Cached
    <2>3. DevicesOK(n)' /\ KnownOK(n)'
      BY <1>3, <2>1 DEF DevicesOK, KnownOK
    <2>4. MountsOK(n)' /\ ContainerOK(n)' /\ ConnectionsOK(n)'
      BY <1>2, <1>3, <1>4, <2>1 DEF MountsOK, ContainerOK, ConnectionsOK, Cached
    <2>5. AddressOK(n)'
      BY <1>1, <1>3, <1>4, <1>6, <2>1 DEF AddressOK, Cached
    <2> QED BY <2>2, <2>3, <2>4, <2>5 DEF HostOK
  <1> QED BY <1>5, <1>6 DEF UndoDetach

LEMMA MountHost ==
  ASSUME TypeInv, NEW n \in Nodes, HostOK(n), MountStep(n)
  PROVE  HostOK(n)'
  BY EarlyHost, MountVolumesHost, ConfigHost, UndoUmountHost, UndoDetachHost DEF MountStep

-----------------------------------------------------------------------------
(* Unmount *)

LEMMA UnmountFacts ==
  ASSUME TypeInv, NEW n \in Nodes, HostOK(n), pc[n] \in UnmountSteps
  PROVE  /\ req[n] \in Requests /\ req[n].m \in Members
         /\ ctr[n].phase = "stopping" /\ ctr[n].refs = {req[n].name}
         /\ pc[n] # "detach" => /\ Cached(n) /\ cache[n].m = req[n].m /\ cache[n].conns = 1
                                /\ Holding(n, req[n].m)
         /\ pc[n] \notin MountSteps /\ pc[n] # "idle"
         /\ ~Halfway(n) => ~req[n].err
  <1>1. pc[n] \notin MountSteps /\ pc[n] # "idle"
    BY DEF UnmountSteps, MountSteps
  <1> QED BY <1>1, RequestFacts DEF HostOK, RequestOK, MountsOK

(* Unmount returns with an error: the volume stays cached, unused.          *)
LEMMA UnmountGivesUp ==
  ASSUME TypeInv, NEW n \in Nodes, HostOK(n), pc[n] \in UnmountSteps, pc[n] # "detach",
         UnmountDone(n), UNCHANGED <<cache, crashes, localIP>>, MaxFaults # 0,
         \A k \in Kinds : mnt'[n][k] \in {req[n].m, None},
         \E k \in Kinds : mnt'[n][k] # None,
         Whole => \A k \in Kinds : mnt'[n][k] = req[n].m
  PROVE  HostOK(n)'
  <1>1. /\ pc'[n] = "idle" /\ req'[n] = NoRequest
        /\ ctr'[n].phase = "stopping" /\ ctr'[n].refs = {}
    BY UnmountFacts, Done
  <1>2. Cached(n) /\ Cached(n)' /\ cache'[n].m = req[n].m /\ cache'[n].conns = 1
    BY UnmountFacts DEF Cached
  <1>3. RequestOK(n)' /\ DevicesOK(n)' /\ KnownOK(n)'
    BY <1>1, NoRequestFacts DEF RequestOK, DevicesOK, KnownOK, MountSteps, UnmountSteps, PrimarySteps
  <1>4. MountsOK(n)'
    <2>1. Holding(n, cache[n].m)'
      BY <1>1, <1>2 DEF Holding, Halfway
    <2> QED BY <1>1, <2>1 DEF MountsOK
  <1>5. ContainerOK(n)'
    BY <1>1 DEF ContainerOK
  <1>6. ConnectionsOK(n)'
    <2>1. Cardinality({}) = 0
      BY FS_EmptySet
    <2> QED BY <1>1, <1>2, <2>1 DEF ConnectionsOK
  <1>7. AddressOK(n)'
    BY <1>1, <1>2 DEF HostOK, AddressOK, Cached
  <1> QED BY <1>3, <1>4, <1>5, <1>6, <1>7 DEF HostOK

LEMMA UnmountStartHost ==
  ASSUME TypeInv, NEW n \in Nodes, HostOK(n), UnmountDeleteIP(n) \/ DeleteMemberFile(n)
  PROVE  HostOK(n)'
  <1>1. /\ pc[n] \in {"delIP", "memberFile"} /\ pc[n] \in UnmountSteps /\ pc[n] \in PrimarySteps
        /\ {"memberFile", "umount"} \subseteq UnmountSteps \ MountSteps
        /\ "umount" \notin PrimarySteps /\ pc[n] # "detach"
    BY DEF UnmountDeleteIP, DeleteMemberFile, UnmountSteps, PrimarySteps, MountSteps
  <1>2. ~Halfway(n) /\ ~req[n].err /\ req[n].k = "primary"
    BY <1>1, UnmountFacts DEF Halfway, HostOK, RequestOK
  <1>3. /\ req[n] \in Requests /\ req[n].m \in Members
        /\ ctr[n].phase = "stopping" /\ ctr[n].refs = {req[n].name}
        /\ Cached(n) /\ cache[n].m = req[n].m /\ cache[n].conns = 1 /\ Holding(n, req[n].m)
    BY <1>1, UnmountFacts
  <1>4. UNCHANGED <<vol, cache, mnt, held, crashes>>
    BY DEF UnmountDeleteIP, DeleteMemberFile, ec2Vars, hostVars
  <1>5. /\ \A k \in Kinds : mnt'[n][k] \in {req[n].m, None}
        /\ \E k \in Kinds : mnt'[n][k] # None
        /\ Whole => \A k \in Kinds : mnt'[n][k] = req[n].m
    BY <1>2, <1>3, <1>4 DEF Holding
  <1>6. CASE Fault /\ UnmountDone(n) /\ UNCHANGED localIP
    <2>1. MaxFaults # 0
      BY <1>6, HostTypes DEF Fault
    <2> QED BY <1>1, <1>4, <1>5, <1>6, <2>1, UnmountGivesUp
  <1>7. ASSUME NEW step \in {"memberFile", "umount"}, Continue(n, step, req[n]),
               localIP'[n] \subseteq localIP[n], MaxCrashes = 0 /\ MaxFaults < 2 => localIP'[n] = {}
        PROVE  HostOK(n)'
    <2>1. pc'[n] = step /\ req'[n] = req[n] /\ ctr' = ctr
      BY <1>7, Continued
    <2>2. RequestOK(n)'
      BY <1>1, <1>2, <1>3, <1>4, <2>1 DEF RequestOK, Cached
    <2>3. DevicesOK(n)' /\ KnownOK(n)'
      BY <2>1 DEF DevicesOK, KnownOK
    <2>4. ~Halfway(n)' /\ ~req'[n].err
      BY <1>2, <2>1 DEF Halfway
    <2>5. Holding(n, cache[n].m)'
      BY <1>3, <1>4, <1>5, <2>4 DEF Holding
    <2>6. MountsOK(n)'
      BY <2>1, <2>5 DEF MountsOK
    <2>7. ContainerOK(n)' /\ ConnectionsOK(n)'
      BY <1>3, <1>4, <2>1, FS_Singleton DEF ContainerOK, ConnectionsOK, HostOK, Cached
    <2>8. AddressOK(n)'
      BY <1>3, <1>4, <1>7, <2>1 DEF HostOK, AddressOK, Cached
    <2> QED BY <2>2, <2>3, <2>6, <2>7, <2>8 DEF HostOK
  <1>8. CASE UnmountDeleteIP(n) /\ DeleteIP(n, req[n].m) /\ Continue(n, "memberFile", req[n])
    <2>1. localIP'[n] = localIP[n] \ {req[n].m}
      BY <1>8, HostTypes DEF DeleteIP
    <2>2. MaxCrashes = 0 /\ MaxFaults < 2 => localIP[n] \subseteq {req[n].m}
      BY <1>3 DEF HostOK, AddressOK
    <2> QED BY <1>7, <1>8, <2>1, <2>2
  <1>9. CASE DeleteMemberFile(n) /\ Continue(n, "umount", req[n])
    <2>1. UNCHANGED localIP /\ pc[n] = "memberFile"
      BY <1>9 DEF DeleteMemberFile, netVars
    <2> QED BY <1>7, <1>9, <2>1 DEF HostOK, AddressOK
  <1> QED BY <1>6, <1>8, <1>9 DEF UnmountDeleteIP, DeleteMemberFile, netVars

LEMMA UmountHost ==
  ASSUME TypeInv, NEW n \in Nodes, HostOK(n), UmountVolumes(n)
  PROVE  HostOK(n)'
  <1>1. /\ pc[n] = "umount" /\ pc[n] \in UnmountSteps /\ pc[n] \notin MountSteps
        /\ {"umount", "detach"} \cap (MountSteps \cup PrimarySteps) = {}
        /\ {"umount", "detach"} \subseteq UnmountSteps
    BY DEF UmountVolumes, UnmountSteps, MountSteps, PrimarySteps
  <1>2. /\ req[n] \in Requests /\ req[n].m \in Members
        /\ ctr[n].phase = "stopping" /\ ctr[n].refs = {req[n].name}
        /\ Cached(n) /\ cache[n].m = req[n].m /\ cache[n].conns = 1 /\ Holding(n, req[n].m)
        /\ req[n].err => req[n].k = "journal" /\ MaxFaults # 0
    <2>1. req[n].err => req[n].k = "journal" /\ MaxFaults # 0
      BY DEF HostOK, RequestOK, Halfway
    <2> QED BY <1>1, <2>1, UnmountFacts
  <1>3. UNCHANGED <<vol, held, memFile, localIP, crashes>>
    BY DEF UmountVolumes, ec2Vars, netVars
  <1>4. PICK ok \in BOOLEAN :
          /\ UmountOne(n, ok)
          /\ \/ /\ ~LastVolume(n)
                /\ Continue(n, "umount", [req[n] EXCEPT !.k = "journal", !.err = req[n].err \/ ~ok])
                /\ UNCHANGED cache
             \/ /\ LastVolume(n) /\ ~(req[n].err \/ ~ok)
                /\ deleteVolume(n)
                /\ Continue(n, "detach", [req[n] EXCEPT !.k = "primary"])
             \/ /\ LastVolume(n) /\ (req[n].err \/ ~ok)
                /\ UnmountDone(n)
                /\ UNCHANGED cache
    BY Zenon DEF UmountVolumes
  <1>5. /\ \A k \in Kinds : mnt'[n][k] \in {req[n].m, None}
        /\ ~LastVolume(n) /\ ~ok => mnt'[n]["primary"] # None
        /\ LastVolume(n) /\ (req[n].err \/ ~ok) =>
             /\ \E k \in Kinds : mnt'[n][k] # None
             /\ Whole => \A k \in Kinds : mnt'[n][k] = req[n].m
        /\ ~ok => MaxFaults # 0
    BY <1>1, <1>2, <1>4, UmountLeaves
  <1>6. MaxCrashes = 0 /\ MaxFaults < 2 => localIP[n] = {}
    BY <1>1 DEF HostOK, AddressOK
  <1>7. CASE /\ ~LastVolume(n)
             /\ Continue(n, "umount", [req[n] EXCEPT !.k = "journal", !.err = req[n].err \/ ~ok])
             /\ UNCHANGED cache
    <2> DEFINE r == [req[n] EXCEPT !.k = "journal", !.err = req[n].err \/ ~ok]
    <2>1. ~req[n].err
      BY <1>2, <1>7 DEF LastVolume
    <2>2. /\ pc'[n] = "umount" /\ req'[n] = r /\ ctr' = ctr
          /\ r.m = req[n].m /\ r.k = "journal" /\ (r.err => ~ok) /\ r.name = req[n].name
      BY <1>2, <1>7, <2>1, Continued DEF Requests
    <2> HIDE DEF r
    <2>3. RequestOK(n)'
      BY <1>1, <1>2, <1>5, <1>7, <2>2 DEF RequestOK, Halfway, Cached
    <2>4. DevicesOK(n)' /\ KnownOK(n)'
      BY <2>2 DEF DevicesOK, KnownOK
    <2>5. Halfway(n)'
      BY <2>2 DEF Halfway
    <2>6. Holding(n, cache[n].m)'
      BY <1>2, <1>5, <1>7, <2>2, <2>5 DEF Holding
    <2>7. MountsOK(n)'
      BY <2>2, <2>6 DEF MountsOK
    <2>8. ContainerOK(n)' /\ ConnectionsOK(n)'
      BY <1>2, <1>3, <1>7, <2>2 DEF HostOK, ContainerOK, ConnectionsOK, Cached
    <2>9. AddressOK(n)'
      BY <1>2, <1>3, <1>6, <1>7, <2>2 DEF HostOK, AddressOK, Cached
    <2> QED BY <2>3, <2>4, <2>7, <2>8, <2>9 DEF HostOK
  <1>8. CASE /\ LastVolume(n) /\ ~(req[n].err \/ ~ok) /\ deleteVolume(n)
             /\ Continue(n, "detach", [req[n] EXCEPT !.k = "primary"])
    <2> DEFINE r == [req[n] EXCEPT !.k = "primary"]
    <2>1. /\ pc'[n] = "detach" /\ req'[n] = r /\ ctr' = ctr /\ r.name = req[n].name /\ ~r.err
      BY <1>2, <1>8, Continued DEF Requests
    <2> HIDE DEF r
    <2>2. ~Cached(n)'
      BY <1>8, HostTypes DEF deleteVolume, Cached, NotCached
    <2>3. RequestOK(n)'
      BY <1>1, <1>2, <2>1, <2>2 DEF RequestOK
    <2>4. DevicesOK(n)' /\ KnownOK(n)' /\ MountsOK(n)'
      BY <2>1, <2>2 DEF DevicesOK, KnownOK, MountsOK
    <2>5. ContainerOK(n)' /\ ConnectionsOK(n)'
      BY <1>2, <2>1, <2>2 DEF ContainerOK, ConnectionsOK
    <2>6. AddressOK(n)'
      BY <1>3, <1>6, <2>1, <2>2 DEF HostOK, AddressOK
    <2> QED BY <2>3, <2>4, <2>5, <2>6 DEF HostOK
  <1>9. CASE /\ LastVolume(n) /\ (req[n].err \/ ~ok) /\ UnmountDone(n) /\ UNCHANGED cache
    <2>1. MaxFaults # 0 /\ pc[n] # "detach"
      BY <1>1, <1>2, <1>5, <1>9
    <2> QED BY <1>1, <1>3, <1>5, <1>9, <2>1, UnmountGivesUp
  <1> QED BY <1>4, <1>7, <1>8, <1>9

LEMMA DetachHost ==
  ASSUME TypeInv, NEW n \in Nodes, HostOK(n), DetachVolumes(n)
  PROVE  HostOK(n)'
  <1>1. /\ pc[n] = "detach" /\ pc[n] \in UnmountSteps
        /\ "detach" \notin MountSteps \cup PrimarySteps /\ "detach" \in UnmountSteps
    BY DEF DetachVolumes, UnmountSteps, MountSteps, PrimarySteps
  <1>2. /\ req[n] \in Requests /\ ctr[n].phase = "stopping" /\ ctr[n].refs = {req[n].name}
        /\ ~req[n].err
    BY <1>1, UnmountFacts DEF Halfway
  <1>3. ~Cached(n)
    BY <1>1 DEF HostOK, RequestOK
  <1>4. UNCHANGED <<cache, mnt, held, memFile, localIP, crashes>>
    BY DEF DetachVolumes, hostVars, netVars
  <1>5. ~Cached(n)'
    BY <1>3, <1>4 DEF Cached
  <1>6. CASE UnmountDone(n)
    <2>1. /\ pc'[n] = "idle" /\ req'[n] = NoRequest
          /\ ctr'[n].phase = "stopping" /\ ctr'[n].refs = {}
      BY <1>2, <1>6, Done
    <2>2. RequestOK(n)'
      BY <2>1, NoRequestFacts DEF RequestOK, MountSteps, UnmountSteps, PrimarySteps
    <2>3. DevicesOK(n)' /\ KnownOK(n)' /\ MountsOK(n)' /\ ContainerOK(n)' /\ ConnectionsOK(n)'
      BY <1>5, <2>1 DEF DevicesOK, KnownOK, MountsOK, ContainerOK, ConnectionsOK
    <2>4. AddressOK(n)'
      BY <1>1, <1>3, <1>4, <1>5, <2>1 DEF HostOK, AddressOK
    <2> QED BY <2>2, <2>3, <2>4 DEF HostOK
  <1>7. CASE Continue(n, "detach", [req[n] EXCEPT !.k = "journal"])
    <2> DEFINE r == [req[n] EXCEPT !.k = "journal"]
    <2>1. /\ pc'[n] = "detach" /\ req'[n] = r /\ ctr' = ctr /\ r.name = req[n].name /\ ~r.err
      BY <1>2, <1>7, Continued DEF Requests
    <2> HIDE DEF r
    <2>2. RequestOK(n)'
      BY <1>1, <1>2, <1>5, <2>1 DEF RequestOK
    <2>3. DevicesOK(n)' /\ KnownOK(n)' /\ MountsOK(n)' /\ ContainerOK(n)' /\ ConnectionsOK(n)'
      BY <1>2, <1>5, <2>1 DEF DevicesOK, KnownOK, MountsOK, ContainerOK, ConnectionsOK
    <2>4. AddressOK(n)'
      BY <1>1, <1>3, <1>4, <1>5, <2>1 DEF HostOK, AddressOK
    <2> QED BY <2>2, <2>3, <2>4 DEF HostOK
  <1> QED BY <1>6, <1>7 DEF DetachVolumes

LEMMA UnmountHost ==
  ASSUME TypeInv, NEW n \in Nodes, HostOK(n), UnmountStep(n)
  PROVE  HostOK(n)'
  BY UnmountStartHost, UmountHost, DetachHost DEF UnmountStep

-----------------------------------------------------------------------------
(* Docker and restarts *)

LEMMA IdleFacts ==
  ASSUME TypeInv, NEW n \in Nodes, HostOK(n), pc[n] = "idle"
  PROVE  /\ pc[n] \notin MountSteps \cup UnmountSteps \cup PrimarySteps
         /\ ~Halfway(n) /\ ~req[n].err
         /\ crashes = 0 /\ ctr[n].refs # {} => Cached(n)
         /\ Cached(n) => /\ Holding(n, cache[n].m) /\ cache[n].m \in Members /\ cache[n].conns \in Nat
                         /\ cache[n].m # None
  <1>1. pc[n] \notin MountSteps \cup UnmountSteps \cup PrimarySteps
    BY DEF MountSteps, UnmountSteps, PrimarySteps
  <1>2. ~Halfway(n) /\ ~req[n].err
    BY DEF Halfway, HostOK, RequestOK
  <1>3. Cached(n) => cache[n].m \in Members /\ cache[n].conns \in Nat
    BY HostTypes DEF Cached, CacheEntries, NotCached
  <1>4. Cached(n) => cache[n].m # None
    BY <1>3, NoneAssumption
  <1> QED BY <1>1, <1>2, <1>3, <1>4 DEF HostOK, MountsOK, ConnectionsOK

LEMMA RefsFacts ==
  ASSUME TypeInv, NEW n \in Nodes, NEW k \in Kinds
  PROVE  /\ Cardinality(ctr[n].refs) \in Nat
         /\ k \notin ctr[n].refs =>
              Cardinality(ctr[n].refs \cup {k}) = Cardinality(ctr[n].refs) + 1
         /\ k \in ctr[n].refs =>
              /\ Cardinality(ctr[n].refs) >= 1
              /\ Cardinality(ctr[n].refs \ {k}) = Cardinality(ctr[n].refs) - 1
              /\ Cardinality(ctr[n].refs) = 1 => ctr[n].refs = {k}
  <1>1. ctr[n].refs \subseteq Kinds
    BY FlowTypes DEF Containers
  <1>2. IsFiniteSet(Kinds)
    <2>1. IsFiniteSet({"primary", "journal"})
      <3>1. IsFiniteSet({"journal"})
        BY FS_Singleton
      <3> QED BY <3>1, FS_AddElement
    <2> QED BY <2>1, KindsAssumption, FS_Subset
  <1>3. IsFiniteSet(ctr[n].refs)
    BY <1>1, <1>2, FS_Subset
  <1>4. Cardinality(ctr[n].refs) \in Nat
    BY <1>3, FS_CardinalityType
  <1>5. k \notin ctr[n].refs => Cardinality(ctr[n].refs \cup {k}) = Cardinality(ctr[n].refs) + 1
    BY <1>3, FS_AddElement
  <1>6. k \in ctr[n].refs => Cardinality(ctr[n].refs \ {k}) = Cardinality(ctr[n].refs) - 1
    BY <1>3, FS_RemoveElement
  <1>7. ASSUME k \in ctr[n].refs, Cardinality(ctr[n].refs) = 1
        PROVE  ctr[n].refs = {k}
    <2>1. Cardinality(ctr[n].refs \ {k}) = 0
      BY <1>6, <1>7
    <2>2. IsFiniteSet(ctr[n].refs \ {k})
      BY <1>3, FS_Subset
    <2>3. ctr[n].refs \ {k} = {}
      BY <2>1, <2>2, FS_EmptySet
    <2> QED BY <1>7, <2>3
  <1>8. k \in ctr[n].refs => Cardinality(ctr[n].refs) >= 1
    <2>1. IsFiniteSet(ctr[n].refs \ {k})
      BY <1>3, FS_Subset
    <2>2. Cardinality(ctr[n].refs \ {k}) \in Nat
      BY <2>1, FS_CardinalityType
    <2> QED BY <1>4, <1>6, <2>2
  <1> QED BY <1>4, <1>5, <1>6, <1>7, <1>8

(* A step of docker while the driver is idle: what it may change.           *)
LEMMA MountRequestHost ==
  ASSUME TypeInv, NEW n \in Nodes, HostOK(n), NEW k \in Kinds, MountRequest(n, k)
  PROVE  HostOK(n)'
  <1>1. /\ pc[n] = "idle" /\ ctr[n].phase = "starting" /\ k \notin ctr[n].refs
        /\ UNCHANGED <<vol, mnt, held, memFile, localIP, crashes>>
    BY DEF MountRequest, ec2Vars, netVars
  <1>2. CASE Cached(n) /\ getMountedVolumeAndIncRef(n) /\ MountReturns(n, k, TRUE) /\ UNCHANGED <<pc, req>>
    <2>1. /\ cache'[n].m = cache[n].m /\ cache'[n].conns = cache[n].conns + 1
          /\ ctr'[n].phase = "starting" /\ ctr'[n].refs = ctr[n].refs \cup {k}
      BY <1>1, <1>2, HostTypes, FlowTypes
      DEF getMountedVolumeAndIncRef, MountReturns, CacheEntries, NotCached, Containers
    <2>2. /\ Holding(n, cache[n].m) /\ cache[n].m \in Members /\ cache[n].conns \in Nat
          /\ ~Halfway(n) /\ ~req[n].err /\ cache[n].m # None
          /\ pc[n] \notin MountSteps \cup UnmountSteps \cup PrimarySteps
      BY <1>1, <1>2, IdleFacts
    <2>3. Cached(n)'
      BY <2>1, <2>2 DEF Cached
    <2>4. RequestOK(n)' /\ DevicesOK(n)'
      BY <1>1, <1>2, <2>2 DEF RequestOK, DevicesOK
    <2>5. Holding(n, cache[n].m)'
      BY <1>1, <1>2, <2>1, <2>2 DEF Holding, Halfway
    <2>6. MountsOK(n)'
      BY <1>1, <1>2, <2>5 DEF MountsOK
    <2>7. ContainerOK(n)'
      <3>1. /\ \E j \in Kinds : mnt[n][j] # None
            /\ Whole => \E m \in Members : \A j \in Kinds : mnt[n][j] = m
        BY <2>2 DEF Holding
      <3> QED BY <1>1, <1>2, <2>1, <3>1 DEF ContainerOK
    <2>8. ConnectionsOK(n)'
      BY <1>1, <1>2, <2>1, <2>2, <2>3, RefsFacts DEF HostOK, ConnectionsOK
    <2>9. KnownOK(n)' /\ AddressOK(n)'
      BY <1>1, <1>2, <2>1, <2>3 DEF HostOK, KnownOK, AddressOK
    <2> QED BY <2>4, <2>6, <2>7, <2>8, <2>9 DEF HostOK
  <1>3. CASE /\ ~Cached(n) /\ UNCHANGED cache
             /\ Continue(n, IF NamedMembers THEN "select" ELSE "list", [NoRequest EXCEPT !.name = k])
    <2>1. /\ pc'[n] \in {"select", "list"} /\ ~req'[n].err /\ ctr' = ctr
      BY <1>3, Continued DEF NoRequest
    <2>2. ~Cached(n)' /\ pc'[n] \notin UnmountSteps \cup PrimarySteps
      BY <1>3, <2>1 DEF Cached, UnmountSteps, PrimarySteps
    <2>3. RequestOK(n)' /\ DevicesOK(n)' /\ MountsOK(n)' /\ KnownOK(n)'
      BY <2>1, <2>2 DEF RequestOK, DevicesOK, MountsOK, KnownOK
    <2>4. ContainerOK(n)' /\ ConnectionsOK(n)'
      BY <1>1, <1>3, <2>1, <2>2, IdleFacts DEF HostOK, ContainerOK, ConnectionsOK
    <2>5. AddressOK(n)'
      BY <1>1, <1>3, <2>1, <2>2 DEF HostOK, AddressOK
    <2> QED BY <2>3, <2>4, <2>5 DEF HostOK
  <1> QED BY <1>2, <1>3 DEF MountRequest

LEMMA UnmountRequestHost ==
  ASSUME TypeInv, NEW n \in Nodes, HostOK(n), NEW k \in Kinds, UnmountRequest(n, k)
  PROVE  HostOK(n)'
  <1>1. /\ pc[n] = "idle" /\ ctr[n].phase = "stopping" /\ k \in ctr[n].refs
        /\ UNCHANGED <<vol, held, memFile, localIP, crashes>>
    BY DEF UnmountRequest, ec2Vars, netVars
  <1>2. /\ pc[n] \notin MountSteps \cup UnmountSteps \cup PrimarySteps
        /\ ~Halfway(n) /\ ~req[n].err
    BY <1>1, IdleFacts
  <1>3. UnmountReturns(n, k) => ctr'[n].phase = "stopping" /\ ctr'[n].refs = ctr[n].refs \ {k}
    BY <1>1, FlowTypes DEF UnmountReturns, Containers
  <1>4. CASE ~Cached(n) /\ UnmountReturns(n, k) /\ UNCHANGED <<pc, req, cache>>
    <2>1. ~Cached(n)'
      BY <1>4 DEF Cached
    <2>2. RequestOK(n)' /\ DevicesOK(n)' /\ MountsOK(n)' /\ KnownOK(n)' /\ ContainerOK(n)'
      BY <1>1, <1>2, <1>3, <1>4, <2>1 DEF RequestOK, DevicesOK, MountsOK, KnownOK, ContainerOK
    <2>3. ConnectionsOK(n)' /\ AddressOK(n)'
      BY <1>1, <1>3, <1>4, <2>1, IdleFacts DEF HostOK, ConnectionsOK, AddressOK
    <2> QED BY <2>2, <2>3 DEF HostOK
  <1>5. CASE /\ cache[n].conns > 1 /\ cache' = [cache EXCEPT ![n].conns = @ - 1]
             /\ UnmountReturns(n, k) /\ UNCHANGED <<pc, req, mnt>>
    <2>1. Cached(n) /\ cache[n].conns \in Nat /\ Holding(n, cache[n].m)
      <3>1. Cached(n)
        BY <1>5, HostTypes DEF Cached, CacheEntries, NotCached
      <3> QED BY <1>1, <3>1, IdleFacts
    <2>2. cache'[n].m = cache[n].m /\ cache'[n].conns = cache[n].conns - 1
      BY <1>5, HostTypes DEF CacheEntries, NotCached
    <2>3. Cached(n)'
      BY <1>5, <2>1, <2>2 DEF Cached
    <2>4. RequestOK(n)' /\ DevicesOK(n)' /\ ContainerOK(n)'
      BY <1>1, <1>2, <1>3, <1>5 DEF RequestOK, DevicesOK, ContainerOK
    <2>5. Holding(n, cache[n].m)'
      BY <1>2, <1>5, <2>1, <2>2 DEF Holding, Halfway
    <2>6. MountsOK(n)'
      BY <1>1, <1>5, <2>5 DEF MountsOK
    <2>7. ConnectionsOK(n)'
      <3>1. Cardinality(ctr[n].refs) <= cache[n].conns
        BY <2>1 DEF HostOK, ConnectionsOK
      <3>2. /\ Cardinality(ctr[n].refs) \in Nat
            /\ Cardinality(ctr[n].refs \ {k}) = Cardinality(ctr[n].refs) - 1
        BY <1>1, RefsFacts
      <3>3. Cardinality(ctr[n].refs \ {k}) <= cache[n].conns - 1
        BY <2>1, <3>1, <3>2
      <3> QED BY <1>3, <1>5, <2>2, <2>3, <3>3 DEF ConnectionsOK
    <2>8. KnownOK(n)' /\ AddressOK(n)'
      BY <1>1, <1>5, <2>1, <2>2, <2>3 DEF HostOK, KnownOK, AddressOK
    <2> QED BY <2>4, <2>6, <2>7, <2>8 DEF HostOK
  <1>6. CASE /\ cache[n].conns = 1 /\ UNCHANGED <<cache, mnt>>
             /\ Continue(n, IF RequireStaticIP THEN "delIP" ELSE "memberFile",
                            [NoRequest EXCEPT !.name = k, !.m = cache[n].m])
    <2>1. Cached(n) /\ Cached(n)' /\ Holding(n, cache[n].m)
      <3>1. Cached(n) /\ Cached(n)'
        BY <1>6 DEF Cached
      <3> QED BY <1>1, <3>1, IdleFacts
    <2>2. ctr[n].refs = {k}
      <3>1. Cardinality(ctr[n].refs) <= 1
        BY <1>6, <2>1 DEF HostOK, ConnectionsOK
      <3>2. /\ Cardinality(ctr[n].refs) \in Nat /\ Cardinality(ctr[n].refs) >= 1
            /\ Cardinality(ctr[n].refs) = 1 => ctr[n].refs = {k}
        BY <1>1, RefsFacts
      <3> QED BY <3>1, <3>2
    <2>3. /\ pc'[n] = IF RequireStaticIP THEN "delIP" ELSE "memberFile"
          /\ req'[n].k = "primary" /\ ~req'[n].err /\ req'[n].name = k /\ req'[n].m = cache[n].m
          /\ ctr' = ctr
      <3> DEFINE r == [NoRequest EXCEPT !.name = k, !.m = cache[n].m]
      <3>1. r.k = "primary" /\ ~r.err /\ r.name = k /\ r.m = cache[n].m
        BY DEF NoRequest
      <3> HIDE DEF r
      <3>2. /\ pc'[n] = IF RequireStaticIP THEN "delIP" ELSE "memberFile"
            /\ req'[n] = r /\ ctr' = ctr
        BY <1>6, Continued DEF r
      <3> QED BY <3>1, <3>2
    <2>4. /\ pc'[n] \notin MountSteps /\ pc'[n] \in UnmountSteps /\ ~Halfway(n)'
          /\ pc'[n] \in {"delIP", "memberFile"} /\ (pc'[n] = "delIP" <=> RequireStaticIP)
      BY <2>3 DEF MountSteps, UnmountSteps, Halfway
    <2>5. RequestOK(n)'
      BY <1>1, <1>6, <2>1, <2>2, <2>3, <2>4 DEF RequestOK
    <2>6. DevicesOK(n)' /\ KnownOK(n)'
      BY <2>4 DEF DevicesOK, KnownOK
    <2>7. Holding(n, cache[n].m)'
      BY <1>2, <1>6, <2>1, <2>4 DEF Holding
    <2>8. MountsOK(n)'
      BY <2>4, <2>7 DEF MountsOK
    <2>9. ContainerOK(n)' /\ ConnectionsOK(n)'
      BY <1>1, <1>6, <2>1, <2>3 DEF HostOK, ContainerOK, ConnectionsOK
    <2>10. AddressOK(n)'
      BY <1>1, <1>6, <2>1, <2>4 DEF HostOK, AddressOK
    <2> QED BY <2>5, <2>6, <2>8, <2>9, <2>10 DEF HostOK
  <1> QED BY <1>4, <1>5, <1>6, Zenon DEF UnmountRequest

LEMMA ContainerHost ==
  ASSUME TypeInv, NEW n \in Nodes, HostOK(n),
         ContainerStarts(n) \/ ContainerExits(n) \/ ContainerRemoved(n)
  PROVE  HostOK(n)'
  <1>1. UNCHANGED <<vol, pc, req, cache, mnt, memFile, localIP, crashes>>
    BY DEF ContainerStarts, ContainerExits, ContainerRemoved, driverVars, ec2Vars, netVars
  <1>2. pc[n] = "idle"
    BY DEF ContainerStarts, ContainerExits, ContainerRemoved, SetPhase, HostOK, ContainerOK
  <1>3. /\ pc[n] \notin MountSteps \cup UnmountSteps \cup PrimarySteps
        /\ ~Halfway(n) /\ ~req[n].err
        /\ Cached(n) => Holding(n, cache[n].m)
    BY <1>2, IdleFacts
  <1>4. RequestOK(n)' /\ DevicesOK(n)' /\ KnownOK(n)' /\ AddressOK(n)'
    BY <1>1, <1>2, <1>3 DEF HostOK, RequestOK, DevicesOK, KnownOK, AddressOK, Cached
  <1>5. MountsOK(n)'
    BY <1>1, <1>3 DEF HostOK, MountsOK, Holding, Halfway, Cached
  <1>6. CASE ContainerStarts(n)
    <2>1. /\ ctr[n].phase = "starting" /\ ctr[n].refs = Kinds /\ held'[n] = mnt[n]
          /\ ctr'[n].phase = "running" /\ ctr'[n].refs = Kinds
      BY <1>6, FlowTypes, HostTypes DEF ContainerStarts, SetPhase, Containers
    <2>2. ASSUME Whole
          PROVE  \E m \in Members : /\ \A k \in Kinds : mnt[n][k] = m
                                    /\ Cached(n) => cache[n].m = m
      <3>1. PICK m \in Members : \A k \in Kinds : mnt[n][k] = m
        BY <2>1, <2>2, KindsFacts DEF HostOK, ContainerOK
      <3>2. Cached(n) => mnt[n]["primary"] = cache[n].m
        BY <1>3, <2>2, KindsFacts DEF Holding
      <3> QED BY <3>1, <3>2, KindsFacts
    <2>3. ContainerOK(n)'
      BY <1>1, <1>2, <2>1, <2>2 DEF ContainerOK, Cached
    <2>4. ConnectionsOK(n)'
      BY <1>1, <2>1 DEF HostOK, ConnectionsOK, Cached
    <2> QED BY <1>4, <1>5, <2>3, <2>4 DEF HostOK
  <1>7. CASE ContainerExits(n)
    <2>1. ctr'[n].phase = "stopping" /\ ctr'[n].refs = ctr[n].refs
      BY <1>7, FlowTypes DEF ContainerExits, SetPhase, Containers
    <2>2. ContainerOK(n)' /\ ConnectionsOK(n)'
      BY <1>1, <2>1 DEF HostOK, ContainerOK, ConnectionsOK, Cached
    <2> QED BY <1>4, <1>5, <2>2 DEF HostOK
  <1>8. CASE ContainerRemoved(n)
    <2>1. ctr'[n].phase = "none" /\ ctr'[n].refs = {} /\ ctr[n].refs = {}
      BY <1>8, FlowTypes DEF ContainerRemoved, RemoveContainer, NoContainer
    <2>2. ContainerOK(n)' /\ ConnectionsOK(n)'
      BY <1>1, <2>1 DEF HostOK, ContainerOK, ConnectionsOK, Cached
    <2> QED BY <1>4, <1>5, <2>2 DEF HostOK
  <1> QED BY <1>6, <1>7, <1>8

(* The driver and the mounts are as they were; the container is another.    *)
LEMMA StartTaskHost ==
  ASSUME TypeInv, NEW n \in Nodes, HostOK(n), NEW t \in Tasks, NEW slot, SchedulerStarts(t, n, slot)
  PROVE  HostOK(n)'
  <1>1. /\ UNCHANGED <<vol, pc, req, cache, mnt, held, memFile, localIP, crashes>>
        /\ ctr[n].phase = "none"
    BY DEF SchedulerStarts, StartTask, driverVars, ec2Vars, netVars
  <1>2. pc[n] = "idle"
    <2>1. pc[n] \notin MountSteps /\ pc[n] \notin UnmountSteps
      BY <1>1, RequestFacts DEF HostOK, RequestOK
    <2> QED BY <2>1, FlowTypes DEF Steps
  <1>3. /\ pc[n] \notin MountSteps \cup UnmountSteps \cup PrimarySteps
        /\ ~Halfway(n) /\ ~req[n].err
        /\ Cached(n) => cache[n].conns \in Nat
    BY <1>2, IdleFacts
  <1>4. RequestOK(n)' /\ DevicesOK(n)' /\ KnownOK(n)' /\ AddressOK(n)'
    BY <1>1, <1>2, <1>3 DEF HostOK, RequestOK, DevicesOK, KnownOK, AddressOK, Cached
  <1>5. MountsOK(n)'
    BY <1>1, <1>3 DEF HostOK, MountsOK, Holding, Halfway, Cached
  <1>6. ctr'[n].phase = "starting" /\ ctr'[n].refs = {}
    BY FlowTypes DEF SchedulerStarts, StartTask, NoContainer
  <1>7. ContainerOK(n)'
    BY <1>6 DEF ContainerOK
  <1>8. ConnectionsOK(n)'
    <2>1. Cardinality({}) = 0
      BY FS_EmptySet
    <2> QED BY <1>1, <1>3, <1>6, <2>1 DEF ConnectionsOK, Cached
  <1> QED BY <1>4, <1>5, <1>7, <1>8 DEF HostOK

LEMMA RestartHost ==
  ASSUME TypeInv, NEW n \in Nodes, HostOK(n), CrashStep(n)
  PROVE  HostOK(n)'
  <1>1. crashes' # 0 /\ MaxCrashes # 0
    BY HostTypes DEF CrashStep, DriverRestarts, NodeReboots, Crash
  <1>2. /\ pc'[n] = "idle" /\ req'[n] = NoRequest /\ ~Cached(n)'
    BY FlowTypes, HostTypes
    DEF CrashStep, DriverRestarts, NodeReboots, Release, Goto, Cached, NotCached
  <1>3. RequestOK(n)' /\ DevicesOK(n)' /\ KnownOK(n)' /\ MountsOK(n)' /\ ConnectionsOK(n)'
    BY <1>1, <1>2, NoRequestFacts
    DEF RequestOK, DevicesOK, KnownOK, MountsOK, ConnectionsOK, MountSteps, UnmountSteps, PrimarySteps
  <1>4. AddressOK(n)'
    BY <1>1, HostTypes DEF CrashStep, DriverRestarts, NodeReboots, HostOK, AddressOK, netVars
  <1>5. ContainerOK(n)'
    <2>1. CASE NodeReboots(n)
      BY <2>1, FlowTypes DEF NodeReboots, NoContainer, ContainerOK
    <2>2. CASE DriverRestarts(n)
      <3>1. UNCHANGED <<mnt, held>>
        BY <2>2 DEF DriverRestarts
      <3>2. CASE pc[n] \in MountSteps /\ MountReturns(n, req[n].name, FALSE)
        <4>1. ctr'[n].phase = "stopping"
          BY <3>2, FlowTypes DEF MountReturns, Containers
        <4> QED BY <4>1 DEF ContainerOK
      <3>3. CASE pc[n] \in UnmountSteps /\ UnmountReturns(n, req[n].name)
        <4>1. ctr'[n].phase = "stopping"
          BY <3>3, FlowTypes DEF UnmountReturns, Containers, HostOK, RequestOK
        <4> QED BY <4>1 DEF ContainerOK
      <3>4. CASE pc[n] = "idle" /\ UNCHANGED ctrVars
        BY <1>2, <3>1, <3>4 DEF HostOK, ContainerOK, ctrVars
      <3> QED BY <2>2, <3>2, <3>3, <3>4 DEF DriverRestarts, CallAborted
    <2> QED BY <2>1, <2>2 DEF CrashStep
  <1> QED BY <1>3, <1>4, <1>5 DEF HostOK

-----------------------------------------------------------------------------
(* A step changes its own host only *)

HostOnlyAt(n) ==
  \A x \in Nodes \ {n} : /\ cache'[x] = cache[x] /\ mnt'[x] = mnt[x] /\ held'[x] = held[x]
                         /\ memFile'[x] = memFile[x] /\ localIP'[x] = localIP[x]

(* A volume is only ever attached to the node whose driver asked for it.    *)
NewDeviceAt(n) == \A m \in Members, k \in Kinds : \A x \in Nodes \ {n} :
                    vol'[<<m, k>>].at = x => vol[<<m, k>>].at = x

LEMMA OnlyAtParts ==
  ASSUME NEW n \in Nodes, FlowOnlyAt(n), HostOnlyAt(n), NewDeviceAt(n),
         crashes' = 0 => crashes = 0
  PROVE  OnlyAt(n)
  BY DEF OnlyAt, Untouched, FlowOnlyAt, HostOnlyAt, NewDeviceAt

LEMMA SameHosts ==
  ASSUME UNCHANGED <<cache, mnt, held, memFile, localIP>>, NEW n
  PROVE  HostOnlyAt(n)
  BY DEF HostOnlyAt

LEMMA DeleteIPOnly ==
  ASSUME TypeInv, NEW n \in Nodes, NEW m, DeleteIP(n, m) \/ UNCHANGED localIP
  PROVE  \A x \in Nodes \ {n} : localIP'[x] = localIP[x]
  BY HostTypes DEF DeleteIP

LEMMA PathsOnly ==
  ASSUME TypeInv, NEW n \in Nodes, NEW k, NEW m,
         MountPath(n, k, m) \/ UnmountPath(n, k) \/ UNCHANGED mnt
  PROVE  \A x \in Nodes \ {n} : mnt'[x] = mnt[x]
  BY HostTypes DEF MountPath, UnmountPath

(* How a step of a driver ends. *)
StepEnds(n) ==
  \/ \E step, r : Continue(n, step, r)
  \/ MountFails(n) \/ MountSucceeds(n) \/ UnmountDone(n)

LEMMA StepEndsOnly ==
  ASSUME TypeInv, NEW n \in Nodes, StepEnds(n)
  PROVE  FlowOnlyAt(n)
  <1>1. ASSUME NEW step, NEW r, Continue(n, step, r) PROVE FlowOnlyAt(n)
    BY <1>1, Continued
  <1> QED BY <1>1, Failed, Succeeded, Done DEF StepEnds

LEMMA NextVolumeEnds ==
  ASSUME NEW n, NEW step, NEW after, NextVolume(n, step, after)
  PROVE  StepEnds(n)
  BY Zenon DEF NextVolume, StepEnds

LEMMA SearchEnds ==
  ASSUME NEW n \in Nodes,
         \/ ListTasks(n) \/ ListLocalIPs(n) \/ SelectMember(n)
         \/ CheckLastState(n) \/ DetachLastOwner(n) \/ WaitLastDetached(n)
         \/ GetLocalTask(n) \/ WriteOwner(n) \/ UpdateDNS(n) \/ WaitDNS(n)
         \/ GetInterface(n) \/ DropDanglingIP(n) \/ UnassignOldIP(n)
         \/ AssignLocalIP(n) \/ WriteIPRecord(n)
  PROVE  StepEnds(n)
  <1>1. ASSUME LastOwnerDetached(n) PROVE StepEnds(n)
    BY <1>1, Zenon DEF LastOwnerDetached, StepEnds
  <1>2. CASE ListTasks(n) \/ ListLocalIPs(n) \/ SelectMember(n)
    BY <1>2, Zenon DEF ListTasks, ListLocalIPs, SelectMember, StepEnds
  <1>3. CASE CheckLastState(n)
    BY <1>1, <1>3, Zenon DEF CheckLastState, StepEnds
  <1>4. CASE DetachLastOwner(n)
    BY <1>4, Zenon DEF DetachLastOwner, StepEnds
  <1>5. CASE WaitLastDetached(n)
    BY <1>1, <1>5, Zenon DEF WaitLastDetached, StepEnds
  <1>6. CASE GetLocalTask(n) \/ WriteOwner(n)
    BY <1>6, Zenon DEF GetLocalTask, WriteOwner, StepEnds
  <1>7. CASE UpdateDNS(n) \/ WaitDNS(n) \/ GetInterface(n) \/ UnassignOldIP(n)
    BY <1>7, Zenon DEF UpdateDNS, WaitDNS, GetInterface, UnassignOldIP, StepEnds
  <1>8. CASE DropDanglingIP(n)
    BY <1>8, Zenon DEF DropDanglingIP, StepEnds
  <1>9. CASE AssignLocalIP(n) \/ WriteIPRecord(n)
    BY <1>9, Zenon DEF AssignLocalIP, WriteIPRecord, StepEnds
  <1> QED BY <1>2, <1>3, <1>4, <1>5, <1>6, <1>7, <1>8, <1>9

LEMMA VolumeStepEnds ==
  ASSUME NEW n \in Nodes,
         \/ AttachVolumes(n) \/ UndoAttach(n) \/ WaitAttached(n) \/ AbortAttach(n)
         \/ FormatVolumes(n) \/ AddLocalIP(n) \/ MountVolumes(n)
         \/ CreateConfig(n) \/ UndoUmount(n) \/ UndoDetach(n) \/ UnmountStep(n)
  PROVE  StepEnds(n)
  <1>1. CASE AttachVolumes(n)
    BY <1>1, NextVolumeEnds, Zenon DEF AttachVolumes, AttachFails, StepEnds
  <1>2. CASE UndoAttach(n) \/ AbortAttach(n)
    BY <1>2, Zenon DEF UndoAttach, AbortAttach, StepEnds
  <1>3. CASE WaitAttached(n)
    BY <1>3, NextVolumeEnds, Zenon DEF WaitAttached, StepEnds
  <1>4. CASE FormatVolumes(n)
    BY <1>4, NextVolumeEnds, Zenon DEF FormatVolumes, Mkfs, StepEnds
  <1>5. CASE AddLocalIP(n) \/ CreateConfig(n)
    BY <1>5, Zenon DEF AddLocalIP, CreateConfig, StepEnds
  <1>6. CASE MountVolumes(n)
    BY <1>6, NextVolumeEnds, Zenon DEF MountVolumes, StepEnds
  <1>7. CASE UndoUmount(n) \/ UndoDetach(n)
    BY <1>7, Zenon DEF UndoUmount, UndoDetach, StepEnds
  <1>8. CASE UnmountStep(n)
    BY <1>8, Zenon
    DEF UnmountStep, UnmountDeleteIP, DeleteMemberFile, UmountVolumes, DetachVolumes, StepEnds
  <1> QED BY <1>1, <1>2, <1>3, <1>4, <1>5, <1>6, <1>7, <1>8

LEMMA DriverFlowOnly ==
  ASSUME TypeInv, NEW n \in Nodes, DriverStep(n)
  PROVE  FlowOnlyAt(n) /\ UNCHANGED crashes
  <1>1. UNCHANGED crashes
    BY Zenon
    DEF DriverStep, MountStep, UnmountStep,
        ListTasks, ListLocalIPs, SelectMember, CheckLastState, DetachLastOwner,
        WaitLastDetached, GetLocalTask, WriteOwner, UpdateDNS, WaitDNS, GetInterface,
        DropDanglingIP, UnassignOldIP, AssignLocalIP, WriteIPRecord, AttachVolumes,
        UndoAttach, WaitAttached, AbortAttach, FormatVolumes, AddLocalIP, MountVolumes,
        CreateConfig, UndoUmount, UndoDetach, UnmountDeleteIP, DeleteMemberFile,
        UmountVolumes, DetachVolumes
  <1>2. StepEnds(n)
    BY SearchEnds, VolumeStepEnds DEF DriverStep, MountStep
  <1> QED BY <1>1, <1>2, StepEndsOnly

LEMMA DriverHostOnly ==
  ASSUME TypeInv, NEW n \in Nodes, DriverStep(n)
  PROVE  HostOnlyAt(n)
  <1>1. CASE \/ ListTasks(n) \/ ListLocalIPs(n) \/ SelectMember(n)
             \/ CheckLastState(n) \/ DetachLastOwner(n) \/ WaitLastDetached(n)
             \/ GetLocalTask(n) \/ WriteOwner(n) \/ UpdateDNS(n) \/ WaitDNS(n)
             \/ GetInterface(n) \/ UnassignOldIP(n) \/ AssignLocalIP(n) \/ WriteIPRecord(n)
             \/ AttachVolumes(n) \/ UndoAttach(n) \/ WaitAttached(n) \/ AbortAttach(n)
             \/ FormatVolumes(n) \/ DetachVolumes(n)
    <2>1. UNCHANGED <<cache, mnt, held, memFile, localIP>>
      BY <1>1
      DEF ListTasks, ListLocalIPs, SelectMember, CheckLastState, DetachLastOwner,
          WaitLastDetached, GetLocalTask, WriteOwner, UpdateDNS, WaitDNS, GetInterface,
          UnassignOldIP, AssignLocalIP, WriteIPRecord, AttachVolumes, UndoAttach,
          WaitAttached, AbortAttach, FormatVolumes, DetachVolumes, netVars, hostVars
    <2> QED BY <2>1, SameHosts
  <1>2. CASE DropDanglingIP(n) \/ UndoDetach(n) \/ UnmountDeleteIP(n) \/ AddLocalIP(n)
    <2>1. UNCHANGED <<cache, mnt, held, memFile>>
      BY <1>2 DEF DropDanglingIP, UndoDetach, UnmountDeleteIP, AddLocalIP, hostVars
    <2>2. \A x \in Nodes \ {n} : localIP'[x] = localIP[x]
      <3>1. \/ \E m : DeleteIP(n, m)
            \/ UNCHANGED localIP
            \/ \E ok : AddIP(n, req[n].m, ok)
        BY <1>2, Zenon DEF DropDanglingIP, UndoDetach, UnmountDeleteIP, AddLocalIP, DeleteIPAgain
      <3> QED BY <3>1, DeleteIPOnly, HostTypes DEF AddIP
    <2> QED BY <2>1, <2>2 DEF HostOnlyAt
  <1>3. CASE MountVolumes(n)
    <2>1. UNCHANGED <<cache, held, memFile>>
      BY <1>3 DEF MountVolumes
    <2>2. \/ \E m : MountPath(n, req[n].k, m)
          \/ UnmountPath(n, "primary") \/ UNCHANGED mnt
      BY <1>3, Zenon DEF MountVolumes
    <2>3. DeleteIP(n, req[n].m) \/ UNCHANGED localIP
      BY <1>3, Zenon DEF MountVolumes, DeleteIPAgain, TryDeleteIP
    <2>4. \A x \in Nodes \ {n} : mnt'[x] = mnt[x]
      BY <2>2, PathsOnly
    <2> QED BY <2>1, <2>3, <2>4, DeleteIPOnly DEF HostOnlyAt
  <1>4. CASE CreateConfig(n) \/ DeleteMemberFile(n)
    BY <1>4, HostTypes
    DEF CreateConfig, DeleteMemberFile, addMountedVolume, netVars, HostOnlyAt
  <1>5. CASE UndoUmount(n) \/ UmountVolumes(n)
    <2>1. UNCHANGED <<held, memFile, localIP>>
      BY <1>5 DEF UndoUmount, UmountVolumes, netVars
    <2>2. UnmountPath(n, req[n].k) \/ UNCHANGED mnt
      BY <1>5, Zenon DEF UndoUmount, UmountVolumes, UmountOne
    <2>3. addMountedVolume(n, req[n].m) \/ deleteVolume(n) \/ UNCHANGED cache
      BY <1>5, Zenon DEF UndoUmount, UmountVolumes
    <2> QED BY <2>1, <2>2, <2>3, PathsOnly, HostTypes DEF HostOnlyAt, addMountedVolume, deleteVolume
  <1> QED BY <1>1, <1>2, <1>3, <1>4, <1>5 DEF DriverStep, MountStep, UnmountStep

LEMMA DriverDevices ==
  ASSUME TypeInv, NEW n \in Nodes, DriverStep(n)
  PROVE  NewDeviceAt(n)
  <1>1. req[n].k \in Kinds /\ "primary" \in Kinds
    BY RequestFacts, KindsAssumption
  <1>2. CASE UNCHANGED vol
    BY <1>2 DEF NewDeviceAt
  <1>3. ASSUME NEW m \in Members, NEW k \in Kinds, NEW x, NEW ok, DetachVolume(m, k, x, ok)
        PROVE  NewDeviceAt(n)
    <2>1. vol' = [vol EXCEPT ![<<m, k>>].state = "detaching"] \/ UNCHANGED vol
      BY <1>3, Zenon DEF DetachVolume
    <2> QED BY <2>1, TypeFacts DEF NewDeviceAt, Volumes
  <1>4. ASSUME NEW m \in Members, NEW k \in Kinds, NEW ok, AttachVolume(m, k, n, ok)
        PROVE  NewDeviceAt(n)
    <2>1. \/ vol' = [vol EXCEPT ![<<m, k>>] = [state |-> "attaching", at |-> n]]
          \/ UNCHANGED vol
      BY <1>4, Zenon DEF AttachVolume
    <2> QED BY <2>1, TypeFacts DEF NewDeviceAt, Volumes
  <1>5. CASE \/ DetachLastOwner(n) \/ UndoAttach(n) \/ AbortAttach(n) \/ UndoDetach(n)
             \/ DetachVolumes(n)
    <2>1. req[n].m \in Members
      BY <1>5, RequestFacts
      DEF DetachLastOwner, UndoAttach, AbortAttach, UndoDetach, DetachVolumes,
          ChosenSteps, MountSteps, UnmountSteps
    <2>2. \/ UNCHANGED vol
          \/ \E k \in Kinds : \E x, ok : DetachVolume(req[n].m, k, x, ok)
      BY <1>1, <1>5, Zenon
      DEF DetachLastOwner, UndoAttach, AbortAttach, UndoDetach, DetachVolumes, TryDetach
    <2> QED BY <1>2, <1>3, <2>1, <2>2
  <1>6. CASE AttachVolumes(n)
    <2>1. req[n].m \in Members
      BY <1>6, RequestFacts DEF AttachVolumes, ChosenSteps, MountSteps
    <2>2. UNCHANGED vol \/ \E ok : AttachVolume(req[n].m, req[n].k, n, ok)
      BY <1>6, Zenon DEF AttachVolumes
    <2> QED BY <1>1, <1>2, <1>4, <2>1, <2>2
  <1>7. CASE \/ ListTasks(n) \/ ListLocalIPs(n) \/ SelectMember(n)
             \/ CheckLastState(n) \/ WaitLastDetached(n)
             \/ GetLocalTask(n) \/ WriteOwner(n) \/ UpdateDNS(n) \/ WaitDNS(n)
             \/ GetInterface(n) \/ DropDanglingIP(n) \/ UnassignOldIP(n)
             \/ AssignLocalIP(n) \/ WriteIPRecord(n) \/ WaitAttached(n)
             \/ FormatVolumes(n) \/ AddLocalIP(n) \/ MountVolumes(n)
             \/ CreateConfig(n) \/ UndoUmount(n)
             \/ UnmountDeleteIP(n) \/ DeleteMemberFile(n) \/ UmountVolumes(n)
    <2>1. UNCHANGED vol
      BY <1>7
      DEF ListTasks, ListLocalIPs, SelectMember, CheckLastState, WaitLastDetached,
          GetLocalTask, WriteOwner, UpdateDNS, WaitDNS, GetInterface, DropDanglingIP,
          UnassignOldIP, AssignLocalIP, WriteIPRecord, WaitAttached, FormatVolumes,
          AddLocalIP, MountVolumes, CreateConfig, UndoUmount, UnmountDeleteIP,
          DeleteMemberFile, UmountVolumes, ec2Vars
    <2> QED BY <1>2, <2>1
  <1> QED BY <1>5, <1>6, <1>7 DEF DriverStep, MountStep, UnmountStep

LEMMA DockerOnly ==
  ASSUME TypeInv, NEW n \in Nodes,
         \/ \E k \in Kinds : MountRequest(n, k) \/ UnmountRequest(n, k)
         \/ ContainerStarts(n) \/ ContainerExits(n) \/ ContainerRemoved(n)
  PROVE  OnlyAt(n)
  <1>1. CASE \E k \in Kinds : MountRequest(n, k)
    <2>1. PICK k \in Kinds : MountRequest(n, k)
      BY <1>1
    <2>2. UNCHANGED <<vol, mnt, held, memFile, localIP, crashes>>
      BY <2>1 DEF MountRequest, ec2Vars, netVars
    <2>3. getMountedVolumeAndIncRef(n) \/ UNCHANGED cache
      BY <2>1, Zenon DEF MountRequest
    <2>4. \/ MountReturns(n, k, TRUE) /\ UNCHANGED <<pc, req>>
          \/ \E step, r : Continue(n, step, r)
      BY <2>1, Zenon DEF MountRequest
    <2>5. FlowOnlyAt(n)
      <3>1. CASE MountReturns(n, k, TRUE) /\ UNCHANGED <<pc, req>>
        BY <3>1, FlowTypes DEF MountReturns, FlowOnlyAt
      <3> QED BY <2>4, <3>1, Continued
    <2>6. HostOnlyAt(n)
      BY <2>2, <2>3, HostTypes DEF HostOnlyAt, getMountedVolumeAndIncRef
    <2> QED BY <2>2, <2>5, <2>6, OnlyAtParts DEF NewDeviceAt
  <1>2. CASE \E k \in Kinds : UnmountRequest(n, k)
    <2>1. PICK k \in Kinds : UnmountRequest(n, k)
      BY <1>2
    <2>2. UNCHANGED <<vol, held, memFile, localIP, crashes>>
      BY <2>1 DEF UnmountRequest, ec2Vars, netVars
    <2>3. cache' = [cache EXCEPT ![n].conns = @ - 1] \/ UNCHANGED cache
      BY <2>1, Zenon DEF UnmountRequest
    <2>4. UnmountPath(n, k) \/ UNCHANGED mnt
      BY <2>1, Zenon DEF UnmountRequest
    <2>5. \/ UnmountReturns(n, k) /\ UNCHANGED <<pc, req>>
          \/ \E step, r : Continue(n, step, r)
      BY <2>1, Zenon DEF UnmountRequest
    <2>6. FlowOnlyAt(n)
      <3>1. CASE UnmountReturns(n, k) /\ UNCHANGED <<pc, req>>
        BY <3>1, FlowTypes DEF UnmountReturns, FlowOnlyAt
      <3> QED BY <2>5, <3>1, Continued
    <2>7. HostOnlyAt(n)
      BY <2>2, <2>3, <2>4, PathsOnly, HostTypes DEF HostOnlyAt
    <2> QED BY <2>2, <2>6, <2>7, OnlyAtParts DEF NewDeviceAt
  <1>3. CASE ContainerStarts(n) \/ ContainerExits(n) \/ ContainerRemoved(n)
    <2>1. UNCHANGED <<vol, pc, req, cache, mnt, memFile, localIP, crashes>>
      BY <1>3 DEF ContainerStarts, ContainerExits, ContainerRemoved, driverVars, ec2Vars, netVars
    <2>2. \A x \in Nodes \ {n} : held'[x] = held[x] /\ ctr'[x] = ctr[x]
      BY <1>3, HostTypes, FlowTypes
      DEF ContainerStarts, ContainerExits, ContainerRemoved, SetPhase, RemoveContainer, driverVars
    <2>3. FlowOnlyAt(n) /\ HostOnlyAt(n)
      BY <2>1, <2>2 DEF FlowOnlyAt, HostOnlyAt
    <2> QED BY <2>1, <2>3, OnlyAtParts DEF NewDeviceAt
  <1> QED BY <1>1, <1>2, <1>3

LEMMA RestartOnly ==
  ASSUME TypeInv, NEW n \in Nodes, CrashStep(n)
  PROVE  OnlyAt(n)
  <1>1. crashes' # 0
    BY HostTypes DEF CrashStep, DriverRestarts, NodeReboots, Crash
  <1>2. UNCHANGED <<vol, memFile>>
    BY DEF CrashStep, DriverRestarts, NodeReboots, ec2Vars
  <1>3. \A x \in Nodes \ {n} : /\ pc'[x] = pc[x] /\ req'[x] = req[x] /\ cache'[x] = cache[x]
                               /\ mnt'[x] = mnt[x] /\ held'[x] = held[x]
                               /\ localIP'[x] = localIP[x]
    BY FlowTypes, HostTypes DEF CrashStep, DriverRestarts, NodeReboots, Release, Goto, netVars
  <1>4. \A x \in Nodes \ {n} : ctr'[x] = ctr[x]
    BY FlowTypes
    DEF CrashStep, DriverRestarts, NodeReboots, CallAborted, MountReturns, UnmountReturns, ctrVars
  <1>5. FlowOnlyAt(n) /\ HostOnlyAt(n)
    BY <1>2, <1>3, <1>4 DEF FlowOnlyAt, HostOnlyAt
  <1> QED BY <1>1, <1>2, <1>5, OnlyAtParts DEF NewDeviceAt

LEMMA StartTaskOnly ==
  ASSUME TypeInv, NEW n \in Nodes, NEW t \in Tasks, NEW slot, SchedulerStarts(t, n, slot)
  PROVE  OnlyAt(n)
  <1>1. UNCHANGED <<vol, pc, req, cache, mnt, held, memFile, localIP, crashes>>
    BY DEF SchedulerStarts, driverVars, ec2Vars, netVars
  <1>2. \A x \in Nodes \ {n} : ctr'[x] = ctr[x]
    BY FlowTypes DEF SchedulerStarts, StartTask
  <1>3. FlowOnlyAt(n) /\ HostOnlyAt(n)
    BY <1>1, <1>2 DEF FlowOnlyAt, HostOnlyAt
  <1> QED BY <1>1, <1>3, OnlyAtParts DEF NewDeviceAt

(* The steps that leave every host alone: Remove finds nothing to drop, as  *)
(* a cached volume has connections; EBS only completes or takes away.       *)
LEMMA QuietSteps ==
  ASSUME TypeInv,
         \/ \E n \in Nodes : Remove(n)
         \/ \E t \in Tasks : SchedulerStops(t)
         \/ EbsStep
         \/ UNCHANGED vars
  PROVE  \A x \in Nodes : Untouched(x)
  <1>1. ASSUME NEW n \in Nodes, Remove(n)
        PROVE  \A x \in Nodes : Untouched(x)
    <2>1. \A x \in Nodes : cache'[x] = cache[x]
      <3>1. cache[n].conns <= 0 => cache[n] = NotCached
        BY HostTypes DEF CacheEntries
      <3> QED BY <1>1, <3>1, HostTypes DEF Remove
    <2> QED BY <1>1, <2>1 DEF Remove, Untouched, ec2Vars, netVars, ctrVars
  <1>2. ASSUME NEW t \in Tasks, SchedulerStops(t)
        PROVE  \A x \in Nodes : Untouched(x)
    BY <1>2 DEF SchedulerStops, StopTask, Untouched, ec2Vars, netVars, driverVars
  <1>3. CASE EbsStep
    <2>1. PICK m \in Members, k \in Kinds : EbsAttaches(m, k) \/ EbsDetaches(m, k)
      BY <1>3 DEF EbsStep
    <2>2. UNCHANGED <<netVars, ctrVars, driverVars>>
      BY <2>1 DEF EbsAttaches, EbsDetaches
    <2>3. \/ vol' = [vol EXCEPT ![<<m, k>>].state = "in-use"]
          \/ vol' = [vol EXCEPT ![<<m, k>>] = [state |-> "available", at |-> None]]
      BY <2>1, Zenon DEF EbsAttaches, EbsDetaches, AttachCompletes, DetachCompletes
    <2>4. \A y \in Members, j \in Kinds, x \in Nodes :
            vol'[<<y, j>>].at = x => vol[<<y, j>>].at = x
      BY <2>3, TypeFacts, NoneAssumption DEF Volumes
    <2> QED BY <2>2, <2>4 DEF Untouched, netVars, ctrVars, driverVars
  <1>4. CASE UNCHANGED vars
    BY <1>4 DEF vars, Untouched, ec2Vars, netVars, ctrVars, driverVars
  <1> QED BY <1>1, <1>2, <1>3, <1>4

-----------------------------------------------------------------------------
LEMMA HostInit == Init => HostInv
  <1> SUFFICES ASSUME Init, NEW n \in Nodes PROVE HostOK(n)
    BY DEF HostInv
  <1>1. /\ pc[n] = "idle" /\ req[n] = NoRequest /\ ~Cached(n) /\ localIP[n] = {}
        /\ ctr[n].phase = "none" /\ ctr[n].refs = {}
    BY DEF Init, NetInit, CtrInit, NoContainer, Cached, NotCached
  <1>2. RequestOK(n)
    BY <1>1, NoRequestFacts DEF RequestOK, MountSteps, UnmountSteps, PrimarySteps
  <1> QED BY <1>1, <1>2
    DEF HostOK, DevicesOK, MountsOK, ContainerOK, ConnectionsOK, KnownOK, AddressOK

LEMMA HostStep ==
  ASSUME TypeInv, HostInv, [Next]_vars
  PROVE  HostInv'
  <1>1. \A x \in Nodes : HostOK(x)
    BY DEF HostInv
  <1>2. ASSUME NEW n \in Nodes, HostOK(n)', OnlyAt(n)
        PROVE  HostInv'
    <2>1. \A x \in Nodes \ {n} : HostOK(x)'
      BY <1>1, <1>2, UntouchedOK DEF OnlyAt
    <2> QED BY <1>2, <2>1 DEF HostInv
  <1>3. ASSUME NEW n \in Nodes, DriverStep(n)
        PROVE  HostInv'
    <2>1. HostOK(n)'
      BY <1>1, <1>3, MountHost, UnmountHost DEF DriverStep
    <2>2. OnlyAt(n)
      BY <1>3, DriverFlowOnly, DriverHostOnly, DriverDevices, OnlyAtParts
    <2> QED BY <1>2, <2>1, <2>2
  <1>4. ASSUME NEW n \in Nodes,
               \/ \E k \in Kinds : MountRequest(n, k) \/ UnmountRequest(n, k)
               \/ ContainerStarts(n) \/ ContainerExits(n) \/ ContainerRemoved(n)
        PROVE  HostInv'
    <2>1. HostOK(n)'
      BY <1>1, <1>4, MountRequestHost, UnmountRequestHost, ContainerHost
    <2> QED BY <1>2, <1>4, <2>1, DockerOnly
  <1>5. ASSUME NEW n \in Nodes, CrashStep(n)
        PROVE  HostInv'
    BY <1>1, <1>2, <1>5, RestartHost, RestartOnly
  <1>6. ASSUME NEW t \in Tasks, NEW n \in Nodes, NEW slot, SchedulerStarts(t, n, slot)
        PROVE  HostInv'
    BY <1>1, <1>2, <1>6, StartTaskHost, StartTaskOnly
  <1>7. CASE \/ \E n \in Nodes : Remove(n)
             \/ \E t \in Tasks : SchedulerStops(t)
             \/ EbsStep
             \/ UNCHANGED vars
    <2>1. \A x \in Nodes : Untouched(x)
      BY <1>7, QuietSteps
    <2> QED BY <1>1, <2>1, UntouchedOK DEF HostInv
  <1> QED BY <1>3, <1>4, <1>5, <1>6, <1>7 DEF Next, DockerStep, SchedulerStep

LEMMA HostInvariant == Spec => []HostInv
  <1>1. Init /\ [][Next]_vars /\ []TypeInv => []HostInv
    BY HostInit, HostStep, PTL
  <1> QED BY <1>1, TypeInvariant, PTL DEF Spec

(* Every connection docker has is counted, on any cluster, through any      *)
(* faults and restarts: only the last Unmount takes a volume away, and      *)
(* Remove never does.                                                       *)
THEOREM ConnectionsAreCounted == Spec => []ConnectionsCoverRefs
  <1>1. HostInv => ConnectionsCoverRefs
    BY DEF HostInv, HostOK, ConnectionsOK, ConnectionsCoverRefs
  <1> QED BY <1>1, HostInvariant, PTL

(* The volumes the driver of an idle node remembers are mounted, all of     *)
(* them, through any restarts: with one volume per member whatever calls    *)
(* fail, with two when none does (an umount that fails for one of the two   *)
(* volumes leaves the other in the cache only).                             *)
THEOREM CacheIsTrue == ASSUME Whole PROVE Spec => []CachedIsMounted
  <1>1. HostInv => CachedIsMounted
    <2> SUFFICES ASSUME HostInv, NEW n \in Nodes, pc[n] = "idle", Cached(n), NEW k \in Kinds
                 PROVE  mnt[n][k] = cache[n].m
      BY DEF CachedIsMounted
    <2>1. Holding(n, cache[n].m) /\ ~Halfway(n)
      BY DEF HostInv, HostOK, MountsOK, Halfway
    <2> QED BY <2>1 DEF Holding
  <1> QED BY <1>1, HostInvariant, PTL

(* When no call fails, a running container has the volumes of one member,   *)
(* the one its driver and the log driver know and whose address the node    *)
(* has, through any takeovers and restarts.                                 *)
THEOREM ContainersServeTheirMember == ASSUME MaxFaults = 0 PROVE Spec => []ServedByItsMember
  <1>1. HostInv => ServedByItsMember
    <2> SUFFICES ASSUME HostInv, NEW n \in Nodes, ctr[n].phase = "running"
                 PROVE  \E m \in Members :
                          /\ \A k \in Kinds : held[n][k] = m
                          /\ Cached(n) => cache[n].m = m /\ memFile[n] = m
                          /\ Cached(n) /\ RequireStaticIP => m \in localIP[n]
      BY DEF ServedByItsMember
    <2>1. HostOK(n) /\ Whole
      BY DEF HostInv, Whole
    <2>2. PICK m \in Members : /\ \A k \in Kinds : held[n][k] = m
                               /\ Cached(n) => cache[n].m = m
      BY <2>1 DEF HostOK, ContainerOK
    <2>3. pc[n] = "idle"
      BY <2>1 DEF HostOK, ContainerOK
    <2>4. Cached(n) => /\ memFile[n] = m
                       /\ RequireStaticIP => m \in localIP[n]
      BY <2>1, <2>2, <2>3 DEF HostOK, KnownOK
    <2> QED BY <2>2, <2>4
  <1> QED BY <1>1, HostInvariant, PTL

(* With one failing call at most and no restart, an address never stays on  *)
(* a node after its member has left: every way out of Mount, and Unmount,   *)
(* deletes it again.                                                        *)
THEOREM AddressesAreDeleted ==
  ASSUME MaxCrashes = 0, MaxFaults < 2
  PROVE  Spec => []NoStrayIP
  <1>1. HostInv => NoStrayIP
    <2> SUFFICES ASSUME HostInv, NEW n \in Nodes, NEW m \in localIP[n]
                 PROVE  cache[n].m = m \/ (pc[n] # "idle" /\ req[n].m = m)
      BY DEF NoStrayIP
    <2>1. AddressOK(n)
      BY DEF HostInv, HostOK
    <2> QED BY <2>1 DEF AddressOK
  <1> QED BY <1>1, HostInvariant, PTL

=============================================================================
