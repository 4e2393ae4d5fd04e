---------------------------- MODULE VolumeDriver ----------------------------
(***************************************************************************)
(* The docker volume plugin (pkg/plugins/volume/volume.go), one driver per *)
(* node, for one service.  Mount finds a member for the local task, takes  *)
(* its volumes away from the last owner, writes the new owner to the DB,   *)
(* moves the member's name or ip, attaches, formats and mounts the volumes *)
(* and creates the config files; Unmount undoes it.                        *)
(*                                                                         *)
(* A driver holds volumesLock for a whole request, so each node runs one   *)
(* request at a time (pc[n] # "idle").  Every call to EC2, DynamoDB, the   *)
(* DNS, ECS or the host is a step: the nodes, the scheduler and EBS        *)
(* interleave between the calls.                                           *)
(***************************************************************************)
EXTENDS ServiceNetwork, ContainerService

CONSTANTS Zone,             \* Zone[x]: availability zone of a node or member
          RegisterDNS,      \* serviceAttr.Spec.RegisterDNS
          MaxFaults,        \* bound on failed calls
          MaxCrashes        \* bound on driver restarts and node reboots

ASSUME BoundsAssumption == /\ MaxFaults \in Nat
                           /\ MaxCrashes \in Nat
                           /\ RegisterDNS \in BOOLEAN

VARIABLES
  mem,       \* mem[m]: the ServiceMember record in the DB
  pc,        \* pc[n]: the next call of n's driver, "idle" if the lock is free
  req,       \* req[n]: the local variables of n's request
  cache,     \* cache[n]: d.volumes[serviceUUID], conns = 0 if there is none
  mnt,       \* mnt[n][k]: member whose device is mounted on the host path of k
  held,      \* held[n][k]: member whose device the running container has mounted
  memFile,   \* memFile[n]: content of the member file for the log driver
  formats,   \* formats[m, k]: 1 once mkfs made a file system on the volume
  faults,    \* failed calls so far
  crashes    \* driver restarts and node reboots so far

driverVars == <<mem, pc, req, cache, mnt, held, memFile, formats, faults, crashes>>
vars == <<ec2Vars, netVars, ctrVars, driverVars>>

(* The owner of a member: its server (and container) instance, its task, or *)
(* the server instance in place of the task when the member is named.       *)
MemberRecords == [server : Nodes \cup {None}, task : Tasks \cup Nodes \cup {None}, rev : Nat]

Requests == [name  : Kinds,                    \* the volume docker asked for
             tasks : SUBSET Tasks,             \* taskIDs of findIdleMember
             ips   : SUBSET Members,           \* static ips of the local interface
             m     : Members \cup {None},      \* the selected member
             rec   : MemberRecords,            \* its record as read or written
             task  : Tasks \cup Nodes \cup {None},  \* localTaskID
             iprec : IPRecords,                \* memberStaticIP
             k     : Kinds,                    \* the volume being worked on
             err   : BOOLEAN]                  \* an umount failed

NoRecord == [server |-> None, task |-> None, rev |-> 0]
NoRequest == [name |-> "primary", tasks |-> {}, ips |-> {}, m |-> None,
              rec |-> NoRecord, task |-> None,
              iprec |-> [node |-> None, rev |-> 0], k |-> "primary", err |-> FALSE]
NotCached == [m |-> None, conns |-> 0]
CacheEntries == [m : Members, conns : Nat \ {0}] \cup {NotCached}
NothingMounted == [k \in Kinds |-> None]

MountSteps == {"list", "localIPs", "select", "lastState", "lastDetach", "lastWait",
               "task", "cas", "dns", "dnsWait", "netif", "dangling", "unassign",
               "assign", "ipRecord", "attach", "attachUndo", "attachWait",
               "attachAbort", "format", "addIP", "mountFS", "config",
               "undoUmount", "undoDetach"}
UnmountSteps == {"delIP", "memberFile", "umount", "detach"}
Steps == MountSteps \cup UnmountSteps \cup {"idle"}

RequestTypeOK == pc \in [Nodes -> Steps] /\ req \in [Nodes -> Requests]

HostTypeOK ==
  /\ cache \in [Nodes -> CacheEntries]
  /\ mnt \in [Nodes -> [Kinds -> Members \cup {None}]]
  /\ held \in [Nodes -> [Kinds -> Members \cup {None}]]
  /\ memFile \in [Nodes -> Members \cup {None}]
  /\ formats \in [Volumes -> 0..1]

(* Every variable keeps its type through all the steps. *)
TypeOK ==
  /\ Ec2TypeOK /\ NetTypeOK /\ CtrTypeOK /\ RequestTypeOK /\ HostTypeOK
  /\ mem \in [Members -> MemberRecords]
  /\ faults \in 0..MaxFaults
  /\ crashes \in 0..MaxCrashes

Init ==
  /\ Ec2Init /\ NetInit /\ CtrInit
  /\ mem = [m \in Members |-> NoRecord]
  /\ pc = [n \in Nodes |-> "idle"]
  /\ req = [n \in Nodes |-> NoRequest]
  /\ cache = [n \in Nodes |-> NotCached]
  /\ mnt = [n \in Nodes |-> NothingMounted]
  /\ held = [n \in Nodes |-> NothingMounted]
  /\ memFile = [n \in Nodes |-> None]
  /\ formats = [v \in Volumes |-> 0]
  /\ faults = 0
  /\ crashes = 0

-----------------------------------------------------------------------------
(* Building blocks of the steps *)

HasJournal == "journal" \in Kinds
Cached(n) == cache[n].conns > 0

(* The cache of the driver: a volume just mounted, one more connection to   *)
(* it, and its removal.                                                     *)
addMountedVolume(n, m) == cache' = [cache EXCEPT ![n] = [m |-> m, conns |-> 1]]

Mutant_NoIncRef(n) == UNCHANGED cache
getMountedVolumeAndIncRef(n) == cache' = [cache EXCEPT ![n].conns = @ + 1]

Mutant_KeepCached(n) == UNCHANGED cache
deleteVolume(n) == cache' = [cache EXCEPT ![n] = NotCached]

(* A step leaves these alone unless it is one of the few that change them. *)
hostVars == <<cache, mnt, held, memFile, formats>>

Goto(n, step) == pc' = [pc EXCEPT ![n] = step]

(* The request goes on at `step', its local variables become r. *)
Continue(n, step, r) ==
  /\ Goto(n, step)
  /\ req' = [req EXCEPT ![n] = r]
  /\ UNCHANGED ctrVars

(* The request returns and releases the lock. *)
Release(n) == Goto(n, "idle") /\ req' = [req EXCEPT ![n] = NoRequest]
MountFails(n) == Release(n) /\ MountReturns(n, req[n].name, FALSE)
MountSucceeds(n) == Release(n) /\ MountReturns(n, req[n].name, TRUE)
UnmountDone(n) == Release(n) /\ UnmountReturns(n, req[n].name)

(* A call fails for a reason outside the model: throttling, a network or a  *)
(* disk error.                                                              *)
Fault == faults < MaxFaults /\ faults' = faults + 1
NoFault == UNCHANGED faults

(* After the owner is written: move the ip or the name, then attach. *)
AfterOwned == IF RequireStaticIP THEN "netif"
              ELSE IF RegisterDNS THEN "dns" ELSE "attach"

-----------------------------------------------------------------------------
(* Mount *)

(* The volume is in the cache: one more connection; else look for a member. *)
MountRequest(n, k) ==
  /\ pc[n] = "idle"
  /\ ctr[n].phase = "starting"
  /\ k \in Kinds \ ctr[n].refs
  /\ \/ /\ Cached(n)
        /\ getMountedVolumeAndIncRef(n)
        /\ MountReturns(n, k, TRUE)
        /\ UNCHANGED <<pc, req>>
     \/ /\ ~Cached(n)
        /\ Continue(n, IF NamedMembers THEN "select" ELSE "list",
                       [NoRequest EXCEPT !.name = k])
        /\ UNCHANGED cache
  /\ UNCHANGED <<ec2Vars, netVars, mem, mnt, held, memFile, formats, faults, crashes>>

(* findIdleMember lists the active tasks, and the local ips, ... *)
ListTasks(n) ==
  /\ pc[n] = "list"
  /\ \/ /\ Continue(n, IF RequireStaticIP THEN "localIPs" ELSE "select",
                       [req[n] EXCEPT !.tasks = ListActiveServiceTasks])
        /\ NoFault
     \/ Fault /\ MountFails(n)
  /\ UNCHANGED <<ec2Vars, netVars, hostVars, mem, crashes>>

ListLocalIPs(n) ==
  /\ pc[n] = "localIPs"
  /\ \/ /\ Continue(n, "select", [req[n] EXCEPT !.ips = {m \in Members : ipAt[m] = n}])
        /\ NoFault
     \/ Fault /\ MountFails(n)
  /\ UNCHANGED <<ec2Vars, netVars, hostVars, mem, crashes>>

(* ... then reads the members.  It takes the first member of the local zone *)
(* that this node owned last, idle or not, or an idle one whose ip is       *)
(* local; without one, an idle member at random.  The order of the list is  *)
(* left open.  With a member name it is that member.                        *)
LocalZone(n) == {m \in Members : Zone[m] = Zone[n]}
IdleMembers(n) == {m \in LocalZone(n) : mem[m].task \notin req[n].tasks}
Preferred(n) == {m \in LocalZone(n) : mem[m].server = n}
                  \cup {m \in IdleMembers(n) : m \in req[n].ips}
Candidates(n) ==
  IF NamedMembers THEN {ctr[n].slot}
  ELSE IF Preferred(n) # {} THEN Preferred(n) ELSE IdleMembers(n)

(* detachVolumeFromLastOwner has nothing to do for a member never owned;    *)
(* otherwise the journal volume is first.                                   *)
AfterDetached == IF NamedMembers THEN "cas" ELSE "task"
SelectMember(n) ==
  /\ pc[n] = "select"
  /\ \/ /\ \E m \in Candidates(n) :
             Continue(n, IF mem[m].server = None THEN AfterDetached ELSE "lastState",
                         [req[n] EXCEPT !.m = m, !.rec = mem[m], !.task = n,
                                        !.k = IF HasJournal /\ mem[m].server # None
                                              THEN "journal" ELSE "primary"])
        /\ NoFault
     \/ Candidates(n) = {} /\ MountFails(n) /\ NoFault
     \/ Fault /\ MountFails(n)
  /\ UNCHANGED <<ec2Vars, netVars, hostVars, mem, crashes>>

(* The volume of the current kind is free: go on with the next one. *)
LastOwnerDetached(n) ==
  IF req[n].k = "journal" THEN Continue(n, "lastState", [req[n] EXCEPT !.k = "primary"])
                          ELSE Continue(n, AfterDetached, req[n])

CheckLastState(n) ==
  /\ pc[n] = "lastState"
  /\ LET state == GetVolumeState(req[n].m, req[n].k) IN
     \/ state = "available" /\ LastOwnerDetached(n) /\ NoFault
     \/ state = "in-use" /\ Continue(n, "lastDetach", req[n]) /\ NoFault
     \/ state = "detaching" /\ Continue(n, "lastWait", req[n]) /\ NoFault
     \/ state = "attaching" /\ MountFails(n) /\ NoFault
     \/ Fault /\ MountFails(n)
  /\ UNCHANGED <<ec2Vars, netVars, hostVars, mem, crashes>>

DetachLastOwner(n) ==
  /\ pc[n] = "lastDetach"
  /\ \/ /\ \E ok \in BOOLEAN :
             /\ DetachVolume(req[n].m, req[n].k, req[n].rec.server, ok)
             /\ IF ok THEN Continue(n, "lastWait", req[n]) ELSE MountFails(n)
        /\ NoFault
     \/ Fault /\ MountFails(n) /\ UNCHANGED vol
  /\ UNCHANGED <<ipAt, netVars, hostVars, mem, crashes>>

WaitLastDetached(n) ==
  /\ pc[n] = "lastWait"
  /\ \/ /\ \E ok \in BOOLEAN :
             /\ WaitVolumeDetached(req[n].m, req[n].k, ok)
             /\ IF ok THEN LastOwnerDetached(n) ELSE MountFails(n)
        /\ NoFault
     \/ Fault /\ MountFails(n)
  /\ UNCHANGED <<ec2Vars, netVars, hostVars, mem, crashes>>

GetLocalTask(n) ==
  /\ pc[n] = "task"
  /\ \/ /\ \E t \in Tasks : /\ GetServiceTask(n, t, TRUE)
                            /\ Continue(n, "cas", [req[n] EXCEPT !.task = t])
        /\ NoFault
     \/ GetServiceTask(n, None, FALSE) /\ MountFails(n) /\ NoFault
     \/ Fault /\ MountFails(n)
  /\ UNCHANGED <<ec2Vars, netVars, hostVars, mem, crashes>>

(* UpdateServiceMemberOwner, then the update conditional on the revision    *)
(* that was read.                                                           *)
Mutant_SwappedOwner(old, t, n) == [server |-> t, task |-> n, rev |-> old.rev + 1]
UpdateServiceMemberOwner(old, t, n) == [server |-> n, task |-> t, rev |-> old.rev + 1]
Mutant_Unconditional(m, old, new, ok) == ok /\ mem' = [mem EXCEPT ![m] = new]
UpdateServiceMember(m, old, new, ok) ==
  /\ ok = (mem[m].rev = old.rev)
  /\ mem' = IF ok THEN [mem EXCEPT ![m] = new] ELSE mem

(* The last disjunct is an update whose answer is lost: the record is       *)
(* written but the driver sees an error.                                    *)
WriteOwner(n) ==
  /\ pc[n] = "cas"
  /\ LET new == UpdateServiceMemberOwner(req[n].rec, req[n].task, n) IN
     \/ /\ \E ok \in BOOLEAN :
             /\ UpdateServiceMember(req[n].m, req[n].rec, new, ok)
             /\ IF ok THEN Continue(n, AfterOwned, [req[n] EXCEPT !.rec = new])
                      ELSE MountFails(n)
        /\ NoFault
     \/ Fault /\ MountFails(n) /\ UNCHANGED mem
     \/ Fault /\ MountFails(n) /\ UpdateServiceMember(req[n].m, req[n].rec, new, TRUE)
  /\ UNCHANGED <<ec2Vars, netVars, hostVars, crashes>>

-----------------------------------------------------------------------------
(* Mount, continued: the name or the ip of the member *)

UpdateDNS(n) ==
  /\ pc[n] = "dns"
  /\ \/ /\ UpdateDNSRecord(req[n].m, n)
        /\ Continue(n, "dnsWait", req[n])
        /\ NoFault
     \/ Fault /\ MountFails(n) /\ UNCHANGED dns
  /\ UNCHANGED <<ec2Vars, ipRec, localIP, hostVars, mem, crashes>>

WaitDNS(n) ==
  /\ pc[n] = "dnsWait"
  /\ \/ /\ \E ok \in BOOLEAN :
             /\ WaitDNSRecordUpdated(req[n].m, n, ok)
             /\ IF ok THEN Continue(n, "attach", req[n]) ELSE MountFails(n)
        /\ NoFault
     \/ Fault /\ MountFails(n)
  /\ UNCHANGED <<ec2Vars, netVars, hostVars, mem, crashes>>

(* UpdateStaticIP reads the ips of the local interface and their records;   *)
(* the member's own record comes anywhere among them.                       *)
GetInterface(n) ==
  /\ pc[n] = "netif"
  /\ \/ /\ Continue(n, "dangling", [req[n] EXCEPT !.ips = {m \in Members : ipAt[m] = n},
                                                  !.iprec = ipRec[req[n].m]])
        /\ NoFault
     \/ Fault /\ MountFails(n)
  /\ UNCHANGED <<ec2Vars, netVars, hostVars, mem, crashes>>

(* An ip of another member is unassigned and deleted locally, one by one.   *)
(* Then a member's ip that was not local is read from the DB.               *)
DropDanglingIP(n) ==
  /\ pc[n] = "dangling"
  /\ \/ /\ \E m \in req[n].ips \ {req[n].m} :
             /\ UnassignStaticIP(n, m)
             /\ DeleteIP(n, m)
             /\ Continue(n, "dangling", [req[n] EXCEPT !.ips = @ \ {m}])
        /\ NoFault
     \/ /\ req[n].ips = {req[n].m}
        /\ \E r \in {req[n].iprec, ipRec[req[n].m]} :
             Continue(n, IF r.node = n THEN "attach" ELSE "ipRecord", [req[n] EXCEPT !.iprec = r])
        /\ NoFault
        /\ UNCHANGED <<ipAt, localIP>>
     \/ /\ req[n].ips = {}
        /\ Continue(n, "unassign", [req[n] EXCEPT !.iprec = ipRec[req[n].m]])
        /\ NoFault
        /\ UNCHANGED <<ipAt, localIP>>
     \/ /\ Fault
        /\ MountFails(n)
        /\ \/ UNCHANGED ipAt
           \/ \E m \in req[n].ips \ {req[n].m} : UnassignStaticIP(n, m)
        /\ UNCHANGED localIP
  /\ UNCHANGED <<vol, dns, ipRec, hostVars, mem, crashes>>

UnassignOldIP(n) ==
  /\ pc[n] = "unassign"
  /\ \/ /\ UnassignStaticIP(req[n].iprec.node, req[n].m)
        /\ Continue(n, "assign", req[n])
        /\ NoFault
     \/ Fault /\ MountFails(n) /\ UNCHANGED ipAt
  /\ UNCHANGED <<vol, netVars, hostVars, mem, crashes>>

AssignLocalIP(n) ==
  /\ pc[n] = "assign"
  /\ \/ /\ \E ok \in BOOLEAN :
             /\ AssignStaticIP(n, req[n].m, ok)
             /\ IF ok THEN Continue(n, "ipRecord", req[n]) ELSE MountFails(n)
        /\ NoFault
     \/ Fault /\ MountFails(n) /\ UNCHANGED ipAt
  /\ UNCHANGED <<vol, netVars, hostVars, mem, crashes>>

(* The record, and the wait for the DNS name, whose record is the ip since  *)
(* the service was created: it may time out with the record written.        *)
WriteIPRecord(n) ==
  /\ pc[n] = "ipRecord"
  /\ \/ /\ \E ok \in BOOLEAN :
             /\ UpdateServiceStaticIP(req[n].m, req[n].iprec, n, ok)
             /\ IF ok THEN Continue(n, "attach", req[n]) ELSE MountFails(n)
        /\ NoFault
     \/ Fault /\ MountFails(n) /\ UNCHANGED ipRec
     \/ Fault /\ MountFails(n) /\ UpdateServiceStaticIP(req[n].m, req[n].iprec, n, TRUE)
  /\ UNCHANGED <<ec2Vars, dns, localIP, hostVars, mem, crashes>>

-----------------------------------------------------------------------------
(* Mount, continued: the volumes *)

(* Steps that go through the volumes start with the primary one. *)
NextVolume(n, step, after) ==
  IF HasJournal /\ req[n].k = "primary"
  THEN Continue(n, step, [req[n] EXCEPT !.k = "journal"])
  ELSE Continue(n, after, [req[n] EXCEPT !.k = "primary"])

(* If the journal volume cannot be attached, the primary one is detached. *)
AttachFails(n) ==
  IF req[n].k = "journal" THEN Continue(n, "attachUndo", [req[n] EXCEPT !.k = "primary"])
                          ELSE MountFails(n)
AttachVolumes(n) ==
  /\ pc[n] = "attach"
  /\ \/ /\ \E ok \in BOOLEAN :
             /\ AttachVolume(req[n].m, req[n].k, n, ok)
             /\ IF ok THEN NextVolume(n, "attach", "attachWait") ELSE AttachFails(n)
        /\ NoFault
     \/ Fault /\ AttachFails(n) /\ UNCHANGED vol
  /\ UNCHANGED <<ipAt, netVars, hostVars, mem, crashes>>

(* A detach request whose outcome the driver ignores. *)
TryDetach(m, k, n) ==
  \/ \E ok \in BOOLEAN : DetachVolume(m, k, n, ok) /\ NoFault
  \/ Fault /\ UNCHANGED vol

UndoAttach(n) ==
  /\ pc[n] = "attachUndo"
  /\ TryDetach(req[n].m, "primary", n)
  /\ MountFails(n)
  /\ UNCHANGED <<ipAt, netVars, hostVars, mem, crashes>>

WaitAttached(n) ==
  /\ pc[n] = "attachWait"
  /\ \/ /\ \E ok \in BOOLEAN :
             /\ WaitVolumeAttached(req[n].m, req[n].k, ok)
             /\ IF ok THEN NextVolume(n, "attachWait", "format")
                      ELSE Continue(n, "attachAbort", [req[n] EXCEPT !.k = "primary"])
        /\ NoFault
     \/ Fault /\ Continue(n, "attachAbort", [req[n] EXCEPT !.k = "primary"])
  /\ UNCHANGED <<ec2Vars, netVars, hostVars, mem, crashes>>

(* detachVolumes: the primary volume, then the journal one. *)
AbortAttach(n) ==
  /\ pc[n] = "attachAbort"
  /\ TryDetach(req[n].m, req[n].k, n)
  /\ IF HasJournal /\ req[n].k = "primary"
     THEN Continue(n, "attachAbort", [req[n] EXCEPT !.k = "journal"])
     ELSE MountFails(n)
  /\ UNCHANGED <<ipAt, netVars, hostVars, mem, crashes>>

AfterFormat == IF RequireStaticIP THEN "addIP" ELSE "mountFS"

(* blkid, and mkfs unless it reports a file system.  With no device both    *)
(* fail; when only blkid fails (the fault), mkfs.xfs without -f formats a   *)
(* blank volume and refuses one that has a file system.                     *)
Mkfs(n, m, k) ==
  /\ formats[m, k] = 0
  /\ formats' = [formats EXCEPT ![<<m, k>>] = 1]
  /\ NextVolume(n, "format", AfterFormat)
FormatVolumes(n) ==
  /\ pc[n] = "format"
  /\ LET k == req[n].k IN
     \/ \E m \in DeviceOf(n, k) :
          \/ formats[m, k] > 0 /\ NextVolume(n, "format", AfterFormat) /\ NoFault /\ UNCHANGED formats
          \/ formats[m, k] = 0 /\ Mkfs(n, m, k) /\ NoFault
          \/ Fault /\ Mkfs(n, m, k)
     \/ DeviceOf(n, k) = {} /\ MountFails(n) /\ NoFault /\ UNCHANGED formats
     \/ Fault /\ MountFails(n) /\ UNCHANGED formats
  /\ UNCHANGED <<ec2Vars, netVars, cache, mnt, held, memFile, mem, crashes>>

AddLocalIP(n) ==
  /\ pc[n] = "addIP"
  /\ \/ /\ \E ok \in BOOLEAN :
             /\ AddIP(n, req[n].m, ok)
             /\ IF ok THEN Continue(n, "mountFS", req[n]) ELSE MountFails(n)
        /\ NoFault
     \/ Fault /\ MountFails(n) /\ UNCHANGED localIP
  /\ UNCHANGED <<ec2Vars, dns, ipRec, hostVars, mem, crashes>>

(* mountFS mounts whatever volume is on the device.  `umount' of a path     *)
(* that is not mounted counts as success.                                   *)
MountPath(n, k, m) == mnt' = [mnt EXCEPT ![n][k] = m]
UnmountPath(n, k) == mnt' = [mnt EXCEPT ![n][k] = None]

(* Mount deletes the ip again when mounting or creating the config failed,  *)
(* and ignores the outcome.                                                 *)
TryDeleteIP(n, m) ==
  IF RequireStaticIP THEN DeleteIP(n, m) \/ UNCHANGED localIP ELSE UNCHANGED localIP
Mutant_KeepIP(n, m) == UNCHANGED localIP
DeleteIPAgain(n, m) == IF RequireStaticIP THEN DeleteIP(n, m) ELSE UNCHANGED localIP

(* If the journal volume cannot be mounted, the primary one is unmounted;   *)
(* that and the deletion of the ip may fail too.                            *)
MountVolumes(n) ==
  /\ pc[n] = "mountFS"
  /\ LET k == req[n].k IN
     \/ \E m \in DeviceOf(n, k) :
          /\ mnt[n][k] = None
          /\ MountPath(n, k, m)
          /\ NextVolume(n, "mountFS", "config")
          /\ NoFault
          /\ UNCHANGED localIP
     \/ /\ \/ (DeviceOf(n, k) = {} \/ mnt[n][k] # None) /\ NoFault
           \/ Fault
        /\ MountFails(n)
        /\ IF k = "journal" THEN UnmountPath(n, "primary") ELSE UNCHANGED mnt
        /\ DeleteIPAgain(n, req[n].m)
     \/ /\ faults + 1 < MaxFaults
        /\ faults' = faults + 2
        /\ MountFails(n)
        /\ UNCHANGED mnt
        /\ TryDeleteIP(n, req[n].m)
  /\ UNCHANGED <<ec2Vars, dns, ipRec, cache, held, memFile, formats, mem, crashes>>

(* The config files and the member file; the volume goes into the cache.    *)
CreateConfig(n) ==
  /\ pc[n] = "config"
  /\ \/ /\ memFile' = [memFile EXCEPT ![n] = req[n].m]
        /\ addMountedVolume(n, req[n].m)
        /\ MountSucceeds(n)
        /\ NoFault
     \/ /\ Fault
        /\ memFile' \in {memFile, [memFile EXCEPT ![n] = None]}
        /\ Continue(n, "undoUmount", req[n])
        /\ UNCHANGED cache
  /\ UNCHANGED <<ec2Vars, netVars, mnt, held, formats, mem, crashes>>

(* umountVolumes goes through both volumes and fails if either umount does. *)
UmountOne(n, ok) ==
  \/ ok /\ UnmountPath(n, req[n].k) /\ NoFault
  \/ ~ok /\ mnt[n][req[n].k] # None /\ Fault /\ UNCHANGED mnt
LastVolume(n) == HasJournal => req[n].k = "journal"

(* The config failed: if the umount succeeds, detach and fail; if not, the  *)
(* volume is cached and Mount returns success.                              *)
UndoUmount(n) ==
  /\ pc[n] = "undoUmount"
  /\ \E ok \in BOOLEAN :
       /\ UmountOne(n, ok)
       /\ LET err == req[n].err \/ ~ok IN
          \/ /\ ~LastVolume(n)
             /\ Continue(n, "undoUmount", [req[n] EXCEPT !.k = "journal", !.err = err])
             /\ UNCHANGED cache
          \/ /\ LastVolume(n) /\ ~err
             /\ Continue(n, "undoDetach", [req[n] EXCEPT !.k = "primary"])
             /\ UNCHANGED cache
          \/ /\ LastVolume(n) /\ err
             /\ addMountedVolume(n, req[n].m)
             /\ MountSucceeds(n)
  /\ UNCHANGED <<ec2Vars, netVars, held, memFile, formats, mem, crashes>>

UndoDetach(n) ==
  /\ pc[n] = "undoDetach"
  /\ TryDetach(req[n].m, req[n].k, n)
  /\ IF LastVolume(n)
     THEN MountFails(n) /\ DeleteIPAgain(n, req[n].m)
     ELSE Continue(n, "undoDetach", [req[n] EXCEPT !.k = "journal"]) /\ UNCHANGED localIP
  /\ UNCHANGED <<ipAt, dns, ipRec, hostVars, mem, crashes>>

-----------------------------------------------------------------------------
(* Unmount *)

(* Not in the cache, after a restart of the driver: umount the path and     *)
(* return an error.  Not the last connection: one less.  The last one: undo *)
(* the Mount.  Docker forgets the volume whatever the answer is.            *)
UnmountRequest(n, k) ==
  /\ pc[n] = "idle"
  /\ ctr[n].phase = "stopping"
  /\ k \in ctr[n].refs
  /\ \/ /\ ~Cached(n)
        /\ \/ UnmountPath(n, k) /\ NoFault
           \/ Fault /\ UNCHANGED mnt
        /\ UnmountReturns(n, k)
        /\ UNCHANGED <<pc, req, cache>>
     \/ /\ cache[n].conns > 1
        /\ cache' = [cache EXCEPT ![n].conns = @ - 1]
        /\ UnmountReturns(n, k)
        /\ NoFault
        /\ UNCHANGED <<pc, req, mnt>>
     \/ /\ cache[n].conns = 1
        /\ Continue(n, IF RequireStaticIP THEN "delIP" ELSE "memberFile",
                       [NoRequest EXCEPT !.name = k, !.m = cache[n].m])
        /\ NoFault
        /\ UNCHANGED <<cache, mnt>>
  /\ UNCHANGED <<ec2Vars, netVars, mem, held, memFile, formats, crashes>>

UnmountDeleteIP(n) ==
  /\ pc[n] = "delIP"
  /\ \/ DeleteIP(n, req[n].m) /\ Continue(n, "memberFile", req[n]) /\ NoFault
     \/ Fault /\ UnmountDone(n) /\ UNCHANGED localIP
  /\ UNCHANGED <<ec2Vars, dns, ipRec, hostVars, mem, crashes>>

DeleteMemberFile(n) ==
  /\ pc[n] = "memberFile"
  /\ \/ /\ memFile' = [memFile EXCEPT ![n] = None]
        /\ Continue(n, "umount", req[n])
        /\ NoFault
     \/ Fault /\ UnmountDone(n) /\ UNCHANGED memFile
  /\ UNCHANGED <<ec2Vars, netVars, cache, mnt, held, formats, mem, crashes>>

(* If an umount fails the volume stays in the cache. *)
UmountVolumes(n) ==
  /\ pc[n] = "umount"
  /\ \E ok \in BOOLEAN :
       /\ UmountOne(n, ok)
       /\ LET err == req[n].err \/ ~ok IN
          \/ /\ ~LastVolume(n)
             /\ Continue(n, "umount", [req[n] EXCEPT !.k = "journal", !.err = err])
             /\ UNCHANGED cache
          \/ /\ LastVolume(n) /\ ~err
             /\ deleteVolume(n)
             /\ Continue(n, "detach", [req[n] EXCEPT !.k = "primary"])
          \/ /\ LastVolume(n) /\ err
             /\ UnmountDone(n)
             /\ UNCHANGED cache
  /\ UNCHANGED <<ec2Vars, netVars, held, memFile, formats, mem, crashes>>

DetachVolumes(n) ==
  /\ pc[n] = "detach"
  /\ TryDetach(req[n].m, req[n].k, n)
  /\ IF LastVolume(n) THEN UnmountDone(n)
     ELSE Continue(n, "detach", [req[n] EXCEPT !.k = "journal"])
  /\ UNCHANGED <<ipAt, netVars, hostVars, mem, crashes>>

(* Remove drops the volume from the cache unless somebody is connected. *)
Remove(n) ==
  /\ pc[n] = "idle"
  /\ cache' = [cache EXCEPT ![n] = IF @.conns <= 0 THEN NotCached ELSE @]
  /\ UNCHANGED <<ec2Vars, netVars, ctrVars, mem, pc, req, mnt, held, memFile, formats, faults, crashes>>

-----------------------------------------------------------------------------
(* The environment: the scheduler, docker, EBS, restarts *)

SchedulerStarts(t, n, slot) ==
  StartTask(t, n, slot) /\ UNCHANGED <<ec2Vars, netVars, driverVars>>

SchedulerStops(t) == StopTask(t) /\ UNCHANGED <<ec2Vars, netVars, driverVars>>

(* With all its volumes mounted the container starts on what the host       *)
(* paths hold, in a mount namespace of its own.                             *)
ContainerStarts(n) ==
  /\ pc[n] = "idle"
  /\ ctr[n].refs = Kinds
  /\ SetPhase(n, "starting", "running")
  /\ held' = [held EXCEPT ![n] = mnt[n]]
  /\ UNCHANGED <<ec2Vars, netVars, mem, pc, req, cache, mnt, memFile, formats, faults, crashes>>

ContainerExits(n) ==
  /\ SetPhase(n, "running", "stopping")
  /\ held' = [held EXCEPT ![n] = NothingMounted]
  /\ UNCHANGED <<ec2Vars, netVars, mem, pc, req, cache, mnt, memFile, formats, faults, crashes>>

ContainerRemoved(n) ==
  /\ pc[n] = "idle"
  /\ RemoveContainer(n)
  /\ UNCHANGED <<ec2Vars, netVars, driverVars>>

Using(m, k) == {n \in Nodes : mnt[n][k] = m \/ held[n][k] = m}

EbsAttaches(m, k) == AttachCompletes(m, k) /\ UNCHANGED <<netVars, ctrVars, driverVars>>
EbsDetaches(m, k) == DetachCompletes(m, k, Using(m, k)) /\ UNCHANGED <<netVars, ctrVars, driverVars>>

(* What a restart makes of docker's pending call. *)
CallAborted(n) ==
  \/ pc[n] \in MountSteps /\ MountReturns(n, req[n].name, FALSE)
  \/ pc[n] \in UnmountSteps /\ UnmountReturns(n, req[n].name)
  \/ pc[n] = "idle" /\ UNCHANGED ctrVars

Crash == crashes < MaxCrashes /\ crashes' = crashes + 1

(* The plugin restarts: its memory is lost, the container keeps running. *)
DriverRestarts(n) ==
  /\ Crash
  /\ CallAborted(n)
  /\ Release(n)
  /\ cache' = [cache EXCEPT ![n] = NotCached]
  /\ UNCHANGED <<ec2Vars, netVars, mem, mnt, held, memFile, formats, faults>>

(* The node reboots: mounts, container and added addresses are lost too;    *)
(* the volumes stay attached to the instance.                               *)
NodeReboots(n) ==
  /\ Crash
  /\ Release(n)
  /\ ctr' = [ctr EXCEPT ![n] = NoContainer]
  /\ cache' = [cache EXCEPT ![n] = NotCached]
  /\ mnt' = [mnt EXCEPT ![n] = NothingMounted]
  /\ held' = [held EXCEPT ![n] = NothingMounted]
  /\ localIP' = [localIP EXCEPT ![n] = {}]
  /\ UNCHANGED <<ec2Vars, dns, ipRec, active, taskNode, mem, memFile, formats, faults>>

-----------------------------------------------------------------------------
MountStep(n) ==
  \/ ListTasks(n) \/ ListLocalIPs(n) \/ SelectMember(n)
  \/ CheckLastState(n) \/ DetachLastOwner(n) \/ WaitLastDetached(n)
  \/ GetLocalTask(n) \/ WriteOwner(n)
  \/ UpdateDNS(n) \/ WaitDNS(n)
  \/ GetInterface(n) \/ DropDanglingIP(n) \/ UnassignOldIP(n)
  \/ AssignLocalIP(n) \/ WriteIPRecord(n)
  \/ AttachVolumes(n) \/ UndoAttach(n) \/ WaitAttached(n) \/ AbortAttach(n)
  \/ FormatVolumes(n) \/ AddLocalIP(n) \/ MountVolumes(n)
  \/ CreateConfig(n) \/ UndoUmount(n) \/ UndoDetach(n)

UnmountStep(n) ==
  UnmountDeleteIP(n) \/ DeleteMemberFile(n) \/ UmountVolumes(n) \/ DetachVolumes(n)

DriverStep(n) == MountStep(n) \/ UnmountStep(n)

DockerStep(n) ==
  \/ \E k \in Kinds : MountRequest(n, k) \/ UnmountRequest(n, k)
  \/ Remove(n)
  \/ ContainerStarts(n) \/ ContainerExits(n) \/ ContainerRemoved(n)

SchedulerStep ==
  \/ \E t \in Tasks, n \in Nodes, slot \in Members \cup {None} : SchedulerStarts(t, n, slot)
  \/ \E t \in Tasks : SchedulerStops(t)

EbsStep == \E m \in Members, k \in Kinds : EbsAttaches(m, k) \/ EbsDetaches(m, k)

CrashStep(n) == DriverRestarts(n) \/ NodeReboots(n)

Next ==
  \/ \E n \in Nodes : DriverStep(n) \/ DockerStep(n) \/ CrashStep(n)
  \/ SchedulerStep
  \/ EbsStep

Spec == Init /\ [][Next]_vars

(* A driver that holds the lock keeps running: every call it makes returns  *)
(* and every polling loop is bounded.                                       *)
FairSpec == Spec /\ \A n \in Nodes : WF_vars(DriverStep(n))

-----------------------------------------------------------------------------
(* Properties *)

(* Steps of a Mount that has become the owner of req[n].m. *)
OwnedSteps == MountSteps \ {"list", "localIPs", "select", "lastState", "lastDetach",
                            "lastWait", "task", "cas"}

(* Concurrent Mounts of several nodes may select the same member.  Once the *)
(* conditional update of getMemberForTask succeeded, the record the driver  *)
(* works with is the one in the DB unless a later owner replaced it: no two *)
(* nodes ever take the same revision of a member.                           *)
OwnerIsLatest ==
  \A n \in Nodes : pc[n] \in OwnedSteps =>
    LET r == req[n].rec IN
    /\ r.server = n
    /\ r.rev <= mem[req[n].m].rev
    /\ r.rev = mem[req[n].m].rev => mem[req[n].m] = r

(* A file system is mounted, on the host or in a container, only on the     *)
(* node the volume is attached to: neither a takeover by another node nor   *)
(* a restart ever pulls the device from under it.                           *)
MountedWhereAttached ==
  \A m \in Members, k \in Kinds : \A n \in Using(m, k) :
    vol[m, k].at = n /\ vol[m, k].state \in {"in-use", "detaching"}

(* The driver implements the promise of MemberVolumes. *)
Users == [v \in Volumes |-> Using(v[1], v[2])]
Promise == INSTANCE MemberVolumes WITH users <- Users
ImplementsPromise == Promise!Spec

(* The volumes a driver remembers are the ones mounted on its host: a Mount *)
(* answered from the cache always finds the member's file systems there.    *)
CachedIsMounted ==
  \A n \in Nodes : pc[n] = "idle" /\ Cached(n) => \A k \in Kinds : mnt[n][k] = cache[n].m

(* A running container works on the volumes of one member, all of them, and *)
(* that member is the one its driver and the log driver know, through any   *)
(* sequence of takeovers.                                                   *)
ServedByItsMember ==
  \A n \in Nodes : ctr[n].phase = "running" =>
    \E m \in Members :
      /\ \A k \in Kinds : held[n][k] = m
      /\ Cached(n) => cache[n].m = m /\ memFile[n] = m
      /\ Cached(n) /\ RequireStaticIP => m \in localIP[n]

(* The connection count never falls below the mounts docker has on the      *)
(* volume, so only the last Unmount takes it away, and Remove never does.   *)
ConnectionsCoverRefs ==
  \A n \in Nodes :
    /\ Cached(n) => Cardinality(ctr[n].refs) <= cache[n].conns
    /\ crashes = 0 /\ ctr[n].refs # {} => Cached(n) \/ pc[n] = "detach"

(* Every request returns and releases the lock of the driver: each wait for *)
(* EBS or the DNS is bounded.                                               *)
RequestsReturn == \A n \in Nodes : (pc[n] # "idle") ~> (pc[n] = "idle")

(* An address is on a node's interface only for the member mounted there or *)
(* being mounted or unmounted.                                              *)
NoStrayIP ==
  \A n \in Nodes : \A m \in localIP[n] : cache[n].m = m \/ (pc[n] # "idle" /\ req[n].m = m)
=============================================================================
