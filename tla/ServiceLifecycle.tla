-------------------------- MODULE ServiceLifecycle --------------------------
(***************************************************************************)
(* The manage server (pkg/managesvc): it creates, initialises, scales,     *)
(* stops, starts and deletes the services of a cluster.  A request is one  *)
(* goroutine that reads and writes the DB and the container framework call *)
(* by call; every call is a step here.  The server may die between two     *)
(* calls and a call may fail: the request is then over and the user is     *)
(* expected to send it again.                                              *)
(*                                                                         *)
(* Device names are numbered in the order of GetNextDeviceName, /dev/xvdf  *)
(* first.  The config files are the subject of ConfigFiles.                *)
(***************************************************************************)
EXTENDS Naturals, FiniteSetsExt

CONSTANTS Services,       \* service names
          UUIDs,          \* the ids createService may generate
          Handlers,       \* requests the server works on at the same time
          MaxDevice,      \* number of device names EBS has
          HasJournal,     \* the services have a journal volume
          Replicas,       \* members of a new service
          ScaleTargets,   \* sizes a service may be scaled to
          Ops,            \* requests the users send
          Overlaps,       \* pairs of requests for one service that may overlap
          MaxDeviceRetry, \* maxRetryCount of createDevice
          MaxFaults,      \* bound on failed calls
          MaxCrashes,     \* bound on crashes of the server
          None

Devices == 1..MaxDevice
AllOps == {"create", "delete", "init", "scale", "stop", "start", "resource"}

ASSUME LifecycleAssumption ==
  /\ MaxDevice \in Nat \ {0} /\ MaxDeviceRetry \in Nat \ {0}
  /\ MaxFaults \in Nat /\ MaxCrashes \in Nat
  /\ Replicas \in Nat \ {0} /\ ScaleTargets \subseteq Nat
  /\ HasJournal \in BOOLEAN
  /\ Ops \subseteq AllOps /\ Overlaps \subseteq AllOps \X AllOps
  /\ None \notin Services \cup UUIDs \cup Nat

VARIABLES
  dev,      \* dev[d]: the service the Device record of d names
  svc,      \* svc[s]: the uuid in the Service record of s
  attr,     \* attr[u]: the ServiceAttr record
  res,      \* res[u]: members whose volumes, static ip and config files exist
  members,  \* members[u]: members that have a ServiceMember record
  ctr,      \* ctr[s]: the service in the container framework: task count, resources
  goal,     \* goal[s]: what the user wants of the service
  req,      \* req[h]: the request of a handler
  faults, crashes

dbVars == <<dev, svc, attr, res, members>>
budget == <<faults, crashes>>
vars == <<dbVars, ctr, goal, req, budget>>

Targets == {Replicas} \cup ScaleTargets
MemberIds == UNION {1..n : n \in Targets}
Statuses == {"CREATING", "INITIALIZING", "ACTIVE", "DELETING"}
Attrs == [name : Services, status : Statuses, rev : Nat, primary : Devices,
          journal : Devices \cup {None}, replicas : MemberIds, resource : {"old", "new"}]
Deployments == [count : MemberIds \cup {0}, resource : {"old", "new"}]
ASSUME RecordsAssumption == None \notin Attrs \cup Deployments

Steps == {"idle", "listDev", "putDev", "putSvc", "getSvc", "putAttr", "getAttr",
          "members", "resources", "member", "status", "ctrExist", "ctrCreate",
          "uuid", "attr", "ctrStop", "ctrDelete", "uuidAgain", "attrAgain",
          "mark", "list", "clean", "delMember", "delDev", "delJournal", "delAttr",
          "delSvc", "active",
          "ctrScale", "ctrUpdate", "update"}
Requests == [op : Ops \cup {None}, s : Services \cup {None}, pc : Steps,
             u : UUIDs \cup {None}, rec : Attrs \cup {None},
             primary : Devices \cup {None}, journal : Devices \cup {None},
             d : Devices \cup {None}, tries : 0..MaxDeviceRetry,
             todo : SUBSET MemberIds, size : Targets]

NoRequest == [op |-> None, s |-> None, pc |-> "idle", u |-> None, rec |-> None,
              primary |-> None, journal |-> None, d |-> None, tries |-> 0,
              todo |-> {}, size |-> Replicas]

(* Every variable keeps its type through all the steps. *)
TypeOK ==
  /\ dev \in [Devices -> Services \cup {None}]
  /\ svc \in [Services -> UUIDs \cup {None}]
  /\ attr \in [UUIDs -> Attrs \cup {None}]
  /\ res \in [UUIDs -> SUBSET MemberIds]
  /\ members \in [UUIDs -> SUBSET MemberIds]
  /\ ctr \in [Services -> Deployments \cup {None}]
  /\ goal \in [Services -> {"create", "delete"}]
  /\ req \in [Handlers -> Requests]
  /\ faults \in 0..MaxFaults /\ crashes \in 0..MaxCrashes

Init ==
  /\ dev = [d \in Devices |-> None]
  /\ svc = [s \in Services |-> None]
  /\ attr = [u \in UUIDs |-> None]
  /\ res = [u \in UUIDs |-> {}]
  /\ members = [u \in UUIDs |-> {}]
  /\ ctr = [s \in Services |-> None]
  /\ goal = [s \in Services |-> "create"]
  /\ req = [h \in Handlers |-> NoRequest]
  /\ faults = 0 /\ crashes = 0

-----------------------------------------------------------------------------
(* Building blocks of the steps *)

At(h, step) == req[h].pc = step
Become(h, r) == req' = [req EXCEPT ![h] = r]
Goto(h, step) == Become(h, [req[h] EXCEPT !.pc = step])
Return(h) == Become(h, NoRequest)

(* UpdateServiceAttr is conditional on the revision of the record that was  *)
(* read.                                                                    *)
Mutant_UpdateAnyway(u, old, new, ok) == ok /\ attr' = [attr EXCEPT ![u] = new]
UpdateServiceAttr(u, old, new, ok) ==
  /\ ok = (attr[u] # None /\ attr[u].rev = old.rev)
  /\ attr' = IF ok THEN [attr EXCEPT ![u] = new] ELSE attr

UpdateServiceStatus(a, status) == [a EXCEPT !.status = status, !.rev = @ + 1]

-----------------------------------------------------------------------------
(* The users *)

(* A request arrives.  Requests for one name overlap only as far as         *)
(* Overlaps says.  The resources change once (a bound).                     *)
FirstStep(op) == IF op = "create" THEN "listDev" ELSE "uuid"
Wanted(op) == IF op = "delete" THEN "delete" ELSE "create"
Sizes(op) == IF op = "scale" THEN ScaleTargets ELSE {Replicas}

Begin(h, op, s) ==
  /\ At(h, "idle")
  /\ goal[s] = Wanted(op)
  /\ op = "resource" => ctr[s] # None /\ ctr[s].resource = "old"
  /\ \A g \in Handlers : req[g].s = s => <<op, req[g].op>> \in Overlaps
  /\ \E size \in Sizes(op) :
       Become(h, [NoRequest EXCEPT !.op = op, !.s = s, !.pc = FirstStep(op), !.size = size])
  /\ UNCHANGED <<dbVars, ctr, goal, budget>>

(* A user decides to delete a service, or to create it again. *)
ChangeGoal(s) ==
  /\ "delete" \in Ops
  /\ \/ goal[s] = "create" /\ svc[s] # None /\ goal' = [goal EXCEPT ![s] = "delete"]
     \/ goal[s] = "delete" /\ svc[s] = None /\ goal' = [goal EXCEPT ![s] = "create"]
  /\ UNCHANGED <<dbVars, ctr, req, budget>>

-----------------------------------------------------------------------------
(* CreateService *)

(* assignDeviceName: the first device of the service other than the one     *)
(* just assigned; otherwise the device after the last one in use.           *)
UsedDevices == {d \in Devices : dev[d] # None}
OwnDevices(h) == {d \in Devices : dev[d] = req[h].s} \ {req[h].primary}
NextDevice(h) ==
  IF UsedDevices # {} THEN Max(UsedDevices) + 1
  ELSE IF req[h].primary # 1 THEN 1 ELSE 2

(* A device is found or created: the journal volume's is next. *)
Assigned(h, d) ==
  IF req[h].primary = None
  THEN Become(h, [req[h] EXCEPT !.primary = d, !.d = None, !.tries = 0,
                                !.pc = IF HasJournal THEN "listDev" ELSE "putSvc"])
  ELSE Become(h, [req[h] EXCEPT !.journal = d, !.d = None, !.tries = 0, !.pc = "putSvc"])

Mutant_NoLimit(h) ==
  /\ At(h, "listDev")
  /\ \/ OwnDevices(h) # {} /\ Assigned(h, Min(OwnDevices(h)))
     \/ OwnDevices(h) = {} /\ Become(h, [req[h] EXCEPT !.d = NextDevice(h), !.pc = "putDev"])
  /\ UNCHANGED <<dbVars, ctr, goal, budget>>
AssignDeviceName(h) ==
  /\ At(h, "listDev")
  /\ \/ OwnDevices(h) # {} /\ Assigned(h, Min(OwnDevices(h)))
     \/ /\ OwnDevices(h) = {} /\ NextDevice(h) \in Devices
        /\ Become(h, [req[h] EXCEPT !.d = NextDevice(h), !.pc = "putDev"])
     \/ OwnDevices(h) = {} /\ NextDevice(h) \notin Devices /\ Return(h)
  /\ UNCHANGED <<dbVars, ctr, goal, budget>>

(* CreateDevice is conditional: if somebody else has taken the name, list   *)
(* the devices again, MaxDeviceRetry times in all.                          *)
Mutant_StealDevice(h) ==
  At(h, "putDev") /\ dev' = [dev EXCEPT ![req[h].d] = req[h].s] /\ Assigned(h, req[h].d)
                  /\ UNCHANGED <<svc, attr, res, members, ctr, goal, budget>>
CreateDevice(h) ==
  /\ At(h, "putDev")
  /\ LET d == req[h].d IN
     \/ dev[d] = None /\ dev' = [dev EXCEPT ![d] = req[h].s] /\ Assigned(h, d)
     \/ /\ dev[d] # None /\ req[h].tries + 1 < MaxDeviceRetry
        /\ Become(h, [req[h] EXCEPT !.d = None, !.tries = @ + 1, !.pc = "listDev"])
        /\ UNCHANGED dev
     \/ /\ dev[d] # None /\ req[h].tries + 1 = MaxDeviceRetry
        /\ Return(h)
        /\ UNCHANGED dev
  /\ UNCHANGED <<svc, attr, res, members, ctr, goal, budget>>

(* The Service record gives the name a fresh uuid, or has one already. *)
FreshUUIDs == {u \in UUIDs : attr[u] = None /\ res[u] = {} /\ members[u] = {}
                             /\ \A s \in Services : svc[s] # u
                             /\ \A h \in Handlers : req[h].u # u}
CreateServiceItem(h) ==
  /\ At(h, "putSvc")
  /\ \/ /\ svc[req[h].s] = None
        /\ \E u \in FreshUUIDs :
             /\ svc' = [svc EXCEPT ![req[h].s] = u]
             /\ Become(h, [req[h] EXCEPT !.u = u, !.pc = "putAttr"])
     \/ svc[req[h].s] # None /\ Goto(h, "getSvc") /\ UNCHANGED svc
  /\ UNCHANGED <<dev, attr, res, members, ctr, goal, budget>>

GetServiceItem(h) ==
  /\ At(h, "getSvc")
  /\ \/ svc[req[h].s] # None /\ Become(h, [req[h] EXCEPT !.u = svc[req[h].s], !.pc = "putAttr"])
     \/ svc[req[h].s] = None /\ Return(h)
  /\ UNCHANGED <<dbVars, ctr, goal, budget>>

NewAttr(h) == [name |-> req[h].s, status |-> "CREATING", rev |-> 0,
               primary |-> req[h].primary, journal |-> req[h].journal,
               replicas |-> Replicas, resource |-> "old"]

CreateServiceAttr(h) ==
  /\ At(h, "putAttr")
  /\ \/ /\ attr[req[h].u] = None
        /\ attr' = [attr EXCEPT ![req[h].u] = NewAttr(h)]
        /\ Become(h, [req[h] EXCEPT !.rec = NewAttr(h), !.pc = "members"])
     \/ attr[req[h].u] # None /\ Goto(h, "getAttr") /\ UNCHANGED attr
  /\ UNCHANGED <<dev, svc, res, members, ctr, goal, budget>>

(* The record exists.  Unless it is what this request would write, status   *)
(* and revision aside, the name is taken; otherwise this is a retry, which  *)
(* goes on from where the status says the first try got to.                 *)
EqualServiceAttr(a, b) == a = [b EXCEPT !.status = a.status, !.rev = a.rev]

Mutant_NoResume(h) ==
  /\ At(h, "getAttr")
  /\ LET a == attr[req[h].u] IN
     \/ a # None /\ a.status \in {"INITIALIZING", "ACTIVE"} /\ Goto(h, "ctrExist")
     \/ (a # None => a.status \in {"CREATING", "DELETING"}) /\ Return(h)
  /\ UNCHANGED <<dbVars, ctr, goal, budget>>
CheckServiceAttr(h) ==
  /\ At(h, "getAttr")
  /\ LET a == attr[req[h].u]
         retry == a # None /\ EqualServiceAttr(a, NewAttr(h)) IN
     \/ retry /\ a.status = "CREATING" /\ Become(h, [req[h] EXCEPT !.rec = a, !.pc = "members"])
     \/ retry /\ a.status \in {"INITIALIZING", "ACTIVE"} /\ Goto(h, "ctrExist")
     \/ (retry => a.status = "DELETING") /\ Return(h)
  /\ UNCHANGED <<dbVars, ctr, goal, budget>>

-----------------------------------------------------------------------------
(* CheckAndCreateServiceMembers, for a new service and for a larger one *)

MembersDone(op) == IF op = "create" THEN "status" ELSE "ctrScale"
TodoLeft(h, todo) ==
  Become(h, [req[h] EXCEPT !.todo = todo,
                           !.pc = IF todo = {} THEN MembersDone(req[h].op) ELSE "resources"])

(* The members found are taken to be the first ones: the loop starts at     *)
(* their number.                                                            *)
Mutant_SkipOne(h) ==
  /\ At(h, "members")
  /\ TodoLeft(h, (Cardinality(members[req[h].u]) + 2)..req[h].size)
  /\ UNCHANGED <<dbVars, ctr, goal, budget>>
CountMembers(h) ==
  /\ At(h, "members")
  /\ TodoLeft(h, (Cardinality(members[req[h].u]) + 1)..req[h].size)
  /\ UNCHANGED <<dbVars, ctr, goal, budget>>

(* Static ip, DNS record, config files and volumes of the next member. *)
CreateMemberResources(h) ==
  /\ At(h, "resources")
  /\ res' = [res EXCEPT ![req[h].u] = @ \cup {Min(req[h].todo)}]
  /\ Goto(h, "member")
  /\ UNCHANGED <<dev, svc, attr, members, ctr, goal, budget>>

(* CreateServiceMember is conditional; that the record exists is an error. *)
CreateServiceMember(h) ==
  /\ At(h, "member")
  /\ LET u == req[h].u
         m == Min(req[h].todo) IN
     \/ /\ m \notin members[u]
        /\ members' = [members EXCEPT ![u] = @ \cup {m}]
        /\ TodoLeft(h, req[h].todo \ {m})
     \/ m \in members[u] /\ Return(h) /\ UNCHANGED members
  /\ UNCHANGED <<dev, svc, attr, res, ctr, goal, budget>>

(* The volumes are there: the status becomes INITIALIZING. *)
SetInitializing(h) ==
  /\ At(h, "status")
  /\ \E ok \in BOOLEAN :
       /\ UpdateServiceAttr(req[h].u, req[h].rec, UpdateServiceStatus(req[h].rec, "INITIALIZING"), ok)
       /\ IF ok THEN Goto(h, "ctrExist") ELSE Return(h)
  /\ UNCHANGED <<dev, svc, res, members, ctr, goal, budget>>

-----------------------------------------------------------------------------
(* The container framework *)

IsServiceExist(h) ==
  /\ At(h, "ctrExist")
  /\ IF ctr[req[h].s] = None THEN Goto(h, "ctrCreate") ELSE Return(h)
  /\ UNCHANGED <<dbVars, ctr, goal, budget>>

CreateContainerService(h) ==
  /\ At(h, "ctrCreate")
  /\ ctr' = IF ctr[req[h].s] # None THEN ctr
            ELSE [ctr EXCEPT ![req[h].s] = [count |-> req[h].size, resource |-> "old"]]
  /\ Return(h)
  /\ UNCHANGED <<dbVars, goal, budget>>

StopContainers(h) ==
  /\ At(h, "ctrStop")
  /\ ctr' = IF ctr[req[h].s] = None THEN ctr ELSE [ctr EXCEPT ![req[h].s].count = 0]
  /\ IF req[h].op = "delete" THEN Goto(h, "ctrDelete") ELSE Return(h)
  /\ UNCHANGED <<dbVars, goal, budget>>

DeleteContainerService(h) ==
  /\ At(h, "ctrDelete")
  /\ ctr' = [ctr EXCEPT ![req[h].s] = None]
  /\ Goto(h, "uuidAgain")
  /\ UNCHANGED <<dbVars, goal, budget>>

(* ScaleService: to the new size, or to the one in the record at a start. *)
ScaleContainers(h) ==
  /\ At(h, "ctrScale")
  /\ LET count == IF req[h].op = "start" THEN req[h].rec.replicas ELSE req[h].size IN
     \/ /\ ctr[req[h].s] # None
        /\ ctr' = [ctr EXCEPT ![req[h].s].count = count]
        /\ IF req[h].op = "start" THEN Return(h) ELSE Goto(h, "update")
     \/ ctr[req[h].s] = None /\ Return(h) /\ UNCHANGED ctr
  /\ UNCHANGED <<dbVars, goal, budget>>

UpdateContainerService(h) ==
  /\ At(h, "ctrUpdate")
  /\ \/ /\ ctr[req[h].s] # None
        /\ ctr' = [ctr EXCEPT ![req[h].s].resource = "new"]
        /\ Goto(h, "update")
     \/ ctr[req[h].s] = None /\ Return(h) /\ UNCHANGED ctr
  /\ UNCHANGED <<dbVars, goal, budget>>

-----------------------------------------------------------------------------
(* The requests for a service that exists *)

(* Every handler first reads the Service and the ServiceAttr records. *)
GetService(h) ==
  /\ \/ At(h, "uuid") /\ svc[req[h].s] # None
        /\ Become(h, [req[h] EXCEPT !.u = svc[req[h].s], !.pc = "attr"])
     \/ At(h, "uuidAgain") /\ svc[req[h].s] # None
        /\ Become(h, [req[h] EXCEPT !.u = svc[req[h].s], !.pc = "attrAgain"])
     \/ At(h, "uuid") /\ svc[req[h].s] = None /\ Return(h)
     \/ At(h, "uuidAgain") /\ svc[req[h].s] = None /\ Return(h)
  /\ UNCHANGED <<dbVars, ctr, goal, budget>>

Mutant_ScaleFirst(op) ==
  CASE op \in {"delete", "stop"} -> "ctrStop"
    [] op = "init" -> "uuidAgain"
    [] op \in {"start", "scale"} -> "ctrScale"
    [] op = "resource" -> "ctrUpdate"
AfterAttr(op) ==
  CASE op \in {"delete", "stop"} -> "ctrStop"
    [] op = "init" -> "uuidAgain"
    [] op = "start" -> "ctrScale"
    [] op = "resource" -> "ctrUpdate"
    [] op = "scale" -> "members"

GetServiceAttr(h) ==
  /\ At(h, "attr")
  /\ LET a == attr[req[h].u]
         goesOn == a # None /\ (req[h].op = "scale" => req[h].size > a.replicas) IN
     \/ goesOn /\ Become(h, [req[h] EXCEPT !.rec = a, !.pc = AfterAttr(req[h].op)])
     \/ ~goesOn /\ Return(h)
  /\ UNCHANGED <<dbVars, ctr, goal, budget>>

(* The conditional update that ends a change of size or resources. *)
UpdatedAttr(h) ==
  [req[h].rec EXCEPT !.rev = @ + 1,
                     !.replicas = IF req[h].op = "scale" THEN req[h].size ELSE @,
                     !.resource = IF req[h].op = "resource" THEN "new" ELSE @]
UpdateAttr(h) ==
  /\ At(h, "update")
  /\ \E ok \in BOOLEAN : UpdateServiceAttr(req[h].u, req[h].rec, UpdatedAttr(h), ok)
  /\ Return(h)
  /\ UNCHANGED <<dev, svc, res, members, ctr, goal, budget>>

(* SetServiceInitialized: INITIALIZING becomes ACTIVE. *)
ReadForInit(h) ==
  /\ At(h, "attrAgain") /\ req[h].op = "init"
  /\ LET a == attr[req[h].u] IN
     \/ a # None /\ a.status = "INITIALIZING" /\ Become(h, [req[h] EXCEPT !.rec = a, !.pc = "active"])
     \/ (a # None => a.status # "INITIALIZING") /\ Return(h)
  /\ UNCHANGED <<dbVars, ctr, goal, budget>>

SetActive(h) ==
  /\ At(h, "active")
  /\ \E ok \in BOOLEAN :
       UpdateServiceAttr(req[h].u, req[h].rec, UpdateServiceStatus(req[h].rec, "ACTIVE"), ok)
  /\ Return(h)
  /\ UNCHANGED <<dev, svc, res, members, ctr, goal, budget>>

-----------------------------------------------------------------------------
(* DeleteService *)

(* No attr record is left: only the Service record has to go.  Otherwise    *)
(* the service is marked, unless an earlier try has done so.                *)
ReadForDelete(h) ==
  /\ At(h, "attrAgain") /\ req[h].op = "delete"
  /\ LET a == attr[req[h].u] IN
     \/ a = None /\ Goto(h, "delSvc")
     \/ /\ a # None
        /\ Become(h, [req[h] EXCEPT !.rec = a,
                                    !.pc = IF a.status = "DELETING" THEN "list" ELSE "mark"])
  /\ UNCHANGED <<dbVars, ctr, goal, budget>>

MarkDeleting(h) ==
  /\ At(h, "mark")
  /\ \E ok \in BOOLEAN :
       /\ UpdateServiceAttr(req[h].u, req[h].rec, UpdateServiceStatus(req[h].rec, "DELETING"), ok)
       /\ IF ok THEN Goto(h, "list") ELSE Return(h)
  /\ UNCHANGED <<dev, svc, res, members, ctr, goal, budget>>

Mutant_ListByReplicas(h) ==
  /\ At(h, "list")
  /\ Become(h, [req[h] EXCEPT !.todo = 1..req[h].rec.replicas, !.pc = "clean"])
  /\ UNCHANGED <<dbVars, ctr, goal, budget>>
ListServiceMembers(h) ==
  /\ At(h, "list")
  /\ Become(h, [req[h] EXCEPT !.todo = members[req[h].u], !.pc = "clean"])
  /\ UNCHANGED <<dbVars, ctr, goal, budget>>

(* DNS record, static ip and config files of every member, and its volumes  *)
(* are detached.                                                            *)
CleanMembers(h) ==
  /\ At(h, "clean")
  /\ LET left == req[h].todo \cap res[req[h].u] IN
     \/ left # {} /\ res' = [res EXCEPT ![req[h].u] = @ \ {Min(left)}] /\ UNCHANGED req
     \/ left = {} /\ Goto(h, "delMember") /\ UNCHANGED res
  /\ UNCHANGED <<dev, svc, attr, members, ctr, goal, budget>>

DeleteServiceMembers(h) ==
  /\ At(h, "delMember")
  /\ LET todo == req[h].todo
         u == req[h].u IN
     \/ /\ todo # {}
        /\ members' = [members EXCEPT ![u] = @ \ {Min(todo)}]
        /\ Become(h, [req[h] EXCEPT !.todo = @ \ {Min(todo)}])
     \/ todo = {} /\ Goto(h, "delDev") /\ UNCHANGED members
  /\ UNCHANGED <<dev, svc, attr, res, ctr, goal, budget>>

(* deleteDevices: by name, whoever the record names. *)
DeleteDevice(h, d) == dev' = IF d = None THEN dev ELSE [dev EXCEPT ![d] = None]

DeleteDevices(h) ==
  /\ \/ At(h, "delDev") /\ DeleteDevice(h, req[h].rec.primary) /\ Goto(h, "delJournal")
     \/ At(h, "delJournal") /\ DeleteDevice(h, req[h].rec.journal) /\ Goto(h, "delAttr")
  /\ UNCHANGED <<svc, attr, res, members, ctr, goal, budget>>

DeleteServiceAttr(h) ==
  /\ At(h, "delAttr")
  /\ attr' = [attr EXCEPT ![req[h].u] = None]
  /\ Goto(h, "delSvc")
  /\ UNCHANGED <<dev, svc, res, members, ctr, goal, budget>>

(* The Service record is deleted by the name. *)
DeleteServiceItem(h) ==
  /\ At(h, "delSvc")
  /\ svc' = [svc EXCEPT ![req[h].s] = None]
  /\ Return(h)
  /\ UNCHANGED <<dev, attr, res, members, ctr, goal, budget>>

-----------------------------------------------------------------------------
(* Failures *)

(* A call fails and the handler returns the error.  A call that takes       *)
(* effect but whose answer is lost looks like the next call failing.        *)
Fault(h) ==
  /\ ~At(h, "idle") /\ faults < MaxFaults
  /\ Return(h)
  /\ faults' = faults + 1
  /\ UNCHANGED <<dbVars, ctr, goal, crashes>>

(* The manage server dies and is started again. *)
Crash ==
  /\ crashes < MaxCrashes
  /\ \E h \in Handlers : ~At(h, "idle")
  /\ req' = [h \in Handlers |-> NoRequest]
  /\ crashes' = crashes + 1
  /\ UNCHANGED <<dbVars, ctr, goal, faults>>

-----------------------------------------------------------------------------

CreateStep(h) ==
  \/ AssignDeviceName(h) \/ CreateDevice(h) \/ CreateServiceItem(h) \/ GetServiceItem(h)
  \/ CreateServiceAttr(h) \/ CheckServiceAttr(h) \/ SetInitializing(h)
  \/ IsServiceExist(h) \/ CreateContainerService(h)
MemberStep(h) == CountMembers(h) \/ CreateMemberResources(h) \/ CreateServiceMember(h)
UpdateStep(h) ==
  \/ GetService(h) \/ GetServiceAttr(h) \/ ReadForInit(h) \/ SetActive(h) \/ StopContainers(h)
  \/ ScaleContainers(h) \/ UpdateContainerService(h) \/ UpdateAttr(h)
DeleteStep(h) ==
  \/ DeleteContainerService(h) \/ ReadForDelete(h) \/ MarkDeleting(h) \/ ListServiceMembers(h)
  \/ CleanMembers(h) \/ DeleteServiceMembers(h) \/ DeleteDevices(h) \/ DeleteServiceAttr(h)
  \/ DeleteServiceItem(h)
HandlerStep(h) == CreateStep(h) \/ MemberStep(h) \/ UpdateStep(h) \/ DeleteStep(h)

Next ==
  \/ \E h \in Handlers : HandlerStep(h) \/ Fault(h)
  \/ \E h \in Handlers, op \in Ops, s \in Services : Begin(h, op, s)
  \/ \E s \in Services : ChangeGoal(s)
  \/ Crash

Spec == Init /\ [][Next]_vars

(* A request goes on by itself, and the users send a create or a delete     *)
(* until it has worked.  The server starts a goroutine for every request:   *)
(* that Handlers are busy with others (a bound) never keeps one out.        *)
FairSpec ==
  /\ Spec
  /\ \A h \in Handlers : WF_vars(HandlerStep(h))
  /\ \A s \in Services, op \in {"create", "delete"} \cap Ops :
       SF_vars(\E h \in Handlers : Begin(h, op, s))

-----------------------------------------------------------------------------
(* Properties *)

(* One device is assigned to one service: no two services that are not      *)
(* being deleted have the same device (createDevice, deleteDevices).        *)
DevicesOf(u) == {attr[u].primary, attr[u].journal} \ {None}
DeviceUnique ==
  \A u, v \in UUIDs :
    /\ u # v /\ attr[u] # None /\ attr[v] # None
    /\ attr[u].status # "DELETING" /\ attr[v].status # "DELETING"
    => DevicesOf(u) \cap DevicesOf(v) = {}

(* A service that counts as created, or as scaled, has the record and the   *)
(* resources of each of its members (CheckAndCreateServiceMembers), so      *)
(* that any task of it can get a member.                                    *)
MembersComplete ==
  \A u \in UUIDs :
    attr[u] # None /\ attr[u].status \in {"INITIALIZING", "ACTIVE"}
    => 1..attr[u].replicas \subseteq members[u] \cap res[u]

(* The framework never runs more tasks of a service than it has members. *)
TasksHaveMembers ==
  \A s \in Services : ctr[s] # None =>
    /\ svc[s] # None
    /\ 1..ctr[s].count \subseteq members[svc[s]]

(* A deleted service leaves no member record: the attr record, without      *)
(* which no delete finds the members again, is deleted last.                *)
NoOrphanMember == \A u \in UUIDs : attr[u] = None => members[u] = {}

(* Updates of the attr record do not undo each other: the status goes       *)
(* forward, the size grows, new resources stay (UpdateServiceAttr).         *)
Rank == [CREATING |-> 0, INITIALIZING |-> 1, ACTIVE |-> 2, DELETING |-> 3]
Undoes(a, b) ==
  \/ Rank[b.status] < Rank[a.status]
  \/ b.replicas < a.replicas
  \/ a.resource = "new" /\ b.resource = "old"
NoLostUpdate ==
  [][\A u \in UUIDs : attr[u] # None /\ attr'[u] # None => ~Undoes(attr[u], attr'[u])]_vars

(* Whatever fails, sending the create request again gets the service        *)
(* created in the end.                                                      *)
Created(s) ==
  /\ ctr[s] # None /\ svc[s] # None /\ attr[svc[s]] # None
  /\ attr[svc[s]].status \in {"INITIALIZING", "ACTIVE"}
CreationCompletes == \A s \in Services : goal[s] = "create" ~> Created(s) \/ goal[s] = "delete"

(* Whatever fails, sending the delete request again gets the service        *)
(* deleted in the end.                                                      *)
DeletionCompletes == \A s \in Services : goal[s] = "delete" ~> svc[s] = None
=============================================================================
