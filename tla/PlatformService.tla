-------------------------- MODULE PlatformService --------------------------
(***************************************************************************)
(* One service on the container platform: what the three implementations   *)
(* of containersvc.ContainerSvc (awsecs/ecs.go, swarm/swarmservice.go,     *)
(* k8s/k8sservice.go) create, change and remove for the create, update,    *)
(* scale, stop and delete requests of the manage server.                   *)
(*                                                                         *)
(*   ECS    the service and the ACTIVE revisions of its task definition    *)
(*          family; UpdateService changes only the fields it is given.     *)
(*   Swarm  the service, replaced as a whole and only when the version     *)
(*          that was inspected is still the current one.                   *)
(*   K8s    the statefulset, replaced like a Swarm service, the headless   *)
(*          service, which selects the pods by the uuid of the service,    *)
(*          and one storage class per volume.                              *)
(*                                                                         *)
(* Every platform call is a step.  A specification is abstracted to the    *)
(* uuid it was made for and the set of changes it has received.  A create  *)
(* and a delete run alone; the other requests overlap freely.              *)
(***************************************************************************)
EXTENDS Naturals

CONSTANTS Platforms,    \* the platforms a behaviour may choose from
          Handlers,     \* request handlers of the manage server
          UUIDs,        \* uuids for the incarnations of the service
          Changes,      \* what an update may change
          HasJournal,   \* the service has a journal volume
          Counts,       \* what a scale request asks for
          Replicas,     \* what the service is created with
          MaxRequests,  \* bound: update, scale and stop requests
          MaxFaults,    \* bound: platform calls that fail
          MaxCrashes,   \* bound: restarts of the manage server
          None

ASSUME PlatformsAssumption == Platforms \subseteq {"ecs", "swarm", "k8s"}
ASSUME UUIDsAssumption == None \notin UUIDs
ASSUME BoundsAssumption == {MaxRequests, MaxFaults, MaxCrashes, Replicas} \subseteq Nat
                           /\ Counts \subseteq Nat /\ HasJournal \in BOOLEAN

VARIABLES platform,   \* ManageHTTPServer.platform
          rec,        \* the uuid of the service record in the DB
          fresh,      \* uuids not used yet
          svc,        \* the ECS service, swarm service or statefulset
          objs,       \* K8s: the uuid each further object was created for
          defs,       \* ECS: the ACTIVE task definitions of the family
          revs,       \* ECS: revisions registered so far
          call,       \* call[h]: the request handler h works on
          acked,      \* changes acknowledged since the service was created
          deleting,   \* the client asks for the deletion until it succeeds
          budget      \* requests, faults and crashes left

vars == <<platform, rec, fresh, svc, objs, defs, revs, call, acked, deleting, budget>>

Parts == {"headless", "data", "journal"}
Services == [st : {"none", "active", "inactive"}, uuid : UUIDs \cup {None}, desired : Nat,
             ver : Nat, spec : SUBSET Changes, def : Nat]
Definitions == [rev : Nat, uuid : UUIDs, spec : SUBSET Changes]
NoService == [st |-> "none", uuid |-> None, desired |-> 0, ver |-> 0, spec |-> {}, def |-> 0]

Ops == {"none", "create", "update", "scale", "stop", "delete"}
Idle == [op |-> "none", pc |-> "idle", arg |-> None, seen |-> NoService, rev |-> 0]

(* The state of every variable is of its kind. *)
TypeOK ==
  /\ platform \in Platforms
  /\ rec \in UUIDs \cup {None} /\ fresh \subseteq UUIDs
  /\ svc \in Services /\ defs \subseteq Definitions /\ revs \in Nat
  /\ objs \in [Parts -> UUIDs \cup {None}]
  /\ acked \subseteq Changes /\ deleting \in BOOLEAN
  /\ \A h \in Handlers : call[h].op \in Ops /\ call[h].seen \in Services
  /\ budget \in [request : Nat, fault : Nat, crash : Nat]

Init ==
  /\ platform \in Platforms
  /\ rec = None /\ fresh = UUIDs
  /\ svc = NoService /\ defs = {} /\ revs = 0
  /\ objs = [p \in Parts |-> None]
  /\ call = [h \in Handlers |-> Idle]
  /\ acked = {} /\ deleting = FALSE
  /\ budget = [request |-> MaxRequests, fault |-> MaxFaults, crash |-> MaxCrashes]

-----------------------------------------------------------------------------
Goto(h, pc) == call' = [call EXCEPT ![h].pc = pc]
Remember(h, pc, s, r) == call' = [call EXCEPT ![h].pc = pc, ![h].seen = s, ![h].rev = r]
Return(h) == call' = [call EXCEPT ![h] = Idle]

At(h, p, op, pc) == platform \in p /\ call[h].op = op /\ call[h].pc = pc

(* The DB part of a request: a new record takes a new uuid, the others read *)
(* the record (GetService).                                                 *)
Alone(op) == \A g \in Handlers : \/ call[g].op = "none"
                                 \/ {op, call[g].op} \cap {"create", "delete"} = {}
FirstCall(op) == CASE op = "create" -> "exist"
                   [] op = "update" -> IF platform = "ecs" THEN "describe" ELSE "get"
                   [] OTHER -> IF platform = "ecs" THEN "count" ELSE "get"
Begin(h, op, arg) ==
  /\ call[h] = Idle /\ Alone(op)
  /\ deleting => op = "delete"
  /\ IF op \in {"create", "delete"} THEN UNCHANGED budget
     ELSE budget.request > 0 /\ budget' = [budget EXCEPT !.request = @ - 1]
  /\ IF op = "create"
     THEN \/ rec # None /\ UNCHANGED <<rec, fresh>>
          \/ rec = None /\ \E u \in fresh : rec' = u /\ fresh' = fresh \ {u}
     ELSE rec # None /\ UNCHANGED <<rec, fresh>>
  /\ deleting' = (deleting \/ op = "delete")
  /\ call' = [call EXCEPT ![h] = [Idle EXCEPT !.op = op, !.arg = arg, !.pc = FirstCall(op)]]
  /\ UNCHANGED <<platform, svc, objs, defs, revs, acked>>

createService(h) == Begin(h, "create", None)
updateServiceResource(h) == \E c \in Changes : Begin(h, "update", c)
scaleService(h) == \E n \in Counts : Begin(h, "scale", n)
(* A start scales to the replicas of the record: the first or a later count. *)
startService(h) == \E n \in {Replicas} \cup Counts : Begin(h, "scale", n)
stopService(h) == Begin(h, "stop", None)
deleteService(h) == Begin(h, "delete", None)

-----------------------------------------------------------------------------
(* createService of the manage server asks first; an INACTIVE ECS service   *)
(* does not exist.                                                          *)
FirstCreate == CASE platform = "ecs" -> "def" [] platform = "swarm" -> "create"
                 [] OTHER -> "headless"
IsServiceExist(h) ==
  /\ At(h, Platforms, "create", "exist")
  /\ IF svc.st = "active" THEN Return(h) ELSE Goto(h, FirstCreate)
  /\ UNCHANGED <<platform, rec, fresh, svc, objs, defs, revs, acked, deleting, budget>>

(* What genCreateServiceOptions asks for: the uuid of the record. *)
NewService(rev) == [st |-> "active", uuid |-> rec, desired |-> Replicas,
                    ver |-> 0, spec |-> {}, def |-> rev]

checkTaskDefExist == defs # {}
Latest == CHOOSE d \in defs : \A x \in defs : x.rev <= d.rev
Register(d) == /\ revs' = revs + 1
               /\ defs' = defs \cup {[d EXCEPT !.rev = revs + 1]}
Mutant_DefinitionOfOld == [rev |-> 0, uuid |-> svc.uuid, spec |-> {}]
NewDefinition == [rev |-> 0, uuid |-> rec, spec |-> {}]

(* A family that has an ACTIVE revision is used as it is. *)
EcsTaskDefinition(h) ==
  /\ At(h, {"ecs"}, "create", "def")
  /\ \/ /\ checkTaskDefExist
        /\ Remember(h, "create", NoService, Latest.rev)
        /\ UNCHANGED <<defs, revs>>
     \/ /\ ~checkTaskDefExist /\ Register(NewDefinition)
        /\ Remember(h, "create", NoService, revs + 1)
  /\ UNCHANGED <<platform, rec, fresh, svc, objs, acked, deleting, budget>>

EcsCreateService(h) ==
  /\ At(h, {"ecs"}, "create", "create")
  /\ svc' = NewService(call[h].rev)
  /\ acked' = {} /\ Return(h)
  /\ UNCHANGED <<platform, rec, fresh, objs, defs, revs, deleting, budget>>

CreateServiceSpec == NewService(0)
SwarmCreateService(h) ==
  /\ At(h, {"swarm"}, "create", "create")
  /\ svc' = CreateServiceSpec
  /\ acked' = {} /\ Return(h)
  /\ UNCHANGED <<platform, rec, fresh, objs, defs, revs, deleting, budget>>

(* AlreadyExists is not an error, whatever the existing object is. *)
CreateObject(h, pc, next) ==
  /\ At(h, {"k8s"}, "create", pc)
  /\ objs' = IF objs[pc] = None THEN [objs EXCEPT ![pc] = rec] ELSE objs
  /\ Goto(h, next)
  /\ UNCHANGED <<platform, rec, fresh, svc, defs, revs, acked, deleting, budget>>
CreateHeadlessService(h) == CreateObject(h, "headless", "data")
CreateDataClass(h) == CreateObject(h, "data", IF HasJournal THEN "journal" ELSE "stateful")
CreateJournalClass(h) == CreateObject(h, "journal", "stateful")
CreateStatefulSet(h) ==
  /\ At(h, {"k8s"}, "create", "stateful")
  /\ svc' = IF svc.st = "none" THEN NewService(0) ELSE svc
  /\ acked' = {} /\ Return(h)
  /\ UNCHANGED <<platform, rec, fresh, objs, defs, revs, deleting, budget>>

-----------------------------------------------------------------------------
(* Swarm and K8s: the object that was read is written back with the change, *)
(* and refused when another update came in between.                         *)
Missing == svc.st = "none"
Mutant_MissingIsError == "error"
MissingStop == IF platform = "k8s" THEN "removed" ELSE "error"
Get(h, op) ==
  /\ At(h, {"swarm", "k8s"}, op, "get")
  /\ IF ~Missing THEN Remember(h, "put", svc, 0)
     ELSE IF op = "delete" /\ MissingStop = "removed" THEN Goto(h, "remove")
     ELSE Return(h)
  /\ UNCHANGED <<platform, rec, fresh, svc, objs, defs, revs, acked, deleting, budget>>

Mutant_PutUnversioned(h, new) == /\ svc.st # "none"
                                 /\ svc' = [new EXCEPT !.ver = svc.ver + 1]
Put(h, new) == /\ svc.st # "none" /\ svc.ver = call[h].seen.ver
               /\ svc' = [new EXCEPT !.ver = svc.ver + 1]
PutRefused(h) ==
  /\ platform \in {"swarm", "k8s"} /\ call[h].pc = "put"
  /\ svc.st = "none" \/ svc.ver # call[h].seen.ver
  /\ Return(h)
  /\ UNCHANGED <<platform, rec, fresh, svc, objs, defs, revs, acked, deleting, budget>>

PutUpdate(h, p) ==
  /\ At(h, {p}, "update", "put")
  /\ Put(h, [call[h].seen EXCEPT !.spec = @ \cup {call[h].arg}])
  /\ acked' = acked \cup {call[h].arg} /\ Return(h)
  /\ UNCHANGED <<platform, rec, fresh, objs, defs, revs, deleting, budget>>

SwarmUpdateService(h) == PutUpdate(h, "swarm")
K8sUpdateService(h) == PutUpdate(h, "k8s")

PutScale(h, p) ==
  /\ At(h, {p}, "scale", "put")
  /\ Put(h, [call[h].seen EXCEPT !.desired = call[h].arg])
  /\ Return(h)
  /\ UNCHANGED <<platform, rec, fresh, objs, defs, revs, acked, deleting, budget>>

SwarmScaleService(h) == PutScale(h, "swarm")
K8sScaleService(h) == PutScale(h, "k8s")

(* stopService; on K8s the wait for ReadyReplicas = 0 follows, a Swarm      *)
(* StopService returns at once.                                             *)
AfterStop(h) == IF call[h].op = "delete" THEN Goto(h, "remove") ELSE Return(h)
PutStop(h, p) ==
  /\ \E op \in {"stop", "delete"} : At(h, {p}, op, "put")
  /\ Put(h, [call[h].seen EXCEPT !.desired = 0])
  /\ IF p = "k8s" THEN Goto(h, "wait") ELSE AfterStop(h)
  /\ UNCHANGED <<platform, rec, fresh, objs, defs, revs, acked, deleting, budget>>

SwarmStopService(h) == PutStop(h, "swarm")
K8sStopService(h) == PutStop(h, "k8s")

(* The polling loop ends: no running task is left, or ErrTimeout (a fault). *)
WaitStopped(h, p) ==
  /\ platform = p /\ call[h].pc = "wait"
  /\ AfterStop(h)
  /\ UNCHANGED <<platform, rec, fresh, svc, objs, defs, revs, acked, deleting, budget>>
EcsWaitTaskStop(h) == WaitStopped(h, "ecs")
K8sWaitReplicas(h) == WaitStopped(h, "k8s")

-----------------------------------------------------------------------------
(* ECS changes the count in one call.  A stop of a service that is not      *)
(* there or not active is a success.                                        *)
EcsUpdateCount(h) ==
  /\ platform = "ecs" /\ call[h].pc = "count"
  /\ LET n == IF call[h].op = "scale" THEN call[h].arg ELSE 0
     IN svc' = IF svc.st = "active" THEN [svc EXCEPT !.desired = n] ELSE svc
  /\ CASE svc.st = "active" /\ call[h].op # "scale" -> Goto(h, "wait")
       [] svc.st # "active" /\ call[h].op = "delete" -> Goto(h, "remove")
       [] OTHER -> Return(h)
  /\ UNCHANGED <<platform, rec, fresh, objs, defs, revs, acked, deleting, budget>>

(* UpdateService: the latest definition is copied with the change, the      *)
(* service is pointed to the copy and the original deregistered.            *)
EcsDescribeDefinition(h) ==
  /\ At(h, {"ecs"}, "update", "describe")
  /\ IF ~checkTaskDefExist THEN Return(h)
     ELSE Remember(h, "register", [NoService EXCEPT !.uuid = Latest.uuid, !.spec = Latest.spec],
                   Latest.rev)
  /\ UNCHANGED <<platform, rec, fresh, svc, objs, defs, revs, acked, deleting, budget>>
EcsRegisterChange(h) ==
  /\ At(h, {"ecs"}, "update", "register")
  /\ Register([rev |-> 0, uuid |-> call[h].seen.uuid, spec |-> call[h].seen.spec \cup {call[h].arg}])
  /\ call' = [call EXCEPT ![h].pc = "point", ![h].seen.def = revs + 1]
  /\ UNCHANGED <<platform, rec, fresh, svc, objs, acked, deleting, budget>>
EcsPointService(h) ==
  /\ At(h, {"ecs"}, "update", "point")
  /\ IF svc.st = "active"
     THEN svc' = [svc EXCEPT !.def = call[h].seen.def] /\ Goto(h, "retire")
     ELSE Return(h) /\ UNCHANGED svc
  /\ UNCHANGED <<platform, rec, fresh, objs, defs, revs, acked, deleting, budget>>

Deregister(r) == defs' = {d \in defs : d.rev # r}
(* The error of this last call is only logged. *)
EcsRetireDefinition(h) ==
  /\ At(h, {"ecs"}, "update", "retire")
  /\ \/ Deregister(call[h].rev) /\ UNCHANGED budget
     \/ budget.fault > 0 /\ budget' = [budget EXCEPT !.fault = @ - 1] /\ UNCHANGED defs
  /\ acked' = acked \cup {call[h].arg} /\ Return(h)
  /\ UNCHANGED <<platform, rec, fresh, svc, objs, revs, deleting>>

-----------------------------------------------------------------------------
(* DeleteService.  ECS keeps describing a deleted service for a while       *)
(* (INACTIVE) and refuses to delete it again; once it is MISSING, a retry   *)
(* still deregisters the latest definition.                                 *)
EcsDeleteService(h) ==
  /\ At(h, {"ecs"}, "delete", "remove")
  /\ CASE svc.st = "active" -> /\ svc' = [svc EXCEPT !.st = "inactive"]
                               /\ Remember(h, "dereg", NoService, svc.def)
       [] svc.st = "inactive" -> Return(h) /\ UNCHANGED svc
       [] OTHER -> /\ UNCHANGED svc
                   /\ IF ~checkTaskDefExist THEN Goto(h, "db")
                      ELSE Remember(h, "dereg", NoService, Latest.rev)
  /\ UNCHANGED <<platform, rec, fresh, objs, defs, revs, acked, deleting, budget>>
EcsDeregisterDefinition(h) ==
  /\ At(h, {"ecs"}, "delete", "dereg")
  /\ Deregister(call[h].rev) /\ Goto(h, "db")
  /\ UNCHANGED <<platform, rec, fresh, svc, objs, revs, acked, deleting, budget>>
EcsForgetsService ==
  /\ platform = "ecs" /\ svc.st = "inactive"
  /\ svc' = NoService
  /\ UNCHANGED <<platform, rec, fresh, objs, defs, revs, call, acked, deleting, budget>>

SwarmDeleteService(h) ==
  /\ At(h, {"swarm"}, "delete", "remove")
  /\ svc' = NoService /\ Goto(h, "db")
  /\ UNCHANGED <<platform, rec, fresh, objs, defs, revs, acked, deleting, budget>>

(* NotFound is not an error for any of the four objects. *)
Mutant_StopAtMissingSet(h) ==
  /\ At(h, {"k8s"}, "delete", "remove")
  /\ svc' = NoService /\ Goto(h, IF Missing THEN "db" ELSE "headless")
  /\ UNCHANGED <<platform, rec, fresh, objs, defs, revs, acked, deleting, budget>>
DeleteStatefulSet(h) ==
  /\ At(h, {"k8s"}, "delete", "remove")
  /\ svc' = NoService /\ Goto(h, "headless")
  /\ UNCHANGED <<platform, rec, fresh, objs, defs, revs, acked, deleting, budget>>
DeleteObject(h, pc, next) ==
  /\ At(h, {"k8s"}, "delete", pc)
  /\ objs' = [objs EXCEPT ![pc] = None] /\ Goto(h, next)
  /\ UNCHANGED <<platform, rec, fresh, svc, defs, revs, acked, deleting, budget>>
DeleteHeadlessService(h) == DeleteObject(h, "headless", "data")
DeleteStorageClass(h) == \/ DeleteObject(h, "data", "journal")
                         \/ DeleteObject(h, "journal", "db")

(* The log group and the control plane records go last. *)
DeleteRecord(h) ==
  /\ call[h].op = "delete" /\ call[h].pc = "db"
  /\ rec' = None /\ deleting' = FALSE /\ Return(h)
  /\ UNCHANGED <<platform, fresh, svc, objs, defs, revs, acked, budget>>

-----------------------------------------------------------------------------
(* A call fails without effect and the request returns the error. *)
Fault(h) ==
  /\ call[h].op # "none" /\ call[h].pc # "retire" /\ budget.fault > 0
  /\ budget' = [budget EXCEPT !.fault = @ - 1]
  /\ Return(h)
  /\ UNCHANGED <<platform, rec, fresh, svc, objs, defs, revs, acked, deleting>>

(* The manage server restarts: every request in progress is lost. *)
Crash ==
  /\ budget.crash > 0 /\ \E h \in Handlers : call[h].op # "none"
  /\ budget' = [budget EXCEPT !.crash = @ - 1]
  /\ call' = [h \in Handlers |-> Idle]
  /\ UNCHANGED <<platform, rec, fresh, svc, objs, defs, revs, acked, deleting>>

Step(h) ==
  \/ IsServiceExist(h) \/ EcsTaskDefinition(h) \/ EcsCreateService(h) \/ SwarmCreateService(h)
  \/ CreateHeadlessService(h) \/ CreateDataClass(h) \/ CreateJournalClass(h) \/ CreateStatefulSet(h)
  \/ \E op \in {"update", "scale", "stop", "delete"} : Get(h, op)
  \/ SwarmUpdateService(h) \/ SwarmScaleService(h) \/ SwarmStopService(h)
  \/ K8sUpdateService(h) \/ K8sScaleService(h) \/ K8sStopService(h)
  \/ PutRefused(h) \/ EcsWaitTaskStop(h) \/ K8sWaitReplicas(h)
  \/ EcsUpdateCount(h) \/ EcsDescribeDefinition(h) \/ EcsRegisterChange(h)
  \/ EcsPointService(h) \/ EcsRetireDefinition(h)
  \/ EcsDeleteService(h) \/ EcsDeregisterDefinition(h) \/ SwarmDeleteService(h)
  \/ DeleteStatefulSet(h) \/ DeleteHeadlessService(h) \/ DeleteStorageClass(h) \/ DeleteRecord(h)

Request(h) == \/ createService(h) \/ updateServiceResource(h) \/ scaleService(h)
              \/ startService(h) \/ stopService(h) \/ deleteService(h)

Next == \/ \E h \in Handlers : Request(h) \/ Step(h) \/ Fault(h)
        \/ EcsForgetsService \/ Crash

Spec == Init /\ [][Next]_vars

(* A handler finishes its request, ECS forgets a deleted service, and the   *)
(* client that wants the service deleted asks again.                        *)
Fairness == /\ \A h \in Handlers : WF_vars(Step(h))
            /\ WF_vars(EcsForgetsService)
            /\ WF_vars(\E h \in Handlers : deleting /\ deleteService(h))
FairSpec == Spec /\ Fairness
-----------------------------------------------------------------------------
(* A resource update that was acknowledged stays in the specification: on   *)
(* the platforms that replace the whole object, no later scale, stop or     *)
(* update that read the object before it can write it away (the Version     *)
(* that ServiceUpdate is given, the resourceVersion of the statefulset).    *)
(* Counts and stops may be written over, and are not part of it.            *)
AckedChangesKept == platform \in {"swarm", "k8s"} /\ svc.st = "active" => acked \subseteq svc.spec

(* A service that runs on K8s has the headless service that selects its own *)
(* pods and its own storage classes, whatever create or delete of an        *)
(* earlier incarnation of the same name failed half way; and once the       *)
(* record of the service is gone, nothing of it is left to run on the       *)
(* platform, so that a new service can take the name.                       *)
OwnObjects ==
  /\ platform = "k8s" /\ svc.st = "active" =>
        /\ objs["headless"] = svc.uuid /\ objs["data"] = svc.uuid
        /\ HasJournal => objs["journal"] = svc.uuid
  /\ rec = None => svc.st # "active" /\ \A p \in Parts : objs[p] = None

(* On ECS and K8s a deletion the client keeps asking for completes, even    *)
(* when calls failed and the manage server restarted half way.              *)
DeletionEnds == (deleting /\ platform # "swarm") ~> ~deleting
=============================================================================
