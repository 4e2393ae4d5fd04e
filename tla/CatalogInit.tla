----------------------------- MODULE CatalogInit -----------------------------
(***************************************************************************)
(* The creation and the initialisation of one catalog service              *)
(* (catalog/manageservice): the create requests of the fourteen kinds, the *)
(* check request a client polls with, the request an init container sends  *)
(* when it is done, and the goroutine that runs the init container on the  *)
(* container platform (catalogserviceinit.go).  Two kinds have two forms:  *)
(* "redis" is a Redis cluster and "redisserver" Redis in another mode,     *)
(* "cassandranode" is a Cassandra of one node.                             *)
(*                                                                         *)
(* Every request is the sequence of calls its handler makes to the manage  *)
(* server; a call may fail before or after it took effect, which ends the  *)
(* request, and the catalog server may crash between any two calls.  The   *)
(* manage server's own steps are the subject of ServiceLifecycle: here one *)
(* call is one step, except that a creation may stop half way.             *)
(***************************************************************************)
EXTENDS Naturals, Sequences, FiniteSets

CONSTANTS Platforms,      \* the platforms a behaviour may choose from
          Kinds,          \* the catalog services a behaviour may choose from
          Tasks,          \* init containers that may exist at a time
          GivenPassword,  \* the client sets the JMX password
          MaxTries,       \* common.DefaultTaskRetryCounts
          MaxCreates,     \* bound: create requests
          MaxFaults,      \* bound: calls and init containers that fail
          MaxCrashes      \* bound: crashes of the catalog server

ASSUME PlatformsAssumption == Platforms \subseteq {"ecs", "swarm", "k8s"}
ASSUME KindsAssumption ==
  Kinds \subseteq {"postgresql", "zookeeper", "elasticsearch", "logstash", "kibana", "kafka",
                  "kafkamanager", "telegraf", "kafkasinkes", "couchdb", "cassandra",
                  "cassandranode", "mongodb", "redis", "redisserver", "consul"}
ASSUME TasksAssumption == 0 \notin Tasks
ASSUME BoundsAssumption == {MaxTries, MaxCreates, MaxFaults, MaxCrashes} \subseteq Nat
                           /\ MaxTries > 0 /\ GivenPassword \in BOOLEAN

VARIABLES platform, kind,
          status,  \* ServiceAttr.Meta.ServiceStatus, "none" without a record
          conf,    \* what the config files say: see Init
          ctr,     \* the container service: does it exist, is its count set,
                   \* do its containers run, with which configs, and are
                   \* they told to stop
          req,     \* req[h]: the calls left of the client's (0) request, and
                   \* of the request of each init container
          client,  \* the client: what it asks for next, creations so far
          job,     \* the goroutine of the service's entry in the task map
          obj,     \* the task definition (ECS), container name (Swarm) or job
                   \* (K8s) of the init task: the container it stands for
          init,    \* init[t]: the init containers
          budget   \* faults and crashes left

service == <<platform, kind, status, conf, ctr>>
tasks == <<obj, init>>
vars == <<service, req, client, job, tasks, budget>>

-----------------------------------------------------------------------------
(* The handlers, as the calls they make.  "attr" creates the record or      *)
(* finds it, "members" brings it to INITIALIZING, "container" creates the   *)
(* container service.                                                       *)

CreateManageService == <<"attr", "members">>
CreateContainerService == <<"container">>
CreateService == CreateManageService \o CreateContainerService
SetServiceInitialized == <<"set">>

createPGService == CreateService \o SetServiceInitialized
createZkService == CreateService \o SetServiceInitialized
createElasticSearchService == CreateService \o SetServiceInitialized
createLogstashService == CreateService \o SetServiceInitialized
createKibanaService == <<"lookup">> \o CreateService \o SetServiceInitialized
createKafkaService == <<"lookup">> \o CreateService \o SetServiceInitialized
createKafkaManagerService == <<"lookup">> \o CreateService \o SetServiceInitialized
createTelegrafService == <<"lookup", "lookup">> \o CreateService \o SetServiceInitialized
createKafkaSinkESService == <<"lookup", "lookup">> \o CreateService \o <<"addInit">>
createCouchDBService == CreateService \o <<"addInit">>
createCasService == CreateService \o <<"addInit">>
createCasService1 == CreateService \o SetServiceInitialized
createMongoDBService == CreateService \o <<"addInit">>
createRedisMembers == CreateManageService \o <<"memberIPs">> \o CreateContainerService
createRedisService == createRedisMembers \o <<"addInit">>
createRedisServer == createRedisMembers \o SetServiceInitialized
createConsulService == CreateManageService \o <<"memberIPs", "serviceIPs">>
                       \o CreateContainerService \o SetServiceInitialized

createOp == [k \in Kinds |->
  CASE k = "postgresql" -> createPGService
    [] k = "zookeeper" -> createZkService
    [] k = "elasticsearch" -> createElasticSearchService
    [] k = "logstash" -> createLogstashService
    [] k = "kibana" -> createKibanaService
    [] k = "kafka" -> createKafkaService
    [] k = "kafkamanager" -> createKafkaManagerService
    [] k = "telegraf" -> createTelegrafService
    [] k = "kafkasinkes" -> createKafkaSinkESService
    [] k = "couchdb" -> createCouchDBService
    [] k = "cassandra" -> createCasService
    [] k = "cassandranode" -> createCasService1
    [] k = "mongodb" -> createMongoDBService
    [] k = "redis" -> createRedisService
    [] k = "redisserver" -> createRedisServer
    [] k = "consul" -> createConsulService]

(* What the check request of a service without a task does while the status *)
(* is INITIALIZING; it does not know the other kinds.  It reads the mode of *)
(* Redis from the config, and does not ask for the size of Cassandra.       *)
Mutant_CheckForgetsRedis ==
  CASE kind \in {"cassandra", "cassandranode"} -> <<"addInit">>
    [] kind \in {"mongodb", "couchdb", "kafkasinkes"} -> <<"lookup", "addInit">>
    [] kind \in {"postgresql", "zookeeper", "kafka"} -> SetServiceInitialized
    [] kind = "redisserver" -> <<"lookup">> \o SetServiceInitialized
    [] OTHER -> <<>>
checkOp ==
  CASE kind \in {"cassandra", "cassandranode"} -> <<"addInit">>
    [] kind \in {"mongodb", "redis", "couchdb", "kafkasinkes"} -> <<"lookup", "addInit">>
    [] kind \in {"postgresql", "zookeeper", "kafka"} -> SetServiceInitialized
    [] kind = "redisserver" -> <<"lookup">> \o SetServiceInitialized
    [] OTHER -> <<>>

(* The request of an init container.  MongoDB and a Redis cluster run       *)
(* without authentication until they are initialised.                       *)
Mutant_RestartFirst == <<"lookup", "stop", "wait", "start", "auth">> \o SetServiceInitialized
setMongoDBInit == <<"lookup", "auth", "stop", "wait", "start">> \o SetServiceInitialized
setRedisInit == <<"lookup", "auth", "stop", "wait", "start">> \o SetServiceInitialized
catalogSetServiceInit ==
  CASE kind = "mongodb" -> setMongoDBInit
    [] kind = "redis" -> setRedisInit
    [] OTHER -> SetServiceInitialized

-----------------------------------------------------------------------------
Handlers == {0} \cup Tasks
NoJob == [pc |-> "none", tries |-> 0, task |-> 0]
Statuses == {"none", "CREATING", "INITIALIZING", "ACTIVE"}

(* The state of every variable is of its kind: the job waits for a task it  *)
(* has run, and only a container that is done has a request to make.        *)
TypeOK ==
  /\ platform \in Platforms /\ kind \in Kinds /\ status \in Statuses
  /\ conf \in [content : Nat, memberIPs : Nat, auth : BOOLEAN]
  /\ ctr \in [exists : BOOLEAN, count : BOOLEAN, up : BOOLEAN, auth : BOOLEAN,
              stopping : BOOLEAN]
  /\ ctr.stopping => ctr.up
  /\ client.ask \in {"create", "check"} /\ client.creates \in Nat
  /\ job.pc \in {"none", "waitRunning", "check", "run", "waitTask", "recheck", "done"}
  /\ job.pc = "waitTask" => job.task \in Tasks /\ init[job.task] # "none"
  /\ job.tries < MaxTries
  /\ obj \in {0} \cup Tasks
  /\ \A t \in Tasks : init[t] \in {"none", "running", "setting", "exited"}
                      /\ (req[t] # <<>> => init[t] = "setting")
  /\ budget \in [fault : Nat, crash : Nat]

(* conf.content stands for the service's config files: the number of the    *)
(* create request that generated them, and 0 once they were updated.        *)
(* conf.memberIPs is how often the address of a member was put into its     *)
(* file, and conf.auth whether the config enables authentication: that of a *)
(* Redis which is no cluster does so as it is generated.                    *)
Init ==
  /\ platform \in Platforms /\ kind \in Kinds
  /\ status = "none"
  /\ conf = [content |-> 0, memberIPs |-> 0, auth |-> kind = "redisserver"]
  /\ ctr = [exists |-> FALSE, count |-> FALSE, up |-> FALSE, auth |-> FALSE,
            stopping |-> FALSE]
  /\ req = [h \in Handlers |-> <<>>]
  /\ client = [ask |-> "create", creates |-> 0]
  /\ job = NoJob
  /\ obj = 0 /\ init = [t \in Tasks |-> "none"]
  /\ budget = [fault |-> MaxFaults, crash |-> MaxCrashes]

-----------------------------------------------------------------------------
(* The client repeats the creation until it is answered, with success or    *)
(* with the error that such a service exists; then it polls.                *)

ClientCreates ==
  /\ client.ask = "create" /\ req[0] = <<>> /\ client.creates < MaxCreates
  /\ req' = [req EXCEPT ![0] = createOp[kind]]
  /\ client' = [client EXCEPT !.creates = @ + 1]
  /\ UNCHANGED <<service, job, tasks, budget>>

(* getCatalogServiceOp: while a task is in the map that is the answer.      *)
ClientChecks ==
  /\ client.ask = "check" /\ req[0] = <<>> /\ job = NoJob
  /\ req' = [req EXCEPT ![0] = <<"checkAttr">>]
  /\ UNCHANGED <<service, client, job, tasks, budget>>

(* The configs of a repeated request are the same, unless they contain a    *)
(* secret that every request generates anew.                                *)
GeneratesSecret == kind \in {"mongodb", "couchdb"}
                   \/ (~GivenPassword /\ kind \in {"zookeeper", "kafka", "cassandra",
                                                  "cassandranode"})
Content == IF GeneratesSecret THEN client.creates ELSE 1

Rest(h, calls) == req' = [req EXCEPT ![h] = calls]
Answer(calls) == client' = IF calls = <<>> THEN [client EXCEPT !.ask = "check"] ELSE client
Next1(h) == Rest(h, Tail(req[h])) /\ IF h = 0 THEN Answer(Tail(req[h])) ELSE UNCHANGED client
Head1(h, call) == req[h] # <<>> /\ Head(req[h]) = call

(* checkAndCreateServiceAttr: a record with other configs is another        *)
(* service, and the name is taken.                                          *)
CallAttr ==
  /\ Head1(0, "attr")
  /\ \/ /\ status = "none"
        /\ status' = "CREATING" /\ conf' = [conf EXCEPT !.content = Content]
        /\ Next1(0)
     \/ /\ status # "none" /\ conf.content = Content
        /\ Next1(0) /\ UNCHANGED <<status, conf>>
     \/ /\ status # "none" /\ conf.content # Content
        /\ Rest(0, <<>>) /\ Answer(<<>>) /\ UNCHANGED <<status, conf>>
  /\ UNCHANGED <<platform, kind, ctr, job, tasks, budget>>

CallMembers ==
  /\ Head1(0, "members")
  /\ status' = IF status = "CREATING" THEN "INITIALIZING" ELSE status
  /\ Next1(0)
  /\ UNCHANGED <<platform, kind, conf, ctr, job, tasks, budget>>

CallContainer ==
  /\ Head1(0, "container")
  /\ ctr' = IF ctr.exists THEN ctr ELSE [ctr EXCEPT !.exists = TRUE, !.count = TRUE]
  /\ Next1(0)
  /\ UNCHANGED <<platform, kind, status, conf, job, tasks, budget>>

(* Reads of another service's records, or of this one's config files. *)
CallLookup(h) ==
  /\ Head1(h, "lookup") /\ Next1(h)
  /\ UNCHANGED <<service, job, tasks, budget>>

(* updateRedisConfigs, updateConsulConfigs: every member's file, then       *)
(* Consul's basic config, which the service's record lists.  The address is *)
(* put after the first "MEMBER_STATIC_IP=" of the current file, which is    *)
(* still there when the address is: a second time it follows the first, and *)
(* both are one word.  A pass over the files counts when it is complete.    *)
CallMemberIPs ==
  /\ Head1(0, "memberIPs")
  /\ conf' = [conf EXCEPT !.memberIPs = @ + 1]
  /\ Next1(0)
  /\ UNCHANGED <<platform, kind, status, ctr, job, tasks, budget>>
CallServiceIPs ==
  /\ Head1(0, "serviceIPs")
  /\ conf' = [conf EXCEPT !.content = 0]
  /\ Next1(0)
  /\ UNCHANGED <<platform, kind, status, ctr, job, tasks, budget>>

(* enableMongoDBAuth, enableRedisAuth *)
CallAuth(h) ==
  /\ Head1(h, "auth")
  /\ conf' = [conf EXCEPT !.auth = TRUE, !.content = 0]
  /\ Next1(h)
  /\ UNCHANGED <<platform, kind, status, ctr, job, tasks, budget>>

(* StopService of the platform sets the count, and then waits until no      *)
(* container runs, or too long.  Swarm's does not wait.                     *)
CallStop(h) ==
  /\ Head1(h, "stop")
  /\ ctr' = [ctr EXCEPT !.count = FALSE, !.stopping = ctr.up]
  /\ Next1(h)
  /\ UNCHANGED <<platform, kind, status, conf, job, tasks, budget>>
CallWait(h) ==
  /\ Head1(h, "wait")
  /\ \/ (platform = "swarm" \/ ~ctr.up) /\ Next1(h)
     \/ platform # "swarm" /\ ctr.up /\ ~ctr.stopping /\ Rest(h, <<>>) /\ UNCHANGED client
  /\ UNCHANGED <<service, job, tasks, budget>>
CallStart(h) ==
  /\ Head1(h, "start")
  /\ ctr' = [ctr EXCEPT !.count = TRUE]
  /\ Next1(h)
  /\ UNCHANGED <<platform, kind, status, conf, job, tasks, budget>>

(* SetServiceInitialized refuses a service that is still CREATING. *)
CallSet(h) ==
  /\ Head1(h, "set") /\ status \in {"INITIALIZING", "ACTIVE"}
  /\ status' = "ACTIVE"
  /\ Next1(h)
  /\ UNCHANGED <<platform, kind, conf, ctr, job, tasks, budget>>

(* The check of the status: an ACTIVE service is initialised, a CREATING    *)
(* one is an error.                                                         *)
CallCheckAttr ==
  /\ Head1(0, "checkAttr")
  /\ Rest(0, IF status = "INITIALIZING" THEN checkOp ELSE <<>>)
  /\ UNCHANGED <<service, client, job, tasks, budget>>

(* addInitTask: unless the map has an entry for the service, add it and     *)
(* start its goroutine.                                                     *)
CallAddInit ==
  /\ Head1(0, "addInit")
  /\ job' = IF job = NoJob THEN [NoJob EXCEPT !.pc = "waitRunning"] ELSE job
  /\ Next1(0)
  /\ UNCHANGED <<service, tasks, budget>>

Call(h) == CallLookup(h) \/ CallAuth(h) \/ CallStop(h) \/ CallWait(h)
           \/ CallStart(h) \/ CallSet(h)
ClientCall == CallAttr \/ CallMembers \/ CallContainer \/ CallMemberIPs \/ CallServiceIPs
              \/ CallCheckAttr \/ CallAddInit

(* An error of a call ends the request; that the call took effect all the   *)
(* same is this step after it.                                              *)
RequestFails(h) ==
  /\ req[h] # <<>> /\ budget.fault > 0
  /\ Rest(h, <<>>)
  /\ budget' = [budget EXCEPT !.fault = @ - 1]
  /\ UNCHANGED <<service, client, job, tasks>>

-----------------------------------------------------------------------------
(* runInitTask *)

JobTo(pc) == job' = [job EXCEPT !.pc = pc]
JobOnly == UNCHANGED <<service, req, client, tasks, budget>>

AllRunning == ctr.count /\ ctr.up /\ ~ctr.stopping
waitServiceRunning == job.pc = "waitRunning" /\ AllRunning /\ JobTo("check") /\ JobOnly
waitServiceRunningTimeout == job.pc = "waitRunning" /\ ~AllRunning /\ JobTo("done") /\ JobOnly

isServiceInitialized ==
  /\ job.pc = "check"
  /\ JobTo(IF status = "ACTIVE" THEN "done" ELSE "run")
  /\ JobOnly

(* RunTask of the platform.  ECS lists the running containers of the task   *)
(* when it has a definition, and registers one when it has not; Swarm       *)
(* creates a container of a fixed name; a job of K8s may exist.             *)
Running == {t \in Tasks : init[t] \in {"running", "setting"}}
Free == {t \in Tasks : init[t] \in {"none", "exited"} /\ t # job.task /\ t # obj}
StartTask ==
  /\ Free # {}
  /\ LET t == CHOOSE t \in Free : TRUE IN
     /\ init' = [init EXCEPT ![t] = "running"]
     /\ obj' = t
     /\ job' = [job EXCEPT !.pc = "waitTask", !.task = t]
  /\ UNCHANGED <<service, req, client, budget>>
RunsAlready(t) ==
  /\ job' = [job EXCEPT !.pc = "waitTask", !.task = t]
  /\ UNCHANGED <<service, req, client, tasks, budget>>

EcsRunTask ==
  /\ job.pc = "run" /\ platform = "ecs"
  /\ \/ obj # 0 /\ \E t \in Running : Running = {t} /\ RunsAlready(t)
     \/ (obj = 0 \/ Running = {}) /\ StartTask
SwarmRunTask == job.pc = "run" /\ platform = "swarm" /\ obj = 0 /\ StartTask
K8sRunTask ==
  /\ job.pc = "run" /\ platform = "k8s"
  /\ IF obj # 0 THEN RunsAlready(obj) ELSE StartTask

(* No place for the container, a name in use, or several tasks that run.    *)
RunTaskRefused ==
  \/ Free = {}
  \/ platform = "ecs" /\ obj # 0 /\ Cardinality(Running) > 1
  \/ platform = "swarm" /\ obj # 0
RunTaskFails ==
  /\ job.pc = "run" /\ RunTaskRefused
  /\ JobTo("done") /\ JobOnly

waitTask == job.pc = "waitTask" /\ init[job.task] = "exited" /\ JobTo("recheck") /\ JobOnly
waitTaskTimeout == job.pc = "waitTask" /\ job.task \in Running /\ JobTo("recheck") /\ JobOnly

(* Initialised, tried often enough, or once more; an error of the check is  *)
(* logged, and counts as not initialised.                                   *)
Mutant_TryOnceMore ==
  IF job.tries = MaxTries THEN JobTo("done")
  ELSE job' = [job EXCEPT !.pc = "run", !.tries = @ + 1]
TryAgain ==
  IF job.tries + 1 = MaxTries THEN JobTo("done")
  ELSE job' = [job EXCEPT !.pc = "run", !.tries = @ + 1]
recheckInitialized ==
  /\ job.pc = "recheck"
  /\ IF status = "ACTIVE" THEN JobTo("done") ELSE TryAgain
  /\ JobOnly

(* A call of the goroutine fails, RunTask perhaps after it took effect. *)
JobFault ==
  /\ budget.fault > 0
  /\ budget' = [budget EXCEPT !.fault = @ - 1]
  /\ \/ job.pc \in {"check", "run", "waitTask"} /\ JobTo("done")
     \/ job.pc = "recheck" /\ TryAgain
  /\ UNCHANGED <<service, req, client, tasks>>

(* DeleteTask, then the entry.  A container that still runs is left to run  *)
(* by ECS, which only loses the definition, and by K8s, which orphans the   *)
(* pods of a job; Swarm cannot remove it, and the error is ignored.         *)
Mutant_KeepTask ==
  /\ job.pc = "done" /\ job' = NoJob
  /\ UNCHANGED <<service, req, client, budget, obj, init>>
taskDone ==
  /\ job.pc = "done" /\ job' = NoJob
  /\ IF platform = "swarm" /\ obj \in Running THEN obj' = obj
     ELSE obj' = 0
  /\ UNCHANGED <<service, req, client, init, budget>>

Job == \/ waitServiceRunning \/ waitServiceRunningTimeout \/ isServiceInitialized
       \/ EcsRunTask \/ SwarmRunTask \/ K8sRunTask \/ RunTaskFails
       \/ waitTask \/ waitTaskTimeout \/ recheckInitialized \/ taskDone

-----------------------------------------------------------------------------
(* The containers of the service read the configs as they start, and take   *)
(* their time to stop.                                                      *)
ContainersStart ==
  /\ ctr.exists /\ ctr.count /\ ~ctr.up
  /\ ctr' = [ctr EXCEPT !.up = TRUE, !.auth = conf.auth]
  /\ UNCHANGED <<platform, kind, status, conf, req, client, job, tasks, budget>>
ContainersStop ==
  /\ ctr.stopping
  /\ ctr' = [ctr EXCEPT !.up = FALSE, !.stopping = FALSE]
  /\ UNCHANGED <<platform, kind, status, conf, req, client, job, tasks, budget>>

(* An init container initialises the running service, sends its request,    *)
(* and exits whatever the answer is.  Without the service it fails.         *)
InitDone(t) ==
  /\ init[t] = "running" /\ ctr.up
  /\ init' = [init EXCEPT ![t] = "setting"]
  /\ Rest(t, catalogSetServiceInit)
  /\ UNCHANGED <<service, client, job, obj, budget>>
InitExits(t) ==
  /\ \/ init[t] = "setting" /\ req[t] = <<>>
     \/ init[t] = "running" /\ ~ctr.up
  /\ init' = [init EXCEPT ![t] = "exited"]
  /\ UNCHANGED <<service, req, client, job, obj, budget>>
InitFails(t) ==
  /\ init[t] = "running" /\ budget.fault > 0
  /\ init' = [init EXCEPT ![t] = "exited"]
  /\ budget' = [budget EXCEPT !.fault = @ - 1]
  /\ UNCHANGED <<service, req, client, job, obj>>

(* The catalog server loses its requests and the tasks it keeps in memory.  *)
CatalogCrash ==
  /\ budget.crash > 0
  /\ req' = [h \in Handlers |-> <<>>] /\ job' = NoJob
  /\ budget' = [budget EXCEPT !.crash = @ - 1]
  /\ UNCHANGED <<service, client, tasks>>

-----------------------------------------------------------------------------
Client == ClientCreates \/ ClientChecks \/ ClientCall \/ Call(0)
InitTask(t) == Call(t) \/ InitDone(t) \/ InitExits(t)
Next ==
  \/ Client
  \/ \E t \in Tasks : InitTask(t) \/ InitFails(t)
  \/ Job \/ JobFault \/ ContainersStart \/ ContainersStop \/ CatalogCrash
  \/ \E h \in Handlers : RequestFails(h)

Spec == Init /\ [][Next]_vars

(* The client goes on asking, the server works on what it was asked, and    *)
(* the platform runs the containers it was given.                           *)
FairSpec == /\ Spec /\ WF_vars(Client) /\ WF_vars(Job)
            /\ WF_vars(ContainersStart) /\ WF_vars(ContainersStop)
            /\ \A t \in Tasks : WF_vars(InitTask(t))

-----------------------------------------------------------------------------
(* A service is served as it was configured.  MongoDB and Redis are         *)
(* reported ACTIVE only when they are secured: the config enables the       *)
(* authentication, and no container still runs without it, whatever         *)
(* requests of other init containers overlap.  Not so on Docker Swarm,      *)
(* whose StopService does not wait.  Redis and Consul read their static ips *)
(* from the member files: no container exists before each file has the      *)
(* address of its member, and as long as the creation is not repeated it    *)
(* has it once.  "In case the service creation fails, please simply retry   *)
(* it" (docs/installation/README.md:134) does not hold for them: a retry    *)
(* fills the address in again (rediscatalog.go:334, consulcatalog.go:205),  *)
(* and what the file says then is no address any more.                      *)
Secured == (status = "ACTIVE" /\ kind \in {"mongodb", "redis", "redisserver"}
            /\ platform # "swarm")
             => conf.auth /\ (ctr.up => ctr.auth)
ReadsMemberIPs == kind \in {"redis", "redisserver", "consul"}
Addressed == ReadsMemberIPs /\ ctr.exists
               => conf.memberIPs > 0 /\ (client.creates = 1 => conf.memberIPs = 1)
ServedAsConfigured == Secured /\ Addressed

(* A service whose creation can be repeated and whose initialisation does   *)
(* not restart it becomes ACTIVE while the client keeps asking, in spite of *)
(* failures and crashes: "rely on the customer to query service status to   *)
(* trigger the init task again".                                            *)
InitCompletes ==
  (client.creates > 0 /\ ~GeneratesSecret /\ kind \notin {"consul", "redis", "mongodb"})
    ~> status = "ACTIVE"

(* Without a failure the first creation of every kind gets it ACTIVE, also  *)
(* of the two that are restarted, when a slow init container and the one    *)
(* that was started after it restart the service at the same time.          *)
Undisturbed == budget.fault = MaxFaults /\ budget.crash = MaxCrashes
FirstCreationCompletes ==
  []Undisturbed => (client.creates > 0 ~> status = "ACTIVE")
=============================================================================
