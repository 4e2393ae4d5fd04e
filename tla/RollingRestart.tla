--------------------------- MODULE RollingRestart ---------------------------
(***************************************************************************)
(* The rolling restart of one service: rollingRestartService of            *)
(* managesvc/server.go, the task map of managesvc/servertask.go with the   *)
(* goroutine that runs in the background, and RollingRestartService of the *)
(* three platforms.                                                        *)
(*                                                                         *)
(* The service has one slot per member.  A slot's container is running,    *)
(* stopping, down (the platform is to replace it) or starting; on ECS the  *)
(* replacement claims the member, which writes its task id into the member *)
(* record, before it is running.  Meanwhile containers fail by themselves, *)
(* one scale request adds a member, and the manage server may crash.       *)
(*                                                                         *)
(* A task id that was read is kept as what it has become: the id of the    *)
(* "present" container of the slot, of a "past" one, or "none".            *)
(***************************************************************************)
EXTENDS Naturals, FiniteSets

CONSTANTS Platforms,    \* the platforms a behaviour may choose from
          Handlers,     \* request handlers of the manage server
          Replicas,     \* what the service starts with
          MaxRequests,  \* bound: restart requests
          MaxFailures,  \* bound: containers that fail by themselves
          MaxCrashes    \* bound: crashes of the manage server

ASSUME PlatformsAssumption == Platforms \subseteq {"ecs", "swarm", "k8s"}
ASSUME BoundsAssumption == {MaxRequests, MaxFailures, MaxCrashes} \subseteq Nat
(* CreateService refuses a service without replicas. *)
ASSUME ReplicasAssumption == Replicas \in Nat \ {0}

VARIABLES platform,  \* ManageHTTPServer.platform
          replicas,  \* ServiceAttr.Spec.Replicas
          members,   \* number of ServiceMember records
          desired,   \* the container count the platform keeps up
          st,        \* st[i]: the container of slot i
          taskID,    \* taskID[i]: Spec.TaskID of member i
          roll,      \* Swarm: UpdateStatus, slots to update, spec version
          call,      \* call[h]: the restart request handler h works on
          entry,     \* the service's entry of manageTaskService.tasks
          job,       \* the goroutine that runs it
          kept,      \* slots with the container of when the job was accepted
          ready,     \* K8s: slots whose pod became ready since the job began
          quiet,     \* since then: no container failed, no wait timed out
          budget     \* requests, failures and crashes left

service == <<platform, replicas, members, desired>>
slots == <<st, taskID, kept, ready>>
server == <<call, entry, job>>
vars == <<service, slots, roll, server, quiet, budget>>

Slots == 1..(Replicas + 1)
IDs == {"present", "past", "none"}
Idle == [pc |-> "idle", n |-> 0, ids |-> [i \in {} |-> "none"]]
NoJob == [pc |-> "none", k |-> 0, n |-> 0, ids |-> [i \in {} |-> "none"], ver |-> 0, ok |-> FALSE]
States == {"none", "running", "stopping", "down", "starting"}
JobSteps == {"stop", "waitStop", "waitRun", "delete", "waitPod", "inspect", "update", "poll"}

(* The state of every variable is of its kind: an entry goes with a job,    *)
(* and a job names one task id per replica it was accepted for.             *)
TypeOK ==
  /\ platform \in Platforms
  /\ replicas \in Nat /\ members \in Nat /\ desired \in Nat
  /\ st \in [Slots -> States] /\ taskID \in [Slots -> IDs]
  /\ roll.status \in {"none", "updating", "completed"} /\ roll.todo \subseteq Slots /\ roll.ver \in Nat
  /\ \A h \in Handlers : call[h].pc \in {"idle", "attr", "members", "add"}
  /\ entry = "none" <=> job.pc = "none"
  /\ entry = "running" <=> job.pc \in JobSteps
  /\ entry = "complete" <=> job.pc = "linger"
  /\ job.k <= job.n /\ DOMAIN job.ids = 1..job.n
  /\ kept \subseteq Slots /\ ready \subseteq Slots /\ quiet \in BOOLEAN
  /\ budget \in [request : Nat, failure : Nat, crash : Nat]

Init ==
  /\ platform \in Platforms
  /\ replicas = Replicas /\ members = Replicas /\ desired = Replicas
  /\ st = [i \in Slots |-> IF i <= Replicas THEN "running" ELSE "none"]
  /\ taskID = [i \in Slots |-> IF i <= Replicas THEN "present" ELSE "none"]
  /\ roll = [status |-> "none", todo |-> {}, ver |-> 0]
  /\ call = [h \in Handlers |-> Idle] /\ entry = "none" /\ job = NoJob
  /\ kept = {} /\ ready = {} /\ quiet = FALSE
  /\ budget = [request |-> MaxRequests, failure |-> MaxFailures, crash |-> MaxCrashes]

-----------------------------------------------------------------------------
(* The platform.  A stopped or failed container is replaced; the ids that   *)
(* were read name a past container from then on.                            *)

Past(f, i) == [j \in DOMAIN f |-> IF j = i /\ f[j] = "present" THEN "past" ELSE f[j]]

Replace(i) ==
  /\ st[i] = "down" /\ i <= desired
  /\ st' = [st EXCEPT ![i] = "starting"]
  /\ taskID' = Past(taskID, i)
  /\ call' = [h \in Handlers |-> [call[h] EXCEPT !.ids = Past(@, i)]]
  /\ job' = [job EXCEPT !.ids = Past(@, i)]
  /\ kept' = kept \ {i}
  /\ roll' = [roll EXCEPT !.todo = @ \ {i}]
  /\ UNCHANGED <<service, ready, entry, quiet, budget>>

(* The volume driver makes the new task the member's owner. *)
ClaimMember(i) ==
  /\ st[i] = "starting" /\ taskID[i] # "present" /\ i <= members
  /\ taskID' = [taskID EXCEPT ![i] = "present"]
  /\ UNCHANGED <<service, st, kept, ready, roll, server, quiet, budget>>

BecomeRunning(i) ==
  /\ st[i] = "starting" /\ taskID[i] = "present"
  /\ st' = [st EXCEPT ![i] = "running"]
  /\ ready' = IF platform = "k8s" /\ entry = "running" THEN ready \cup {i} ELSE ready
  /\ UNCHANGED <<service, taskID, kept, roll, server, quiet, budget>>

ContainerStopped(i) ==
  /\ st[i] = "stopping"
  /\ st' = [st EXCEPT ![i] = "down"]
  /\ UNCHANGED <<service, taskID, kept, ready, roll, server, quiet, budget>>

ContainerFails(i) ==
  /\ st[i] \in {"running", "starting"} /\ budget.failure > 0
  /\ st' = [st EXCEPT ![i] = "down"]
  /\ quiet' = FALSE
  /\ budget' = [budget EXCEPT !.failure = @ - 1]
  /\ UNCHANGED <<service, taskID, kept, ready, roll, server>>

(* Swarm's updater: Parallelism 1, stop first, go on after a failure.  It   *)
(* runs on whether or not the manage server does.                           *)
AllRunning == \A i \in 1..desired : st[i] = "running"
SwarmUpdateNext ==
  /\ platform = "swarm" /\ roll.todo # {} /\ AllRunning
  /\ \E i \in roll.todo : st' = [st EXCEPT ![i] = "stopping"]
  /\ roll' = [roll EXCEPT !.status = "updating"]
  /\ UNCHANGED <<service, taskID, kept, ready, server, quiet, budget>>
SwarmUpdateDone ==
  /\ platform = "swarm" /\ roll.status = "updating" /\ roll.todo = {} /\ AllRunning
  /\ roll' = [roll EXCEPT !.status = "completed"]
  /\ UNCHANGED <<service, slots, server, quiet, budget>>

-----------------------------------------------------------------------------
(* scaleService, once: the member record first, then the platform's count,  *)
(* then the replicas of the attr record.                                    *)

ScaleCreateMember ==
  /\ members = Replicas
  /\ members' = members + 1
  /\ UNCHANGED <<platform, replicas, desired, slots, roll, server, quiet, budget>>

(* Any update of a swarm service clears its UpdateStatus. *)
ScalePlatform ==
  /\ members > Replicas /\ desired = Replicas
  /\ desired' = desired + 1
  /\ st' = [st EXCEPT ![desired + 1] = "starting"]
  /\ roll' = [roll EXCEPT !.status = "none", !.ver = @ + 1]
  /\ UNCHANGED <<platform, replicas, members, taskID, kept, ready, server, quiet, budget>>

ScaleUpdateAttr ==
  /\ desired > Replicas /\ replicas = Replicas
  /\ replicas' = replicas + 1
  /\ UNCHANGED <<platform, members, desired, slots, roll, server, quiet, budget>>

-----------------------------------------------------------------------------
(* rollingRestartService *)

Goto(h, c) == call' = [call EXCEPT ![h] = c]

(* A service with an entry in the map is answered at once, with success.    *)
hasTask == entry # "none"
rollingRestartService(h) ==
  /\ call[h].pc = "idle" /\ budget.request > 0
  /\ Goto(h, IF hasTask THEN Idle ELSE [Idle EXCEPT !.pc = "attr"])
  /\ budget' = [budget EXCEPT !.request = @ - 1]
  /\ UNCHANGED <<service, slots, roll, entry, job, quiet>>

(* On Kubernetes the names of the pods follow from the replicas. *)
GetServiceAttr(h) ==
  /\ call[h].pc = "attr"
  /\ Goto(h, [pc |-> IF platform = "k8s" THEN "add" ELSE "members", n |-> replicas,
              ids |-> [i \in 1..replicas |-> "none"]])
  /\ UNCHANGED <<service, slots, roll, entry, job, quiet, budget>>

(* serviceTasks has a place for each replica; with more members the index   *)
(* is out of range, and the panic ends the request.                         *)
ListServiceMembers(h) ==
  /\ call[h].pc = "members"
  /\ IF members > call[h].n THEN Goto(h, Idle)
     ELSE Goto(h, [call[h] EXCEPT !.pc = "add", !.ids = [i \in 1..call[h].n |-> taskID[i]]])
  /\ UNCHANGED <<service, slots, roll, entry, job, quiet, budget>>

(* addTask looks again, under the lock.  The job starts with the last task, *)
(* and runs until taskDone removes its entry.                               *)
FirstStep == CASE platform = "ecs" -> "stop" [] platform = "k8s" -> "delete" [] OTHER -> "inspect"
StartJob(c) ==
  /\ entry' = "running"
  /\ job' = [NoJob EXCEPT !.pc = FirstStep, !.k = c.n, !.n = c.n, !.ids = c.ids]
  /\ kept' = 1..c.n /\ ready' = {}
  /\ quiet' = \A i \in 1..c.n : st[i] = "running"
addTask(h) ==
  /\ call[h].pc = "add"
  /\ \/ hasTask /\ UNCHANGED <<entry, job, kept, ready, quiet>>
     \/ ~hasTask /\ StartJob(call[h])
     \/ ~hasTask /\ UNCHANGED <<entry, job, kept, ready, quiet>>  \* the map is full
  /\ Goto(h, Idle)
  /\ UNCHANGED <<service, st, taskID, roll, budget>>

-----------------------------------------------------------------------------
(* runTask: RollingRestartService, then the entry is complete, and lingers  *)
(* for the clients that poll the status.                                    *)

Mutant_CompleteIfOk(ok) == /\ entry' = IF ok THEN "complete" ELSE entry
                           /\ job' = [job EXCEPT !.pc = "linger", !.ok = ok]
Finish(ok) == /\ entry' = "complete"
              /\ job' = [job EXCEPT !.pc = "linger", !.ok = ok]
Step(pc) == job' = [job EXCEPT !.pc = pc] /\ UNCHANGED entry
(* The wait for task k is over: the next one is task k - 1. *)
Mutant_SkipFirst(first) ==
  IF job.k <= 2 THEN Finish(TRUE)
  ELSE job' = [job EXCEPT !.pc = first, !.k = @ - 1] /\ UNCHANGED entry
NextTask(first) ==
  IF job.k = 1 THEN Finish(TRUE)
  ELSE job' = [job EXCEPT !.pc = first, !.k = @ - 1] /\ UNCHANGED entry

EndJob == entry' = "none" /\ job' = NoJob /\ kept' = {} /\ ready' = {} /\ quiet' = FALSE
taskDone ==
  /\ job.pc = "linger" /\ EndJob
  /\ UNCHANGED <<service, st, taskID, roll, call, budget>>

JobError(pc) ==
  /\ job.pc = pc /\ Finish(FALSE)
  /\ UNCHANGED <<service, slots, roll, call, budget>>

(* ECS: StopTask of a past task has no effect, or fails. *)
StopTask ==
  /\ job.pc = "stop"
  /\ LET i == job.k IN
     \/ /\ job.ids[i] = "present" /\ st[i] \in {"running", "starting", "stopping"}
        /\ st' = [st EXCEPT ![i] = "stopping"]
        /\ Step("waitStop")
     \/ /\ job.ids[i] = "past" \/ st[i] = "down"
        /\ Step("waitStop") /\ UNCHANGED st
  /\ UNCHANGED <<service, taskID, kept, ready, roll, call, quiet, budget>>
StopTaskFails == job.pc = "stop" /\ job.ids[job.k] # "present" /\ JobError("stop") /\ UNCHANGED quiet

(* describeService counts a container until it has stopped. *)
Running == Cardinality({i \in Slots : st[i] \in {"running", "stopping"}})
Pending == Cardinality({i \in Slots : st[i] = "starting"})

waitServiceTaskStop ==
  /\ job.pc = "waitStop" /\ Running < job.n
  /\ Step("waitRun")
  /\ UNCHANGED <<service, slots, roll, call, quiet, budget>>

Mutant_NotPending ==
  /\ job.pc = "waitRun" /\ Pending = 0 /\ NextTask("stop")
  /\ UNCHANGED <<service, slots, roll, call, quiet, budget>>
waitServiceRunning ==
  /\ job.pc = "waitRun"
  /\ \/ desired # job.n /\ Finish(FALSE)
     \/ desired = job.n /\ Pending = 0 /\ Running = desired /\ NextTask("stop")
  /\ UNCHANGED <<service, slots, roll, call, quiet, budget>>

(* Swarm: the service is inspected, then updated if its version is still    *)
(* the one seen; UpdateStatus is polled.                                    *)
SwarmInspect ==
  /\ job.pc = "inspect"
  /\ job' = [job EXCEPT !.pc = "update", !.ver = roll.ver]
  /\ UNCHANGED <<service, slots, roll, call, entry, quiet, budget>>
SwarmForceUpdate ==
  /\ job.pc = "update"
  /\ \/ job.ver # roll.ver /\ Finish(FALSE) /\ UNCHANGED roll
     \/ /\ job.ver = roll.ver
        /\ roll' = [status |-> "none", todo |-> 1..desired, ver |-> roll.ver + 1]
        /\ Step("poll")
  /\ UNCHANGED <<service, slots, call, quiet, budget>>
SwarmWaitUpdate ==
  /\ job.pc = "poll" /\ roll.status = "completed"
  /\ Finish(TRUE)
  /\ UNCHANGED <<service, slots, roll, call, quiet, budget>>

(* Kubernetes: the pod is deleted by name; it is recreated when it is ready *)
(* and became so since the restart began.                                   *)
DeletePod ==
  /\ job.pc = "delete"
  /\ \/ /\ st[job.k] \in {"running", "starting", "stopping"}
        /\ st' = [st EXCEPT ![job.k] = "stopping"] /\ Step("waitPod")
     \/ st[job.k] \in {"down", "none"} /\ Finish(FALSE) /\ UNCHANGED st
  /\ UNCHANGED <<service, taskID, kept, ready, roll, call, quiet, budget>>

PodReady == job.k \in ready /\ st[job.k] = "running"
waitPodRecreated ==
  /\ job.pc = "waitPod" /\ PodReady
  /\ NextTask("delete")
  /\ UNCHANGED <<service, slots, roll, call, quiet, budget>>

(* A wait that takes too long ends the restart with an error; on Kubernetes *)
(* it goes on with the next pod.                                            *)
Mutant_WaitForStop ==
  /\ quiet' = FALSE
  /\ \/ \E pc \in {"waitRun", "poll"} : JobError(pc)
     \/ /\ job.pc = "waitPod" /\ NextTask("delete")
        /\ UNCHANGED <<service, slots, roll, call, budget>>
WaitTimeout ==
  /\ quiet' = FALSE
  /\ \/ \E pc \in {"waitStop", "waitRun", "poll"} : JobError(pc)
     \/ /\ job.pc = "waitPod" /\ NextTask("delete")
        /\ UNCHANGED <<service, slots, roll, call, budget>>

(* The map, the goroutine and the requests are lost with the server. *)
ServerCrash ==
  /\ budget.crash > 0
  /\ call' = [h \in Handlers |-> Idle] /\ EndJob
  /\ budget' = [budget EXCEPT !.crash = @ - 1]
  /\ UNCHANGED <<service, st, taskID, roll>>

-----------------------------------------------------------------------------
RunTask == \/ StopTask \/ StopTaskFails \/ waitServiceTaskStop \/ waitServiceRunning
           \/ SwarmInspect \/ SwarmForceUpdate \/ SwarmWaitUpdate
           \/ DeletePod \/ waitPodRecreated \/ WaitTimeout
Platform == \/ \E i \in Slots : \/ Replace(i) \/ ClaimMember(i) \/ BecomeRunning(i)
                                \/ ContainerStopped(i)
            \/ SwarmUpdateNext \/ SwarmUpdateDone
Next ==
  \/ Platform
  \/ \E i \in Slots : ContainerFails(i)
  \/ ScaleCreateMember \/ ScalePlatform \/ ScaleUpdateAttr
  \/ \E h \in Handlers : \/ rollingRestartService(h) \/ GetServiceAttr(h)
                         \/ ListServiceMembers(h) \/ addTask(h)
  \/ RunTask \/ taskDone \/ ServerCrash

Spec == Init /\ [][Next]_vars

(* The goroutine goes on: each of its waits is bounded, and so is the time  *)
(* a finished task stays in the map.  Nothing is assumed of the platform.   *)
FairSpec == Spec /\ WF_vars(RunTask) /\ WF_vars(taskDone)

-----------------------------------------------------------------------------
(* "Restarts the tasks one after the other": while the containers do not    *)
(* fail by themselves and no wait times out, a restart never has two of the *)
(* service's containers down, on any platform.                              *)
OneAtATime ==
  (entry = "running" /\ quiet) => Cardinality({i \in 1..job.n : st[i] # "running"}) <= 1

(* A restart that ends with success has replaced every container it was     *)
(* accepted for, those whose id the record did not name yet included.       *)
RestartCovers == (entry = "complete" /\ job.ok /\ quiet) => kept = {}

(* Whatever the platform does, a restart ends and leaves the map, so that   *)
(* the client stops polling and the next request is not refused.            *)
RestartEnds == entry = "running" ~> entry = "none"
=============================================================================
