------------------------ MODULE RollingRestartProofs ------------------------
(***************************************************************************)
(* On each of the three platforms, for any number of replicas, requests,   *)
(* failures and crashes: a rolling restart takes one container down at a   *)
(* time, and covers them all when it ends with success.                    *)
(*                                                                         *)
(* OneAtATime and RestartCovers are about every moment of a restart, and   *)
(* each depends on the other: that the next container may be stopped       *)
(* follows from the one before it running again, and that it is another    *)
(* container than the one that was stopped from where the wait stands.     *)
(* The strengthening therefore says for ECS and K8s, where the manage      *)
(* server takes the turns, what holds at each step of a turn (Turn), and   *)
(* for Swarm, where the platform does, what is left to be updated.         *)
(***************************************************************************)
EXTENDS RollingRestart, FiniteSetTheorems, TLAPS

Ids == UNION {[1..m -> IDs] : m \in 0..(Replicas + 1)}
Calls == [pc : {"idle", "attr", "members", "add"}, n : Nat, ids : Ids]
Jobs == [pc : JobSteps \cup {"none", "linger"}, k : Nat, n : Nat, ids : Ids, ver : Nat, ok : BOOLEAN]
Rolls == [status : {"none", "updating", "completed"}, todo : SUBSET Slots, ver : Nat]

TypeInv ==
  /\ TypeOK
  /\ call \in [Handlers -> Calls] /\ job \in Jobs /\ roll \in Rolls
  /\ \A h \in Handlers : DOMAIN call[h].ids = 1..call[h].n

(* A scale adds the member, then the container, then the replica; a restart *)
(* is about the replicas it has read, or fewer than there are by now.       *)
Counts ==
  /\ Replicas <= replicas /\ replicas <= desired /\ desired <= members /\ members <= Replicas + 1
  /\ \A i \in Slots : st[i] = "none" <=> desired < i
  /\ \A h \in Handlers : call[h].pc \in {"members", "add"} => 1 <= call[h].n /\ call[h].n <= replicas
  /\ entry # "none" => 1 <= job.k /\ job.n <= replicas /\ kept \subseteq 1..job.n
  /\ roll.todo \subseteq 1..desired

OwnSteps ==
  /\ job.pc \in {"stop", "waitStop", "waitRun"} => platform = "ecs"
  /\ job.pc \in {"delete", "waitPod"} => platform = "k8s"
  /\ job.pc \in {"inspect", "update", "poll"} => platform = "swarm"

(* At most one container of the restart is not running. *)
One ==
  entry = "running" /\ quiet =>
    \A i, j \in 1..job.n : st[i] # "running" /\ st[j] # "running" => i = j

(* A container that starts, or became ready, is a new one. *)
Fresh ==
  entry = "running" /\ quiet =>
    \A i \in 1..job.n : st[i] = "starting" \/ i \in ready => i \notin kept

(* ECS and K8s: the slots after k had their turn, and only k's container    *)
(* may not be running; after the wait for its stop it is a past one, unless *)
(* it is still to be replaced.                                              *)
Turn ==
  entry = "running" /\ quiet /\ platform # "swarm" =>
    /\ \A i \in 1..job.n : /\ i # job.k \/ job.pc \in {"stop", "delete"} => st[i] = "running"
                           /\ job.k < i => i \notin kept
    /\ job.pc = "waitRun" => /\ st[job.k] # "stopping"
                             /\ st[job.k] = "running" => job.k \notin kept

(* Swarm: a container that is still kept is on the list of the update or is *)
(* about to be replaced.                                                    *)
SwarmCover ==
  job.pc = "poll" =>
    /\ \A i \in kept : i \in roll.todo \/ st[i] \in {"stopping", "down"}
    /\ roll.status = "completed" => kept = {}

IInv == TypeInv /\ Counts /\ OwnSteps /\ One /\ Fresh /\ Turn /\ SwarmCover /\ RestartCovers

-----------------------------------------------------------------------------
(* Types *)

Budgets == [request : Nat, failure : Nat, crash : Nat]

LEMMA Facts ==
  ASSUME IInv
  PROVE  /\ platform \in {"ecs", "swarm", "k8s"} /\ platform \in Platforms
         /\ replicas \in Nat /\ members \in Nat /\ desired \in Nat
         /\ Replicas \in Nat /\ 1 <= Replicas
         /\ Replicas <= replicas /\ replicas <= desired /\ desired <= members /\ members <= Replicas + 1
         /\ st \in [Slots -> States] /\ taskID \in [Slots -> IDs]
         /\ \A i \in Slots : i \in Nat
         /\ roll \in Rolls /\ job \in Jobs /\ call \in [Handlers -> Calls]
         /\ kept \subseteq Slots /\ ready \subseteq Slots /\ quiet \in BOOLEAN
         /\ budget \in Budgets /\ roll.todo \subseteq 1..desired
  BY PlatformsAssumption, ReplicasAssumption DEF IInv, TypeInv, TypeOK, Counts, Budgets, Slots

LEMMA JobFacts ==
  ASSUME IInv, entry # "none"
  PROVE  /\ job.k \in Nat /\ job.n \in Nat /\ 1 <= job.k /\ job.k <= job.n
         /\ job.n <= replicas /\ job.n <= desired /\ 1..job.n \subseteq Slots /\ job.k \in 1..job.n
         /\ job.k \in Slots
         /\ \A i \in 1..job.n : i \in Nat /\ i <= desired /\ st[i] # "none"
         /\ kept \subseteq 1..job.n
  <1>1. job.k \in Nat /\ job.n \in Nat /\ 1 <= job.k /\ job.k <= job.n
        /\ job.n <= replicas /\ kept \subseteq 1..job.n
    BY DEF IInv, TypeInv, TypeOK, Counts, Jobs
  <1>2. 1..job.n \subseteq Slots /\ \A i \in 1..job.n : i \in Nat /\ i <= desired /\ ~(desired < i)
    BY <1>1, Facts DEF Slots
  <1> QED BY <1>1, <1>2, Facts DEF IInv, Counts

LEMMA PastTyped ==
  ASSUME NEW m, NEW f \in [1..m -> IDs], NEW i
  PROVE  Past(f, i) \in [1..m -> IDs]
  BY DEF Past, IDs

LEMMA PastIds ==
  ASSUME NEW f \in Ids, NEW i
  PROVE  Past(f, i) \in Ids /\ DOMAIN Past(f, i) = DOMAIN f
  <1>1. PICK m \in 0..(Replicas + 1) : f \in [1..m -> IDs]
    BY DEF Ids
  <1> QED BY <1>1, PastTyped DEF Ids

LEMMA IdleTyped ==
  /\ Idle \in Calls /\ DOMAIN Idle.ids = 1..Idle.n /\ Idle.pc = "idle"
  /\ [Idle EXCEPT !.pc = "attr"] \in Calls
  /\ NoJob \in Jobs /\ DOMAIN NoJob.ids = 1..NoJob.n
  <1>1. [i \in {} |-> "none"] \in [1..0 -> IDs] /\ 1..0 = {} /\ 0 \in 0..(Replicas + 1)
    BY ReplicasAssumption
  <1>2. [i \in {} |-> "none"] \in Ids
    BY <1>1 DEF Ids
  <1> QED BY <1>1, <1>2 DEF Idle, NoJob, Calls, Jobs

-----------------------------------------------------------------------------
(* What the counts of describeService say about the slots. *)

Up == {i \in Slots : st[i] \in {"running", "stopping"}}

LEMMA UpFinite == ASSUME IInv PROVE IsFiniteSet(Slots) /\ IsFiniteSet(Up) /\ Cardinality(Up) \in Nat /\ Running = Cardinality(Up)
  <1>1. IsFiniteSet(Slots)
    BY FS_Interval, ReplicasAssumption DEF Slots
  <1>2. Up \in SUBSET Slots
    BY DEF Up
  <1> QED BY <1>1, <1>2, FS_Subset, FS_CardinalityType DEF Running, Up

LEMMA FirstN ==
  ASSUME NEW n \in Nat
  PROVE  IsFiniteSet(1..n) /\ Cardinality(1..n) = n
  BY FS_Interval

(* Fewer than n are counted: one of the first n is neither running nor stopping. *)
LEMMA FewerUp ==
  ASSUME IInv, NEW n \in Nat, 1..n \subseteq Slots, Running < n
  PROVE  \E i \in 1..n : st[i] \notin {"running", "stopping"}
  <1> SUFFICES ASSUME \A i \in 1..n : st[i] \in {"running", "stopping"} PROVE FALSE
    OBVIOUS
  <1>1. 1..n \in SUBSET Up
    BY DEF Up
  <1>2. n <= Cardinality(Up)
    BY <1>1, UpFinite, FirstN, FS_Subset
  <1> QED BY <1>2, UpFinite

(* As many as are desired are counted: all of them are up. *)
LEMMA AllUp ==
  ASSUME IInv, Running = desired, NEW i \in 1..desired
  PROVE  st[i] \in {"running", "stopping"}
  <1>1. Up \in SUBSET (1..desired)
    BY Facts DEF Up, IInv, Counts, Slots
  <1>2. Up = 1..desired
    BY <1>1, UpFinite, FirstN, FS_Subset, Facts
  <1> QED BY <1>2 DEF Up

-----------------------------------------------------------------------------
LEMMA InitLemma ==
  ASSUME Init
  PROVE  IInv
  <1>1. TypeInv
    <2>1. /\ st \in [Slots -> States] /\ taskID \in [Slots -> IDs] /\ roll \in Rolls
          /\ replicas \in Nat /\ members \in Nat /\ desired \in Nat
      BY ReplicasAssumption DEF Init, States, IDs, Rolls, Slots
    <2>2. budget \in [request : Nat, failure : Nat, crash : Nat]
      BY BoundsAssumption DEF Init
    <2>3. /\ job \in Jobs /\ job.pc = "none" /\ job.k <= job.n /\ DOMAIN job.ids = 1..job.n
      BY IdleTyped DEF Init, NoJob
    <2>4. call \in [Handlers -> Calls]
          /\ \A h \in Handlers : call[h].pc = "idle" /\ DOMAIN call[h].ids = 1..call[h].n
      BY IdleTyped DEF Init
    <2> QED BY <2>1, <2>2, <2>3, <2>4 DEF Init, TypeInv, TypeOK, JobSteps, Rolls
  <1>2. Counts
    BY IdleTyped, ReplicasAssumption DEF Init, Counts, Slots
  <1> QED BY <1>1, <1>2 DEF Init, IInv, OwnSteps, One, Fresh, Turn, SwarmCover, RestartCovers, NoJob

(* Requests only move their handler until a job starts. *)
LEMMA CallLemma ==
  ASSUME IInv, NEW h \in Handlers, NEW c \in Calls, DOMAIN c.ids = 1..c.n,
         c.pc \in {"members", "add"} => 1 <= c.n /\ c.n <= replicas,
         call' = [call EXCEPT ![h] = c], budget' \in Budgets,
         UNCHANGED <<service, slots, roll, entry, job, quiet>>
  PROVE  IInv'
  <1>1. call' \in [Handlers -> Calls] /\ \A g \in Handlers : call'[g] \in {c, call[g]}
    BY DEF IInv, TypeInv
  <1>2. \A g \in Handlers : call'[g].pc \in {"idle", "attr", "members", "add"}
    BY <1>1 DEF Calls
  <1>3. TypeInv'
    BY <1>1, <1>2 DEF IInv, TypeInv, TypeOK, service, slots, Budgets
  <1>4. Counts'
    BY <1>1 DEF IInv, Counts, service, slots
  <1> QED BY <1>3, <1>4 DEF IInv, OwnSteps, One, Fresh, Turn, SwarmCover, RestartCovers, service, slots

LEMMA RequestLemma ==
  ASSUME IInv, NEW h \in Handlers, rollingRestartService(h)
  PROVE  IInv'
  <1>1. PICK c \in Calls : /\ call' = [call EXCEPT ![h] = c] /\ DOMAIN c.ids = 1..c.n
                           /\ c.pc \in {"idle", "attr"}
    <2> DEFINE a == [Idle EXCEPT !.pc = "attr"]
    <2>1. a \in Calls /\ a.ids = Idle.ids /\ a.n = Idle.n /\ a.pc = "attr"
      BY IdleTyped DEF Idle
    <2> QED BY <2>1, IdleTyped DEF rollingRestartService, Goto
  <1>2. budget' \in Budgets
    BY Facts DEF rollingRestartService, Budgets
  <1> QED BY <1>1, <1>2, CallLemma DEF rollingRestartService

LEMMA GetServiceAttrLemma ==
  ASSUME IInv, NEW h \in Handlers, GetServiceAttr(h)
  PROVE  IInv'
  <1> DEFINE ids == [i \in 1..replicas |-> "none"]
             pc == IF platform = "k8s" THEN "add" ELSE "members"
             c == [pc |-> pc, n |-> replicas, ids |-> ids]
  <1>1. ids \in Ids /\ DOMAIN ids = 1..replicas
    <2>1. ids \in [1..replicas -> IDs] /\ replicas \in 0..(Replicas + 1)
      BY Facts DEF IDs
    <2> QED BY <2>1 DEF Ids
  <1>2. c \in Calls /\ c.ids = ids /\ c.n = replicas
    BY <1>1, Facts DEF Calls
  <1>3. call' = [call EXCEPT ![h] = c]
    BY DEF GetServiceAttr, Goto
  <1>4. budget' \in Budgets /\ 1 <= replicas /\ replicas <= replicas
    BY Facts DEF GetServiceAttr
  <1> HIDE DEF c, ids
  <1> QED BY <1>1, <1>2, <1>3, <1>4, CallLemma DEF GetServiceAttr

LEMMA ListServiceMembersLemma ==
  ASSUME IInv, NEW h \in Handlers, ListServiceMembers(h)
  PROVE  IInv'
  <1>0. budget' \in Budgets /\ UNCHANGED <<service, slots, roll, entry, job, quiet>>
    BY Facts DEF ListServiceMembers
  <1>1. CASE Goto(h, Idle)
    BY <1>0, <1>1, IdleTyped, CallLemma DEF Goto
  <1>2. CASE ~Goto(h, Idle)
    <2> DEFINE ids == [i \in 1..call[h].n |-> taskID[i]]
               c == [call[h] EXCEPT !.pc = "add", !.ids = ids]
    <2>1. /\ call[h].pc = "members" /\ call' = [call EXCEPT ![h] = c]
      BY <1>2 DEF ListServiceMembers, Goto
    <2>2. call[h] \in Calls /\ call[h].n \in Nat /\ 1 <= call[h].n /\ call[h].n <= replicas
      BY <2>1, Facts DEF IInv, Counts, Calls
    <2>3. ids \in Ids /\ DOMAIN ids = 1..call[h].n
      <3>1. ids \in [1..call[h].n -> IDs] /\ call[h].n \in 0..(Replicas + 1)
        BY <2>2, Facts DEF Slots
      <3> QED BY <3>1 DEF Ids
    <2> HIDE DEF ids
    <2>4. c \in Calls /\ c.ids = ids /\ c.n = call[h].n /\ c.pc = "add"
      BY <2>2, <2>3 DEF Calls
    <2> HIDE DEF c
    <2> QED BY <1>0, <2>1, <2>2, <2>3, <2>4, CallLemma
  <1> QED BY <1>1, <1>2

-----------------------------------------------------------------------------
(* A job starts with every slot it covers kept, and its turns to come. *)
LEMMA StartLemma ==
  ASSUME IInv, NEW h \in Handlers, call[h].pc = "add", ~hasTask, StartJob(call[h]),
         call' = [call EXCEPT ![h] = Idle],
         UNCHANGED <<service, st, taskID, roll, budget>>
  PROVE  IInv'
  <1> DEFINE c == call[h]
             first == FirstStep
  <1>1. /\ c \in Calls /\ c.n \in Nat /\ c.ids \in Ids /\ DOMAIN c.ids = 1..c.n
        /\ 1 <= c.n /\ c.n <= replicas
    BY Facts DEF IInv, TypeInv, Counts, Calls
  <1>2. /\ first \in {"stop", "delete", "inspect"} /\ first \in JobSteps
        /\ first = "stop" <=> platform = "ecs"
        /\ first = "delete" <=> platform = "k8s"
        /\ first = "inspect" <=> platform = "swarm"
    BY Facts DEF FirstStep, JobSteps
  <1> DEFINE j == [NoJob EXCEPT !.pc = first, !.k = c.n, !.n = c.n, !.ids = c.ids]
  <1>3. /\ job' = j /\ entry' = "running" /\ kept' = 1..c.n /\ ready' = {}
        /\ quiet' = \A i \in 1..c.n : st[i] = "running"
    BY DEF StartJob
  <1> HIDE DEF first
  <1>4. j \in Jobs /\ j.pc = first /\ j.k = c.n /\ j.n = c.n /\ j.ids = c.ids
    BY <1>1, <1>2, IdleTyped DEF Jobs, NoJob
  <1> HIDE DEF j
  <1>5. call' \in [Handlers -> Calls] /\ \A g \in Handlers : call'[g] \in {Idle, call[g]}
    BY IdleTyped DEF IInv, TypeInv
  <1>6. 1..c.n \subseteq Slots /\ quiet' \in BOOLEAN
    BY <1>1, <1>3, Facts DEF Slots
  <1>7. TypeInv'
    <2>1. \A g \in Handlers : call'[g].pc \in {"idle", "attr", "members", "add"}
                              /\ DOMAIN call'[g].ids = 1..call'[g].n
      BY <1>5, IdleTyped DEF IInv, TypeInv, Calls
    <2>2. job'.k <= job'.n /\ DOMAIN job'.ids = 1..job'.n /\ job'.pc \in JobSteps /\ job' \in Jobs
          /\ job'.pc \notin {"none", "linger"}
      BY <1>1, <1>2, <1>3, <1>4
    <2> QED BY <1>3, <1>5, <1>6, <2>1, <2>2 DEF IInv, TypeInv, TypeOK, service
  <1>8. Counts'
    BY <1>1, <1>3, <1>4, <1>5, IdleTyped DEF IInv, Counts, service
  <1>9. OwnSteps' /\ SwarmCover' /\ RestartCovers'
    BY <1>2, <1>3, <1>4 DEF OwnSteps, SwarmCover, RestartCovers, service
  <1>10. One' /\ Fresh' /\ Turn'
    <2> SUFFICES ASSUME quiet' PROVE One' /\ Fresh' /\ Turn'
      BY DEF One, Fresh, Turn
    <2>1. \A i \in 1..job'.n : st'[i] = "running" /\ i \notin ready'
      BY <1>3, <1>4
    <2>2. \A i \in 1..job'.n : ~(job'.k < i)
      BY <1>1, <1>3, <1>4
    <2>3. job'.pc \notin {"waitRun"}
      BY <1>2, <1>3, <1>4
    <2> QED BY <2>1, <2>2, <2>3 DEF One, Fresh, Turn
  <1> QED BY <1>7, <1>8, <1>9, <1>10 DEF IInv

LEMMA addTaskLemma ==
  ASSUME IInv, NEW h \in Handlers, addTask(h)
  PROVE  IInv'
  <1>1. /\ call[h].pc = "add" /\ call' = [call EXCEPT ![h] = Idle]
        /\ UNCHANGED <<service, st, taskID, roll, budget>>
    BY DEF addTask, Goto
  <1>2. CASE UNCHANGED <<entry, job, kept, ready, quiet>>
    BY <1>1, <1>2, IdleTyped, CallLemma, Facts DEF slots
  <1>3. CASE ~hasTask /\ StartJob(call[h])
    BY <1>1, <1>3, StartLemma
  <1> QED BY <1>2, <1>3 DEF addTask

-----------------------------------------------------------------------------
(* A step of the job that leaves the slots alone. *)
LEMMA JobLemma ==
  ASSUME IInv, entry = "running", NEW j \in Jobs, job' = j,
         \/ entry' = "running" /\ j.pc \in JobSteps
         \/ entry' = "complete" /\ j.pc = "linger",
         j.n = job.n, j.ids = job.ids, 1 <= j.k, j.k <= j.n,
         roll' \in Rolls, roll'.todo \subseteq 1..desired, quiet' \in {quiet, FALSE},
         UNCHANGED <<service, slots, call, budget>>,
         OwnSteps', Turn', SwarmCover', RestartCovers'
  PROVE  IInv'
  <1>1. TypeInv'
    <2>1. j.pc \notin {"none"} /\ (j.pc = "linger" => j.pc \notin JobSteps)
      BY DEF JobSteps
    <2>2. quiet' \in BOOLEAN
      BY Facts
    <2> QED BY <2>1, <2>2 DEF IInv, TypeInv, TypeOK, service, slots, Rolls
  <1>2. Counts'
    BY DEF IInv, Counts, service, slots
  <1>3. One' /\ Fresh'
    <2>1. CASE quiet' = FALSE
      BY <2>1 DEF One, Fresh
    <2>2. CASE quiet' = quiet
      BY <2>2 DEF IInv, One, Fresh, slots
    <2> QED BY <2>1, <2>2
  <1> QED BY <1>1, <1>2, <1>3 DEF IInv

LEMMA FinishLemma ==
  ASSUME IInv, entry = "running", NEW ok \in BOOLEAN, Finish(ok),
         quiet' \in {quiet, FALSE}, ok /\ quiet' => kept = {},
         UNCHANGED <<service, slots, roll, call, budget>>
  PROVE  IInv'
  <1> DEFINE j == [job EXCEPT !.pc = "linger", !.ok = ok]
  <1>1. /\ j \in Jobs /\ j.pc = "linger" /\ j.ok = ok /\ j.n = job.n /\ j.ids = job.ids /\ j.k = job.k
    BY Facts DEF Jobs
  <1>2. job' = j /\ entry' = "complete"
    BY DEF Finish
  <1> HIDE DEF j
  <1>3. OwnSteps' /\ Turn' /\ SwarmCover' /\ RestartCovers'
    BY <1>1, <1>2 DEF OwnSteps, Turn, SwarmCover, RestartCovers, slots
  <1> QED BY <1>1, <1>2, <1>3, JobLemma, JobFacts, Facts

(* The turn of slot k is over. *)
LEMMA NextTaskLemma ==
  ASSUME IInv, entry = "running", NEW first \in {"stop", "delete"}, NextTask(first),
         quiet' \in {quiet, FALSE}, platform # "swarm",
         first = "stop" <=> platform = "ecs",
         quiet' => st[job.k] = "running" /\ job.k \notin kept,
         UNCHANGED <<service, slots, roll, call, budget>>
  PROVE  IInv'
  <1>0. /\ job.k \in Nat /\ job.n \in Nat /\ 1 <= job.k /\ job.k <= job.n /\ kept \subseteq 1..job.n
    BY JobFacts
  <1>1. ASSUME quiet', NEW i \in 1..job.n
        PROVE  st[i] = "running" /\ (job.k - 1 < i => i \notin kept)
    <2>1. quiet /\ (i # job.k => st[i] = "running") /\ (job.k < i => i \notin kept)
      BY <1>1 DEF IInv, Turn
    <2>2. job.k - 1 < i => i = job.k \/ job.k < i
      BY <1>0
    <2> QED BY <1>1, <2>1, <2>2
  <1>2. CASE job.k = 1
    <2>1. ASSUME quiet', NEW i \in kept PROVE FALSE
      <3>1. i \in 1..job.n /\ 0 < i
        BY <1>0, <2>1
      <3> QED BY <1>0, <1>1, <1>2, <2>1, <3>1
    <2> QED BY <1>2, <2>1, FinishLemma DEF NextTask
  <1>3. CASE job.k # 1
    <2> DEFINE k == job.k - 1
               j == [job EXCEPT !.pc = first, !.k = k]
    <2>1. k \in Nat /\ 1 <= k /\ k <= job.n /\ first \in JobSteps
      BY <1>0, <1>3 DEF JobSteps
    <2>2. job' = j /\ entry' = "running"
      BY <1>3 DEF NextTask
    <2>3. ASSUME quiet', NEW i \in 1..job.n PROVE st[i] = "running" /\ (k < i => i \notin kept)
      BY <1>1, <2>3
    <2> HIDE DEF k
    <2>4. j \in Jobs /\ j.pc = first /\ j.k = k /\ j.n = job.n /\ j.ids = job.ids
      BY <2>1, Facts DEF Jobs
    <2> HIDE DEF j
    <2>5. OwnSteps' /\ SwarmCover' /\ RestartCovers'
      BY <2>2, <2>4, Facts DEF OwnSteps, SwarmCover, RestartCovers, service
    <2>6. Turn'
      BY <2>2, <2>3, <2>4 DEF Turn, slots
    <2> QED BY <2>1, <2>2, <2>4, <2>5, <2>6, JobLemma, Facts
  <1> QED BY <1>2, <1>3

(* The next step of the same turn. *)
LEMMA StepTyped ==
  ASSUME NEW pc \in JobSteps, IInv
  PROVE  LET j == [job EXCEPT !.pc = pc]
         IN  j \in Jobs /\ j.pc = pc /\ j.k = job.k /\ j.n = job.n /\ j.ids = job.ids /\ j.ver = job.ver
  BY Facts DEF Jobs



LEMMA WaitStopLemma ==
  ASSUME IInv, waitServiceTaskStop
  PROVE  IInv'
  <1>0. /\ job.pc = "waitStop" /\ entry = "running" /\ platform = "ecs" /\ "waitRun" \in JobSteps
        /\ UNCHANGED <<service, slots, roll, call, quiet, budget>> /\ entry' = "running"
    BY DEF waitServiceTaskStop, JobSteps, IInv, TypeInv, TypeOK, OwnSteps, Step
  <1>1. PICK j \in Jobs : /\ job' = j /\ j.pc = "waitRun" /\ j.k = job.k
                          /\ j.n = job.n /\ j.ids = job.ids
    BY <1>0, StepTyped DEF waitServiceTaskStop, Step
  <1>2. PICK i \in 1..job.n : st[i] \notin {"running", "stopping"}
    BY <1>0, JobFacts, FewerUp DEF waitServiceTaskStop
  <1>3. quiet => i = job.k
    BY <1>0, <1>2 DEF IInv, Turn
  <1>4. Turn'
    BY <1>0, <1>1, <1>2, <1>3 DEF IInv, Turn, slots, service
  <1>5. OwnSteps' /\ SwarmCover' /\ RestartCovers'
    BY <1>0, <1>1 DEF OwnSteps, SwarmCover, RestartCovers, service
  <1> QED BY <1>0, <1>1, <1>4, <1>5, JobLemma, JobFacts, Facts

LEMMA WaitRunningLemma ==
  ASSUME IInv, waitServiceRunning
  PROVE  IInv'
  <1>0. /\ job.pc = "waitRun" /\ entry = "running" /\ platform = "ecs"
        /\ UNCHANGED <<service, slots, roll, call, quiet, budget>>
    BY DEF waitServiceRunning, JobSteps, IInv, TypeInv, TypeOK, OwnSteps
  <1>1. CASE Finish(FALSE)
    BY <1>0, <1>1, FinishLemma
  <1>2. CASE desired = job.n /\ Running = desired /\ NextTask("stop")
    <2>1. job.k \in 1..desired
      BY <1>0, <1>2, JobFacts
    <2>2. st[job.k] \in {"running", "stopping"}
      BY <1>2, <2>1, AllUp
    <2>3. quiet => st[job.k] = "running" /\ job.k \notin kept
      BY <1>0, <2>2 DEF IInv, Turn
    <2> QED BY <1>0, <1>2, <2>3, NextTaskLemma
  <1> QED BY <1>1, <1>2 DEF waitServiceRunning

LEMMA PodRecreatedLemma ==
  ASSUME IInv, waitPodRecreated
  PROVE  IInv'
  <1>0. /\ job.pc = "waitPod" /\ entry = "running" /\ platform = "k8s"
        /\ UNCHANGED <<service, slots, roll, call, quiet, budget>>
    BY DEF waitPodRecreated, JobSteps, IInv, TypeInv, TypeOK, OwnSteps
  <1>1. quiet => st[job.k] = "running" /\ job.k \notin kept
    BY <1>0, JobFacts DEF waitPodRecreated, PodReady, IInv, Fresh
  <1> QED BY <1>0, <1>1, NextTaskLemma DEF waitPodRecreated

LEMMA TimeoutLemma ==
  ASSUME IInv, WaitTimeout
  PROVE  IInv'
  <1>1. CASE \E pc \in {"waitStop", "waitRun", "poll"} : JobError(pc)
    <2>1. entry = "running"
      BY <1>1 DEF JobError, JobSteps, IInv, TypeInv, TypeOK
    <2> QED BY <1>1, <2>1, FinishLemma DEF JobError, WaitTimeout
  <1>2. CASE job.pc = "waitPod" /\ NextTask("delete") /\ UNCHANGED <<service, slots, roll, call, budget>>
    <2>1. entry = "running" /\ platform = "k8s"
      BY <1>2 DEF JobSteps, IInv, TypeInv, TypeOK, OwnSteps
    <2> QED BY <1>2, <2>1, NextTaskLemma DEF WaitTimeout
  <1> QED BY <1>1, <1>2 DEF WaitTimeout

LEMMA StopFailsLemma ==
  ASSUME IInv, StopTaskFails
  PROVE  IInv'
  <1>1. entry = "running"
    BY DEF StopTaskFails, JobSteps, IInv, TypeInv, TypeOK
  <1> QED BY <1>1, FinishLemma DEF StopTaskFails, JobError

LEMMA InspectLemma ==
  ASSUME IInv, SwarmInspect
  PROVE  IInv'
  <1>0. /\ job.pc = "inspect" /\ entry = "running" /\ platform = "swarm" /\ "update" \in JobSteps
        /\ roll.ver \in Nat /\ entry' = "running"
        /\ UNCHANGED <<service, slots, roll, call, entry, quiet, budget>>
    BY Facts DEF SwarmInspect, JobSteps, IInv, TypeInv, TypeOK, OwnSteps, Rolls
  <1> DEFINE j == [job EXCEPT !.pc = "update", !.ver = roll.ver]
  <1>1. job' = j
    BY DEF SwarmInspect
  <1>2. j \in Jobs /\ j.pc = "update" /\ j.k = job.k /\ j.n = job.n /\ j.ids = job.ids
    BY <1>0, Facts DEF Jobs
  <1> HIDE DEF j
  <1>3. OwnSteps' /\ Turn' /\ SwarmCover' /\ RestartCovers'
    BY <1>0, <1>1, <1>2 DEF OwnSteps, Turn, SwarmCover, RestartCovers, service
  <1> QED BY <1>0, <1>1, <1>2, <1>3, JobLemma, JobFacts, Facts

LEMMA ForceUpdateLemma ==
  ASSUME IInv, SwarmForceUpdate
  PROVE  IInv'
  <1>0. /\ job.pc = "update" /\ entry = "running" /\ platform = "swarm" /\ "poll" \in JobSteps
        /\ UNCHANGED <<service, slots, call, quiet, budget>>
    BY DEF SwarmForceUpdate, JobSteps, IInv, TypeInv, TypeOK, OwnSteps
  <1>1. CASE Finish(FALSE) /\ UNCHANGED roll
    BY <1>0, <1>1, FinishLemma
  <1>2. CASE Step("poll") /\ roll' = [status |-> "none", todo |-> 1..desired, ver |-> roll.ver + 1]
    <2>1. PICK j \in Jobs : /\ job' = j /\ j.pc = "poll" /\ j.k = job.k
                            /\ j.n = job.n /\ j.ids = job.ids
      BY <1>0, <1>2, StepTyped DEF Step
    <2>2. roll' \in Rolls /\ roll'.status = "none" /\ roll'.todo = 1..desired
      BY <1>2, Facts DEF Rolls, Slots
    <2>3. kept \subseteq 1..desired
      BY <1>0, JobFacts, Facts
    <2>4. OwnSteps' /\ Turn' /\ SwarmCover' /\ RestartCovers' /\ entry' = "running"
      BY <1>0, <1>2, <2>1, <2>2, <2>3 DEF OwnSteps, Turn, SwarmCover, RestartCovers, service, slots, Step
    <2> QED BY <1>0, <2>1, <2>2, <2>4, JobLemma, JobFacts
  <1> QED BY <1>1, <1>2 DEF SwarmForceUpdate

LEMMA WaitUpdateLemma ==
  ASSUME IInv, SwarmWaitUpdate
  PROVE  IInv'
  <1>1. /\ entry = "running" /\ kept = {}
    BY DEF SwarmWaitUpdate, JobSteps, IInv, TypeInv, TypeOK, SwarmCover
  <1> QED BY <1>1, FinishLemma DEF SwarmWaitUpdate

(* A step of the job that stops the container of slot k. *)
LEMMA StopSlotLemma ==
  ASSUME IInv, entry = "running", NEW pc \in {"waitStop", "waitPod"}, Step(pc),
         pc = "waitStop" <=> platform = "ecs", platform # "swarm",
         job.pc \in {"stop", "delete"},
         st' = [st EXCEPT ![job.k] = "stopping"] \/ st' = st,
         UNCHANGED <<service, taskID, kept, ready, roll, call, quiet, budget>>
  PROVE  IInv'
  <1>0. PICK j \in Jobs : /\ job' = j /\ j.pc = pc /\ j.k = job.k
                          /\ j.n = job.n /\ j.ids = job.ids /\ pc \in JobSteps /\ entry' = "running"
    BY StepTyped DEF Step, JobSteps
  <1>1. st' \in [Slots -> States] /\ \A i \in Slots : st'[i] = st[i] \/ (i = job.k /\ st'[i] = "stopping")
    BY Facts, JobFacts DEF States
  <1>2. TypeInv'
    <2>1. pc \notin {"none", "linger"}
      OBVIOUS
    <2> QED BY <1>0, <1>1, <2>1 DEF IInv, TypeInv, TypeOK, service
  <1>3. Counts'
    BY <1>0, <1>1, JobFacts DEF IInv, Counts, service
  <1>4. ASSUME quiet, NEW i \in 1..job.n
        PROVE  /\ i # job.k => st'[i] = "running"
               /\ job.k < i => i \notin kept
               /\ st'[i] # "starting" /\ (i \in ready => i \notin kept)
    <2>1. st[i] = "running" /\ (job.k < i => i \notin kept) /\ (i \in ready => i \notin kept)
      BY <1>4 DEF IInv, Turn, Fresh
    <2> QED BY <1>1, <2>1, JobFacts
  <1>5. One' /\ Fresh' /\ Turn'
    BY <1>0, <1>4 DEF One, Fresh, Turn, service
  <1>6. OwnSteps' /\ SwarmCover' /\ RestartCovers'
    BY <1>0, Facts DEF OwnSteps, SwarmCover, RestartCovers, service
  <1> QED BY <1>2, <1>3, <1>5, <1>6 DEF IInv

LEMMA StopTaskLemma ==
  ASSUME IInv, StopTask
  PROVE  IInv'
  <1>1. /\ job.pc = "stop" /\ entry = "running" /\ platform = "ecs" /\ Step("waitStop")
        /\ st' = [st EXCEPT ![job.k] = "stopping"] \/ st' = st
        /\ UNCHANGED <<service, taskID, kept, ready, roll, call, quiet, budget>>
    BY DEF StopTask, JobSteps, IInv, TypeInv, TypeOK, OwnSteps
  <1> QED BY <1>1, StopSlotLemma

LEMMA DeletePodLemma ==
  ASSUME IInv, DeletePod
  PROVE  IInv'
  <1>0. /\ job.pc = "delete" /\ entry = "running" /\ platform = "k8s"
        /\ UNCHANGED <<service, taskID, kept, ready, roll, call, quiet, budget>>
    BY DEF DeletePod, JobSteps, IInv, TypeInv, TypeOK, OwnSteps
  <1>1. CASE Finish(FALSE) /\ UNCHANGED st
    BY <1>0, <1>1, FinishLemma DEF slots
  <1>2. CASE st' = [st EXCEPT ![job.k] = "stopping"] /\ Step("waitPod")
    BY <1>0, <1>2, StopSlotLemma
  <1> QED BY <1>1, <1>2 DEF DeletePod

LEMMA EndJobLemma ==
  ASSUME IInv, EndJob, UNCHANGED <<service, st, taskID, roll>>, budget' \in Budgets,
         call' = call \/ call' = [h \in Handlers |-> Idle]
  PROVE  IInv'
  <1>1. job' = NoJob /\ job'.pc = "none" /\ job'.k = 0 /\ job'.n = 0 /\ "none" \notin JobSteps
    BY DEF EndJob, NoJob, JobSteps
  <1>2. TypeInv'
    <2>1. call' \in [Handlers -> Calls]
          /\ \A h \in Handlers : call'[h].pc \in {"idle", "attr", "members", "add"}
                               /\ DOMAIN call'[h].ids = 1..call'[h].n
      BY IdleTyped DEF IInv, TypeInv, TypeOK
    <2>2. /\ job' \in Jobs /\ job'.k <= job'.n /\ DOMAIN job'.ids = 1..job'.n
          /\ job'.pc \notin JobSteps /\ job'.pc # "linger" /\ entry' = "none"
          /\ kept' \subseteq Slots /\ ready' \subseteq Slots
      BY <1>1, IdleTyped DEF EndJob
    <2>3. quiet' \in BOOLEAN
      BY DEF EndJob
    <2> QED BY <1>1, <2>1, <2>2, <2>3 DEF IInv, TypeInv, TypeOK, service, Budgets
  <1>3. Counts'
    BY <1>1, IdleTyped DEF EndJob, IInv, Counts, service
  <1> QED BY <1>1, <1>2, <1>3 DEF EndJob, IInv, OwnSteps, One, Fresh, Turn, SwarmCover, RestartCovers

-----------------------------------------------------------------------------
(* The platform *)

(* The container of one slot changes; an invariant of the job depends on it *)
(* only while the restart is quiet.                                         *)
LEMMA SlotLemma ==
  ASSUME IInv, NEW i \in Slots, NEW s \in States, s # "none", st[i] # "none",
         st' = [st EXCEPT ![i] = s],
         roll' \in Rolls, roll'.todo \subseteq 1..desired,
         quiet' \in {quiet, FALSE}, budget' \in Budgets,
         ready' \subseteq Slots,
         UNCHANGED <<service, taskID, kept, call, entry, job>>,
         One', Fresh', Turn', SwarmCover'
  PROVE  IInv'
  <1>1. st' \in [Slots -> States] /\ \A k \in Slots : st'[k] = "none" <=> st[k] = "none"
    BY Facts
  <1>2. TypeInv'
    <2>1. quiet' \in BOOLEAN
      BY Facts
    <2> QED BY <1>1, <2>1 DEF IInv, TypeInv, TypeOK, service, Budgets, Rolls
  <1>3. Counts'
    BY <1>1 DEF IInv, Counts, service
  <1>4. OwnSteps' /\ RestartCovers'
    <2>1. quiet' => quiet
      BY Facts
    <2> QED BY <2>1 DEF IInv, OwnSteps, RestartCovers, service
  <1> QED BY <1>2, <1>3, <1>4 DEF IInv

LEMMA StoppedLemma ==
  ASSUME IInv, NEW i \in Slots, ContainerStopped(i)
  PROVE  IInv'
  <1>1. /\ st[i] = "stopping" /\ st' = [st EXCEPT ![i] = "down"]
        /\ UNCHANGED <<service, taskID, kept, ready, roll, server, quiet, budget>>
        /\ "down" \in States
    BY DEF ContainerStopped, States
  <1>2. \A k \in Slots : st'[k] = IF k = i THEN "down" ELSE st[k]
    BY <1>1, Facts
  <1>3. entry # "none" => 1..job.n \subseteq Slots /\ job.k \in 1..job.n /\ kept \subseteq Slots
    BY JobFacts, Facts
  <1>4. One' /\ Fresh'
    BY <1>1, <1>2, <1>3 DEF IInv, One, Fresh, server
  <1>5. Turn'
    BY <1>1, <1>2, <1>3 DEF IInv, Turn, server, service
  <1>6. SwarmCover'
    BY <1>1, <1>2, Facts DEF IInv, SwarmCover, server
  <1> QED BY <1>1, <1>4, <1>5, <1>6, SlotLemma, Facts DEF server

LEMMA FailsLemma ==
  ASSUME IInv, NEW i \in Slots, ContainerFails(i)
  PROVE  IInv'
  <1>1. /\ st[i] \in {"running", "starting"} /\ st' = [st EXCEPT ![i] = "down"]
        /\ quiet' = FALSE /\ budget' \in Budgets
        /\ UNCHANGED <<service, taskID, kept, ready, roll, server>>
        /\ "down" \in States
    BY Facts DEF ContainerFails, States, Budgets
  <1>2. One' /\ Fresh' /\ Turn'
    BY <1>1 DEF One, Fresh, Turn
  <1>3. SwarmCover'
    BY <1>1, Facts DEF IInv, SwarmCover, server
  <1> QED BY <1>1, <1>2, <1>3, SlotLemma, Facts DEF server

LEMMA RunningLemma ==
  ASSUME IInv, NEW i \in Slots, BecomeRunning(i)
  PROVE  IInv'
  <1>1. /\ st[i] = "starting" /\ st' = [st EXCEPT ![i] = "running"]
        /\ ready' = ready \/ ready' = ready \cup {i}
        /\ UNCHANGED <<service, taskID, kept, roll, server, quiet, budget>>
        /\ "running" \in States
    BY DEF BecomeRunning, States
  <1>2. \A k \in Slots : st'[k] = IF k = i THEN "running" ELSE st[k]
    BY <1>1, Facts
  <1>3. entry # "none" => 1..job.n \subseteq Slots /\ job.k \in 1..job.n /\ kept \subseteq Slots
    BY JobFacts, Facts
  <1>4. One' /\ Fresh'
    BY <1>1, <1>2, <1>3 DEF IInv, One, Fresh, server
  <1>5. Turn'
    BY <1>1, <1>2, <1>3 DEF IInv, Turn, Fresh, server, service
  <1>6. SwarmCover'
    BY <1>1, <1>2, Facts DEF IInv, SwarmCover, server
  <1>7. ready' \subseteq Slots
    BY <1>1, Facts
  <1> QED BY <1>1, <1>4, <1>5, <1>6, <1>7, SlotLemma, Facts DEF server

(* Swarm takes the next container down when all of them run. *)
LEMMA UpdateNextLemma ==
  ASSUME IInv, SwarmUpdateNext
  PROVE  IInv'
  <1>1. PICK i \in roll.todo : st' = [st EXCEPT ![i] = "stopping"]
    BY DEF SwarmUpdateNext
  <1>2. /\ platform = "swarm" /\ AllRunning /\ "stopping" \in States /\ i \in Slots
        /\ roll' = [roll EXCEPT !.status = "updating"]
        /\ UNCHANGED <<service, taskID, kept, ready, server, quiet, budget>>
    BY Facts DEF SwarmUpdateNext, States, Rolls
  <1>3. roll' \in Rolls /\ roll'.todo = roll.todo /\ roll'.status = "updating"
    BY <1>2, Facts DEF Rolls
  <1>4. \A k \in Slots : st'[k] = IF k = i THEN "stopping" ELSE st[k]
    BY <1>1, <1>2, Facts
  <1>5. st[i] = "running" /\ roll'.todo \subseteq 1..desired
    BY <1>2, <1>3, Facts DEF AllRunning
  <1>6. One' /\ Fresh'
    <2>1. ASSUME entry = "running", quiet, NEW k \in 1..job.n
          PROVE  /\ k # i => st'[k] = "running"
                 /\ st'[k] # "starting" /\ (k \in ready => k \notin kept)
      <3>1. k \in 1..desired /\ k \in Slots
        BY <2>1, JobFacts, Facts
      <3> QED BY <1>2, <1>4, <2>1, <3>1 DEF AllRunning, IInv, Fresh
    <2> QED BY <1>2, <2>1 DEF One, Fresh, server
  <1>7. Turn'
    BY <1>2 DEF Turn, service
  <1>8. SwarmCover'
    BY <1>2, <1>3, <1>4, Facts DEF IInv, SwarmCover, server
  <1> QED BY <1>1, <1>2, <1>3, <1>5, <1>6, <1>7, <1>8, SlotLemma, Facts DEF server

LEMMA UpdateDoneLemma ==
  ASSUME IInv, SwarmUpdateDone
  PROVE  IInv'
  <1>1. /\ platform = "swarm" /\ AllRunning /\ roll.todo = {}
        /\ roll' = [roll EXCEPT !.status = "completed"]
        /\ UNCHANGED <<service, slots, server, quiet, budget>>
    BY DEF SwarmUpdateDone
  <1>2. roll' \in Rolls /\ roll'.todo = {}
    BY <1>1, Facts DEF Rolls
  <1>3. SwarmCover'
    <2> SUFFICES ASSUME job.pc = "poll", NEW i \in kept PROVE FALSE
      BY <1>1 DEF SwarmCover, server, slots
    <2>1. i \in 1..job.n /\ entry # "none"
      BY JobFacts DEF IInv, TypeInv, TypeOK
    <2>2. st[i] = "running"
      BY <1>1, <2>1, JobFacts, Facts DEF AllRunning
    <2> QED BY <1>1, <2>2 DEF IInv, SwarmCover
  <1> QED BY <1>1, <1>2, <1>3 DEF IInv, TypeInv, TypeOK, Rolls, Counts, OwnSteps, One, Fresh, Turn,
             RestartCovers, service, slots, server

(* The replacement of a container is not one of those the restart kept. *)
LEMMA ReplaceLemma ==
  ASSUME IInv, NEW i \in Slots, Replace(i)
  PROVE  IInv'
  <1>1. /\ st[i] = "down" /\ st' = [st EXCEPT ![i] = "starting"] /\ kept' = kept \ {i}
        /\ UNCHANGED <<service, ready, entry, quiet, budget>>
    BY DEF Replace
  <1>2. st' \in [Slots -> States] /\ \A k \in Slots : st'[k] = IF k = i THEN "starting" ELSE st[k]
    BY <1>1, Facts DEF States
  <1>3. taskID' \in [Slots -> IDs]
    BY Facts DEF Replace, Past, IDs
  <1> DEFINE c(h) == [call[h] EXCEPT !.ids = Past(@, i)]
             j == [job EXCEPT !.ids = Past(@, i)]
             r == [roll EXCEPT !.todo = @ \ {i}]
  <1>4. \A h \in Handlers : /\ c(h) \in Calls /\ c(h).pc = call[h].pc /\ c(h).n = call[h].n
                            /\ DOMAIN c(h).ids = DOMAIN call[h].ids
    <2> TAKE h \in Handlers
    <2>1. call[h] \in Calls /\ call[h].ids \in Ids
      BY Facts DEF Calls
    <2> DEFINE p == Past(call[h].ids, i)
    <2>2. p \in Ids /\ DOMAIN p = DOMAIN call[h].ids
      BY <2>1, PastIds
    <2> HIDE DEF p
    <2>3. c(h) = [call[h] EXCEPT !.ids = p]
      BY DEF p
    <2> QED BY <2>1, <2>2, <2>3 DEF Calls
  <1>5. /\ j \in Jobs /\ j.pc = job.pc /\ j.n = job.n /\ j.k = job.k /\ j.ok = job.ok
        /\ DOMAIN j.ids = DOMAIN job.ids
    <2>1. job \in Jobs /\ job.ids \in Ids
      BY Facts DEF Jobs
    <2> DEFINE p == Past(job.ids, i)
    <2>2. p \in Ids /\ DOMAIN p = DOMAIN job.ids
      BY <2>1, PastIds
    <2> HIDE DEF p
    <2>3. j = [job EXCEPT !.ids = p]
      BY DEF p
    <2> QED BY <2>1, <2>2, <2>3 DEF Jobs
  <1>6. r \in Rolls /\ r.todo = roll.todo \ {i} /\ r.status = roll.status
    BY Facts DEF Rolls
  <1>7. call' = [h \in Handlers |-> c(h)] /\ job' = j /\ roll' = r
    BY DEF Replace
  <1> HIDE DEF c, j, r
  <1>8. call' \in [Handlers -> Calls]
        /\ \A h \in Handlers : /\ call'[h].pc = call[h].pc /\ call'[h].n = call[h].n
                               /\ DOMAIN call'[h].ids = DOMAIN call[h].ids
    BY <1>4, <1>7
  <1>9. TypeInv'
    BY <1>1, <1>2, <1>3, <1>5, <1>6, <1>7, <1>8 DEF IInv, TypeInv, TypeOK, service, Rolls
  <1>10. Counts'
    BY <1>1, <1>2, <1>5, <1>6, <1>7, <1>8 DEF IInv, Counts, service
  <1>11. OwnSteps' /\ RestartCovers'
    BY <1>1, <1>5, <1>7 DEF IInv, OwnSteps, RestartCovers, service
  <1>12. entry # "none" => 1..job.n \subseteq Slots /\ job.k \in 1..job.n
    BY JobFacts
  <1>13. One' /\ Fresh'
    BY <1>1, <1>2, <1>5, <1>7, <1>12 DEF IInv, One, Fresh
  <1>14. Turn'
    BY <1>1, <1>2, <1>5, <1>7, <1>12 DEF IInv, Turn, service
  <1>15. SwarmCover'
    BY <1>1, <1>2, <1>5, <1>6, <1>7, Facts DEF IInv, SwarmCover
  <1> QED BY <1>9, <1>10, <1>11, <1>13, <1>14, <1>15 DEF IInv

LEMMA ClaimLemma ==
  ASSUME IInv, NEW i \in Slots, ClaimMember(i)
  PROVE  IInv'
  <1>1. /\ taskID' = [taskID EXCEPT ![i] = "present"]
        /\ UNCHANGED <<service, st, kept, ready, roll, server, quiet, budget>>
    BY DEF ClaimMember
  <1>2. taskID' \in [Slots -> IDs]
    BY <1>1, Facts DEF IDs
  <1> QED BY <1>1, <1>2 DEF IInv, TypeInv, TypeOK, Counts, OwnSteps, One, Fresh, Turn, SwarmCover,
             RestartCovers, service, server

-----------------------------------------------------------------------------
(* The scale request: it adds a slot after those a restart is about. *)

LEMMA ScaleMemberLemma ==
  ASSUME IInv, ScaleCreateMember
  PROVE  IInv'
  <1>1. /\ members' = members + 1 /\ members = Replicas
        /\ UNCHANGED <<platform, replicas, desired, slots, roll, server, quiet, budget>>
    BY DEF ScaleCreateMember
  <1>2. TypeInv'
    BY <1>1, Facts DEF IInv, TypeInv, TypeOK, slots, server
  <1>3. Counts'
    BY <1>1, Facts DEF IInv, Counts, slots, server
  <1> QED BY <1>1, <1>2, <1>3 DEF IInv, OwnSteps, One, Fresh, Turn, SwarmCover, RestartCovers,
             slots, server

LEMMA ScaleAttrLemma ==
  ASSUME IInv, ScaleUpdateAttr
  PROVE  IInv'
  <1>1. /\ replicas' = replicas + 1 /\ replicas = Replicas /\ desired > Replicas
        /\ UNCHANGED <<platform, members, desired, slots, roll, server, quiet, budget>>
    BY DEF ScaleUpdateAttr
  <1>2. TypeInv'
    BY <1>1, Facts DEF IInv, TypeInv, TypeOK, slots, server
  <1>3. Counts'
    <2>1. Replicas <= replicas' /\ replicas' <= desired /\ \A n \in Nat : n <= replicas => n <= replicas'
      BY <1>1, Facts
    <2>2. \A h \in Handlers : call[h].n \in Nat
      BY Facts DEF Calls
    <2>3. job.n \in Nat
      BY Facts DEF Jobs
    <2> QED BY <1>1, <2>1, <2>2, <2>3 DEF IInv, Counts, slots, server
  <1> QED BY <1>1, <1>2, <1>3 DEF IInv, OwnSteps, One, Fresh, Turn, SwarmCover, RestartCovers,
             slots, server

LEMMA ScalePlatformLemma ==
  ASSUME IInv, ScalePlatform
  PROVE  IInv'
  <1> DEFINE d == desired + 1
             r == [roll EXCEPT !.status = "none", !.ver = @ + 1]
  <1>1. /\ desired' = d /\ desired = Replicas /\ members > Replicas
        /\ st' = [st EXCEPT ![d] = "starting"] /\ roll' = r
        /\ UNCHANGED <<platform, replicas, members, taskID, kept, ready, server, quiet, budget>>
    BY DEF ScalePlatform
  <1>2. /\ d \in Slots /\ d \in Nat /\ d <= members /\ desired < d /\ st[d] = "none"
        /\ 1..desired \subseteq 1..d /\ \A k \in Nat : d < k <=> desired < k /\ k # d
    <2>1. d \in Slots /\ d \in Nat /\ d <= members /\ desired < d
          /\ 1..desired \subseteq 1..d /\ \A k \in Nat : d < k <=> desired < k /\ k # d
      BY <1>1, Facts DEF Slots
    <2> QED BY <2>1 DEF IInv, Counts
  <1>3. r \in Rolls /\ r.todo = roll.todo /\ r.status = "none"
    <2> DEFINE v == roll.ver + 1
    <2>1. v \in Nat /\ roll \in Rolls /\ r = [roll EXCEPT !.status = "none", !.ver = v]
      BY Facts DEF Rolls
    <2> HIDE DEF v
    <2> QED BY <2>1 DEF Rolls
  <1>4. st' \in [Slots -> States] /\ \A k \in Slots : st'[k] = IF k = d THEN "starting" ELSE st[k]
    BY <1>1, Facts DEF States
  <1>5. entry # "none" => /\ job.k \in 1..job.n /\ d \notin kept
                          /\ \A k \in 1..job.n : k \in Slots /\ k # d /\ st'[k] = st[k]
    <2> SUFFICES ASSUME entry # "none"
                 PROVE  /\ job.k \in 1..job.n /\ d \notin kept
                        /\ \A k \in 1..job.n : k \in Slots /\ k # d /\ st'[k] = st[k]
      OBVIOUS
    <2>1. d \notin 1..job.n
      BY <1>2, JobFacts, Facts
    <2> QED BY <1>4, <2>1, JobFacts
  <1> HIDE DEF d, r
  <1>6. TypeInv'
    BY <1>1, <1>2, <1>3, <1>4, Facts DEF IInv, TypeInv, TypeOK, server, Rolls
  <1>7. Counts'
    <2>1. replicas <= d
      BY <1>2, Facts
    <2>2. \A k \in Slots : st'[k] = "none" <=> d < k
      BY <1>2, <1>4, Facts DEF IInv, Counts
    <2>3. Replicas <= replicas /\ d <= members /\ roll'.todo \subseteq 1..d
      BY <1>1, <1>2, <1>3, Facts
    <2> QED BY <1>1, <2>1, <2>2, <2>3 DEF IInv, Counts, server
  <1>8. OwnSteps' /\ RestartCovers'
    BY <1>1 DEF IInv, OwnSteps, RestartCovers, server
  <1>9. One' /\ Fresh'
    BY <1>1, <1>5 DEF IInv, One, Fresh, server
  <1>10. Turn'
    BY <1>1, <1>5 DEF IInv, Turn, server
  <1>11. SwarmCover'
    <2>1. job.pc = "poll" => entry # "none"
      BY DEF IInv, TypeInv, TypeOK
    <2>2. job.pc = "poll" => \A k \in kept : k # d /\ st'[k] = st[k]
      BY <1>4, <1>5, <2>1, Facts
    <2> QED BY <1>1, <1>3, <2>2 DEF IInv, SwarmCover, server
  <1> QED BY <1>6, <1>7, <1>8, <1>9, <1>10, <1>11 DEF IInv

-----------------------------------------------------------------------------
LEMMA InductiveStep ==
  ASSUME IInv, [Next]_vars
  PROVE  IInv'
  <1>1. CASE Platform
    BY <1>1, ReplaceLemma, ClaimLemma, RunningLemma, StoppedLemma, UpdateNextLemma, UpdateDoneLemma
       DEF Platform
  <1>2. CASE \E i \in Slots : ContainerFails(i)
    BY <1>2, FailsLemma
  <1>3. CASE ScaleCreateMember \/ ScalePlatform \/ ScaleUpdateAttr
    BY <1>3, ScaleMemberLemma, ScalePlatformLemma, ScaleAttrLemma
  <1>4. CASE \E h \in Handlers : \/ rollingRestartService(h) \/ GetServiceAttr(h)
                                 \/ ListServiceMembers(h) \/ addTask(h)
    BY <1>4, RequestLemma, GetServiceAttrLemma, ListServiceMembersLemma, addTaskLemma
  <1>5. CASE RunTask
    BY <1>5, StopTaskLemma, StopFailsLemma, WaitStopLemma, WaitRunningLemma, InspectLemma,
       ForceUpdateLemma, WaitUpdateLemma, DeletePodLemma, PodRecreatedLemma, TimeoutLemma DEF RunTask
  <1>6. CASE taskDone
    BY <1>6, EndJobLemma, Facts DEF taskDone
  <1>7. CASE ServerCrash
    <2>1. budget' \in Budgets
      BY <1>7, Facts DEF ServerCrash, Budgets
    <2> QED BY <1>7, <2>1, EndJobLemma DEF ServerCrash
  <1>8. CASE UNCHANGED vars
    BY <1>8 DEF IInv, TypeInv, TypeOK, Counts, OwnSteps, One, Fresh, Turn, SwarmCover, RestartCovers,
                vars, service, slots, server
  <1> QED BY <1>1, <1>2, <1>3, <1>4, <1>5, <1>6, <1>7, <1>8 DEF Next

THEOREM Inductive == Spec => []IInv
  <1> QED BY InitLemma, InductiveStep, PTL DEF Spec

(* Every variable is of its kind; an entry of the task map goes with a job. *)
THEOREM TypeCorrect == Spec => []TypeOK
  <1>1. IInv => TypeOK
    BY DEF IInv, TypeInv
  <1> QED BY <1>1, Inductive, PTL

(* A restart that ends with success, undisturbed, has replaced every        *)
(* container it was accepted for.                                           *)
THEOREM RestartCoversAll == Spec => []RestartCovers
  <1>1. IInv => RestartCovers
    BY DEF IInv
  <1> QED BY <1>1, Inductive, PTL

(* An undisturbed restart has at most one of its containers down, whatever  *)
(* the platform and however many replicas there are.                        *)
THEOREM RestartsOneAtATime == Spec => []OneAtATime
  <1>1. ASSUME IInv PROVE OneAtATime
    <2> SUFFICES ASSUME entry = "running", quiet
                 PROVE  Cardinality({i \in 1..job.n : st[i] # "running"}) <= 1
      BY DEF OneAtATime
    <2> DEFINE D == {i \in 1..job.n : st[i] # "running"}
    <2>1. CASE D = {}
      BY <2>1, FS_EmptySet
    <2>2. CASE D # {}
      <3>1. PICK i : i \in D
        BY <2>2
      <3>2. D = {i}
        BY <1>1, <3>1 DEF IInv, One
      <3>3. Cardinality({i}) = 1
        BY FS_Singleton
      <3> QED BY <3>2, <3>3
    <2> QED BY <2>1, <2>2
  <1> QED BY <1>1, Inductive, PTL
=============================================================================
