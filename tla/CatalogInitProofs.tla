------------------------- MODULE CatalogInitProofs -------------------------
(***************************************************************************)
(* A catalog service is served as it was configured, for any number of     *)
(* init containers, creations, failures and crashes.                       *)
(*                                                                         *)
(* A handler is the sequence of calls it has left, so what it has done     *)
(* shows in what is missing at its front: a request with a "set" and no    *)
(* "auth" before it has changed the config.  ClientOK and TaskOK say so of *)
(* the calls that matter; what they rely on is undone by no other request, *)
(* nor by the goroutine or the platform (Keeps).                           *)
(***************************************************************************)
EXTENDS CatalogInit, SequenceTheorems, TLAPS

Calls == {"attr", "members", "container", "lookup", "memberIPs", "serviceIPs", "addInit",
          "set", "checkAttr", "auth", "stop", "wait", "start"}

(* Of the calls a request has left: a comes before every b; there is no b; *)
(* there is one a at most.                                                 *)
Precedes(s, a, b) == \A j \in DOMAIN s : s[j] = b => \E i \in DOMAIN s : i < j /\ s[i] = a
Never(s, b) == \A j \in DOMAIN s : s[j] # b
Once(s, a) == \A i, j \in DOMAIN s : s[i] = a /\ s[j] = a => i = j

LEMMA TailFacts ==
  ASSUME NEW s \in Seq(Calls), s # <<>>
  PROVE  /\ Tail(s) \in Seq(Calls) /\ Head(s) = s[1] /\ 1 \in DOMAIN s
         /\ \A j \in DOMAIN Tail(s) : j \in Nat /\ j + 1 \in DOMAIN s /\ Tail(s)[j] = s[j + 1]
         /\ \A j \in DOMAIN s : j \in Nat /\ j >= 1 /\ (j # 1 => j - 1 \in DOMAIN Tail(s))
  <1>1. /\ Len(s) \in Nat /\ DOMAIN s = 1..Len(s) /\ Len(s) # 0
        /\ Tail(s) \in Seq(Calls) /\ Len(Tail(s)) = Len(s) - 1
        /\ Head(s) = s[1] /\ \A i \in 1..(Len(s) - 1) : Tail(s)[i] = s[i + 1]
    BY LenProperties, EmptySeq, HeadTailProperties
  <1>2. DOMAIN Tail(s) = 1..(Len(s) - 1)
    BY <1>1, LenProperties
  <1> QED BY <1>1, <1>2

LEMMA PrecedesTail ==
  ASSUME NEW s \in Seq(Calls), s # <<>>, NEW a, NEW b, a # b, Precedes(s, a, b)
  PROVE  Head(s) # b /\ (Head(s) # a => Precedes(Tail(s), a, b))
  <1>1. Head(s) # b
    BY TailFacts DEF Precedes
  <1>2. ASSUME Head(s) # a, NEW j \in DOMAIN Tail(s), Tail(s)[j] = b
        PROVE  \E i \in DOMAIN Tail(s) : i < j /\ Tail(s)[i] = a
    <2>1. j \in Nat /\ j + 1 \in DOMAIN s /\ s[j + 1] = b
      BY <1>2, TailFacts
    <2>2. PICK i \in DOMAIN s : i < j + 1 /\ s[i] = a
      BY <2>1 DEF Precedes
    <2>3. i # 1 /\ i \in Nat /\ i >= 1
      BY <1>2, <2>2, TailFacts
    <2>4. PICK k \in DOMAIN Tail(s) : k = i - 1
      BY <2>3, TailFacts
    <2>5. k < j /\ k + 1 = i
      BY <2>1, <2>2, <2>3, <2>4
    <2>6. Tail(s)[k] = a
      BY <2>2, <2>4, <2>5, TailFacts
    <2> QED BY <2>5, <2>6
  <1> QED BY <1>1, <1>2 DEF Precedes

LEMMA NeverTail ==
  ASSUME NEW s \in Seq(Calls), s # <<>>, NEW b, Never(s, b)
  PROVE  Head(s) # b /\ Never(Tail(s), b)
  BY TailFacts DEF Never

LEMMA OnceTail ==
  ASSUME NEW s \in Seq(Calls), s # <<>>, NEW a, Once(s, a)
  PROVE  Once(Tail(s), a) /\ (Head(s) = a => Never(Tail(s), a))
  <1>1. ASSUME NEW i \in DOMAIN Tail(s), NEW j \in DOMAIN Tail(s), Tail(s)[i] = a, Tail(s)[j] = a
        PROVE  i = j
    <2>1. i \in Nat /\ j \in Nat /\ i + 1 = j + 1
      BY <1>1, TailFacts DEF Once
    <2> QED BY <2>1
  <1>2. ASSUME Head(s) = a, NEW j \in DOMAIN Tail(s), Tail(s)[j] = a PROVE FALSE
    <2>1. j \in Nat /\ j + 1 \in DOMAIN s /\ s[j + 1] = a /\ 1 \in DOMAIN s /\ s[1] = a
      BY <1>2, TailFacts
    <2>2. j + 1 = 1 /\ j >= 1
      BY <2>1, <1>2, TailFacts, LenProperties DEF Once
    <2> QED BY <2>1, <2>2
  <1> QED BY <1>1, <1>2 DEF Once, Never

LEMMA NothingLeft ==
  ASSUME NEW a, NEW b
  PROVE  <<>> \in Seq(Calls) /\ Precedes(<<>>, a, b) /\ Never(<<>>, b) /\ Once(<<>>, a)
  BY DEF Precedes, Never, Once

(* A handler is put together from shorter ones. *)
LEMMA Joined ==
  ASSUME NEW s \in Seq(Calls), NEW t \in Seq(Calls)
  PROVE  /\ s \o t \in Seq(Calls)
         /\ \A b : Never(s \o t, b) <=> Never(s, b) /\ Never(t, b)
         /\ \A a, b : Precedes(s, a, b) /\ Precedes(t, a, b) => Precedes(s \o t, a, b)
         /\ \A a, b : ~Never(s, a) /\ Never(s, b) => Precedes(s \o t, a, b)
         /\ \A a : Once(s, a) /\ Never(t, a) => Once(s \o t, a)
         /\ \A a : Never(s, a) /\ Once(t, a) => Once(s \o t, a)
  <1> DEFINE u == s \o t
  <1>1. /\ u \in Seq(Calls) /\ Len(u) = Len(s) + Len(t)
        /\ Len(s) \in Nat /\ Len(t) \in Nat
        /\ DOMAIN s = 1..Len(s) /\ DOMAIN t = 1..Len(t) /\ DOMAIN u = 1..Len(u)
        /\ \A i \in 1..Len(s) : u[i] = s[i]
        /\ \A i \in (Len(s) + 1)..(Len(s) + Len(t)) : u[i] = t[i - Len(s)]
    <2>1. u \in Seq(Calls) /\ Len(u) = Len(s) + Len(t)
          /\ \A i \in 1..(Len(s) + Len(t)) : u[i] = IF i <= Len(s) THEN s[i] ELSE t[i - Len(s)]
      BY ConcatProperties
    <2> QED BY <2>1, LenProperties
  <1> HIDE DEF u
  <1>2. ASSUME NEW j \in DOMAIN u
        PROVE  \/ j \in DOMAIN s /\ u[j] = s[j]
               \/ j - Len(s) \in DOMAIN t /\ u[j] = t[j - Len(s)] /\ j > Len(s) /\ j \in Nat
    BY <1>1
  <1>3. ASSUME NEW i \in DOMAIN t
        PROVE  i + Len(s) \in DOMAIN u /\ u[i + Len(s)] = t[i]
    <2>1. i + Len(s) \in (Len(s) + 1)..(Len(s) + Len(t)) /\ (i + Len(s)) - Len(s) = i
      BY <1>1
    <2> QED BY <1>1, <2>1
  <1>4. \A i \in DOMAIN s : i \in DOMAIN u /\ u[i] = s[i] /\ i <= Len(s) /\ i \in Nat
    BY <1>1
  <1>5. ASSUME NEW b PROVE Never(u, b) <=> Never(s, b) /\ Never(t, b)
    BY <1>2, <1>3, <1>4 DEF Never
  <1>6. ASSUME NEW a, NEW b, Precedes(s, a, b), Precedes(t, a, b) PROVE Precedes(u, a, b)
    <2>1. SUFFICES ASSUME NEW j \in DOMAIN u, u[j] = b
                   PROVE  \E i \in DOMAIN u : i < j /\ u[i] = a
      BY DEF Precedes
    <2>2. CASE j \in DOMAIN s /\ u[j] = s[j]
      BY <1>4, <1>6, <2>1, <2>2 DEF Precedes
    <2>3. CASE j - Len(s) \in DOMAIN t /\ u[j] = t[j - Len(s)] /\ j > Len(s) /\ j \in Nat
      <3>1. PICK i \in DOMAIN t : i < j - Len(s) /\ t[i] = a
        BY <1>6, <2>1, <2>3 DEF Precedes
      <3>2. i + Len(s) < j
        BY <1>1, <2>3, <3>1
      <3> QED BY <1>3, <3>1, <3>2
    <2> QED BY <1>2, <2>2, <2>3
  <1>7. ASSUME NEW a, NEW b, NEW i \in DOMAIN s, s[i] = a, Never(s, b)
        PROVE  Precedes(u, a, b)
    <2>1. SUFFICES ASSUME NEW j \in DOMAIN u, u[j] = b
                   PROVE  \E k \in DOMAIN u : k < j /\ u[k] = a
      BY DEF Precedes
    <2>2. j > Len(s) /\ j \in Nat
      BY <1>2, <1>7, <2>1 DEF Never
    <2>3. i < j
      BY <1>1, <1>4, <2>2
    <2> QED BY <1>4, <1>7, <2>3
  <1>8. \A a, b : ~Never(s, a) /\ Never(s, b) => Precedes(u, a, b)
    BY <1>7 DEF Never
  <1>9. ASSUME NEW a, Once(s, a), Never(t, a) PROVE Once(u, a)
    BY <1>2, <1>9 DEF Once, Never
  <1>10. ASSUME NEW a, Never(s, a), Once(t, a) PROVE Once(u, a)
    <2>1. SUFFICES ASSUME NEW i \in DOMAIN u, NEW j \in DOMAIN u, u[i] = a, u[j] = a
                   PROVE  i = j
      BY DEF Once
    <2>2. /\ i - Len(s) \in DOMAIN t /\ t[i - Len(s)] = a /\ i \in Nat
          /\ j - Len(s) \in DOMAIN t /\ t[j - Len(s)] = a /\ j \in Nat
      BY <1>2, <1>10, <2>1 DEF Never
    <2>3. i - Len(s) = j - Len(s)
      BY <1>10, <2>2 DEF Once
    <2> QED BY <1>1, <2>2, <2>3
  <1> QED BY <1>1, <1>5, <1>6, <1>8, <1>9, <1>10 DEF u

(* What the properties need of the handlers. *)
FillsFirst(s) == Precedes(s, "memberIPs", "container") /\ Once(s, "memberIPs")

LEMMA CreateCalls ==
  /\ \A k \in Kinds : createOp[k] \in Seq(Calls)
  /\ \A k \in Kinds : k \in {"mongodb", "redis"} => Never(createOp[k], "set")
  /\ \A k \in Kinds : k \in {"redis", "redisserver", "consul"} => FillsFirst(createOp[k])
  <1> DEFINE S == SetServiceInitialized
             L == <<"lookup">>
             LL == <<"lookup", "lookup">>
             I == <<"addInit">>
             C == CreateContainerService
             M == CreateManageService
             R == <<"memberIPs">>
             RC == <<"memberIPs", "serviceIPs">>
  <1>1. /\ S \in Seq(Calls) /\ L \in Seq(Calls) /\ LL \in Seq(Calls) /\ I \in Seq(Calls)
        /\ C \in Seq(Calls) /\ M \in Seq(Calls) /\ R \in Seq(Calls) /\ RC \in Seq(Calls)
        /\ Never(I, "set") /\ Never(C, "set") /\ Never(M, "set") /\ Never(R, "set")
        /\ Never(M, "container") /\ Never(R, "container") /\ Never(RC, "container")
        /\ Never(I, "container") /\ Never(S, "container")
        /\ Never(I, "memberIPs") /\ Never(S, "memberIPs") /\ Never(C, "memberIPs")
        /\ Never(M, "memberIPs")
    BY DEF Calls, Never, CreateManageService, CreateContainerService, SetServiceInitialized
  <1>2. ~Never(R, "memberIPs") /\ ~Never(RC, "memberIPs")
    <2>1. 1 \in DOMAIN R /\ R[1] = "memberIPs" /\ 1 \in DOMAIN RC /\ RC[1] = "memberIPs"
      OBVIOUS
    <2> QED BY <2>1 DEF Never
  <1>3. Once(R, "memberIPs") /\ Once(RC, "memberIPs")
    BY DEF Once
  <1> HIDE DEF S, L, LL, I, C, M, R, RC
  <1>4. CreateService = M \o C /\ CreateService \in Seq(Calls) /\ Never(CreateService, "set")
    BY <1>1, Joined DEF CreateService, M, C
  <1>5. /\ createPGService = CreateService \o S /\ createZkService = CreateService \o S
        /\ createElasticSearchService = CreateService \o S
        /\ createLogstashService = CreateService \o S
        /\ createCouchDBService = CreateService \o I /\ createCasService = CreateService \o I
        /\ createCasService1 = CreateService \o S
        /\ createMongoDBService = CreateService \o I
        /\ createKibanaService = (L \o CreateService) \o S
        /\ createKafkaService = (L \o CreateService) \o S
        /\ createKafkaManagerService = (L \o CreateService) \o S
        /\ createTelegrafService = (LL \o CreateService) \o S
        /\ createKafkaSinkESService = (LL \o CreateService) \o I
        /\ createRedisService = ((M \o R) \o C) \o I
        /\ createRedisServer = ((M \o R) \o C) \o S
        /\ createConsulService = ((M \o RC) \o C) \o S
    BY DEF createPGService, createZkService, createElasticSearchService, createLogstashService,
           createCouchDBService, createCasService, createCasService1, createMongoDBService,
           createKibanaService, createKafkaService, createKafkaManagerService,
           createTelegrafService, createKafkaSinkESService, createRedisMembers,
           createRedisService, createRedisServer, createConsulService,
           S, L, LL, I, C, M, R, RC
  <1>6. /\ CreateService \o S \in Seq(Calls) /\ CreateService \o I \in Seq(Calls)
        /\ (L \o CreateService) \o S \in Seq(Calls) /\ (LL \o CreateService) \o S \in Seq(Calls)
        /\ (LL \o CreateService) \o I \in Seq(Calls)
        /\ Never(CreateService \o I, "set")
    BY <1>1, <1>4, Joined
  <1>7. /\ M \o R \in Seq(Calls) /\ Never(M \o R, "set") /\ Never(M \o R, "container")
        /\ M \o RC \in Seq(Calls) /\ Never(M \o RC, "container")
    BY <1>1, Joined
  <1>8. ~Never(M \o R, "memberIPs") /\ ~Never(M \o RC, "memberIPs")
    BY <1>1, <1>2, Joined
  <1>9. Once(M \o R, "memberIPs") /\ Once(M \o RC, "memberIPs")
    BY <1>1, <1>3, Joined
  <1>10. Precedes(I, "memberIPs", "container") /\ Precedes(S, "memberIPs", "container")
    BY <1>1 DEF Never, Precedes
  <1>11. /\ (M \o R) \o C \in Seq(Calls) /\ Never((M \o R) \o C, "set")
         /\ FillsFirst((M \o R) \o C)
         /\ (M \o RC) \o C \in Seq(Calls) /\ FillsFirst((M \o RC) \o C)
    BY <1>1, <1>7, <1>8, <1>9, Joined DEF FillsFirst
  <1>12. /\ createRedisService \in Seq(Calls) /\ Never(createRedisService, "set")
         /\ FillsFirst(createRedisService)
    BY <1>1, <1>5, <1>10, <1>11, Joined DEF FillsFirst
  <1>13. /\ createRedisServer \in Seq(Calls) /\ FillsFirst(createRedisServer)
         /\ createConsulService \in Seq(Calls) /\ FillsFirst(createConsulService)
    BY <1>1, <1>5, <1>10, <1>11, Joined DEF FillsFirst
  <1>14. \A k \in Kinds : createOp[k] \in Seq(Calls)
    BY <1>5, <1>6, <1>12, <1>13, KindsAssumption DEF createOp
  <1> QED BY <1>5, <1>6, <1>12, <1>13, <1>14 DEF createOp

LEMMA CheckCalls ==
  /\ checkOp \in Seq(Calls) /\ Never(checkOp, "memberIPs")
  /\ kind \in {"mongodb", "redis"} => Never(checkOp, "set")
  /\ Precedes(checkOp, "memberIPs", "container")
  <1> DEFINE L == <<"lookup">>
             S == <<"set">>
  <1>1. /\ <<"addInit">> \in Seq(Calls) /\ <<"lookup", "addInit">> \in Seq(Calls)
        /\ S \in Seq(Calls) /\ <<>> \in Seq(Calls) /\ L \in Seq(Calls)
        /\ Never(<<"lookup", "addInit">>, "set")
        /\ Never(<<"lookup", "addInit">>, "memberIPs") /\ Never(<<"addInit">>, "memberIPs")
        /\ Never(S, "memberIPs") /\ Never(L, "memberIPs") /\ Never(<<>>, "memberIPs")
        /\ Precedes(<<"lookup", "addInit">>, "memberIPs", "container")
        /\ Precedes(<<"addInit">>, "memberIPs", "container")
        /\ Precedes(<<>>, "memberIPs", "container")
        /\ Precedes(L, "memberIPs", "container") /\ Precedes(S, "memberIPs", "container")
    BY DEF Calls, Never, Precedes
  <1> HIDE DEF L, S
  <1>2. /\ L \o S \in Seq(Calls) /\ Never(L \o S, "memberIPs")
        /\ Precedes(L \o S, "memberIPs", "container")
    BY <1>1, Joined
  <1>3. \/ kind \notin {"mongodb", "redis"} /\ checkOp \in {<<"addInit">>, S, L \o S, <<>>}
        \/ checkOp = <<"lookup", "addInit">>
        \/ checkOp = <<>>
    BY DEF checkOp, SetServiceInitialized, L, S
  <1>4. Never(<<>>, "set")
    BY DEF Never
  <1> QED BY <1>1, <1>2, <1>3, <1>4

LEMMA InitCalls ==
  /\ catalogSetServiceInit \in Seq(Calls)
  /\ kind \in {"mongodb", "redis"} =>
       /\ Precedes(catalogSetServiceInit, "auth", "wait")
       /\ Precedes(catalogSetServiceInit, "auth", "set")
       /\ Precedes(catalogSetServiceInit, "wait", "set")
  <1> DEFINE s == <<"lookup", "auth", "stop", "wait", "start">>
             t == <<"set">>
  <1>1. s \in Seq(Calls) /\ t \in Seq(Calls) /\ Never(s, "set") /\ Never(t, "wait")
    BY DEF Calls, Never
  <1>2. ~Never(s, "auth") /\ ~Never(s, "wait")
    <2>1. 2 \in DOMAIN s /\ s[2] = "auth" /\ 4 \in DOMAIN s /\ s[4] = "wait"
      OBVIOUS
    <2> QED BY <2>1 DEF Never
  <1>3. Precedes(s, "auth", "wait") /\ Precedes(t, "auth", "wait")
    <2>1. 2 \in DOMAIN s /\ s[2] = "auth" /\ \A j \in DOMAIN s : s[j] = "wait" => 2 < j
      OBVIOUS
    <2> QED BY <1>1, <2>1 DEF Precedes, Never
  <1>4. setMongoDBInit = s \o t /\ setRedisInit = s \o t
    BY DEF setMongoDBInit, setRedisInit, SetServiceInitialized
  <1> HIDE DEF s, t
  <1>5. /\ s \o t \in Seq(Calls) /\ Precedes(s \o t, "auth", "wait")
        /\ Precedes(s \o t, "auth", "set") /\ Precedes(s \o t, "wait", "set")
    BY <1>1, <1>2, <1>3, Joined
  <1> QED BY <1>1, <1>4, <1>5 DEF catalogSetServiceInit, SetServiceInitialized, t

-----------------------------------------------------------------------------
(* The invariant *)

Restarted == kind \in {"mongodb", "redis"}
Authenticated == conf.auth /\ (ctr.up => ctr.auth)

(* What the calls s that a request has left rely on: the client's, and that *)
(* of an init container.  The first request fills the addresses in once.    *)
ClientOK(s) ==
  /\ Restarted => Never(s, "set")
  /\ ReadsMemberIPs => conf.memberIPs > 0 \/ Precedes(s, "memberIPs", "container")
FillOK(s) == ReadsMemberIPs =>
  /\ client.creates = 0 => conf.memberIPs = 0 /\ Never(s, "memberIPs")
  /\ client.creates = 1 => /\ conf.memberIPs = 0 \/ (conf.memberIPs = 1 /\ Never(s, "memberIPs"))
                           /\ Once(s, "memberIPs")
TaskOK(s) == Restarted =>
  /\ conf.auth \/ (Precedes(s, "auth", "wait") /\ Precedes(s, "auth", "set"))
  /\ platform # "swarm" => Authenticated \/ Precedes(s, "wait", "set")

Confs == [content : Nat, memberIPs : Nat, auth : BOOLEAN]
Containers == [exists : BOOLEAN, count : BOOLEAN, up : BOOLEAN, auth : BOOLEAN,
               stopping : BOOLEAN]
Clients == [ask : {"create", "check"}, creates : Nat]
Budgets == [fault : Nat, crash : Nat]
JobSteps == {"none", "waitRunning", "check", "run", "waitTask", "recheck", "done"}
Jobs == [pc : JobSteps, tries : Nat, task : {0} \cup Tasks]
InitStates == {"none", "running", "setting", "exited"}

ServiceTyped ==
  /\ platform \in Platforms /\ kind \in Kinds /\ status \in Statuses
  /\ conf \in Confs /\ ctr \in Containers /\ (ctr.stopping => ctr.up)
JobTyped ==
  /\ job \in Jobs /\ job.tries < MaxTries
  /\ job.pc = "waitTask" => job.task \in Tasks /\ init[job.task] # "none"
TasksTyped ==
  /\ obj \in {0} \cup Tasks /\ init \in [Tasks -> InitStates]
  /\ obj # 0 => init[obj] # "none"
RequestsTyped ==
  /\ req \in [Handlers -> Seq(Calls)]
  /\ \A t \in Tasks : req[t] # <<>> => init[t] = "setting"
TypeInv == /\ ServiceTyped /\ JobTyped /\ TasksTyped /\ RequestsTyped
           /\ client \in Clients /\ budget \in Budgets

Safe ==
  /\ ClientOK(req[0]) /\ FillOK(req[0]) /\ \A t \in Tasks : TaskOK(req[t])
  /\ kind = "redisserver" => Authenticated
  /\ ServedAsConfigured

IInv == TypeInv /\ Safe

LEMMA Facts ==
  /\ MaxTries \in Nat /\ MaxTries > 0 /\ MaxFaults \in Nat /\ MaxCrashes \in Nat
  /\ 0 \in Handlers /\ Tasks \subseteq Handlers /\ 0 \notin Tasks
  BY TasksAssumption, BoundsAssumption DEF Handlers

(* A new entry of the task map, and none. *)
LEMMA NoJobTyped == NoJob \in Jobs /\ NoJob.tries = 0 /\ NoJob.pc = "none"
  BY DEF NoJob, Jobs, JobSteps

LEMMA InitOK == Init => IInv
  <1> SUFFICES ASSUME Init PROVE IInv
    OBVIOUS
  <1>1. ServiceTyped /\ client \in Clients /\ budget \in Budgets
    BY Facts DEF Init, ServiceTyped, Clients, Budgets, Statuses, Confs, Containers
  <1>2. JobTyped
    BY Facts, NoJobTyped DEF Init, JobTyped
  <1>3. TasksTyped
    BY DEF Init, TasksTyped, InitStates
  <1>4. RequestsTyped /\ \A h \in Handlers : req[h] = <<>>
    BY NothingLeft, Facts DEF Init, RequestsTyped
  <1>5. ServedAsConfigured /\ (kind = "redisserver" => Authenticated)
    BY DEF Init, ServedAsConfigured, Secured, Addressed, Authenticated
  <1>6. client.creates = 0 /\ conf.memberIPs = 0
    BY DEF Init
  <1>7. ClientOK(req[0]) /\ FillOK(req[0])
    BY <1>4, <1>6, NothingLeft, Facts DEF ClientOK, FillOK
  <1>8. \A t \in Tasks : TaskOK(req[t])
    BY <1>4, NothingLeft, Facts DEF TaskOK
  <1> QED BY <1>1, <1>2, <1>3, <1>4, <1>5, <1>7, <1>8 DEF IInv, TypeInv, Safe

(* What no step undoes. *)
Keeps ==
  /\ UNCHANGED <<platform, kind>>
  /\ conf.memberIPs > 0 => conf'.memberIPs > 0
  /\ conf.auth => conf'.auth
  /\ Authenticated => Authenticated'

LEMMA KeptOK ==
  ASSUME Keeps, NEW s
  PROVE  /\ ClientOK(s) => ClientOK(s)'
         /\ TaskOK(s) => TaskOK(s)'
  BY DEF Keeps, ClientOK, TaskOK, Restarted, ReadsMemberIPs

(* The addresses are as they were, and so is the number of creations. *)
SameFill == conf'.memberIPs = conf.memberIPs /\ client'.creates = client.creates

LEMMA FillKept ==
  ASSUME Keeps, SameFill, NEW s, FillOK(s)
  PROVE  FillOK(s)'
  BY DEF Keeps, SameFill, FillOK, ReadsMemberIPs

LEMMA FillNext ==
  ASSUME Keeps, client'.creates = client.creates, NEW s \in Seq(Calls), s # <<>>, FillOK(s),
         Head(s) = "memberIPs" => conf'.memberIPs = conf.memberIPs + 1,
         Head(s) # "memberIPs" => conf'.memberIPs = conf.memberIPs
  PROVE  FillOK(Tail(s))'
  <1>1. CASE Head(s) # "memberIPs"
    BY <1>1, NeverTail, OnceTail DEF FillOK, Keeps, ReadsMemberIPs
  <1>2. CASE Head(s) = "memberIPs"
    <2>1. ~Never(s, "memberIPs")
      BY <1>2, NeverTail
    <2>2. ReadsMemberIPs /\ client.creates = 1
            => conf'.memberIPs = 1 /\ Never(Tail(s), "memberIPs") /\ Once(Tail(s), "memberIPs")
      BY <1>2, <2>1, OnceTail DEF FillOK
    <2> QED BY <2>1, <2>2 DEF FillOK, Keeps, ReadsMemberIPs
  <1> QED BY <1>1, <1>2

(* A request goes on to its next call. *)
LEMMA ClientNext ==
  ASSUME Keeps, NEW s \in Seq(Calls), s # <<>>, ClientOK(s),
         Head(s) = "memberIPs" => conf'.memberIPs > 0
  PROVE  ClientOK(Tail(s))'
  BY PrecedesTail, NeverTail, KeptOK DEF ClientOK, Keeps, Restarted, ReadsMemberIPs

LEMMA TaskNext ==
  ASSUME Keeps, NEW s \in Seq(Calls), s # <<>>, TaskOK(s), Head(s) = "auth" => conf'.auth,
         Head(s) = "wait" /\ platform # "swarm" /\ Restarted => Authenticated'
  PROVE  TaskOK(Tail(s))'
  BY PrecedesTail, KeptOK DEF TaskOK, Keeps, Restarted

LEMMA StaysServed ==
  ASSUME ServedAsConfigured, Keeps, status' = "ACTIVE" => status = "ACTIVE",
         ctr'.exists => ctr.exists, conf'.memberIPs = conf.memberIPs
  PROVE  client'.creates = client.creates => ServedAsConfigured'
  BY DEF ServedAsConfigured, Secured, Addressed, ReadsMemberIPs, Keeps, Authenticated

(* A step of one request. *)
LEMMA RequestStep ==
  ASSUME IInv, Keeps, NEW h \in Handlers, NEW r \in Seq(Calls), Rest(h, r),
         h \in Tasks /\ r # <<>> => init'[h] = "setting",
         h = 0 => ClientOK(r)' /\ FillOK(r)', h \in Tasks => TaskOK(r)' /\ SameFill,
         ServiceTyped', JobTyped', TasksTyped', client' \in Clients, budget' \in Budgets,
         \A t \in Tasks : t # h /\ init[t] = "setting" => init'[t] = "setting",
         ServedAsConfigured'
  PROVE  IInv'
  <1>1. req \in [Handlers -> Seq(Calls)] /\ req' = [req EXCEPT ![h] = r]
    BY DEF Rest, IInv, TypeInv, RequestsTyped
  <1>2. /\ req' \in [Handlers -> Seq(Calls)]
        /\ \A g \in Handlers : req'[g] = IF g = h THEN r ELSE req[g]
    BY <1>1
  <1>3. RequestsTyped'
    BY <1>2, Facts DEF RequestsTyped, IInv, TypeInv
  <1>4. PICK s : s = req'[0]
    OBVIOUS
  <1>5. ClientOK(s)' /\ FillOK(s)'
    <2>1. CASE h = 0
      <3>1. s = r
        BY <1>2, <1>4, <2>1, Facts
      <3> QED BY <2>1, <3>1 DEF ClientOK, FillOK, Restarted, ReadsMemberIPs
    <2>2. CASE h \in Tasks
      <3>1. s = req[0] /\ ClientOK(req[0]) /\ FillOK(req[0])
        BY <1>2, <1>4, <2>2, Facts DEF IInv, Safe
      <3> QED BY <2>2, <3>1, KeptOK, FillKept
    <2> QED BY <2>1, <2>2 DEF Handlers
  <1>6. ASSUME NEW t \in Tasks PROVE TaskOK(req[t])'
    <2>1. PICK u : u = req'[t]
      OBVIOUS
    <2>2. CASE t = h
      <3>1. u = r
        BY <1>2, <2>1, <2>2, Facts
      <3> QED BY <2>1, <2>2, <3>1 DEF TaskOK, Authenticated, Restarted
    <2>3. CASE t # h
      <3>1. u = req[t] /\ TaskOK(req[t])
        BY <1>2, <2>1, <2>3, Facts DEF IInv, Safe
      <3>2. TaskOK(u)'
        BY <3>1, KeptOK
      <3> QED BY <2>1, <3>2 DEF TaskOK, Authenticated, Restarted
    <2> QED BY <2>2, <2>3
  <1>7. ClientOK(req[0])' /\ FillOK(req[0])'
    BY <1>4, <1>5 DEF ClientOK, FillOK, Restarted, ReadsMemberIPs
  <1>8. Safe'
    BY <1>6, <1>7 DEF Safe, IInv, Keeps
  <1> QED BY <1>3, <1>8 DEF IInv, TypeInv

(* A step that leaves the requests alone. *)
LEMMA OtherStep ==
  ASSUME IInv, Keeps, UNCHANGED req,
         ServiceTyped', JobTyped', TasksTyped', client' \in Clients, budget' \in Budgets,
         \A t \in Tasks : init[t] = "setting" /\ req[t] # <<>> => init'[t] = "setting",
         status' = "ACTIVE" => status = "ACTIVE", ctr'.exists => ctr.exists, SameFill
  PROVE  IInv'
  <1>1. RequestsTyped'
    BY DEF RequestsTyped, IInv, TypeInv
  <1>2. ClientOK(req[0])' /\ FillOK(req[0])' /\ \A t \in Tasks : TaskOK(req[t])'
    BY KeptOK, FillKept DEF IInv, Safe
  <1>3. ServedAsConfigured'
    BY StaysServed DEF Safe, IInv, SameFill
  <1>4. Safe'
    BY <1>2, <1>3 DEF Safe, IInv, Keeps
  <1> QED BY <1>1, <1>4 DEF IInv, TypeInv

LEMMA UnchangedKeeps ==
  ASSUME UNCHANGED <<platform, kind, conf>>, ctr'.up = ctr.up, ctr'.auth = ctr.auth
  PROVE  Keeps
  BY DEF Keeps, Authenticated

LEMMA AnswerTyped ==
  ASSUME client \in Clients, NEW c, Answer(c)
  PROVE  client' \in Clients /\ client'.creates = client.creates
  BY DEF Answer, Clients

(* The call of a request with its answer. *)
LEMMA Next1Facts ==
  ASSUME IInv, NEW h \in Handlers, NEW c, Head1(h, c), Next1(h)
  PROVE  /\ req[h] \in Seq(Calls) /\ req[h] # <<>> /\ Head(req[h]) = c
         /\ Tail(req[h]) \in Seq(Calls) /\ Rest(h, Tail(req[h]))
         /\ client' \in Clients /\ client'.creates = client.creates
         /\ h \in Tasks => init[h] = "setting"
  <1>1. req[h] \in Seq(Calls) /\ req[h] # <<>> /\ Head(req[h]) = c /\ client \in Clients
    BY DEF Head1, IInv, TypeInv, RequestsTyped
  <1>2. Rest(h, Tail(req[h])) /\ (IF h = 0 THEN Answer(Tail(req[h])) ELSE UNCHANGED client)
    BY DEF Next1
  <1>3. client' \in Clients /\ client'.creates = client.creates
    BY <1>1, <1>2, AnswerTyped
  <1> QED BY <1>1, <1>2, <1>3, TailFacts DEF IInv, TypeInv, RequestsTyped

(* Every step that goes on with a request. *)
LEMMA CallStep ==
  ASSUME IInv, NEW h \in Handlers, NEW c, Head1(h, c), Next1(h), Keeps,
         ServiceTyped', JobTyped', UNCHANGED <<tasks, budget>>,
         c = "memberIPs" => h = 0 /\ conf'.memberIPs = conf.memberIPs + 1,
         c # "memberIPs" => conf'.memberIPs = conf.memberIPs, c = "auth" => conf'.auth,
         h \in Tasks /\ c = "wait" /\ platform # "swarm" /\ Restarted => Authenticated',
         client'.creates = client.creates => ServedAsConfigured'
  PROVE  IInv'
  <1>1. /\ req[h] \in Seq(Calls) /\ req[h] # <<>> /\ Head(req[h]) = c
        /\ Tail(req[h]) \in Seq(Calls) /\ Rest(h, Tail(req[h]))
        /\ client' \in Clients /\ client'.creates = client.creates
        /\ h \in Tasks => init[h] = "setting"
    BY Next1Facts
  <1>2. TasksTyped' /\ budget' \in Budgets /\ init' = init
    BY DEF tasks, TasksTyped, IInv, TypeInv
  <1>3. PICK q \in Seq(Calls) : q = req[h]
    BY <1>1
  <1>4. PICK r \in Seq(Calls) : r = Tail(q)
    BY <1>1, <1>3
  <1>5. ASSUME h = 0 PROVE ClientOK(r)' /\ FillOK(r)'
    <2>1. ClientOK(q) /\ FillOK(q) /\ q # <<>> /\ Head(q) = c /\ conf.memberIPs \in Nat
      BY <1>1, <1>3, <1>5 DEF IInv, Safe, TypeInv, ServiceTyped, Confs
    <2>2. Head(q) = "memberIPs" => conf'.memberIPs > 0
      BY <2>1
    <2> QED BY <1>1, <1>4, <2>1, <2>2, ClientNext, FillNext
  <1>6. ASSUME h \in Tasks PROVE TaskOK(r)' /\ SameFill
    BY <1>1, <1>3, <1>4, <1>6, TaskNext, Facts DEF IInv, Safe, SameFill
  <1> QED BY <1>1, <1>2, <1>3, <1>4, <1>5, <1>6, RequestStep

LEMMA StateFacts ==
  ASSUME IInv
  PROVE  /\ ServiceTyped /\ JobTyped /\ TasksTyped /\ RequestsTyped /\ Safe
         /\ ServedAsConfigured
         /\ client \in Clients /\ client.ask \in {"create", "check"} /\ client.creates \in Nat
         /\ budget \in Budgets /\ budget.fault \in Nat /\ budget.crash \in Nat
         /\ conf \in Confs /\ conf.auth \in BOOLEAN /\ conf.memberIPs \in Nat
         /\ ctr \in Containers /\ ctr.up \in BOOLEAN /\ ctr.auth \in BOOLEAN
         /\ ctr.exists \in BOOLEAN /\ ctr.stopping \in BOOLEAN /\ ctr.count \in BOOLEAN
         /\ req \in [Handlers -> Seq(Calls)] /\ init \in [Tasks -> InitStates]
         /\ job \in Jobs /\ job.pc \in JobSteps /\ job.tries \in Nat /\ job.task \in {0} \cup Tasks
  BY DEF IInv, TypeInv, ServiceTyped, TasksTyped, RequestsTyped, JobTyped, Safe, Clients, Budgets,
         Confs, Containers, Jobs

(* The service is as it was. *)
LEMMA ServiceSame ==
  ASSUME IInv, UNCHANGED service
  PROVE  /\ Keeps /\ ServiceTyped' /\ status' = status /\ ctr' = ctr /\ conf' = conf
         /\ conf'.memberIPs = conf.memberIPs
         /\ client'.creates = client.creates => ServedAsConfigured' /\ SameFill
  <1>1. UNCHANGED <<platform, kind, status, conf, ctr>>
    BY DEF service
  <1> QED BY <1>1, StateFacts DEF Keeps, Authenticated, ServiceTyped, ServedAsConfigured, Secured,
               Addressed, ReadsMemberIPs, SameFill

LEMMA JobSame ==
  ASSUME IInv, UNCHANGED <<job, tasks>>
  PROVE  JobTyped' /\ TasksTyped' /\ init' = init
  BY StateFacts DEF JobTyped, TasksTyped, tasks

(* A request ends. *)
LEMMA RequestEnds ==
  ASSUME IInv, NEW h \in Handlers, Rest(h, <<>>), UNCHANGED <<service, job, tasks>>,
         client' \in Clients, client'.creates = client.creates, budget' \in Budgets
  PROVE  IInv'
  <1>1. PICK r \in Seq(Calls) : r = <<>>
    BY NothingLeft
  <1>2. ClientOK(r)' /\ TaskOK(r)'
    BY <1>1, NothingLeft DEF ClientOK, TaskOK
  <1>3. FillOK(r)'
    <2>1. PICK s : s = req[0]
      OBVIOUS
    <2>2. FillOK(s)'
      BY <2>1, StateFacts, ServiceSame, FillKept DEF Safe
    <2> QED BY <1>1, <2>2, NothingLeft DEF FillOK
  <1> QED BY <1>1, <1>2, <1>3, ServiceSame, JobSame, RequestStep

-----------------------------------------------------------------------------
(* The client's requests. *)

LEMMA ClientCreatesStep == IInv /\ ClientCreates => IInv'
  <1> SUFFICES ASSUME IInv, ClientCreates PROVE IInv'
    OBVIOUS
  <1>1. PICK r \in Seq(Calls) :
          r = createOp[kind] /\ (kind \in {"mongodb", "redis"} => Never(r, "set"))
          /\ (ReadsMemberIPs => FillsFirst(r))
    BY CreateCalls, StateFacts DEF ServiceTyped, ReadsMemberIPs
  <1>2. /\ Rest(0, r) /\ UNCHANGED <<service, job, tasks, budget>>
        /\ client' \in Clients /\ client'.creates = client.creates + 1
    <2>1. PICK n \in Nat : n = client.creates + 1
      BY StateFacts
    <2>2. client' = [client EXCEPT !.creates = n]
      BY <2>1 DEF ClientCreates
    <2>3. client' \in Clients /\ client'.creates = n
      BY <2>2, StateFacts DEF Clients
    <2> QED BY <1>1, <2>1, <2>3 DEF ClientCreates, Rest
  <1>3. UNCHANGED <<platform, kind, status, conf, ctr>>
    BY <1>2 DEF service
  <1>4. ReadsMemberIPs /\ client'.creates = 1 => conf.memberIPs = 0
    BY <1>2, StateFacts DEF Safe, FillOK
  <1>5. ClientOK(r)' /\ FillOK(r)'
    BY <1>1, <1>2, <1>3, <1>4, StateFacts DEF ClientOK, FillOK, FillsFirst, Restarted, ReadsMemberIPs
  <1>6. ServedAsConfigured'
    BY <1>3, <1>4, StateFacts DEF ServedAsConfigured, Secured, Addressed, ReadsMemberIPs
  <1> QED BY <1>2, <1>5, <1>6, ServiceSame, JobSame, RequestStep, Facts, StateFacts

LEMMA ClientChecksStep == IInv /\ ClientChecks => IInv'
  <1> SUFFICES ASSUME IInv, ClientChecks PROVE IInv'
    OBVIOUS
  <1>0. <<"checkAttr">> \in Seq(Calls)
    BY DEF Calls
  <1>1. PICK r \in Seq(Calls) : r = <<"checkAttr">>
    BY <1>0
  <1>2. Rest(0, r) /\ UNCHANGED <<service, client, job, tasks, budget>>
    BY <1>1 DEF ClientChecks, Rest
  <1>3. ClientOK(r)' /\ FillOK(r)'
    <2>1. \A j \in DOMAIN r : r[j] = "checkAttr"
      BY <1>1
    <2>2. ClientOK(r)'
      BY <2>1 DEF ClientOK, Never, Precedes
    <2>3. PICK s : s = req[0]
      OBVIOUS
    <2>4. FillOK(s)'
      BY <1>2, <2>3, StateFacts, ServiceSame, FillKept DEF Safe
    <2>5. Never(r, "memberIPs") /\ Once(r, "memberIPs")
      BY <2>1 DEF Never, Once
    <2> QED BY <2>2, <2>4, <2>5 DEF FillOK
  <1> QED BY <1>2, <1>3, ServiceSame, JobSame, RequestStep, Facts, StateFacts

LEMMA CallAttrStep == IInv /\ CallAttr => IInv'
  <1> SUFFICES ASSUME IInv, CallAttr PROVE IInv'
    OBVIOUS
  <1>1. Content \in Nat /\ UNCHANGED <<platform, kind, ctr, job, tasks, budget>> /\ Head1(0, "attr")
    BY StateFacts DEF Content, CallAttr
  <1>2. CASE status = "none" /\ status' = "CREATING" /\ conf' = [conf EXCEPT !.content = Content]
             /\ Next1(0)
    <2>1. /\ conf' \in Confs /\ conf'.auth = conf.auth /\ conf'.memberIPs = conf.memberIPs
          /\ status' \in Statuses /\ status' # "ACTIVE"
      BY <1>1, <1>2, StateFacts DEF Confs, Statuses
    <2>2. ServiceTyped'
      BY <1>1, <2>1, StateFacts DEF ServiceTyped
    <2>3. Keeps
      BY <1>1, <2>1 DEF Keeps, Authenticated
    <2>4. client'.creates = client.creates => ServedAsConfigured'
      BY <1>1, <2>1, <2>3, StaysServed, StateFacts
    <2> QED BY <1>1, <1>2, <2>2, <2>3, <2>4, CallStep, JobSame, Facts
  <1>3. CASE Next1(0) /\ UNCHANGED <<status, conf>>
    <2>1. UNCHANGED service
      BY <1>1, <1>3 DEF service
    <2> QED BY <1>1, <1>3, <2>1, ServiceSame, CallStep, JobSame, Facts
  <1>4. CASE Rest(0, <<>>) /\ Answer(<<>>) /\ UNCHANGED <<status, conf>>
    <2>1. UNCHANGED service /\ client' \in Clients /\ client'.creates = client.creates
          /\ budget' \in Budgets
      BY <1>1, <1>4, AnswerTyped, StateFacts DEF service
    <2> QED BY <1>1, <1>4, <2>1, RequestEnds, Facts
  <1> QED BY <1>2, <1>3, <1>4 DEF CallAttr

LEMMA CallMembersStep == IInv /\ CallMembers => IInv'
  <1> SUFFICES ASSUME IInv, CallMembers PROVE IInv'
    OBVIOUS
  <1>1. /\ Head1(0, "members") /\ Next1(0) /\ UNCHANGED <<platform, kind, conf, ctr, job, tasks, budget>>
        /\ status' \in Statuses /\ (status' = "ACTIVE" => status = "ACTIVE")
    BY StateFacts DEF CallMembers, ServiceTyped, Statuses
  <1>2. Keeps /\ ServiceTyped'
    BY <1>1, UnchangedKeeps, StateFacts DEF ServiceTyped
  <1> QED BY <1>1, <1>2, StaysServed, StateFacts, CallStep, JobSame, Facts

LEMMA CallContainerStep == IInv /\ CallContainer => IInv'
  <1> SUFFICES ASSUME IInv, CallContainer PROVE IInv'
    OBVIOUS
  <1>1. /\ Head1(0, "container") /\ Next1(0)
        /\ UNCHANGED <<platform, kind, status, conf, job, tasks, budget>>
        /\ ctr' \in Containers /\ ctr'.up = ctr.up /\ ctr'.auth = ctr.auth /\ ctr'.stopping = ctr.stopping
    BY StateFacts DEF CallContainer, Containers
  <1>2. Keeps /\ ServiceTyped'
    BY <1>1, UnchangedKeeps, StateFacts DEF ServiceTyped
  <1>3. ReadsMemberIPs => conf.memberIPs > 0 /\ (client.creates = 1 => conf.memberIPs = 1)
    <2>1. req[0] \in Seq(Calls) /\ req[0] # <<>> /\ Head(req[0]) = "container"
      BY <1>1, Next1Facts, Facts
    <2>2. ReadsMemberIPs => conf.memberIPs > 0
      BY <2>1, PrecedesTail, StateFacts DEF Safe, ClientOK
    <2> QED BY <2>2, StateFacts DEF Safe, FillOK
  <1>4. client'.creates = client.creates => ServedAsConfigured'
    BY <1>1, <1>2, <1>3, StateFacts DEF ServedAsConfigured, Secured, Addressed, ReadsMemberIPs
  <1> QED BY <1>1, <1>2, <1>4, CallStep, JobSame, Facts

LEMMA CallMemberIPsStep == IInv /\ CallMemberIPs => IInv'
  <1> SUFFICES ASSUME IInv, CallMemberIPs PROVE IInv'
    OBVIOUS
  <1>1. /\ Head1(0, "memberIPs") /\ Next1(0)
        /\ UNCHANGED <<platform, kind, status, ctr, job, tasks, budget>>
        /\ conf' \in Confs /\ conf'.memberIPs = conf.memberIPs + 1 /\ conf'.auth = conf.auth
    <2>1. PICK n \in Nat : n = conf.memberIPs + 1
      BY StateFacts
    <2>2. conf' = [conf EXCEPT !.memberIPs = n]
      BY <2>1 DEF CallMemberIPs
    <2>3. conf' \in Confs /\ conf'.memberIPs = n /\ conf'.auth = conf.auth
      BY <2>2, StateFacts DEF Confs
    <2> QED BY <2>1, <2>3 DEF CallMemberIPs
  <1>2. Keeps /\ ServiceTyped'
    BY <1>1, StateFacts DEF Keeps, Authenticated, ServiceTyped
  <1>3. ReadsMemberIPs /\ client.creates = 1 => conf.memberIPs = 0
    <2>1. req[0] \in Seq(Calls) /\ req[0] # <<>> /\ Head(req[0]) = "memberIPs"
      BY <1>1, Next1Facts, Facts
    <2> QED BY <2>1, NeverTail, StateFacts DEF Safe, FillOK
  <1>4. client'.creates = client.creates => ServedAsConfigured'
    BY <1>1, <1>2, <1>3, StateFacts DEF ServedAsConfigured, Secured, Addressed, ReadsMemberIPs
  <1> QED BY <1>1, <1>2, <1>4, CallStep, JobSame, Facts

LEMMA CallServiceIPsStep == IInv /\ CallServiceIPs => IInv'
  <1> SUFFICES ASSUME IInv, CallServiceIPs PROVE IInv'
    OBVIOUS
  <1>1. /\ Head1(0, "serviceIPs") /\ Next1(0)
        /\ UNCHANGED <<platform, kind, status, ctr, job, tasks, budget>>
        /\ conf' \in Confs /\ conf'.memberIPs = conf.memberIPs /\ conf'.auth = conf.auth
    BY StateFacts DEF CallServiceIPs, Confs
  <1>2. Keeps /\ ServiceTyped'
    BY <1>1, StateFacts DEF Keeps, Authenticated, ServiceTyped
  <1> QED BY <1>1, <1>2, StaysServed, StateFacts, CallStep, JobSame, Facts

LEMMA CallCheckAttrStep == IInv /\ CallCheckAttr => IInv'
  <1> SUFFICES ASSUME IInv, CallCheckAttr PROVE IInv'
    OBVIOUS
  <1>1. PICK r \in Seq(Calls) : r = checkOp
    BY CheckCalls
  <1>2. UNCHANGED <<service, client, job, tasks, budget>>
        /\ (Rest(0, r) \/ Rest(0, <<>>))
    BY <1>1 DEF CallCheckAttr
  <1>3. kind' = kind
    BY <1>2 DEF service
  <1>4. ClientOK(r)' /\ FillOK(r)'
    <2>1. ClientOK(r)'
      BY <1>1, <1>3, CheckCalls DEF ClientOK, Restarted, ReadsMemberIPs
    <2>2. PICK s : s = req[0]
      OBVIOUS
    <2>3. FillOK(s)'
      BY <1>2, <2>2, StateFacts, ServiceSame, FillKept DEF Safe
    <2>4. Never(r, "memberIPs") /\ Once(r, "memberIPs")
      BY <1>1, CheckCalls DEF Never, Once
    <2> QED BY <2>1, <2>3, <2>4 DEF FillOK
  <1>5. CASE Rest(0, r)
    BY <1>2, <1>4, <1>5, ServiceSame, JobSame, RequestStep, Facts, StateFacts
  <1>6. CASE Rest(0, <<>>)
    BY <1>2, <1>6, RequestEnds, Facts, StateFacts
  <1> QED BY <1>2, <1>5, <1>6

LEMMA CallAddInitStep == IInv /\ CallAddInit => IInv'
  <1> SUFFICES ASSUME IInv, CallAddInit PROVE IInv'
    OBVIOUS
  <1>1. Head1(0, "addInit") /\ Next1(0) /\ UNCHANGED <<service, tasks, budget>>
        /\ (job' = job \/ job' = [NoJob EXCEPT !.pc = "waitRunning"])
    BY DEF CallAddInit
  <1>2. JobTyped'
    BY <1>1, StateFacts, NoJobTyped, Facts DEF JobTyped, Jobs, JobSteps, tasks
  <1> QED BY <1>1, <1>2, ServiceSame, CallStep, Facts

-----------------------------------------------------------------------------
(* The requests of the init containers, and calls of both. *)

LEMMA CallLookupStep == ASSUME IInv, NEW h \in Handlers, CallLookup(h) PROVE IInv'
  <1>1. Head1(h, "lookup") /\ Next1(h) /\ UNCHANGED <<service, job, tasks, budget>>
    BY DEF CallLookup
  <1> QED BY <1>1, ServiceSame, JobSame, CallStep

LEMMA CallAuthStep == ASSUME IInv, NEW h \in Handlers, CallAuth(h) PROVE IInv'
  <1>1. /\ Head1(h, "auth") /\ Next1(h)
        /\ UNCHANGED <<platform, kind, status, ctr, job, tasks, budget>>
        /\ conf' \in Confs /\ conf'.memberIPs = conf.memberIPs /\ conf'.auth
    BY StateFacts DEF CallAuth, Confs
  <1>2. Keeps /\ ServiceTyped'
    BY <1>1, StateFacts DEF Keeps, Authenticated, ServiceTyped
  <1> QED BY <1>1, <1>2, StaysServed, StateFacts, CallStep, JobSame

LEMMA CallStopStep == ASSUME IInv, NEW h \in Handlers, CallStop(h) PROVE IInv'
  <1>1. /\ Head1(h, "stop") /\ Next1(h)
        /\ UNCHANGED <<platform, kind, status, conf, job, tasks, budget>>
        /\ ctr' \in Containers /\ ctr'.up = ctr.up /\ ctr'.auth = ctr.auth
        /\ ctr'.exists = ctr.exists /\ ctr'.stopping = ctr.up
    BY StateFacts DEF CallStop, Containers
  <1>2. Keeps /\ ServiceTyped'
    BY <1>1, UnchangedKeeps, StateFacts DEF ServiceTyped
  <1> QED BY <1>1, <1>2, StaysServed, StateFacts, CallStep, JobSame

LEMMA CallStartStep == ASSUME IInv, NEW h \in Handlers, CallStart(h) PROVE IInv'
  <1>1. /\ Head1(h, "start") /\ Next1(h)
        /\ UNCHANGED <<platform, kind, status, conf, job, tasks, budget>>
        /\ ctr' \in Containers /\ ctr'.up = ctr.up /\ ctr'.auth = ctr.auth
        /\ ctr'.exists = ctr.exists /\ ctr'.stopping = ctr.stopping
    BY StateFacts DEF CallStart, Containers
  <1>2. Keeps /\ ServiceTyped'
    BY <1>1, UnchangedKeeps, StateFacts DEF ServiceTyped
  <1> QED BY <1>1, <1>2, StaysServed, StateFacts, CallStep, JobSame

(* Nothing runs, or may run without authentication, when the wait is over: *)
(* the file was changed before the service was stopped.                    *)
LEMMA CallWaitStep == ASSUME IInv, NEW h \in Handlers, CallWait(h) PROVE IInv'
  <1>1. Head1(h, "wait") /\ UNCHANGED <<service, job, tasks, budget>>
    BY DEF CallWait
  <1>2. CASE (platform = "swarm" \/ ~ctr.up) /\ Next1(h)
    <2>1. ASSUME h \in Tasks, platform # "swarm", Restarted PROVE Authenticated'
      <3>1. req[h] \in Seq(Calls) /\ req[h] # <<>> /\ Head(req[h]) = "wait"
        BY <1>1, <1>2, Next1Facts
      <3>2. conf.auth
        BY <2>1, <3>1, PrecedesTail, StateFacts DEF Safe, TaskOK
      <3> QED BY <1>1, <1>2, <2>1, <3>2 DEF Authenticated, service
    <2> QED BY <1>1, <1>2, <2>1, ServiceSame, JobSame, CallStep
  <1>3. CASE Rest(h, <<>>) /\ UNCHANGED client
    BY <1>1, <1>3, RequestEnds, StateFacts
  <1> QED BY <1>2, <1>3 DEF CallWait

LEMMA CallSetStep == ASSUME IInv, NEW h \in Handlers, CallSet(h) PROVE IInv'
  <1>1. /\ Head1(h, "set") /\ Next1(h) /\ status' = "ACTIVE"
        /\ UNCHANGED <<platform, kind, conf, ctr, job, tasks, budget>>
    BY DEF CallSet
  <1>2. Keeps /\ ServiceTyped'
    BY <1>1, UnchangedKeeps, StateFacts DEF ServiceTyped, Statuses
  <1>3. req[h] \in Seq(Calls) /\ req[h] # <<>> /\ Head(req[h]) = "set"
    BY <1>1, Next1Facts
  <1>4. Restarted => h \in Tasks
    BY <1>3, NeverTail, StateFacts DEF Safe, ClientOK, Handlers
  <1>5. /\ Restarted /\ platform # "swarm" => Authenticated
        /\ kind = "redisserver" => Authenticated
    BY <1>3, <1>4, PrecedesTail, StateFacts DEF Safe, TaskOK
  <1>6. client'.creates = client.creates => ServedAsConfigured'
    BY <1>1, <1>5, StateFacts DEF ServedAsConfigured, Secured, Addressed, ReadsMemberIPs,
       Restarted, Authenticated
  <1> QED BY <1>1, <1>2, <1>6, CallStep, JobSame

LEMMA RequestFailsStep == ASSUME IInv, NEW h \in Handlers, RequestFails(h) PROVE IInv'
  <1>1. /\ Rest(h, <<>>) /\ UNCHANGED <<service, client, job, tasks>>
        /\ budget' \in Budgets
    BY StateFacts DEF RequestFails, Budgets
  <1> QED BY <1>1, RequestEnds, StateFacts

LEMMA ClientStep == IInv /\ ClientCall => IInv'
  BY CallAttrStep, CallMembersStep, CallContainerStep, CallMemberIPsStep, CallServiceIPsStep,
     CallCheckAttrStep, CallAddInitStep DEF ClientCall

LEMMA CallAnyStep == ASSUME IInv, NEW h \in Handlers, Call(h) PROVE IInv'
  BY CallLookupStep, CallAuthStep, CallStopStep, CallWaitStep, CallStartStep, CallSetStep DEF Call

-----------------------------------------------------------------------------
(* The goroutine *)

LEMMA JobStepOK ==
  ASSUME IInv, UNCHANGED <<service, req, client>>, JobTyped', TasksTyped', budget' \in Budgets,
         \A t \in Tasks : init[t] = "setting" => init'[t] = "setting"
  PROVE  IInv'
  BY ServiceSame, OtherStep, StateFacts

LEMMA JobMoves ==
  ASSUME IInv, NEW p \in JobSteps, p # "waitTask", JobTo(p), UNCHANGED <<service, req, client, tasks>>,
         budget' \in Budgets
  PROVE  IInv'
  <1>1. /\ job' \in Jobs /\ job'.pc = p /\ job'.tries = job.tries
        /\ init' = init /\ obj' = obj
    BY StateFacts DEF JobTo, Jobs, tasks
  <1>2. JobTyped' /\ TasksTyped'
    BY <1>1, StateFacts DEF JobTyped, TasksTyped
  <1> QED BY <1>1, <1>2, JobStepOK

LEMMA TryAgainStep ==
  ASSUME IInv, TryAgain, UNCHANGED <<service, req, client, tasks>>, budget' \in Budgets
  PROVE  IInv'
  <1>1. CASE job.tries + 1 = MaxTries
    BY <1>1, JobMoves DEF TryAgain, JobSteps
  <1>2. CASE job.tries + 1 # MaxTries
    <2>0. PICK n \in Nat : n = job.tries + 1
      BY StateFacts
    <2>1. job' = [job EXCEPT !.pc = "run", !.tries = n] /\ job.tries < MaxTries
      BY <1>2, <2>0, StateFacts DEF TryAgain, JobTyped
    <2>2. job' \in Jobs /\ job'.pc = "run" /\ job'.tries = job.tries + 1
      BY <2>0, <2>1, StateFacts DEF Jobs, JobSteps
    <2>3. job'.tries < MaxTries /\ init' = init /\ obj' = obj
      BY <1>2, <2>1, <2>2, StateFacts, Facts DEF tasks
    <2>4. JobTyped' /\ TasksTyped'
      BY <2>2, <2>3, StateFacts DEF JobTyped, TasksTyped
    <2> QED BY <2>3, <2>4, JobStepOK
  <1> QED BY <1>1, <1>2

LEMMA RunsAlreadyStep ==
  ASSUME IInv, NEW t \in Tasks, init[t] # "none", RunsAlready(t)
  PROVE  IInv'
  <1>1. /\ job' \in Jobs /\ job'.pc = "waitTask" /\ job'.task = t /\ job'.tries = job.tries
        /\ init' = init /\ obj' = obj /\ UNCHANGED <<service, req, client, budget>>
    BY StateFacts DEF RunsAlready, Jobs, JobSteps, tasks
  <1>2. JobTyped' /\ TasksTyped'
    BY <1>1, StateFacts DEF JobTyped, TasksTyped
  <1> QED BY <1>1, <1>2, JobStepOK, StateFacts

LEMMA StartTaskStep == IInv /\ StartTask => IInv'
  <1> SUFFICES ASSUME IInv, StartTask PROVE IInv'
    OBVIOUS
  <1>1. PICK t : t = CHOOSE u \in Free : TRUE
    OBVIOUS
  <1>2. t \in Free
    <2>1. Free # {}
      BY DEF StartTask
    <2> QED BY <1>1, <2>1
  <1>3. /\ init' = [init EXCEPT ![t] = "running"] /\ obj' = t
        /\ job' = [job EXCEPT !.pc = "waitTask", !.task = t]
        /\ UNCHANGED <<service, req, client, budget>>
    BY <1>1 DEF StartTask
  <1>4. t \in Tasks /\ init[t] # "setting"
    BY <1>2 DEF Free
  <1>5. /\ init' \in [Tasks -> InitStates] /\ init'[t] = "running"
        /\ \A u \in Tasks : init[u] = "setting" => init'[u] = "setting"
    BY <1>3, <1>4, StateFacts DEF InitStates
  <1>6. job' \in Jobs /\ job'.pc = "waitTask" /\ job'.task = t /\ job'.tries = job.tries
    BY <1>3, <1>4, StateFacts DEF Jobs, JobSteps
  <1>7. JobTyped' /\ TasksTyped'
    BY <1>3, <1>4, <1>5, <1>6, StateFacts DEF JobTyped, TasksTyped
  <1> QED BY <1>3, <1>5, <1>7, JobStepOK, StateFacts

LEMMA taskDoneStep == IInv /\ taskDone => IInv'
  <1> SUFFICES ASSUME IInv, taskDone PROVE IInv'
    OBVIOUS
  <1>1. /\ job' = NoJob /\ init' = init /\ (obj' = obj \/ obj' = 0)
        /\ UNCHANGED <<service, req, client, budget>>
    BY DEF taskDone
  <1>2. JobTyped' /\ TasksTyped'
    BY <1>1, StateFacts, NoJobTyped, Facts DEF JobTyped, TasksTyped
  <1> QED BY <1>1, <1>2, JobStepOK, StateFacts

LEMMA JobStep == IInv /\ Job => IInv'
  <1> SUFFICES ASSUME IInv, Job PROVE IInv'
    OBVIOUS
  <1>1. CASE waitServiceRunning \/ waitServiceRunningTimeout \/ isServiceInitialized
    BY <1>1, JobMoves, StateFacts DEF waitServiceRunning, waitServiceRunningTimeout,
       isServiceInitialized, JobOnly, JobSteps
  <1>2. CASE RunTaskFails \/ waitTask \/ waitTaskTimeout
    BY <1>2, JobMoves, StateFacts DEF RunTaskFails, waitTask, waitTaskTimeout, JobOnly, JobSteps
  <1>3. CASE EcsRunTask
    BY <1>3, RunsAlreadyStep, StartTaskStep DEF EcsRunTask, Running
  <1>4. CASE SwarmRunTask
    BY <1>4, StartTaskStep DEF SwarmRunTask
  <1>5. CASE K8sRunTask
    BY <1>5, RunsAlreadyStep, StartTaskStep, StateFacts DEF K8sRunTask, TasksTyped
  <1>6. CASE recheckInitialized
    BY <1>6, JobMoves, TryAgainStep, StateFacts DEF recheckInitialized, JobOnly, JobSteps
  <1>7. CASE taskDone
    BY <1>7, taskDoneStep
  <1> QED BY <1>1, <1>2, <1>3, <1>4, <1>5, <1>6, <1>7 DEF Job

LEMMA JobFaultStep == IInv /\ JobFault => IInv'
  <1> SUFFICES ASSUME IInv, JobFault PROVE IInv'
    OBVIOUS
  <1>1. budget' \in Budgets /\ UNCHANGED <<service, req, client, tasks>>
    BY StateFacts DEF JobFault, Budgets
  <1> QED BY <1>1, JobMoves, TryAgainStep DEF JobFault, JobSteps

-----------------------------------------------------------------------------
(* The containers of the service, and the init containers *)

LEMMA ContainersStep == IInv /\ (ContainersStart \/ ContainersStop) => IInv'
  <1> SUFFICES ASSUME IInv, ContainersStart \/ ContainersStop PROVE IInv'
    OBVIOUS
  <1>1. /\ ctr' \in Containers /\ ctr'.exists = ctr.exists /\ (ctr'.stopping => ctr'.up)
        /\ ctr'.up => ctr'.auth = conf.auth
        /\ UNCHANGED <<platform, kind, status, conf, req, client, job, tasks, budget>>
    <2>1. CASE ContainersStart
      BY <2>1, StateFacts DEF ContainersStart, Containers, ServiceTyped
    <2>2. CASE ContainersStop
      BY <2>2, StateFacts DEF ContainersStop, Containers
    <2> QED BY <2>1, <2>2
  <1>2. Keeps /\ ServiceTyped'
    BY <1>1, StateFacts DEF Keeps, Authenticated, ServiceTyped
  <1>3. SameFill
    BY <1>1 DEF SameFill
  <1>4. JobTyped' /\ TasksTyped' /\ init' = init
    BY <1>1, JobSame
  <1> QED BY <1>1, <1>2, <1>3, <1>4, OtherStep, StateFacts

LEMMA InitDoneStep == ASSUME IInv, NEW t \in Tasks, InitDone(t) PROVE IInv'
  <1>1. PICK r \in Seq(Calls) : r = catalogSetServiceInit
    BY InitCalls
  <1>2. /\ init[t] = "running" /\ init' = [init EXCEPT ![t] = "setting"] /\ Rest(t, r) /\ obj' = obj
        /\ UNCHANGED <<service, client, job, budget>>
    BY <1>1 DEF InitDone
  <1>3. /\ init' \in [Tasks -> InitStates] /\ init'[t] = "setting"
        /\ \A u \in Tasks : u # t => init'[u] = init[u]
    BY <1>2, StateFacts DEF InitStates
  <1>4. JobTyped' /\ TasksTyped'
    BY <1>2, <1>3, StateFacts DEF JobTyped, TasksTyped
  <1>5. kind' = kind /\ platform' = platform
    BY <1>2 DEF service
  <1>6. TaskOK(r)'
    BY <1>1, <1>5, InitCalls DEF TaskOK, Restarted
  <1> QED BY <1>2, <1>3, <1>4, <1>6, ServiceSame, RequestStep, StateFacts, Facts

LEMMA InitEndsStep == ASSUME IInv, NEW t \in Tasks, InitExits(t) \/ InitFails(t) PROVE IInv'
  <1>1. /\ init' = [init EXCEPT ![t] = "exited"] /\ obj' = obj /\ req[t] = <<>>
        /\ UNCHANGED <<service, req, client, job>> /\ budget' \in Budgets
    BY StateFacts DEF InitExits, InitFails, Budgets, RequestsTyped
  <1>2. /\ init' \in [Tasks -> InitStates] /\ init'[t] = "exited"
        /\ \A u \in Tasks : u # t => init'[u] = init[u]
    BY <1>1, StateFacts DEF InitStates
  <1>3. JobTyped' /\ TasksTyped'
    BY <1>1, <1>2, StateFacts DEF JobTyped, TasksTyped
  <1> QED BY <1>1, <1>2, <1>3, ServiceSame, OtherStep, StateFacts

LEMMA CrashStep == IInv /\ CatalogCrash => IInv'
  <1> SUFFICES ASSUME IInv, CatalogCrash PROVE IInv'
    OBVIOUS
  <1>1. /\ req' = [h \in Handlers |-> <<>>] /\ job' = NoJob /\ UNCHANGED <<service, client, tasks>>
        /\ budget' \in Budgets
    BY StateFacts DEF CatalogCrash, Budgets
  <1>2. RequestsTyped' /\ \A h \in Handlers : req'[h] = <<>>
    BY <1>1, NothingLeft, Facts DEF RequestsTyped
  <1>3. JobTyped' /\ TasksTyped'
    BY <1>1, NoJobTyped, Facts, StateFacts DEF JobTyped, TasksTyped, tasks
  <1>4. Safe'
    BY <1>1, <1>2, ServiceSame, NothingLeft, Facts DEF Safe, ClientOK, TaskOK
  <1> QED BY <1>1, <1>2, <1>3, <1>4, ServiceSame, StateFacts DEF IInv, TypeInv

LEMMA StutterOK == IInv /\ UNCHANGED vars => IInv'
  <1> SUFFICES ASSUME IInv, UNCHANGED vars PROVE IInv'
    OBVIOUS
  <1>1. UNCHANGED <<service, req, client, job, tasks, budget>>
    BY DEF vars
  <1> QED BY <1>1, ServiceSame, JobSame, OtherStep, StateFacts

LEMMA Inductive == IInv /\ [Next]_vars => IInv'
  <1> SUFFICES ASSUME IInv, [Next]_vars PROVE IInv'
    OBVIOUS
  <1>1. CASE Client
    BY <1>1, ClientCreatesStep, ClientChecksStep, ClientStep, CallAnyStep, Facts DEF Client
  <1>2. ASSUME NEW t \in Tasks, InitTask(t) \/ InitFails(t) PROVE IInv'
    BY <1>2, CallAnyStep, InitDoneStep, InitEndsStep, Facts DEF InitTask
  <1>3. CASE Job \/ JobFault \/ ContainersStart \/ ContainersStop \/ CatalogCrash
    BY <1>3, JobStep, JobFaultStep, ContainersStep, CrashStep
  <1>4. ASSUME NEW h \in Handlers, RequestFails(h) PROVE IInv'
    BY <1>4, RequestFailsStep
  <1>5. CASE UNCHANGED vars
    BY <1>5, StutterOK
  <1> QED BY <1>1, <1>2, <1>3, <1>4, <1>5 DEF Next

(* The job waits for a task it has run, and only an init container that is  *)
(* done has a request to make (catalogserviceinit.go:117-246).              *)
THEOREM TypeCorrect == Spec => []TypeOK
  <1>1. IInv => TypeOK
    BY DEF IInv, TypeInv, ServiceTyped, JobTyped, TasksTyped, RequestsTyped, TypeOK,
           Confs, Containers, Clients, Budgets, Jobs, JobSteps, InitStates
  <1> QED BY <1>1, InitOK, Inductive, PTL DEF Spec

(* MongoDB and Redis are ACTIVE only with authentication, and Redis and     *)
(* Consul run only when an address was put into the file of every member,   *)
(* once if the creation was not repeated, whatever requests overlap or end  *)
(* half way (catalogservice_mongodb.go:104, catalogservice_redis.go:54).    *)
THEOREM ServedWell == Spec => []ServedAsConfigured
  <1>1. IInv => ServedAsConfigured
    BY DEF IInv, Safe
  <1> QED BY <1>1, InitOK, Inductive, PTL DEF Spec
============================================================================
