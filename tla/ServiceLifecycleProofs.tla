----------------------- MODULE ServiceLifecycleProofs -----------------------
(***************************************************************************)
(* The safety of a service's records, for any number of services,          *)
(* handlers, members, failures and crashes.                                *)
(*                                                                         *)
(* The type invariant TypeInv, with what every step knows of its request,  *)
(* holds whatever requests overlap.  The properties hold when a delete     *)
(* request does not overlap with another request for the same service      *)
(* (DeletesAlone): a handler then finds its service again at every step,   *)
(* the attr record it read may have been updated by others but is not gone *)
(* (Current), and what it has added to the service stays there (Adding).   *)
(***************************************************************************)
EXTENDS ServiceLifecycle, FiniteSetTheorems, WellFoundedInduction, TLAPS

(* What a request has at each step, whatever the records are by now. *)
Starting == {"listDev", "putDev", "putSvc", "getSvc"}
Reading == {"getAttr", "ctrExist", "ctrCreate"}  \* without a record of its own
Deletion == {"mark", "list", "clean", "delMember", "delDev", "delJournal", "delAttr", "delSvc"}

StepsOf(r) ==
  /\ r.pc = "idle" => r = NoRequest
  /\ r.pc # "idle" => r.op \in Ops /\ r.s \in Services
  /\ r.pc \in Starting \cup Reading \cup {"putAttr", "status"} => r.op = "create"
  /\ r.pc \in {"members", "resources", "member"} => r.op \in {"create", "scale"}
  /\ r.pc \in {"uuid", "attr"} => r.op # "create"
  /\ r.pc = "ctrStop" => r.op \in {"delete", "stop"}
  /\ r.pc \in {"ctrDelete"} \cup Deletion => r.op = "delete"
  /\ r.pc \in {"uuidAgain", "attrAgain"} => r.op \in {"delete", "init"}
  /\ r.pc = "active" => r.op = "init"
  /\ r.pc = "ctrScale" => r.op \in {"scale", "start"}
  /\ r.pc = "ctrUpdate" => r.op = "resource"
  /\ r.pc = "update" => r.op \in {"scale", "resource"}

HasWhatItNeeds(r) ==
  /\ r.op # "scale" => r.size = Replicas
  /\ r.pc = "putDev" => r.d # None
  /\ r.pc \in {"putSvc", "getSvc", "putAttr", "getAttr"} => r.primary # None
  /\ r.pc \notin Starting \cup {"idle", "uuid"} <=> r.u # None
  /\ r.rec # None => r.u # None
  /\ r.pc \notin Starting \cup Reading \cup {"idle", "uuid", "putAttr", "attr"} => r.rec # None
  /\ r.pc \in {"resources", "member"} => r.todo # {} /\ r.todo \subseteq 1..r.size
  /\ r.op = "create" /\ r.rec # None =>
       r.rec.status = "CREATING" /\ r.rec.replicas = Replicas
  /\ r.op = "scale" /\ r.rec # None => r.rec.replicas < r.size
  /\ r.pc = "active" => r.rec.status = "INITIALIZING"

FlowOK(r) == StepsOf(r) /\ HasWhatItNeeds(r)
TypeInv ==
  /\ TypeOK
  /\ \A u \in UUIDs : IsFiniteSet(members[u])
  /\ \A h \in Handlers : FlowOK(req[h])

-----------------------------------------------------------------------------
(* No other request for a service is at work while it is deleted.  (The     *)
(* requests that would have to be kept apart are not kept apart by the      *)
(* code: managesvc/server.go:1264 leaves it to the users.)                  *)
DeletesAlone == "delete" \in Ops =>
  \A op \in Ops : <<"delete", op>> \notin Overlaps /\ <<op, "delete">> \notin Overlaps

Alone ==
  \A g, h \in Handlers : g # h /\ req[g].pc # "idle" /\ req[g].s = req[h].s => req[g].op # "delete"

Alive(u) == attr[u] # None /\ attr[u].status # "DELETING"
Up(u) == attr[u] # None /\ attr[u].status \in {"INITIALIZING", "ACTIVE"}

(* The members found are the first ones, unless a deletion has begun. *)
Segment(S) == \A i \in S : 1..i \subseteq S
RecordOK(u) ==
  /\ attr[u] = None => members[u] = {}
  /\ attr[u] # None => svc[attr[u].name] = u /\ Replicas <= attr[u].replicas
  /\ Alive(u) => Segment(members[u]) /\ members[u] \subseteq res[u]
  /\ Up(u) => 1..attr[u].replicas \subseteq members[u]

(* Two names have two uuids; what runs is up and has its members. *)
ServiceOK(s) ==
  /\ svc[s] # None => \A t \in Services : svc[t] = svc[s] => t = s
  /\ ctr[s] # None => svc[s] # None /\ Up(svc[s]) /\ 1..ctr[s].count \subseteq members[svc[s]]

(* The record a request has read: no newer one has its revision. *)
Current(r) ==
  /\ r.u # None => svc[r.s] = r.u
  /\ r.rec # None /\ r.pc # "delSvc" =>
       /\ attr[r.u] # None
       /\ r.rec.rev <= attr[r.u].rev /\ r.rec.replicas <= attr[r.u].replicas
       /\ r.rec.rev = attr[r.u].rev => attr[r.u] = r.rec
  /\ r.pc \in {"ctrExist", "ctrCreate"} => Up(r.u)

(* The members a creation or a scale has found or added. *)
Adding(r) ==
  /\ r.pc \in {"resources", "member"} /\ Alive(r.u) => 1..r.size \subseteq members[r.u] \cup r.todo
  /\ r.pc = "member" /\ Alive(r.u) => Min(r.todo) \in res[r.u]
  /\ r.pc \in {"status", "ctrScale", "update"} /\ r.op \in {"create", "scale"} /\ Alive(r.u)
       => 1..r.size \subseteq members[r.u]

(* How far a deletion has come. *)
Removing(r) ==
  /\ r.op = "delete" /\ r.pc \in {"uuidAgain", "attrAgain"} \cup Deletion => ctr[r.s] = None
  /\ r.pc \in Deletion \ {"mark", "delSvc"} => attr[r.u] # None /\ attr[r.u].status = "DELETING"
  /\ r.pc \in {"clean", "delMember"} => members[r.u] \subseteq r.todo
  /\ r.pc \in {"delDev", "delJournal", "delAttr"} => members[r.u] = {}
  /\ r.pc = "delSvc" => attr[r.u] = None

RequestOK(r) == Current(r) /\ Adding(r) /\ Removing(r)

SInv ==
  /\ Alone
  /\ \A u \in UUIDs : RecordOK(u)
  /\ \A s \in Services : ServiceOK(s)
  /\ \A h \in Handlers : RequestOK(req[h])

IInv == TypeInv /\ (DeletesAlone => SInv)

-----------------------------------------------------------------------------
(* Types *)

LEMMA Facts ==
  /\ Replicas \in Nat /\ Replicas \in Targets /\ Replicas \in MemberIds
  /\ Targets \subseteq Nat /\ MemberIds \subseteq Nat \ {0}
  /\ \A n \in Targets : 1..n \subseteq MemberIds
  /\ \A n \in Targets : n # 0 => n \in MemberIds
  /\ None \notin Services \cup UUIDs \cup Nat /\ None \notin Attrs /\ None \notin Deployments
  /\ None \notin Devices /\ None \notin MemberIds
  <1>1. Replicas \in Nat /\ Replicas # 0 /\ Replicas \in Targets /\ Targets \subseteq Nat
    BY LifecycleAssumption DEF Targets
  <1>2. \A n \in Targets : n # 0 => n \in 1..n
    BY <1>1
  <1>3. \A n \in Targets : 1..n \subseteq MemberIds
    BY DEF MemberIds
  <1>4. MemberIds \subseteq Nat \ {0}
    BY <1>1 DEF MemberIds
  <1>5. None \notin Services \cup UUIDs \cup Nat /\ None \notin Attrs /\ None \notin Deployments
    BY LifecycleAssumption, RecordsAssumption
  <1>6. None \notin Devices /\ Devices \subseteq Nat
    BY <1>5, LifecycleAssumption DEF Devices
  <1> QED BY <1>1, <1>2, <1>3, <1>4, <1>5, <1>6

LEMMA NoRequestFacts ==
  /\ NoRequest \in Requests /\ NoRequest.pc = "idle" /\ NoRequest.s = None /\ NoRequest.op = None
  /\ NoRequest.u = None /\ NoRequest.rec = None /\ NoRequest.size = Replicas
  BY Facts, LifecycleAssumption DEF NoRequest, Requests, Steps

(* A request that goes on to another step is the same request. *)
Continues(r, q) == r.op = q.op /\ r.s = q.s /\ r.size = q.size

LEMMA StepRequest ==
  ASSUME NEW q \in Requests, NEW step \in Steps
  PROVE  LET r == [q EXCEPT !.pc = step]
         IN  /\ r \in Requests /\ Continues(r, q) /\ r.pc = step /\ r.u = q.u /\ r.rec = q.rec
             /\ r.primary = q.primary /\ r.journal = q.journal /\ r.d = q.d /\ r.todo = q.todo
  BY DEF Requests, Continues

LEMMA TypeFacts ==
  ASSUME TypeInv
  PROVE  /\ dev \in [Devices -> Services \cup {None}] /\ svc \in [Services -> UUIDs \cup {None}]
         /\ attr \in [UUIDs -> Attrs \cup {None}]
         /\ res \in [UUIDs -> SUBSET MemberIds] /\ members \in [UUIDs -> SUBSET MemberIds]
         /\ \A u \in UUIDs : IsFiniteSet(members[u])
         /\ ctr \in [Services -> Deployments \cup {None}]
         /\ req \in [Handlers -> Requests]
  BY DEF TypeInv, TypeOK

(* The smallest of the initial segments that end in S is that of Min(S). *)
LEMMA Smallest ==
  ASSUME NEW S, S \subseteq Nat, S # {}
  PROVE  \E x \in S : \A y \in S : x <= y
  <1> DEFINE Segments == {0..x : x \in S}
  <1>1. Segments \subseteq FiniteSubsetsOf(Nat) /\ Segments # {}
    <2>1. \A x \in S : IsFiniteSet(0..x) /\ 0..x \subseteq Nat
      BY FS_Interval
    <2> QED BY <2>1 DEF FiniteSubsetsOf
  <1>2. PICK t \in Segments : \A u \in Segments : ~ (<<u, t>> \in StrictSubsetOrdering(Nat))
    BY <1>1, WFMin, FS_StrictSubsetOrderingWellFounded
  <1>3. PICK x \in S : t = 0..x
    OBVIOUS
  <1>4. ASSUME NEW y \in S, y < x PROVE FALSE
    <2>1. /\ 0..y \in Segments /\ 0..y \subseteq t /\ 0..y # t
          /\ 0..y \in SUBSET Nat /\ t \in SUBSET Nat
      BY <1>3, <1>4
    <2> QED BY <1>2, <2>1 DEF StrictSubsetOrdering
  <1> QED BY <1>4

LEMMA MinFacts ==
  ASSUME NEW S, S \subseteq Nat, S # {}
  PROVE  Min(S) \in S /\ \A y \in S : Min(S) <= y
  BY Smallest DEF Min

(* One handler goes on, or returns; the records stay typed. *)
TypedDB == /\ dev' \in [Devices -> Services \cup {None}] /\ svc' \in [Services -> UUIDs \cup {None}]
           /\ attr' \in [UUIDs -> Attrs \cup {None}]
           /\ res' \in [UUIDs -> SUBSET MemberIds] /\ members' \in [UUIDs -> SUBSET MemberIds]
           /\ \A u \in UUIDs : IsFiniteSet(members'[u])
           /\ ctr' \in [Services -> Deployments \cup {None}]

LEMMA TypedStep ==
  ASSUME TypeInv, NEW h \in Handlers, NEW r \in Requests, Become(h, r), FlowOK(r), TypedDB,
         goal' = goal, faults' \in 0..MaxFaults, crashes' = crashes
  PROVE  TypeInv'
  BY DEF TypeInv, TypeOK, Become, TypedDB

LEMMA ReturnOK == NoRequest \in Requests /\ FlowOK(NoRequest)
  BY NoRequestFacts, Facts DEF FlowOK, StepsOf, HasWhatItNeeds, Starting, Reading, Deletion

LEMMA TypedReturn ==
  ASSUME TypeInv, NEW h \in Handlers, Return(h), TypedDB,
         goal' = goal, faults' \in 0..MaxFaults, crashes' = crashes
  PROVE  TypeInv'
  BY TypedStep, ReturnOK DEF Return

-----------------------------------------------------------------------------
(* Steps, by what they change. *)

SameOrDone(r, q) == r = NoRequest \/ Continues(r, q)

LEMMA DoneOK == RequestOK(NoRequest)
  BY NoRequestFacts, Facts DEF RequestOK, Current, Adding, Removing, Deletion, NoRequest

(* A step of h, with the service it works on and its uuid, changes nothing *)
(* of another service, and takes nothing from its own unless it deletes it. *)
Grows(s, u) ==
  /\ svc[s] # None => svc'[s] = svc[s]
  /\ members[u] \subseteq members'[u] /\ res[u] \subseteq res'[u]
  /\ attr[u] # None => \/ attr'[u] = attr[u]
                       \/ /\ attr'[u] # None
                          /\ attr[u].rev < attr'[u].rev /\ attr[u].replicas <= attr'[u].replicas
                          /\ Alive(u)' => Alive(u)
                          /\ Up(u) => Up(u)'
Apart(s, u) ==
  /\ svc[s] \in {None, u} /\ svc'[s] \in {None, u}
  /\ \A t \in Services \ {s} : svc'[t] = svc[t] /\ ctr'[t] = ctr[t] /\ svc[t] # u
  /\ \A v \in UUIDs \ {u} : attr'[v] = attr[v] /\ members'[v] = members[v] /\ res'[v] = res[v]

LEMMA OthersKeep ==
  ASSUME TypeInv, SInv, NEW h \in Handlers, req[h].pc # "idle", NEW u \in UUIDs,
         attr' \in [UUIDs -> Attrs \cup {None}],
         Apart(req[h].s, u), req[h].op = "delete" \/ Grows(req[h].s, u),
         NEW g \in Handlers, g # h, NEW q, q = req[g]
  PROVE  RequestOK(q)'
  <1>a. PICK s \in Services : s = req[h].s
    BY DEF TypeInv, FlowOK, StepsOf
  <1>0. q \in Requests /\ FlowOK(q) /\ RequestOK(q)
    BY TypeFacts DEF TypeInv, SInv
  <1>b. Apart(s, u) /\ (req[h].op = "delete" \/ Grows(s, u))
    BY <1>a
  <1>1. CASE q.pc = "idle"
    BY <1>0, <1>1, DoneOK, NoRequestFacts, Facts
       DEF FlowOK, StepsOf, RequestOK, Current, Adding, Removing, Deletion
  <1>2. CASE q.pc # "idle" /\ q.s # s
    <2>1. q.s \in Services \ {s} /\ svc'[q.s] = svc[q.s] /\ ctr'[q.s] = ctr[q.s] /\ svc[q.s] # u
      BY <1>0, <1>b, <1>2 DEF FlowOK, StepsOf, Apart
    <2>2. q.u # u
      BY <1>0, <2>1, Facts DEF RequestOK, Current
    <2>3. CASE q.u = None
      BY <1>0, <2>1, <2>3 DEF RequestOK, Current, Adding, Removing, Deletion, FlowOK, HasWhatItNeeds,
                           Starting
    <2>4. CASE q.u # None
      <3>1. q.u \in UUIDs \ {u}
        BY <1>0, <2>2, <2>4 DEF Requests
      <3>2. attr'[q.u] = attr[q.u] /\ members'[q.u] = members[q.u] /\ res'[q.u] = res[q.u]
        BY <1>b, <3>1 DEF Apart
      <3> QED BY <1>0, <2>1, <3>2 DEF RequestOK, Current, Adding, Removing, Alive, Up
    <2> QED BY <2>3, <2>4
  <1>3. CASE q.pc # "idle" /\ q.s = s
    <2>1. q.op # "delete" /\ req[h].op # "delete" /\ Grows(s, u)
      BY <1>a, <1>b, <1>3 DEF SInv, Alone
    <2>2. q.pc \notin Deletion
      BY <1>0, <2>1 DEF FlowOK, StepsOf
    <2>3. CASE q.u = None
      BY <1>0, <2>1, <2>2, <2>3 DEF RequestOK, Current, Adding, Removing, Deletion, FlowOK, HasWhatItNeeds,
                           Starting
    <2>4. CASE q.u # None
      <3>1. q.u = u /\ svc'[s] = svc[s] /\ svc[s] = u
        BY <1>0, <1>b, <1>3, <2>1, <2>4, Facts DEF RequestOK, Current, Apart, Grows
      <3>2. Current(q)'
        <4>1. q.rec # None => q.rec \in Attrs
          BY <1>0 DEF Requests
        <4>2. attr[u] # None => attr[u] \in Attrs
          BY TypeFacts
        <4>3. CASE attr[u] = None
          BY <1>0, <1>3, <2>2, <3>1, <4>3 DEF RequestOK, Current, Up, Deletion
        <4>4. CASE attr'[u] = attr[u]
          BY <1>0, <1>3, <3>1, <4>4 DEF RequestOK, Current, Up
        <4>5. CASE attr[u] # None /\ attr'[u] # attr[u]
          <5>1. /\ attr'[u] # None /\ attr[u].rev < attr'[u].rev
                /\ attr[u].replicas <= attr'[u].replicas /\ (Up(u) => Up(u)')
            BY <2>1, <4>5 DEF Grows
          <5>2. q.rec # None /\ q.pc # "delSvc" =>
                  q.rec.rev <= attr[u].rev /\ q.rec.replicas <= attr[u].replicas
            BY <1>0, <3>1 DEF RequestOK, Current
          <5>3. q.rec # None /\ q.pc # "delSvc" =>
                  /\ q.rec.rev <= attr'[u].rev /\ q.rec.replicas <= attr'[u].replicas
                  /\ q.rec.rev # attr'[u].rev
            <6>1. \A a \in Attrs : a.rev \in Nat /\ a.replicas \in Nat
              BY Facts DEF Attrs
            <6> QED BY <4>1, <4>2, <4>5, <5>1, <5>2, <6>1
          <5> QED BY <1>0, <1>3, <3>1, <5>1, <5>3 DEF RequestOK, Current
        <4> QED BY <4>3, <4>4, <4>5
      <3>3. Adding(q)'
        <4>1. q.pc \in {"resources", "member", "status", "ctrScale", "update"} /\ Alive(u)' => Alive(u)
          BY <1>0, <2>1, <2>2, <3>1 DEF RequestOK, Current, FlowOK, HasWhatItNeeds, Starting, Reading,
                                        Grows, Alive, Deletion
        <4> QED BY <1>0, <2>1, <3>1, <4>1 DEF RequestOK, Adding, Grows
      <3>4. Removing(q)'
        BY <2>1, <2>2 DEF Removing, Deletion
      <3> QED BY <3>2, <3>3, <3>4 DEF RequestOK
    <2> QED BY <2>3, <2>4
  <1> QED BY <1>1, <1>2, <1>3

(* A step of h leads to the request r and to records that are right again. *)
LEMMA WriteStep ==
  ASSUME IInv, NEW h \in Handlers, req[h].pc # "idle",
         NEW r \in Requests, Become(h, r), SameOrDone(r, req[h]), FlowOK(r), TypedDB,
         goal' = goal, faults' \in 0..MaxFaults, crashes' = crashes,
         NEW u \in UUIDs, NEW s \in Services, s = req[h].s,
         SInv => /\ Apart(s, u) /\ (req[h].op = "delete" \/ Grows(s, u))
                 /\ RecordOK(u)' /\ ServiceOK(s)' /\ RequestOK(r)'
  PROVE  IInv'
  <1>1. TypeInv'
    BY TypedStep DEF IInv
  <1>2. ASSUME SInv PROVE SInv'
    <2>0. /\ TypeInv /\ Apart(s, u) /\ (req[h].op = "delete" \/ Grows(s, u))
          /\ RecordOK(u)' /\ ServiceOK(s)' /\ RequestOK(r)'
      BY <1>2 DEF IInv
    <2>1. req' = [req EXCEPT ![h] = r] /\ req'[h] = r /\ \A g \in Handlers : g # h => req'[g] = req[g]
      BY <2>0, TypeFacts DEF Become
    <2>2. ASSUME NEW g \in Handlers PROVE RequestOK(req[g])'
      <3>1. CASE g = h
        BY <2>0, <2>1, <3>1
      <3>2. CASE g # h
        <4>1. PICK q : q = req[g]
          OBVIOUS
        <4>2. RequestOK(q)'
          BY <1>2, <2>0, <3>2, <4>1, OthersKeep DEF TypedDB
        <4> QED BY <2>1, <3>2, <4>1, <4>2
      <3> QED BY <3>1, <3>2
    <2>3. Alone'
      <3>1. r.pc # "idle" => r.s = s /\ r.op = req[h].op
        BY NoRequestFacts DEF SameOrDone, Continues
      <3>2. \A g \in Handlers : g # h => r.s = s \/ r.s = None
        BY NoRequestFacts DEF SameOrDone, Continues
      <3>3. \A g \in Handlers : req[g].pc # "idle" => req[g].s # None
        BY <2>0, Facts DEF TypeInv, FlowOK, StepsOf
      <3> QED BY <1>2, <2>1, <3>1, <3>2, <3>3 DEF SInv, Alone
    <2>4. ASSUME NEW v \in UUIDs PROVE RecordOK(v)'
      <3>1. CASE v = u
        BY <2>0, <3>1
      <3>2. CASE v # u
        <4>1. attr'[v] = attr[v] /\ members'[v] = members[v] /\ res'[v] = res[v]
          BY <2>0, <3>2 DEF Apart
        <4>2. RecordOK(v) /\ (attr[v] # None => attr[v].name \in Services)
          BY <1>2, <2>0, TypeFacts DEF SInv, Attrs
        <4>3. attr[v] # None => svc'[attr[v].name] = v
          <5>1. attr[v] # None => svc[attr[v].name] = v /\ attr[v].name \in Services \ {s}
            BY <2>0, <3>2, <4>2, Facts DEF RecordOK, Apart
          <5> QED BY <2>0, <5>1 DEF Apart
        <4> QED BY <4>1, <4>2, <4>3 DEF RecordOK, Alive, Up
      <3> QED BY <3>1, <3>2
    <2>5. ASSUME NEW t \in Services PROVE ServiceOK(t)'
      <3>1. CASE t = s
        BY <2>0, <3>1
      <3>2. CASE t # s
        <4>1. svc'[t] = svc[t] /\ ctr'[t] = ctr[t] /\ svc[t] # u /\ ServiceOK(t)
          BY <1>2, <2>0, <3>2 DEF Apart, SInv
        <4>2. svc[t] # None => \A x \in Services : svc'[x] = svc'[t] => x = t
          BY <2>0, <4>1, Facts DEF Apart, ServiceOK
        <4>3. svc[t] # None => svc[t] \in UUIDs \ {u}
          BY <2>0, <4>1, TypeFacts
        <4>4. svc[t] # None => attr'[svc[t]] = attr[svc[t]] /\ members'[svc[t]] = members[svc[t]]
          BY <2>0, <4>3 DEF Apart
        <4> QED BY <4>1, <4>2, <4>4 DEF ServiceOK, Up
      <3> QED BY <3>1, <3>2
    <2> QED BY <2>2, <2>3, <2>4, <2>5 DEF SInv
  <1> QED BY <1>1, <1>2 DEF IInv

(* A step that reads, or writes what SInv does not depend on. *)
LEMMA ReadStep ==
  ASSUME IInv, NEW h \in Handlers, req[h].pc # "idle",
         NEW r \in Requests, Become(h, r), SameOrDone(r, req[h]), FlowOK(r),
         dev' \in [Devices -> Services \cup {None}],
         UNCHANGED <<svc, attr, res, members, ctr, goal, crashes>>, faults' \in 0..MaxFaults,
         SInv => RequestOK(r)
  PROVE  IInv'
  <1>1. TypeInv'
    <2>1. TypedDB
      BY TypeFacts DEF TypedDB, IInv
    <2> QED BY <2>1, TypedStep DEF IInv
  <1>2. ASSUME SInv PROVE SInv'
    <2>1. req'[h] = r /\ \A g \in Handlers : g # h => req'[g] = req[g]
      BY TypeFacts DEF Become, IInv
    <2>2. ASSUME NEW q, RequestOK(q) PROVE RequestOK(q)'
      BY <2>2 DEF RequestOK, Current, Adding, Removing, Alive, Up
    <2>3. ASSUME NEW g \in Handlers PROVE RequestOK(req[g])'
      <3>1. PICK q : q = req'[g] /\ RequestOK(q)
        BY <1>2, <2>1 DEF SInv
      <3> QED BY <2>2, <3>1
    <2>4. Alone'
      <3>1. r.pc # "idle" => r.s = req[h].s /\ r.op = req[h].op
        BY NoRequestFacts DEF SameOrDone, Continues
      <3>2. r.s = req[h].s \/ r.s = None
        BY NoRequestFacts DEF SameOrDone, Continues
      <3>3. \A g \in Handlers : req[g].pc # "idle" => req[g].s # None
        BY Facts DEF IInv, TypeInv, FlowOK, StepsOf
      <3> QED BY <1>2, <2>1, <3>1, <3>2, <3>3 DEF SInv, Alone
    <2>5. (\A u \in UUIDs : RecordOK(u))' /\ (\A s \in Services : ServiceOK(s))'
      BY <1>2 DEF SInv, RecordOK, ServiceOK, Alive, Up
    <2> QED BY <2>3, <2>4, <2>5 DEF SInv
  <1> QED BY <1>1, <1>2 DEF IInv

LEMMA ReturnStep ==
  ASSUME IInv, NEW h \in Handlers, req[h].pc # "idle", Return(h),
         dev' \in [Devices -> Services \cup {None}],
         UNCHANGED <<svc, attr, res, members, ctr, goal, crashes>>, faults' \in 0..MaxFaults
  PROVE  IInv'
  BY ReadStep, ReturnOK, DoneOK DEF Return, SameOrDone

(* What the steps cite. *)
LEMMA StateFacts ==
  ASSUME IInv
  PROVE  /\ dev \in [Devices -> Services \cup {None}] /\ svc \in [Services -> UUIDs \cup {None}]
         /\ attr \in [UUIDs -> Attrs \cup {None}]
         /\ res \in [UUIDs -> SUBSET MemberIds] /\ members \in [UUIDs -> SUBSET MemberIds]
         /\ \A u \in UUIDs : IsFiniteSet(members[u])
         /\ ctr \in [Services -> Deployments \cup {None}]
         /\ req \in [Handlers -> Requests]
         /\ faults \in 0..MaxFaults /\ crashes \in 0..MaxCrashes
  BY DEF IInv, TypeInv, TypeOK

LEMMA HandlerFacts ==
  ASSUME IInv, NEW h \in Handlers, req[h].pc # "idle"
  PROVE  /\ req[h] \in Requests /\ req[h].s \in Services /\ req[h].op \in Ops /\ req[h].op \in AllOps
         /\ req[h].s # None /\ req[h].size \in Targets
         /\ FlowOK(req[h]) /\ (SInv => RequestOK(req[h]))
  BY StateFacts, Facts, LifecycleAssumption DEF IInv, TypeInv, SInv, FlowOK, StepsOf, Requests

LEMMA StartingOK ==
  ASSUME NEW r, r.pc \in Starting \cup {"uuid"}, r.u = None, r.rec = None
  PROVE  RequestOK(r)
  BY DEF RequestOK, Current, Adding, Removing, Starting, Deletion

-----------------------------------------------------------------------------
(* CreateService: devices *)

LEMMA AssignedOK ==
  ASSUME IInv, NEW h \in Handlers, req[h].pc \in {"listDev", "putDev"}, NEW d \in Devices, Assigned(h, d)
  PROVE  \E r \in Requests : /\ Become(h, r) /\ SameOrDone(r, req[h]) /\ FlowOK(r) /\ RequestOK(r)
  <1>1. /\ req[h] \in Requests /\ FlowOK(req[h]) /\ req[h].u = None /\ req[h].rec = None
        /\ req[h].op = "create" /\ req[h].s \in Services /\ req[h].size = Replicas
        /\ 0 \in 0..MaxDeviceRetry
    BY HandlerFacts, LifecycleAssumption DEF FlowOK, StepsOf, HasWhatItNeeds, Starting
  <1> DEFINE step == IF HasJournal THEN "listDev" ELSE "putSvc"
             p == [req[h] EXCEPT !.primary = d, !.d = None, !.tries = 0, !.pc = step]
             j == [req[h] EXCEPT !.journal = d, !.d = None, !.tries = 0, !.pc = "putSvc"]
  <1>2. step \in {"listDev", "putSvc"} /\ step \in Steps
    BY DEF Steps
  <1> HIDE DEF step
  <1>3. /\ p \in Requests /\ Continues(p, req[h]) /\ p.pc = step /\ p.primary = d
        /\ p.u = None /\ p.rec = None
    BY <1>1, <1>2 DEF Requests, Continues
  <1>4. /\ j \in Requests /\ Continues(j, req[h]) /\ j.pc = "putSvc" /\ j.primary = req[h].primary
        /\ j.u = None /\ j.rec = None
    BY <1>1 DEF Requests, Continues, Steps
  <1>5. (req[h].primary = None /\ Become(h, p)) \/ (req[h].primary # None /\ Become(h, j))
    BY DEF Assigned, step
  <1> HIDE DEF p, j
  <1>6. ASSUME NEW r \in Requests, Continues(r, req[h]), r.pc \in {"listDev", "putSvc"},
               r.primary # None, r.u = None, r.rec = None
        PROVE  SameOrDone(r, req[h]) /\ FlowOK(r) /\ RequestOK(r)
    BY <1>1, <1>6, StartingOK DEF Continues, SameOrDone, FlowOK, StepsOf, HasWhatItNeeds, Starting,
                                  Reading, Deletion, AllOps
  <1>7. d # None
    BY Facts
  <1> QED BY <1>2, <1>3, <1>4, <1>5, <1>6, <1>7

LEMMA AssignDeviceNameLemma ==
  ASSUME IInv, NEW h \in Handlers, AssignDeviceName(h)
  PROVE  IInv'
  <1>0. /\ req[h].pc = "listDev" /\ UNCHANGED <<dbVars, ctr, goal, budget>>
        /\ dev' \in [Devices -> Services \cup {None}] /\ faults' \in 0..MaxFaults
    BY StateFacts DEF AssignDeviceName, At, dbVars, budget
  <1>1. CASE OwnDevices(h) # {} /\ Assigned(h, Min(OwnDevices(h)))
    <2>1. OwnDevices(h) \subseteq Devices /\ Devices \subseteq Nat
      BY LifecycleAssumption DEF OwnDevices, Devices
    <2>2. Min(OwnDevices(h)) \in Devices
      BY <1>1, <2>1, MinFacts
    <2>3. PICK r \in Requests : /\ Become(h, r) /\ SameOrDone(r, req[h]) /\ FlowOK(r) /\ RequestOK(r)
      BY <1>0, <1>1, <2>2, AssignedOK
    <2> QED BY <1>0, <2>3, ReadStep DEF dbVars, budget
  <1>2. CASE NextDevice(h) \in Devices /\ Become(h, [req[h] EXCEPT !.d = NextDevice(h), !.pc = "putDev"])
    <2>1. PICK d \in Devices : d = NextDevice(h)
      BY <1>2
    <2> DEFINE r == [req[h] EXCEPT !.d = d, !.pc = "putDev"]
    <2>2. /\ req[h] \in Requests /\ FlowOK(req[h]) /\ req[h].u = None /\ req[h].rec = None
          /\ req[h].op = "create" /\ req[h].s \in Services /\ req[h].size = Replicas
      BY <1>0, HandlerFacts DEF FlowOK, StepsOf, HasWhatItNeeds, Starting
    <2>3. /\ r \in Requests /\ Continues(r, req[h]) /\ r.pc = "putDev" /\ r.u = None /\ r.rec = None
          /\ r.d = d /\ Become(h, r)
      BY <1>2, <2>1, <2>2 DEF Requests, Continues, Steps
    <2> HIDE DEF r
    <2>4. SameOrDone(r, req[h]) /\ FlowOK(r) /\ RequestOK(r)
      BY <1>0, <2>2, <2>3, StartingOK, Facts DEF Continues, SameOrDone, FlowOK, StepsOf, HasWhatItNeeds,
                                 Starting, Reading, Deletion, AllOps
    <2> QED BY <1>0, <2>3, <2>4, ReadStep DEF dbVars, budget
  <1>3. CASE Return(h)
    BY <1>0, <1>3, ReturnStep DEF dbVars, budget
  <1> QED BY <1>1, <1>2, <1>3 DEF AssignDeviceName

LEMMA CreateDeviceLemma ==
  ASSUME IInv, NEW h \in Handlers, CreateDevice(h)
  PROVE  IInv'
  <1>0. /\ req[h].pc = "putDev" /\ UNCHANGED <<svc, attr, res, members, ctr, goal, budget>>
        /\ faults' \in 0..MaxFaults
    BY StateFacts DEF CreateDevice, At, budget
  <1>1. /\ req[h] \in Requests /\ FlowOK(req[h]) /\ req[h].u = None /\ req[h].rec = None
        /\ req[h].op = "create" /\ req[h].s \in Services /\ req[h].size = Replicas
        /\ req[h].d \in Devices
    BY <1>0, HandlerFacts DEF FlowOK, StepsOf, HasWhatItNeeds, Starting, Requests
  <1>2. dev' \in [Devices -> Services \cup {None}]
    BY <1>1, StateFacts DEF CreateDevice
  <1>3. CASE Assigned(h, req[h].d)
    <2>1. PICK r \in Requests : /\ Become(h, r) /\ SameOrDone(r, req[h]) /\ FlowOK(r) /\ RequestOK(r)
      BY <1>0, <1>1, <1>3, AssignedOK
    <2> QED BY <1>0, <1>2, <2>1, ReadStep DEF budget
  <1>4. CASE /\ req[h].tries + 1 < MaxDeviceRetry
             /\ Become(h, [req[h] EXCEPT !.d = None, !.tries = @ + 1, !.pc = "listDev"])
    <2> DEFINE n == req[h].tries + 1
               r == [req[h] EXCEPT !.d = None, !.tries = n, !.pc = "listDev"]
    <2>1. n \in 0..MaxDeviceRetry
      BY <1>1, <1>4, LifecycleAssumption DEF Requests
    <2> HIDE DEF n
    <2>2. /\ r \in Requests /\ Continues(r, req[h]) /\ r.pc = "listDev" /\ r.u = None /\ r.rec = None
      BY <1>1, <2>1 DEF Requests, Continues, Steps
    <2>3. Become(h, r)
      BY <1>4 DEF n
    <2> HIDE DEF r
    <2>4. SameOrDone(r, req[h]) /\ FlowOK(r) /\ RequestOK(r)
      BY <1>0, <1>1, <2>2, StartingOK DEF Continues, SameOrDone, FlowOK, StepsOf, HasWhatItNeeds,
                                 Starting, Reading, Deletion, AllOps
    <2> QED BY <1>0, <1>2, <2>2, <2>3, <2>4, ReadStep DEF budget
  <1>5. CASE Return(h)
    BY <1>0, <1>2, <1>5, ReturnStep DEF budget
  <1> QED BY <1>3, <1>4, <1>5 DEF CreateDevice

-----------------------------------------------------------------------------
(* CreateService: records *)

Found(q, u) == [q EXCEPT !.u = u, !.pc = "putAttr"]

LEMMA PutAttrOK ==
  ASSUME IInv, NEW h \in Handlers, req[h].pc \in {"putSvc", "getSvc"}, NEW u \in UUIDs,
         NEW r, r = Found(req[h], u)
  PROVE  /\ r \in Requests /\ SameOrDone(r, req[h]) /\ FlowOK(r)
         /\ r.pc = "putAttr" /\ r.u = u /\ r.rec = None /\ r.s = req[h].s
  <1>1. /\ req[h] \in Requests /\ FlowOK(req[h]) /\ req[h].rec = None /\ req[h].primary # None
        /\ req[h].op = "create" /\ req[h].s \in Services /\ req[h].size = Replicas
    BY HandlerFacts DEF FlowOK, StepsOf, HasWhatItNeeds, Starting
  <1>2. "putAttr" \in Steps
    BY DEF Steps
  <1>3. /\ r \in Requests /\ Continues(r, req[h]) /\ r.pc = "putAttr" /\ r.u = u
        /\ r.rec = req[h].rec /\ r.primary = req[h].primary
    BY <1>1, <1>2 DEF Requests, Continues, Found
  <1>4. u # None
    BY Facts
  <1>5. FlowOK(r)
    BY <1>1, <1>3, <1>4 DEF Continues, FlowOK, StepsOf, HasWhatItNeeds, Starting, Reading, Deletion, AllOps
  <1> QED BY <1>1, <1>3, <1>5 DEF SameOrDone, Continues

LEMMA CreateServiceItemLemma ==
  ASSUME IInv, NEW h \in Handlers, CreateServiceItem(h)
  PROVE  IInv'
  <1>0. /\ req[h].pc = "putSvc" /\ UNCHANGED <<dev, attr, res, members, ctr, goal, budget>>
        /\ faults' \in 0..MaxFaults
    BY StateFacts DEF CreateServiceItem, At, budget
  <1>1. PICK s \in Services : s = req[h].s
    BY <1>0, HandlerFacts
  <1>2. /\ req[h] \in Requests /\ FlowOK(req[h]) /\ req[h].u = None /\ req[h].rec = None
        /\ req[h].op = "create" /\ req[h].size = Replicas /\ req[h].primary # None
    BY <1>0, HandlerFacts DEF FlowOK, StepsOf, HasWhatItNeeds, Starting
  <1>3. CASE Goto(h, "getSvc") /\ UNCHANGED svc
    <2> DEFINE r == [req[h] EXCEPT !.pc = "getSvc"]
    <2>0. "getSvc" \in Steps
      BY DEF Steps
    <2>1. /\ r \in Requests /\ Continues(r, req[h]) /\ r.pc = "getSvc" /\ r.u = None /\ r.rec = None
          /\ r.primary = req[h].primary /\ Become(h, r)
      BY <1>2, <1>3, <2>0, StepRequest DEF Goto
    <2> HIDE DEF r
    <2>2. SameOrDone(r, req[h]) /\ FlowOK(r) /\ RequestOK(r)
      BY <1>0, <1>1, <1>2, <2>1, StartingOK DEF Continues, SameOrDone, FlowOK, StepsOf, HasWhatItNeeds,
                                 Starting, Reading, Deletion, AllOps
    <2> QED BY <1>0, <1>3, <2>1, <2>2, ReadStep, StateFacts DEF budget
  <1>4. CASE svc[s] = None /\ \E u \in FreshUUIDs :
               /\ svc' = [svc EXCEPT ![s] = u]
               /\ Become(h, [req[h] EXCEPT !.u = u, !.pc = "putAttr"])
    <2>1. PICK u \in UUIDs : /\ svc' = [svc EXCEPT ![s] = u]
                             /\ Become(h, [req[h] EXCEPT !.u = u, !.pc = "putAttr"])
                             /\ attr[u] = None /\ members[u] = {} /\ \A t \in Services : svc[t] # u
      BY <1>4 DEF FreshUUIDs
    <2>2. PICK r \in Requests : /\ Become(h, r) /\ SameOrDone(r, req[h]) /\ FlowOK(r)
                                /\ r.pc = "putAttr" /\ r.u = u /\ r.rec = None /\ r.s = s
      <3>1. PICK r : r = Found(req[h], u) /\ Become(h, r)
        BY <2>1 DEF Found
      <3>2. req[h].pc \in {"putSvc", "getSvc"}
        BY <1>0
      <3> QED BY <1>1, <3>1, <3>2, PutAttrOK
    <2>3. svc' \in [Services -> UUIDs \cup {None}] /\ svc'[s] = u
          /\ \A t \in Services : t # s => svc'[t] = svc[t]
      BY <2>1, StateFacts
    <2>4. TypedDB
      BY <1>0, <2>3, StateFacts DEF TypedDB
    <2>5. ASSUME SInv
          PROVE  /\ Apart(s, u) /\ Grows(s, u)
                 /\ RecordOK(u)' /\ ServiceOK(s)' /\ RequestOK(r)'
      <3>1. Apart(s, u) /\ Grows(s, u)
        BY <1>0, <1>4, <2>1, <2>3 DEF Apart, Grows
      <3>2. RecordOK(u)'
        BY <1>0, <2>1, <2>5 DEF SInv, RecordOK, Alive, Up
      <3>3. ServiceOK(s)'
        <4>1. ctr'[s] = None
          BY <1>0, <1>4, <2>5 DEF SInv, ServiceOK
        <4> QED BY <2>1, <2>3, <4>1 DEF ServiceOK
      <3>4. RequestOK(r)'
        BY <2>2, <2>3 DEF RequestOK, Current, Adding, Removing, Deletion
      <3> QED BY <3>1, <3>2, <3>3, <3>4
    <2> QED BY <1>0, <1>1, <2>2, <2>4, <2>5, WriteStep DEF budget
  <1> QED BY <1>1, <1>3, <1>4 DEF CreateServiceItem

LEMMA GetServiceItemLemma ==
  ASSUME IInv, NEW h \in Handlers, GetServiceItem(h)
  PROVE  IInv'
  <1>0. /\ req[h].pc = "getSvc" /\ UNCHANGED <<dbVars, ctr, goal, budget>>
        /\ dev' \in [Devices -> Services \cup {None}] /\ faults' \in 0..MaxFaults
    BY StateFacts DEF GetServiceItem, At, dbVars, budget
  <1>1. PICK s \in Services : s = req[h].s
    BY <1>0, HandlerFacts
  <1>2. CASE svc[s] # None /\ Become(h, [req[h] EXCEPT !.u = svc[s], !.pc = "putAttr"])
    <2>1. PICK u \in UUIDs : u = svc[s] /\ Become(h, [req[h] EXCEPT !.u = u, !.pc = "putAttr"])
      BY <1>2, StateFacts
    <2>2. PICK r \in Requests : /\ Become(h, r) /\ SameOrDone(r, req[h]) /\ FlowOK(r)
                                /\ r.pc = "putAttr" /\ r.u = u /\ r.rec = None /\ r.s = s
      <3>1. req[h].pc \in {"putSvc", "getSvc"}
        BY <1>0
      <3>2. PICK r : r = Found(req[h], u) /\ Become(h, r)
        BY <2>1 DEF Found
      <3> QED BY <1>1, <3>1, <3>2, PutAttrOK
    <2>3. RequestOK(r)
      BY <2>1, <2>2 DEF RequestOK, Current, Adding, Removing, Deletion
    <2> QED BY <1>0, <2>2, <2>3, ReadStep DEF dbVars, budget
  <1>3. CASE Return(h)
    BY <1>0, <1>3, ReturnStep DEF dbVars, budget
  <1> QED BY <1>1, <1>2, <1>3 DEF GetServiceItem

LEMMA NewAttrOK ==
  ASSUME IInv, NEW h \in Handlers, req[h].pc \in {"putAttr", "getAttr"}
  PROVE  /\ NewAttr(h) \in Attrs /\ NewAttr(h).name = req[h].s /\ NewAttr(h).status = "CREATING"
         /\ NewAttr(h).replicas = Replicas
  <1>1. /\ req[h].s \in Services /\ req[h].primary \in Devices /\ req[h].journal \in Devices \cup {None}
    BY HandlerFacts DEF FlowOK, HasWhatItNeeds, Requests
  <1> QED BY <1>1, Facts DEF NewAttr, Attrs, Statuses

LEMMA CreateServiceAttrLemma ==
  ASSUME IInv, NEW h \in Handlers, CreateServiceAttr(h)
  PROVE  IInv'
  <1>0. /\ req[h].pc = "putAttr" /\ UNCHANGED <<dev, svc, res, members, ctr, goal, budget>>
        /\ faults' \in 0..MaxFaults
    BY StateFacts DEF CreateServiceAttr, At, budget
  <1>1. PICK s \in Services : s = req[h].s
    BY <1>0, HandlerFacts
  <1>2. PICK u \in UUIDs : u = req[h].u
    BY <1>0, HandlerFacts DEF FlowOK, HasWhatItNeeds, Starting, Requests
  <1>3. /\ req[h] \in Requests /\ FlowOK(req[h]) /\ req[h].size = Replicas
        /\ req[h].op = "create" /\ req[h].primary # None /\ u # None
        /\ (SInv => RequestOK(req[h]))
    BY <1>0, <1>2, HandlerFacts, Facts DEF FlowOK, StepsOf, HasWhatItNeeds
  <1>4. CASE Goto(h, "getAttr") /\ UNCHANGED attr
    <2> DEFINE r == [req[h] EXCEPT !.pc = "getAttr"]
    <2>0. "getAttr" \in Steps
      BY DEF Steps
    <2>1. /\ r \in Requests /\ Continues(r, req[h]) /\ r.pc = "getAttr" /\ r.u = u /\ r.rec = req[h].rec
          /\ r.primary = req[h].primary /\ Become(h, r)
      BY <1>2, <1>3, <1>4, <2>0, StepRequest DEF Goto
    <2> HIDE DEF r
    <2>2. SameOrDone(r, req[h]) /\ FlowOK(r)
      BY <1>0, <1>1, <1>3, <2>1 DEF Continues, SameOrDone, FlowOK, StepsOf, HasWhatItNeeds,
                                 Starting, Reading, Deletion, AllOps
    <2>3. SInv => RequestOK(r)
      BY <1>0, <1>2, <1>3, <2>1 DEF Continues, RequestOK, Current, Adding, Removing, Deletion
    <2> QED BY <1>0, <1>4, <2>1, <2>2, <2>3, ReadStep, StateFacts DEF budget
  <1>5. CASE /\ attr[u] = None /\ attr' = [attr EXCEPT ![u] = NewAttr(h)]
             /\ Become(h, [req[h] EXCEPT !.rec = NewAttr(h), !.pc = "members"])
    <2>1. PICK a \in Attrs : a = NewAttr(h)
      BY <1>0, NewAttrOK
    <2>2. a.name = s /\ a.status = "CREATING" /\ a.replicas = Replicas
      BY <1>0, <1>1, <2>1, NewAttrOK
    <2>3. PICK r \in Requests : /\ Continues(r, req[h]) /\ r.pc = "members" /\ r.u = u
                                /\ r.rec = a /\ Become(h, r)
      <3> DEFINE r == [req[h] EXCEPT !.rec = a, !.pc = "members"]
      <3>1. "members" \in Steps
        BY DEF Steps
      <3>2. /\ r \in Requests /\ Continues(r, req[h]) /\ r.pc = "members" /\ r.u = u
            /\ r.rec = a /\ Become(h, r)
        BY <1>2, <1>3, <1>5, <2>1, <3>1 DEF Requests, Continues
      <3> QED BY <3>2
    <2>4. a # None
      BY Facts
    <2>5. SameOrDone(r, req[h]) /\ FlowOK(r)
      BY <1>0, <1>1, <1>3, <2>2, <2>3, <2>4 DEF Continues, SameOrDone, FlowOK, StepsOf, HasWhatItNeeds,
                                 Starting, Reading, Deletion, AllOps
    <2>6. attr' \in [UUIDs -> Attrs \cup {None}] /\ attr'[u] = a /\ \A v \in UUIDs : v # u => attr'[v] = attr[v]
      BY <1>5, <2>1, StateFacts
    <2>7. TypedDB
      BY <1>0, <2>6, StateFacts DEF TypedDB
    <2>8. ASSUME SInv
          PROVE  /\ Apart(s, u) /\ Grows(s, u)
                 /\ RecordOK(u)' /\ ServiceOK(s)' /\ RequestOK(r)'
      <3>1. svc[s] = u /\ \A t \in Services \ {s} : svc[t] # u
        BY <1>1, <1>2, <1>3, <2>8 DEF RequestOK, Current, SInv, ServiceOK
      <3>2. Apart(s, u) /\ Grows(s, u)
        BY <1>0, <1>5, <2>6, <3>1 DEF Apart, Grows
      <3>3. members[u] = {} /\ members'[u] = {}
        BY <1>0, <1>5, <2>8 DEF SInv, RecordOK
      <3>4. RecordOK(u)'
        <4>1. Replicas <= a.replicas
          BY <2>2, Facts
        <4> QED BY <1>0, <2>2, <2>4, <2>6, <3>1, <3>3, <4>1 DEF RecordOK, Alive, Up, Segment
      <3>5. ServiceOK(s)'
        <4>1. ctr[s] = None
          BY <1>5, <2>8, <3>1 DEF SInv, ServiceOK, Up
        <4> QED BY <1>0, <3>1, <4>1 DEF ServiceOK
      <3>6. RequestOK(r)'
        <4>1. a.rev <= a.rev /\ a.replicas <= a.replicas
          BY Facts DEF Attrs
        <4>2. r.s = s /\ r.pc = "members" /\ r.u = u /\ r.rec = a /\ r.op = "create"
          BY <1>1, <1>3, <2>3 DEF Continues
        <4>3. Current(r)'
          BY <1>0, <2>4, <2>6, <3>1, <4>1, <4>2 DEF Current
        <4> QED BY <4>2, <4>3 DEF RequestOK, Adding, Removing, Deletion
      <3> QED BY <3>2, <3>4, <3>5, <3>6
    <2> QED BY <1>0, <1>1, <2>3, <2>5, <2>7, <2>8, WriteStep DEF budget
  <1> QED BY <1>2, <1>4, <1>5 DEF CreateServiceAttr

(* A creation that is repeated goes on from the record it finds. *)
LEMMA CheckServiceAttrLemma ==
  ASSUME IInv, NEW h \in Handlers, CheckServiceAttr(h)
  PROVE  IInv'
  <1>0. /\ req[h].pc = "getAttr" /\ UNCHANGED <<dbVars, ctr, goal, budget>>
        /\ dev' \in [Devices -> Services \cup {None}] /\ faults' \in 0..MaxFaults
    BY StateFacts DEF CheckServiceAttr, At, dbVars, budget
  <1>1. PICK u \in UUIDs : u = req[h].u
    BY <1>0, HandlerFacts DEF FlowOK, HasWhatItNeeds, Starting, Requests
  <1>b. /\ req[h] \in Requests /\ FlowOK(req[h]) /\ req[h].s \in Services
        /\ (SInv => RequestOK(req[h]))
    BY <1>0, HandlerFacts
  <1>2. /\ req[h] \in Requests /\ FlowOK(req[h]) /\ req[h].s \in Services
        /\ (SInv => RequestOK(req[h])) /\ req[h].op = "create" /\ req[h].size = Replicas
    BY <1>0, <1>b DEF FlowOK, StepsOf, HasWhatItNeeds, Reading
  <1>a. u # None
    BY Facts
  <1>3. attr[u] \in Attrs \cup {None}
    BY StateFacts
  <1>4. CASE /\ attr[u] # None /\ EqualServiceAttr(attr[u], NewAttr(h)) /\ attr[u].status = "CREATING"
             /\ Become(h, [req[h] EXCEPT !.rec = attr[u], !.pc = "members"])
    <2>1. PICK a \in Attrs : a = attr[u] /\ a # None
      BY <1>3, <1>4
    <2>2. a.status = "CREATING" /\ a.replicas = Replicas
      <3>1. NewAttr(h) \in Attrs /\ NewAttr(h).replicas = Replicas
        BY <1>0, NewAttrOK
      <3>2. \A b \in Attrs : a = [b EXCEPT !.status = a.status, !.rev = a.rev] => a.replicas = b.replicas
        BY DEF Attrs
      <3> QED BY <1>4, <2>1, <3>1, <3>2 DEF EqualServiceAttr
    <2>3. PICK r \in Requests : /\ Continues(r, req[h]) /\ r.pc = "members" /\ r.u = u
                                /\ r.rec = a /\ Become(h, r)
      <3> DEFINE r == [req[h] EXCEPT !.rec = a, !.pc = "members"]
      <3>1. "members" \in Steps
        BY DEF Steps
      <3>2. /\ r \in Requests /\ Continues(r, req[h]) /\ r.pc = "members" /\ r.u = u
            /\ r.rec = a
        BY <1>1, <1>2, <2>1, <3>1 DEF Requests, Continues
      <3>3. Become(h, r)
        BY <1>4, <2>1
      <3> QED BY <3>2, <3>3
    <2>4. SameOrDone(r, req[h]) /\ FlowOK(r)
      BY <1>0, <1>1, <1>2, <1>a, <2>1, <2>2, <2>3 DEF Continues, SameOrDone, FlowOK, StepsOf, HasWhatItNeeds,
                                 Starting, Reading, Deletion, AllOps
    <2>5. SInv => RequestOK(r)
      <3>1. a.rev <= a.rev /\ a.replicas <= a.replicas
        BY Facts DEF Attrs
      <3> QED BY <1>0, <1>1, <1>2, <2>1, <2>3, <3>1 DEF Continues, RequestOK, Current, Adding, Removing, Deletion
    <2> QED BY <1>0, <2>3, <2>4, <2>5, ReadStep DEF dbVars, budget
  <1>5. CASE attr[u] # None /\ attr[u].status \in {"INITIALIZING", "ACTIVE"} /\ Goto(h, "ctrExist")
    <2>1. PICK r \in Requests : /\ Continues(r, req[h]) /\ r.pc = "ctrExist" /\ r.u = u
                                /\ r.rec = req[h].rec /\ Become(h, r)
      <3>1. "ctrExist" \in Steps
        BY DEF Steps
      <3> QED BY <1>1, <1>2, <1>5, <3>1, StepRequest DEF Goto
    <2>2. SameOrDone(r, req[h]) /\ FlowOK(r)
      BY <1>0, <1>1, <1>2, <1>a, <2>1 DEF Continues, SameOrDone, FlowOK, StepsOf, HasWhatItNeeds,
                                 Starting, Reading, Deletion, AllOps
    <2>3. SInv => RequestOK(r)
      BY <1>0, <1>1, <1>2, <1>5, <2>1 DEF Continues, RequestOK, Current, Adding, Removing, Deletion, Up
    <2> QED BY <1>0, <2>1, <2>2, <2>3, ReadStep DEF dbVars, budget
  <1>6. CASE Return(h)
    BY <1>0, <1>6, ReturnStep DEF dbVars, budget
  <1> QED BY <1>1, <1>4, <1>5, <1>6 DEF CheckServiceAttr

-----------------------------------------------------------------------------
(* Members *)

LEMMA TodoLeftOK ==
  ASSUME IInv, NEW h \in Handlers, req[h].pc \in {"members", "member"},
         NEW todo \in SUBSET MemberIds, todo \subseteq 1..req[h].size, TodoLeft(h, todo)
  PROVE  \E r \in Requests : /\ Become(h, r) /\ Continues(r, req[h]) /\ FlowOK(r)
                             /\ r.todo = todo /\ r.u = req[h].u /\ r.rec = req[h].rec
                             /\ todo = {} => r.pc \in {"status", "ctrScale"}
                             /\ todo # {} => r.pc = "resources"
  <1>1. /\ req[h] \in Requests /\ FlowOK(req[h]) /\ req[h].s \in Services
        /\ req[h].op \in {"create", "scale"}
    BY HandlerFacts DEF FlowOK, StepsOf
  <1> DEFINE step == IF todo = {} THEN MembersDone(req[h].op) ELSE "resources"
             r == [req[h] EXCEPT !.todo = todo, !.pc = step]
  <1>2. /\ step \in Steps /\ (todo # {} => step = "resources")
        /\ todo = {} => step = IF req[h].op = "create" THEN "status" ELSE "ctrScale"
    BY DEF Steps, MembersDone
  <1>3. Become(h, r)
    BY DEF TodoLeft
  <1> HIDE DEF step
  <1>4. /\ r \in Requests /\ Continues(r, req[h]) /\ r.pc = step /\ r.u = req[h].u /\ r.rec = req[h].rec
        /\ r.todo = todo
    BY <1>1, <1>2 DEF Requests, Continues
  <1> HIDE DEF r
  <1>5. FlowOK(r)
    BY <1>1, <1>2, <1>4 DEF Continues, FlowOK, StepsOf, HasWhatItNeeds, Starting, Reading, Deletion, AllOps
  <1> QED BY <1>2, <1>3, <1>4, <1>5

(* A finite set of numbers has a largest: the one with the fewest above it. *)
LEMMA Largest ==
  ASSUME NEW S, S \subseteq Nat, S # {}, IsFiniteSet(S)
  PROVE  \E x \in S : \A y \in S : y <= x
  <1> DEFINE Above(x) == {y \in S : x < y}
             Tops == {Above(x) : x \in S}
  <1>1. Tops \subseteq FiniteSubsetsOf(S) /\ Tops # {}
    <2>1. \A x \in S : Above(x) \in SUBSET S /\ IsFiniteSet(Above(x))
      BY FS_Subset
    <2> QED BY <2>1 DEF FiniteSubsetsOf
  <1>2. PICK t \in Tops : \A u \in Tops : ~ (<<u, t>> \in StrictSubsetOrdering(S))
    BY <1>1, WFMin, FS_StrictSubsetOrderingWellFounded
  <1>3. PICK x \in S : t = Above(x)
    OBVIOUS
  <1>4. ASSUME NEW y \in S, x < y PROVE FALSE
    <2>1. x \in Nat /\ y \in Nat /\ ~(y < y) /\ \A z \in Nat : y < z => x < z
      BY <1>4
    <2>2. Above(y) \in SUBSET t /\ y \in t /\ y \notin Above(y) /\ t \in SUBSET S /\ Above(y) \in Tops
      BY <1>3, <1>4, <2>1
    <2> QED BY <1>2, <2>2 DEF StrictSubsetOrdering
  <1> QED BY <1>4

LEMMA SegmentCount ==
  ASSUME NEW S, S \subseteq Nat \ {0}, IsFiniteSet(S), Segment(S)
  PROVE  Cardinality(S) \in Nat /\ S = 1..Cardinality(S)
  <1>1. CASE S = {}
    BY <1>1, FS_EmptySet
  <1>2. CASE S # {}
    <2>1. PICK k \in S : \A j \in S : j <= k
      BY <1>2, Largest
    <2>2. k \in Nat /\ 1..k \subseteq S /\ S \subseteq 1..k
      BY <2>1 DEF Segment
    <2>3. Cardinality(1..k) = k
      BY <2>2, FS_Interval
    <2>4. S = 1..k
      BY <2>2
    <2> QED BY <2>2, <2>3, <2>4
  <1> QED BY <1>1, <1>2

LEMMA CountMembersLemma ==
  ASSUME IInv, NEW h \in Handlers, CountMembers(h)
  PROVE  IInv'
  <1> DEFINE todo == (Cardinality(members[req[h].u]) + 1)..req[h].size
  <1>0. /\ req[h].pc = "members" /\ UNCHANGED <<dbVars, ctr, goal, budget>> /\ TodoLeft(h, todo)
        /\ dev' \in [Devices -> Services \cup {None}] /\ faults' \in 0..MaxFaults
    BY StateFacts DEF CountMembers, At, dbVars, budget
  <1>1. PICK u \in UUIDs : u = req[h].u
    BY <1>0, HandlerFacts DEF FlowOK, HasWhatItNeeds, Starting, Requests
  <1>2. /\ FlowOK(req[h]) /\ req[h].size \in Targets /\ (SInv => RequestOK(req[h]))
    BY <1>0, HandlerFacts
  <1>3. /\ members[u] \subseteq Nat \ {0} /\ IsFiniteSet(members[u]) /\ req[h].size \in Nat
        /\ Cardinality(members[u]) \in Nat /\ 1..req[h].size \subseteq MemberIds
    BY <1>2, StateFacts, Facts, FS_CardinalityType
  <1>4. todo \in SUBSET MemberIds /\ todo \subseteq 1..req[h].size
    BY <1>1, <1>3
  <1>5. Segment(members[u]) => 1..req[h].size \subseteq members[u] \cup todo
    <2>1. Segment(members[u]) => members[u] = 1..Cardinality(members[u])
      BY <1>3, SegmentCount
    <2> QED BY <1>1, <1>3, <2>1
  <1> HIDE DEF todo
  <1>6. PICK r \in Requests : /\ Become(h, r) /\ Continues(r, req[h]) /\ FlowOK(r)
                              /\ r.todo = todo /\ r.u = u /\ r.rec = req[h].rec
                              /\ todo = {} => r.pc \in {"status", "ctrScale"}
                              /\ todo # {} => r.pc = "resources"
    BY <1>0, <1>1, <1>4, TodoLeftOK
  <1>7. ASSUME SInv PROVE RequestOK(r)
    <2>1. Current(r)
      BY <1>0, <1>1, <1>2, <1>6, <1>7 DEF RequestOK, Current, Continues
    <2>2. Alive(u) => 1..r.size \subseteq members[u] \cup r.todo
      BY <1>5, <1>6, <1>7 DEF SInv, RecordOK, Continues
    <2> QED BY <1>6, <2>1, <2>2 DEF RequestOK, Adding, Removing, Deletion
  <1> QED BY <1>0, <1>6, <1>7, ReadStep DEF dbVars, budget, SameOrDone

LEMMA OwnFacts ==
  ASSUME IInv, NEW h \in Handlers, req[h].pc \notin Starting \cup {"idle", "uuid"}
  PROVE  \E u \in UUIDs, s \in Services :
           /\ u = req[h].u /\ s = req[h].s /\ u # None
           /\ SInv => /\ svc[s] = u /\ \A t \in Services \ {s} : svc[t] # u
                      /\ RecordOK(u) /\ ServiceOK(s) /\ RequestOK(req[h])
  <1>1. PICK u \in UUIDs, s \in Services : u = req[h].u /\ s = req[h].s
    BY HandlerFacts DEF FlowOK, HasWhatItNeeds, Starting, Requests
  <1>2. u # None
    BY Facts
  <1>3. SInv => RecordOK(u) /\ ServiceOK(s) /\ RequestOK(req[h])
    BY HandlerFacts DEF SInv
  <1>4. SInv => svc[s] = u
    BY <1>1, <1>2, <1>3 DEF RequestOK, Current
  <1>5. SInv => \A t \in Services \ {s} : svc[t] # u
    BY <1>2, <1>3, <1>4 DEF ServiceOK
  <1> QED BY <1>1, <1>2, <1>3, <1>4, <1>5

LEMMA CreateMemberResourcesLemma ==
  ASSUME IInv, NEW h \in Handlers, CreateMemberResources(h)
  PROVE  IInv'
  <1>0. /\ req[h].pc = "resources" /\ UNCHANGED <<dev, svc, attr, members, ctr, goal, budget>>
        /\ faults' \in 0..MaxFaults
    BY StateFacts DEF CreateMemberResources, At, budget
  <1>1. PICK u \in UUIDs, s \in Services :
           /\ u = req[h].u /\ s = req[h].s /\ u # None
           /\ SInv => /\ svc[s] = u /\ \A t \in Services \ {s} : svc[t] # u
                      /\ RecordOK(u) /\ ServiceOK(s) /\ RequestOK(req[h])
    BY <1>0, OwnFacts DEF Starting
  <1>2. /\ req[h] \in Requests /\ FlowOK(req[h]) /\ req[h].op \in {"create", "scale"}
        /\ req[h].todo # {} /\ req[h].todo \subseteq MemberIds
    BY <1>0, HandlerFacts DEF FlowOK, StepsOf, HasWhatItNeeds, Requests
  <1>3. PICK m \in MemberIds : m = Min(req[h].todo)
    BY <1>2, Facts, MinFacts
  <1>4. res' = [res EXCEPT ![u] = @ \cup {m}]
    BY <1>1, <1>3 DEF CreateMemberResources
  <1>5. PICK r \in Requests : /\ Continues(r, req[h]) /\ r.pc = "member" /\ r.u = u
                              /\ r.rec = req[h].rec /\ r.todo = req[h].todo /\ Become(h, r)
    <2>1. "member" \in Steps
      BY DEF Steps
    <2> QED BY <1>1, <1>2, <2>1, StepRequest DEF Goto, CreateMemberResources
  <1>6. SameOrDone(r, req[h]) /\ FlowOK(r)
    BY <1>0, <1>1, <1>2, <1>5 DEF Continues, SameOrDone, FlowOK, StepsOf, HasWhatItNeeds,
                               Starting, Reading, Deletion, AllOps
  <1>7. /\ res' \in [UUIDs -> SUBSET MemberIds] /\ res'[u] = res[u] \cup {m}
        /\ \A v \in UUIDs : v # u => res'[v] = res[v]
    BY <1>4, StateFacts
  <1>8. TypedDB
    BY <1>0, <1>7, StateFacts DEF TypedDB
  <1>9. ASSUME SInv
        PROVE  /\ Apart(s, u) /\ Grows(s, u)
               /\ RecordOK(u)' /\ ServiceOK(s)' /\ RequestOK(r)'
    <2>1. Apart(s, u) /\ Grows(s, u)
      BY <1>0, <1>1, <1>7, <1>9 DEF Apart, Grows
    <2>2. RecordOK(u)'
      BY <1>0, <1>1, <1>7, <1>9 DEF RecordOK, Alive, Up
    <2>3. ServiceOK(s)'
      BY <1>0, <1>1, <1>9 DEF ServiceOK, Up
    <2>4. Current(r)'
      BY <1>0, <1>1, <1>5, <1>9 DEF RequestOK, Current, Continues
    <2>5. Adding(r)'
      BY <1>0, <1>1, <1>3, <1>5, <1>7, <1>9 DEF RequestOK, Adding, Continues, Alive
    <2> QED BY <1>5, <2>1, <2>2, <2>3, <2>4, <2>5 DEF RequestOK, Removing, Deletion
  <1> QED BY <1>0, <1>1, <1>5, <1>6, <1>8, <1>9, WriteStep DEF budget

LEMMA CreateServiceMemberLemma ==
  ASSUME IInv, NEW h \in Handlers, CreateServiceMember(h)
  PROVE  IInv'
  <1>0. /\ req[h].pc = "member" /\ UNCHANGED <<dev, svc, attr, res, ctr, goal, budget>>
        /\ faults' \in 0..MaxFaults
    BY StateFacts DEF CreateServiceMember, At, budget
  <1>1. PICK u \in UUIDs, s \in Services :
           /\ u = req[h].u /\ s = req[h].s /\ u # None
           /\ SInv => /\ svc[s] = u /\ \A t \in Services \ {s} : svc[t] # u
                      /\ RecordOK(u) /\ ServiceOK(s) /\ RequestOK(req[h])
    BY <1>0, OwnFacts DEF Starting
  <1>2. /\ req[h] \in Requests /\ FlowOK(req[h]) /\ req[h].op \in {"create", "scale"}
        /\ req[h].todo # {} /\ req[h].todo \subseteq MemberIds /\ req[h].size \in Nat
        /\ req[h].rec # None /\ req[h].todo \subseteq 1..req[h].size
    BY <1>0, HandlerFacts, Facts DEF FlowOK, StepsOf, HasWhatItNeeds, Requests, Starting, Reading
  <1>3. PICK m \in req[h].todo : m = Min(req[h].todo) /\ \A y \in req[h].todo : m <= y
    BY <1>2, Facts, MinFacts
  <1>4. CASE Return(h) /\ UNCHANGED members
    BY <1>0, <1>4, ReturnStep, StateFacts DEF budget
  <1>5. CASE /\ members' = [members EXCEPT ![u] = @ \cup {m}]
             /\ TodoLeft(h, req[h].todo \ {m})
    <2>1. PICK r \in Requests : /\ Become(h, r) /\ Continues(r, req[h]) /\ FlowOK(r)
                                /\ r.todo = req[h].todo \ {m} /\ r.u = u /\ r.rec = req[h].rec
                                /\ r.pc \in {"status", "ctrScale", "resources"}
                                /\ r.todo = {} => r.pc \in {"status", "ctrScale"}
                                /\ r.todo # {} => r.pc = "resources"
      BY <1>0, <1>1, <1>2, <1>5, TodoLeftOK
    <2>2. /\ members' \in [UUIDs -> SUBSET MemberIds] /\ members'[u] = members[u] \cup {m}
          /\ \A v \in UUIDs : v # u => members'[v] = members[v]
      BY <1>2, <1>5, StateFacts
    <2>3. TypedDB
      <3>1. \A v \in UUIDs : IsFiniteSet(members'[v])
        <4>1. \A v \in UUIDs : IsFiniteSet(members[v])
          BY StateFacts
        <4>2. IsFiniteSet(members[u] \cup {m})
          BY <4>1, FS_AddElement
        <4> QED BY <2>2, <4>1, <4>2
      <3> QED BY <1>0, <2>2, <3>1, StateFacts DEF TypedDB
    <2>4. ASSUME SInv
          PROVE  /\ Apart(s, u) /\ Grows(s, u)
                 /\ RecordOK(u)' /\ ServiceOK(s)' /\ RequestOK(r)'
      <3>0. /\ svc[s] = u /\ \A t \in Services \ {s} : svc[t] # u
            /\ RecordOK(u) /\ ServiceOK(s) /\ RequestOK(req[h]) /\ attr[u] # None
        BY <1>0, <1>1, <1>2, <2>4 DEF RequestOK, Current
      <3>1. Apart(s, u) /\ Grows(s, u)
        BY <1>0, <2>2, <3>0 DEF Apart, Grows
      <3>2. RecordOK(u)'
        <4>1. Alive(u) => /\ 1..req[h].size \subseteq members[u] \cup req[h].todo
                          /\ m \in res[u] /\ members[u] \subseteq res[u] /\ Segment(members[u])
          BY <1>0, <1>1, <1>3, <3>0 DEF RequestOK, Adding, RecordOK
        <4>2. Alive(u) => Segment(members[u] \cup {m})
          <5>1. m \in Nat /\ m <= req[h].size /\ \A y \in 1..m : y # m => y \notin req[h].todo
            BY <1>2, <1>3, Facts
          <5>2. Alive(u) => 1..m \subseteq members[u] \cup {m}
            BY <1>2, <4>1, <5>1
          <5> QED BY <4>1, <5>2 DEF Segment
        <4> QED BY <1>0, <2>2, <3>0, <4>1, <4>2 DEF RecordOK, Alive, Up
      <3>3. ServiceOK(s)'
        BY <1>0, <2>2, <3>0 DEF ServiceOK, Up
      <3>4. Current(r)'
        BY <1>0, <1>1, <2>1, <3>0 DEF RequestOK, Current, Continues
      <3>5. Adding(r)'
        BY <1>0, <1>1, <1>3, <2>1, <2>2, <3>0 DEF RequestOK, Adding, Continues, Alive
      <3> QED BY <2>1, <3>1, <3>2, <3>3, <3>4, <3>5 DEF RequestOK, Removing, Deletion
    <2> QED BY <1>0, <1>1, <2>1, <2>3, <2>4, WriteStep DEF budget, SameOrDone
  <1> QED BY <1>1, <1>3, <1>4, <1>5 DEF CreateServiceMember

-----------------------------------------------------------------------------
(* The conditional updates of the attr record *)

(* The record is still the one the request has read; the new one goes on    *)
(* from it, and one that is up has its members.                             *)
LEMMA AttrStep ==
  ASSUME IInv, NEW h \in Handlers, req[h].pc \notin Starting \cup Reading \cup {"idle", "uuid", "putAttr", "attr"},
         req[h].pc # "delSvc",
         NEW r \in Requests, Become(h, r), SameOrDone(r, req[h]), FlowOK(r),
         NEW new \in Attrs, UpdateServiceAttr(req[h].u, req[h].rec, new, TRUE),
         new.name = req[h].rec.name, req[h].rec.rev < new.rev, req[h].rec.replicas <= new.replicas,
         new.status # "DELETING" => req[h].rec.status # "DELETING",
         req[h].op # "delete" /\ req[h].rec.status \in {"INITIALIZING", "ACTIVE"}
           => new.status \in {"INITIALIZING", "ACTIVE"},
         SInv /\ attr[req[h].u] = req[h].rec /\ Alive(req[h].u)
           /\ new.status \in {"INITIALIZING", "ACTIVE"} => 1..new.replicas \subseteq members[req[h].u],
         r = NoRequest \/ /\ r.u = req[h].u /\ r.rec = req[h].rec
                          /\ \/ r.pc = "ctrExist" /\ new.status = "INITIALIZING"
                             \/ r.pc = "list" /\ req[h].pc = "mark" /\ new.status = "DELETING",
         req[h].op = "delete" => req[h].pc = "mark",
         UNCHANGED <<dev, svc, res, members, ctr, goal, budget>>
  PROVE  IInv'
  <1>1. PICK u \in UUIDs, s \in Services :
           /\ u = req[h].u /\ s = req[h].s /\ u # None
           /\ SInv => /\ svc[s] = u /\ \A t \in Services \ {s} : svc[t] # u
                      /\ RecordOK(u) /\ ServiceOK(s) /\ RequestOK(req[h])
    BY OwnFacts DEF Starting
  <1>2. PICK old \in Attrs : old = req[h].rec
    BY HandlerFacts DEF FlowOK, HasWhatItNeeds, Requests
  <1>3. /\ attr[u] # None /\ attr[u].rev = old.rev /\ attr' = [attr EXCEPT ![u] = new]
    BY <1>1, <1>2 DEF UpdateServiceAttr
  <1>4. attr' \in [UUIDs -> Attrs \cup {None}] /\ attr'[u] = new /\ \A v \in UUIDs : v # u => attr'[v] = attr[v]
    BY <1>3, StateFacts
  <1>5. TypedDB /\ faults' \in 0..MaxFaults
    BY <1>4, StateFacts DEF TypedDB, budget
  <1>6. new # None /\ old # None
    BY Facts
  <1>7. \A a \in Attrs : a.rev \in Nat /\ a.replicas \in Nat
    BY Facts DEF Attrs
  <1>8. ASSUME SInv
        PROVE  /\ Apart(s, u) /\ (req[h].op = "delete" \/ Grows(s, u))
               /\ RecordOK(u)' /\ ServiceOK(s)' /\ RequestOK(r)'
    <2>0. /\ svc[s] = u /\ \A t \in Services \ {s} : svc[t] # u
          /\ RecordOK(u) /\ ServiceOK(s) /\ RequestOK(req[h])
      BY <1>1, <1>8
    <2>1. attr[u] = old
      BY <1>1, <1>2, <1>3, <1>6, <2>0 DEF RequestOK, Current
    <2>2. Apart(s, u)
      BY <1>4, <2>0 DEF Apart
    <2>3. /\ Alive(u)' => Alive(u)
          /\ req[h].op # "delete" => (Up(u) => Up(u)')
      BY <1>2, <1>4, <1>6, <2>1 DEF Alive, Up
    <2>4. req[h].op # "delete" => Grows(s, u)
      BY <1>2, <1>4, <1>6, <2>1, <2>3 DEF Grows
    <2>5. RecordOK(u)'
      <3>1. svc'[new.name] = u /\ Replicas <= new.replicas
        <4>1. Replicas <= old.replicas /\ svc[old.name] = u
          BY <1>6, <2>0, <2>1 DEF RecordOK
        <4> QED BY <1>2, <1>7, <4>1, Facts
      <3>2. Alive(u)' => Segment(members'[u]) /\ members'[u] \subseteq res'[u]
        BY <2>0, <2>3 DEF RecordOK
      <3>3. Up(u)' => 1..new.replicas \subseteq members'[u]
        BY <1>1, <1>2, <1>4, <1>8, <2>1, <2>3 DEF Up, Alive
      <3> QED BY <1>4, <1>6, <3>1, <3>2, <3>3 DEF RecordOK
    <2>6. ServiceOK(s)'
      <3>1. req[h].op = "delete" => ctr[s] = None
        BY <1>1, <2>0 DEF RequestOK, Removing, Deletion
      <3> QED BY <2>0, <2>3, <3>1 DEF ServiceOK
    <2>7. RequestOK(r)'
      <3>1. CASE r = NoRequest
        BY <3>1, NoRequestFacts, Facts DEF RequestOK, Current, Adding, Removing, Deletion
      <3>2. CASE r # NoRequest
        <4>1. r.u = u /\ r.s = s /\ r.rec = old /\ r.op = req[h].op
          BY <1>1, <1>2, <3>2 DEF SameOrDone, Continues
        <4>2. Current(r)'
          <5>1. old.rev <= new.rev /\ old.rev # new.rev /\ old.replicas <= new.replicas
            BY <1>2, <1>7
          <5>2. r.pc \in {"ctrExist", "list"} /\ (r.pc = "ctrExist" => Up(u)')
            BY <1>4, <1>6, <3>2 DEF Up
          <5> QED BY <1>4, <1>6, <2>0, <4>1, <5>1, <5>2 DEF Current
        <4>3. Adding(r)' /\ Removing(r)'
          <5>1. CASE r.pc = "ctrExist"
            BY <5>1, <1>1, <2>0, <3>2, <4>1 DEF Adding, Removing, Deletion
          <5>2. CASE r.pc = "list"
            <6>1. ctr'[s] = None /\ attr'[u] # None /\ attr'[u].status = "DELETING"
              BY <1>1, <1>4, <1>6, <2>0, <3>2, <4>1, <5>2, HandlerFacts
                 DEF RequestOK, Removing, Deletion, FlowOK, StepsOf
            <6> QED BY <4>1, <5>2, <6>1 DEF Adding, Removing, Deletion
          <5> QED BY <3>2, <5>1, <5>2
        <4> QED BY <4>2, <4>3 DEF RequestOK
      <3> QED BY <3>1, <3>2
    <2> QED BY <2>2, <2>4, <2>5, <2>6, <2>7
  <1> QED BY <1>1, <1>5, <1>8, WriteStep DEF budget

LEMMA StatusOK ==
  ASSUME NEW a \in Attrs, NEW status \in Statuses
  PROVE  LET b == UpdateServiceStatus(a, status)
         IN  /\ b \in Attrs /\ b.status = status /\ b.name = a.name /\ b.replicas = a.replicas /\ a.rev < b.rev
             /\ b.primary = a.primary /\ b.journal = a.journal /\ b.resource = a.resource
  <1> DEFINE v == a.rev + 1
             b == [a EXCEPT !.status = status, !.rev = v]
  <1>1. v \in Nat /\ a.rev < v
    BY DEF Attrs
  <1>2. UpdateServiceStatus(a, status) = b
    BY DEF UpdateServiceStatus
  <1> HIDE DEF v
  <1>3. /\ b \in Attrs /\ b.status = status /\ b.name = a.name /\ b.replicas = a.replicas /\ b.rev = v
        /\ b.primary = a.primary /\ b.journal = a.journal /\ b.resource = a.resource
    BY <1>1 DEF Attrs
  <1> QED BY <1>1, <1>2, <1>3

LEMMA AttrNumbers ==
  ASSUME NEW a \in Attrs
  PROVE  a.rev \in Nat /\ a.replicas \in MemberIds /\ a.replicas \in Nat /\ a.replicas <= a.replicas
  <1>1. a.rev \in Nat /\ a.replicas \in MemberIds
    BY DEF Attrs
  <1>2. a.replicas \in Nat
    BY <1>1, Facts
  <1>3. \A n \in Nat : n <= n
    OBVIOUS
  <1> QED BY <1>1, <1>2, <1>3

(* An update that is too late changes nothing. *)
LEMMA LateUpdate ==
  ASSUME IInv, NEW h \in Handlers, req[h].pc # "idle", Return(h), attr' = attr,
         UNCHANGED <<dev, svc, res, members, ctr, goal, budget>>
  PROVE  IInv'
  BY ReturnStep, StateFacts DEF budget

LEMMA SetInitializingLemma ==
  ASSUME IInv, NEW h \in Handlers, SetInitializing(h)
  PROVE  IInv'
  <1> DEFINE b == UpdateServiceStatus(req[h].rec, "INITIALIZING")
  <1>0. /\ req[h].pc = "status" /\ UNCHANGED <<dev, svc, res, members, ctr, goal, budget>>
    BY DEF SetInitializing, At
  <1>1. /\ req[h] \in Requests /\ FlowOK(req[h]) /\ req[h].s \in Services /\ req[h].u \in UUIDs
        /\ req[h].op = "create" /\ req[h].rec \in Attrs /\ req[h].size = Replicas
        /\ req[h].rec.status = "CREATING" /\ req[h].rec.replicas = Replicas
        /\ (SInv => RequestOK(req[h]))
    BY <1>0, HandlerFacts DEF FlowOK, StepsOf, HasWhatItNeeds, Starting, Reading, Requests
  <1>2. CASE UpdateServiceAttr(req[h].u, req[h].rec, b, TRUE) /\ Goto(h, "ctrExist")
    <2>1. PICK r \in Requests : /\ Continues(r, req[h]) /\ r.pc = "ctrExist" /\ r.u = req[h].u
                                /\ r.rec = req[h].rec /\ Become(h, r)
      <3>1. "ctrExist" \in Steps
        BY DEF Steps
      <3> QED BY <1>1, <1>2, <3>1, StepRequest DEF Goto
    <2>2. SameOrDone(r, req[h]) /\ FlowOK(r)
      BY <1>0, <1>1, <2>1 DEF Continues, SameOrDone, FlowOK, StepsOf, HasWhatItNeeds,
                                 Starting, Reading, Deletion, AllOps
    <2>3. b \in Attrs /\ b.status = "INITIALIZING" /\ b.name = req[h].rec.name
          /\ b.replicas = req[h].rec.replicas /\ req[h].rec.rev < b.rev
      BY <1>1, StatusOK DEF Statuses
    <2>4. SInv /\ Alive(req[h].u) => 1..b.replicas \subseteq members[req[h].u]
      BY <1>0, <1>1, <2>3 DEF RequestOK, Adding
    <2>5. b.replicas <= b.replicas /\ req[h].rec.replicas <= b.replicas
      BY <1>1, <2>3, AttrNumbers
    <2> HIDE DEF b
    <2> QED BY <1>0, <1>1, <1>2, <2>1, <2>2, <2>3, <2>4, <2>5, AttrStep DEF Starting, Reading
  <1>3. CASE attr' = attr /\ Return(h)
    BY <1>0, <1>3, LateUpdate
  <1> QED BY <1>2, <1>3 DEF SetInitializing, UpdateServiceAttr

LEMMA SetActiveLemma ==
  ASSUME IInv, NEW h \in Handlers, SetActive(h)
  PROVE  IInv'
  <1> DEFINE b == UpdateServiceStatus(req[h].rec, "ACTIVE")
  <1>0. /\ req[h].pc = "active" /\ UNCHANGED <<dev, svc, res, members, ctr, goal, budget>> /\ Return(h)
    BY DEF SetActive, At
  <1>1. /\ req[h] \in Requests /\ FlowOK(req[h]) /\ req[h].u \in UUIDs
        /\ req[h].op = "init" /\ req[h].rec \in Attrs
        /\ req[h].rec.status = "INITIALIZING"
    BY <1>0, HandlerFacts DEF FlowOK, StepsOf, HasWhatItNeeds, Starting, Reading, Requests
  <1>2. CASE UpdateServiceAttr(req[h].u, req[h].rec, b, TRUE)
    <2>3. b \in Attrs /\ b.status = "ACTIVE" /\ b.name = req[h].rec.name
          /\ b.replicas = req[h].rec.replicas /\ req[h].rec.rev < b.rev
      BY <1>1, StatusOK DEF Statuses
    <2>4. SInv /\ attr[req[h].u] = req[h].rec => 1..b.replicas \subseteq members[req[h].u]
      BY <1>1, <2>3, Facts DEF SInv, RecordOK, Up
    <2>5. req[h].rec.replicas <= b.replicas
      BY <1>1, <2>3, AttrNumbers
    <2> HIDE DEF b
    <2> QED BY <1>0, <1>1, <1>2, <2>3, <2>4, <2>5, AttrStep, ReturnOK DEF Starting, Reading, Return, SameOrDone
  <1>3. CASE attr' = attr
    BY <1>0, <1>3, LateUpdate
  <1> QED BY <1>2, <1>3 DEF SetActive, UpdateServiceAttr

LEMMA MarkDeletingLemma ==
  ASSUME IInv, NEW h \in Handlers, MarkDeleting(h)
  PROVE  IInv'
  <1> DEFINE b == UpdateServiceStatus(req[h].rec, "DELETING")
  <1>0. /\ req[h].pc = "mark" /\ UNCHANGED <<dev, svc, res, members, ctr, goal, budget>>
    BY DEF MarkDeleting, At
  <1>1. /\ req[h] \in Requests /\ FlowOK(req[h]) /\ req[h].s \in Services /\ req[h].u \in UUIDs
        /\ req[h].op = "delete" /\ req[h].rec \in Attrs
    BY <1>0, HandlerFacts DEF FlowOK, StepsOf, HasWhatItNeeds, Starting, Reading, Requests, Deletion
  <1>2. CASE UpdateServiceAttr(req[h].u, req[h].rec, b, TRUE) /\ Goto(h, "list")
    <2>1. PICK r \in Requests : /\ Continues(r, req[h]) /\ r.pc = "list" /\ r.u = req[h].u
                                /\ r.rec = req[h].rec /\ Become(h, r)
      <3>1. "list" \in Steps
        BY DEF Steps
      <3> QED BY <1>1, <1>2, <3>1, StepRequest DEF Goto
    <2>2. SameOrDone(r, req[h]) /\ FlowOK(r)
      BY <1>0, <1>1, <2>1 DEF Continues, SameOrDone, FlowOK, StepsOf, HasWhatItNeeds,
                                 Starting, Reading, Deletion, AllOps
    <2>3. b \in Attrs /\ b.status = "DELETING" /\ b.name = req[h].rec.name
          /\ b.replicas = req[h].rec.replicas /\ req[h].rec.rev < b.rev
      BY <1>1, StatusOK DEF Statuses
    <2>5. req[h].rec.replicas <= b.replicas
      BY <1>1, <2>3, AttrNumbers
    <2> HIDE DEF b
    <2> QED BY <1>0, <1>1, <1>2, <2>1, <2>2, <2>3, <2>5, AttrStep DEF Starting, Reading
  <1>3. CASE attr' = attr /\ Return(h)
    BY <1>0, <1>3, LateUpdate
  <1> QED BY <1>2, <1>3 DEF MarkDeleting, UpdateServiceAttr

LEMMA UpdatedAttrOK ==
  ASSUME IInv, NEW h \in Handlers, req[h].pc = "update"
  PROVE  LET a == req[h].rec
             b == UpdatedAttr(h)
         IN  /\ a \in Attrs /\ b \in Attrs /\ b.status = a.status /\ b.name = a.name
             /\ b.primary = a.primary /\ b.journal = a.journal
             /\ a.rev < b.rev /\ a.replicas <= b.replicas
             /\ b.replicas = IF req[h].op = "scale" THEN req[h].size ELSE a.replicas
             /\ a.resource = "new" => b.resource = "new"
  <1>1. /\ req[h].rec \in Attrs /\ req[h].size \in Targets
        /\ req[h].op = "scale" => req[h].rec.replicas < req[h].size
    BY HandlerFacts DEF FlowOK, StepsOf, HasWhatItNeeds, Starting, Reading, Requests
  <1>2. PICK a \in Attrs : a = req[h].rec
    BY <1>1
  <1>3. PICK n \in MemberIds : /\ n = IF req[h].op = "scale" THEN req[h].size ELSE a.replicas
                               /\ a.replicas <= n
    <2>1. a.replicas \in Nat /\ a.replicas \in MemberIds /\ a.replicas <= a.replicas
      BY AttrNumbers
    <2>2. CASE req[h].op = "scale"
      <3>1. req[h].size \in Nat /\ a.replicas < req[h].size
        BY <1>1, <1>2, <2>2, Facts
      <3>2. req[h].size \in MemberIds /\ a.replicas <= req[h].size
        BY <1>1, <2>1, <3>1, Facts
      <3> QED BY <2>2, <3>2
    <2> QED BY <2>1, <2>2
  <1> DEFINE v == a.rev + 1
             c == IF req[h].op = "resource" THEN "new" ELSE a.resource
             b == [a EXCEPT !.rev = v, !.replicas = n, !.resource = c]
  <1>4. UpdatedAttr(h) = b
    BY <1>2, <1>3 DEF UpdatedAttr
  <1>5. v \in Nat /\ a.rev < v /\ c \in {"old", "new"} /\ (a.resource = "new" => c = "new")
    BY DEF Attrs
  <1> HIDE DEF v, c
  <1>6. /\ b \in Attrs /\ b.status = a.status /\ b.name = a.name /\ b.replicas = n /\ b.rev = v
        /\ b.primary = a.primary /\ b.journal = a.journal /\ b.resource = c
    BY <1>5 DEF Attrs
  <1> HIDE DEF b
  <1> QED BY <1>2, <1>3, <1>4, <1>5, <1>6

LEMMA UpdateAttrLemma ==
  ASSUME IInv, NEW h \in Handlers, UpdateAttr(h)
  PROVE  IInv'
  <1>0. /\ req[h].pc = "update" /\ UNCHANGED <<dev, svc, res, members, ctr, goal, budget>> /\ Return(h)
    BY DEF UpdateAttr, At
  <1>1. /\ req[h] \in Requests /\ FlowOK(req[h]) /\ req[h].u \in UUIDs /\ req[h].u # None
        /\ req[h].op \in {"scale", "resource"} /\ (SInv => RequestOK(req[h]))
    BY <1>0, HandlerFacts DEF FlowOK, StepsOf, HasWhatItNeeds, Starting, Reading, Requests
  <1>2. PICK a \in Attrs, b \in Attrs :
          /\ a = req[h].rec /\ b = UpdatedAttr(h) /\ b.status = a.status /\ b.name = a.name
          /\ a.rev < b.rev /\ a.replicas <= b.replicas
          /\ b.replicas = IF req[h].op = "scale" THEN req[h].size ELSE a.replicas
    BY <1>0, UpdatedAttrOK
  <1>3. CASE UpdateServiceAttr(req[h].u, req[h].rec, b, TRUE)
    <2>1. SInv /\ attr[req[h].u] = a /\ Alive(req[h].u) /\ b.status \in {"INITIALIZING", "ACTIVE"}
            => 1..b.replicas \subseteq members[req[h].u]
      <3>1. CASE req[h].op = "scale"
        BY <1>0, <1>1, <1>2, <3>1 DEF RequestOK, Adding
      <3>2. CASE req[h].op # "scale"
        BY <1>1, <1>2, <3>2, Facts DEF SInv, RecordOK, Up
      <3> QED BY <3>1, <3>2
    <2> QED BY <1>0, <1>1, <1>2, <1>3, <2>1, AttrStep, ReturnOK
            DEF Starting, Reading, Return, SameOrDone
  <1>4. CASE attr' = attr
    BY <1>0, <1>4, LateUpdate
  <1> QED BY <1>2, <1>3, <1>4 DEF UpdateAttr, UpdateServiceAttr

-----------------------------------------------------------------------------
(* The container framework *)

LEMMA CtrStep ==
  ASSUME IInv, NEW h \in Handlers, req[h].pc \notin Starting \cup {"idle", "uuid"},
         NEW r \in Requests, Become(h, r), SameOrDone(r, req[h]), FlowOK(r),
         NEW c \in Deployments \cup {None}, ctr' = [ctr EXCEPT ![req[h].s] = c],
         UNCHANGED <<dbVars, goal, budget>>,
         SInv => /\ c # None => Up(req[h].u) /\ 1..c.count \subseteq members[req[h].u]
                 /\ RequestOK(r)'
  PROVE  IInv'
  <1>1. PICK u \in UUIDs, s \in Services :
           /\ u = req[h].u /\ s = req[h].s /\ u # None
           /\ SInv => /\ svc[s] = u /\ \A t \in Services \ {s} : svc[t] # u
                      /\ RecordOK(u) /\ ServiceOK(s) /\ RequestOK(req[h])
    BY OwnFacts
  <1>2. /\ ctr' \in [Services -> Deployments \cup {None}] /\ ctr'[s] = c
        /\ \A t \in Services : t # s => ctr'[t] = ctr[t]
    BY <1>1, StateFacts
  <1>3. TypedDB /\ faults' \in 0..MaxFaults
    BY <1>2, StateFacts DEF TypedDB, dbVars, budget
  <1>4. ASSUME SInv
        PROVE  /\ Apart(s, u) /\ Grows(s, u)
               /\ RecordOK(u)' /\ ServiceOK(s)' /\ RequestOK(r)'
    <2>1. Apart(s, u) /\ Grows(s, u)
      BY <1>1, <1>2, <1>4 DEF Apart, Grows, dbVars
    <2>2. RecordOK(u)'
      BY <1>1, <1>4 DEF RecordOK, Alive, Up, dbVars
    <2>3. ServiceOK(s)'
      BY <1>1, <1>2, <1>4 DEF ServiceOK, Up, dbVars
    <2> QED BY <1>4, <2>1, <2>2, <2>3
  <1> QED BY <1>1, <1>3, <1>4, WriteStep DEF dbVars, budget

(* A request that has what it needs goes on to another step. *)
LEMMA GotoOK ==
  ASSUME IInv, NEW h \in Handlers, req[h].pc \notin Starting \cup {"idle", "uuid"}, NEW step \in Steps,
         Goto(h, step)
  PROVE  \E r \in Requests : /\ Become(h, r) /\ SameOrDone(r, req[h]) /\ r.pc = step /\ r.u = req[h].u
                             /\ r.rec = req[h].rec /\ r.op = req[h].op /\ r.s = req[h].s
                             /\ r.size = req[h].size /\ r.todo = req[h].todo
                             /\ r.primary = req[h].primary
  <1>1. req[h] \in Requests
    BY StateFacts
  <1> QED BY <1>1, StepRequest DEF Goto, SameOrDone, Continues

LEMMA IsServiceExistLemma ==
  ASSUME IInv, NEW h \in Handlers, IsServiceExist(h)
  PROVE  IInv'
  <1>0. /\ req[h].pc = "ctrExist" /\ UNCHANGED <<dbVars, ctr, goal, budget>> /\ "ctrCreate" \in Steps
        /\ dev' \in [Devices -> Services \cup {None}] /\ faults' \in 0..MaxFaults
    BY StateFacts DEF IsServiceExist, At, dbVars, budget, Steps
  <1>1. CASE Return(h)
    BY <1>0, <1>1, ReturnStep DEF dbVars, budget
  <1>2. CASE Goto(h, "ctrCreate")
    <2>1. PICK r \in Requests : /\ Become(h, r) /\ SameOrDone(r, req[h]) /\ r.pc = "ctrCreate"
                                /\ r.u = req[h].u /\ r.rec = req[h].rec /\ r.op = req[h].op
                                /\ r.s = req[h].s /\ r.size = req[h].size
      BY <1>0, <1>2, GotoOK DEF Starting
    <2>2. FlowOK(r)
      BY <1>0, <2>1, HandlerFacts DEF FlowOK, StepsOf, HasWhatItNeeds, Starting, Reading, Deletion, AllOps
    <2>3. SInv => RequestOK(r)
      BY <1>0, <2>1, HandlerFacts DEF RequestOK, Current, Adding, Removing, Deletion
    <2> QED BY <1>0, <2>1, <2>2, <2>3, ReadStep DEF dbVars, budget
  <1> QED BY <1>1, <1>2 DEF IsServiceExist

LEMMA CreateContainerServiceLemma ==
  ASSUME IInv, NEW h \in Handlers, CreateContainerService(h)
  PROVE  IInv'
  <1>0. /\ req[h].pc = "ctrCreate" /\ UNCHANGED <<dbVars, goal, budget>> /\ Return(h)
    BY DEF CreateContainerService, At
  <1>1. PICK u \in UUIDs, s \in Services :
           /\ u = req[h].u /\ s = req[h].s /\ u # None
           /\ SInv => /\ svc[s] = u /\ \A t \in Services \ {s} : svc[t] # u
                      /\ RecordOK(u) /\ ServiceOK(s) /\ RequestOK(req[h])
    BY <1>0, OwnFacts DEF Starting
  <1>2. CASE ctr' = ctr
    BY <1>0, <1>2, ReturnStep, StateFacts DEF dbVars, budget
  <1>3. CASE ctr' = [ctr EXCEPT ![s] = [count |-> req[h].size, resource |-> "old"]]
    <2> DEFINE c == [count |-> req[h].size, resource |-> "old"]
    <2>1. req[h].size = Replicas
      BY <1>0, HandlerFacts DEF FlowOK, StepsOf, HasWhatItNeeds, Reading
    <2>2. c \in Deployments /\ c.count = Replicas
      BY <2>1, Facts DEF Deployments
    <2>3. SInv => Up(u) /\ 1..Replicas \subseteq members[u]
      <3>1. SInv => Up(u) /\ RecordOK(u)
        BY <1>0, <1>1 DEF RequestOK, Current
      <3>2. attr[u] # None => attr[u].replicas \in Nat
        BY StateFacts, AttrNumbers
      <3> QED BY <3>1, <3>2, Facts DEF RecordOK, Up
    <2> HIDE DEF c
    <2>4. RequestOK(NoRequest)'
      BY NoRequestFacts, Facts DEF RequestOK, Current, Adding, Removing, Deletion
    <2>5. ctr' = [ctr EXCEPT ![req[h].s] = c]
      BY <1>1, <1>3 DEF c
    <2> QED BY <1>0, <1>1, <2>2, <2>3, <2>4, <2>5, CtrStep, ReturnOK DEF Return, SameOrDone, Starting
  <1> QED BY <1>1, <1>2, <1>3 DEF CreateContainerService

LEMMA StopContainersLemma ==
  ASSUME IInv, NEW h \in Handlers, StopContainers(h)
  PROVE  IInv'
  <1>0. /\ req[h].pc = "ctrStop" /\ UNCHANGED <<dbVars, goal, budget>> /\ "ctrDelete" \in Steps
    BY DEF StopContainers, At, Steps
  <1>1. PICK u \in UUIDs, s \in Services :
           /\ u = req[h].u /\ s = req[h].s /\ u # None
           /\ SInv => /\ svc[s] = u /\ \A t \in Services \ {s} : svc[t] # u
                      /\ RecordOK(u) /\ ServiceOK(s) /\ RequestOK(req[h])
    BY <1>0, OwnFacts DEF Starting
  <1>2. PICK r \in Requests : /\ Become(h, r) /\ SameOrDone(r, req[h]) /\ FlowOK(r)
                              /\ SInv => RequestOK(r)'
    <2>1. CASE Return(h)
      <3>1. RequestOK(NoRequest)'
        BY NoRequestFacts, Facts DEF RequestOK, Current, Adding, Removing, Deletion
      <3> QED BY <2>1, <3>1, ReturnOK DEF Return, SameOrDone
    <2>2. CASE req[h].op = "delete" /\ Goto(h, "ctrDelete")
      <3>1. PICK r \in Requests : /\ Become(h, r) /\ SameOrDone(r, req[h]) /\ r.pc = "ctrDelete"
                                  /\ r.u = u /\ r.rec = req[h].rec /\ r.op = req[h].op
                                  /\ r.s = s /\ r.size = req[h].size
        BY <1>0, <1>1, <2>2, GotoOK DEF Starting
      <3>2. FlowOK(r)
        BY <1>0, <1>1, <2>2, <3>1, HandlerFacts DEF FlowOK, StepsOf, HasWhatItNeeds, Starting, Reading, Deletion, AllOps
      <3>3. SInv => RequestOK(r)'
        BY <1>0, <1>1, <3>1 DEF RequestOK, Current, Adding, Removing, Deletion, dbVars
      <3> QED BY <3>1, <3>2, <3>3
    <2> QED BY <2>1, <2>2 DEF StopContainers
  <1>3. PICK c \in Deployments \cup {None} :
           /\ ctr' = [ctr EXCEPT ![s] = c]
           /\ c # None => ctr[s] # None /\ 1..c.count = {}
    <2>1. CASE ctr[s] = None
      BY <1>1, <2>1, StateFacts DEF StopContainers
    <2>2. CASE ctr[s] # None
      <3> DEFINE c == [ctr[s] EXCEPT !.count = 0]
      <3>1. c \in Deployments /\ c.count = 0
        BY <2>2, StateFacts DEF Deployments
      <3>2. ctr' = [ctr EXCEPT ![s] = c]
        BY <1>1, <2>2, StateFacts DEF StopContainers
      <3>3. 1..c.count = {}
        BY <3>1
      <3> HIDE DEF c
      <3> QED BY <2>2, <3>1, <3>2, <3>3
    <2> QED BY <2>1, <2>2
  <1>4. SInv /\ c # None => Up(u) /\ 1..c.count \subseteq members[u]
    BY <1>1, <1>3 DEF ServiceOK
  <1> QED BY <1>0, <1>1, <1>2, <1>3, <1>4, CtrStep DEF Starting

LEMMA DeleteContainerServiceLemma ==
  ASSUME IInv, NEW h \in Handlers, DeleteContainerService(h)
  PROVE  IInv'
  <1>0. /\ req[h].pc = "ctrDelete" /\ UNCHANGED <<dbVars, goal, budget>> /\ "uuidAgain" \in Steps
        /\ Goto(h, "uuidAgain") /\ ctr' = [ctr EXCEPT ![req[h].s] = None]
    BY DEF DeleteContainerService, At, Steps
  <1>1. PICK u \in UUIDs, s \in Services :
           /\ u = req[h].u /\ s = req[h].s /\ u # None
           /\ SInv => /\ svc[s] = u /\ \A t \in Services \ {s} : svc[t] # u
                      /\ RecordOK(u) /\ ServiceOK(s) /\ RequestOK(req[h])
    BY <1>0, OwnFacts DEF Starting
  <1>2. PICK r \in Requests : /\ Become(h, r) /\ SameOrDone(r, req[h]) /\ r.pc = "uuidAgain"
                              /\ r.u = u /\ r.rec = req[h].rec /\ r.op = req[h].op
                              /\ r.s = s /\ r.size = req[h].size
    BY <1>0, <1>1, GotoOK DEF Starting
  <1>3. FlowOK(r)
    BY <1>0, <1>1, <1>2, HandlerFacts DEF FlowOK, StepsOf, HasWhatItNeeds, Starting, Reading, Deletion, AllOps
  <1>4. ctr'[s] = None
    BY <1>0, <1>1, StateFacts
  <1>5. SInv => RequestOK(r)'
    BY <1>0, <1>1, <1>2, <1>4 DEF RequestOK, Current, Adding, Removing, Deletion, dbVars
  <1> QED BY <1>0, <1>2, <1>3, <1>5, CtrStep DEF Starting

LEMMA ScaleContainersLemma ==
  ASSUME IInv, NEW h \in Handlers, ScaleContainers(h)
  PROVE  IInv'
  <1>0. /\ req[h].pc = "ctrScale" /\ UNCHANGED <<dbVars, goal, budget>> /\ "update" \in Steps
    BY DEF ScaleContainers, At, Steps
  <1>1. PICK u \in UUIDs, s \in Services :
           /\ u = req[h].u /\ s = req[h].s /\ u # None
           /\ SInv => /\ svc[s] = u /\ \A t \in Services \ {s} : svc[t] # u
                      /\ RecordOK(u) /\ ServiceOK(s) /\ RequestOK(req[h])
    BY <1>0, OwnFacts DEF Starting
  <1>2. /\ req[h] \in Requests /\ FlowOK(req[h]) /\ req[h].op \in {"scale", "start"}
        /\ req[h].rec \in Attrs /\ req[h].rec # None /\ req[h].size \in Targets
        /\ (req[h].op = "scale" => req[h].rec.replicas < req[h].size)
    BY <1>0, HandlerFacts DEF FlowOK, StepsOf, HasWhatItNeeds, Starting, Reading, Requests
  <1>3. CASE Return(h) /\ UNCHANGED ctr
    BY <1>0, <1>3, ReturnStep, StateFacts DEF dbVars, budget
  <1>4. CASE ctr[s] # None /\ ~(Return(h) /\ UNCHANGED ctr)
    <2>1. PICK n \in Nat : n = IF req[h].op = "start" THEN req[h].rec.replicas ELSE req[h].size
      BY <1>2, AttrNumbers, Facts
    <2>2. n \in MemberIds
      <3>1. req[h].rec.replicas \in MemberIds /\ req[h].rec.replicas \in Nat
        BY <1>2, AttrNumbers
      <3>2. CASE req[h].op = "scale"
        <4>1. req[h].size \in Nat /\ req[h].rec.replicas < req[h].size
          BY <1>2, <3>2, Facts
        <4>2. req[h].size # 0
          BY <3>1, <4>1
        <4> QED BY <1>2, <2>1, <3>2, <4>2, Facts
      <3>3. CASE req[h].op = "start"
        BY <2>1, <3>1, <3>3
      <3> QED BY <1>2, <3>2, <3>3
    <2>3. PICK c \in Deployments : c.count = n /\ ctr' = [ctr EXCEPT ![s] = c]
      <3> DEFINE c == [ctr[s] EXCEPT !.count = n]
      <3>1. c \in Deployments /\ c.count = n
        BY <1>4, <2>2, StateFacts DEF Deployments
      <3>2. ctr' = [ctr EXCEPT ![s].count = n]
        BY <1>1, <1>4, <2>1 DEF ScaleContainers
      <3>3. ctr' = [ctr EXCEPT ![s] = c]
        BY <3>2, StateFacts
      <3> HIDE DEF c
      <3> QED BY <3>1, <3>3
    <2>4. ASSUME SInv PROVE Up(u) /\ 1..n \subseteq members[u]
      <3>1. Up(u) /\ RecordOK(u) /\ RequestOK(req[h])
        BY <1>1, <1>4, <2>4 DEF ServiceOK
      <3>2. CASE req[h].op = "start"
        <4>1. req[h].rec.replicas <= attr[u].replicas /\ 1..attr[u].replicas \subseteq members[u]
          BY <1>0, <1>1, <1>2, <3>1 DEF RequestOK, Current, RecordOK
        <4>2. attr[u].replicas \in Nat
          BY <3>1, StateFacts, AttrNumbers DEF Up
        <4> QED BY <2>1, <3>1, <3>2, <4>1, <4>2
      <3>3. CASE req[h].op = "scale"
        BY <1>0, <1>1, <2>1, <3>1, <3>3 DEF RequestOK, Adding, Alive, Up
      <3> QED BY <1>2, <3>2, <3>3
    <2>5. PICK r \in Requests : /\ Become(h, r) /\ SameOrDone(r, req[h]) /\ FlowOK(r)
                                /\ SInv => RequestOK(r)'
      <3>1. CASE Return(h)
        <4>1. RequestOK(NoRequest)'
          BY NoRequestFacts, Facts DEF RequestOK, Current, Adding, Removing, Deletion
        <4> QED BY <3>1, <4>1, ReturnOK DEF Return, SameOrDone
      <3>2. CASE req[h].op # "start" /\ Goto(h, "update")
        <4>1. PICK r \in Requests : /\ Become(h, r) /\ SameOrDone(r, req[h]) /\ r.pc = "update"
                                    /\ r.u = u /\ r.rec = req[h].rec /\ r.op = req[h].op
                                    /\ r.s = s /\ r.size = req[h].size
          BY <1>0, <1>1, <3>2, GotoOK DEF Starting
        <4>2. FlowOK(r)
          BY <1>0, <1>1, <1>2, <3>2, <4>1 DEF FlowOK, StepsOf, HasWhatItNeeds, Starting, Reading, Deletion, AllOps
        <4>3. SInv => RequestOK(r)'
          BY <1>0, <1>1, <1>2, <4>1 DEF RequestOK, Current, Adding, Removing, Deletion, Alive, dbVars
        <4> QED BY <4>1, <4>2, <4>3
      <3> QED BY <1>4, <3>1, <3>2 DEF ScaleContainers
    <2> QED BY <1>0, <1>1, <2>3, <2>4, <2>5, CtrStep DEF Starting
  <1> QED BY <1>1, <1>3, <1>4 DEF ScaleContainers

LEMMA UpdateContainerServiceLemma ==
  ASSUME IInv, NEW h \in Handlers, UpdateContainerService(h)
  PROVE  IInv'
  <1>0. /\ req[h].pc = "ctrUpdate" /\ UNCHANGED <<dbVars, goal, budget>> /\ "update" \in Steps
    BY DEF UpdateContainerService, At, Steps
  <1>1. PICK u \in UUIDs, s \in Services :
           /\ u = req[h].u /\ s = req[h].s /\ u # None
           /\ SInv => /\ svc[s] = u /\ \A t \in Services \ {s} : svc[t] # u
                      /\ RecordOK(u) /\ ServiceOK(s) /\ RequestOK(req[h])
    BY <1>0, OwnFacts DEF Starting
  <1>2. FlowOK(req[h]) /\ req[h].op = "resource" /\ req[h].rec # None
    BY <1>0, HandlerFacts DEF FlowOK, StepsOf, HasWhatItNeeds, Starting, Reading
  <1>3. CASE Return(h) /\ UNCHANGED ctr
    BY <1>0, <1>3, ReturnStep, StateFacts DEF dbVars, budget
  <1>4. CASE ctr[s] # None /\ ctr' = [ctr EXCEPT ![s].resource = "new"] /\ Goto(h, "update")
    <2>1. PICK c \in Deployments : c.count = ctr[s].count /\ ctr' = [ctr EXCEPT ![s] = c]
      <3> DEFINE c == [ctr[s] EXCEPT !.resource = "new"]
      <3>1. c \in Deployments /\ c.count = ctr[s].count
        BY <1>4, StateFacts DEF Deployments
      <3>2. ctr' = [ctr EXCEPT ![s] = c]
        BY <1>4, StateFacts
      <3> HIDE DEF c
      <3> QED BY <3>1, <3>2
    <2>2. SInv => Up(u) /\ 1..c.count \subseteq members[u]
      BY <1>1, <1>4, <2>1 DEF ServiceOK
    <2>3. PICK r \in Requests : /\ Become(h, r) /\ SameOrDone(r, req[h]) /\ r.pc = "update"
                                /\ r.u = u /\ r.rec = req[h].rec /\ r.op = req[h].op
                                /\ r.s = s /\ r.size = req[h].size
      BY <1>0, <1>1, <1>4, GotoOK DEF Starting
    <2>4. FlowOK(r)
      BY <1>0, <1>1, <1>2, <2>3 DEF FlowOK, StepsOf, HasWhatItNeeds, Starting, Reading, Deletion, AllOps
    <2>5. SInv => RequestOK(r)'
      BY <1>0, <1>1, <1>2, <2>3 DEF RequestOK, Current, Adding, Removing, Deletion, dbVars
    <2> QED BY <1>0, <1>1, <2>1, <2>2, <2>3, <2>4, <2>5, CtrStep DEF Starting
  <1> QED BY <1>1, <1>3, <1>4 DEF UpdateContainerService

-----------------------------------------------------------------------------
(* The requests for a service that exists *)

LEMMA GetServiceLemma ==
  ASSUME IInv, NEW h \in Handlers, GetService(h)
  PROVE  IInv'
  <1>0. /\ req[h].pc \in {"uuid", "uuidAgain"} /\ UNCHANGED <<dbVars, ctr, goal, budget>>
        /\ dev' \in [Devices -> Services \cup {None}] /\ faults' \in 0..MaxFaults
    BY StateFacts DEF GetService, At, dbVars, budget
  <1>1. PICK s \in Services : s = req[h].s
    BY <1>0, HandlerFacts
  <1>2. req[h] \in Requests /\ FlowOK(req[h]) /\ (SInv => RequestOK(req[h]))
    BY <1>0, HandlerFacts
  <1>3. CASE Return(h)
    BY <1>0, <1>3, ReturnStep DEF dbVars, budget
  <1>4. CASE /\ req[h].pc = "uuid" /\ svc[s] # None
             /\ Become(h, [req[h] EXCEPT !.u = svc[s], !.pc = "attr"])
    <2>1. PICK u \in UUIDs : u = svc[s] /\ Become(h, [req[h] EXCEPT !.u = u, !.pc = "attr"])
      BY <1>4, StateFacts
    <2>2. PICK r \in Requests : /\ Become(h, r) /\ Continues(r, req[h]) /\ r.pc = "attr" /\ r.u = u
                                /\ r.rec = req[h].rec
      <3> DEFINE r == [req[h] EXCEPT !.u = u, !.pc = "attr"]
      <3>1. "attr" \in Steps
        BY DEF Steps
      <3>2. r \in Requests /\ Continues(r, req[h]) /\ r.pc = "attr" /\ r.u = u /\ r.rec = req[h].rec
        BY <1>2, <3>1 DEF Requests, Continues
      <3> QED BY <2>1, <3>2
    <2>3. req[h].rec = None /\ u # None
      BY <1>2, <1>4, Facts DEF FlowOK, HasWhatItNeeds, Starting
    <2>4. FlowOK(r)
      BY <1>1, <1>2, <1>4, <2>2, <2>3 DEF Continues, FlowOK, StepsOf, HasWhatItNeeds, Starting,
                                          Reading, Deletion, AllOps
    <2>5. RequestOK(r)
      BY <1>1, <2>1, <2>2, <2>3 DEF Continues, RequestOK, Current, Adding, Removing, Deletion
    <2> QED BY <1>0, <2>2, <2>4, <2>5, ReadStep DEF dbVars, budget, SameOrDone
  <1>5. CASE /\ req[h].pc = "uuidAgain" /\ svc[s] # None
             /\ Become(h, [req[h] EXCEPT !.u = svc[s], !.pc = "attrAgain"])
    <2>1. PICK u \in UUIDs : u = svc[s] /\ Become(h, [req[h] EXCEPT !.u = u, !.pc = "attrAgain"])
      BY <1>5, StateFacts
    <2>2. PICK r \in Requests : /\ Become(h, r) /\ Continues(r, req[h]) /\ r.pc = "attrAgain" /\ r.u = u
                                /\ r.rec = req[h].rec
      <3> DEFINE r == [req[h] EXCEPT !.u = u, !.pc = "attrAgain"]
      <3>1. "attrAgain" \in Steps
        BY DEF Steps
      <3>2. r \in Requests /\ Continues(r, req[h]) /\ r.pc = "attrAgain" /\ r.u = u /\ r.rec = req[h].rec
        BY <1>2, <3>1 DEF Requests, Continues
      <3> QED BY <2>1, <3>2
    <2>3. req[h].rec # None /\ u # None /\ req[h].u # None
      BY <1>2, <1>5, Facts DEF FlowOK, HasWhatItNeeds, Starting, Reading
    <2>4. FlowOK(r)
      BY <1>1, <1>2, <1>5, <2>2, <2>3 DEF Continues, FlowOK, StepsOf, HasWhatItNeeds, Starting,
                                          Reading, Deletion, AllOps
    <2>5. SInv => RequestOK(r)
      <3>1. SInv => req[h].u = u
        BY <1>1, <1>2, <2>1, <2>3 DEF RequestOK, Current
      <3> QED BY <1>1, <1>2, <1>5, <2>1, <2>2, <2>3, <3>1
              DEF Continues, RequestOK, Current, Adding, Removing, Deletion
    <2> QED BY <1>0, <2>2, <2>4, <2>5, ReadStep DEF dbVars, budget, SameOrDone
  <1> QED BY <1>1, <1>3, <1>4, <1>5 DEF GetService, At

(* The record that is read is the current one. *)
Read(q, a, step) == [q EXCEPT !.rec = a, !.pc = step]
LEMMA ReadRecord ==
  ASSUME IInv, NEW h \in Handlers, req[h].pc \in {"attr", "attrAgain"},
         NEW u \in UUIDs, u = req[h].u, NEW a \in Attrs, a = attr[u], NEW step \in Steps,
         NEW r, r = Read(req[h], a, step)
  PROVE  /\ r \in Requests /\ SameOrDone(r, req[h]) /\ r.pc = step /\ r.u = u
         /\ r.rec = a /\ r.op = req[h].op /\ r.s = req[h].s /\ r.size = req[h].size
         /\ SInv /\ step \notin {"ctrExist", "ctrCreate"} => Current(r)
  <1>1. req[h] \in Requests /\ (SInv => RequestOK(req[h]))
    BY HandlerFacts
  <1>2. r \in Requests /\ Continues(r, req[h]) /\ r.pc = step /\ r.u = u /\ r.rec = a
    BY <1>1 DEF Read, Requests, Continues
  <1>3. a # None /\ a.rev <= a.rev /\ a.replicas <= a.replicas
    <2>1. a.rev \in Nat /\ a.replicas \in Nat /\ a # None
      BY AttrNumbers, Facts
    <2> QED BY <2>1
  <1>4. SInv /\ step \notin {"ctrExist", "ctrCreate"} => Current(r)
    BY <1>1, <1>2, <1>3 DEF RequestOK, Current, Continues
  <1> QED BY <1>2, <1>4 DEF SameOrDone, Continues

LEMMA GetServiceAttrLemma ==
  ASSUME IInv, NEW h \in Handlers, GetServiceAttr(h)
  PROVE  IInv'
  <1>0. /\ req[h].pc = "attr" /\ UNCHANGED <<dbVars, ctr, goal, budget>>
        /\ dev' \in [Devices -> Services \cup {None}] /\ faults' \in 0..MaxFaults
    BY StateFacts DEF GetServiceAttr, At, dbVars, budget
  <1>1. PICK u \in UUIDs : u = req[h].u /\ u # None
    BY <1>0, HandlerFacts, Facts DEF FlowOK, HasWhatItNeeds, Starting, Requests
  <1>2. req[h] \in Requests /\ FlowOK(req[h]) /\ req[h].op \in AllOps \ {"create"} /\ req[h].s \in Services
    BY <1>0, HandlerFacts DEF FlowOK, StepsOf
  <1>3. CASE Return(h)
    BY <1>0, <1>3, ReturnStep DEF dbVars, budget
  <1>4. CASE /\ attr[u] # None /\ (req[h].op = "scale" => req[h].size > attr[u].replicas)
             /\ Become(h, [req[h] EXCEPT !.rec = attr[u], !.pc = AfterAttr(req[h].op)])
    <2>1. PICK a \in Attrs : a = attr[u] /\ a # None
      BY <1>4, StateFacts
    <2>2. PICK step \in Steps : /\ step = AfterAttr(req[h].op)
                                /\ step \in {"ctrStop", "uuidAgain", "ctrScale", "ctrUpdate", "members"}
                                /\ step = "ctrStop" => req[h].op \in {"delete", "stop"}
                                /\ step = "uuidAgain" => req[h].op = "init"
                                /\ step = "ctrScale" => req[h].op = "start"
                                /\ step = "ctrUpdate" => req[h].op = "resource"
                                /\ step = "members" => req[h].op = "scale"
      <3> DEFINE step == AfterAttr(req[h].op)
      <3>1. CASE req[h].op \in {"delete", "stop"}
        BY <3>1 DEF AfterAttr, Steps
      <3>2. CASE req[h].op \in {"init", "start", "resource", "scale"}
        BY <3>2 DEF AfterAttr, Steps
      <3> QED BY <1>2, <3>1, <3>2 DEF AllOps
    <2>3. Become(h, [req[h] EXCEPT !.rec = a, !.pc = step])
      BY <1>4, <2>1, <2>2
    <2>4. PICK r \in Requests : /\ Become(h, r) /\ SameOrDone(r, req[h]) /\ r.pc = step /\ r.u = u
                                /\ r.rec = a /\ r.op = req[h].op /\ r.s = req[h].s
                                /\ r.size = req[h].size
                                /\ SInv /\ step \notin {"ctrExist", "ctrCreate"} => Current(r)
      <3>1. req[h].pc \in {"attr", "attrAgain"}
        BY <1>0
      <3>2. PICK r : r = Read(req[h], a, step) /\ Become(h, r)
        BY <2>3 DEF Read
      <3> QED BY <1>1, <2>1, <3>1, <3>2, ReadRecord
    <2>5. r.op = "scale" => a.replicas < r.size
      <3>1. a.replicas \in Nat /\ req[h].size \in Nat
        BY <1>2, AttrNumbers, Facts DEF Requests
      <3> QED BY <1>4, <2>1, <2>4, <3>1
    <2>6. FlowOK(r)
      BY <1>0, <1>1, <1>2, <2>1, <2>2, <2>4, <2>5 DEF FlowOK, StepsOf, HasWhatItNeeds, Starting,
                                                      Reading, Deletion, AllOps
    <2>7. SInv => RequestOK(r)
      BY <2>2, <2>4 DEF RequestOK, Adding, Removing, Deletion
    <2> QED BY <1>0, <2>4, <2>6, <2>7, ReadStep DEF dbVars, budget
  <1> QED BY <1>1, <1>3, <1>4 DEF GetServiceAttr

LEMMA ReadForInitLemma ==
  ASSUME IInv, NEW h \in Handlers, ReadForInit(h)
  PROVE  IInv'
  <1>0. /\ req[h].pc = "attrAgain" /\ req[h].op = "init" /\ UNCHANGED <<dbVars, ctr, goal, budget>>
        /\ dev' \in [Devices -> Services \cup {None}] /\ faults' \in 0..MaxFaults
    BY StateFacts DEF ReadForInit, At, dbVars, budget
  <1>1. PICK u \in UUIDs : u = req[h].u /\ u # None
    BY <1>0, HandlerFacts, Facts DEF FlowOK, HasWhatItNeeds, Starting, Requests
  <1>2. CASE Return(h)
    BY <1>0, <1>2, ReturnStep DEF dbVars, budget
  <1>3. CASE /\ attr[u] # None /\ attr[u].status = "INITIALIZING"
             /\ Become(h, [req[h] EXCEPT !.rec = attr[u], !.pc = "active"])
    <2>1. PICK a \in Attrs : a = attr[u] /\ a # None
      BY <1>3, StateFacts
    <2>2. PICK step \in Steps : step = "active"
      BY DEF Steps
    <2>3. Become(h, [req[h] EXCEPT !.rec = a, !.pc = step]) /\ a.status = "INITIALIZING"
      BY <1>3, <2>1, <2>2
    <2>4. PICK r \in Requests : /\ Become(h, r) /\ SameOrDone(r, req[h]) /\ r.pc = step /\ r.u = u
                                /\ r.rec = a /\ r.op = req[h].op /\ r.s = req[h].s
                                /\ r.size = req[h].size
                                /\ SInv /\ step \notin {"ctrExist", "ctrCreate"} => Current(r)
      <3>1. req[h].pc \in {"attr", "attrAgain"}
        BY <1>0
      <3>2. PICK r : r = Read(req[h], a, step) /\ Become(h, r)
        BY <2>3 DEF Read
      <3> QED BY <1>1, <2>1, <3>1, <3>2, ReadRecord
    <2>5. FlowOK(r)
      BY <1>0, <1>1, <2>1, <2>2, <2>3, <2>4, HandlerFacts DEF FlowOK, StepsOf, HasWhatItNeeds, Starting,
                                                      Reading, Deletion, AllOps
    <2>6. SInv => RequestOK(r)
      BY <2>2, <2>4 DEF RequestOK, Adding, Removing, Deletion
    <2> QED BY <1>0, <2>4, <2>5, <2>6, ReadStep DEF dbVars, budget
  <1> QED BY <1>1, <1>2, <1>3 DEF ReadForInit

-----------------------------------------------------------------------------
(* DeleteService *)

LEMMA ReadForDeleteLemma ==
  ASSUME IInv, NEW h \in Handlers, ReadForDelete(h)
  PROVE  IInv'
  <1>0. /\ req[h].pc = "attrAgain" /\ req[h].op = "delete" /\ UNCHANGED <<dbVars, ctr, goal, budget>>
        /\ dev' \in [Devices -> Services \cup {None}] /\ faults' \in 0..MaxFaults
    BY StateFacts DEF ReadForDelete, At, dbVars, budget
  <1>1. PICK u \in UUIDs : u = req[h].u /\ u # None
    BY <1>0, HandlerFacts, Facts DEF FlowOK, HasWhatItNeeds, Starting, Requests
  <1>2. req[h] \in Requests /\ FlowOK(req[h]) /\ req[h].s \in Services /\ (SInv => RequestOK(req[h]))
    BY <1>0, HandlerFacts
  <1>3. CASE attr[u] = None /\ Goto(h, "delSvc")
    <2>1. PICK r \in Requests : /\ Become(h, r) /\ SameOrDone(r, req[h]) /\ r.pc = "delSvc"
                                /\ r.u = u /\ r.rec = req[h].rec /\ r.op = req[h].op
                                /\ r.s = req[h].s /\ r.size = req[h].size
      <3>1. "delSvc" \in Steps /\ req[h].pc \notin Starting \cup {"idle", "uuid"}
        BY <1>0 DEF Steps, Starting
      <3> QED BY <1>1, <1>3, <3>1, GotoOK
    <2>2. FlowOK(r)
      BY <1>0, <1>1, <1>2, <2>1 DEF FlowOK, StepsOf, HasWhatItNeeds, Starting, Reading, Deletion, AllOps
    <2>3. SInv => RequestOK(r)
      BY <1>0, <1>1, <1>2, <1>3, <2>1 DEF RequestOK, Current, Adding, Removing, Deletion
    <2> QED BY <1>0, <2>1, <2>2, <2>3, ReadStep DEF dbVars, budget
  <1>4. CASE /\ attr[u] # None
             /\ Become(h, [req[h] EXCEPT !.rec = attr[u],
                                         !.pc = IF attr[u].status = "DELETING" THEN "list" ELSE "mark"])
    <2>1. PICK a \in Attrs : a = attr[u] /\ a # None
      BY <1>4, StateFacts
    <2>2. PICK step \in Steps : /\ step = IF a.status = "DELETING" THEN "list" ELSE "mark"
                                /\ step \in {"list", "mark"}
      BY DEF Steps
    <2>3. Become(h, [req[h] EXCEPT !.rec = a, !.pc = step])
      BY <1>4, <2>1, <2>2
    <2>4. PICK r \in Requests : /\ Become(h, r) /\ SameOrDone(r, req[h]) /\ r.pc = step /\ r.u = u
                                /\ r.rec = a /\ r.op = req[h].op /\ r.s = req[h].s
                                /\ r.size = req[h].size
                                /\ SInv /\ step \notin {"ctrExist", "ctrCreate"} => Current(r)
      <3>1. req[h].pc \in {"attr", "attrAgain"}
        BY <1>0
      <3>2. PICK r : r = Read(req[h], a, step) /\ Become(h, r)
        BY <2>3 DEF Read
      <3> QED BY <1>1, <2>1, <3>1, <3>2, ReadRecord
    <2>5. FlowOK(r)
      BY <1>0, <1>1, <1>2, <2>1, <2>2, <2>4 DEF FlowOK, StepsOf, HasWhatItNeeds, Starting, Reading,
                                                Deletion, AllOps
    <2>6. SInv => ctr[r.s] = None
      BY <1>0, <1>2, <2>4 DEF RequestOK, Removing
    <2>7. SInv => RequestOK(r)
      BY <1>0, <2>1, <2>2, <2>4, <2>6 DEF RequestOK, Adding, Removing, Deletion
    <2> QED BY <1>0, <2>4, <2>5, <2>7, ReadStep DEF dbVars, budget
  <1> QED BY <1>1, <1>3, <1>4 DEF ReadForDelete

LEMMA ListServiceMembersLemma ==
  ASSUME IInv, NEW h \in Handlers, ListServiceMembers(h)
  PROVE  IInv'
  <1>0. /\ req[h].pc = "list" /\ UNCHANGED <<dbVars, ctr, goal, budget>>
        /\ dev' \in [Devices -> Services \cup {None}] /\ faults' \in 0..MaxFaults
    BY StateFacts DEF ListServiceMembers, At, dbVars, budget
  <1>1. PICK u \in UUIDs : u = req[h].u /\ u # None
    BY <1>0, HandlerFacts, Facts DEF FlowOK, HasWhatItNeeds, Starting, Requests
  <1>2. req[h] \in Requests /\ FlowOK(req[h]) /\ req[h].s \in Services /\ (SInv => RequestOK(req[h]))
    BY <1>0, HandlerFacts
  <1>3. PICK todo \in SUBSET MemberIds : todo = members[u]
    BY StateFacts
  <1>4. PICK r \in Requests : /\ Become(h, r) /\ Continues(r, req[h]) /\ r.pc = "clean" /\ r.u = u
                              /\ r.rec = req[h].rec /\ r.todo = todo
    <2> DEFINE r == [req[h] EXCEPT !.todo = todo, !.pc = "clean"]
    <2>1. "clean" \in Steps
      BY DEF Steps
    <2>2. /\ r \in Requests /\ Continues(r, req[h]) /\ r.pc = "clean" /\ r.u = u
          /\ r.rec = req[h].rec /\ r.todo = todo
      BY <1>1, <1>2, <2>1 DEF Requests, Continues
    <2>3. Become(h, r)
      BY <1>1, <1>3 DEF ListServiceMembers
    <2> QED BY <2>2, <2>3
  <1>5. FlowOK(r)
    BY <1>0, <1>1, <1>2, <1>4 DEF Continues, FlowOK, StepsOf, HasWhatItNeeds, Starting, Reading,
                                  Deletion, AllOps
  <1>6. SInv => RequestOK(r)
    BY <1>0, <1>1, <1>2, <1>3, <1>4 DEF Continues, RequestOK, Current, Adding, Removing, Deletion
  <1> QED BY <1>0, <1>4, <1>5, <1>6, ReadStep DEF dbVars, budget, SameOrDone

(* What a deletion changes concerns no other service. *)
LEMMA DeleteStepLemma ==
  ASSUME IInv, NEW h \in Handlers, req[h].pc \in Deletion,
         NEW r \in Requests, Become(h, r), SameOrDone(r, req[h]), FlowOK(r), TypedDB,
         NEW u \in UUIDs, u = req[h].u, NEW s \in Services, s = req[h].s,
         UNCHANGED <<dev, ctr, goal, budget>>, svc'[s] \in {None, svc[s]},
         \A t \in Services \ {s} : svc'[t] = svc[t],
         \A v \in UUIDs \ {u} : attr'[v] = attr[v] /\ members'[v] = members[v] /\ res'[v] = res[v],
         SInv => RecordOK(u)' /\ RequestOK(r)'
  PROVE  IInv'
  <1>1. req[h].op = "delete" /\ u # None /\ req[h].pc # "idle"
    BY HandlerFacts, Facts DEF FlowOK, StepsOf, Deletion
  <1>2. ASSUME SInv PROVE Apart(s, u) /\ ServiceOK(s)'
    <2>1. /\ svc[s] = u /\ ctr[s] = None /\ ServiceOK(s) /\ \A t \in Services \ {s} : svc[t] # u
      <3>1. req[h].pc \notin Starting \cup {"idle", "uuid"}
        BY DEF Deletion, Starting
      <3>2. svc[s] = u /\ RequestOK(req[h]) /\ ServiceOK(s) /\ \A t \in Services \ {s} : svc[t] # u
        BY <1>2, <3>1, OwnFacts
      <3> QED BY <1>1, <3>2 DEF RequestOK, Removing
    <2>2. Apart(s, u)
      BY <2>1 DEF Apart
    <2>3. ServiceOK(s)'
      BY <2>1 DEF ServiceOK
    <2> QED BY <2>2, <2>3
  <1>3. faults' \in 0..MaxFaults
    BY StateFacts DEF budget
  <1> QED BY <1>1, <1>2, <1>3, WriteStep DEF budget

LEMMA CleanMembersLemma ==
  ASSUME IInv, NEW h \in Handlers, CleanMembers(h)
  PROVE  IInv'
  <1>0. /\ req[h].pc = "clean" /\ UNCHANGED <<dev, svc, attr, members, ctr, goal, budget>>
        /\ req[h].pc \in Deletion /\ req[h].pc \notin Starting \cup {"idle", "uuid"}
        /\ dev' \in [Devices -> Services \cup {None}] /\ faults' \in 0..MaxFaults
        /\ "delMember" \in Steps
    BY StateFacts DEF CleanMembers, At, budget, Starting, Deletion, Steps
  <1>1. PICK u \in UUIDs, s \in Services :
           /\ u = req[h].u /\ s = req[h].s /\ u # None
           /\ SInv => /\ svc[s] = u /\ \A t \in Services \ {s} : svc[t] # u
                      /\ RecordOK(u) /\ ServiceOK(s) /\ RequestOK(req[h])
    BY <1>0, OwnFacts
  <1>2. req[h] \in Requests /\ FlowOK(req[h])
    BY <1>0, HandlerFacts
  <1>3. CASE Goto(h, "delMember") /\ UNCHANGED res
    <2>1. PICK r \in Requests : /\ Become(h, r) /\ SameOrDone(r, req[h]) /\ r.pc = "delMember"
                                /\ r.u = u /\ r.rec = req[h].rec /\ r.op = req[h].op
                                /\ r.s = s /\ r.size = req[h].size /\ r.todo = req[h].todo
      BY <1>0, <1>1, <1>3, GotoOK
    <2>2. FlowOK(r)
      BY <1>0, <1>1, <1>2, <2>1 DEF FlowOK, StepsOf, HasWhatItNeeds, Starting, Reading, Deletion, AllOps
    <2>3. SInv => RequestOK(r)
      BY <1>0, <1>1, <2>1 DEF RequestOK, Current, Adding, Removing, Deletion
    <2> QED BY <1>0, <1>3, <2>1, <2>2, <2>3, ReadStep, StateFacts DEF budget
  <1>4. CASE \E m : res' = [res EXCEPT ![u] = @ \ {m}] /\ UNCHANGED req
    <2>1. PICK m : res' = [res EXCEPT ![u] = @ \ {m}]
      BY <1>4
    <2>2. res' \in [UUIDs -> SUBSET MemberIds] /\ \A v \in UUIDs : v # u => res'[v] = res[v]
      BY <2>1, StateFacts
    <2>3. TypedDB
      BY <1>0, <2>2, StateFacts DEF TypedDB
    <2>4. PICK r \in Requests : r = req[h]
      BY <1>2
    <2>5. Become(h, r) /\ SameOrDone(r, req[h])
      BY <1>4, <2>4, StateFacts DEF Become, SameOrDone, Continues
    <2>6. SInv => RecordOK(u)' /\ RequestOK(r)'
      <3>1. SInv => attr[u] # None /\ attr[u].status = "DELETING"
        BY <1>0, <1>1 DEF RequestOK, Removing, Deletion
      <3>2. SInv => RecordOK(u)'
        BY <1>0, <1>1, <3>1 DEF RecordOK, Alive, Up
      <3>3. SInv => Current(r)' /\ Removing(r)'
        BY <1>0, <1>1, <2>4 DEF RequestOK, Current, Removing, Up
      <3>4. Adding(r)'
        BY <1>0, <2>4 DEF Adding
      <3> QED BY <3>2, <3>3, <3>4 DEF RequestOK
    <2>7. svc'[s] = svc[s] /\ \A t \in Services \ {s} : svc'[t] = svc[t]
      BY <1>0
    <2>8. /\ FlowOK(r) /\ \A v \in UUIDs \ {u} : attr'[v] = attr[v] /\ members'[v] = members[v]
                                                /\ res'[v] = res[v]
      BY <1>0, <1>2, <2>2, <2>4
    <2> QED BY <1>0, <1>1, <2>3, <2>4, <2>5, <2>6, <2>7, <2>8, DeleteStepLemma DEF budget
  <1> QED BY <1>1, <1>3, <1>4 DEF CleanMembers

LEMMA DeleteServiceMembersLemma ==
  ASSUME IInv, NEW h \in Handlers, DeleteServiceMembers(h)
  PROVE  IInv'
  <1>0. /\ req[h].pc = "delMember" /\ UNCHANGED <<dev, svc, attr, res, ctr, goal, budget>>
        /\ req[h].pc \in Deletion /\ req[h].pc \notin Starting \cup {"idle", "uuid"}
        /\ dev' \in [Devices -> Services \cup {None}] /\ faults' \in 0..MaxFaults
        /\ "delDev" \in Steps
    BY StateFacts DEF DeleteServiceMembers, At, budget, Starting, Deletion, Steps
  <1>1. PICK u \in UUIDs, s \in Services :
           /\ u = req[h].u /\ s = req[h].s /\ u # None
           /\ SInv => /\ svc[s] = u /\ \A t \in Services \ {s} : svc[t] # u
                      /\ RecordOK(u) /\ ServiceOK(s) /\ RequestOK(req[h])
    BY <1>0, OwnFacts
  <1>2. req[h] \in Requests /\ FlowOK(req[h]) /\ req[h].todo \in SUBSET MemberIds
    BY <1>0, HandlerFacts DEF Requests
  <1>3. CASE req[h].todo = {} /\ Goto(h, "delDev") /\ UNCHANGED members
    <2>1. PICK r \in Requests : /\ Become(h, r) /\ SameOrDone(r, req[h]) /\ r.pc = "delDev"
                                /\ r.u = u /\ r.rec = req[h].rec /\ r.op = req[h].op
                                /\ r.s = s /\ r.size = req[h].size /\ r.todo = req[h].todo
      BY <1>0, <1>1, <1>3, GotoOK
    <2>2. FlowOK(r)
      BY <1>0, <1>1, <1>2, <2>1 DEF FlowOK, StepsOf, HasWhatItNeeds, Starting, Reading, Deletion, AllOps
    <2>3. SInv => RequestOK(r)
      <3>1. SInv => members[u] = {}
        BY <1>0, <1>1, <1>3 DEF RequestOK, Removing
      <3> QED BY <1>0, <1>1, <2>1, <3>1 DEF RequestOK, Current, Adding, Removing, Deletion
    <2> QED BY <1>0, <1>3, <2>1, <2>2, <2>3, ReadStep, StateFacts DEF budget
  <1>4. CASE \E m : /\ members' = [members EXCEPT ![u] = @ \ {m}]
                    /\ Become(h, [req[h] EXCEPT !.todo = @ \ {m}])
    <2>1. PICK m : /\ members' = [members EXCEPT ![u] = @ \ {m}]
                   /\ Become(h, [req[h] EXCEPT !.todo = @ \ {m}])
      BY <1>4
    <2>2. /\ members' \in [UUIDs -> SUBSET MemberIds] /\ members'[u] = members[u] \ {m}
          /\ \A v \in UUIDs : v # u => members'[v] = members[v]
      BY <2>1, StateFacts
    <2>3. TypedDB
      <3>1. \A v \in UUIDs : IsFiniteSet(members'[v])
        <4>1. \A v \in UUIDs : IsFiniteSet(members[v])
          BY StateFacts
        <4>2. IsFiniteSet(members[u] \ {m})
          BY <4>1, FS_RemoveElement
        <4> QED BY <2>2, <4>1, <4>2
      <3> QED BY <1>0, <2>2, <3>1, StateFacts DEF TypedDB
    <2>4. PICK todo \in SUBSET MemberIds : todo = req[h].todo \ {m}
      BY <1>2
    <2>5. PICK r \in Requests : /\ Become(h, r) /\ Continues(r, req[h]) /\ r.pc = "delMember" /\ r.u = u
                                /\ r.rec = req[h].rec /\ r.todo = todo
      <3> DEFINE r == [req[h] EXCEPT !.todo = todo]
      <3>1. /\ r \in Requests /\ Continues(r, req[h]) /\ r.pc = "delMember" /\ r.u = u
            /\ r.rec = req[h].rec /\ r.todo = todo
        BY <1>0, <1>1, <1>2 DEF Requests, Continues
      <3>2. Become(h, r)
        BY <2>1, <2>4
      <3> QED BY <3>1, <3>2
    <2>6. FlowOK(r)
      BY <1>0, <1>1, <1>2, <2>5 DEF Continues, FlowOK, StepsOf, HasWhatItNeeds, Starting, Reading,
                                    Deletion, AllOps
    <2>7. SInv => RecordOK(u)' /\ RequestOK(r)'
      <3>1. SInv => attr[u] # None /\ attr[u].status = "DELETING" /\ members[u] \subseteq req[h].todo
        BY <1>0, <1>1 DEF RequestOK, Removing, Deletion
      <3>2. SInv => RecordOK(u)'
        BY <1>0, <1>1, <3>1 DEF RecordOK, Alive, Up
      <3>3. SInv => Current(r)'
        BY <1>0, <1>1, <2>5 DEF Continues, RequestOK, Current, Up
      <3>4. SInv => Removing(r)'
        BY <1>0, <1>1, <2>2, <2>4, <2>5, <3>1 DEF Continues, RequestOK, Removing, Deletion
      <3>5. Adding(r)'
        BY <2>5 DEF Adding
      <3> QED BY <3>2, <3>3, <3>4, <3>5 DEF RequestOK
    <2>8. svc'[s] = svc[s] /\ \A t \in Services \ {s} : svc'[t] = svc[t]
      BY <1>0
    <2>9. \A v \in UUIDs \ {u} : attr'[v] = attr[v] /\ members'[v] = members[v] /\ res'[v] = res[v]
      BY <1>0, <2>2
    <2> QED BY <1>0, <1>1, <2>3, <2>5, <2>6, <2>7, <2>8, <2>9, DeleteStepLemma DEF budget, SameOrDone
  <1> QED BY <1>1, <1>3, <1>4 DEF DeleteServiceMembers

LEMMA DeleteDevicesLemma ==
  ASSUME IInv, NEW h \in Handlers, DeleteDevices(h)
  PROVE  IInv'
  <1>0. /\ req[h].pc \in {"delDev", "delJournal"}
        /\ UNCHANGED <<svc, attr, res, members, ctr, goal, budget>>
        /\ req[h].pc \notin Starting \cup {"idle", "uuid"} /\ faults' \in 0..MaxFaults
        /\ "delJournal" \in Steps /\ "delAttr" \in Steps
    BY StateFacts DEF DeleteDevices, At, budget, Starting, Steps
  <1>1. /\ req[h] \in Requests /\ FlowOK(req[h]) /\ (SInv => RequestOK(req[h]))
    BY <1>0, HandlerFacts
  <1>2. PICK step \in Steps : /\ step \in {"delJournal", "delAttr"} /\ Goto(h, step)
    BY <1>0 DEF DeleteDevices
  <1>3. dev' \in [Devices -> Services \cup {None}]
    <2>1. DeleteDevice(h, req[h].rec.primary) \/ DeleteDevice(h, req[h].rec.journal)
      BY DEF DeleteDevices
    <2> QED BY <2>1, StateFacts DEF DeleteDevice
  <1>4. PICK r \in Requests : /\ Become(h, r) /\ SameOrDone(r, req[h]) /\ r.pc = step
                              /\ r.u = req[h].u /\ r.rec = req[h].rec /\ r.op = req[h].op
                              /\ r.s = req[h].s /\ r.size = req[h].size /\ r.todo = req[h].todo
    BY <1>0, <1>2, GotoOK
  <1>5. FlowOK(r)
    BY <1>0, <1>1, <1>2, <1>4 DEF FlowOK, StepsOf, HasWhatItNeeds, Starting, Reading, Deletion, AllOps
  <1>6. SInv => RequestOK(r)
    BY <1>0, <1>1, <1>2, <1>4 DEF RequestOK, Current, Adding, Removing, Deletion
  <1> QED BY <1>0, <1>3, <1>4, <1>5, <1>6, ReadStep DEF budget

LEMMA DeleteServiceAttrLemma ==
  ASSUME IInv, NEW h \in Handlers, DeleteServiceAttr(h)
  PROVE  IInv'
  <1>0. /\ req[h].pc = "delAttr" /\ UNCHANGED <<dev, svc, res, members, ctr, goal, budget>>
        /\ req[h].pc \in Deletion /\ req[h].pc \notin Starting \cup {"idle", "uuid"}
        /\ "delSvc" \in Steps /\ Goto(h, "delSvc")
    BY DEF DeleteServiceAttr, At, Starting, Deletion, Steps
  <1>1. PICK u \in UUIDs, s \in Services :
           /\ u = req[h].u /\ s = req[h].s /\ u # None
           /\ SInv => /\ svc[s] = u /\ \A t \in Services \ {s} : svc[t] # u
                      /\ RecordOK(u) /\ ServiceOK(s) /\ RequestOK(req[h])
    BY <1>0, OwnFacts
  <1>2. /\ attr' \in [UUIDs -> Attrs \cup {None}] /\ attr'[u] = None
        /\ \A v \in UUIDs : v # u => attr'[v] = attr[v]
    BY <1>1, StateFacts DEF DeleteServiceAttr
  <1>3. TypedDB
    BY <1>0, <1>2, StateFacts DEF TypedDB
  <1>4. PICK r \in Requests : /\ Become(h, r) /\ SameOrDone(r, req[h]) /\ r.pc = "delSvc"
                              /\ r.u = u /\ r.rec = req[h].rec /\ r.op = req[h].op
                              /\ r.s = s /\ r.size = req[h].size /\ r.todo = req[h].todo
    BY <1>0, <1>1, GotoOK
  <1>5. FlowOK(r)
    BY <1>0, <1>1, <1>4, HandlerFacts DEF FlowOK, StepsOf, HasWhatItNeeds, Starting, Reading,
                                          Deletion, AllOps
  <1>6. SInv => RecordOK(u)' /\ RequestOK(r)'
    <2>1. SInv => members'[u] = {} /\ svc'[s] = u /\ ctr'[s] = None
      BY <1>0, <1>1, HandlerFacts DEF RequestOK, Removing, Deletion, FlowOK, StepsOf
    <2>2. SInv => RecordOK(u)'
      BY <1>2, <2>1 DEF RecordOK, Alive, Up
    <2>3. SInv => RequestOK(r)'
      BY <1>2, <1>4, <2>1 DEF RequestOK, Current, Adding, Removing, Deletion
    <2> QED BY <2>2, <2>3
  <1>7. /\ svc'[s] = svc[s] /\ \A t \in Services \ {s} : svc'[t] = svc[t]
        /\ \A v \in UUIDs \ {u} : attr'[v] = attr[v] /\ members'[v] = members[v] /\ res'[v] = res[v]
    BY <1>0, <1>2
  <1> QED BY <1>0, <1>1, <1>3, <1>4, <1>5, <1>6, <1>7, DeleteStepLemma

LEMMA DeleteServiceItemLemma ==
  ASSUME IInv, NEW h \in Handlers, DeleteServiceItem(h)
  PROVE  IInv'
  <1>0. /\ req[h].pc = "delSvc" /\ UNCHANGED <<dev, attr, res, members, ctr, goal, budget>>
        /\ req[h].pc \in Deletion /\ req[h].pc \notin Starting \cup {"idle", "uuid"} /\ Return(h)
    BY DEF DeleteServiceItem, At, Starting, Deletion
  <1>1. PICK u \in UUIDs, s \in Services :
           /\ u = req[h].u /\ s = req[h].s /\ u # None
           /\ SInv => /\ svc[s] = u /\ \A t \in Services \ {s} : svc[t] # u
                      /\ RecordOK(u) /\ ServiceOK(s) /\ RequestOK(req[h])
    BY <1>0, OwnFacts
  <1>2. /\ svc' \in [Services -> UUIDs \cup {None}] /\ svc'[s] = None
        /\ \A t \in Services \ {s} : svc'[t] = svc[t]
    BY <1>1, StateFacts DEF DeleteServiceItem
  <1>3. TypedDB
    BY <1>0, <1>2, StateFacts DEF TypedDB
  <1>4. SInv => RecordOK(u)'
    <2>1. SInv => attr[u] = None
      BY <1>0, <1>1 DEF RequestOK, Removing
    <2> QED BY <1>0, <1>1, <2>1 DEF RecordOK, Alive, Up
  <1>5. RequestOK(NoRequest)'
    BY NoRequestFacts, Facts DEF RequestOK, Current, Adding, Removing, Deletion
  <1>6. \A v \in UUIDs \ {u} : attr'[v] = attr[v] /\ members'[v] = members[v] /\ res'[v] = res[v]
    BY <1>0
  <1> QED BY <1>0, <1>1, <1>2, <1>3, <1>4, <1>5, <1>6, DeleteStepLemma, ReturnOK DEF Return, SameOrDone

-----------------------------------------------------------------------------
(* Failures and users *)

LEMMA FaultLemma ==
  ASSUME IInv, NEW h \in Handlers, Fault(h)
  PROVE  IInv'
  <1>1. faults' \in 0..MaxFaults
    BY StateFacts, LifecycleAssumption DEF Fault
  <1>2. /\ req[h].pc # "idle" /\ Return(h) /\ dev' \in [Devices -> Services \cup {None}]
        /\ UNCHANGED <<svc, attr, res, members, ctr, goal, crashes>>
    BY StateFacts DEF Fault, At, dbVars
  <1> QED BY <1>1, <1>2, ReturnStep

LEMMA CrashLemma ==
  ASSUME IInv, Crash
  PROVE  IInv'
  <1>0. /\ UNCHANGED <<dbVars, ctr, goal, faults>> /\ req' = [h \in Handlers |-> NoRequest]
        /\ crashes' \in 0..MaxCrashes
    BY StateFacts, LifecycleAssumption DEF Crash
  <1>1. TypeInv'
    BY <1>0, ReturnOK DEF IInv, TypeInv, TypeOK, dbVars
  <1>2. ASSUME SInv PROVE SInv'
    <2>1. \A h \in Handlers : req'[h] = NoRequest
      BY <1>0
    <2>2. RequestOK(NoRequest)'
      BY NoRequestFacts, Facts DEF RequestOK, Current, Adding, Removing, Deletion
    <2>3. (\A h \in Handlers : RequestOK(req[h]))'
      BY <2>1, <2>2
    <2>4. Alone'
      BY <2>1, NoRequestFacts DEF Alone
    <2>5. (\A u \in UUIDs : RecordOK(u))' /\ (\A s \in Services : ServiceOK(s))'
      BY <1>0, <1>2 DEF SInv, RecordOK, ServiceOK, Alive, Up, dbVars
    <2> QED BY <2>3, <2>4, <2>5 DEF SInv
  <1> QED BY <1>1, <1>2 DEF IInv

LEMMA BeginLemma ==
  ASSUME IInv, NEW h \in Handlers, NEW op \in Ops, NEW s \in Services, Begin(h, op, s)
  PROVE  IInv'
  <1>0. /\ req[h].pc = "idle" /\ UNCHANGED <<dbVars, ctr, goal, budget>>
        /\ \A g \in Handlers : req[g].s = s => <<op, req[g].op>> \in Overlaps
    BY DEF Begin, At
  <1>1. PICK size \in Sizes(op) :
           Become(h, [NoRequest EXCEPT !.op = op, !.s = s, !.pc = FirstStep(op), !.size = size])
    BY DEF Begin
  <1>2. size \in Targets /\ (op # "scale" => size = Replicas) /\ op \in AllOps
    BY LifecycleAssumption, Facts DEF Sizes, Targets
  <1>3. PICK r \in Requests : /\ Become(h, r) /\ r.op = op /\ r.s = s /\ r.size = size
                              /\ r.pc = FirstStep(op) /\ r.u = None /\ r.rec = None
    <2> DEFINE r == [NoRequest EXCEPT !.op = op, !.s = s, !.pc = FirstStep(op), !.size = size]
    <2>1. FirstStep(op) \in Steps
      BY DEF FirstStep, Steps
    <2>2. /\ r \in Requests /\ r.op = op /\ r.s = s /\ r.size = size
          /\ r.pc = FirstStep(op) /\ r.u = None /\ r.rec = None
      BY <1>2, <2>1, NoRequestFacts DEF Requests
    <2> QED BY <1>1, <2>2
  <1>4. FlowOK(r) /\ RequestOK(r)
    <2>1. r.pc \in Starting \cup {"uuid"} /\ (r.pc \in Starting => op = "create")
          /\ (r.pc = "uuid" => op # "create") /\ r.pc \notin {"putDev", "putSvc", "getSvc"}
      BY <1>3 DEF FirstStep, Starting
    <2>2. FlowOK(r)
      BY <1>2, <1>3, <2>1 DEF FlowOK, StepsOf, HasWhatItNeeds, Starting, Reading, Deletion, AllOps
    <2> QED BY <1>3, <2>1, <2>2, StartingOK
  <1>5. TypeInv'
    <2>1. TypedDB /\ faults' \in 0..MaxFaults
      BY <1>0, StateFacts DEF TypedDB, dbVars, budget
    <2> QED BY <1>0, <1>3, <1>4, <2>1, TypedStep DEF IInv, budget
  <1>6. ASSUME DeletesAlone, SInv PROVE SInv'
    <2>1. req'[h] = r /\ \A g \in Handlers : g # h => req'[g] = req[g]
      BY <1>3, StateFacts DEF Become
    <2>2. ASSUME NEW q, RequestOK(q) PROVE RequestOK(q)'
      BY <1>0, <2>2 DEF RequestOK, Current, Adding, Removing, Alive, Up, dbVars
    <2>3. ASSUME NEW g \in Handlers PROVE RequestOK(req[g])'
      <3>1. PICK q : q = req'[g] /\ RequestOK(q)
        BY <1>4, <1>6, <2>1 DEF SInv
      <3> QED BY <2>2, <3>1
    <2>4. Alone'
      <3>1. \A g \in Handlers : req[g].s = s => op # "delete" /\ req[g].op # "delete"
        <4>1. ASSUME NEW g \in Handlers, req[g].s = s PROVE op # "delete" /\ req[g].op # "delete"
          <5>1. req[g].pc # "idle"
            BY <4>1, Facts, NoRequestFacts DEF IInv, TypeInv, FlowOK, StepsOf
          <5>2. req[g].op \in Ops
            BY <5>1, HandlerFacts
          <5> QED BY <1>0, <1>6, <4>1, <5>2 DEF DeletesAlone
        <4> QED BY <4>1
      <3> QED BY <1>3, <1>6, <2>1, <3>1 DEF SInv, Alone
    <2>5. (\A u \in UUIDs : RecordOK(u))' /\ (\A t \in Services : ServiceOK(t))'
      BY <1>0, <1>6 DEF SInv, RecordOK, ServiceOK, Alive, Up, dbVars
    <2> QED BY <2>3, <2>4, <2>5 DEF SInv
  <1> QED BY <1>5, <1>6 DEF IInv

LEMMA SameState ==
  ASSUME IInv, UNCHANGED <<dbVars, ctr, req, budget>>, goal' \in [Services -> {"create", "delete"}]
  PROVE  IInv'
  <1>1. TypeInv'
    BY DEF IInv, TypeInv, TypeOK, dbVars, budget
  <1>2. ASSUME SInv PROVE SInv'
    <2>1. ASSUME NEW q, RequestOK(q) PROVE RequestOK(q)'
      BY <2>1 DEF RequestOK, Current, Adding, Removing, Alive, Up, dbVars
    <2>2. (\A h \in Handlers : RequestOK(req[h]))'
      BY <1>2, <2>1 DEF SInv
    <2> QED BY <1>2, <2>2 DEF SInv, Alone, RecordOK, ServiceOK, Alive, Up, dbVars
  <1> QED BY <1>1, <1>2 DEF IInv

LEMMA InitLemma == Init => IInv
  <1> SUFFICES ASSUME Init PROVE IInv
    OBVIOUS
  <1>1. \A h \in Handlers : req[h] = NoRequest
    BY DEF Init
  <1>2. TypeInv
    <2>1. \A u \in UUIDs : IsFiniteSet(members[u])
      BY FS_EmptySet DEF Init
    <2>2. TypeOK
      BY ReturnOK, LifecycleAssumption DEF Init, TypeOK
    <2> QED BY <1>1, <2>1, <2>2, ReturnOK DEF TypeInv
  <1>3. SInv
    <2>1. Alone /\ \A h \in Handlers : RequestOK(req[h])
      BY <1>1, NoRequestFacts, DoneOK DEF Alone
    <2>2. \A u \in UUIDs : RecordOK(u)
      BY DEF Init, RecordOK, Alive, Up
    <2>3. \A s \in Services : ServiceOK(s)
      BY DEF Init, ServiceOK
    <2> QED BY <2>1, <2>2, <2>3 DEF SInv
  <1> QED BY <1>2, <1>3 DEF IInv

LEMMA InductiveStep == IInv /\ [Next]_vars => IInv'
  <1> SUFFICES ASSUME IInv, [Next]_vars PROVE IInv'
    OBVIOUS
  <1>1. ASSUME NEW h \in Handlers, CreateStep(h) PROVE IInv'
    BY <1>1, AssignDeviceNameLemma, CreateDeviceLemma, CreateServiceItemLemma, GetServiceItemLemma,
       CreateServiceAttrLemma, CheckServiceAttrLemma, SetInitializingLemma, IsServiceExistLemma,
       CreateContainerServiceLemma DEF CreateStep
  <1>2. ASSUME NEW h \in Handlers, MemberStep(h) PROVE IInv'
    BY <1>2, CountMembersLemma, CreateMemberResourcesLemma, CreateServiceMemberLemma DEF MemberStep
  <1>3. ASSUME NEW h \in Handlers, UpdateStep(h) PROVE IInv'
    BY <1>3, GetServiceLemma, GetServiceAttrLemma, ReadForInitLemma, SetActiveLemma,
       StopContainersLemma, ScaleContainersLemma, UpdateContainerServiceLemma, UpdateAttrLemma
       DEF UpdateStep
  <1>4. ASSUME NEW h \in Handlers, DeleteStep(h) PROVE IInv'
    BY <1>4, DeleteContainerServiceLemma, ReadForDeleteLemma, MarkDeletingLemma,
       ListServiceMembersLemma, CleanMembersLemma, DeleteServiceMembersLemma, DeleteDevicesLemma,
       DeleteServiceAttrLemma, DeleteServiceItemLemma DEF DeleteStep
  <1>5. CASE \E s \in Services : ChangeGoal(s)
    <2>1. goal' \in [Services -> {"create", "delete"}] /\ UNCHANGED <<dbVars, ctr, req, budget>>
      BY <1>5 DEF IInv, TypeInv, TypeOK, ChangeGoal
    <2> QED BY <2>1, SameState
  <1>6. CASE UNCHANGED vars
    BY <1>6, SameState DEF vars, IInv, TypeInv, TypeOK
  <1> QED BY <1>1, <1>2, <1>3, <1>4, <1>5, <1>6, FaultLemma, BeginLemma, CrashLemma
          DEF Next, HandlerStep

LEMMA Inductive == Spec => []IInv
  BY InitLemma, InductiveStep, PTL DEF Spec

-----------------------------------------------------------------------------

(* TypeOK: whatever requests overlap, the records, the framework's services *)
(* and the requests of the manage server keep their types.                  *)
THEOREM TypeCorrect == Spec => []TypeOK
  <1>1. IInv => TypeOK
    BY DEF IInv, TypeInv
  <1> QED BY Inductive, <1>1, PTL

(* NoOrphanMember: while a delete request for a service works alone, it     *)
(* leaves no member record behind the attr record, whatever failed before   *)
(* (DeleteService).                                                         *)
THEOREM NoOrphans == ASSUME DeletesAlone PROVE Spec => []NoOrphanMember
  <1>1. IInv => NoOrphanMember
    BY DEF IInv, SInv, RecordOK, NoOrphanMember
  <1> QED BY Inductive, <1>1, PTL

(* MembersComplete: a service that counts as created, or as scaled, has the *)
(* records and the resources of all its members, though creations, scalings *)
(* and retries of it overlap (CheckAndCreateServiceMembers).                *)
THEOREM MembersAreComplete == ASSUME DeletesAlone PROVE Spec => []MembersComplete
  <1>1. IInv => MembersComplete
    <2> SUFFICES ASSUME IInv, NEW u \in UUIDs, Up(u)
                 PROVE  1..attr[u].replicas \subseteq members[u] \cap res[u]
      BY DEF MembersComplete, Up
    <2>1. RecordOK(u) /\ Alive(u)
      BY DEF IInv, SInv, Up, Alive
    <2> QED BY <2>1 DEF RecordOK
  <1> QED BY Inductive, <1>1, PTL

(* TasksHaveMembers: the framework runs a service only while its records    *)
(* are there, and never more tasks than members that have a record          *)
(* (ScaleService before UpdateServiceAttr, CreateService after it).         *)
THEOREM TasksFindMembers == ASSUME DeletesAlone PROVE Spec => []TasksHaveMembers
  <1>1. IInv => TasksHaveMembers
    BY DEF IInv, SInv, ServiceOK, TasksHaveMembers
  <1> QED BY Inductive, <1>1, PTL

-----------------------------------------------------------------------------
(* Updates of the attr record *)

Kept == \A u \in UUIDs : attr[u] # None /\ attr'[u] # None => ~Undoes(attr[u], attr'[u])

LEMMA RankFacts ==
  /\ Rank["CREATING"] = 0 /\ Rank["INITIALIZING"] = 1 /\ Rank["ACTIVE"] = 2 /\ Rank["DELETING"] = 3
  /\ \A status \in Statuses : Rank[status] \in 0..3 /\ Rank[status] <= Rank[status]
  BY DEF Rank, Statuses

LEMMA SameRecord == ASSUME NEW a \in Attrs PROVE ~Undoes(a, a)
  <1>1. a.status \in Statuses /\ a.replicas \in Nat
    BY AttrNumbers DEF Attrs
  <1>2. Rank[a.status] \in 0..3
    BY <1>1, RankFacts
  <1> QED BY <1>1, <1>2 DEF Undoes

LEMMA SameKept == ASSUME IInv, attr' = attr PROVE Kept
  BY StateFacts, SameRecord DEF Kept

(* An update only replaces the record it was made from. *)
LEMMA UpdateKeeps ==
  ASSUME IInv, SInv, NEW h \in Handlers,
         req[h].pc \notin Starting \cup Reading \cup {"idle", "uuid", "putAttr", "attr", "delSvc"},
         NEW new \in Attrs, UpdateServiceAttr(req[h].u, req[h].rec, new, TRUE),
         ~Undoes(req[h].rec, new)
  PROVE  Kept
  <1>1. PICK u \in UUIDs : u = req[h].u /\ RequestOK(req[h])
    BY OwnFacts DEF Starting
  <1>2. req[h].rec # None
    BY HandlerFacts DEF FlowOK, HasWhatItNeeds
  <1>3. /\ attr[u] # None /\ attr[u].rev = req[h].rec.rev /\ attr' = [attr EXCEPT ![u] = new]
    BY <1>1 DEF UpdateServiceAttr
  <1>4. attr[u] = req[h].rec
    BY <1>1, <1>2, <1>3 DEF RequestOK, Current
  <1>5. attr'[u] = new /\ \A v \in UUIDs : v # u => attr'[v] = attr[v]
    BY <1>3, StateFacts
  <1>6. \A v \in UUIDs : attr[v] # None => ~Undoes(attr[v], attr[v])
    BY StateFacts, SameRecord
  <1> QED BY <1>4, <1>5, <1>6 DEF Kept

LEMMA StatusGoesOn ==
  ASSUME NEW a \in Attrs, NEW status \in Statuses, Rank[a.status] <= Rank[status]
  PROVE  ~Undoes(a, UpdateServiceStatus(a, status))
  <1> DEFINE b == UpdateServiceStatus(a, status)
  <1>1. b.status = status /\ b.replicas = a.replicas /\ b.resource = a.resource
    BY DEF UpdateServiceStatus, Attrs
  <1>2. Rank[a.status] \in 0..3 /\ Rank[status] \in 0..3 /\ a.replicas \in Nat
    BY RankFacts, AttrNumbers DEF Attrs
  <1> HIDE DEF b
  <1>3. ~Undoes(a, b)
    BY <1>1, <1>2 DEF Undoes
  <1> QED BY <1>3 DEF b

LEMMA KeptStep == ASSUME IInv, DeletesAlone, [Next]_vars PROVE Kept
  <1>0. SInv
    BY DEF IInv
  <1>1. ASSUME NEW h \in Handlers, SetInitializing(h) PROVE Kept
    <2>1. /\ req[h].pc = "status" /\ req[h].rec \in Attrs /\ req[h].rec.status = "CREATING"
      BY <1>1, HandlerFacts DEF SetInitializing, At, FlowOK, StepsOf, HasWhatItNeeds, Starting, Reading,
                                Requests
    <2>2. PICK new \in Attrs : /\ new = UpdateServiceStatus(req[h].rec, "INITIALIZING")
                               /\ ~Undoes(req[h].rec, new)
      <3>1. Rank[req[h].rec.status] <= Rank["INITIALIZING"] /\ "INITIALIZING" \in Statuses
        BY <2>1, RankFacts DEF Statuses
      <3> QED BY <2>1, <3>1, StatusGoesOn, StatusOK
    <2>3. attr' = attr \/ UpdateServiceAttr(req[h].u, req[h].rec, new, TRUE)
      BY <1>1, <2>2 DEF SetInitializing, UpdateServiceAttr
    <2> QED BY <1>0, <2>1, <2>2, <2>3, SameKept, UpdateKeeps DEF Starting, Reading
  <1>2. ASSUME NEW h \in Handlers, SetActive(h) PROVE Kept
    <2>1. /\ req[h].pc = "active" /\ req[h].rec \in Attrs /\ req[h].rec.status = "INITIALIZING"
      BY <1>2, HandlerFacts DEF SetActive, At, FlowOK, StepsOf, HasWhatItNeeds, Starting, Reading,
                                Requests
    <2>2. PICK new \in Attrs : /\ new = UpdateServiceStatus(req[h].rec, "ACTIVE")
                               /\ ~Undoes(req[h].rec, new)
      <3>1. Rank[req[h].rec.status] <= Rank["ACTIVE"] /\ "ACTIVE" \in Statuses
        BY <2>1, RankFacts DEF Statuses
      <3> QED BY <2>1, <3>1, StatusGoesOn, StatusOK
    <2>3. attr' = attr \/ UpdateServiceAttr(req[h].u, req[h].rec, new, TRUE)
      BY <1>2, <2>2 DEF SetActive, UpdateServiceAttr
    <2> QED BY <1>0, <2>1, <2>2, <2>3, SameKept, UpdateKeeps DEF Starting, Reading
  <1>3. ASSUME NEW h \in Handlers, MarkDeleting(h) PROVE Kept
    <2>1. req[h].pc = "mark" /\ req[h].rec \in Attrs /\ req[h].rec.status \in Statuses
      <3>1. req[h].pc = "mark" /\ req[h].rec \in Attrs
        BY <1>3, HandlerFacts DEF MarkDeleting, At, FlowOK, HasWhatItNeeds, Starting, Reading, Requests
      <3> QED BY <3>1 DEF Attrs
    <2>2. PICK new \in Attrs : /\ new = UpdateServiceStatus(req[h].rec, "DELETING")
                               /\ ~Undoes(req[h].rec, new)
      <3>1. Rank[req[h].rec.status] <= Rank["DELETING"] /\ "DELETING" \in Statuses
        BY <2>1, RankFacts DEF Statuses
      <3> QED BY <2>1, <3>1, StatusGoesOn, StatusOK
    <2>3. attr' = attr \/ UpdateServiceAttr(req[h].u, req[h].rec, new, TRUE)
      BY <1>3, <2>2 DEF MarkDeleting, UpdateServiceAttr
    <2> QED BY <1>0, <2>1, <2>2, <2>3, SameKept, UpdateKeeps DEF Starting, Reading
  <1>4. ASSUME NEW h \in Handlers, UpdateAttr(h) PROVE Kept
    <2>1. req[h].pc = "update"
      BY <1>4 DEF UpdateAttr, At
    <2>2. PICK new \in Attrs : new = UpdatedAttr(h) /\ ~Undoes(req[h].rec, new)
      <3>1. PICK a \in Attrs, b \in Attrs :
              /\ a = req[h].rec /\ b = UpdatedAttr(h) /\ b.status = a.status
              /\ a.replicas <= b.replicas /\ (a.resource = "new" => b.resource = "new")
        BY <2>1, UpdatedAttrOK
      <3>2. Rank[a.status] \in 0..3 /\ a.replicas \in Nat /\ b.replicas \in Nat
        BY AttrNumbers, RankFacts DEF Attrs
      <3>3. ~Undoes(a, b)
        BY <3>1, <3>2 DEF Undoes
      <3> QED BY <3>1, <3>3
    <2>3. attr' = attr \/ UpdateServiceAttr(req[h].u, req[h].rec, new, TRUE)
      BY <1>4, <2>2 DEF UpdateAttr, UpdateServiceAttr
    <2> QED BY <1>0, <2>1, <2>2, <2>3, SameKept, UpdateKeeps DEF Starting, Reading
  <1>5. ASSUME NEW h \in Handlers, CreateServiceAttr(h) PROVE Kept
    <2>1. PICK u \in UUIDs : u = req[h].u
      BY <1>5, HandlerFacts DEF CreateServiceAttr, At, FlowOK, HasWhatItNeeds, Starting, Requests
    <2>2. CASE attr' = attr
      BY <2>2, SameKept
    <2>3. CASE attr[u] = None /\ attr' = [attr EXCEPT ![u] = NewAttr(h)]
      BY <2>3, StateFacts, SameRecord DEF Kept
    <2> QED BY <1>5, <2>1, <2>2, <2>3 DEF CreateServiceAttr
  <1>6. ASSUME NEW h \in Handlers, DeleteServiceAttr(h) PROVE Kept
    <2>1. PICK u \in UUIDs : u = req[h].u
      BY <1>6, HandlerFacts DEF DeleteServiceAttr, At, FlowOK, HasWhatItNeeds, Starting, Requests
    <2>2. attr' = [attr EXCEPT ![u] = None]
      BY <1>6, <2>1 DEF DeleteServiceAttr
    <2> QED BY <2>2, StateFacts, SameRecord DEF Kept
  <1>7. ASSUME NEW h \in Handlers, HandlerStep(h) PROVE Kept
    <2>1. \/ attr' = attr \/ SetInitializing(h) \/ SetActive(h) \/ MarkDeleting(h) \/ UpdateAttr(h)
          \/ CreateServiceAttr(h) \/ DeleteServiceAttr(h)
      <3>1. CASE CreateStep(h)
        BY <3>1 DEF CreateStep, AssignDeviceName, CreateDevice, CreateServiceItem, GetServiceItem,
                    CheckServiceAttr, IsServiceExist, CreateContainerService, dbVars
      <3>2. CASE MemberStep(h)
        BY <3>2 DEF MemberStep, CountMembers, CreateMemberResources, CreateServiceMember, dbVars
      <3>3. CASE UpdateStep(h)
        BY <3>3 DEF UpdateStep, GetService, GetServiceAttr, ReadForInit, StopContainers,
                    ScaleContainers, UpdateContainerService, dbVars
      <3>4. CASE DeleteStep(h)
        BY <3>4 DEF DeleteStep, DeleteContainerService, ReadForDelete, ListServiceMembers,
                    CleanMembers, DeleteServiceMembers, DeleteDevices, DeleteServiceItem, dbVars
      <3> QED BY <1>7, <3>1, <3>2, <3>3, <3>4 DEF HandlerStep
    <2> QED BY <1>1, <1>2, <1>3, <1>4, <1>5, <1>6, <2>1, SameKept
  <1>8. CASE \/ \E h \in Handlers : Fault(h)
             \/ \E h \in Handlers, op \in Ops, s \in Services : Begin(h, op, s)
             \/ \E s \in Services : ChangeGoal(s)
             \/ Crash \/ UNCHANGED vars
    <2>1. attr' = attr
      BY <1>8 DEF Fault, Begin, ChangeGoal, Crash, dbVars, vars
    <2> QED BY <2>1, SameKept
  <1> QED BY <1>7, <1>8 DEF Next

(* NoLostUpdate: creations, scalings, changes of resources, initialisations *)
(* and deletions that overlap do not undo what another of them has written  *)
(* in the attr record (UpdateServiceAttr, conditional on the revision).     *)
THEOREM UpdatesAreKept == ASSUME DeletesAlone PROVE Spec => NoLostUpdate
  <1>1. IInv /\ [Next]_vars => [Kept]_vars
    BY KeptStep
  <1>2. [][Kept]_vars => NoLostUpdate
    BY PTL DEF Kept, NoLostUpdate
  <1> QED BY Inductive, <1>1, <1>2, PTL DEF Spec

-----------------------------------------------------------------------------
(* Devices *)

(* No deletion ends half way: a repeated one deletes the Device records of  *)
(* the attr record again (deleteDevices), whoever has the devices by then.  *)
DeletesEnd == "delete" \in Ops => MaxFaults = 0 /\ MaxCrashes = 0

(* The devices of a record, or of a request, are its service's. *)
OwnsPrimary(a, s) == a.primary # None => dev[a.primary] = s
OwnsJournal(a, s) == a.journal # None => dev[a.journal] = s /\ a.primary # a.journal

Claimed == {"mark", "list", "clean", "delMember", "delDev"}  \* before DeleteDevices
Marked == {"list", "clean", "delMember", "delDev", "delJournal", "delAttr"}
Owner(r) ==
  /\ OwnsPrimary(r, r.s) /\ OwnsJournal(r, r.s)
  /\ r.op # "create" => r.primary = None
  /\ r.primary = None => r.journal = None
  /\ r.pc \in Claimed => OwnsPrimary(r.rec, r.s)
  /\ r.pc \in Claimed \cup {"delJournal"} => OwnsJournal(r.rec, r.s)
DevicesOK ==
  /\ \A u \in UUIDs : Alive(u) => OwnsPrimary(attr[u], attr[u].name) /\ OwnsJournal(attr[u], attr[u].name)
  /\ \A h \in Handlers : Owner(req[h])
  /\ \A u \in UUIDs : attr[u] # None /\ ~Alive(u) =>
       "delete" \in Ops /\ \E h \in Handlers : req[h].u = u /\ req[h].pc \in Marked
DInv == DeletesAlone /\ DeletesEnd => DevicesOK

Others(h) == \A g \in Handlers \ {h} : req'[g] = req[g]
Grow == \A d \in Devices : dev[d] # None => dev'[d] = dev[d]

LEMMA BecomeOthers ==
  ASSUME IInv, NEW h \in Handlers, NEW r, Become(h, r)
  PROVE  Others(h) /\ req'[h] = r
  BY StateFacts DEF Become, Others

LEMMA NoOwner == Owner(NoRequest) /\ Owner(NoRequest)'
  BY DEF Owner, OwnsPrimary, OwnsJournal, Claimed, NoRequest

LEMMA OwnerGrows ==
  ASSUME NEW q \in Requests, FlowOK(q), Owner(q), Grow
  PROVE  Owner(q)'
  <1>1. CASE q.pc = "idle"
    BY <1>1, NoOwner DEF FlowOK, StepsOf
  <1>2. CASE q.pc # "idle"
    <2>1. q.s \in Services /\ q.s # None /\ (q.rec # None => q.rec \in Attrs)
      BY <1>2, Facts DEF FlowOK, StepsOf, Requests
    <2>2. OwnsPrimary(q, q.s)'
      BY <2>1 DEF Owner, OwnsPrimary, Requests, Grow
    <2>3. OwnsJournal(q, q.s)'
      BY <2>1 DEF Owner, OwnsJournal, Requests, Grow
    <2>4. ASSUME q.pc \in Claimed \cup {"delJournal"}
          PROVE  /\ q.pc \in Claimed => OwnsPrimary(q.rec, q.s)'
                 /\ OwnsJournal(q.rec, q.s)'
      <3>1. PICK a \in Attrs : a = q.rec
        BY <2>1, <2>4 DEF Claimed, FlowOK, HasWhatItNeeds, Starting, Reading
      <3>2. a.primary \in Devices /\ a.journal \in Devices \cup {None}
        BY DEF Attrs
      <3> QED BY <2>1, <2>4, <3>1, <3>2 DEF Owner, OwnsPrimary, OwnsJournal, Grow
    <2> QED BY <2>2, <2>3, <2>4 DEF Owner
  <1> QED BY <1>1, <1>2

(* A step of h after which the devices in use are still in use. *)
LEMMA GrowStep ==
  ASSUME IInv, DevicesOK, NEW h \in Handlers, Others(h), Grow, Owner(req[h])',
         \A v \in UUIDs : \/ attr'[v] = attr[v] \/ attr'[v] = None
                          \/ OwnsPrimary(attr[v], attr[v].name)' /\ OwnsJournal(attr[v], attr[v].name)',
         \A v \in UUIDs : attr'[v] # None /\ ~Alive(v)' =>
           \/ /\ attr'[v] = attr[v]
              /\ req[h].u = v /\ req[h].pc \in Marked => req'[h].u = v /\ req'[h].pc \in Marked
           \/ "delete" \in Ops /\ req'[h].u = v /\ req'[h].pc \in Marked
  PROVE  DevicesOK'
  <1>1. ASSUME NEW v \in UUIDs, Alive(v)'
        PROVE  OwnsPrimary(attr[v], attr[v].name)' /\ OwnsJournal(attr[v], attr[v].name)'
    <2>1. CASE attr'[v] = attr[v]
      <3>1. PICK a \in Attrs : a = attr[v] /\ a = attr'[v] /\ Alive(v)
        BY <1>1, <2>1, StateFacts DEF Alive
      <3>2. /\ a.primary \in Devices /\ a.journal \in Devices \cup {None}
            /\ a.name \in Services /\ a.name # None
        BY Facts DEF Attrs
      <3>3. OwnsPrimary(a, a.name) /\ OwnsJournal(a, a.name)
        BY <3>1 DEF DevicesOK
      <3>4. OwnsPrimary(a, a.name)' /\ OwnsJournal(a, a.name)'
        BY <3>2, <3>3 DEF OwnsPrimary, OwnsJournal, Grow
      <3> QED BY <3>1, <3>4
    <2>2. attr'[v] # None
      BY <1>1 DEF Alive
    <2> QED BY <2>1, <2>2
  <1>2. ASSUME NEW g \in Handlers PROVE Owner(req[g])'
    <2>1. CASE g # h
      <3>1. PICK q \in Requests : q = req[g] /\ q = req'[g] /\ FlowOK(q) /\ Owner(q)
        BY <2>1, StateFacts DEF IInv, TypeInv, DevicesOK, Others
      <3>2. Owner(q)'
        BY <3>1, OwnerGrows
      <3> QED BY <3>1, <3>2
    <2> QED BY <2>1
  <1>3. ASSUME NEW v \in UUIDs, attr'[v] # None, ~Alive(v)'
        PROVE  "delete" \in Ops /\ \E g \in Handlers : req'[g].u = v /\ req'[g].pc \in Marked
    <2>1. CASE "delete" \in Ops /\ req'[h].u = v /\ req'[h].pc \in Marked
      BY <2>1
    <2>2. CASE /\ attr'[v] = attr[v]
               /\ req[h].u = v /\ req[h].pc \in Marked => req'[h].u = v /\ req'[h].pc \in Marked
      <3>1. attr[v] # None /\ ~Alive(v)
        BY <1>3, <2>2 DEF Alive
      <3>2. PICK g \in Handlers : "delete" \in Ops /\ req[g].u = v /\ req[g].pc \in Marked
        BY <3>1 DEF DevicesOK
      <3>3. g # h => req'[g] = req[g]
        BY DEF Others
      <3> QED BY <2>2, <3>2, <3>3
    <2> QED BY <1>3, <2>1, <2>2
  <1> QED BY <1>1, <1>2, <1>3 DEF DevicesOK

(* A step that neither takes a device nor deletes anything. *)
Plain(h) ==
  /\ req[h].pc \notin Marked /\ Others(h)
  /\ \/ req'[h] = NoRequest
     \/ /\ req'[h].op = req[h].op /\ req'[h].s = req[h].s
        /\ req'[h].primary = req[h].primary /\ req'[h].journal = req[h].journal
        /\ req'[h].pc \notin Claimed \cup {"delJournal"}

LEMMA PlainOwner ==
  ASSUME IInv, DevicesOK, NEW h \in Handlers, Plain(h), dev' = dev
  PROVE  Owner(req[h])' /\ Others(h) /\ Grow
  <1>1. PICK q : q = req'[h]
    OBVIOUS
  <1>2. Owner(req[h])
    BY DEF DevicesOK
  <1>3. Owner(q)
    <2>1. CASE q = NoRequest
      BY <2>1, NoOwner
    <2>2. CASE q # NoRequest
      BY <1>1, <1>2, <2>2 DEF Plain, Owner, OwnsPrimary, OwnsJournal
    <2> QED BY <2>1, <2>2
  <1>4. Owner(q)'
    BY <1>3 DEF Owner, OwnsPrimary, OwnsJournal
  <1> QED BY <1>1, <1>4 DEF Plain, Grow

LEMMA PlainStep ==
  ASSUME IInv, DevicesOK, NEW h \in Handlers, Plain(h), dev' = dev, attr' = attr
  PROVE  DevicesOK'
  <1>1. Owner(req[h])' /\ Others(h) /\ Grow
    BY PlainOwner
  <1>2. req[h].pc \notin Marked
    BY DEF Plain
  <1> QED BY <1>1, <1>2, GrowStep

LEMMA ReturnPlain ==
  ASSUME IInv, NEW h \in Handlers, Return(h), req[h].pc \notin Marked
  PROVE  Plain(h)
  BY BecomeOthers DEF Return, Plain

LEMMA GotoPlain ==
  ASSUME IInv, NEW h \in Handlers, NEW step \in Steps, Goto(h, step), req[h].pc \notin Marked,
         step \notin Claimed \cup {"delJournal"}
  PROVE  Plain(h)
  <1>1. req[h] \in Requests
    BY StateFacts
  <1>2. req'[h] = [req[h] EXCEPT !.pc = step] /\ Others(h)
    BY BecomeOthers DEF Goto
  <1> QED BY <1>1, <1>2, StepRequest DEF Plain, Continues

LEMMA PlainCreate ==
  ASSUME IInv, NEW h \in Handlers,
         CreateServiceItem(h) \/ GetServiceItem(h) \/ CreateServiceAttr(h) \/ CheckServiceAttr(h)
           \/ SetInitializing(h) \/ IsServiceExist(h) \/ CreateContainerService(h)
  PROVE  Plain(h)
  <1>0. req[h] \in Requests
    BY StateFacts
  <1>1. req[h].pc \notin Marked
    BY DEF CreateServiceItem, GetServiceItem, CreateServiceAttr, CheckServiceAttr, SetInitializing,
           IsServiceExist, CreateContainerService, At, Marked
  <1>2. CASE \E u : Become(h, [req[h] EXCEPT !.u = u, !.pc = "putAttr"])
    <2>1. PICK u : req'[h] = [req[h] EXCEPT !.u = u, !.pc = "putAttr"] /\ Others(h)
      BY <1>2, BecomeOthers
    <2> QED BY <1>0, <1>1, <2>1 DEF Plain, Claimed, Requests
  <1>3. CASE \E a : Become(h, [req[h] EXCEPT !.rec = a, !.pc = "members"])
    <2>1. PICK a : req'[h] = [req[h] EXCEPT !.rec = a, !.pc = "members"] /\ Others(h)
      BY <1>3, BecomeOthers
    <2> QED BY <1>0, <1>1, <2>1 DEF Plain, Claimed, Requests
  <1>4. CASE \E step \in {"getSvc", "getAttr", "ctrExist", "ctrCreate"} : Goto(h, step)
    BY <1>1, <1>4, GotoPlain DEF Steps, Claimed
  <1>5. CASE Return(h)
    BY <1>1, <1>5, ReturnPlain
  <1> QED BY <1>2, <1>3, <1>4, <1>5 DEF CreateServiceItem, GetServiceItem, CreateServiceAttr,
             CheckServiceAttr, SetInitializing, IsServiceExist, CreateContainerService

LEMMA PlainMember ==
  ASSUME IInv, NEW h \in Handlers, MemberStep(h)
  PROVE  Plain(h)
  <1>0. req[h] \in Requests
    BY StateFacts
  <1>1. req[h].pc \notin Marked
    BY DEF MemberStep, CountMembers, CreateMemberResources, CreateServiceMember, At, Marked
  <1>2. CASE \E todo : TodoLeft(h, todo)
    <2>1. PICK todo : TodoLeft(h, todo)
      BY <1>2
    <2>2. PICK step : /\ step \notin Claimed \cup {"delJournal"}
                      /\ Become(h, [req[h] EXCEPT !.todo = todo, !.pc = step])
      BY <2>1 DEF TodoLeft, MembersDone, Claimed
    <2>3. req'[h] = [req[h] EXCEPT !.todo = todo, !.pc = step] /\ Others(h)
      BY <2>2, BecomeOthers
    <2> QED BY <1>0, <1>1, <2>2, <2>3 DEF Plain, Requests
  <1>3. CASE Goto(h, "member")
    BY <1>1, <1>3, GotoPlain DEF Steps, Claimed
  <1>4. CASE Return(h)
    BY <1>1, <1>4, ReturnPlain
  <1> QED BY <1>2, <1>3, <1>4 DEF MemberStep, CountMembers, CreateMemberResources, CreateServiceMember

LEMMA PlainUpdate ==
  ASSUME IInv, NEW h \in Handlers, UpdateStep(h) \/ DeleteContainerService(h) \/ DeleteServiceItem(h)
  PROVE  Plain(h)
  <1>0. req[h] \in Requests
    BY StateFacts
  <1>1. req[h].pc \notin Marked
    BY DEF UpdateStep, GetService, GetServiceAttr, ReadForInit, SetActive, StopContainers,
           ScaleContainers, UpdateContainerService, UpdateAttr, DeleteContainerService,
           DeleteServiceItem, At, Marked
  <1>2. CASE \E u : \E step \in {"attr", "attrAgain"} : Become(h, [req[h] EXCEPT !.u = u, !.pc = step])
    <2>0. PICK u : \E step \in {"attr", "attrAgain"} : Become(h, [req[h] EXCEPT !.u = u, !.pc = step])
      BY <1>2
    <2>1. PICK step \in {"attr", "attrAgain"} :
             req'[h] = [req[h] EXCEPT !.u = u, !.pc = step] /\ Others(h)
      BY <2>0, BecomeOthers
    <2> QED BY <1>0, <1>1, <2>1 DEF Plain, Claimed, Requests
  <1>3. CASE GetServiceAttr(h)
    <2>1. CASE Return(h)
      BY <1>1, <2>1, ReturnPlain
    <2>2. CASE ~Return(h)
      <3>1. PICK a, step : /\ step = AfterAttr(req[h].op)
                           /\ Become(h, [req[h] EXCEPT !.rec = a, !.pc = step])
        BY <1>3, <2>2 DEF GetServiceAttr
      <3>2. req[h].op \in AllOps \ {"create"}
        BY <1>3, HandlerFacts DEF GetServiceAttr, At, FlowOK, StepsOf
      <3>3. step \notin Claimed \cup {"delJournal"}
        BY <3>1, <3>2 DEF AfterAttr, AllOps, Claimed
      <3>4. req'[h] = [req[h] EXCEPT !.rec = a, !.pc = step] /\ Others(h)
        BY <3>1, BecomeOthers
      <3> QED BY <1>0, <1>1, <3>3, <3>4 DEF Plain, Requests
    <2> QED BY <2>1, <2>2
  <1>4. CASE \E a : Become(h, [req[h] EXCEPT !.rec = a, !.pc = "active"])
    <2>1. PICK a : req'[h] = [req[h] EXCEPT !.rec = a, !.pc = "active"] /\ Others(h)
      BY <1>4, BecomeOthers
    <2> QED BY <1>0, <1>1, <2>1 DEF Plain, Claimed, Requests
  <1>5. CASE \E step \in {"ctrDelete", "update", "uuidAgain"} : Goto(h, step)
    BY <1>1, <1>5, GotoPlain DEF Steps, Claimed
  <1>6. CASE Return(h)
    BY <1>1, <1>6, ReturnPlain
  <1>7. CASE UpdateStep(h)
    <2>1. CASE GetService(h)
      BY <1>2, <1>6, <2>1 DEF GetService
    <2>2. CASE ReadForInit(h)
      BY <1>4, <1>6, <2>2 DEF ReadForInit
    <2>3. CASE SetActive(h) \/ StopContainers(h) \/ ScaleContainers(h) \/ UpdateContainerService(h) \/ UpdateAttr(h)
      BY <1>5, <1>6, <2>3 DEF SetActive, StopContainers, ScaleContainers, UpdateContainerService, UpdateAttr
    <2> QED BY <1>3, <1>7, <2>1, <2>2, <2>3 DEF UpdateStep
  <1>8. CASE DeleteContainerService(h) \/ DeleteServiceItem(h)
    BY <1>5, <1>6, <1>8 DEF DeleteContainerService, DeleteServiceItem
  <1> QED BY <1>7, <1>8

-----------------------------------------------------------------------------
(* A device is taken. *)

LEMMA AssignedOwner ==
  ASSUME IInv, DevicesOK, NEW h \in Handlers, req[h].pc \in {"listDev", "putDev"},
         NEW d \in Devices, Assigned(h, d), dev'[d] = req[h].s, d # req[h].primary, Grow
  PROVE  Owner(req[h])' /\ Others(h)
  <1>1. /\ req[h] \in Requests /\ FlowOK(req[h]) /\ req[h].op = "create" /\ Owner(req[h])
        /\ req[h].s \in Services /\ req[h].s # None /\ d # None
    BY HandlerFacts, Facts DEF FlowOK, StepsOf, Starting, DevicesOK
  <1>2. PICK r : /\ Become(h, r) /\ r.op = "create" /\ r.s = req[h].s
                 /\ r.pc \in {"listDev", "putSvc"}
                 /\ \/ req[h].primary = None /\ r.primary = d /\ r.journal = req[h].journal
                    \/ req[h].primary # None /\ r.primary = req[h].primary /\ r.journal = d
    <2> DEFINE step == IF HasJournal THEN "listDev" ELSE "putSvc"
               p == [req[h] EXCEPT !.primary = d, !.d = None, !.tries = 0, !.pc = step]
               j == [req[h] EXCEPT !.journal = d, !.d = None, !.tries = 0, !.pc = "putSvc"]
    <2>1. step \in {"listDev", "putSvc"}
      OBVIOUS
    <2>2. CASE req[h].primary = None
      <3>1. Become(h, p)
        BY <2>2 DEF Assigned
      <3> HIDE DEF step
      <3>2. p.op = "create" /\ p.s = req[h].s /\ p.pc = step /\ p.primary = d /\ p.journal = req[h].journal
        BY <1>1 DEF Requests
      <3> HIDE DEF p
      <3> QED BY <2>1, <2>2, <3>1, <3>2
    <2>3. CASE req[h].primary # None
      <3>1. Become(h, j)
        BY <2>3 DEF Assigned
      <3>2. j.op = "create" /\ j.s = req[h].s /\ j.pc = "putSvc" /\ j.primary = req[h].primary /\ j.journal = d
        BY <1>1 DEF Requests
      <3> HIDE DEF j
      <3> QED BY <2>3, <3>1, <3>2
    <2> QED BY <2>2, <2>3
  <1>3. req'[h] = r /\ Others(h)
    BY <1>2, BecomeOthers
  <1>4. OwnsPrimary(r, r.s)' /\ OwnsJournal(r, r.s)'
    <2>1. OwnsPrimary(req[h], req[h].s) /\ OwnsJournal(req[h], req[h].s)
      BY <1>1 DEF Owner
    <2>2. req[h].primary \in Devices \cup {None} /\ req[h].journal \in Devices \cup {None}
      BY <1>1 DEF Requests
    <2>3. CASE req[h].primary = None
      <3>1. req[h].journal = None
        BY <1>1, <2>3 DEF Owner
      <3> QED BY <1>1, <1>2, <2>1, <2>2, <2>3, <3>1 DEF OwnsPrimary, OwnsJournal, Grow
    <2>4. CASE req[h].primary # None
      BY <1>1, <1>2, <2>1, <2>2, <2>4 DEF OwnsPrimary, OwnsJournal, Grow
    <2> QED BY <2>3, <2>4
  <1>5. Owner(r)'
    BY <1>2, <1>4 DEF Owner, Claimed
  <1> QED BY <1>3, <1>5

LEMMA AssignDeviceKeeps ==
  ASSUME IInv, DevicesOK, NEW h \in Handlers, AssignDeviceName(h)
  PROVE  DevicesOK'
  <1>0. req[h].pc = "listDev" /\ dev' = dev /\ attr' = attr /\ Grow /\ req[h].pc \notin Marked
    BY DEF AssignDeviceName, At, dbVars, Grow, Marked
  <1>1. CASE OwnDevices(h) # {} /\ Assigned(h, Min(OwnDevices(h)))
    <2>1. OwnDevices(h) \subseteq Devices /\ Devices \subseteq Nat
      BY LifecycleAssumption DEF OwnDevices, Devices
    <2>2. PICK d \in OwnDevices(h) : d = Min(OwnDevices(h))
      BY <1>1, <2>1, MinFacts
    <2>3. d \in Devices /\ dev'[d] = req[h].s /\ d # req[h].primary
      BY <1>0, <2>2 DEF OwnDevices
    <2>4. Owner(req[h])' /\ Others(h)
      BY <1>0, <1>1, <2>2, <2>3, AssignedOwner
    <2> QED BY <1>0, <2>4, GrowStep
  <1>2. CASE Become(h, [req[h] EXCEPT !.d = NextDevice(h), !.pc = "putDev"])
    <2>1. req'[h] = [req[h] EXCEPT !.d = NextDevice(h), !.pc = "putDev"] /\ Others(h)
      BY <1>2, BecomeOthers
    <2>2. Plain(h)
      BY <1>0, <2>1, StateFacts DEF Plain, Claimed, Requests
    <2> QED BY <1>0, <2>2, PlainStep
  <1>3. CASE Return(h)
    BY <1>0, <1>3, ReturnPlain, PlainStep
  <1> QED BY <1>1, <1>2, <1>3 DEF AssignDeviceName

LEMMA CreateDeviceKeeps ==
  ASSUME IInv, DevicesOK, NEW h \in Handlers, CreateDevice(h)
  PROVE  DevicesOK'
  <1>0. req[h].pc = "putDev" /\ attr' = attr /\ req[h].pc \notin Marked
    BY DEF CreateDevice, At, Marked
  <1>1. /\ req[h] \in Requests /\ req[h].d \in Devices /\ Owner(req[h])
        /\ req[h].s \in Services /\ req[h].s # None
    BY <1>0, HandlerFacts DEF FlowOK, HasWhatItNeeds, Requests, DevicesOK
  <1>2. CASE /\ dev[req[h].d] = None /\ dev' = [dev EXCEPT ![req[h].d] = req[h].s]
             /\ Assigned(h, req[h].d)
    <2>1. PICK d \in Devices : d = req[h].d
      BY <1>1
    <2>2. dev'[d] = req[h].s /\ Grow
      BY <1>2, <2>1, StateFacts DEF Grow
    <2>3. d # req[h].primary
      BY <1>1, <1>2, <2>1, Facts DEF Owner, OwnsPrimary
    <2>4. Owner(req[h])' /\ Others(h)
      BY <1>0, <1>2, <2>1, <2>2, <2>3, AssignedOwner
    <2> QED BY <1>0, <2>2, <2>4, GrowStep
  <1>3. CASE /\ dev' = dev
             /\ Become(h, [req[h] EXCEPT !.d = None, !.tries = @ + 1, !.pc = "listDev"])
    <2>1. PICK n : req'[h] = [req[h] EXCEPT !.d = None, !.tries = n, !.pc = "listDev"]
      BY <1>3, BecomeOthers
    <2>2. Others(h)
      BY <1>3, BecomeOthers
    <2>3. Plain(h)
      BY <1>0, <1>1, <2>1, <2>2 DEF Plain, Claimed, Requests
    <2> QED BY <1>0, <1>3, <2>3, PlainStep
  <1>4. CASE dev' = dev /\ Return(h)
    BY <1>0, <1>4, ReturnPlain, PlainStep
  <1> QED BY <1>2, <1>3, <1>4 DEF CreateDevice

LEMMA CreateAttrKeeps ==
  ASSUME IInv, DevicesOK, NEW h \in Handlers, CreateServiceAttr(h)
  PROVE  DevicesOK'
  <1>0. req[h].pc = "putAttr" /\ dev' = dev
    BY DEF CreateServiceAttr, At
  <1>1. Plain(h)
    BY PlainCreate
  <1>2. Owner(req[h])' /\ Others(h) /\ Grow
    BY <1>0, <1>1, PlainOwner
  <1>3. CASE attr' = attr
    BY <1>0, <1>1, <1>3, PlainStep
  <1>4. CASE attr' = [attr EXCEPT ![req[h].u] = NewAttr(h)]
    <2>1. PICK u \in UUIDs : u = req[h].u
      BY <1>0, HandlerFacts DEF FlowOK, HasWhatItNeeds, Starting, Requests
    <2>2. PICK a \in Attrs : a = NewAttr(h)
      BY <1>0, NewAttrOK
    <2>3. attr'[u] = a /\ \A v \in UUIDs : v # u => attr'[v] = attr[v]
      BY <1>4, <2>1, <2>2, StateFacts
    <2>4. a.status = "CREATING" /\ a # None
      BY <1>0, <2>2, NewAttrOK, Facts
    <2>5. OwnsPrimary(a, a.name)' /\ OwnsJournal(a, a.name)'
      <3>1. a.name = req[h].s /\ a.primary = req[h].primary /\ a.journal = req[h].journal
        BY <2>2 DEF NewAttr
      <3>2. OwnsPrimary(req[h], req[h].s) /\ OwnsJournal(req[h], req[h].s)
        BY DEF DevicesOK, Owner
      <3> QED BY <1>0, <3>1, <3>2 DEF OwnsPrimary, OwnsJournal
    <2>6. \A v \in UUIDs : attr'[v] = attr[v] \/ (OwnsPrimary(attr[v], attr[v].name)' /\ OwnsJournal(attr[v], attr[v].name)')
      BY <2>3, <2>5
    <2>7. \A v \in UUIDs : attr'[v] # None /\ ~Alive(v)' => attr'[v] = attr[v] /\ req[h].pc \notin Marked
      BY <1>1, <2>3, <2>4 DEF Alive, Plain
    <2> QED BY <1>2, <2>6, <2>7, GrowStep
  <1> QED BY <1>3, <1>4 DEF CreateServiceAttr

(* A record that is being deleted is the deletion's alone. *)
LEMMA NotDeleted ==
  ASSUME IInv, SInv, DevicesOK, NEW h \in Handlers,
         req[h].pc \notin Starting \cup {"idle", "uuid"} \cup Marked, attr[req[h].u] # None
  PROVE  Alive(req[h].u)
  <1>1. PICK u \in UUIDs, s \in Services : u = req[h].u /\ s = req[h].s /\ svc[s] = u /\ u # None /\ ServiceOK(s)
    BY OwnFacts
  <1>2. SUFFICES ASSUME ~Alive(u) PROVE FALSE
    BY <1>1
  <1>3. PICK g \in Handlers : req[g].u = u /\ req[g].pc \in Marked
    BY <1>1, <1>2 DEF DevicesOK
  <1>4. g # h /\ req[g].pc # "idle" /\ req[g].op = "delete" /\ req[g].s \in Services
    BY <1>3, HandlerFacts DEF Marked, FlowOK, StepsOf, Deletion
  <1>5. svc[req[g].s] = u
    BY <1>1, <1>3 DEF SInv, RequestOK, Current
  <1>6. req[g].s = s
    BY <1>1, <1>4, <1>5 DEF ServiceOK
  <1> QED BY <1>1, <1>4, <1>6 DEF SInv, Alone

(* An update of the attr record leaves the devices as they are. *)
LEMMA UpdateKeepsDevices ==
  ASSUME IInv, SInv, DevicesOK, NEW h \in Handlers,
         req[h].pc \notin Starting \cup Reading \cup {"idle", "uuid", "putAttr", "attr", "delSvc"} \cup Marked,
         NEW new \in Attrs, UpdateServiceAttr(req[h].u, req[h].rec, new, TRUE),
         new.name = req[h].rec.name, new.primary = req[h].rec.primary, new.journal = req[h].rec.journal,
         Others(h), dev' = dev, Owner(req[h])',
         new.status = "DELETING" =>
           \/ req[h].rec.status = "DELETING"
           \/ "delete" \in Ops /\ req'[h].u = req[h].u /\ req'[h].pc \in Marked
  PROVE  DevicesOK'
  <1>1. PICK u \in UUIDs : u = req[h].u /\ RequestOK(req[h])
    BY OwnFacts DEF Starting
  <1>2. PICK old \in Attrs : old = req[h].rec /\ old # None
    BY HandlerFacts DEF FlowOK, HasWhatItNeeds, Requests
  <1>3. /\ attr[u] # None /\ attr[u].rev = old.rev /\ attr' = [attr EXCEPT ![u] = new]
    BY <1>1, <1>2 DEF UpdateServiceAttr
  <1>4. attr[u] = old
    BY <1>1, <1>2, <1>3 DEF RequestOK, Current
  <1>5. attr'[u] = new /\ new # None /\ \A v \in UUIDs : v # u => attr'[v] = attr[v]
    BY <1>3, StateFacts, Facts
  <1>6. Alive(u) /\ old.status # "DELETING"
    BY <1>1, <1>3, <1>4, NotDeleted DEF Alive
  <1>7. OwnsPrimary(new, new.name)' /\ OwnsJournal(new, new.name)'
    <2>1. OwnsPrimary(old, old.name) /\ OwnsJournal(old, old.name)
      BY <1>4, <1>6 DEF DevicesOK
    <2> QED BY <1>2, <2>1 DEF OwnsPrimary, OwnsJournal
  <1>8. \A v \in UUIDs : attr'[v] = attr[v] \/ (OwnsPrimary(attr[v], attr[v].name)' /\ OwnsJournal(attr[v], attr[v].name)')
    BY <1>5, <1>7
  <1>9. \A v \in UUIDs : attr'[v] # None /\ ~Alive(v)' =>
           \/ attr'[v] = attr[v] /\ req[h].pc \notin Marked
           \/ "delete" \in Ops /\ req'[h].u = v /\ req'[h].pc \in Marked
    BY <1>1, <1>2, <1>5, <1>6 DEF Alive
  <1>10. Grow
    BY DEF Grow
  <1> QED BY <1>8, <1>9, <1>10, GrowStep

LEMMA UpdatesKeepDevices ==
  ASSUME IInv, SInv, DevicesOK, NEW h \in Handlers, SetInitializing(h) \/ SetActive(h) \/ UpdateAttr(h)
  PROVE  DevicesOK'
  <1>0. /\ dev' = dev /\ req[h].pc \in {"status", "active", "update"}
        /\ req[h].pc \notin Starting \cup Reading \cup {"idle", "uuid", "putAttr", "attr", "delSvc"} \cup Marked
    BY DEF SetInitializing, SetActive, UpdateAttr, At, Starting, Reading, Marked
  <1>1. Plain(h)
    BY PlainCreate, PlainUpdate DEF UpdateStep
  <1>2. Owner(req[h])' /\ Others(h)
    BY <1>0, <1>1, PlainOwner
  <1>3. PICK a \in Attrs : a = req[h].rec
    BY <1>0, HandlerFacts DEF FlowOK, HasWhatItNeeds, Starting, Reading, Requests
  <1>4. PICK new \in Attrs :
          /\ attr' = attr \/ UpdateServiceAttr(req[h].u, req[h].rec, new, TRUE)
          /\ new.name = a.name /\ new.primary = a.primary /\ new.journal = a.journal
          /\ new.status = "DELETING" => a.status = "DELETING"
    <2>1. CASE SetInitializing(h)
      <3>1. PICK new : new = UpdateServiceStatus(a, "INITIALIZING")
        OBVIOUS
      <3>2. /\ new \in Attrs /\ new.status = "INITIALIZING" /\ new.name = a.name
            /\ new.primary = a.primary /\ new.journal = a.journal
        BY <3>1, StatusOK DEF Statuses
      <3> QED BY <1>3, <2>1, <3>1, <3>2 DEF SetInitializing, UpdateServiceAttr
    <2>2. CASE SetActive(h)
      <3>1. PICK new : new = UpdateServiceStatus(a, "ACTIVE")
        OBVIOUS
      <3>2. /\ new \in Attrs /\ new.status = "ACTIVE" /\ new.name = a.name
            /\ new.primary = a.primary /\ new.journal = a.journal
        BY <3>1, StatusOK DEF Statuses
      <3> QED BY <1>3, <2>2, <3>1, <3>2 DEF SetActive, UpdateServiceAttr
    <2>3. CASE UpdateAttr(h)
      <3>1. PICK new \in Attrs : /\ new = UpdatedAttr(h) /\ new.name = a.name /\ new.status = a.status
                                 /\ new.primary = a.primary /\ new.journal = a.journal
        BY <1>3, <2>3, UpdatedAttrOK DEF UpdateAttr, At
      <3> QED BY <1>3, <2>3, <3>1 DEF UpdateAttr, UpdateServiceAttr
    <2> QED BY <2>1, <2>2, <2>3
  <1>5. CASE attr' = attr
    BY <1>0, <1>1, <1>5, PlainStep
  <1>6. CASE UpdateServiceAttr(req[h].u, req[h].rec, new, TRUE)
    BY <1>0, <1>2, <1>3, <1>4, <1>6, UpdateKeepsDevices
  <1> QED BY <1>4, <1>5, <1>6

-----------------------------------------------------------------------------
(* The steps of a deletion *)

Carries(h, step) ==
  /\ Others(h) /\ req'[h].pc = step
  /\ req'[h].op = req[h].op /\ req'[h].s = req[h].s /\ req'[h].u = req[h].u
  /\ req'[h].rec = req[h].rec
  /\ req'[h].primary = req[h].primary /\ req'[h].journal = req[h].journal

LEMMA GotoCarries ==
  ASSUME IInv, NEW h \in Handlers, NEW step \in Steps, Goto(h, step)
  PROVE  Carries(h, step)
  <1>1. req[h] \in Requests
    BY StateFacts
  <1>2. req'[h] = [req[h] EXCEPT !.pc = step] /\ Others(h)
    BY BecomeOthers DEF Goto
  <1> QED BY <1>1, <1>2 DEF Carries, Requests

LEMMA CarriedOwner ==
  ASSUME IInv, DevicesOK, NEW h \in Handlers, NEW step, Carries(h, step), dev' = dev,
         req[h].pc \in Claimed \/ step \notin Claimed \cup {"delJournal"}
  PROVE  Owner(req[h])' /\ Others(h) /\ Grow
  <1>1. PICK r : r = req'[h]
    OBVIOUS
  <1>2. PICK q : q = req[h] /\ Owner(q)
    BY DEF DevicesOK
  <1>3. /\ r.pc = step /\ r.op = q.op /\ r.s = q.s /\ r.rec = q.rec
        /\ r.primary = q.primary /\ r.journal = q.journal
    BY <1>1, <1>2 DEF Carries
  <1>4. Owner(r)
    BY <1>2, <1>3 DEF Owner, OwnsPrimary, OwnsJournal
  <1>5. Owner(r)'
    BY <1>4 DEF Owner, OwnsPrimary, OwnsJournal
  <1> QED BY <1>1, <1>5 DEF Carries, Grow

(* The members are taken away. *)
LEMMA DeletionGoesOn ==
  ASSUME IInv, DevicesOK, NEW h \in Handlers, req[h].pc \in Claimed, NEW step \in Marked,
         Carries(h, step), dev' = dev, attr' = attr
  PROVE  DevicesOK'
  <1>1. Owner(req[h])' /\ Others(h) /\ Grow
    BY CarriedOwner
  <1>2. req'[h].u = req[h].u /\ req'[h].pc \in Marked
    BY DEF Carries
  <1> QED BY <1>1, <1>2, GrowStep

LEMMA DeleteMembersKeeps ==
  ASSUME IInv, DevicesOK, NEW h \in Handlers,
         ListServiceMembers(h) \/ CleanMembers(h) \/ DeleteServiceMembers(h)
  PROVE  DevicesOK'
  <1>0. /\ req[h].pc \in {"list", "clean", "delMember"} /\ req[h].pc \in Claimed
        /\ dev' = dev /\ attr' = attr /\ req[h] \in Requests
    BY StateFacts DEF ListServiceMembers, CleanMembers, DeleteServiceMembers, At, Claimed, dbVars
  <1>1. PICK step \in Marked : Carries(h, step)
    <2>1. CASE \E todo : Become(h, [req[h] EXCEPT !.todo = todo, !.pc = "clean"])
      <3>1. PICK todo : req'[h] = [req[h] EXCEPT !.todo = todo, !.pc = "clean"] /\ Others(h)
        BY <2>1, BecomeOthers
      <3>2. Carries(h, "clean")
        BY <1>0, <3>1 DEF Carries, Requests
      <3> QED BY <3>2 DEF Marked
    <2>2. CASE \E todo : Become(h, [req[h] EXCEPT !.todo = todo])
      <3>1. PICK todo : req'[h] = [req[h] EXCEPT !.todo = todo] /\ Others(h)
        BY <2>2, BecomeOthers
      <3>2. Carries(h, req[h].pc)
        BY <1>0, <3>1 DEF Carries, Requests
      <3> QED BY <1>0, <3>2 DEF Marked
    <2>3. CASE \E step \in {"delMember", "delDev"} : Goto(h, step)
      <3>1. PICK step \in {"delMember", "delDev"} : Goto(h, step)
        BY <2>3
      <3>2. step \in Steps /\ step \in Marked
        BY DEF Steps, Marked
      <3> QED BY <3>1, <3>2, GotoCarries
    <2>4. CASE UNCHANGED req
      BY <1>0, <2>4 DEF Carries, Others, Marked
    <2> QED BY <2>1, <2>2, <2>3, <2>4 DEF ListServiceMembers, CleanMembers, DeleteServiceMembers
  <1> QED BY <1>0, <1>1, DeletionGoesOn

(* The record that is read is not marked yet, or the one who marked it would *)
(* be at work.                                                              *)
LEMMA ReadForDeleteKeeps ==
  ASSUME IInv, SInv, DevicesOK, NEW h \in Handlers, ReadForDelete(h)
  PROVE  DevicesOK'
  <1>0. /\ req[h].pc = "attrAgain" /\ dev' = dev /\ attr' = attr
        /\ req[h].pc \notin Marked /\ req[h].pc \notin Starting \cup {"idle", "uuid"} \cup Marked
        /\ req[h] \in Requests /\ Owner(req[h])
    BY StateFacts DEF ReadForDelete, At, dbVars, Marked, Starting, DevicesOK
  <1>1. PICK u \in UUIDs, s \in Services :
          /\ u = req[h].u /\ s = req[h].s /\ svc[s] = u /\ RecordOK(u)
          /\ \A t \in Services \ {s} : svc[t] # u
    BY <1>0, OwnFacts
  <1>2. CASE Goto(h, "delSvc")
    <2>1. Plain(h)
      BY <1>0, <1>2, GotoPlain DEF Steps, Claimed
    <2> QED BY <1>0, <2>1, PlainStep
  <1>3. CASE /\ attr[u] # None
             /\ Become(h, [req[h] EXCEPT !.rec = attr[u],
                                         !.pc = IF attr[u].status = "DELETING" THEN "list" ELSE "mark"])
    <2>1. PICK a \in Attrs : a = attr[u] /\ a # None
      BY <1>3, StateFacts
    <2>2. Alive(u)
      BY <1>0, <1>1, <1>3, NotDeleted
    <2>3. a.name = s
      <3>1. a.name \in Services /\ svc[a.name] = u
        BY <1>1, <2>1 DEF RecordOK, Attrs
      <3> QED BY <1>1, <3>1
    <2>4. OwnsPrimary(a, s) /\ OwnsJournal(a, s)
      BY <2>1, <2>2, <2>3 DEF DevicesOK
    <2>5. req'[h] = [req[h] EXCEPT !.rec = a, !.pc = "mark"] /\ Others(h)
      BY <1>3, <2>1, <2>2, BecomeOthers DEF Alive
    <2>6. PICK r : /\ r = req'[h] /\ r.rec = a /\ r.pc = "mark" /\ r.s = s /\ r.op = req[h].op
                   /\ r.primary = req[h].primary /\ r.journal = req[h].journal
      BY <1>0, <1>1, <2>5 DEF Requests
    <2>7. Owner(r)
      BY <1>0, <1>1, <2>4, <2>6 DEF Owner, OwnsPrimary, OwnsJournal
    <2>8. Owner(r)' /\ Grow
      BY <1>0, <2>7 DEF Owner, OwnsPrimary, OwnsJournal, Grow
    <2> QED BY <1>0, <2>5, <2>6, <2>8, GrowStep
  <1> QED BY <1>1, <1>2, <1>3 DEF ReadForDelete

LEMMA MarkDeletingKeeps ==
  ASSUME IInv, SInv, DevicesOK, NEW h \in Handlers, MarkDeleting(h)
  PROVE  DevicesOK'
  <1>0. /\ req[h].pc = "mark" /\ dev' = dev /\ req[h].pc \notin Marked /\ req[h].pc \in Claimed
        /\ req[h].pc \notin Starting \cup Reading \cup {"idle", "uuid", "putAttr", "attr", "delSvc"} \cup Marked
    BY DEF MarkDeleting, At, Starting, Reading, Marked, Claimed
  <1>1. PICK a \in Attrs : a = req[h].rec
    BY <1>0, HandlerFacts DEF FlowOK, HasWhatItNeeds, Starting, Reading, Requests
  <1>2. "delete" \in Ops
    BY <1>0, HandlerFacts DEF FlowOK, StepsOf, Deletion
  <1>3. CASE /\ UpdateServiceAttr(req[h].u, a, UpdateServiceStatus(a, "DELETING"), TRUE)
             /\ Goto(h, "list")
    <2>1. Carries(h, "list")
      BY <1>3, GotoCarries DEF Steps
    <2>2. Owner(req[h])' /\ Others(h)
      BY <1>0, <2>1, CarriedOwner
    <2>3. req'[h].u = req[h].u /\ req'[h].pc \in Marked
      BY <2>1 DEF Carries, Marked
    <2>4. PICK new \in Attrs : /\ new = UpdateServiceStatus(a, "DELETING") /\ new.name = a.name
                               /\ new.primary = a.primary /\ new.journal = a.journal
      BY StatusOK DEF Statuses
    <2>5. UpdateServiceAttr(req[h].u, req[h].rec, new, TRUE)
      BY <1>1, <1>3, <2>4
    <2> QED BY <1>0, <1>1, <1>2, <2>2, <2>3, <2>4, <2>5, UpdateKeepsDevices
  <1>4. CASE attr' = attr /\ Return(h)
    BY <1>0, <1>4, ReturnPlain, PlainStep
  <1> QED BY <1>1, <1>3, <1>4 DEF MarkDeleting, UpdateServiceAttr

(* A deletion lets go of a device: it is its own service's alone. *)
LEMMA ReleaseStep ==
  ASSUME IInv, SInv, DevicesOK, NEW h \in Handlers, req[h].pc \in {"delDev", "delJournal"},
         NEW step \in Marked, Carries(h, step), attr' = attr, Owner(req[h])',
         \A d \in Devices : dev[d] # None /\ dev[d] # req[h].s => dev'[d] = dev[d]
  PROVE  DevicesOK'
  <1>0. /\ req[h].pc \in Marked /\ req[h].pc \notin Starting \cup {"idle", "uuid"}
        /\ req[h].pc \in Deletion \ {"mark", "delSvc"} /\ req[h].pc # "idle"
    BY DEF Marked, Starting, Deletion
  <1>1. PICK u \in UUIDs, s \in Services :
          /\ u = req[h].u /\ s = req[h].s /\ svc[s] = u /\ RequestOK(req[h])
    BY <1>0, OwnFacts
  <1>2. req[h].op = "delete" /\ ~Alive(u)
    BY <1>0, <1>1, HandlerFacts DEF FlowOK, StepsOf, RequestOK, Removing, Alive
  <1>3. ASSUME NEW v \in UUIDs, Alive(v)'
        PROVE  OwnsPrimary(attr[v], attr[v].name)' /\ OwnsJournal(attr[v], attr[v].name)'
    <2>1. PICK a \in Attrs : a = attr[v] /\ a = attr'[v] /\ Alive(v)
      BY <1>3, StateFacts DEF Alive
    <2>2. OwnsPrimary(a, a.name) /\ OwnsJournal(a, a.name)
      BY <2>1 DEF DevicesOK
    <2>3. a.name \in Services /\ a.name # None /\ a.name # s
      <3>1. a.name \in Services /\ svc[a.name] = v
        BY <2>1, Facts DEF SInv, RecordOK, Attrs
      <3> QED BY <1>1, <1>2, <2>1, <3>1, Facts
    <2>4. a.primary \in Devices /\ a.journal \in Devices \cup {None}
      BY DEF Attrs
    <2>5. OwnsPrimary(a, a.name)' /\ OwnsJournal(a, a.name)'
      BY <1>1, <2>2, <2>3, <2>4 DEF OwnsPrimary, OwnsJournal
    <2> QED BY <2>1, <2>5
  <1>4. ASSUME NEW g \in Handlers, g # h PROVE Owner(req[g])'
    <2>1. PICK q \in Requests : q = req[g] /\ q = req'[g] /\ FlowOK(q) /\ Owner(q)
      BY <1>4, StateFacts DEF IInv, TypeInv, DevicesOK, Carries, Others
    <2>2. CASE q.pc = "idle"
      BY <2>1, <2>2, NoOwner DEF FlowOK, StepsOf
    <2>3. CASE q.pc # "idle"
      <3>1. q.s \in Services /\ q.s # None /\ q.s # s
        BY <1>1, <1>2, <1>4, <2>1, <2>3, HandlerFacts DEF SInv, Alone
      <3>2. OwnsPrimary(q, q.s)' /\ OwnsJournal(q, q.s)'
        BY <1>1, <2>1, <3>1 DEF Owner, OwnsPrimary, OwnsJournal, Requests
      <3>3. ASSUME q.pc \in Claimed \cup {"delJournal"}
            PROVE  /\ q.pc \in Claimed => OwnsPrimary(q.rec, q.s)'
                   /\ OwnsJournal(q.rec, q.s)'
        <4>1. PICK a \in Attrs : a = q.rec
          BY <2>1, <3>3 DEF Claimed, FlowOK, HasWhatItNeeds, Starting, Reading, Requests
        <4>2. a.primary \in Devices /\ a.journal \in Devices \cup {None}
          BY DEF Attrs
        <4> QED BY <1>1, <2>1, <3>1, <3>3, <4>1, <4>2 DEF Owner, OwnsPrimary, OwnsJournal
      <3> QED BY <2>1, <3>2, <3>3 DEF Owner
    <2> QED BY <2>2, <2>3
  <1>5. ASSUME NEW v \in UUIDs, attr'[v] # None, ~Alive(v)'
        PROVE  "delete" \in Ops /\ \E g \in Handlers : req'[g].u = v /\ req'[g].pc \in Marked
    <2>1. attr[v] # None /\ ~Alive(v)
      BY <1>5 DEF Alive
    <2>2. PICK g \in Handlers : "delete" \in Ops /\ req[g].u = v /\ req[g].pc \in Marked
      BY <2>1 DEF DevicesOK
    <2>3. g # h => req'[g] = req[g]
      BY DEF Carries, Others
    <2>4. req'[h].u = req[h].u /\ req'[h].pc \in Marked
      BY DEF Carries
    <2> QED BY <2>2, <2>3, <2>4
  <1>6. \A g \in Handlers : Owner(req[g])'
    BY <1>4
  <1> QED BY <1>3, <1>5, <1>6 DEF DevicesOK

LEMMA DeleteDevicesKeeps ==
  ASSUME IInv, SInv, DevicesOK, NEW h \in Handlers, DeleteDevices(h)
  PROVE  DevicesOK'
  <1>0. req[h].pc \in {"delDev", "delJournal"} /\ attr' = attr
    BY DEF DeleteDevices, At
  <1>1. PICK q \in Requests : /\ q = req[h] /\ Owner(q) /\ q.op = "delete" /\ q.s \in Services
                              /\ q.s # None
    BY <1>0, HandlerFacts DEF FlowOK, StepsOf, Deletion, DevicesOK
  <1>2. PICK a \in Attrs : a = q.rec
    BY <1>0, <1>1, HandlerFacts DEF FlowOK, HasWhatItNeeds, Starting, Reading, Requests
  <1>3. a.primary \in Devices /\ a.primary # None /\ a.journal \in Devices \cup {None}
    BY Facts DEF Attrs
  <1>4. q.primary = None /\ q.journal = None
    BY <1>1 DEF Owner
  <1>5. CASE q.pc = "delDev"
    <2>1. DeleteDevice(h, a.primary) /\ Goto(h, "delJournal")
      BY <1>1, <1>2, <1>5 DEF DeleteDevices, At
    <2>2. Carries(h, "delJournal") /\ "delJournal" \in Marked
      BY <2>1, GotoCarries DEF Steps, Marked
    <2>3. dev[a.primary] = q.s /\ OwnsJournal(a, q.s)
      BY <1>1, <1>2, <1>3, <1>5 DEF Owner, OwnsPrimary, Claimed
    <2>4. dev' = [dev EXCEPT ![a.primary] = None]
      BY <1>3, <2>1 DEF DeleteDevice
    <2>5. \A d \in Devices : d # a.primary => dev'[d] = dev[d]
      BY <2>4, StateFacts
    <2>6. OwnsJournal(a, q.s)'
      BY <1>3, <2>3, <2>5 DEF OwnsJournal
    <2>7. PICK r : /\ r = req'[h] /\ r.pc = "delJournal" /\ r.s = q.s /\ r.rec = a
                   /\ r.primary = None /\ r.journal = None
      BY <1>1, <1>2, <1>4, <2>2 DEF Carries
    <2>8. Owner(r)'
      BY <2>6, <2>7 DEF Owner, OwnsPrimary, OwnsJournal, Claimed
    <2>9. \A d \in Devices : dev[d] # None /\ dev[d] # req[h].s => dev'[d] = dev[d]
      BY <1>1, <2>3, <2>5
    <2> QED BY <1>0, <2>2, <2>7, <2>8, <2>9, ReleaseStep
  <1>6. CASE q.pc = "delJournal"
    <2>1. DeleteDevice(h, a.journal) /\ Goto(h, "delAttr")
      BY <1>1, <1>2, <1>6 DEF DeleteDevices, At
    <2>2. Carries(h, "delAttr") /\ "delAttr" \in Marked
      BY <2>1, GotoCarries DEF Steps, Marked
    <2>3. a.journal # None => dev[a.journal] = q.s
      BY <1>1, <1>2, <1>6 DEF Owner, OwnsJournal
    <2>4. dev' = IF a.journal = None THEN dev ELSE [dev EXCEPT ![a.journal] = None]
      BY <2>1 DEF DeleteDevice
    <2>5. \A d \in Devices : dev[d] # None /\ dev[d] # q.s => dev'[d] = dev[d]
      BY <1>3, <2>3, <2>4, StateFacts
    <2>6. PICK r : /\ r = req'[h] /\ r.pc = "delAttr" /\ r.primary = None /\ r.journal = None
      BY <1>1, <1>4, <2>2 DEF Carries
    <2>7. Owner(r)'
      BY <2>6 DEF Owner, OwnsPrimary, OwnsJournal, Claimed
    <2> QED BY <1>0, <1>1, <2>2, <2>5, <2>6, <2>7, ReleaseStep
  <1> QED BY <1>0, <1>1, <1>5, <1>6

LEMMA DeleteAttrKeeps ==
  ASSUME IInv, DevicesOK, NEW h \in Handlers, DeleteServiceAttr(h)
  PROVE  DevicesOK'
  <1>0. req[h].pc = "delAttr" /\ dev' = dev /\ Goto(h, "delSvc") /\ "delSvc" \in Steps
        /\ "delSvc" \notin Claimed \cup {"delJournal"}
    BY DEF DeleteServiceAttr, At, Steps, Claimed
  <1>1. PICK u \in UUIDs : u = req[h].u
    BY <1>0, OwnFacts DEF Starting
  <1>2. attr'[u] = None /\ \A v \in UUIDs : v # u => attr'[v] = attr[v]
    BY <1>1, StateFacts DEF DeleteServiceAttr
  <1>3. Carries(h, "delSvc")
    BY <1>0, GotoCarries
  <1>4. Owner(req[h])' /\ Others(h) /\ Grow
    BY <1>0, <1>3, CarriedOwner
  <1>5. \A v \in UUIDs : attr'[v] = attr[v] \/ attr'[v] = None
    BY <1>2
  <1>6. \A v \in UUIDs : attr'[v] # None => attr'[v] = attr[v] /\ req[h].u # v
    BY <1>1, <1>2
  <1> QED BY <1>4, <1>5, <1>6, GrowStep

-----------------------------------------------------------------------------
(* The devices stay apart. *)

LEMMA DevicesStep == ASSUME IInv, SInv, DevicesOK, DeletesEnd, [Next]_vars PROVE DevicesOK'
  <1>1. ASSUME NEW h \in Handlers, HandlerStep(h) PROVE DevicesOK'
    <2>1. CASE CreateStep(h)
      <3>1. CASE AssignDeviceName(h) \/ CreateDevice(h) \/ CreateServiceAttr(h) \/ SetInitializing(h)
        BY <3>1, AssignDeviceKeeps, CreateDeviceKeeps, CreateAttrKeeps, UpdatesKeepDevices
      <3>2. CASE CreateServiceItem(h) \/ GetServiceItem(h) \/ CheckServiceAttr(h) \/ IsServiceExist(h)
                   \/ CreateContainerService(h)
        <4>1. dev' = dev /\ attr' = attr
          BY <3>2 DEF CreateServiceItem, GetServiceItem, CheckServiceAttr, IsServiceExist,
                      CreateContainerService, dbVars
        <4>2. Plain(h)
          BY <3>2, PlainCreate
        <4> QED BY <4>1, <4>2, PlainStep
      <3> QED BY <2>1, <3>1, <3>2 DEF CreateStep
    <2>2. CASE MemberStep(h)
      <3>1. dev' = dev /\ attr' = attr
        BY <2>2 DEF MemberStep, CountMembers, CreateMemberResources, CreateServiceMember, dbVars
      <3> QED BY <2>2, <3>1, PlainMember, PlainStep
    <2>3. CASE UpdateStep(h) \/ DeleteContainerService(h) \/ DeleteServiceItem(h)
      <3>1. CASE SetActive(h) \/ UpdateAttr(h)
        BY <3>1, UpdatesKeepDevices
      <3>2. CASE ~(SetActive(h) \/ UpdateAttr(h))
        <4>1. dev' = dev /\ attr' = attr
          BY <2>3, <3>2 DEF UpdateStep, GetService, GetServiceAttr, ReadForInit, StopContainers,
                            ScaleContainers, UpdateContainerService, DeleteContainerService,
                            DeleteServiceItem, dbVars
        <4> QED BY <2>3, <4>1, PlainUpdate, PlainStep
      <3> QED BY <3>1, <3>2
    <2>4. CASE DeleteStep(h)
      BY <2>3, <2>4, ReadForDeleteKeeps, MarkDeletingKeeps, DeleteMembersKeeps, DeleteDevicesKeeps,
         DeleteAttrKeeps DEF DeleteStep
    <2> QED BY <1>1, <2>1, <2>2, <2>3, <2>4 DEF HandlerStep
  <1>2. ASSUME NEW h \in Handlers, Fault(h) PROVE DevicesOK'
    <2>1. dev' = dev /\ attr' = attr /\ Return(h) /\ faults < MaxFaults /\ req[h].pc # "idle"
      BY <1>2 DEF Fault, At, dbVars
    <2>2. "delete" \notin Ops
      BY <2>1, StateFacts DEF DeletesEnd
    <2>3. req[h].pc \notin Marked
      BY <2>1, <2>2, HandlerFacts DEF FlowOK, StepsOf, Deletion, Marked
    <2> QED BY <2>1, <2>3, ReturnPlain, PlainStep
  <1>3. ASSUME NEW h \in Handlers, NEW op \in Ops, NEW s \in Services, Begin(h, op, s) PROVE DevicesOK'
    <2>1. dev' = dev /\ attr' = attr /\ req[h].pc = "idle"
      BY <1>3 DEF Begin, At, dbVars
    <2>2. PICK size, step : /\ step = FirstStep(op)
            /\ Become(h, [NoRequest EXCEPT !.op = op, !.s = s, !.pc = step, !.size = size])
      BY <1>3 DEF Begin
    <2>3. PICK r : /\ Become(h, r) /\ r.primary = None /\ r.journal = None
                   /\ r.pc \notin Claimed \cup {"delJournal"}
      <3>1. step \notin Claimed \cup {"delJournal"}
        BY <2>2 DEF FirstStep, Claimed
      <3> DEFINE r == [NoRequest EXCEPT !.op = op, !.s = s, !.pc = step, !.size = size]
      <3>2. r.primary = None /\ r.journal = None /\ r.pc = step
        BY DEF NoRequest
      <3> QED BY <2>2, <3>1, <3>2
    <2>4. req'[h] = r /\ Others(h)
      BY <2>3, BecomeOthers
    <2>5. Owner(r)'
      BY <2>3 DEF Owner, OwnsPrimary, OwnsJournal, Claimed
    <2>6. Grow /\ req[h].pc \notin Marked
      BY <2>1 DEF Grow, Marked
    <2> QED BY <2>1, <2>4, <2>5, <2>6, GrowStep
  <1>4. CASE Crash
    <2>1. dev' = dev /\ attr' = attr /\ crashes < MaxCrashes /\ \A h \in Handlers : req'[h] = NoRequest
      BY <1>4 DEF Crash, dbVars
    <2>2. "delete" \notin Ops
      BY <2>1, StateFacts DEF DeletesEnd
    <2>3. \A h \in Handlers : Owner(req[h])'
      BY <2>1, NoOwner
    <2>4. \A u \in UUIDs : attr[u] # None => Alive(u) /\ Alive(u)'
      BY <2>1, <2>2 DEF DevicesOK, Alive
    <2>5. \A u \in UUIDs : Alive(u) =>
            OwnsPrimary(attr[u], attr[u].name)' /\ OwnsJournal(attr[u], attr[u].name)'
      BY <2>1 DEF DevicesOK, OwnsPrimary, OwnsJournal
    <2>6. (\A u \in UUIDs : Alive(u) => OwnsPrimary(attr[u], attr[u].name) /\ OwnsJournal(attr[u], attr[u].name))'
      BY <2>1, <2>5 DEF Alive
    <2>7. (\A u \in UUIDs : attr[u] # None /\ ~Alive(u) =>
             "delete" \in Ops /\ \E h \in Handlers : req[h].u = u /\ req[h].pc \in Marked)'
      BY <2>1, <2>4
    <2> QED BY <2>3, <2>6, <2>7 DEF DevicesOK
  <1>5. CASE (\E s \in Services : ChangeGoal(s)) \/ UNCHANGED vars
    <2>1. UNCHANGED <<dbVars, req>>
      BY <1>5 DEF ChangeGoal, vars
    <2> QED BY <2>1 DEF DevicesOK, Owner, OwnsPrimary, OwnsJournal, Alive, dbVars
  <1> QED BY <1>1, <1>2, <1>3, <1>4, <1>5 DEF Next

LEMMA DevicesInductive == ASSUME DeletesAlone, DeletesEnd PROVE Spec => []DevicesOK
  <1>1. Init => DevicesOK
    <2>1. Init => (\A h \in Handlers : Owner(req[h])) /\ (\A u \in UUIDs : attr[u] = None)
      BY NoOwner DEF Init
    <2> QED BY <2>1 DEF DevicesOK, Alive
  <1>2. IInv /\ DevicesOK /\ [Next]_vars => DevicesOK'
    BY DevicesStep DEF IInv
  <1> QED BY Inductive, <1>1, <1>2, PTL DEF Spec

(* DeviceUnique: no two services that are not being deleted have a device   *)
(* in common, though creations race for the next device name and fail       *)
(* anywhere, and though deletions that end give names back (createDevice,   *)
(* deleteDevices).  A deletion that fails after deleteDevices and is sent   *)
(* again deletes by name a record that may be another service's by then.    *)
THEOREM DevicesAreUnique == ASSUME DeletesAlone, DeletesEnd PROVE Spec => []DeviceUnique
  <1>1. IInv /\ DevicesOK => DeviceUnique
    <2> SUFFICES ASSUME IInv, DevicesOK, NEW u \in UUIDs, NEW v \in UUIDs, u # v, Alive(u), Alive(v),
                        NEW d \in DevicesOf(u) \cap DevicesOf(v)
                 PROVE  FALSE
      BY DEF DeviceUnique, Alive
    <2>1. SInv
      BY DEF IInv
    <2>2. attr[u].name # attr[v].name
      BY <2>1 DEF SInv, RecordOK, Alive
    <2>3. dev[d] = attr[u].name /\ dev[d] = attr[v].name
      BY DEF DevicesOf, DevicesOK, OwnsPrimary, OwnsJournal
    <2> QED BY <2>2, <2>3
  <1> QED BY Inductive, DevicesInductive, <1>1, PTL
=============================================================================
