-------------------------- MODULE StaticIPsProofs --------------------------
(***************************************************************************)
(* Static ips, for any number of services, nodes, addresses, requests and  *)
(* failures: a member has an address of its own, that is recorded for its  *)
(* service, and a service that counts as created has its members and their *)
(* volumes.                                                                *)
(*                                                                         *)
(* A creation acts on the members it listed before it took the lock, and   *)
(* gives away addresses that members may have which it did not list.  The  *)
(* strengthening says why that does no harm: members are made in order     *)
(* (Segment), so the member such a creation comes to is there already, and *)
(* it fails (FreeOK).                                                      *)
(***************************************************************************)
EXTENDS StaticIPs, FiniteSetTheorems, SequenceTheorems, WellFoundedInduction, TLAPS

Pcs == {"idle", "list", "lock", "read", "claim", "assign", "record", "member", "wait", "ips", "members"}
Ops == {"create", "scale", "delete"}
Requests == [op : Ops \cup {None}, s : Services \cup {None}, pc : Pcs, n : 0..MaxReplicas,
             from : 0..MaxReplicas, known : [Indexes -> IPs \cup {None}], nodes : SUBSET Nodes,
             seen : SUBSET (Nodes \X IPs), todo : SUBSET (Nodes \X IPs), free : Seq(IPs),
             at : Nodes \cup {None}, last : 0..MaxIP, tries : 0..MaxTries, i : Nat]
Mounts == [pc : {"idle", "check", "drop", "unassign", "assign", "update"},
           s : Services \cup {None}, ip : IPs \cup {None}, todo : SUBSET IPs,
           old : Records \cup {None}, drop : IPs \cup {None}]

(* The steps of a request, and what it has at each of them. *)
Locked == {"read", "claim", "assign", "record"}
Claiming == {"claim", "assign", "record"}
Creation == {"list", "lock", "member", "wait"} \cup Locked
Deletion == {"ips", "members"}
StepOK(r) ==
  /\ r.pc = "idle" => r = NoRequest
  /\ r.pc # "idle" => r.s \in Services
  /\ r.pc \in Creation => r.op \in {"create", "scale"} /\ r.n \in Indexes
  /\ r.pc \in Creation /\ r.op = "create" => r.n = Replicas
  /\ r.pc \in Deletion => r.op = "delete"
  /\ r.pc \in {"list", "lock", "read"} => r.free = <<>>
  /\ r.pc = "assign" => r.tries < MaxTries
  /\ r.pc = "record" => r.last \in IPs /\ r.at \in Nodes
  /\ r.pc \in {"member", "wait"} => r.i > 0
  /\ r.pc = "member" => Len(r.free) + r.i > r.n
  /\ r.pc \in {"list", "lock"} \cup Locked => r.todo \subseteq r.seen
MountOK(d) ==
  /\ d.pc = "idle" => d = NoMount
  /\ d.pc # "idle" => d.s \in Services /\ d.ip \in IPs
  /\ d.pc \in {"unassign", "assign", "update"} => d.old \in Records
  /\ d.pc = "drop" => d.drop \in IPs

TypeInv ==
  /\ TypeOK
  /\ req \in [Handlers -> Requests] /\ drv \in [Nodes -> Mounts]
  /\ \A h \in Handlers : StepOK(req[h])
  /\ \A n \in Nodes : MountOK(drv[n])

(* No two requests for a service are in progress when one of them deletes it. *)
Alone == \A g, h \in Handlers : g # h /\ req[g].pc \in Deletion => req[h].s # req[g].s

(* Members are created and found in order. *)
Segment(m) == \A i \in Indexes : m[i] # None => \A j \in 1..i : m[j] # None
StatusOK(r) ==
  /\ r.pc \in Creation => Live(r.s) /\ (r.op = "scale" => status[r.s] = "created")
  /\ r.pc \in Deletion => status[r.s] = "deleting"

(* What a creation has found and made so far. *)
Made(r, i) == \A j \in Indexes : j < i => members[r.s][j] # None
ProgressOK(r) ==
  /\ r.pc \in {"lock", "member"} \cup Locked =>
       Segment(r.known) /\ \A i \in Indexes : r.known[i] # None => members[r.s][i] = r.known[i]
  /\ r.pc = "member" => Made(r, r.i)
  /\ r.pc = "wait" => Made(r, r.n + 1) /\ \A j \in Indexes : j < r.i => <<r.s, j>> \in ready

ReadyOK(s) == status[s] = "created" =>
                \A i \in 1..replicas[s] : members[s][i] # None /\ <<s, i>> \in ready
ServiceOK(s) ==
  /\ status[s] = "creating" => replicas[s] = Replicas
  /\ Live(s) => Segment(members[s])
Progress ==
  /\ Alone
  /\ \A h \in Handlers : StatusOK(req[h]) /\ ProgressOK(req[h])
  /\ \A s \in Services : ServiceOK(s)
  /\ \A s \in Services : ReadyOK(s)

(* Who has an address. *)
Sound == ~repeated /\ ~twice /\ ~late
Owns(s, a) == rec[a] # None /\ rec[a].svc = s
OwnsAll(s, m) == \A i \in Present(m) : Owns(s, m[i]) /\ \A j \in Indexes \ {i} : m[j] # m[i]

Distinct(f) == \A k, l \in DOMAIN f : k # l => f[k] # f[l]
(* The addresses a creation has to give away are its service's, and no      *)
(* member it knows has one; once it makes members, none has at all, unless  *)
(* another request has made the member it comes to.                         *)
FreeOK(r) ==
  /\ r.pc \in Claiming \cup {"member"} =>
       /\ \A k \in DOMAIN r.free : Owns(r.s, r.free[k])
       /\ Distinct(r.free)
  /\ r.pc \in Claiming => \A k \in DOMAIN r.free : ~Known(r, r.free[k])
  /\ r.pc = "member" /\ r.i <= r.n /\ members[r.s][r.i] = None =>
       \A k \in DOMAIN r.free, j \in Indexes : members[r.s][j] # r.free[k]
  /\ r.pc = "ips" => OwnsAll(r.s, r.known)

(* The container on n is one of a member, of a service that is not deleted. *)
DriverOK(d) ==
  d.pc # "idle" => /\ status[d.s] = "created"
                   /\ \E i \in Indexes : members[d.s][i] = d.ip

Addresses ==
  /\ \A s \in Services : Live(s) => OwnsAll(s, members[s])
  /\ \A h \in Handlers : FreeOK(req[h])
  /\ \A n \in Nodes : drv[n].old # None => drv[n].old.svc = drv[n].s
Drivers == \A n \in Nodes : DriverOK(drv[n])

IInv == TypeInv /\ Progress /\ (Sound => Drivers /\ Addresses)

-----------------------------------------------------------------------------
(* Types and steps *)

LEMMA Facts ==
  /\ MaxIP \in Nat /\ MaxReplicas \in Nat /\ MaxTries \in Nat /\ MaxTries > 0
  /\ MaxEvents \in Nat /\ MaxRequests \in Nat
  /\ IPs = 1..MaxIP /\ Indexes = 1..MaxReplicas /\ Replicas \in Indexes
  /\ None \notin Services /\ None \notin Nodes /\ None \notin Handlers /\ None \notin Nat
  /\ None \notin IPs /\ None \notin Records
  BY StaticIPsAssumption, RecordsAssumption DEF IPs, Indexes

LEMMA NoRequestFacts ==
  /\ NoRequest \in Requests /\ NoRequest.pc = "idle" /\ NoRequest.s = None /\ NoRequest.op = None
  /\ StepOK(NoRequest)
  <1>1. NoMembers \in [Indexes -> IPs \cup {None}] /\ <<>> \in Seq(IPs) /\ 0 \in 0..MaxReplicas
        /\ 0 \in 0..MaxIP /\ 0 \in 0..MaxTries /\ 0 \in Nat
    BY Facts DEF NoMembers
  <1>2. NoRequest \in Requests
    BY <1>1 DEF NoRequest, Requests, Pcs
  <1>3. NoRequest.pc = "idle" /\ NoRequest.s = None /\ NoRequest.op = None
    BY DEF NoRequest
  <1> QED BY <1>2, <1>3, Facts DEF StepOK, Creation, Deletion, Locked

LEMMA NoMountFacts == NoMount \in Mounts /\ MountOK(NoMount) /\ NoMount.pc = "idle" /\ NoMount.old = None
                      /\ NoMount.s = None
  BY DEF NoMount, Mounts, MountOK

LEMMA StateFacts ==
  ASSUME TypeInv
  PROVE  /\ nic \in [IPs -> Nodes \cup {None}] /\ rec \in [IPs -> Records \cup {None}]
         /\ members \in [Services -> [Indexes -> IPs \cup {None}]]
         /\ ready \subseteq Services \X Indexes
         /\ status \in [Services -> {"creating", "created", "deleting", "gone"}]
         /\ replicas \in [Services -> Indexes]
         /\ events \in 0..MaxEvents /\ requests \in 0..MaxRequests
         /\ repeated \in BOOLEAN /\ twice \in BOOLEAN /\ late \in BOOLEAN /\ iplock \in Handlers \cup {None}
         /\ req \in [Handlers -> Requests] /\ drv \in [Nodes -> Mounts]
  BY DEF TypeInv, TypeOK

(* The fields of a request. *)
LEMMA Fields ==
  ASSUME NEW r \in Requests
  PROVE  /\ r.op \in Ops \cup {None} /\ r.s \in Services \cup {None} /\ r.pc \in Pcs
         /\ r.n \in Nat /\ r.n \in 0..MaxReplicas /\ r.from \in 0..MaxReplicas
         /\ r.known \in [Indexes -> IPs \cup {None}] /\ r.nodes \in SUBSET Nodes
         /\ r.seen \in SUBSET (Nodes \X IPs) /\ r.todo \in SUBSET (Nodes \X IPs)
         /\ r.free \in Seq(IPs) /\ Len(r.free) \in Nat /\ DOMAIN r.free = 1..Len(r.free)
         /\ \A k \in DOMAIN r.free : r.free[k] \in IPs /\ r.free[k] # None
         /\ r.at \in Nodes \cup {None} /\ r.last \in 0..MaxIP /\ r.last \in Nat
         /\ r.tries \in 0..MaxTries /\ r.i \in Nat
  <1>1. /\ r.free \in Seq(IPs) /\ r.n \in 0..MaxReplicas /\ r.last \in 0..MaxIP
        /\ r.op \in Ops \cup {None} /\ r.s \in Services \cup {None} /\ r.pc \in Pcs
        /\ r.from \in 0..MaxReplicas
        /\ r.known \in [Indexes -> IPs \cup {None}] /\ r.nodes \in SUBSET Nodes
        /\ r.seen \in SUBSET (Nodes \X IPs) /\ r.todo \in SUBSET (Nodes \X IPs)
        /\ r.at \in Nodes \cup {None} /\ r.tries \in 0..MaxTries /\ r.i \in Nat
    BY DEF Requests
  <1>2. Len(r.free) \in Nat /\ DOMAIN r.free = 1..Len(r.free) /\ r.free \in [1..Len(r.free) -> IPs]
    BY <1>1, LenProperties
  <1>3. \A k \in DOMAIN r.free : r.free[k] \in IPs /\ r.free[k] # None
    BY <1>2, Facts
  <1>4. r.n \in Nat /\ r.last \in Nat
    BY <1>1, Facts
  <1> QED BY <1>1, <1>2, <1>3, <1>4

LEMMA HandlerFacts ==
  ASSUME IInv, NEW h \in Handlers
  PROVE  /\ req[h] \in Requests /\ StepOK(req[h]) /\ StatusOK(req[h]) /\ ProgressOK(req[h])
         /\ Sound => FreeOK(req[h])
         /\ iplock = h <=> req[h].pc \in Locked
         /\ req[h].pc # "idle" => req[h].s \in Services /\ req[h].s # None
  BY Facts DEF IInv, TypeInv, TypeOK, Progress, Addresses, StepOK, Locked

(* A step of h leads to the request r, with the lock or without it. *)
TypedDB ==
  /\ nic' \in [IPs -> Nodes \cup {None}] /\ rec' \in [IPs -> Records \cup {None}]
  /\ members' \in [Services -> [Indexes -> IPs \cup {None}]]
  /\ ready' \subseteq Services \X Indexes
  /\ status' \in [Services -> {"creating", "created", "deleting", "gone"}]
  /\ replicas' \in [Services -> Indexes]
TypedBounds ==
  /\ events' \in 0..MaxEvents /\ requests' \in 0..MaxRequests
  /\ twice' \in BOOLEAN /\ repeated' \in BOOLEAN /\ late' \in BOOLEAN
LockFollows(h, r) ==
  /\ iplock' \in Handlers \cup {None}
  /\ iplock' = h <=> r.pc \in Locked
  /\ \A g \in Handlers : g # h => (iplock' = g <=> iplock = g)

LEMMA TypedStep ==
  ASSUME TypeInv, NEW h \in Handlers, NEW r \in Requests, Become(h, r), StepOK(r),
         TypedDB, TypedBounds, LockFollows(h, r), drv' = drv
  PROVE  TypeInv'
  <1>1. req' \in [Handlers -> Requests] /\ req'[h] = r /\ \A g \in Handlers : g # h => req'[g] = req[g]
    BY StateFacts DEF Become
  <1>2. ASSUME NEW g \in Handlers
        PROVE  /\ req'[g] \in Requests /\ StepOK(req'[g])
               /\ iplock' = g <=> req'[g].pc \in Locked
    <2>1. CASE g = h
      BY <1>1, <2>1 DEF LockFollows
    <2>2. CASE g # h
      BY <1>1, <2>2 DEF LockFollows, TypeInv, TypeOK, Locked
    <2> QED BY <2>1, <2>2
  <1>3. \A g \in Handlers :
          /\ req'[g].known \in [Indexes -> IPs \cup {None}] /\ req'[g].seen \subseteq Nodes \X IPs
          /\ req'[g].last \in 0..MaxIP /\ req'[g].tries \in 0..MaxTries /\ req'[g].free \in Seq(IPs)
          /\ req'[g].pc = "member" => Len(req'[g].free) + req'[g].i > req'[g].n
    BY <1>2, Fields DEF StepOK
  <1>4. TypeOK'
    BY <1>2, <1>3 DEF TypeInv, TypeOK, TypedDB, TypedBounds, LockFollows, Locked
  <1> QED BY <1>1, <1>2, <1>4 DEF TypeInv

-----------------------------------------------------------------------------
(* What a step of one request leaves to the others *)

(* Nothing is taken from s. *)
Grows(s) ==
  /\ \A i \in Indexes : members[s][i] # None => members'[s][i] = members[s][i]
  /\ \A i \in Indexes : <<s, i>> \in ready => <<s, i>> \in ready'
  /\ status[s] = "creating" => status'[s] \in {"creating", "created"}
  /\ status[s] \in {"created", "deleting"} => status'[s] = status[s]
SameService(s) == /\ members'[s] = members[s] /\ status'[s] = status[s] /\ replicas'[s] = replicas[s]
                  /\ \A i \in Indexes : <<s, i>> \in ready' <=> <<s, i>> \in ready

LEMMA SameGrows ==
  ASSUME NEW s, SameService(s)
  PROVE  Grows(s)
  BY DEF SameService, Grows

LEMMA ProgressKept ==
  ASSUME NEW q \in Requests, StepOK(q), StatusOK(q), ProgressOK(q), q.pc # "idle" => Grows(q.s)
  PROVE  StatusOK(q)' /\ ProgressOK(q)'
  <1>1. CASE q.pc = "idle"
    BY <1>1, NoRequestFacts DEF StepOK, StatusOK, ProgressOK, Creation, Deletion, Locked
  <1>2. CASE q.pc # "idle"
    <2>1. Grows(q.s) /\ q.s \in Services
      BY <1>2 DEF StepOK
    <2>2. StatusOK(q)'
      BY <2>1 DEF StatusOK, Grows, Live
    <2>3. ASSUME NEW n, Made(q, n) PROVE Made(q, n)'
      BY <2>1, <2>3 DEF Made, Grows
    <2>4. q.pc = "member" => Made(q, q.i)'
      BY <2>3 DEF ProgressOK
    <2>5. q.pc = "wait" => Made(q, q.n + 1)' /\ \A j \in Indexes : j < q.i => <<q.s, j>> \in ready'
      BY <2>1, <2>3 DEF ProgressOK, Grows
    <2>6. \A i \in Indexes : q.known[i] # None /\ members[q.s][i] = q.known[i]
                              => members'[q.s][i] = q.known[i]
      BY <2>1 DEF Grows
    <2> QED BY <2>2, <2>4, <2>5, <2>6 DEF ProgressOK
  <1> QED BY <1>1, <1>2


(* A step of h for the service s that ends with the request r. *)
LEMMA ProgressStep ==
  ASSUME TypeInv, Progress, NEW h \in Handlers, NEW s \in Services,
         NEW r \in Requests, Become(h, r), StepOK(r), r.s \in {s, None},
         \A t \in Services : t # s => SameService(t),
         \A g \in Handlers : g # h /\ req[g].s = s =>
            Grows(s) /\ req[g].pc \notin Deletion /\ r.pc \notin Deletion,
         ServiceOK(s)', ReadyOK(s)', StatusOK(r)', ProgressOK(r)'
  PROVE  Progress'
  <1>1. req'[h] = r /\ \A g \in Handlers : g # h => req'[g] = req[g]
    BY StateFacts DEF Become
  <1>2. Alone'
    <2>1. r.pc \in Deletion => r.s = s
      BY Facts DEF StepOK, Deletion
    <2>2. ASSUME NEW g \in Handlers, NEW f \in Handlers, g # f, req'[g].pc \in Deletion
          PROVE  req'[f].s # req'[g].s
      <3>1. CASE f = h
        <4>1. req'[g] = req[g] /\ req[g].s \in Services
          BY <1>1, <2>2, <3>1 DEF TypeInv, StepOK, Deletion
        <4> QED BY <1>1, <2>2, <3>1, <4>1, Facts
      <3>2. CASE g = h
        BY <1>1, <2>1, <2>2, <3>2
      <3>3. CASE f # h /\ g # h
        BY <1>1, <2>2, <3>3 DEF Progress, Alone
      <3> QED BY <3>1, <3>2, <3>3
    <2> QED BY <2>2 DEF Alone
  <1>3. ASSUME NEW g \in Handlers PROVE StatusOK(req[g])' /\ ProgressOK(req[g])'
    <2>1. CASE g = h
      BY <1>1, <2>1
    <2>2. CASE g # h
      <3>1. PICK q \in Requests : q = req[g]
        BY StateFacts
      <3>2. StepOK(q) /\ StatusOK(q) /\ ProgressOK(q)
        BY <3>1 DEF TypeInv, Progress
      <3>3. q.pc # "idle" => Grows(q.s)
        BY <2>2, <3>1, <3>2, SameGrows DEF StepOK
      <3>4. StatusOK(q)' /\ ProgressOK(q)'
        BY <3>2, <3>3, ProgressKept
      <3> QED BY <1>1, <2>2, <3>1, <3>4
    <2> QED BY <2>1, <2>2
  <1>4. ASSUME NEW t \in Services PROVE ServiceOK(t)' /\ ReadyOK(t)'
    <2>1. CASE t # s
      <3>1. SameService(t) /\ ServiceOK(t) /\ ReadyOK(t) /\ 1..replicas[t] \subseteq Indexes
        BY <2>1, StateFacts, Facts DEF Progress
      <3> QED BY <3>1 DEF SameService, ServiceOK, ReadyOK, Live
    <2> QED BY <2>1
  <1> QED BY <1>2, <1>3, <1>4 DEF Progress

(* No request for s that deletes it has company. *)
LEMMA Company ==
  ASSUME IInv, NEW h \in Handlers, NEW g \in Handlers, g # h, req[g].s = req[h].s,
         req[h].pc # "idle"
  PROVE  req[h].pc \notin Deletion /\ req[g].pc \notin Deletion
  BY DEF IInv, Progress, Alone

(* Records of addresses stay with their service, and of two creations for s *)
(* only the first makes a member. *)
Keeps(s) == \A a \in IPs : Owns(s, a) => Owns(s, a)'
Spares(q) == Keeps(q.s) /\ (q.pc = "member" /\ q.i <= q.n /\ members'[q.s][q.i] = None
                              => members'[q.s] = members[q.s])

LEMMA OwnsAllKept ==
  ASSUME NEW s, NEW m \in [Indexes -> IPs \cup {None}], OwnsAll(s, m), Keeps(s)
  PROVE  OwnsAll(s, m)'
  <1>1. ASSUME NEW i \in Present(m) PROVE Owns(s, m[i])'
    BY <1>1 DEF OwnsAll, Keeps, Present
  <1> QED BY <1>1 DEF OwnsAll, Present

LEMMA FreeKept ==
  ASSUME NEW q \in Requests, FreeOK(q), Spares(q)
  PROVE  FreeOK(q)'
  <1>1. ASSUME NEW k \in DOMAIN q.free, Owns(q.s, q.free[k]) PROVE Owns(q.s, q.free[k])'
    BY <1>1, Fields DEF Spares, Keeps
  <1>2. q.pc = "ips" => OwnsAll(q.s, q.known)'
    BY Fields, OwnsAllKept DEF FreeOK, Spares
  <1>3. q.pc = "member" /\ q.i <= q.n /\ members'[q.s][q.i] = None =>
       \A k \in DOMAIN q.free, j \in Indexes : members'[q.s][j] # q.free[k]
    BY DEF FreeOK, Spares
  <1> QED BY <1>1, <1>2, <1>3 DEF FreeOK

LEMMA NoRequestFree == FreeOK(NoRequest)' /\ StatusOK(NoRequest)' /\ ProgressOK(NoRequest)'
  BY NoRequestFacts DEF FreeOK, StatusOK, ProgressOK, Creation, Deletion, Locked, Claiming

LEMMA AddressStep ==
  ASSUME IInv, TypeInv', NEW h \in Handlers, NEW s \in Services,
         NEW r \in Requests, Become(h, r), drv' = drv,
         Sound, \A t \in Services : t # s => SameService(t) /\ Keeps(t),
         \A g \in Handlers : g # h /\ req[g].s = s => Spares(req[g]),
         Live(s)' => OwnsAll(s, members[s])', FreeOK(r)'
  PROVE  Addresses'
  <1>1. req'[h] = r /\ \A g \in Handlers : g # h => req'[g] = req[g]
    BY StateFacts DEF Become, IInv
  <1>2. ASSUME NEW g \in Handlers PROVE FreeOK(req[g])'
    <2>1. CASE g = h
      BY <1>1, <2>1
    <2>2. CASE g # h
      <3>1. PICK q \in Requests : q = req[g]
        BY StateFacts DEF IInv
      <3>2. FreeOK(q) /\ StepOK(q)
        BY <3>1, HandlerFacts
      <3>3. CASE q.pc = "idle"
        BY <1>1, <2>2, <3>1, <3>2, <3>3, NoRequestFree DEF StepOK
      <3>4. CASE q.pc # "idle"
        <4>1. Spares(q)
          BY <2>2, <3>1, <3>2, <3>4 DEF StepOK, Spares, SameService
        <4>2. FreeOK(q)'
          BY <3>2, <4>1, FreeKept
        <4> QED BY <1>1, <2>2, <3>1, <4>2
      <3> QED BY <3>3, <3>4
    <2> QED BY <2>1, <2>2
  <1>3. ASSUME NEW t \in Services, Live(t)' PROVE OwnsAll(t, members[t])'
    <2>1. CASE t # s
      <3>1. OwnsAll(t, members[t]) /\ members[t] \in [Indexes -> IPs \cup {None}]
            /\ members'[t] = members[t] /\ Keeps(t)
        BY <1>3, <2>1, StateFacts DEF IInv, Addresses, SameService, Live
      <3>2. PICK m \in [Indexes -> IPs \cup {None}] : m = members[t]
        BY <3>1
      <3>3. OwnsAll(t, m)'
        BY <3>1, <3>2, OwnsAllKept
      <3> QED BY <3>1, <3>2, <3>3
    <2> QED BY <1>3, <2>1
  <1>4. \A n \in Nodes : drv'[n].old # None => drv'[n].old.svc = drv'[n].s
    BY DEF IInv, Addresses
  <1> QED BY <1>2, <1>3, <1>4 DEF Addresses

LEMMA DriversStep ==
  ASSUME IInv, Sound, NEW s \in Services, drv' = drv,
         \A t \in Services : t # s => SameService(t),
         status[s] = "created" => Grows(s) \/ \A n \in Nodes : drv[n].s # s
  PROVE  Drivers'
  <1>1. ASSUME NEW n \in Nodes, drv[n].pc # "idle"
        PROVE  status'[drv[n].s] = "created" /\ \E i \in Indexes : members'[drv[n].s][i] = drv[n].ip
    <2>1. PICK d : d = drv[n]
      OBVIOUS
    <2>2. /\ status[d.s] = "created" /\ d.s \in Services /\ d.ip # None
          /\ \E i \in Indexes : members[d.s][i] = d.ip
      BY <1>1, <2>1, Facts DEF IInv, TypeInv, MountOK, Drivers, DriverOK
    <2>3. Grows(d.s)
      BY <2>1, <2>2, SameGrows
    <2> QED BY <2>1, <2>2, <2>3 DEF Grows
  <1> QED BY <1>1 DEF Drivers, DriverOK

(* All of it. *)
LEMMA Step ==
  ASSUME IInv, NEW h \in Handlers, NEW s \in Services, NEW r \in Requests,
         Become(h, r), StepOK(r), r.s \in {s, None},
         TypedDB, TypedBounds, LockFollows(h, r), drv' = drv,
         \A t \in Services : t # s => SameService(t),
         Sound' => \A t \in Services : t # s => Keeps(t),
         Sound' => Grows(s) \/ (status[s] = "created" => \A n \in Nodes : drv[n].s # s),
         \A g \in Handlers : g # h /\ req[g].s = s =>
            /\ Grows(s) /\ req[g].pc \notin Deletion /\ r.pc \notin Deletion
            /\ Sound' => Spares(req[g]),
         ServiceOK(s)', ReadyOK(s)', StatusOK(r)', ProgressOK(r)',
         Sound' => Sound /\ FreeOK(r)' /\ (Live(s)' => OwnsAll(s, members[s])')
  PROVE  IInv'
  <1>1. TypeInv'
    BY TypedStep DEF IInv
  <1>2. Progress'
    BY ProgressStep DEF IInv
  <1>3. Sound' => Drivers'
    BY DriversStep
  <1>4. Sound' => Addresses'
    BY <1>1, AddressStep
  <1> QED BY <1>1, <1>2, <1>3, <1>4 DEF IInv

-----------------------------------------------------------------------------
(* Requests that write no record *)

UnchangedDB == rec' = rec /\ members' = members /\ status' = status /\ replicas' = replicas
               /\ ready' = ready
SameMembers == members' = members /\ status' = status /\ replicas' = replicas /\ ready' = ready

(* A step that leaves the members, and the records to their services. *)
LEMMA RecordStep ==
  ASSUME IInv, NEW h \in Handlers, req[h].pc # "idle", NEW r \in Requests, Become(h, r), StepOK(r),
         \/ r = NoRequest
         \/ r.s = req[h].s /\ (r.pc \in Deletion => req[h].pc \in Deletion),
         SameMembers, rec' \in [IPs -> Records \cup {None}],
         Sound' => \A t \in Services : t # req[h].s \/ req[h].pc \notin Deletion => Keeps(t),
         drv' = drv, nic' \in [IPs -> Nodes \cup {None}],
         TypedBounds, LockFollows(h, r),
         StatusOK(r), ProgressOK(r),
         Sound' => Sound /\ FreeOK(r)'
  PROVE  IInv'
  <1>1. PICK s \in Services : s = req[h].s
    BY HandlerFacts
  <1>2. \A t : SameService(t) /\ Grows(t)
    BY DEF SameMembers, SameService, Grows
  <1>3. TypedDB
    BY StateFacts DEF IInv, TypedDB, SameMembers
  <1>4. r.s \in {s, None}
    BY <1>1, NoRequestFacts
  <1>5. ASSUME NEW g \in Handlers, g # h, req[g].s = s
        PROVE  /\ req[g].pc \notin Deletion /\ r.pc \notin Deletion
               /\ Sound' => Spares(req[g])
    <2>1. req[h].pc \notin Deletion /\ req[g].pc \notin Deletion
      BY <1>1, <1>5, Company
    <2>2. r.pc \notin Deletion
      BY <2>1, NoRequestFacts DEF Deletion
    <2>3. Sound' => Keeps(req[g].s)
      BY <1>1, <1>5, <2>1
    <2> QED BY <2>1, <2>2, <2>3 DEF Spares, SameMembers
  <1>6. ServiceOK(s)' /\ ReadyOK(s)'
    <2>1. ServiceOK(s) /\ ReadyOK(s)
      BY DEF IInv, Progress
    <2> QED BY <2>1 DEF ServiceOK, ReadyOK, Live, SameMembers
  <1>7. StatusOK(r)'
    BY DEF StatusOK, Live, SameMembers
  <1>8. ProgressOK(r)'
    BY DEF ProgressOK, Made, SameMembers
  <1>9. ASSUME Sound' PROVE Sound /\ FreeOK(r)' /\ (Live(s)' => OwnsAll(s, members[s])')
    <2>1. Sound /\ FreeOK(r)'
      BY <1>9
    <2>2. ASSUME Live(s)' PROVE OwnsAll(s, members[s])'
      <3>1. PICK m \in [Indexes -> IPs \cup {None}] : m = members[s]
        BY StateFacts DEF IInv
      <3>2. Live(s) /\ OwnsAll(s, m)
        BY <2>1, <2>2, <3>1 DEF IInv, Addresses, Live, SameMembers
      <3>3. req[h].pc \notin Deletion
        BY <1>1, <3>2, HandlerFacts DEF StatusOK, Live
      <3>4. OwnsAll(s, m)'
        BY <1>1, <1>9, <3>2, <3>3, OwnsAllKept
      <3> QED BY <3>1, <3>4 DEF SameMembers
    <2> QED BY <2>1, <2>2
  <1>10. Sound' => \A t \in Services : t # s => Keeps(t)
    BY <1>1
  <1> QED BY <1>2, <1>3, <1>4, <1>5, <1>6, <1>7, <1>8, <1>9, <1>10, Step

LEMMA QuietStep ==
  ASSUME IInv, NEW h \in Handlers, req[h].pc # "idle", NEW r \in Requests, Become(h, r), StepOK(r),
         \/ r = NoRequest
         \/ r.s = req[h].s /\ (r.pc \in Deletion => req[h].pc \in Deletion),
         UnchangedDB, drv' = drv, nic' \in [IPs -> Nodes \cup {None}],
         TypedBounds, LockFollows(h, r),
         StatusOK(r), ProgressOK(r), Sound' => Sound /\ FreeOK(r)
  PROVE  IInv'
  <1>1. SameMembers /\ rec' \in [IPs -> Records \cup {None}]
    BY StateFacts DEF IInv, UnchangedDB, SameMembers
  <1>2. \A t : Keeps(t)
    BY DEF UnchangedDB, Keeps, Owns
  <1>3. FreeOK(r) => FreeOK(r)'
    BY DEF FreeOK, Owns, OwnsAll, UnchangedDB
  <1> QED BY <1>1, <1>2, <1>3, RecordStep

LEMMA NoRequestOK == StatusOK(NoRequest) /\ ProgressOK(NoRequest) /\ FreeOK(NoRequest)
  BY NoRequestFacts DEF FreeOK, StatusOK, ProgressOK, Creation, Deletion, Locked, Claiming

LEMMA BoundsKept ==
  ASSUME TypeInv, events' = events \/ Event, requests' = requests \/ Send, history' = history
  PROVE  TypedBounds /\ Sound' = Sound
  BY StateFacts, Facts DEF TypedBounds, Sound, history, Event, Send

(* The lock is kept, or was not held. *)
LEMMA LockKept ==
  ASSUME IInv, NEW h \in Handlers, NEW r, iplock' = iplock,
         r.pc \in Locked <=> req[h].pc \in Locked
  PROVE  LockFollows(h, r)
  BY HandlerFacts, StateFacts DEF IInv, LockFollows

LEMMA LockReleased ==
  ASSUME IInv, NEW h \in Handlers, NEW r, Unlock(h), r.pc \notin Locked
  PROVE  LockFollows(h, r)
  BY HandlerFacts, StateFacts, Facts DEF IInv, LockFollows, Unlock

LEMMA FailStep ==
  ASSUME IInv, NEW h \in Handlers, req[h].pc # "idle", Fail(h), UnchangedDB, drv' = drv,
         nic' \in [IPs -> Nodes \cup {None}], events' = events \/ Event, requests' = requests,
         history' = history
  PROVE  IInv'
  <1>1. TypedBounds /\ Sound' = Sound
    BY BoundsKept DEF IInv
  <1>2. LockFollows(h, NoRequest)
    BY LockReleased, NoRequestFacts DEF Fail, Locked
  <1> QED BY <1>1, <1>2, QuietStep, NoRequestFacts, NoRequestOK DEF Fail, Return

LEMMA RequestFailsStep ==
  ASSUME IInv, NEW h \in Handlers, RequestFails(h)
  PROVE  IInv'
  BY FailStep, StateFacts DEF RequestFails, At, UnchangedDB, db, IInv

LEMMA NoNextIPStep ==
  ASSUME IInv, NEW h \in Handlers, NoNextIP(h)
  PROVE  IInv'
  BY FailStep, StateFacts DEF NoNextIP, At, UnchangedDB, db, IInv

LEMMA ListServiceMembersStep ==
  ASSUME IInv, NEW h \in Handlers, ListServiceMembers(h)
  PROVE  IInv'
  <1>1. PICK q \in Requests : q = req[h] /\ q.pc = "list" /\ q.s \in Services
                              /\ StepOK(q) /\ StatusOK(q)
    BY HandlerFacts DEF ListServiceMembers, At
  <1>2. PICK m \in [Indexes -> IPs \cup {None}] : m = members[q.s]
    BY <1>1, StateFacts DEF IInv
  <1>3. PICK r : r = [q EXCEPT !.pc = "lock", !.known = m] /\ Become(h, r)
    BY <1>1, <1>2 DEF ListServiceMembers
  <1>4. r \in Requests /\ r.pc = "lock" /\ r.s = q.s /\ r.op = q.op /\ r.n = q.n /\ r.known = m
        /\ r.free = q.free /\ r.todo = q.todo /\ r.seen = q.seen
    BY <1>1, <1>3 DEF Requests, Pcs
  <1>5. StepOK(r) /\ StatusOK(r)
    BY <1>1, <1>4 DEF StepOK, StatusOK, Creation, Deletion, Locked
  <1>6. ProgressOK(r)
    BY <1>1, <1>2, <1>4, <1>5 DEF ProgressOK, Locked, IInv, Progress, ServiceOK, StatusOK, Creation
  <1>7. FreeOK(r)
    BY <1>4 DEF FreeOK, Claiming
  <1>8. UnchangedDB /\ drv' = drv /\ TypedBounds /\ Sound' = Sound /\ nic' = nic
    BY BoundsKept DEF ListServiceMembers, IInv, UnchangedDB, db
  <1>9. LockFollows(h, r)
    BY <1>1, <1>4, LockKept DEF ListServiceMembers, Locked
  <1> QED BY <1>1, <1>3, <1>4, <1>5, <1>6, <1>7, <1>8, <1>9, QuietStep, StateFacts DEF IInv, Deletion

LEMMA LockIPsStep ==
  ASSUME IInv, NEW h \in Handlers, LockIPs(h)
  PROVE  IInv'
  <1>1. PICK q \in Requests : q = req[h] /\ q.pc = "lock" /\ q.s \in Services
                              /\ StepOK(q) /\ StatusOK(q) /\ ProgressOK(q)
    BY HandlerFacts DEF LockIPs, At
  <1>3. PICK r : r = [q EXCEPT !.pc = "read", !.nodes = Nodes] /\ Become(h, r)
    BY <1>1 DEF LockIPs
  <1>4. r \in Requests /\ r.pc = "read" /\ r.s = q.s /\ r.op = q.op /\ r.n = q.n
        /\ r.known = q.known /\ r.free = q.free /\ r.todo = q.todo /\ r.seen = q.seen
    BY <1>1, <1>3 DEF Requests, Pcs
  <1>5. StepOK(r)
    BY <1>1, <1>4 DEF StepOK, Creation, Deletion, Locked
  <1>6. StatusOK(r) /\ ProgressOK(r)
    BY <1>1, <1>4 DEF StatusOK, ProgressOK, Creation, Deletion, Locked
  <1>7. FreeOK(r)
    BY <1>4 DEF FreeOK, Claiming
  <1>8. UnchangedDB /\ drv' = drv /\ TypedBounds /\ Sound' = Sound /\ nic' = nic
    BY BoundsKept DEF LockIPs, IInv, UnchangedDB, db
  <1>9. LockFollows(h, r)
    BY <1>4, HandlerFacts, Facts DEF LockIPs, LockFollows, Locked
  <1> QED BY <1>1, <1>3, <1>4, <1>5, <1>6, <1>7, <1>8, <1>9, QuietStep, StateFacts DEF IInv, Deletion

LEMMA GetNetworkInterfacesStep ==
  ASSUME IInv, NEW h \in Handlers, GetNetworkInterfaces(h)
  PROVE  IInv'
  <1>1. PICK q \in Requests : q = req[h] /\ q.pc = "read" /\ q.s \in Services
                              /\ StepOK(q) /\ StatusOK(q) /\ ProgressOK(q)
    BY HandlerFacts DEF GetNetworkInterfaces, At
  <1>2. PICK n \in q.nodes :
          Become(h, [q EXCEPT !.nodes = @ \ {n}, !.seen = @ \cup AddressesOf(n),
                              !.todo = @ \cup AddressesOf(n),
                              !.pc = IF q.nodes = {n} THEN "claim" ELSE @])
    BY <1>1 DEF GetNetworkInterfaces
  <1>3. PICK A : A = AddressesOf(n)
    OBVIOUS
  <1>4. A \subseteq Nodes \X IPs
    BY <1>1, <1>2, <1>3, Fields DEF AddressesOf
  <1>5. PICK N \in SUBSET Nodes, S \in SUBSET (Nodes \X IPs), T \in SUBSET (Nodes \X IPs),
             p \in {"read", "claim"} :
          /\ S = q.seen \cup A /\ T = q.todo \cup A
          /\ Become(h, [q EXCEPT !.nodes = N, !.seen = S, !.todo = T, !.pc = p])
    <2>1. q.nodes \ {n} \in SUBSET Nodes /\ q.seen \cup A \in SUBSET (Nodes \X IPs)
          /\ q.todo \cup A \in SUBSET (Nodes \X IPs)
          /\ (IF q.nodes = {n} THEN "claim" ELSE q.pc) \in {"read", "claim"}
      BY <1>1, <1>4, Fields
    <2> QED BY <1>2, <1>3, <2>1
  <1> PICK r : r = [q EXCEPT !.nodes = N, !.seen = S, !.todo = T, !.pc = p]
    OBVIOUS
  <1>6. /\ r \in Requests /\ r.pc \in {"read", "claim"} /\ r.s = q.s /\ r.op = q.op /\ r.n = q.n
        /\ r.known = q.known /\ r.free = q.free /\ r.todo = q.todo \cup A /\ r.seen = q.seen \cup A
    BY <1>5 DEF Requests, Pcs
  <1>7. StepOK(r)
    BY <1>1, <1>6 DEF StepOK, Creation, Deletion, Locked
  <1>8. StatusOK(r) /\ ProgressOK(r)
    BY <1>1, <1>6 DEF StatusOK, ProgressOK, Creation, Deletion, Locked
  <1>9. FreeOK(r)
    <2>1. r.free = <<>> /\ DOMAIN r.free = {}
      BY <1>1, <1>6 DEF StepOK
    <2> QED BY <1>6, <2>1 DEF FreeOK, Distinct, Claiming
  <1>10. UnchangedDB /\ drv' = drv /\ TypedBounds /\ Sound' = Sound /\ nic' = nic
    BY BoundsKept DEF GetNetworkInterfaces, IInv, UnchangedDB, db
  <1>11. LockFollows(h, r) /\ Become(h, r)
    BY <1>1, <1>5, <1>6, LockKept DEF GetNetworkInterfaces, Locked
  <1> QED BY <1>1, <1>6, <1>7, <1>8, <1>9, <1>10, <1>11, QuietStep, StateFacts DEF IInv, Deletion

(* A finite set of numbers has a largest: the one with the fewest above it. *)
LEMMA Largest ==
  ASSUME NEW S, S \subseteq Nat, S # {}, IsFiniteSet(S)
  PROVE  \E x \in S : \A y \in S : y <= x
  <1> DEFINE Above(x) == {y \in S : x < y}
             Tops == {Above(x) : x \in S}
  <1>1. Tops \subseteq FiniteSubsetsOf(S) /\ Tops # {}
    <2>1. \A x \in S : Above(x) \in SUBSET S /\ IsFiniteSet(Above(x))
      BY FS_Subset
    <2> QED BY <2>1 DEF FiniteSubsetsOf
  <1>2. PICK t \in Tops : \A u \in Tops : ~ (<<u, t>> \in StrictSubsetOrdering(S))
    BY <1>1, WFMin, FS_StrictSubsetOrderingWellFounded
  <1>3. PICK x \in S : t = Above(x)
    OBVIOUS
  <1>4. ASSUME NEW y \in S, x < y PROVE FALSE
    <2>1. x \in Nat /\ y \in Nat /\ ~(y < y) /\ \A z \in Nat : y < z => x < z
      BY <1>4
    <2>2. Above(y) \in SUBSET t /\ y \in t /\ y \notin Above(y) /\ t \in SUBSET S /\ Above(y) \in Tops
      BY <1>3, <1>4, <2>1
    <2> QED BY <1>2, <2>2 DEF StrictSubsetOrdering
  <1> QED BY <1>4

(* Members that were made in order fill the first indexes. *)
LEMMA ListedFirst ==
  ASSUME NEW m \in [Indexes -> IPs \cup {None}], Segment(m)
  PROVE  Cardinality(Present(m)) \in 0..MaxReplicas /\ Present(m) = 1..Cardinality(Present(m))
  <1>1. Present(m) \subseteq Indexes /\ Indexes = 1..MaxReplicas /\ MaxReplicas \in Nat
        /\ Present(m) \subseteq Nat
    BY Facts DEF Present
  <1>2. IsFiniteSet(Present(m))
    BY <1>1, FS_Interval, FS_Subset
  <1>3. CASE Present(m) = {}
    BY <1>1, <1>3, FS_EmptySet
  <1>4. CASE Present(m) # {}
    <2>1. PICK k \in Present(m) : \A j \in Present(m) : j <= k
      BY <1>1, <1>2, <1>4, Largest
    <2>2. k \in 1..MaxReplicas /\ m[k] # None
      BY <1>1, <2>1 DEF Present
    <2>3. \A j \in 1..k : j \in Indexes /\ m[j] # None
      BY <1>1, <2>2 DEF Segment
    <2>4. Present(m) = 1..k
      <3>1. 1..k \subseteq Present(m)
        BY <2>3 DEF Present
      <3>2. ASSUME NEW j \in Present(m) PROVE j \in 1..k
        BY <1>1, <2>1, <2>2
      <3> QED BY <3>1, <3>2
    <2>5. Cardinality(1..k) = k
      BY <2>2, FS_Interval
    <2> QED BY <2>2, <2>4, <2>5
  <1> QED BY <1>3, <1>4

(* What a creation goes on with: the addresses it has found, or as many of *)
(* them as it needs, for the members after those that it listed.           *)
Continues(r, q) ==
  /\ r.pc \in {"assign", "member"} /\ r.s = q.s /\ r.known = q.known
  /\ \A k \in DOMAIN r.free : k \in DOMAIN q.free /\ r.free[k] = q.free[k]
  /\ r.pc = "member" /\ r.i <= r.n /\ members[r.s][r.i] = None =>
       \A j \in Indexes : members[r.s][j] # None => \E i \in Indexes : q.known[i] = members[r.s][j]

LEMMA ContinueOK ==
  ASSUME IInv, NEW h \in Handlers, NEW q \in Requests, q.pc \in Claiming, q.s \in Services,
         StepOK(q), StatusOK(q), ProgressOK(q), req[h].pc \in Locked, Continue(h, q)
  PROVE  \E r \in Requests : /\ Become(h, r) /\ Continues(r, q) /\ LockFollows(h, r)
                             /\ StepOK(r) /\ StatusOK(r) /\ ProgressOK(r)
  <1>1. PICK c : c = Listed(q)
    OBVIOUS
  <1>2. /\ c \in 0..MaxReplicas /\ Present(q.known) = 1..c /\ Segment(q.known)
        /\ \A i \in Indexes : q.known[i] # None => members[q.s][i] = q.known[i]
    BY <1>1, ListedFirst, Fields DEF ProgressOK, Locked, Claiming, Listed
  <1>3. /\ q.n \in Indexes /\ q.n \in Nat /\ c \in Nat /\ Len(q.free) \in Nat
        /\ DOMAIN q.free = 1..Len(q.free) /\ Enough(q) <=> Len(q.free) + c >= q.n
    BY <1>1, <1>2, Fields, Facts DEF StepOK, Creation, Locked, Claiming, Enough
  <1>4. CASE Enough(q)
    <2>1. PICK f : f = SubSeq(q.free, 1, q.n - c)
      OBVIOUS
    <2>2. /\ f \in Seq(IPs) /\ Len(f) = IF 1 <= q.n - c THEN q.n - c ELSE 0
          /\ \A k \in 1..(q.n - c) : f[k] = q.free[k]
      <3>1. \A k \in 1..(q.n - c) : q.free[k] \in IPs
        BY <1>3, <1>4, Fields
      <3> QED BY <1>3, <2>1, <3>1, SubSeqProperties
    <2>3. PICK r : r = [q EXCEPT !.pc = "member", !.i = c + 1, !.seen = {}, !.at = None,
                                 !.last = 0, !.tries = 0, !.free = f]
      OBVIOUS
    <2>4. Become(h, r) /\ iplock' = None
      BY <1>1, <1>4, <2>1, <2>3 DEF Continue, Requests
    <2>5. /\ r \in Requests /\ r.pc = "member" /\ r.s = q.s /\ r.op = q.op /\ r.n = q.n
          /\ r.known = q.known /\ r.free = f /\ r.i = c + 1
      <3>1. c + 1 \in Nat /\ 0 \in 0..MaxIP /\ 0 \in 0..MaxTries /\ "member" \in Pcs
            /\ {} \in SUBSET (Nodes \X IPs) /\ None \in Nodes \cup {None}
        BY <1>3, Facts DEF Pcs
      <3> QED BY <2>2, <2>3, <3>1 DEF Requests
    <2>6. DOMAIN f = 1..Len(f) /\ \A k \in DOMAIN f : k \in DOMAIN q.free /\ f[k] = q.free[k]
      BY <1>3, <1>4, <2>2, LenProperties
    <2>7. Len(f) + (c + 1) > q.n
      BY <1>3, <2>2
    <2>8. StepOK(r)
      BY <1>3, <2>5, <2>7 DEF StepOK, Creation, Deletion, Locked, Claiming
    <2>9. StatusOK(r)
      BY <2>5 DEF StatusOK, Creation, Deletion, Locked, Claiming
    <2>10. ProgressOK(r)
      <3>1. \A j \in Indexes : j < c + 1 => members[q.s][j] # None
        BY <1>2, <1>3, Facts DEF Present
      <3> QED BY <1>2, <2>5, <3>1 DEF ProgressOK, Made, Locked
    <2>11. ASSUME members[q.s][c + 1] = None, c + 1 <= q.n,
                  NEW j \in Indexes, members[q.s][j] # None
           PROVE  \E i \in Indexes : q.known[i] = members[q.s][j]
      <3>1. Segment(members[q.s])
        BY DEF IInv, Progress, ServiceOK, StatusOK, Creation, Locked, Claiming
      <3>2. j \in Nat /\ ~(c + 1 <= j)
        BY <1>3, <2>11, <3>1, Facts DEF Segment
      <3>3. j \in Present(q.known)
        BY <1>2, <1>3, <3>2, Facts, <2>11
      <3> QED BY <1>2, <3>3 DEF Present
    <2>12. Continues(r, q)
      BY <2>5, <2>6, <2>11 DEF Continues
    <2>13. LockFollows(h, r)
      BY <2>4, <2>5, HandlerFacts, Facts DEF LockFollows, Locked
    <2> QED BY <2>4, <2>5, <2>8, <2>9, <2>10, <2>12, <2>13
  <1>5. CASE ~Enough(q)
    <2>1. PICK r : r = [q EXCEPT !.pc = "assign", !.at = None, !.tries = 0, !.i = @ + 1]
      OBVIOUS
    <2>2. Become(h, r) /\ iplock' = iplock
      BY <1>5, <2>1 DEF Continue
    <2>3. /\ r \in Requests /\ r.pc = "assign" /\ r.s = q.s /\ r.op = q.op /\ r.n = q.n
          /\ r.known = q.known /\ r.free = q.free /\ r.tries = 0 /\ r.todo = q.todo /\ r.seen = q.seen
      <3>1. q.i + 1 \in Nat /\ 0 \in 0..MaxTries /\ "assign" \in Pcs /\ None \in Nodes \cup {None}
        BY Facts, Fields DEF Pcs
      <3> QED BY <2>1, <3>1 DEF Requests
    <2>4. StepOK(r)
      BY <2>3, Facts DEF StepOK, Creation, Deletion, Locked, Claiming
    <2>5. StatusOK(r)
      BY <2>3 DEF StatusOK, Creation, Deletion, Locked, Claiming
    <2>6. ProgressOK(r)
      BY <2>3 DEF ProgressOK, Locked, Claiming
    <2>7. Continues(r, q) /\ LockFollows(h, r)
      BY <2>2, <2>3, LockKept DEF Continues, Locked
    <2> QED BY <2>2, <2>3, <2>4, <2>5, <2>6, <2>7
  <1> QED BY <1>4, <1>5

LEMMA ContinueFree ==
  ASSUME NEW q \in Requests, NEW r \in Requests, Continues(r, q), members' = members,
         \A k \in DOMAIN q.free : Owns(q.s, q.free[k])' /\ ~Known(q, q.free[k]),
         Distinct(q.free)
  PROVE  FreeOK(r)'
  <1>1. \A k \in DOMAIN r.free : Owns(r.s, r.free[k])' /\ ~Known(r, r.free[k]) /\ r.free[k] # None
    BY Fields DEF Continues, Known
  <1>2. Distinct(r.free)
    BY DEF Distinct, Continues
  <1>3. r.pc = "member" /\ r.i <= r.n /\ members'[r.s][r.i] = None =>
          \A k \in DOMAIN r.free, j \in Indexes : members'[r.s][j] # r.free[k]
    BY <1>1 DEF Continues, Known
  <1> QED BY <1>1, <1>2, <1>3 DEF FreeOK, Continues

LEMMA ClaimedAllStep ==
  ASSUME IInv, NEW h \in Handlers, ClaimedAll(h)
  PROVE  IInv'
  <1>1. PICK q \in Requests : /\ q = req[h] /\ q.pc = "claim" /\ q.s \in Services
                              /\ StepOK(q) /\ StatusOK(q) /\ ProgressOK(q)
                              /\ (Sound => FreeOK(q))
    BY HandlerFacts DEF ClaimedAll, At
  <1>2. PICK r \in Requests : /\ Become(h, r) /\ Continues(r, q) /\ LockFollows(h, r)
                              /\ StepOK(r) /\ StatusOK(r) /\ ProgressOK(r)
    BY <1>1, ContinueOK DEF ClaimedAll, Claiming, Locked
  <1>3. UnchangedDB /\ drv' = drv /\ TypedBounds /\ Sound' = Sound /\ nic' = nic
    BY BoundsKept DEF ClaimedAll, IInv, UnchangedDB, db
  <1>4. ASSUME Sound PROVE FreeOK(r)
    <2>1. \A k \in DOMAIN q.free : Owns(q.s, q.free[k])' /\ ~Known(q, q.free[k])
      BY <1>1, <1>3, <1>4 DEF FreeOK, Claiming, Owns, UnchangedDB
    <2>2. Distinct(q.free)
      BY <1>1, <1>4 DEF FreeOK, Claiming
    <2>3. FreeOK(r)'
      BY <1>2, <1>3, <2>1, <2>2, ContinueFree DEF UnchangedDB
    <2> QED BY <1>3, <2>3 DEF FreeOK, Owns, OwnsAll, UnchangedDB
  <1>5. r.s = req[h].s /\ r.pc \notin Deletion
    BY <1>1, <1>2 DEF Continues, Deletion
  <1> QED BY <1>1, <1>2, <1>3, <1>4, <1>5, QuietStep, StateFacts DEF IInv

LEMMA TryNextStep ==
  ASSUME IInv, NEW h \in Handlers, At(h, "assign"), NEW a \in IPs, TryNext(h, a),
         UnchangedDB, drv' = drv, nic' \in [IPs -> Nodes \cup {None}],
         events' = events \/ Event, requests' = requests, history' = history
  PROVE  IInv'
  <1>1. PICK q \in Requests : /\ q = req[h] /\ q.pc = "assign" /\ q.s \in Services
                              /\ StepOK(q) /\ StatusOK(q) /\ ProgressOK(q)
                              /\ (Sound => FreeOK(q))
    BY HandlerFacts DEF At
  <1>2. CASE q.tries + 1 = MaxTries
    <2>1. Fail(h)
      BY <1>1, <1>2 DEF TryNext
    <2> QED BY <1>1, <2>1, FailStep
  <1>3. CASE q.tries + 1 # MaxTries
    <2>1. PICK r : r = [q EXCEPT !.last = a, !.tries = @ + 1]
      OBVIOUS
    <2>2. Become(h, r) /\ iplock' = iplock
      BY <1>1, <1>3, <2>1 DEF TryNext
    <2>3. q.tries + 1 \in 0..MaxTries /\ q.tries + 1 < MaxTries /\ a \in 0..MaxIP
      <3>1. q.tries < MaxTries
        BY <1>1 DEF StepOK
      <3>2. q.tries \in Nat
        BY Fields, Facts
      <3> QED BY <1>3, <3>1, <3>2, Facts
    <2>4. /\ r \in Requests /\ r.pc = "assign" /\ r.s = q.s /\ r.op = q.op /\ r.n = q.n
          /\ r.known = q.known /\ r.free = q.free /\ r.tries = q.tries + 1 /\ r.todo = q.todo
          /\ r.seen = q.seen
      BY <1>1, <2>1, <2>3 DEF Requests
    <2>5. StepOK(r)
      BY <1>1, <2>3, <2>4 DEF StepOK, Creation, Deletion, Locked
    <2>6. StatusOK(r)
      BY <1>1, <2>4 DEF StatusOK, Creation, Deletion, Locked
    <2>7. ProgressOK(r)
      BY <1>1, <2>4 DEF ProgressOK, Locked
    <2>8. Sound => FreeOK(r)
      BY <1>1, <2>4 DEF FreeOK, Claiming, Known
    <2>9. TypedBounds /\ Sound' = Sound
      BY BoundsKept DEF IInv
    <2>10. LockFollows(h, r)
      BY <1>1, <2>2, <2>4, LockKept DEF Locked
    <2> QED BY <1>1, <2>2, <2>4, <2>5, <2>6, <2>7, <2>8, <2>9, <2>10, QuietStep DEF Deletion
  <1> QED BY <1>2, <1>3

LEMMA AssignedType ==
  ASSUME IInv, NEW n \in Nodes, NEW a \in IPs, NEW ok, AssignStaticIP(n, a, ok)
  PROVE  nic' \in [IPs -> Nodes \cup {None}]
  BY StateFacts DEF IInv, AssignStaticIP

LEMMA createNextIPStep ==
  ASSUME IInv, NEW h \in Handlers, createNextIP(h)
  PROVE  IInv'
  <1>1. PICK q \in Requests : /\ q = req[h] /\ q.pc = "assign" /\ q.s \in Services
                              /\ StepOK(q) /\ StatusOK(q) /\ ProgressOK(q)
                              /\ (Sound => FreeOK(q))
    BY HandlerFacts DEF createNextIP, At
  <1>2. UnchangedDB /\ drv' = drv /\ requests' = requests /\ history' = history
    BY DEF createNextIP, UnchangedDB, db
  <1>3. PICK a \in IPs, n \in Nodes :
          \/ /\ AssignStaticIP(n, a, TRUE)
             /\ Become(h, [q EXCEPT !.pc = "record", !.at = n, !.last = a])
             /\ UNCHANGED <<iplock, events>>
          \/ /\ AssignStaticIP(n, a, FALSE) /\ TryNext(h, a)
             /\ events' = events
          \/ /\ Event
             /\ nic' = nic \/ AssignStaticIP(n, a, TRUE)
             /\ TryNext(h, a)
    BY <1>1 DEF createNextIP, GetNextIP, NextInterfaces
  <1>4. nic' \in [IPs -> Nodes \cup {None}]
    BY <1>3, AssignedType, StateFacts DEF IInv
  <1>5. CASE TryNext(h, a) /\ (events' = events \/ Event)
    BY <1>1, <1>2, <1>4, <1>5, TryNextStep DEF At
  <1>6. CASE /\ Become(h, [q EXCEPT !.pc = "record", !.at = n, !.last = a])
             /\ UNCHANGED <<iplock, events>>
    <2>1. PICK r : r = [q EXCEPT !.pc = "record", !.at = n, !.last = a]
      OBVIOUS
    <2>2. Become(h, r) /\ iplock' = iplock /\ a \in 0..MaxIP
      BY <1>6, <2>1, Facts
    <2>3. /\ r \in Requests /\ r.pc = "record" /\ r.s = q.s /\ r.op = q.op /\ r.n = q.n
          /\ r.known = q.known /\ r.free = q.free /\ r.last = a /\ r.at = n /\ r.todo = q.todo
          /\ r.seen = q.seen
      BY <1>1, <2>1, <2>2 DEF Requests, Pcs
    <2>4. StepOK(r)
      BY <1>1, <2>3 DEF StepOK, Creation, Deletion, Locked
    <2>5. StatusOK(r)
      BY <1>1, <2>3 DEF StatusOK, Creation, Deletion, Locked
    <2>6. ProgressOK(r)
      BY <1>1, <2>3 DEF ProgressOK, Locked
    <2>7. Sound => FreeOK(r)
      BY <1>1, <2>3 DEF FreeOK, Claiming, Known
    <2>8. TypedBounds /\ Sound' = Sound
      BY <1>2, <1>6, BoundsKept DEF IInv
    <2>9. LockFollows(h, r)
      BY <1>1, <2>2, <2>3, LockKept DEF Locked
    <2> QED BY <1>1, <1>2, <1>4, <2>2, <2>3, <2>4, <2>5, <2>6, <2>7, <2>8, <2>9, QuietStep DEF Deletion
  <1> QED BY <1>3, <1>5, <1>6

LEMMA CreatedMembersStep ==
  ASSUME IInv, NEW h \in Handlers, CreatedMembers(h)
  PROVE  IInv'
  <1>1. PICK q \in Requests : /\ q = req[h] /\ q.pc = "member" /\ q.s \in Services /\ q.i > q.n
                              /\ StepOK(q) /\ StatusOK(q) /\ ProgressOK(q)
    BY HandlerFacts DEF CreatedMembers, At
  <1>2. PICK r : r = [q EXCEPT !.pc = "wait", !.known = NoMembers, !.i = 1]
    OBVIOUS
  <1>3. Become(h, r) /\ iplock' = iplock
    BY <1>1, <1>2 DEF CreatedMembers
  <1>4. NoMembers \in [Indexes -> IPs \cup {None}]
    BY DEF NoMembers
  <1>5. /\ r \in Requests /\ r.pc = "wait" /\ r.s = q.s /\ r.op = q.op /\ r.n = q.n /\ r.i = 1
    BY <1>1, <1>2, <1>4 DEF Requests, Pcs
  <1>6. StepOK(r)
    BY <1>1, <1>5 DEF StepOK, Creation, Deletion, Locked
  <1>7. StatusOK(r)
    BY <1>1, <1>5 DEF StatusOK, Creation, Deletion, Locked
  <1>8. ProgressOK(r)
    <2>1. \A j \in Indexes : j < q.n + 1 => j < q.i
      BY <1>1, Fields, Facts
    <2>2. \A j \in Indexes : ~(j < 1)
      BY Facts
    <2> QED BY <1>1, <1>5, <2>1, <2>2 DEF ProgressOK, Made, Locked
  <1>9. FreeOK(r)
    BY <1>5 DEF FreeOK, Claiming
  <1>10. UnchangedDB /\ drv' = drv /\ TypedBounds /\ Sound' = Sound /\ nic' = nic
    BY BoundsKept DEF CreatedMembers, IInv, UnchangedDB, db
  <1>11. LockFollows(h, r)
    BY <1>1, <1>3, <1>5, LockKept DEF Locked
  <1> QED BY <1>1, <1>3, <1>5, <1>6, <1>7, <1>8, <1>9, <1>10, <1>11, QuietStep, StateFacts
          DEF IInv, Deletion

LEMMA DeletedIPsStep ==
  ASSUME IInv, NEW h \in Handlers, DeletedIPs(h)
  PROVE  IInv'
  <1>1. PICK q \in Requests : /\ q = req[h] /\ q.pc = "ips" /\ q.s \in Services
                              /\ StepOK(q) /\ StatusOK(q)
    BY HandlerFacts DEF DeletedIPs, At
  <1>2. PICK r : r = [q EXCEPT !.pc = "members"] /\ Become(h, r)
    BY <1>1 DEF DeletedIPs
  <1>3. r \in Requests /\ r.pc = "members" /\ r.s = q.s /\ r.op = q.op
    BY <1>1, <1>2 DEF Requests, Pcs
  <1>4. StepOK(r) /\ StatusOK(r)
    BY <1>1, <1>3 DEF StepOK, StatusOK, Creation, Deletion, Locked
  <1>5. ProgressOK(r) /\ FreeOK(r)
    BY <1>3 DEF FreeOK, ProgressOK, Claiming, Locked
  <1>6. UnchangedDB /\ drv' = drv /\ TypedBounds /\ Sound' = Sound /\ nic' = nic
    BY BoundsKept DEF DeletedIPs, IInv, UnchangedDB, db
  <1>7. LockFollows(h, r)
    BY <1>1, <1>3, LockKept DEF DeletedIPs, Locked
  <1> QED BY <1>1, <1>2, <1>3, <1>4, <1>5, <1>6, <1>7, QuietStep, StateFacts DEF IInv, Deletion

-----------------------------------------------------------------------------
(* Requests that write records *)

LEMMA CreatedRecord ==
  ASSUME IInv, NEW s \in Services, NEW a \in IPs, NEW n \in Nodes, NEW ok \in BOOLEAN,
         CreateServiceStaticIP(s, a, n, ok)
  PROVE  /\ rec' \in [IPs -> Records \cup {None}] /\ \A t : Keeps(t)
         /\ ok => rec[a] = None /\ Owns(s, a)'
         /\ ok = FALSE => rec' = rec
  <1>1. PICK v \in Records : v = [svc |-> s, node |-> n, rev |-> 0] /\ v.svc = s /\ v # None
    <2>1. [svc |-> s, node |-> n, rev |-> 0] \in Records
      BY DEF Records
    <2> QED BY <2>1, Facts
  <1>2. rec \in [IPs -> Records \cup {None}]
    BY StateFacts DEF IInv
  <1>3. CASE ok
    <2>1. rec[a] = None /\ rec' = [rec EXCEPT ![a] = v]
      BY <1>1, <1>3 DEF CreateServiceStaticIP
    <2>2. \A t : Keeps(t)
      BY <1>2, <2>1 DEF Keeps, Owns
    <2> QED BY <1>1, <1>2, <1>3, <2>1, <2>2 DEF Owns
  <1>4. CASE ~ok
    <2>1. rec' = rec
      BY <1>4 DEF CreateServiceStaticIP
    <2> QED BY <1>2, <1>4, <2>1 DEF Keeps, Owns
  <1> QED BY <1>3, <1>4

(* An address that is added to those a creation found. *)
LEMMA AppendFree ==
  ASSUME NEW f \in Seq(IPs), NEW a \in IPs
  PROVE  /\ Append(f, a) \in Seq(IPs) /\ DOMAIN Append(f, a) = DOMAIN f \cup {Len(f) + 1}
         /\ Append(f, a)[Len(f) + 1] = a /\ \A k \in DOMAIN f : Append(f, a)[k] = f[k]
         /\ Distinct(f) /\ (\A k \in DOMAIN f : f[k] # a) => Distinct(Append(f, a))
  <1>1. PICK e \in Seq(IPs) : e = Append(f, a)
    BY AppendProperties
  <1>2. /\ Len(f) \in Nat /\ Len(e) = Len(f) + 1 /\ DOMAIN f = 1..Len(f) /\ DOMAIN e = 1..Len(e)
        /\ e[Len(f) + 1] = a /\ \A k \in 1..Len(f) : e[k] = f[k]
    BY <1>1, AppendProperties, LenProperties
  <1>3. DOMAIN e = DOMAIN f \cup {Len(f) + 1}
    BY <1>2
  <1>4. Distinct(f) /\ (\A k \in DOMAIN f : f[k] # a) => Distinct(e)
    BY <1>2, <1>3 DEF Distinct
  <1> QED BY <1>1, <1>2, <1>3, <1>4

LEMMA getUnassignedIPsStep ==
  ASSUME IInv, NEW h \in Handlers, getUnassignedIPs(h)
  PROVE  IInv'
  <1>1. PICK q \in Requests : /\ q = req[h] /\ q.pc = "claim" /\ q.s \in Services
                              /\ StepOK(q) /\ StatusOK(q) /\ ProgressOK(q)
                              /\ (Sound => FreeOK(q))
    BY HandlerFacts DEF getUnassignedIPs, At
  <1>2. /\ SameMembers /\ drv' = drv /\ nic' = nic /\ events' = events /\ requests' = requests
        /\ repeated' = repeated /\ late' = late /\ iplock' = iplock
    BY DEF getUnassignedIPs, SameMembers
  <1> DEFINE Ours(a) == ~Known(q, a) /\ (rec[a] = None \/ rec[a].svc = q.s)
  <1>3. PICK t \in q.todo :
          /\ Become(h, [q EXCEPT !.todo = @ \ {t},
                                 !.free = IF Ours(t[2]) THEN Append(@, t[2]) ELSE @])
          /\ IF Ours(t[2]) /\ rec[t[2]] = None THEN CreateServiceStaticIP(q.s, t[2], t[1], TRUE)
                                               ELSE rec' = rec
          /\ twice' = (twice \/ (Ours(t[2]) /\ \E k \in DOMAIN q.free : q.free[k] = t[2]))
    BY <1>1 DEF getUnassignedIPs
  <1>4. PICK n \in Nodes, a \in IPs : n = t[1] /\ a = t[2]
    BY <1>1, <1>3, Fields
  <1>5. PICK T \in SUBSET (Nodes \X IPs) : T = q.todo \ {t} /\ T \subseteq q.seen
    <2>1. q.todo \subseteq q.seen
      BY <1>1 DEF StepOK, Locked
    <2>2. q.todo \ {t} \in SUBSET (Nodes \X IPs)
      BY Fields
    <2> QED BY <2>1, <2>2
  <1>6. PICK f \in Seq(IPs) : f = IF Ours(a) THEN Append(q.free, a) ELSE q.free
    BY AppendFree, Fields
  <1>7. PICK r : r = [q EXCEPT !.todo = T, !.free = f]
    OBVIOUS
  <1>8. Become(h, r)
    BY <1>3, <1>4, <1>5, <1>6, <1>7
  <1>9. /\ r \in Requests /\ r.pc = "claim" /\ r.s = q.s /\ r.op = q.op /\ r.n = q.n
        /\ r.known = q.known /\ r.free = f /\ r.todo = T /\ r.seen = q.seen
    BY <1>1, <1>7 DEF Requests
  <1>10. StepOK(r)
    BY <1>1, <1>5, <1>9 DEF StepOK, Creation, Deletion, Locked
  <1>11. StatusOK(r)
    BY <1>1, <1>9 DEF StatusOK, Creation, Deletion, Locked
  <1>12. ProgressOK(r)
    BY <1>1, <1>9 DEF ProgressOK, Locked
  <1>13. CASE ~Ours(a)
    <2>1. UnchangedDB /\ f = q.free /\ twice' = twice
      BY <1>2, <1>3, <1>4, <1>6, <1>13, StateFacts DEF SameMembers, UnchangedDB, IInv
    <2>2. Sound => FreeOK(r)
      BY <1>1, <1>9, <2>1 DEF FreeOK, Claiming, Known
    <2>3. TypedBounds /\ Sound' = Sound
      BY <1>2, <2>1, BoundsKept DEF IInv, history
    <2>4. LockFollows(h, r)
      BY <1>1, <1>2, <1>9, LockKept DEF Locked
    <2> QED BY <1>1, <1>2, <1>8, <1>9, <1>10, <1>11, <1>12, <2>1, <2>2, <2>3, <2>4, QuietStep, StateFacts
            DEF IInv, Deletion
  <1>14. CASE Ours(a)
    <2>1. rec' \in [IPs -> Records \cup {None}] /\ (\A u : Keeps(u)) /\ Owns(q.s, a)'
      <3>1. CASE rec[a] = None
        BY <1>1, <1>3, <1>4, <1>14, <3>1, CreatedRecord
      <3>2. CASE rec[a] # None
        <4>1. rec' = rec /\ rec[a].svc = q.s
          BY <1>3, <1>4, <1>14, <3>2
        <4> QED BY <3>2, <4>1, StateFacts DEF Keeps, Owns, IInv
      <3> QED BY <3>1, <3>2
    <2>2. twice' \in BOOLEAN /\ (twice' = FALSE => twice = FALSE /\ \A k \in DOMAIN q.free : q.free[k] # a)
      BY <1>3, <1>4, <1>14, StateFacts DEF IInv
    <2>3. TypedBounds
      BY <1>2, <2>2, StateFacts DEF IInv, TypedBounds
    <2>4. ASSUME Sound' PROVE Sound /\ FreeOK(r)'
      <3>1. Sound /\ \A k \in DOMAIN q.free : q.free[k] # a
        BY <1>2, <2>2, <2>4 DEF Sound
      <3>2. /\ \A k \in DOMAIN q.free : Owns(q.s, q.free[k])' /\ ~Known(q, q.free[k])
            /\ Distinct(q.free)
        BY <1>1, <2>1, <3>1, Fields DEF FreeOK, Claiming, Keeps
      <3>3. f = Append(q.free, a) /\ ~Known(q, a)
        BY <1>6, <1>14
      <3>4. /\ \A k \in DOMAIN f : Owns(q.s, f[k])' /\ ~Known(q, f[k])
            /\ Distinct(f)
        BY <2>1, <3>1, <3>2, <3>3, AppendFree, Fields
      <3> QED BY <1>9, <3>1, <3>4 DEF FreeOK, Known
    <2>5. LockFollows(h, r)
      BY <1>1, <1>2, <1>9, LockKept DEF Locked
    <2> QED BY <1>1, <1>2, <1>8, <1>9, <1>10, <1>11, <1>12, <2>1, <2>3, <2>4, <2>5, RecordStep, StateFacts
            DEF IInv, Deletion
  <1> QED BY <1>13, <1>14

LEMMA RecordNextIPStep ==
  ASSUME IInv, NEW h \in Handlers, RecordNextIP(h)
  PROVE  IInv'
  <1>1. PICK q \in Requests : /\ q = req[h] /\ q.pc = "record" /\ q.s \in Services
                              /\ StepOK(q) /\ StatusOK(q) /\ ProgressOK(q)
                              /\ (Sound => FreeOK(q))
    BY HandlerFacts DEF RecordNextIP, At
  <1>2. /\ SameMembers /\ drv' = drv /\ nic' = nic /\ events' = events /\ requests' = requests
        /\ history' = history /\ TypedBounds /\ Sound' = Sound
    BY BoundsKept DEF RecordNextIP, SameMembers, IInv
  <1>3. PICK a \in IPs, n \in Nodes : a = q.last /\ n = q.at
    BY <1>1 DEF StepOK
  <1>4. PICK ok \in BOOLEAN :
          /\ CreateServiceStaticIP(q.s, a, n, ok)
          /\ IF ok THEN Continue(h, [q EXCEPT !.free = Append(@, a)]) ELSE Fail(h)
    BY <1>1, <1>3 DEF RecordNextIP
  <1>5. /\ rec' \in [IPs -> Records \cup {None}] /\ (\A t : Keeps(t))
        /\ ok => rec[a] = None /\ Owns(q.s, a)'
        /\ ok = FALSE => rec' = rec
    BY <1>1, <1>4, CreatedRecord
  <1>6. CASE ok = FALSE
    BY <1>1, <1>2, <1>4, <1>5, <1>6, FailStep, StateFacts DEF UnchangedDB, SameMembers, IInv
  <1>7. CASE ok = TRUE
    <2>1. PICK f \in Seq(IPs) : f = Append(q.free, a)
      BY AppendFree, Fields
    <2>2. PICK p : p = [q EXCEPT !.free = f]
      OBVIOUS
    <2>3. /\ p \in Requests /\ p.pc = "record" /\ p.s = q.s /\ p.op = q.op /\ p.n = q.n
          /\ p.known = q.known /\ p.free = f /\ p.last = a /\ p.at = n /\ p.todo = q.todo
          /\ p.seen = q.seen
      BY <1>1, <1>3, <2>2 DEF Requests
    <2>4. StepOK(p)
      BY <1>1, <1>3, <2>3 DEF StepOK, Creation, Deletion, Locked
    <2>5. StatusOK(p)
      BY <1>1, <2>3 DEF StatusOK, Creation, Deletion, Locked
    <2>6. ProgressOK(p)
      BY <1>1, <2>3 DEF ProgressOK, Locked
    <2>7. Continue(h, p)
      BY <1>4, <1>7, <2>1, <2>2
    <2>8. PICK r \in Requests : /\ Become(h, r) /\ Continues(r, p) /\ LockFollows(h, r)
                                /\ StepOK(r) /\ StatusOK(r) /\ ProgressOK(r)
      BY <1>1, <2>3, <2>4, <2>5, <2>6, <2>7, ContinueOK DEF Claiming, Locked
    <2>9. ASSUME Sound PROVE FreeOK(r)'
      <3>1. /\ \A k \in DOMAIN q.free : Owns(q.s, q.free[k]) /\ ~Known(q, q.free[k])
            /\ Distinct(q.free)
        BY <1>1, <2>9 DEF FreeOK, Claiming
      <3>2. \A k \in DOMAIN q.free : q.free[k] # a /\ Owns(q.s, q.free[k])'
        BY <1>5, <1>7, <3>1, Fields DEF Owns, Keeps
      <3>3. ~Known(q, a)
        <4>1. ASSUME NEW i \in Indexes, q.known[i] = a PROVE FALSE
          <5>1. members[q.s][i] = a /\ i \in Present(members[q.s])
            BY <1>1, <4>1, Facts DEF ProgressOK, Locked, Present
          <5>2. OwnsAll(q.s, members[q.s])
            BY <1>1, <2>9 DEF IInv, Addresses, StatusOK, Creation, Locked
          <5> QED BY <1>5, <1>7, <5>1, <5>2 DEF OwnsAll, Owns
        <4> QED BY <4>1 DEF Known
      <3>4. /\ \A k \in DOMAIN f : Owns(p.s, f[k])' /\ ~Known(p, f[k])
            /\ Distinct(f)
        BY <1>5, <1>7, <2>1, <2>3, <3>1, <3>2, <3>3, AppendFree, Fields DEF Known
      <3> QED BY <1>2, <2>3, <2>8, <3>4, ContinueFree DEF SameMembers
    <2>10. r.s = req[h].s /\ r.pc \notin Deletion
      BY <1>1, <2>3, <2>8 DEF Continues, Deletion
    <2> QED BY <1>1, <1>2, <1>5, <2>8, <2>9, <2>10, RecordStep, StateFacts DEF IInv
  <1> QED BY <1>6, <1>7

LEMMA createServiceMemberStep ==
  ASSUME IInv, NEW h \in Handlers, createServiceMember(h)
  PROVE  IInv'
  <1>1. PICK q \in Requests : /\ q = req[h] /\ q.pc = "member" /\ q.s \in Services /\ q.i <= q.n
                              /\ StepOK(q) /\ StatusOK(q) /\ ProgressOK(q)
                              /\ (Sound => FreeOK(q))
    BY HandlerFacts DEF createServiceMember, At
  <1>2. /\ rec' = rec /\ status' = status /\ replicas' = replicas /\ ready' = ready /\ nic' = nic
        /\ drv' = drv /\ TypedBounds /\ Sound' = Sound /\ iplock' = iplock
    BY BoundsKept DEF createServiceMember, IInv
  <1>3. PICK s \in Services, i \in Indexes : s = q.s /\ i = q.i
    <2>1. q.i \in 1..MaxReplicas
      BY <1>1, Fields, Facts DEF StepOK, Creation
    <2> QED BY <1>1, <2>1, Facts
  <1>4. CASE members[s][i] # None
    <2>1. Return(h) /\ UnchangedDB
      BY <1>1, <1>2, <1>3, <1>4 DEF createServiceMember, UnchangedDB
    <2>2. LockFollows(h, NoRequest)
      BY <1>1, <1>2, LockKept, NoRequestFacts DEF Locked
    <2> QED BY <1>1, <1>2, <2>1, <2>2, QuietStep, NoRequestFacts, NoRequestOK, StateFacts DEF Return, IInv
  <1>5. CASE members[s][i] = None
    <2>1. q.free \in Seq(IPs) /\ q.free # <<>> /\ Len(q.free) \in Nat /\ DOMAIN q.free = 1..Len(q.free)
      <3>1. Len(q.free) + q.i > q.n
        BY <1>1 DEF StepOK
      <3>2. Len(q.free) > 0
        BY <1>1, <3>1, Fields
      <3> QED BY <3>2, Fields, EmptySeq
    <2> PICK a : a = Head(q.free)
      OBVIOUS
    <2> PICK f : f = Tail(q.free)
      OBVIOUS
    <2>2. /\ a = Head(q.free) /\ f = Tail(q.free) /\ a = q.free[1] /\ 1 \in DOMAIN q.free
          /\ a \in IPs /\ f \in Seq(IPs)
          /\ Len(f) = Len(q.free) - 1 /\ DOMAIN f = 1..Len(f)
          /\ \A k \in DOMAIN f : k + 1 \in DOMAIN q.free /\ k + 1 # 1 /\ f[k] = q.free[k + 1]
      <3>1. /\ a \in IPs /\ f \in Seq(IPs) /\ Len(f) = Len(q.free) - 1
            /\ \A k \in 1..Len(f) : f[k] = q.free[k + 1]
        BY <2>1, HeadTailProperties
      <3>2. DOMAIN f = 1..Len(f) /\ Len(f) \in Nat
        BY <3>1, LenProperties
      <3>3. a = q.free[1]
        BY <2>1
      <3> QED BY <2>1, <3>1, <3>2, <3>3
    <2>3. PICK r : r = [q EXCEPT !.i = @ + 1, !.free = f]
      OBVIOUS
    <2>4. Become(h, r) /\ members' = [members EXCEPT ![s][i] = a]
      BY <1>1, <1>3, <1>5, <2>2, <2>3 DEF createServiceMember
    <2>5. /\ r \in Requests /\ r.pc = "member" /\ r.s = s /\ r.op = q.op /\ r.n = q.n
          /\ r.known = q.known /\ r.free = f /\ r.i = q.i + 1
      <3>1. q.i + 1 \in Nat
        BY Fields
      <3> QED BY <1>1, <1>3, <2>2, <2>3, <3>1 DEF Requests
    <2>6. /\ members' \in [Services -> [Indexes -> IPs \cup {None}]]
          /\ members'[s][i] = a /\ a # None /\ \A j \in Indexes : j # i => members'[s][j] = members[s][j]
          /\ \A t \in Services : t # s => members'[t] = members[t]
      BY <2>2, <2>4, StateFacts, Facts DEF IInv
    <2>7. StepOK(r)
      <3>1. Len(f) + (q.i + 1) > q.n
        BY <1>1, <2>1, <2>2, Fields DEF StepOK
      <3>2. q.i + 1 > 0
        BY Fields
      <3> QED BY <1>1, <2>5, <3>1, <3>2 DEF StepOK, Creation, Deletion, Locked
    <2>8. Grows(s)
      BY <1>2, <1>3, <1>5, <2>6, StateFacts DEF Grows, IInv
    <2>9. \A t \in Services : t # s => SameService(t)
      BY <1>2, <2>6 DEF SameService
    <2>10. \A t : Keeps(t)
      BY <1>2 DEF Keeps, Owns
    <2>11. ServiceOK(s)' /\ ReadyOK(s)'
      <3>1. ServiceOK(s) /\ ReadyOK(s) /\ 1..replicas[s] \subseteq Indexes
        BY StateFacts, Facts DEF IInv, Progress
      <3>2. \A j \in Indexes : j < i => members[s][j] # None
        BY <1>1, <1>3 DEF ProgressOK, Made
      <3>3. Live(s) => Segment(members'[s])
        <4>1. ASSUME Live(s), NEW k \in Indexes, members'[s][k] # None, NEW j \in 1..k
              PROVE  members'[s][j] # None
          <5>1. j \in Indexes /\ j \in Nat /\ k \in Nat /\ i \in Nat /\ j <= k
            BY Facts
          <5>2. CASE k = i
            BY <2>6, <3>2, <5>1, <5>2
          <5>3. CASE k # i
            BY <2>6, <3>1, <4>1, <5>1, <5>3 DEF ServiceOK, Segment
          <5> QED BY <5>2, <5>3
        <4> QED BY <4>1 DEF Segment
      <3>4. ServiceOK(s)'
        BY <1>2, <3>1, <3>3 DEF ServiceOK, Live
      <3>5. ReadyOK(s)'
        BY <1>2, <2>6, <3>1 DEF ReadyOK
      <3> QED BY <3>4, <3>5
    <2>12. StatusOK(r)'
      BY <1>1, <1>2, <1>3, <2>5 DEF StatusOK, Live, Creation, Deletion, Locked
    <2>13. ProgressOK(r)'
      <3>1. \A j \in Indexes : j < q.i + 1 => members'[s][j] # None
        <4>1. ASSUME NEW j \in Indexes, j < q.i + 1 PROVE members'[s][j] # None
          <5>1. j = i \/ j < q.i
            BY <1>3, <4>1, Facts
          <5> QED BY <1>1, <1>3, <2>6, <5>1 DEF ProgressOK, Made
        <4> QED BY <4>1
      <3>2. \A j \in Indexes : q.known[j] # None => members'[s][j] = q.known[j]
        BY <1>1, <1>3, <2>8 DEF ProgressOK, Grows
      <3> QED BY <1>1, <2>5, <3>1, <3>2 DEF ProgressOK, Made, Locked
    <2>14. ASSUME NEW g \in Handlers, g # h, req[g].s = s, Sound PROVE Spares(req[g])
      <3>1. PICK p \in Requests : p = req[g] /\ ProgressOK(p) /\ p.s = s
        BY <2>14, HandlerFacts
      <3>2. ASSUME p.pc = "member", p.i <= p.n, members'[s][p.i] = None PROVE FALSE
        <4>1. p.i \in Indexes /\ p.i \in Nat /\ i \in Nat
          <5>1. StepOK(p)
            BY <3>1, HandlerFacts
          <5>2. p.i \in 1..MaxReplicas
            BY <3>2, <5>1, Fields, Facts DEF StepOK, Creation
          <5> QED BY <5>2, Facts
        <4>2. p.i # i /\ members[s][p.i] = None
          BY <2>6, <3>2, <4>1
        <4>3. ~(i < p.i)
          BY <1>5, <3>1, <3>2 DEF ProgressOK, Made
        <4>4. ~(p.i < i)
          BY <1>1, <1>3, <4>1, <4>2 DEF ProgressOK, Made
        <4> QED BY <4>1, <4>2, <4>3, <4>4
      <3> QED BY <2>10, <3>1, <3>2 DEF Spares
    <2>15. \A g \in Handlers : g # h /\ req[g].s = s => req[g].pc \notin Deletion
      BY <1>1, <1>3, Company
    <2>16. ASSUME Sound PROVE FreeOK(r)' /\ OwnsAll(s, members[s])'
      <3>1. /\ \A k \in DOMAIN q.free : Owns(s, q.free[k])
            /\ \A k, l \in DOMAIN q.free : k # l => q.free[k] # q.free[l]
            /\ \A k \in DOMAIN q.free, j \in Indexes : members[s][j] # q.free[k]
        BY <1>1, <1>3, <1>5, <2>16 DEF FreeOK, Claiming, Distinct
      <3>2. /\ \A k \in DOMAIN f : Owns(s, f[k])' /\ f[k] # a
            /\ \A k, l \in DOMAIN f : k # l => f[k] # f[l]
        <4>1. \A k, l \in DOMAIN f : k # l => k + 1 # l + 1
          BY <2>2
        <4>2. \A k \in DOMAIN f : Owns(s, f[k])' /\ f[k] # a
          BY <1>2, <2>2, <3>1 DEF Owns
        <4> QED BY <2>2, <3>1, <4>1, <4>2
      <3>3. \A k \in DOMAIN f, j \in Indexes : members'[s][j] # f[k]
        BY <2>2, <2>6, <3>1, <3>2
      <3>4. FreeOK(r)'
        BY <2>5, <3>2, <3>3 DEF FreeOK, Claiming, Distinct
      <3>5. OwnsAll(s, members[s])
        BY <1>1, <1>3, <2>16 DEF IInv, Addresses, StatusOK, Creation
      <3>6. Owns(s, a) /\ \A j \in Indexes : members[s][j] # a
        BY <2>2, <3>1
      <3>7. ASSUME NEW j \in Present(members'[s])
            PROVE  Owns(s, members'[s][j]) /\ \A k \in Indexes \ {j} : members'[s][k] # members'[s][j]
        <4>1. CASE j = i
          BY <2>6, <3>6, <4>1
        <4>2. CASE j # i
          BY <2>6, <3>5, <3>6, <3>7, <4>2 DEF OwnsAll, Present
        <4> QED BY <4>1, <4>2
      <3> QED BY <1>2, <3>4, <3>7 DEF OwnsAll, Owns
    <2>17. TypedDB
      BY <1>2, <2>6, StateFacts DEF TypedDB, IInv
    <2>18. LockFollows(h, r)
      BY <1>1, <1>2, <2>5, LockKept DEF Locked
    <2> QED BY <1>2, <2>4, <2>5, <2>7, <2>8, <2>9, <2>10, <2>11, <2>12, <2>13, <2>14, <2>15, <2>16,
              <2>17, <2>18, Step DEF Deletion
  <1> QED BY <1>4, <1>5

LEMMA WaitVolumeCreatedStep ==
  ASSUME IInv, NEW h \in Handlers, WaitVolumeCreated(h)
  PROVE  IInv'
  <1>1. PICK q \in Requests : /\ q = req[h] /\ q.pc = "wait" /\ q.s \in Services /\ q.i <= q.n
                              /\ StepOK(q) /\ StatusOK(q) /\ ProgressOK(q)
    BY HandlerFacts DEF WaitVolumeCreated, At
  <1>2. /\ nic' = nic /\ rec' = rec /\ members' = members /\ status' = status /\ replicas' = replicas
        /\ drv' = drv /\ TypedBounds /\ Sound' = Sound /\ iplock' = iplock
    BY BoundsKept DEF WaitVolumeCreated, IInv, db
  <1>3. PICK s \in Services, i \in Indexes : s = q.s /\ i = q.i
    <2>1. q.i \in 1..MaxReplicas
      BY <1>1, Fields, Facts DEF StepOK, Creation
    <2> QED BY <1>1, <2>1, Facts
  <1>4. CASE ready' = ready /\ Return(h)
    <2>1. UnchangedDB
      BY <1>2, <1>4 DEF UnchangedDB
    <2>2. LockFollows(h, NoRequest)
      BY <1>1, <1>2, LockKept, NoRequestFacts DEF Locked
    <2> QED BY <1>1, <1>2, <1>4, <2>1, <2>2, QuietStep, NoRequestFacts, NoRequestOK, StateFacts
            DEF Return, IInv
  <1>5. CASE ready' = ready \cup {<<s, i>>} /\ Become(h, [q EXCEPT !.i = @ + 1])
    <2>1. PICK r : r = [q EXCEPT !.i = @ + 1]
      OBVIOUS
    <2>2. q.i + 1 \in Nat /\ q.i + 1 > 0
      BY Fields
    <2>3. /\ r \in Requests /\ r.pc = "wait" /\ r.s = s /\ r.op = q.op /\ r.n = q.n
          /\ r.known = q.known /\ r.free = q.free /\ r.i = q.i + 1
      BY <1>1, <1>3, <2>1, <2>2 DEF Requests
    <2>4. StepOK(r)
      BY <1>1, <2>2, <2>3 DEF StepOK, Creation, Deletion, Locked
    <2>5. Grows(s)
      BY <1>2, <1>5, StateFacts DEF Grows, IInv
    <2>6. \A t \in Services : t # s => SameService(t)
      BY <1>2, <1>5 DEF SameService
    <2>7. \A t : Keeps(t)
      BY <1>2 DEF Keeps, Owns
    <2>8. ServiceOK(s)' /\ ReadyOK(s)'
      <3>1. ServiceOK(s) /\ ReadyOK(s) /\ 1..replicas[s] \subseteq Indexes
        BY StateFacts, Facts DEF IInv, Progress
      <3> QED BY <1>2, <2>5, <3>1 DEF ServiceOK, ReadyOK, Live, Grows
    <2>9. StatusOK(r)'
      BY <1>1, <1>2, <1>3, <2>3 DEF StatusOK, Live, Creation, Deletion, Locked
    <2>10. ProgressOK(r)'
      <3>1. ASSUME NEW j \in Indexes, j < q.i + 1 PROVE <<s, j>> \in ready'
        <4>1. j = i \/ j < q.i
          BY <1>3, <3>1, Facts
        <4> QED BY <1>1, <1>3, <1>5, <4>1 DEF ProgressOK
      <3> QED BY <1>1, <1>2, <1>3, <2>3, <3>1 DEF ProgressOK, Made, Locked
    <2>11. \A g \in Handlers : g # h /\ req[g].s = s => req[g].pc \notin Deletion /\ Spares(req[g])
      BY <1>1, <1>2, <1>3, <2>7, Company DEF Spares
    <2>12. ASSUME Sound PROVE FreeOK(r)' /\ (Live(s)' => OwnsAll(s, members[s])')
      BY <1>2, <2>3, <2>12 DEF IInv, Addresses, FreeOK, Claiming, Live, OwnsAll, Owns
    <2>13. TypedDB
      BY <1>2, <1>5, StateFacts DEF TypedDB, IInv
    <2>14. LockFollows(h, r)
      BY <1>1, <1>2, <2>3, LockKept DEF Locked
    <2> QED BY <1>2, <1>5, <2>1, <2>3, <2>4, <2>5, <2>6, <2>7, <2>8, <2>9, <2>10, <2>11, <2>12, <2>13,
              <2>14, Step DEF Deletion
  <1> QED BY <1>1, <1>3, <1>4, <1>5 DEF WaitVolumeCreated

(* The request is answered. *)
LEMMA ReturnStep ==
  ASSUME IInv, NEW h \in Handlers, NEW s \in Services, s = req[h].s, req[h].pc \notin Locked,
         Return(h), iplock' = iplock, TypedDB, TypedBounds, drv' = drv, Sound' = Sound,
         \A t \in Services : t # s => SameService(t), \A t \in Services : Keeps(t),
         members' = members, ServiceOK(s)', ReadyOK(s)',
         Grows(s) \/ (status[s] = "deleting" /\ req[h].pc \in Deletion),
         Live(s)' => Live(s)
  PROVE  IInv'
  <1>1. PICK r \in Requests : r = NoRequest /\ r.pc = "idle" /\ r.s = None
    BY NoRequestFacts
  <1>2. /\ StepOK(r) /\ r.s \in {s, None} /\ Become(h, r) /\ StatusOK(r)' /\ ProgressOK(r)' /\ FreeOK(r)'
        /\ r.pc \notin Deletion
    BY <1>1, NoRequestFacts, NoRequestFree DEF Return, Deletion
  <1>3. LockFollows(h, r)
    BY <1>1, LockKept DEF Locked
  <1>4. req[h].pc # "idle"
    <2>1. StepOK(req[h]) /\ s # None
      BY HandlerFacts, Facts
    <2> QED BY <2>1, NoRequestFacts DEF StepOK
  <1>5. \A g \in Handlers : g # h /\ req[g].s = s =>
          req[g].pc \notin Deletion /\ Spares(req[g]) /\ Grows(s)
    BY <1>4, Company DEF Spares
  <1>6. ASSUME Sound, Live(s)' PROVE OwnsAll(s, members[s])'
    <2>1. PICK m \in [Indexes -> IPs \cup {None}] : m = members[s]
      BY StateFacts DEF IInv
    <2>2. OwnsAll(s, m)'
      BY <1>6, <2>1, OwnsAllKept DEF IInv, Addresses
    <2> QED BY <2>1, <2>2
  <1> QED BY <1>2, <1>3, <1>5, <1>6, Step

LEMMA SetServiceCreatedStep ==
  ASSUME IInv, NEW h \in Handlers, SetServiceCreated(h)
  PROVE  IInv'
  <1>1. PICK q \in Requests : /\ q = req[h] /\ q.pc = "wait" /\ q.s \in Services /\ q.i > q.n
                              /\ StepOK(q) /\ StatusOK(q) /\ ProgressOK(q)
    BY HandlerFacts DEF SetServiceCreated, At
  <1>2. /\ nic' = nic /\ rec' = rec /\ members' = members /\ ready' = ready /\ Return(h)
        /\ drv' = drv /\ TypedBounds /\ Sound' = Sound /\ iplock' = iplock
    BY BoundsKept DEF SetServiceCreated, IInv
  <1>3. PICK s \in Services, n \in Indexes : s = q.s /\ n = q.n
    BY <1>1 DEF StepOK, Creation
  <1>4. /\ status \in [Services -> {"creating", "created", "deleting", "gone"}]
        /\ replicas \in [Services -> Indexes]
        /\ status' = IF q.op = "create" /\ status[s] = "creating"
                       THEN [status EXCEPT ![s] = "created"] ELSE status
        /\ replicas' = IF q.op = "scale" /\ replicas[s] = q.from
                         THEN [replicas EXCEPT ![s] = n] ELSE replicas
    BY <1>1, <1>3, StateFacts DEF SetServiceCreated, IInv
  <1>5. TypedDB
    BY <1>2, <1>4, StateFacts DEF TypedDB, IInv
  <1>6. \A t \in Services : t # s => SameService(t)
    BY <1>2, <1>4 DEF SameService
  <1>7. Live(s) /\ Live(s)'
    BY <1>1, <1>3, <1>4 DEF StatusOK, Live, Creation
  <1>8. Grows(s) /\ \A t : Keeps(t)
    BY <1>2, <1>4 DEF Grows, Keeps, Owns
  <1>9. ServiceOK(s)'
    <2>1. ServiceOK(s)
      BY DEF IInv, Progress
    <2>2. status'[s] = "creating" => status[s] = "creating" /\ replicas'[s] = replicas[s]
      BY <1>1, <1>3, <1>4 DEF StepOK, StatusOK, Creation
    <2> QED BY <1>2, <1>7, <2>1, <2>2 DEF ServiceOK
  <1>10. ReadyOK(s)'
    <2>1. ReadyOK(s) /\ ServiceOK(s)
      BY DEF IInv, Progress
    <2>2. \A j \in 1..n : members[s][j] # None /\ <<s, j>> \in ready
      <3>1. ASSUME NEW j \in 1..n PROVE members[s][j] # None /\ <<s, j>> \in ready
        <4>1. j \in Indexes /\ j < q.n + 1 /\ j < q.i
          BY <1>1, <1>3, <3>1, Fields, Facts
        <4> QED BY <1>1, <1>3, <4>1 DEF ProgressOK, Made
      <3> QED BY <3>1
    <2>3. status'[s] = "created" => replicas'[s] = n \/ (status[s] = "created" /\ replicas'[s] = replicas[s])
      BY <1>1, <1>3, <1>4, <2>1 DEF StepOK, ServiceOK, Creation
    <2> QED BY <1>2, <2>1, <2>2, <2>3 DEF ReadyOK
  <1> QED BY <1>1, <1>2, <1>3, <1>5, <1>6, <1>7, <1>8, <1>9, <1>10, ReturnStep DEF Locked

LEMMA DeleteServiceAttrStep ==
  ASSUME IInv, NEW h \in Handlers, DeleteServiceAttr(h)
  PROVE  IInv'
  <1>1. PICK q \in Requests : /\ q = req[h] /\ q.pc = "members" /\ q.s \in Services
                              /\ StepOK(q) /\ StatusOK(q)
    BY HandlerFacts DEF DeleteServiceAttr, At
  <1>2. PICK s \in Services : s = q.s
    BY <1>1
  <1>3. /\ nic' = nic /\ rec' = rec /\ members' = members /\ Return(h)
        /\ drv' = drv /\ TypedBounds /\ Sound' = Sound /\ iplock' = iplock
        /\ status' = [status EXCEPT ![s] = "gone"] /\ replicas' = [replicas EXCEPT ![s] = Replicas]
        /\ ready' = {m \in ready : m[1] # s}
    BY <1>1, <1>2, BoundsKept DEF DeleteServiceAttr, IInv
  <1>4. status'[s] = "gone" /\ TypedDB
    BY <1>3, StateFacts, Facts DEF TypedDB, IInv
  <1>5. ASSUME NEW t \in Services, t # s PROVE SameService(t)
    BY <1>3, <1>5, StateFacts DEF SameService, IInv
  <1>6. ServiceOK(s)' /\ ReadyOK(s)' /\ ~Live(s)'
    BY <1>4 DEF ServiceOK, ReadyOK, Live
  <1>7. \A t : Keeps(t)
    BY <1>3 DEF Keeps, Owns
  <1>8. status[s] = "deleting" /\ req[h].pc \in Deletion
    BY <1>1, <1>2 DEF StatusOK, Deletion
  <1> QED BY <1>1, <1>2, <1>3, <1>4, <1>5, <1>6, <1>7, <1>8, ReturnStep DEF Locked

LEMMA DeleteMemberIPStep ==
  ASSUME IInv, NEW h \in Handlers, DeleteMemberIP(h)
  PROVE  IInv'
  <1>1. PICK q \in Requests : /\ q = req[h] /\ q.pc = "ips" /\ q.s \in Services
                              /\ StepOK(q) /\ StatusOK(q) /\ ProgressOK(q)
                              /\ (Sound => FreeOK(q))
    BY HandlerFacts DEF DeleteMemberIP, At
  <1>2. /\ SameMembers /\ drv' = drv /\ nic' = nic /\ TypedBounds /\ Sound' = Sound /\ iplock' = iplock
    BY BoundsKept DEF DeleteMemberIP, IInv, SameMembers
  <1>3. PICK i \in Present(q.known) : /\ rec' = [rec EXCEPT ![q.known[i]] = None]
                                      /\ Become(h, [q EXCEPT !.known[i] = None])
    BY <1>1 DEF DeleteMemberIP, DeleteServiceStaticIP
  <1>4. PICK a \in IPs, m \in [Indexes -> IPs \cup {None}] :
          /\ a = q.known[i] /\ m = [q.known EXCEPT ![i] = None] /\ i \in Indexes
    <2>1. i \in Indexes /\ q.known[i] # None /\ q.known \in [Indexes -> IPs \cup {None}]
      BY <1>3, Fields DEF Present
    <2>2. q.known[i] \in IPs /\ [q.known EXCEPT ![i] = None] \in [Indexes -> IPs \cup {None}]
      BY <2>1
    <2> QED BY <2>1, <2>2
  <1>5. PICK r : r = [q EXCEPT !.known = m]
    OBVIOUS
  <1>6. Become(h, r)
    BY <1>1, <1>3, <1>4, <1>5 DEF Requests
  <1>7. /\ r \in Requests /\ r.pc = "ips" /\ r.s = q.s /\ r.op = q.op /\ r.known = m
    BY <1>1, <1>4, <1>5 DEF Requests
  <1>8. StepOK(r)
    BY <1>1, <1>7 DEF StepOK, Creation, Deletion, Locked
  <1>9. StatusOK(r) /\ ProgressOK(r)
    BY <1>1, <1>7 DEF StatusOK, ProgressOK, Creation, Deletion, Locked
  <1>10. rec \in [IPs -> Records \cup {None}] /\ rec' \in [IPs -> Records \cup {None}]
         /\ \A b \in IPs : b # a => rec'[b] = rec[b]
    BY <1>3, <1>4, StateFacts DEF IInv
  <1>11. ASSUME Sound
         PROVE  /\ \A t \in Services : t # q.s => Keeps(t)
                /\ FreeOK(r)'
    <2>1. OwnsAll(q.s, q.known)
      BY <1>1, <1>11 DEF FreeOK
    <2>2. Owns(q.s, a)
      BY <1>3, <1>4, <2>1 DEF OwnsAll
    <2>3. \A t \in Services : t # q.s => Keeps(t)
      BY <1>10, <2>2 DEF Keeps, Owns
    <2>4. ASSUME NEW j \in Present(m)
          PROVE  Owns(q.s, m[j])' /\ \A k \in Indexes \ {j} : m[k] # m[j]
      <3>1. j \in Present(q.known) /\ m[j] = q.known[j] /\ j # i /\ m[j] \in IPs /\ m[j] # None
        BY <1>4, <2>4, Fields DEF Present
      <3>2. Owns(q.s, m[j]) /\ \A k \in Indexes \ {j} : q.known[k] # m[j]
        BY <2>1, <3>1 DEF OwnsAll
      <3>3. m[j] # a
        BY <1>4, <3>1, <3>2
      <3>4. \A k \in Indexes \ {j} : m[k] # m[j]
        BY <1>4, <3>1, <3>2, Fields
      <3> QED BY <1>10, <3>1, <3>2, <3>3, <3>4 DEF Owns
    <2>5. OwnsAll(q.s, m)'
      BY <2>4 DEF OwnsAll, Present
    <2> QED BY <1>7, <2>3, <2>5 DEF FreeOK, Claiming
  <1>12. LockFollows(h, r)
    BY <1>1, <1>2, <1>7, LockKept DEF Locked
  <1>13. Sound' => \A t \in Services : t # req[h].s \/ req[h].pc \notin Deletion => Keeps(t)
    BY <1>1, <1>2, <1>11 DEF Deletion
  <1> QED BY <1>1, <1>2, <1>6, <1>7, <1>8, <1>9, <1>10, <1>11, <1>12, <1>13, RecordStep, StateFacts
          DEF IInv, Deletion

LEMMA DeleteServiceMemberStep ==
  ASSUME IInv, NEW h \in Handlers, DeleteServiceMember(h)
  PROVE  IInv'
  <1>1. PICK q \in Requests : /\ q = req[h] /\ q.pc = "members" /\ q.s \in Services
                              /\ StepOK(q) /\ StatusOK(q)
    BY HandlerFacts DEF DeleteServiceMember, At
  <1>2. PICK s \in Services : s = q.s
    BY <1>1
  <1>3. PICK i \in Indexes : members' = [members EXCEPT ![s][i] = None]
    BY <1>1, <1>2 DEF DeleteServiceMember, Present
  <1>4. /\ nic' = nic /\ rec' = rec /\ status' = status /\ replicas' = replicas /\ ready' = ready
        /\ drv' = drv /\ TypedBounds /\ Sound' = Sound /\ iplock' = iplock /\ req' = req
    BY BoundsKept DEF DeleteServiceMember, IInv
  <1>5. status[s] = "deleting" /\ ~Live(s)' /\ ServiceOK(s)' /\ ReadyOK(s)'
    BY <1>1, <1>2, <1>4 DEF StatusOK, Deletion, Live, ServiceOK, ReadyOK
  <1>6. TypedDB
    BY <1>3, <1>4, StateFacts DEF TypedDB, IInv
  <1>7. ASSUME NEW t \in Services, t # s PROVE SameService(t)
    BY <1>3, <1>4, <1>7, StateFacts DEF SameService, IInv
  <1>8. Become(h, q)
    BY <1>1, <1>4, StateFacts DEF Become, IInv
  <1>9. StatusOK(q)' /\ ProgressOK(q)' /\ FreeOK(q)'
    BY <1>1, <1>4 DEF StatusOK, ProgressOK, FreeOK, Live, Creation, Deletion, Locked, Claiming
  <1>10. \A t : Keeps(t)
    BY <1>4 DEF Keeps, Owns
  <1>11. \A g \in Handlers : ~(g # h /\ req[g].s = s)
    BY <1>1, <1>2, Company DEF Deletion
  <1>12. LockFollows(h, q)
    BY <1>1, <1>4, LockKept DEF Locked
  <1> QED BY <1>1, <1>2, <1>4, <1>5, <1>6, <1>7, <1>8, <1>9, <1>10, <1>11, <1>12, Step

-----------------------------------------------------------------------------
(* Requests that begin, and the crash *)

LEMMA BeginStep ==
  ASSUME IInv, NEW h \in Handlers, NEW op \in {"create", "scale"}, NEW s \in Services,
         NEW n \in Indexes, Begin(h, op, s, n), Live(s),
         op = "create" => n = Replicas, op = "scale" => status[s] = "created"
  PROVE  IInv'
  <1>1. At(h, "idle") /\ \A g \in Handlers : req[g].s = s => req[g].op \in {"create", "scale"}
    BY DEF Begin, Free
  <1>2. PICK f \in 0..MaxReplicas : f = replicas[s]
    BY StateFacts, Facts DEF IInv
  <1>3. PICK r : r = [NoRequest EXCEPT !.op = op, !.s = s, !.pc = "list", !.n = n, !.from = f]
    OBVIOUS
  <1>4. Become(h, r)
    BY <1>2, <1>3 DEF Begin
  <1>5. /\ r \in Requests /\ r.pc = "list" /\ r.s = s /\ r.op = op /\ r.n = n
        /\ r.free = <<>> /\ r.todo = {}
    <2>1. NoRequest.free = <<>> /\ NoRequest.todo = {} /\ n \in 0..MaxReplicas
      BY Facts DEF NoRequest
    <2> QED BY <1>2, <1>3, <2>1, NoRequestFacts DEF Requests, Pcs, Ops
  <1>6. /\ nic' = nic /\ rec' = rec /\ members' = members /\ status' = status /\ replicas' = replicas
        /\ ready' = ready /\ drv' = drv /\ iplock' = iplock /\ TypedBounds /\ Sound' = Sound
    BY BoundsKept DEF Begin, IInv, db
  <1>7. TypedDB
    BY <1>6, StateFacts DEF TypedDB, IInv
  <1>8. StepOK(r)
    BY <1>5 DEF StepOK, Creation, Deletion, Locked
  <1>9. StatusOK(r)' /\ ProgressOK(r)' /\ FreeOK(r)'
    BY <1>5, <1>6 DEF StatusOK, ProgressOK, FreeOK, Live, Creation, Deletion, Locked, Claiming
  <1>10. \A t : SameService(t) /\ Keeps(t) /\ Grows(t)
    BY <1>6 DEF SameService, Keeps, Owns, Grows
  <1>11. ServiceOK(s)' /\ ReadyOK(s)'
    <2>1. ServiceOK(s) /\ ReadyOK(s)
      BY DEF IInv, Progress
    <2> QED BY <1>6, <2>1 DEF ServiceOK, ReadyOK, Live
  <1>12. ASSUME NEW g \in Handlers, g # h, req[g].s = s
         PROVE  req[g].pc \notin Deletion /\ Spares(req[g])
    <2>1. req[g].op \in {"create", "scale"} /\ StepOK(req[g])
      BY <1>1, <1>12, HandlerFacts
    <2> QED BY <1>6, <1>10, <2>1 DEF StepOK, Spares
  <1>13. Sound => (Live(s)' => OwnsAll(s, members[s])')
    BY <1>6 DEF IInv, Addresses, Live, OwnsAll, Owns
  <1>14. LockFollows(h, r)
    BY <1>1, <1>5, <1>6, LockKept DEF At, Locked
  <1> QED BY <1>4, <1>5, <1>6, <1>7, <1>8, <1>9, <1>10, <1>11, <1>12, <1>13, <1>14, Step DEF Deletion

LEMMA CreateServiceStep ==
  ASSUME IInv, NEW h \in Handlers, NEW s \in Services, CreateService(h, s)
  PROVE  IInv'
  BY BeginStep, Facts DEF CreateService, Live

LEMMA ScaleServiceStep ==
  ASSUME IInv, NEW h \in Handlers, NEW s \in Services, ScaleService(h, s)
  PROVE  IInv'
  BY BeginStep DEF ScaleService, Live

LEMMA DeleteServiceStep ==
  ASSUME IInv, NEW h \in Handlers, NEW s \in Services, DeleteService(h, s)
  PROVE  IInv'
  <1>1. /\ At(h, "idle") /\ (\A g \in Handlers : req[g].s # s)
        /\ status[s] # "gone" /\ late' = (late \/ \E n \in Nodes : drv[n].s = s)
    BY DEF DeleteService, Free
  <1>2. PICK m \in [Indexes -> IPs \cup {None}] : m = members[s]
    BY StateFacts DEF IInv
  <1>3. PICK r : r = [NoRequest EXCEPT !.op = "delete", !.s = s, !.pc = "ips", !.known = m]
    OBVIOUS
  <1>4. Become(h, r)
    BY <1>2, <1>3 DEF DeleteService
  <1>5. /\ r \in Requests /\ r.pc = "ips" /\ r.s = s /\ r.op = "delete" /\ r.known = m
    BY <1>2, <1>3, NoRequestFacts DEF Requests, Pcs, Ops
  <1>6. /\ nic' = nic /\ rec' = rec /\ members' = members /\ replicas' = replicas
        /\ ready' = ready /\ drv' = drv /\ iplock' = iplock /\ twice' = twice
        /\ status' = [status EXCEPT ![s] = "deleting"]
        /\ repeated' = (repeated \/ status[s] = "deleting")
    BY DEF DeleteService
  <1>7. status'[s] = "deleting" /\ \A t \in Services : t # s => status'[t] = status[t]
    BY <1>6, StateFacts DEF IInv
  <1>8. TypedDB
    BY <1>6, StateFacts DEF TypedDB, IInv
  <1>9. TypedBounds
    BY <1>6, StateFacts, Facts DEF TypedBounds, IInv, DeleteService, Send
  <1>10. StepOK(r)
    BY <1>5 DEF StepOK, Creation, Deletion, Locked
  <1>11. StatusOK(r)' /\ ProgressOK(r)'
    BY <1>5, <1>7 DEF StatusOK, ProgressOK, Creation, Deletion, Locked
  <1>12. (\A t \in Services : t # s => SameService(t)) /\ \A t : Keeps(t)
    BY <1>6, <1>7 DEF SameService, Keeps, Owns
  <1>13. ServiceOK(s)' /\ ReadyOK(s)' /\ ~Live(s)'
    BY <1>7 DEF ServiceOK, ReadyOK, Live
  <1>14. ASSUME Sound' PROVE Sound /\ FreeOK(r)' /\ \A n \in Nodes : drv[n].s # s
    <2>1. Sound /\ Live(s) /\ \A n \in Nodes : drv[n].s # s
      BY <1>1, <1>6, <1>14, StateFacts DEF Sound, Live, IInv
    <2>2. OwnsAll(s, m)
      BY <1>2, <2>1 DEF IInv, Addresses
    <2>3. OwnsAll(s, m)'
      BY <1>6, <2>2 DEF OwnsAll, Owns
    <2> QED BY <1>5, <2>1, <2>3 DEF FreeOK, Claiming
  <1>15. LockFollows(h, r)
    BY <1>1, <1>5, <1>6, LockKept DEF At, Locked
  <1> QED BY <1>1, <1>4, <1>5, <1>6, <1>8, <1>9, <1>10, <1>11, <1>12, <1>13, <1>14, <1>15, Step

LEMMA CrashStep ==
  ASSUME IInv, Crash
  PROVE  IInv'
  <1>1. /\ UnchangedDB /\ nic' = nic /\ drv' = drv /\ TypedBounds /\ Sound' = Sound /\ iplock' = None
        /\ req' = [h \in Handlers |-> NoRequest]
    BY BoundsKept DEF Crash, IInv, db, UnchangedDB
  <1>2. PICK r \in Requests : r = NoRequest /\ r.pc = "idle" /\ r.s = None /\ StepOK(r)
    BY NoRequestFacts
  <1>3. req' \in [Handlers -> Requests] /\ \A h \in Handlers : req'[h] = r
    BY <1>1, <1>2
  <1>4. TypeInv'
    <2>1. /\ nic' \in [IPs -> Nodes \cup {None}] /\ rec' \in [IPs -> Records \cup {None}]
          /\ members' \in [Services -> [Indexes -> IPs \cup {None}]]
          /\ ready' \subseteq Services \X Indexes
          /\ status' \in [Services -> {"creating", "created", "deleting", "gone"}]
          /\ replicas' \in [Services -> Indexes]
          /\ iplock' \in Handlers \cup {None} /\ \A h \in Handlers : iplock' # h
      BY <1>1, StateFacts, Facts DEF UnchangedDB, IInv
    <2>2. /\ r.known \in [Indexes -> IPs \cup {None}] /\ r.seen \subseteq Nodes \X IPs
          /\ r.last \in 0..MaxIP /\ r.tries \in 0..MaxTries /\ r.free \in Seq(IPs)
          /\ r.pc \notin {"read", "claim", "assign", "record", "member"}
      BY <1>2, Fields
    <2>3. \A n \in Nodes : drv'[n].ip \in IPs \cup {None} /\ drv'[n].old \in Records \cup {None}
      BY <1>1 DEF IInv, TypeInv, TypeOK
    <2>4. TypeOK'
      BY <1>1, <1>3, <2>1, <2>2, <2>3 DEF TypeOK, TypedBounds
    <2>5. drv' \in [Nodes -> Mounts] /\ \A n \in Nodes : MountOK(drv'[n])
      BY <1>1 DEF IInv, TypeInv
    <2>6. \A h \in Handlers : StepOK(req'[h])
      BY <1>2, <1>3
    <2> QED BY <1>3, <2>4, <2>5, <2>6 DEF TypeInv
  <1>5. Progress'
    <2>1. StatusOK(r)' /\ ProgressOK(r)'
      BY <1>2, NoRequestFree
    <2>2. Alone'
      BY <1>2, <1>3 DEF Alone, Deletion
    <2>3. \A s \in Services : ServiceOK(s)' /\ ReadyOK(s)'
      BY <1>1 DEF IInv, Progress, ServiceOK, ReadyOK, Live, UnchangedDB
    <2> QED BY <1>3, <2>1, <2>2, <2>3 DEF Progress
  <1>6. Sound => Drivers'
    BY <1>1 DEF IInv, Drivers, DriverOK, UnchangedDB
  <1>7. ASSUME Sound PROVE Addresses'
    <2>1. FreeOK(r)'
      BY <1>2, NoRequestFree
    <2>2. \A s \in Services : Live(s)' => OwnsAll(s, members[s])'
      BY <1>1, <1>7 DEF IInv, Addresses, Live, OwnsAll, Owns, UnchangedDB
    <2>3. \A n \in Nodes : drv'[n].old # None => drv'[n].old.svc = drv'[n].s
      BY <1>1, <1>7 DEF IInv, Addresses
    <2> QED BY <1>3, <2>1, <2>2, <2>3 DEF Addresses
  <1> QED BY <1>1, <1>4, <1>5, <1>6, <1>7 DEF IInv

-----------------------------------------------------------------------------
(* Drivers *)

LEMMA DriverFacts ==
  ASSUME IInv, NEW n \in Nodes
  PROVE  /\ drv[n] \in Mounts /\ MountOK(drv[n]) /\ (Sound => DriverOK(drv[n]))
         /\ Sound => (drv[n].old # None => drv[n].old.svc = drv[n].s)
  BY StateFacts DEF IInv, TypeInv, Drivers, Addresses

(* The address of a Mount is one of its service. *)
LEMMA DriverOwns ==
  ASSUME IInv, Sound, NEW n \in Nodes, drv[n].pc # "idle"
  PROVE  Owns(drv[n].s, drv[n].ip)
  <1>1. PICK s \in Services, a \in IPs : s = drv[n].s /\ a = drv[n].ip /\ status[s] = "created"
    BY DriverFacts DEF MountOK, DriverOK
  <1>2. PICK i \in Indexes : members[s][i] = a
    BY <1>1, DriverFacts DEF DriverOK
  <1>3. OwnsAll(s, members[s]) /\ i \in Present(members[s])
    BY <1>1, <1>2, Facts DEF IInv, Addresses, Live, Present
  <1> QED BY <1>1, <1>2, <1>3 DEF OwnsAll

LEMMA DriverStep ==
  ASSUME IInv, NEW n \in Nodes, NEW d \in Mounts, DriverTo(n, d), MountOK(d), Sound' => Sound /\ DriverOK(d),
         UNCHANGED manager, TypedBounds,
         nic' \in [IPs -> Nodes \cup {None}], rec' \in [IPs -> Records \cup {None}],
         Sound => (d.old # None => d.old.svc = d.s) /\ \A t \in Services : Keeps(t)
  PROVE  IInv'
  <1>1. /\ SameMembers /\ req' = req /\ iplock' = iplock
    BY DEF manager, SameMembers
  <1>2. drv' \in [Nodes -> Mounts] /\ drv'[n] = d /\ \A m \in Nodes : m # n => drv'[m] = drv[m]
    BY StateFacts DEF DriverTo, IInv
  <1>3. TypeInv'
    <2>1. \A m \in Nodes : drv'[m] \in Mounts /\ MountOK(drv'[m])
      BY <1>2, DriverFacts
    <2>2. \A m \in Nodes : drv'[m].ip \in IPs \cup {None} /\ drv'[m].old \in Records \cup {None}
      BY <2>1 DEF Mounts
    <2>3. TypeOK'
      BY <1>1, <2>2 DEF IInv, TypeInv, TypeOK, TypedBounds, SameMembers
    <2> QED BY <1>1, <1>2, <2>1, <2>3 DEF IInv, TypeInv
  <1>4. Progress'
    BY <1>1 DEF IInv, Progress, Alone, StatusOK, ProgressOK, Made, ServiceOK, ReadyOK, Live, SameMembers
  <1>5. Sound' => Drivers'
    BY <1>1, <1>2 DEF IInv, Drivers, DriverOK, SameMembers
  <1>6. ASSUME Sound' PROVE Addresses'
    <2>1. Sound /\ \A t \in Services : Keeps(t)
      BY <1>6
    <2>2. ASSUME NEW s \in Services, Live(s)' PROVE OwnsAll(s, members[s])'
      <3>1. PICK m \in [Indexes -> IPs \cup {None}] : m = members[s]
        BY StateFacts DEF IInv
      <3>2. OwnsAll(s, m)
        BY <1>1, <2>1, <2>2, <3>1 DEF IInv, Addresses, Live, SameMembers
      <3>3. OwnsAll(s, m)'
        BY <2>1, <3>2, OwnsAllKept
      <3> QED BY <1>1, <3>1, <3>3 DEF SameMembers
    <2>3. ASSUME NEW h \in Handlers PROVE FreeOK(req[h])'
      <3>1. PICK q \in Requests : q = req[h] /\ FreeOK(q) /\ StepOK(q)
        BY <2>1, HandlerFacts
      <3>2. CASE q.pc = "idle"
        BY <1>1, <3>1, <3>2, NoRequestFree DEF StepOK
      <3>3. CASE q.pc # "idle"
        <4>1. FreeOK(q)'
          BY <1>1, <2>1, <3>1, <3>3, FreeKept DEF StepOK, Spares, SameMembers
        <4> QED BY <1>1, <3>1, <4>1
      <3> QED BY <3>2, <3>3
    <2>4. \A m \in Nodes : drv'[m].old # None => drv'[m].old.svc = drv'[m].s
      BY <1>2, <1>6, <2>1, DriverFacts
    <2> QED BY <2>2, <2>3, <2>4 DEF Addresses
  <1> QED BY <1>1, <1>3, <1>4, <1>5, <1>6 DEF IInv

LEMMA RecordsKept ==
  ASSUME rec' = rec
  PROVE  \A t : Keeps(t)
  BY DEF Keeps, Owns

LEMMA NoMountOK == DriverOK(NoMount)
  BY NoMountFacts DEF DriverOK

(* The bounds and the exceptions of a step of a driver. *)
LEMMA DriverBounds ==
  ASSUME IInv, UNCHANGED <<manager, events, history>>
  PROVE  UNCHANGED manager /\ TypedBounds /\ Sound' = Sound
  BY BoundsKept DEF manager, IInv

LEMMA ReturnsStep ==
  ASSUME IInv, NEW n \in Nodes, DriverReturns(n), UNCHANGED <<manager, events, history>>,
         nic' \in [IPs -> Nodes \cup {None}], rec' = rec
  PROVE  IInv'
  BY DriverStep, DriverBounds, NoMountFacts, NoMountOK, RecordsKept, StateFacts DEF DriverReturns, IInv

LEMMA DriverFailsStep ==
  ASSUME IInv, NEW n \in Nodes, DriverFails(n)
  PROVE  IInv'
  BY ReturnsStep, StateFacts DEF DriverFails, IInv

LEMMA MountMemberStep ==
  ASSUME IInv, NEW n \in Nodes, NEW s \in Services, MountMember(n, s)
  PROVE  IInv'
  <1>1. PICK i \in Present(members[s]) :
          DriverTo(n, [NoMount EXCEPT !.pc = "check", !.s = s, !.ip = members[s][i],
                                      !.todo = {a \in IPs : nic[a] = n}])
    BY DEF MountMember
  <1>2. PICK a \in IPs : a = members[s][i] /\ i \in Indexes
    BY <1>1, StateFacts DEF IInv, Present
  <1>3. PICK T \in SUBSET IPs : T = {b \in IPs : nic[b] = n}
    OBVIOUS
  <1>4. PICK d : d = [NoMount EXCEPT !.pc = "check", !.s = s, !.ip = a, !.todo = T]
    OBVIOUS
  <1>5. d \in Mounts /\ d.pc = "check" /\ d.s = s /\ d.ip = a /\ d.old = None
    BY <1>4, NoMountFacts DEF Mounts
  <1>6. /\ MountOK(d) /\ (status[s] = "created" => DriverOK(d))
        /\ late' = (late \/ status[s] = "deleting") /\ status[s] \in {"created", "deleting"}
        /\ twice' = twice /\ repeated' = repeated
    BY <1>2, <1>5 DEF MountOK, DriverOK, MountMember
  <1>7. /\ DriverTo(n, d) /\ UNCHANGED manager /\ Event /\ nic' = nic /\ rec' = rec
    BY <1>1, <1>2, <1>3, <1>4 DEF MountMember
  <1>8. TypedBounds
    BY <1>6, <1>7, StateFacts, Facts DEF TypedBounds, IInv, Event, manager
  <1>9. Sound' => Sound /\ DriverOK(d)
    BY <1>6, StateFacts DEF Sound, IInv
  <1> QED BY <1>5, <1>6, <1>7, <1>8, <1>9, DriverStep, RecordsKept, StateFacts DEF IInv

(* A step of a Mount that keeps its member. *)
LEMMA MountGoesOn ==
  ASSUME IInv, NEW n \in Nodes, NEW c \in Mounts, c = drv[n], c.pc # "idle",
         NEW d \in Mounts, DriverTo(n, d), d.s = c.s, d.ip = c.ip, d.pc # "idle",
         d.pc \in {"unassign", "assign", "update"} => d.old \in Records,
         d.pc = "drop" => d.drop \in IPs,
         UNCHANGED <<manager, events, history>>, nic' \in [IPs -> Nodes \cup {None}], rec' = rec,
         Sound => d.old = c.old \/ (d.old # None => d.old.svc = d.s)
  PROVE  IInv'
  <1>1. MountOK(c) /\ (Sound => DriverOK(c))
    BY DriverFacts
  <1>2. MountOK(d) /\ (Sound => DriverOK(d))
    BY <1>1 DEF MountOK, DriverOK
  <1>3. Sound => (d.old # None => d.old.svc = d.s)
    BY DriverFacts
  <1> QED BY <1>2, <1>3, DriverStep, DriverBounds, RecordsKept, StateFacts DEF IInv

LEMMA CheckLocalIPStep ==
  ASSUME IInv, NEW n \in Nodes, CheckLocalIP(n)
  PROVE  IInv'
  <1>1. PICK c \in Mounts : c = drv[n] /\ c.pc = "check" /\ c.todo \in SUBSET IPs
    BY DriverFacts DEF CheckLocalIP, Mounting, Mounts
  <1>2. PICK a \in c.todo :
          IF rec[a] = None \/ rec[a].svc # c.s THEN DriverTo(n, [c EXCEPT !.todo = @ \ {a}])
          ELSE IF a = c.ip THEN DriverTo(n, [c EXCEPT !.todo = @ \ {a}, !.old = rec[a]])
          ELSE DriverTo(n, [c EXCEPT !.todo = @ \ {a}, !.pc = "drop", !.drop = a])
    BY <1>1 DEF CheckLocalIP
  <1>3. PICK T \in SUBSET IPs : T = c.todo \ {a} /\ a \in IPs
    BY <1>1
  <1>4. UNCHANGED <<manager, events, history>> /\ nic' = nic /\ rec' = rec
    BY DEF CheckLocalIP
  <1>5. CASE DriverTo(n, [c EXCEPT !.todo = T])
    <2>1. PICK d : d = [c EXCEPT !.todo = T]
      OBVIOUS
    <2>2. d \in Mounts /\ d.pc = "check" /\ d.s = c.s /\ d.ip = c.ip /\ d.old = c.old
      BY <1>1, <2>1 DEF Mounts
    <2> QED BY <1>1, <1>4, <1>5, <2>1, <2>2, MountGoesOn, StateFacts DEF IInv
  <1>6. CASE rec[a] # None /\ rec[a].svc = c.s /\ DriverTo(n, [c EXCEPT !.todo = T, !.old = rec[a]])
    <2>1. PICK v \in Records : v = rec[a]
      BY <1>3, <1>6, StateFacts DEF IInv
    <2>2. PICK d : d = [c EXCEPT !.todo = T, !.old = v]
      OBVIOUS
    <2>3. d \in Mounts /\ d.pc = "check" /\ d.s = c.s /\ d.ip = c.ip /\ d.old = v
      BY <1>1, <2>2 DEF Mounts
    <2>4. d.old \in Records /\ d.old.svc = d.s
      BY <1>6, <2>1, <2>3
    <2>5. DriverTo(n, d)
      BY <1>6, <2>1, <2>2
    <2>6. nic' \in [IPs -> Nodes \cup {None}]
      BY <1>4, StateFacts DEF IInv
    <2> QED BY <1>1, <1>4, <2>3, <2>4, <2>5, <2>6, MountGoesOn
  <1>7. CASE DriverTo(n, [c EXCEPT !.todo = T, !.pc = "drop", !.drop = a])
    <2>1. PICK d : d = [c EXCEPT !.todo = T, !.pc = "drop", !.drop = a]
      OBVIOUS
    <2>2. d \in Mounts /\ d.pc = "drop" /\ d.s = c.s /\ d.ip = c.ip /\ d.old = c.old /\ d.drop \in IPs
      BY <1>1, <1>3, <2>1 DEF Mounts
    <2> QED BY <1>1, <1>4, <1>7, <2>1, <2>2, MountGoesOn, StateFacts DEF IInv
  <1> QED BY <1>2, <1>3, <1>5, <1>6, <1>7

LEMMA UnassignedType ==
  ASSUME IInv, NEW n, NEW a, UnassignStaticIP(n, a)
  PROVE  nic' \in [IPs -> Nodes \cup {None}]
  BY StateFacts DEF IInv, UnassignStaticIP

LEMMA DropDanglingIPStep ==
  ASSUME IInv, NEW n \in Nodes, DropDanglingIP(n)
  PROVE  IInv'
  <1>1. PICK c \in Mounts : c = drv[n] /\ c.pc = "drop"
    BY DriverFacts DEF DropDanglingIP, Mounting
  <1>2. PICK d : d = [c EXCEPT !.pc = "check", !.drop = None]
    OBVIOUS
  <1>3. d \in Mounts /\ d.pc = "check" /\ d.s = c.s /\ d.ip = c.ip /\ d.old = c.old
    BY <1>1, <1>2 DEF Mounts
  <1>4. UNCHANGED <<manager, events, history>> /\ nic' \in [IPs -> Nodes \cup {None}] /\ rec' = rec /\ DriverTo(n, d)
    BY <1>1, <1>2, UnassignedType DEF DropDanglingIP
  <1> QED BY <1>1, <1>3, <1>4, MountGoesOn

LEMMA CheckedLocalIPsStep ==
  ASSUME IInv, NEW n \in Nodes, CheckedLocalIPs(n)
  PROVE  IInv'
  <1>1. PICK c \in Mounts : /\ c = drv[n] /\ c.pc = "check" /\ c.ip \in IPs
                            /\ c.old \in Records \cup {None}
    BY DriverFacts DEF CheckedLocalIPs, Mounting, Mounts, MountOK
  <1>2. UNCHANGED <<manager, events, history>> /\ nic' = nic /\ rec' = rec
    BY DEF CheckedLocalIPs
  <1>3. CASE DriverReturns(n)
    BY <1>2, <1>3, ReturnsStep, StateFacts DEF IInv
  <1>4. CASE c.old # None /\ DriverTo(n, [c EXCEPT !.pc = "update"])
    <2>1. PICK d : d = [c EXCEPT !.pc = "update"]
      OBVIOUS
    <2>2. d \in Mounts /\ d.pc = "update" /\ d.s = c.s /\ d.ip = c.ip /\ d.old = c.old
      BY <1>1, <2>1 DEF Mounts
    <2> QED BY <1>1, <1>2, <1>4, <2>1, <2>2, MountGoesOn, StateFacts DEF IInv
  <1>5. CASE rec[c.ip] # None /\ DriverTo(n, [c EXCEPT !.pc = "unassign", !.old = rec[c.ip]])
    <2>1. PICK v \in Records : v = rec[c.ip]
      BY <1>1, <1>5, StateFacts DEF IInv
    <2>2. PICK d : d = [c EXCEPT !.pc = "unassign", !.old = v]
      OBVIOUS
    <2>3. d \in Mounts /\ d.pc = "unassign" /\ d.s = c.s /\ d.ip = c.ip /\ d.old = v
      BY <1>1, <2>2 DEF Mounts
    <2>4. Sound => d.old.svc = d.s
      BY <1>1, <2>1, <2>3, DriverOwns DEF Owns
    <2>5. DriverTo(n, d)
      BY <1>5, <2>1, <2>2
    <2>6. nic' \in [IPs -> Nodes \cup {None}]
      BY <1>2, StateFacts DEF IInv
    <2> QED BY <1>1, <1>2, <2>3, <2>4, <2>5, <2>6, MountGoesOn
  <1> QED BY <1>1, <1>3, <1>4, <1>5 DEF CheckedLocalIPs

LEMMA UnassignOldOwnerStep ==
  ASSUME IInv, NEW n \in Nodes, UnassignOldOwner(n)
  PROVE  IInv'
  <1>1. PICK c \in Mounts : c = drv[n] /\ c.pc = "unassign" /\ c.old \in Records
    BY DriverFacts DEF UnassignOldOwner, Mounting, MountOK
  <1>2. PICK d : d = [c EXCEPT !.pc = "assign"]
    OBVIOUS
  <1>3. d \in Mounts /\ d.pc = "assign" /\ d.s = c.s /\ d.ip = c.ip /\ d.old = c.old
    BY <1>1, <1>2 DEF Mounts
  <1>4. UNCHANGED <<manager, events, history>> /\ nic' \in [IPs -> Nodes \cup {None}] /\ rec' = rec /\ DriverTo(n, d)
    BY <1>1, <1>2, UnassignedType DEF UnassignOldOwner
  <1> QED BY <1>1, <1>3, <1>4, MountGoesOn

LEMMA AssignLocalStep ==
  ASSUME IInv, NEW n \in Nodes, AssignLocal(n)
  PROVE  IInv'
  <1>1. PICK c \in Mounts : c = drv[n] /\ c.pc = "assign" /\ c.old \in Records /\ c.ip \in IPs
    BY DriverFacts DEF AssignLocal, Mounting, MountOK
  <1>2. /\ UNCHANGED <<manager, events, history>> /\ rec' = rec /\ nic' \in [IPs -> Nodes \cup {None}]
    BY <1>1, AssignedType DEF AssignLocal
  <1>3. DriverReturns(n) \/ DriverTo(n, [c EXCEPT !.pc = "update"])
    BY <1>1 DEF AssignLocal
  <1>4. CASE DriverReturns(n)
    BY <1>2, <1>4, ReturnsStep
  <1>5. CASE DriverTo(n, [c EXCEPT !.pc = "update"])
    <2>1. PICK d : d = [c EXCEPT !.pc = "update"]
      OBVIOUS
    <2>2. d \in Mounts /\ d.pc = "update" /\ d.s = c.s /\ d.ip = c.ip /\ d.old = c.old
      BY <1>1, <2>1 DEF Mounts
    <2> QED BY <1>1, <1>2, <1>5, <2>1, <2>2, MountGoesOn
  <1> QED BY <1>3, <1>4, <1>5

(* The record names another node, and stays with its service. *)
LEMMA UpdateRecordStep ==
  ASSUME IInv, NEW n \in Nodes, UpdateRecord(n)
  PROVE  IInv'
  <1>1. PICK c \in Mounts : c = drv[n] /\ c.pc = "update" /\ c.old \in Records /\ c.ip \in IPs
    BY DriverFacts DEF UpdateRecord, Mounting, MountOK
  <1>2. /\ UNCHANGED <<manager, events, history>> /\ nic' = nic /\ DriverReturns(n)
    BY DEF UpdateRecord
  <1>3. PICK ok \in BOOLEAN : UpdateServiceStaticIP(c.old, c.ip, n, ok)
    BY <1>1 DEF UpdateRecord
  <1>4. PICK o \in Records, a \in IPs : o = c.old /\ a = c.ip
    BY <1>1
  <1>5. PICK v : v = [o EXCEPT !.node = n, !.rev = @ + 1]
    OBVIOUS
  <1>6. v \in Records /\ v.svc = o.svc /\ v # None
    <2>1. o.rev + 1 \in Nat
      BY <1>4 DEF Records
    <2>2. v \in Records /\ v.svc = o.svc
      BY <1>4, <1>5, <2>1 DEF Records
    <2> QED BY <2>2, Facts
  <1>7. rec' = rec \/ rec' = [rec EXCEPT ![a] = v]
    BY <1>3, <1>4, <1>5 DEF UpdateServiceStaticIP
  <1>8. rec' \in [IPs -> Records \cup {None}]
    BY <1>6, <1>7, StateFacts DEF IInv
  <1>9. ASSUME Sound, NEW t \in Services PROVE Keeps(t)
    <2>1. Owns(c.s, a) /\ o.svc = c.s
      BY <1>1, <1>4, <1>9, DriverOwns, DriverFacts, Facts
    <2> QED BY <1>6, <1>7, <2>1, StateFacts DEF Keeps, Owns, IInv
  <1> QED BY <1>2, <1>8, <1>9, DriverStep, DriverBounds, NoMountFacts, NoMountOK, StateFacts DEF DriverReturns, IInv

-----------------------------------------------------------------------------
(* The theorems *)

LEMMA RequestStep ==
  ASSUME IInv, NEW h \in Handlers, Request(h)
  PROVE  IInv'
  BY ListServiceMembersStep, LockIPsStep, GetNetworkInterfacesStep, getUnassignedIPsStep,
     ClaimedAllStep, createNextIPStep, NoNextIPStep, RecordNextIPStep, createServiceMemberStep,
     CreatedMembersStep, WaitVolumeCreatedStep, SetServiceCreatedStep, DeleteMemberIPStep,
     DeletedIPsStep, DeleteServiceMemberStep, DeleteServiceAttrStep
  DEF Request

LEMMA DriverNext ==
  ASSUME IInv, NEW n \in Nodes, Driver(n)
  PROVE  IInv'
  BY CheckLocalIPStep, DropDanglingIPStep, CheckedLocalIPsStep, UnassignOldOwnerStep,
     AssignLocalStep, UpdateRecordStep
  DEF Driver

LEMMA InitOK ==
  ASSUME Init
  PROVE  IInv
  <1>1. /\ nic \in [IPs -> Nodes \cup {None}] /\ rec \in [IPs -> Records \cup {None}]
        /\ NoMembers \in [Indexes -> IPs \cup {None}]
        /\ members \in [Services -> [Indexes -> IPs \cup {None}]]
        /\ ready = {} /\ status \in [Services -> {"creating", "created", "deleting", "gone"}]
        /\ replicas \in [Services -> Indexes] /\ iplock = None
        /\ events \in 0..MaxEvents /\ requests \in 0..MaxRequests
        /\ twice \in BOOLEAN /\ repeated \in BOOLEAN /\ late \in BOOLEAN
    <2>1. NoMembers \in [Indexes -> IPs \cup {None}]
      BY DEF NoMembers
    <2>2. /\ nic \in [IPs -> Nodes \cup {None}] /\ rec \in [IPs -> Records \cup {None}]
          /\ members \in [Services -> [Indexes -> IPs \cup {None}]]
          /\ status \in [Services -> {"creating", "created", "deleting", "gone"}]
          /\ replicas \in [Services -> Indexes]
      BY <2>1, Facts DEF Init
    <2>3. ready = {} /\ iplock = None /\ twice \in BOOLEAN /\ repeated \in BOOLEAN /\ late \in BOOLEAN
      BY DEF Init
    <2>4. events \in 0..MaxEvents /\ requests \in 0..MaxRequests
      BY Facts DEF Init
    <2> QED BY <2>1, <2>2, <2>3, <2>4
  <1>2. PICK r \in Requests : r = NoRequest /\ r.pc = "idle" /\ r.s = None /\ StepOK(r)
    BY NoRequestFacts
  <1>3. req \in [Handlers -> Requests] /\ \A h \in Handlers : req[h] = r
    BY <1>2 DEF Init
  <1>4. PICK d \in Mounts : d = NoMount /\ d.pc = "idle" /\ d.old = None /\ MountOK(d)
    BY NoMountFacts
  <1>5. drv \in [Nodes -> Mounts] /\ \A n \in Nodes : drv[n] = d
    BY <1>4 DEF Init
  <1>6. /\ r.known \in [Indexes -> IPs \cup {None}] /\ r.seen \subseteq Nodes \X IPs
        /\ r.last \in 0..MaxIP /\ r.tries \in 0..MaxTries /\ r.free \in Seq(IPs)
        /\ r.pc \notin {"read", "claim", "assign", "record", "member"}
    BY <1>2, Fields
  <1>7. d.ip \in IPs \cup {None} /\ d.old \in Records \cup {None}
    BY DEF Mounts
  <1>8. \A h \in Handlers : iplock # h
    BY <1>1, Facts
  <1>9. TypeOK
    BY <1>1, <1>3, <1>5, <1>6, <1>7, <1>8 DEF TypeOK
  <1>10. TypeInv
    BY <1>2, <1>3, <1>4, <1>5, <1>9 DEF TypeInv
  <1>11. \A s \in Services : /\ status[s] = "creating" /\ replicas[s] = Replicas
                             /\ \A i \in Indexes : members[s][i] = None
    BY DEF Init, NoMembers
  <1>12. StatusOK(r) /\ ProgressOK(r) /\ FreeOK(r)
    BY <1>2, NoRequestOK
  <1>13. Progress
    <2>1. Alone
      BY <1>2, <1>3 DEF Alone, Deletion
    <2>2. \A s \in Services : ServiceOK(s) /\ ReadyOK(s)
      BY <1>11 DEF ServiceOK, ReadyOK, Segment
    <2> QED BY <1>3, <1>12, <2>1, <2>2 DEF Progress
  <1>14. Drivers
    BY <1>4, <1>5 DEF Drivers, DriverOK
  <1>15. Addresses
    BY <1>3, <1>4, <1>5, <1>11, <1>12 DEF Addresses, OwnsAll, Present
  <1> QED BY <1>10, <1>13, <1>14, <1>15 DEF IInv

LEMMA StutterOK ==
  ASSUME IInv, UNCHANGED vars
  PROVE  IInv'
  BY DEF IInv, TypeInv, TypeOK, Progress, Alone, StatusOK, ProgressOK, Made, ServiceOK, ReadyOK, Live,
         Drivers, DriverOK, Sound, Addresses, FreeOK, Owns, OwnsAll, vars, db, history

LEMMA Inductive ==
  ASSUME IInv, [Next]_vars
  PROVE  IInv'
  <1>1. ASSUME NEW h \in Handlers, Request(h) \/ RequestFails(h)
        PROVE  IInv'
    BY <1>1, RequestStep, RequestFailsStep
  <1>2. ASSUME NEW h \in Handlers, NEW s \in Services,
               CreateService(h, s) \/ ScaleService(h, s) \/ DeleteService(h, s)
        PROVE  IInv'
    BY <1>2, CreateServiceStep, ScaleServiceStep, DeleteServiceStep
  <1>3. ASSUME NEW n \in Nodes, Driver(n) \/ DriverFails(n)
        PROVE  IInv'
    BY <1>3, DriverNext, DriverFailsStep
  <1>4. ASSUME NEW n \in Nodes, NEW s \in Services, MountMember(n, s)
        PROVE  IInv'
    BY <1>4, MountMemberStep
  <1>5. CASE Crash
    BY <1>5, CrashStep
  <1>6. CASE UNCHANGED vars
    BY <1>6, StutterOK
  <1> QED BY <1>1, <1>2, <1>3, <1>4, <1>5, <1>6 DEF Next

(* createStaticIPs holds its lock exactly while it looks for addresses, and *)
(* leaves it with enough of them (service.go:1109-1248).                    *)
THEOREM TypeCorrect == Spec => []TypeOK
  <1>1. IInv => TypeOK
    BY DEF IInv, TypeInv
  <1> QED BY <1>1, InitOK, Inductive, PTL DEF Spec

(* "FireCamp will automatically assign one static ip to each Consul         *)
(* container" (catalog/consul/README.md:18), whatever moves, fails, overlaps *)
(* or is deleted: but for the three cases that MembersOwnTheirIPs names.     *)
THEOREM AddressesAreOwned == Spec => []MembersOwnTheirIPs
  <1>1. IInv => MembersOwnTheirIPs
    BY DEF IInv, Addresses, Sound, Excepted, OwnsAll, Owns, MembersOwnTheirIPs
  <1> QED BY <1>1, InitOK, Inductive, PTL DEF Spec

(* SetServiceInitialized and the new size come last: a service that counts  *)
(* as created, or scaled, has its members and their volumes (service.go:856- *)
(* 973, server.go:450-475).                                                 *)
THEOREM CreatedIsComplete == Spec => []CreatedIsReady
  <1>1. IInv => CreatedIsReady
    BY DEF IInv, Progress, ReadyOK, CreatedIsReady
  <1> QED BY <1>1, InitOK, Inductive, PTL DEF Spec
=============================================================================
