------------------------------ MODULE StaticIPs ------------------------------
(***************************************************************************)
(* The resources of the members of services that require static ips, on    *)
(* ECS and Swarm: CheckAndCreateServiceMembers of the manage server        *)
(* (pkg/managesvc/service.go), the deletion that gives the addresses up,   *)
(* and UpdateStaticIP of the drivers (pkg/plugins/network), which takes an *)
(* address to the node of the member meanwhile.                            *)
(*                                                                         *)
(* Nothing relates an address on an interface to its ServiceStaticIP       *)
(* record but the order of the calls: a creation reads the interfaces one  *)
(* by one, claims what has no record, and assigns addresses that it did    *)
(* not see.  One process of the server runs; its iplock keeps the          *)
(* creations apart while they do so, but not from deletions and drivers.   *)
(*                                                                         *)
(* One zone: zones share neither addresses nor interfaces.  The services   *)
(* stand for service uuids: a name that is used again is another service.  *)
(***************************************************************************)
EXTENDS Naturals, Sequences, FiniteSets

CONSTANTS Services,    \* service uuids
          Nodes,       \* instances of the zone, each with one interface
          Handlers,    \* requests the server works on at the same time
          MaxIP,       \* usable addresses of the subnet, in the order of GetNextIP
          Replicas,    \* members of a new service
          MaxReplicas, \* users scale a service to this size at most
          MaxTries,    \* maxRetryCount of createNextIP
          MaxRequests, \* bound: requests that are sent
          MaxEvents,   \* bound on Mounts of the drivers, failed calls and
                       \* crashes of the server, together
          None

IPs == 1..MaxIP
Indexes == 1..MaxReplicas

ASSUME StaticIPsAssumption ==
  /\ {MaxIP, MaxReplicas, MaxTries, MaxRequests, MaxEvents} \subseteq Nat
  /\ Replicas \in Indexes /\ MaxTries > 0
  /\ None \notin Services \cup Nodes \cup Handlers \cup Nat

VARIABLES
  nic,       \* nic[a]: the interface EC2 has address a assigned to
  rec,       \* rec[a]: the ServiceStaticIP record of a
  members,   \* members[s][i]: the static ip in the record of member i
  ready,     \* the members whose volume was seen to be created
  status,    \* status[s], from its ServiceAttr record
  replicas,  \* replicas[s], from its ServiceAttr record
  iplock,    \* the handler that holds it
  req,       \* req[h]: the request of a handler
  drv,       \* drv[n]: the Mount in progress on a node
  events,    \* what is left of MaxEvents
  requests,  \* requests that may still be sent
  twice,     \* a creation claimed an address twice, seen at two interfaces
  repeated,  \* a deletion was sent again after one that ended half way
  late       \* a driver was mounting for a service that was being deleted

db == <<rec, members, status, replicas>>
history == <<twice, repeated, late>>
vars == <<nic, db, ready, iplock, req, drv, events, requests, history>>

Present(m) == {i \in Indexes : m[i] # None}
NoMembers == [i \in Indexes |-> None]
NoRequest == [op |-> None, s |-> None, pc |-> "idle", n |-> 0, from |-> 0,
              known |-> NoMembers, nodes |-> {}, seen |-> {}, todo |-> {},
              free |-> <<>>, at |-> None, last |-> 0, tries |-> 0, i |-> 0]
NoMount == [pc |-> "idle", s |-> None, ip |-> None, todo |-> {}, old |-> None, drop |-> None]
Records == [svc : Services, node : Nodes, rev : Nat]
ASSUME RecordsAssumption == None \notin Records

(* Every variable keeps its type, a request holds the lock exactly while it *)
(* looks for addresses, and has enough of them when it makes the members.   *)
TypeOK ==
  /\ nic \in [IPs -> Nodes \cup {None}]
  /\ rec \in [IPs -> Records \cup {None}]
  /\ members \in [Services -> [Indexes -> IPs \cup {None}]]
  /\ ready \subseteq Services \X Indexes
  /\ status \in [Services -> {"creating", "created", "deleting", "gone"}]
  /\ replicas \in [Services -> Indexes]
  /\ iplock \in Handlers \cup {None}
  /\ \A h \in Handlers :
       /\ req[h].known \in [Indexes -> IPs \cup {None}]
       /\ req[h].seen \subseteq Nodes \X IPs
       /\ req[h].last \in 0..MaxIP /\ req[h].tries \in 0..MaxTries
       /\ req[h].free \in Seq(IPs)
       /\ iplock = h <=> req[h].pc \in {"read", "claim", "assign", "record"}
       /\ req[h].pc = "member" => Len(req[h].free) + req[h].i > req[h].n
  /\ \A n \in Nodes : drv[n].ip \in IPs \cup {None} /\ drv[n].old \in Records \cup {None}
  /\ events \in 0..MaxEvents /\ requests \in 0..MaxRequests
  /\ {twice, repeated, late} \subseteq BOOLEAN

Init ==
  /\ nic = [a \in IPs |-> None] /\ rec = [a \in IPs |-> None]
  /\ members = [s \in Services |-> NoMembers] /\ ready = {}
  /\ status = [s \in Services |-> "creating"]
  /\ replicas = [s \in Services |-> Replicas]
  /\ iplock = None
  /\ req = [h \in Handlers |-> NoRequest] /\ drv = [n \in Nodes |-> NoMount]
  /\ events = MaxEvents
  /\ requests = MaxRequests /\ twice = FALSE /\ repeated = FALSE /\ late = FALSE

Event == events > 0 /\ events' = events - 1
Send == requests > 0 /\ requests' = requests - 1
At(h, step) == req[h].pc = step
Become(h, r) == req' = [req EXCEPT ![h] = r]
Return(h) == Become(h, NoRequest)
Mutant_KeepLock(h) == iplock' = iplock
Unlock(h) == iplock' = IF iplock = h THEN None ELSE iplock
Fail(h) == Return(h) /\ Unlock(h)

-----------------------------------------------------------------------------
(* EC2 and the DB *)

(* Without AllowReassignment an address is assigned only when it is free.   *)
AssignStaticIP(n, a, ok) ==
  /\ ok = (nic[a] = None)
  /\ nic' = IF ok THEN [nic EXCEPT ![a] = n] ELSE nic

(* An interface that does not own the address is no error. *)
UnassignStaticIP(n, a) == nic' = IF nic[a] = n THEN [nic EXCEPT ![a] = None] ELSE nic

CreateServiceStaticIP(s, a, n, ok) ==
  /\ ok = (rec[a] = None)
  /\ rec' = IF ok THEN [rec EXCEPT ![a] = [svc |-> s, node |-> n, rev |-> 0]] ELSE rec

UpdateServiceStaticIP(old, a, n, ok) ==
  /\ ok = (rec[a] # None /\ rec[a].rev = old.rev)
  /\ rec' = IF ok THEN [rec EXCEPT ![a] = [old EXCEPT !.node = n, !.rev = @ + 1]] ELSE rec

(* Whoever has the address by now. *)
DeleteServiceStaticIP(a) == rec' = [rec EXCEPT ![a] = None]

-----------------------------------------------------------------------------
(* Requests that create members *)

(* Create and delete of one service do not overlap (server.go:1264). *)
Free(h, s, ops) ==
  At(h, "idle") /\ \A g \in Handlers : req[g].s = s => req[g].op \in ops
Begin(h, op, s, n) ==
  /\ Send /\ Free(h, s, {"create", "scale"})
  /\ Become(h, [NoRequest EXCEPT !.op = op, !.s = s, !.pc = "list", !.n = n,
                                 !.from = replicas[s]])
  /\ UNCHANGED <<nic, db, ready, iplock, drv, events, history>>
CreateService(h, s) == status[s] = "creating" /\ Begin(h, "create", s, Replicas)
ScaleService(h, s) ==
  /\ status[s] = "created"
  /\ \E n \in Indexes : n > replicas[s] /\ Begin(h, "scale", s, n)

ListServiceMembers(h) ==
  /\ At(h, "list")
  /\ Become(h, [req[h] EXCEPT !.pc = "lock", !.known = members[req[h].s]])
  /\ UNCHANGED <<nic, db, ready, iplock, drv, events, requests, history>>

LockIPs(h) ==
  /\ At(h, "lock") /\ iplock = None /\ iplock' = h
  /\ Become(h, [req[h] EXCEPT !.pc = "read", !.nodes = Nodes])
  /\ UNCHANGED <<nic, db, ready, drv, events, requests, history>>

(* One call for each instance: an address that moves meanwhile may be seen  *)
(* at two of them, or at none.                                              *)
AddressesOf(n) == {n} \X {a \in IPs : nic[a] = n}
GetNetworkInterfaces(h) ==
  /\ At(h, "read")
  /\ \E n \in req[h].nodes :
       Become(h, [req[h] EXCEPT !.nodes = @ \ {n},
                                !.seen = @ \cup AddressesOf(n),
                                !.todo = @ \cup AddressesOf(n),
                                !.pc = IF req[h].nodes = {n} THEN "claim" ELSE @])
  /\ UNCHANGED <<nic, db, ready, iplock, drv, events, requests, history>>

(* An address without a record is claimed, as "the node could crash at any  *)
(* time, some ip may already be created"; one with a record of the service  *)
(* is free unless a member that was listed has it.  Only the holder of the  *)
(* lock creates records: reading and creating one is one step.              *)
Mutant_NoneKnown(r, a) == FALSE
Known(r, a) == \E i \in Indexes : r.known[i] = a
getUnassignedIPs(h) ==
  LET r == req[h] IN
  /\ At(h, "claim")
  /\ \E t \in r.todo :
       LET a == t[2]
           ours == ~Known(r, a) /\ (rec[a] = None \/ rec[a].svc = r.s) IN
       /\ Become(h, [r EXCEPT !.todo = @ \ {t}, !.free = IF ours THEN Append(@, a) ELSE @])
       /\ IF ours /\ rec[a] = None THEN CreateServiceStaticIP(r.s, a, t[1], TRUE)
                                   ELSE rec' = rec
       /\ twice' = (twice \/ (ours /\ \E k \in DOMAIN r.free : r.free[k] = a))
  /\ UNCHANGED <<nic, members, status, replicas, ready, iplock, drv, events, requests, repeated,
                 late>>

(* The lock is released when there are enough. *)
Listed(r) == Cardinality(Present(r.known))
Enough(r) == Len(r.free) + Listed(r) >= r.n
Continue(h, r) ==
  IF Enough(r) THEN /\ Become(h, [r EXCEPT !.pc = "member", !.i = Listed(r) + 1, !.seen = {},
                                           !.at = None, !.last = 0, !.tries = 0,
                                           !.free = SubSeq(@, 1, r.n - Listed(r))])
                    /\ iplock' = None
               ELSE /\ Become(h, [r EXCEPT !.pc = "assign", !.at = None, !.tries = 0, !.i = @ + 1])
                    /\ iplock' = iplock
ClaimedAll(h) ==
  /\ At(h, "claim") /\ req[h].todo = {}
  /\ Continue(h, req[h])
  /\ UNCHANGED <<nic, db, ready, drv, events, requests, history>>

(* The next address after the last one that was on no interface, assigned   *)
(* to the interfaces in turn, those with few addresses first (i counts the  *)
(* addresses of this request).  AWS may have given it to somebody else by now, and   *)
(* the answer of a call that worked may be lost: then the next one.         *)
Used(r) == {t[2] : t \in r.seen}
GetNextIP(r) ==
  {a \in IPs \ Used(r) : a > r.last /\ \A b \in IPs \ Used(r) : b > r.last => a <= b}
NextInterfaces(r) ==
  LET Load(n) == Cardinality({t \in r.seen : t[1] = n})
      turn == (r.i - 1) % Cardinality(Nodes) IN
  {n \in Nodes : /\ Cardinality({m \in Nodes : Load(m) < Load(n)}) <= turn
                 /\ Cardinality({m \in Nodes : Load(m) <= Load(n)}) > turn}
TryNext(h, a) ==
  LET r == req[h] IN
  IF r.tries + 1 = MaxTries THEN Fail(h)
  ELSE Become(h, [r EXCEPT !.last = a, !.tries = @ + 1]) /\ iplock' = iplock
createNextIP(h) ==
  /\ At(h, "assign")
  /\ \E a \in GetNextIP(req[h]), n \in NextInterfaces(req[h]) :
       \/ /\ AssignStaticIP(n, a, TRUE)
          /\ Become(h, [req[h] EXCEPT !.pc = "record", !.at = n, !.last = a])
          /\ UNCHANGED <<iplock, events>>
       \/ /\ AssignStaticIP(n, a, FALSE) /\ TryNext(h, a)
          /\ events' = events
       \/ /\ Event
          /\ nic' = nic \/ AssignStaticIP(n, a, TRUE)
          /\ TryNext(h, a)
  /\ UNCHANGED <<db, ready, drv, requests, history>>
NoNextIP(h) ==
  /\ At(h, "assign") /\ GetNextIP(req[h]) = {}
  /\ Fail(h)
  /\ UNCHANGED <<nic, db, ready, drv, events, requests, history>>

RecordNextIP(h) ==
  /\ At(h, "record")
  /\ \E ok \in BOOLEAN :
       /\ CreateServiceStaticIP(req[h].s, req[h].last, req[h].at, ok)
       /\ IF ok THEN Continue(h, [req[h] EXCEPT !.free = Append(@, req[h].last)]) ELSE Fail(h)
  /\ UNCHANGED <<nic, members, status, replicas, ready, drv, events, requests, history>>

(* The DNS record, the config files and a new volume, then the record,      *)
(* which must not exist.                                                    *)
createServiceMember(h) ==
  LET r == req[h] IN
  /\ At(h, "member") /\ r.i <= r.n
  /\ IF members[r.s][r.i] = None
       THEN /\ members' = [members EXCEPT ![r.s][r.i] = Head(r.free)]
            /\ Become(h, [r EXCEPT !.i = @ + 1, !.free = Tail(@)])
       ELSE /\ members' = members
            /\ Return(h)
  /\ UNCHANGED <<nic, rec, status, replicas, ready, iplock, drv, events, requests, history>>

(* The volumes of all members, also of those that were there, are awaited:  *)
(* EBS has created one by now, or the wait times out.                       *)
Mutant_WaitForNew(h) ==
  /\ At(h, "member") /\ req[h].i > req[h].n
  /\ Become(h, [req[h] EXCEPT !.pc = "wait", !.known = NoMembers,
                                 !.i = Listed(req[h]) + 1])
  /\ UNCHANGED <<nic, db, ready, iplock, drv, events, requests, history>>
CreatedMembers(h) ==
  /\ At(h, "member") /\ req[h].i > req[h].n
  /\ Become(h, [req[h] EXCEPT !.pc = "wait", !.known = NoMembers, !.i = 1])
  /\ UNCHANGED <<nic, db, ready, iplock, drv, events, requests, history>>
WaitVolumeCreated(h) ==
  LET r == req[h] IN
  /\ At(h, "wait") /\ r.i <= r.n
  /\ \/ ready' = ready \cup {<<r.s, r.i>>} /\ Become(h, [r EXCEPT !.i = @ + 1])
     \/ <<r.s, r.i>> \notin ready /\ ready' = ready /\ Return(h)
  /\ UNCHANGED <<nic, db, iplock, drv, events, requests, history>>

(* The status, or the size of the service on the condition that its record  *)
(* is the one that was read.                                                *)
SetServiceCreated(h) ==
  LET r == req[h] IN
  /\ At(h, "wait") /\ r.i > r.n
  /\ status' = IF r.op = "create" /\ status[r.s] = "creating"
                 THEN [status EXCEPT ![r.s] = "created"] ELSE status
  /\ replicas' = IF r.op = "scale" /\ replicas[r.s] = r.from
                   THEN [replicas EXCEPT ![r.s] = r.n] ELSE replicas
  /\ Return(h)
  /\ UNCHANGED <<nic, rec, members, ready, iplock, drv, events, requests, history>>

-----------------------------------------------------------------------------
(* Deletion *)

(* StopService waits for the running containers at most: a driver may still *)
(* be mounting for one that was pending.                                    *)
DeleteService(h, s) ==
  /\ Send /\ Free(h, s, {}) /\ status[s] # "gone"
  /\ late' = (late \/ \E n \in Nodes : drv[n].s = s)
  /\ repeated' = (repeated \/ status[s] = "deleting")
  /\ status' = [status EXCEPT ![s] = "deleting"]
  /\ Become(h, [NoRequest EXCEPT !.op = "delete", !.s = s, !.pc = "ips",
                                 !.known = members[s]])
  /\ UNCHANGED <<nic, rec, members, replicas, ready, iplock, drv, events, twice>>

(* First the records of the addresses, which stay on their interfaces, then *)
(* those of the members that were listed, which nobody changes meanwhile.   *)
DeleteMemberIP(h) ==
  LET r == req[h] IN
  /\ At(h, "ips")
  /\ \E i \in Present(r.known) :
       /\ \A j \in Present(r.known) : i <= j
       /\ DeleteServiceStaticIP(r.known[i])
       /\ Become(h, [r EXCEPT !.known[i] = None])
  /\ UNCHANGED <<nic, members, status, replicas, ready, iplock, drv, events, requests, history>>
DeletedIPs(h) ==
  /\ At(h, "ips") /\ Present(req[h].known) = {}
  /\ Become(h, [req[h] EXCEPT !.pc = "members"])
  /\ UNCHANGED <<nic, db, ready, iplock, drv, events, requests, history>>
DeleteServiceMember(h) ==
  LET s == req[h].s IN
  /\ At(h, "members")
  /\ \E i \in Present(members[s]) :
       /\ \A j \in Present(members[s]) : i <= j
       /\ members' = [members EXCEPT ![s][i] = None]
  /\ UNCHANGED <<nic, rec, status, replicas, ready, iplock, req, drv, events, requests, history>>
DeleteServiceAttr(h) ==
  LET s == req[h].s IN
  /\ At(h, "members") /\ Present(members[s]) = {}
  /\ status' = [status EXCEPT ![s] = "gone"]
  /\ replicas' = [replicas EXCEPT ![s] = Replicas]
  /\ ready' = {m \in ready : m[1] # s}
  /\ Return(h)
  /\ UNCHANGED <<nic, rec, members, iplock, drv, events, requests, history>>

-----------------------------------------------------------------------------
(* UpdateStaticIP of a driver *)

Mounting(n, step) == drv[n].pc = step
DriverTo(n, d) == drv' = [drv EXCEPT ![n] = d]
DriverReturns(n) == DriverTo(n, NoMount)
manager == <<members, status, replicas, ready, iplock, req, requests>>

(* A container of a created service starts on n; the member of the node is  *)
(* settled (VolumeDriver).  The driver does not look at the status.         *)
MountMember(n, s) ==
  /\ Mounting(n, "idle") /\ status[s] \in {"created", "deleting"}
  /\ late' = (late \/ status[s] = "deleting")
  /\ Event
  /\ \E i \in Present(members[s]) :
       DriverTo(n, [NoMount EXCEPT !.pc = "check", !.s = s, !.ip = members[s][i],
                                   !.todo = {a \in IPs : nic[a] = n}])
  /\ UNCHANGED <<manager, nic, rec, twice, repeated>>

(* Each address of the local interface: one of another member is dropped.   *)
CheckLocalIP(n) ==
  LET d == drv[n] IN
  /\ Mounting(n, "check")
  /\ \E a \in d.todo : (\A b \in d.todo : a <= b) /\
       IF rec[a] = None \/ rec[a].svc # d.s THEN DriverTo(n, [d EXCEPT !.todo = @ \ {a}])
       ELSE IF a = d.ip THEN DriverTo(n, [d EXCEPT !.todo = @ \ {a}, !.old = rec[a]])
       ELSE DriverTo(n, [d EXCEPT !.todo = @ \ {a}, !.pc = "drop", !.drop = a])
  /\ UNCHANGED <<manager, nic, rec, events, history>>
DropDanglingIP(n) ==
  /\ Mounting(n, "drop")
  /\ UnassignStaticIP(n, drv[n].drop)
  /\ DriverTo(n, [drv[n] EXCEPT !.pc = "check", !.drop = None])
  /\ UNCHANGED <<manager, rec, events, history>>

(* The address is at this node: only its record may have to follow.  No     *)
(* record is an error, like those of DriverFails.                           *)
CheckedLocalIPs(n) ==
  LET d == drv[n] IN
  /\ Mounting(n, "check") /\ d.todo = {}
  /\ \/ d.old # None /\ d.old.node = n /\ DriverReturns(n)
     \/ d.old # None /\ d.old.node # n /\ DriverTo(n, [d EXCEPT !.pc = "update"])
     \/ d.old = None /\ rec[d.ip] # None
          /\ DriverTo(n, [d EXCEPT !.pc = "unassign", !.old = rec[d.ip]])
  /\ UNCHANGED <<manager, nic, rec, events, history>>

UnassignOldOwner(n) ==
  /\ Mounting(n, "unassign")
  /\ UnassignStaticIP(drv[n].old.node, drv[n].ip)
  /\ DriverTo(n, [drv[n] EXCEPT !.pc = "assign"])
  /\ UNCHANGED <<manager, rec, events, history>>
AssignLocal(n) ==
  /\ Mounting(n, "assign")
  /\ \E ok \in BOOLEAN :
       /\ AssignStaticIP(n, drv[n].ip, ok)
       /\ IF ok THEN DriverTo(n, [drv[n] EXCEPT !.pc = "update"]) ELSE DriverReturns(n)
  /\ UNCHANGED <<manager, rec, events, history>>
UpdateRecord(n) ==
  /\ Mounting(n, "update")
  /\ \E ok \in BOOLEAN : UpdateServiceStaticIP(drv[n].old, drv[n].ip, n, ok)
  /\ DriverReturns(n)
  /\ UNCHANGED <<manager, nic, events, history>>

-----------------------------------------------------------------------------
(* Failures *)

(* Any call fails, or its answer is lost: then the next step fails.  The    *)
(* handler returns and releases its lock, a driver returns.                 *)
RequestFails(h) ==
  /\ ~At(h, "idle") /\ Event
  /\ Fail(h)
  /\ UNCHANGED <<nic, db, ready, drv, requests, history>>
DriverFails(n) ==
  /\ ~Mounting(n, "idle")
  /\ DriverReturns(n)
  /\ UNCHANGED <<manager, nic, rec, events, history>>

(* The manage server dies: its requests and its lock are gone. *)
Crash ==
  /\ Event
  /\ \E h \in Handlers : ~At(h, "idle")
  /\ req' = [h \in Handlers |-> NoRequest] /\ iplock' = None
  /\ UNCHANGED <<nic, db, ready, drv, requests, history>>

Request(h) ==
  \/ ListServiceMembers(h) \/ LockIPs(h) \/ GetNetworkInterfaces(h) \/ getUnassignedIPs(h)
  \/ ClaimedAll(h) \/ createNextIP(h) \/ NoNextIP(h) \/ RecordNextIP(h)
  \/ createServiceMember(h) \/ CreatedMembers(h) \/ WaitVolumeCreated(h)
  \/ SetServiceCreated(h)
  \/ DeleteMemberIP(h) \/ DeletedIPs(h) \/ DeleteServiceMember(h) \/ DeleteServiceAttr(h)
Driver(n) ==
  \/ CheckLocalIP(n) \/ DropDanglingIP(n) \/ CheckedLocalIPs(n)
  \/ UnassignOldOwner(n) \/ AssignLocal(n) \/ UpdateRecord(n)

Next ==
  \/ \E h \in Handlers :
       \/ Request(h) \/ RequestFails(h)
       \/ \E s \in Services : CreateService(h, s) \/ ScaleService(h, s) \/ DeleteService(h, s)
  \/ \E n \in Nodes : Driver(n) \/ DriverFails(n) \/ \E s \in Services : MountMember(n, s)
  \/ Crash

Spec == Init /\ [][Next]_vars

-----------------------------------------------------------------------------
(* Properties *)

Live(s) == status[s] \in {"creating", "created"}

(* "FireCamp will automatically assign one static ip to each Consul         *)
(* container" (catalog/consul/README.md): while addresses move, creations   *)
(* fail and overlap, and other services are deleted, the address of a       *)
(* member is recorded for its service and no other member has it.  Not so   *)
(* in three cases.  A deletion that is repeated deletes records by address  *)
(* only, whoever has claimed them since.  An address may be claimed at each *)
(* of two interfaces: a driver moved it between the reads, and its record   *)
(* was deleted before the claims.  And a driver that still mounts for a     *)
(* service that is deleted may update the record it has read after another  *)
(* service has claimed the address: DynamoDB compares revisions, which      *)
(* start at 0 again, and the address is the deleted service's once more.    *)
Excepted == repeated \/ twice \/ late
MembersOwnTheirIPs ==
  ~Excepted => \A s \in Services : Live(s) =>
    \A i \in Present(members[s]) :
       /\ rec[members[s][i]] # None /\ rec[members[s][i]].svc = s
       /\ \A j \in Indexes \ {i} : members[s][j] # members[s][i]

(* A service that counts as created, or as scaled, has all its members, and *)
(* the volumes of all of them exist, whichever request made which.          *)
CreatedIsReady ==
  \A s \in Services : status[s] = "created" =>
    \A i \in 1..replicas[s] : members[s][i] # None /\ <<s, i>> \in ready
=============================================================================
