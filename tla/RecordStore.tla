---------------------------- MODULE RecordStore ----------------------------
(***************************************************************************)
(* The control DB: the three implementations of the DB interface of db.go, *)
(* in DynamoDB (awsdynamodb/), in K8s config maps (k8sconfigdb/) and in    *)
(* memory (memdb.go), and the start of the clients on them.                *)
(*                                                                         *)
(* A behaviour follows the records of one table on one backend; every call *)
(* is one atomic request to the backend, except a list, which is one       *)
(* request per page.  A record is abstracted to what it was created for    *)
(* (owner), its revision and the changes that were written into it.        *)
(***************************************************************************)
EXTENDS Naturals, FiniteSets

CONSTANTS Backends,   \* subset of {"dynamodb", "k8s", "mem"}
          Tables,     \* subset of {"device", "service", "attr", "member", "file", "ip"}
          Clients,    \* manage server and plugins
          Keys,       \* keys of the table, numbered in their order
          PageSize,   \* records per page of a list
          MaxWrites,  \* bound: creations, updates and deletions
          None

ASSUME KeysAssumption == Keys \subseteq Nat \ {0} /\ None \notin Nat
ASSUME PageAssumption == PageSize \in Nat \ {0} /\ MaxWrites \in Nat

VARIABLES backend, table,
          status,   \* the DynamoDB table: "none", "CREATING" or "ACTIVE"
          phase,    \* phase[c]: the start of client c
          db,       \* db[k]: the record under k
          gone,     \* keys deleted so far
          view,     \* view[c]: the record client c read last
          acked,    \* acked[k]: clients told that their update of k is done
          list,     \* list[c]: the list client c is reading
          writes    \* number of writes so far

vars == <<backend, table, status, phase, db, gone, view, acked, list, writes>>

Records == [owner : Nat, rev : Nat, changes : SUBSET Clients]
ASSUME RecordsAssumption == None \notin Records
Views == [key : Keys \cup {None}, rec : Records \cup {None}]
NoView == [key |-> None, rec |-> None]
(* always and ever are history: the keys present during the whole list, and *)
(* the keys present at some time of it.                                     *)
Lists == [pc : {"off", "next", "done"}, token : Nat, got : SUBSET Keys, snap : SUBSET Keys,
          always : SUBSET Keys, ever : SUBSET Keys]
NoList == [pc |-> "off", token |-> 0, got |-> {}, snap |-> {}, always |-> {}, ever |-> {}]

(* Every variable holds a value of its kind. *)
TypeOK ==
  /\ backend \in Backends /\ table \in Tables /\ status \in {"none", "CREATING", "ACTIVE"}
  /\ phase \in [Clients -> {"check", "create", "wait", "up"}]
  /\ db \in [Keys -> Records \cup {None}] /\ gone \subseteq Keys
  /\ view \in [Clients -> Views] /\ acked \in [Keys -> SUBSET Clients]
  /\ list \in [Clients -> Lists] /\ writes \in 0 .. MaxWrites

Init ==
  /\ backend \in Backends /\ table \in Tables
  /\ status = "none"
  /\ phase = [c \in Clients |-> IF backend = "dynamodb" THEN "check" ELSE "up"]
  /\ db = [k \in Keys |-> None] /\ gone = {}
  /\ view = [c \in Clients |-> NoView] /\ acked = [k \in Keys |-> {}]
  /\ list = [c \in Clients |-> NoList] /\ writes = 0

-----------------------------------------------------------------------------
(* main of the manage server: only ErrDBResourceNotFound is no fatal error. *)
Mutant_NotFoundIsFatal(c) == phase[c] = "check" /\ status # "none"
                             /\ phase' = [phase EXCEPT ![c] = IF status = "ACTIVE" THEN "up" ELSE "create"]
                             /\ UNCHANGED <<backend, table, status, db, gone, view, acked, list, writes>>
CheckTables(c) ==
  /\ phase[c] = "check"
  /\ phase' = [phase EXCEPT ![c] = IF status = "ACTIVE" THEN "up" ELSE "create"]
  /\ UNCHANGED <<backend, table, status, db, gone, view, acked, list, writes>>

(* TableInUseException, the table of another starter, is a success. *)
CreateSystemTables(c) ==
  /\ phase[c] = "create"
  /\ status' = IF status = "none" THEN "CREATING" ELSE status
  /\ phase' = [phase EXCEPT ![c] = "wait"]
  /\ UNCHANGED <<backend, table, db, gone, view, acked, list, writes>>

TableBecomesActive ==
  /\ status = "CREATING" /\ status' = "ACTIVE"
  /\ UNCHANGED <<backend, table, phase, db, gone, view, acked, list, writes>>

(* The polling ends; after a timeout the process dies and starts again. *)
waitSystemTablesReady(c) ==
  /\ phase[c] = "wait"
  /\ phase' = [phase EXCEPT ![c] = IF status = "ACTIVE" THEN "up" ELSE "check"]
  /\ UNCHANGED <<backend, table, status, db, gone, view, acked, list, writes>>

-----------------------------------------------------------------------------
Present(d) == {k \in Keys : d[k] # None}

(* One write: the new content, and what the lists in progress see of it. *)
Write(d) ==
  /\ writes < MaxWrites /\ writes' = writes + 1
  /\ db' = d
  /\ list' = [c \in Clients |-> IF list[c].pc # "next" THEN list[c]
                ELSE [list[c] EXCEPT !.always = @ \cap Present(d), !.ever = @ \cup Present(d)]]

(* The keys of service attributes and members contain the uuid of the       *)
(* service, which is never used again.                                      *)
Reusable == table \notin {"attr", "member"}

(* attribute_not_exists, AlreadyExists or the test of the map.  A refused   *)
(* call changes nothing.                                                    *)
Create(c, k) ==
  /\ db[k] = None /\ (k \in gone => Reusable)
  /\ Write([db EXCEPT ![k] = [owner |-> writes, rev |-> 0, changes |-> {}]])
  /\ UNCHANGED <<backend, table, status, phase, gone, view, acked>>

(* ConsistentRead on DynamoDB. *)
Get(c, k) ==
  /\ db[k] # None
  /\ view' = [view EXCEPT ![c] = [key |-> k, rec |-> db[k]]]
  /\ UNCHANGED <<backend, table, status, phase, db, gone, acked, list, writes>>

Delete(c, k) ==
  /\ db[k] # None
  /\ Write([db EXCEPT ![k] = None])
  /\ gone' = gone \cup {k} /\ acked' = [acked EXCEPT ![k] = {}]
  /\ UNCHANGED <<backend, table, status, phase, view>>

(* The condition of an update: the revision on DynamoDB, the whole record   *)
(* in memory; a config map, and a service attribute in memory, only has to  *)
(* exist.                                                                   *)
Mutant_AnyRevision(old, cur) == cur # None
EqualRevision(old, cur) == cur # None /\ cur.rev = old.rev
EqualRecord(old, cur) == cur = old
ConfigMapExists(old, cur) == cur # None
AttrExists(old, cur) == cur # None
Matches(old, cur) ==
  \/ backend = "dynamodb" /\ EqualRevision(old, cur)
  \/ backend = "k8s" /\ ConfigMapExists(old, cur)
  \/ backend = "mem" /\ table = "attr" /\ AttrExists(old, cur)
  \/ backend = "mem" /\ table # "attr" /\ EqualRecord(old, cur)

(* What the callers make of the record they read (db/utils.go). *)
Mutant_OldRevision(c, old) == [old EXCEPT !.rev = @ - 1, !.changes = @ \cup {c}]
Changed(c, old) ==
  [owner |-> old.owner, rev |-> old.rev + 1, changes |-> old.changes \cup {c}]

(* The answer of a successful update may be lost. *)
Update(c) ==
  /\ view[c] # NoView /\ list[c].pc = "off"
  /\ LET k == view[c].key
         old == view[c].rec
     IN IF Matches(old, db[k])
        THEN /\ Write([db EXCEPT ![k] = Changed(c, old)])
             /\ acked' \in {acked, [acked EXCEPT ![k] = @ \cup {c}]}
        ELSE UNCHANGED <<db, list, writes, acked>>
  /\ view' = [view EXCEPT ![c] = NoView]
  /\ UNCHANGED <<backend, table, status, phase, gone>>

(* A list: DynamoDB and K8s return pages in the order of the keys, K8s all  *)
(* of them from the state of the first one, memory returns everything.      *)
StartList(c) ==
  /\ list[c].pc = "off" /\ view[c] = NoView
  /\ list' = [list EXCEPT ![c] = [NoList EXCEPT !.pc = "next", !.snap = Present(db),
                                                !.always = Present(db), !.ever = Present(db)]]
  /\ UNCHANGED <<backend, table, status, phase, db, gone, view, acked, writes>>

FirstKeys(S, n) == {k \in S : Cardinality({j \in S : j <= k}) <= n}
LastKey(S) == CHOOSE k \in S : \A j \in S : j <= k
Rest(l) == {k \in (IF backend = "k8s" THEN l.snap ELSE Present(db)) : k > l.token}
Mutant_StopAtFullPage(c, page, rest) == [list EXCEPT ![c].got = @ \cup page, ![c].pc = "done"]
NextPage(c, page, rest) ==
  [list EXCEPT ![c].got = @ \cup page,
               ![c].token = IF page = {} THEN @ ELSE LastKey(page),
               ![c].pc = IF page = rest THEN "done" ELSE "next"]
(* The caller has used the list. *)
EndList(c) ==
  /\ list[c].pc = "done"
  /\ list' = [list EXCEPT ![c] = NoList]
  /\ UNCHANGED <<backend, table, status, phase, db, gone, view, acked, writes>>
ListPage(c) ==
  /\ list[c].pc = "next"
  /\ LET rest == Rest(list[c])
         page == IF backend = "mem" THEN rest ELSE FirstKeys(rest, PageSize)
     IN list' = NextPage(c, page, rest)
  /\ UNCHANGED <<backend, table, status, phase, db, gone, view, acked, writes>>

-----------------------------------------------------------------------------
On(c, b, t) == backend = b /\ table = t /\ phase[c] = "up"
(* A client makes one call at a time. *)
KeyOps(c) == list[c].pc = "off" /\ \E k \in Keys : Create(c, k) \/ Get(c, k) \/ Delete(c, k)
ListOps(c) == StartList(c) \/ ListPage(c) \/ EndList(c)

DynamoDevice(c) == On(c, "dynamodb", "device") /\ (KeyOps(c) \/ ListOps(c))
DynamoService(c) == On(c, "dynamodb", "service") /\ (KeyOps(c) \/ ListOps(c))
DynamoServiceAttr(c) == On(c, "dynamodb", "attr") /\ (KeyOps(c) \/ Update(c))
DynamoServiceMember(c) == On(c, "dynamodb", "member") /\ (KeyOps(c) \/ Update(c) \/ ListOps(c))
DynamoConfigFile(c) == On(c, "dynamodb", "file") /\ KeyOps(c)
DynamoStaticIP(c) == On(c, "dynamodb", "ip") /\ (KeyOps(c) \/ Update(c))

K8sDevice(c) == On(c, "k8s", "device") /\ (KeyOps(c) \/ ListOps(c))
K8sService(c) == On(c, "k8s", "service") /\ (KeyOps(c) \/ ListOps(c))
K8sServiceAttr(c) == On(c, "k8s", "attr") /\ (KeyOps(c) \/ Update(c))
K8sServiceMember(c) == On(c, "k8s", "member") /\ (KeyOps(c) \/ Update(c) \/ ListOps(c))
K8sConfigFile(c) == On(c, "k8s", "file") /\ KeyOps(c)
K8sStaticIP(c) == On(c, "k8s", "ip") /\ (KeyOps(c) \/ Update(c))

MemDevice(c) == On(c, "mem", "device") /\ (KeyOps(c) \/ ListOps(c))
MemService(c) == On(c, "mem", "service") /\ (KeyOps(c) \/ ListOps(c))
MemServiceAttr(c) == On(c, "mem", "attr") /\ (KeyOps(c) \/ Update(c))
MemServiceMember(c) == On(c, "mem", "member") /\ (KeyOps(c) \/ Update(c) \/ ListOps(c))
MemConfigFile(c) == On(c, "mem", "file") /\ KeyOps(c)
MemStaticIP(c) == On(c, "mem", "ip") /\ (KeyOps(c) \/ Update(c))

Starting(c) == CheckTables(c) \/ CreateSystemTables(c) \/ waitSystemTablesReady(c)
Next ==
  \/ TableBecomesActive
  \/ \E c \in Clients :
       \/ Starting(c)
       \/ DynamoDevice(c) \/ DynamoService(c) \/ DynamoServiceAttr(c)
       \/ DynamoServiceMember(c) \/ DynamoConfigFile(c) \/ DynamoStaticIP(c)
       \/ K8sDevice(c) \/ K8sService(c) \/ K8sServiceAttr(c)
       \/ K8sServiceMember(c) \/ K8sConfigFile(c) \/ K8sStaticIP(c)
       \/ MemDevice(c) \/ MemService(c) \/ MemServiceAttr(c)
       \/ MemServiceMember(c) \/ MemConfigFile(c) \/ MemStaticIP(c)

Spec == Init /\ [][Next]_vars
(* A starting process goes on, and DynamoDB creates the table. *)
FairSpec == Spec /\ WF_vars(TableBecomesActive) /\ \A c \in Clients : WF_vars(Starting(c))
-----------------------------------------------------------------------------
(* Where the promise of db.go holds: not for the updates of the config      *)
(* maps, which are unconditional, nor for service attributes in memory; and *)
(* not for a static ip in DynamoDB, whose key and revision 0 come back when *)
(* the ip is given to another service.                                      *)
Conforming == CASE backend = "dynamodb" -> table # "ip"
                [] backend = "k8s" -> table \notin {"attr", "member", "ip"}
                [] OTHER -> table # "attr"

Abstract == INSTANCE ConditionalRecords WITH
              rec <- IF Conforming THEN db ELSE [k \in Keys |-> None]
(* There the records go through creations, updates from the revision before *)
(* and deletions only, whatever the clients read earlier.                   *)
KeepsPromise == Abstract!Spec

(* An update whose caller was told that it is done is in the record until   *)
(* the record is deleted, although the callers overlap and each writes the  *)
(* whole record it read before.                                             *)
AckedUpdatesKept ==
  Conforming => \A k \in Keys : db[k] # None => acked[k] \subseteq db[k].changes

(* A list over several pages returns every record that was there the whole  *)
(* time and none that was there at no time, whatever is created and deleted *)
(* between the pages (LastEvaluatedKey, Continue).                          *)
ListComplete ==
  \A c \in Clients : list[c].pc = "done" =>
     list[c].always \subseteq list[c].got /\ list[c].got \subseteq list[c].ever

(* Every client comes up on a DB that has no table yet. *)
ClientsStart == \A c \in Clients : <>(phase[c] = "up")
=============================================================================
