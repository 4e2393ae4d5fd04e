------------------------- MODULE RecordStoreProofs -------------------------
(***************************************************************************)
(* The store keeps the promise of db.go, and with it every acknowledged    *)
(* update, wherever Conforming says that it does, and a list is complete,  *)
(* for any number of clients, keys and writes and any size of the pages.   *)
(*                                                                         *)
(* The heart of the argument is what a client may conclude from the record *)
(* it has read (ViewsAreOld).  In memory the whole record is compared, and *)
(* nothing needs to be known.  DynamoDB compares the revision alone: that  *)
(* the record of that revision is still the one that was read holds since  *)
(* the revision only grows and the keys of the tables that are updated are *)
(* not used again after a deletion (DeletedForGood).                       *)
(***************************************************************************)
EXTENDS RecordStore, FiniteSetTheorems, WellFoundedInduction, TLAPS

(* The records, what was read of them and what was acknowledged are of      *)
(* their kinds; a record that is not there has no acknowledged update.      *)
RecordsOK ==
  /\ db \in [Keys -> Records \cup {None}]
  /\ view \in [Clients -> Views]
  /\ \A c \in Clients : view[c] = NoView \/ (view[c].key \in Keys /\ view[c].rec \in Records)
  /\ acked \in [Keys -> SUBSET Clients]
  /\ gone \subseteq Keys
  /\ writes \in Nat
NothingAckedBefore == \A k \in Keys : db[k] = None => acked[k] = {}

(* A key that contains a uuid stays empty once its record was deleted. *)
DeletedForGood == ~Reusable => \A k \in gone : db[k] = None

(* A record that was read is the stored one or one of a smaller revision,   *)
(* unless it was deleted.                                                   *)
Older(r, k) == db[k] # None /\ r.rev <= db[k].rev /\ (r.rev = db[k].rev => r = db[k])
ViewsAreOld ==
  (backend = "dynamodb" /\ ~Reusable) =>
    \A c \in Clients : view[c] # NoView =>
       view[c].key \in gone \/ Older(view[c].rec, view[c].key)

StoreInv == RecordsOK /\ NothingAckedBefore /\ DeletedForGood /\ ViewsAreOld
            /\ AckedUpdatesKept

-----------------------------------------------------------------------------
(* Next, by what it does to the records. *)

Untouched == UNCHANGED <<backend, table, db, gone, view, acked>> /\ writes' = writes
Updatable == table \in {"attr", "member", "ip"} /\ backend \in {"dynamodb", "k8s", "mem"}

(* The calls of each backend on each table, by kind. *)
LEMMA NextKinds ==
  ASSUME [Next]_vars
  PROVE  \/ UNCHANGED vars \/ TableBecomesActive
         \/ \E c \in Clients : \/ Starting(c) \/ KeyOps(c) \/ ListOps(c)
                               \/ Updatable /\ Update(c)
<1>1. ASSUME NEW c \in Clients,
             \/ DynamoDevice(c) \/ DynamoService(c) \/ DynamoServiceAttr(c)
             \/ DynamoServiceMember(c) \/ DynamoConfigFile(c) \/ DynamoStaticIP(c)
      PROVE  KeyOps(c) \/ ListOps(c) \/ (Updatable /\ Update(c))
  BY <1>1 DEF DynamoDevice, DynamoService, DynamoServiceAttr, DynamoServiceMember,
              DynamoConfigFile, DynamoStaticIP, On, Updatable
<1>2. ASSUME NEW c \in Clients,
             \/ K8sDevice(c) \/ K8sService(c) \/ K8sServiceAttr(c)
             \/ K8sServiceMember(c) \/ K8sConfigFile(c) \/ K8sStaticIP(c)
      PROVE  KeyOps(c) \/ ListOps(c) \/ (Updatable /\ Update(c))
  BY <1>2 DEF K8sDevice, K8sService, K8sServiceAttr, K8sServiceMember,
              K8sConfigFile, K8sStaticIP, On, Updatable
<1>3. ASSUME NEW c \in Clients,
             \/ MemDevice(c) \/ MemService(c) \/ MemServiceAttr(c)
             \/ MemServiceMember(c) \/ MemConfigFile(c) \/ MemStaticIP(c)
      PROVE  KeyOps(c) \/ ListOps(c) \/ (Updatable /\ Update(c))
  BY <1>3 DEF MemDevice, MemService, MemServiceAttr, MemServiceMember,
              MemConfigFile, MemStaticIP, On, Updatable
<1> QED BY <1>1, <1>2, <1>3 DEF Next

(* Every step reads, creates or deletes one record, updates one that can be *)
(* updated, or leaves the records alone.                                    *)
LEMMA StepKinds ==
  ASSUME [Next]_vars
  PROVE  \/ Untouched
         \/ \E c \in Clients, k \in Keys : Create(c, k) \/ Get(c, k) \/ Delete(c, k)
         \/ Updatable /\ \E c \in Clients : Update(c)
<1>1. CASE UNCHANGED vars
  BY <1>1 DEF vars, Untouched
<1>2. CASE TableBecomesActive
  BY <1>2 DEF TableBecomesActive, Untouched
<1>3. ASSUME NEW c \in Clients, Starting(c) PROVE Untouched
  BY <1>3 DEF Starting, CheckTables, CreateSystemTables, waitSystemTablesReady, Untouched
<1>4. ASSUME NEW c \in Clients, ListOps(c) PROVE Untouched
  BY <1>4 DEF ListOps, StartList, ListPage, EndList, Untouched
<1>5. ASSUME NEW c \in Clients, KeyOps(c)
      PROVE  \E d \in Clients, k \in Keys : Create(d, k) \/ Get(d, k) \/ Delete(d, k)
  BY <1>5 DEF KeyOps
<1> QED BY <1>1, <1>2, <1>3, <1>4, <1>5, NextKinds

(* The backend and the table of a behaviour stay the same. *)
LEMMA TableFixed ==
  ASSUME [Next]_vars
  PROVE  /\ backend' = backend /\ table' = table
         /\ Conforming' = Conforming /\ Reusable' = Reusable
<1>1. backend' = backend /\ table' = table
  BY StepKinds DEF Untouched, Create, Get, Delete, Update
<1> QED BY <1>1 DEF Conforming, Reusable

-----------------------------------------------------------------------------
(* An update whose condition held, where the promise holds, found the       *)
(* record it had read.                                                      *)
LEMMA UpdatesWhatWasRead ==
  ASSUME StoreInv, NEW c \in Clients, Updatable, Conforming,
         view[c] # NoView, Matches(view[c].rec, db[view[c].key])
  PROVE  db[view[c].key] = view[c].rec
<1>1. CASE backend = "dynamodb"
  <2>1. ~Reusable
    BY <1>1 DEF Updatable, Conforming, Reusable
  <2>2. db[view[c].key] # None /\ db[view[c].key].rev = view[c].rec.rev
    BY <1>1 DEF Matches, EqualRevision
  <2>3. view[c].key \notin gone
    BY <2>1, <2>2 DEF StoreInv, DeletedForGood
  <2> QED BY <1>1, <2>1, <2>2, <2>3 DEF StoreInv, ViewsAreOld, Older
<1>2. CASE backend = "mem"
  BY <1>2 DEF Matches, Updatable, Conforming, EqualRecord
<1>3. CASE backend = "k8s"
  BY <1>3 DEF Updatable, Conforming
<1> QED BY <1>1, <1>2, <1>3 DEF Updatable

(* A record that is updated has the next revision and one more change. *)
LEMMA ChangedRecord ==
  ASSUME NEW r \in Records, NEW c \in Clients
  PROVE  /\ Changed(c, r) \in Records /\ Changed(c, r) # None
         /\ Changed(c, r).rev = r.rev + 1 /\ Changed(c, r).owner = r.owner
         /\ Changed(c, r).changes = r.changes \cup {c}
<1>1. r.owner \in Nat /\ r.rev \in Nat /\ r.changes \subseteq Clients
  BY DEF Records
<1>2. Changed(c, r) \in Records
  BY <1>1 DEF Records, Changed
<1> QED BY <1>2, RecordsAssumption DEF Changed

(* The key of a view is no key of a record only if nothing was read. *)
LEMMA ReadRecord ==
  ASSUME RecordsOK, NEW c \in Clients, view[c] # NoView
  PROVE  view[c].key \in Keys /\ view[c].rec \in Records
BY DEF RecordsOK

-----------------------------------------------------------------------------
(* The invariant is kept. *)

LEMMA InitStoreInv == Init => StoreInv
<1> SUFFICES ASSUME Init PROVE StoreInv
  OBVIOUS
<1>1. RecordsOK
  BY DEF Init, RecordsOK, Views, NoView
<1>2. NothingAckedBefore /\ DeletedForGood /\ ViewsAreOld /\ AckedUpdatesKept
  BY DEF Init, NothingAckedBefore, DeletedForGood, ViewsAreOld, AckedUpdatesKept
<1> QED BY <1>1, <1>2 DEF StoreInv

LEMMA UntouchedKeeps ==
  ASSUME StoreInv, Untouched PROVE StoreInv'
BY DEF StoreInv, Untouched, RecordsOK, NothingAckedBefore, DeletedForGood, ViewsAreOld,
       AckedUpdatesKept, Older, Reusable, Conforming, Views, NoView

LEMMA CreateKeeps ==
  ASSUME StoreInv, NEW c \in Clients, NEW k \in Keys, Create(c, k) PROVE StoreInv'
<1> DEFINE new == [owner |-> writes, rev |-> 0, changes |-> {}]
<1>1. db' = [db EXCEPT ![k] = new] /\ writes' = writes + 1 /\ db[k] = None
      /\ UNCHANGED <<backend, table, gone, view, acked>> /\ (k \in gone => Reusable)
  BY DEF Create, Write
<1>2. new \in Records /\ new # None
  BY RecordsAssumption DEF StoreInv, RecordsOK, Records
<1>3. RecordsOK'
  BY <1>1, <1>2 DEF StoreInv, RecordsOK, Views, NoView
<1>4. NothingAckedBefore'
  BY <1>1, <1>2 DEF StoreInv, RecordsOK, NothingAckedBefore
<1>5. DeletedForGood'
  BY <1>1 DEF StoreInv, RecordsOK, DeletedForGood, Reusable
<1>6. ViewsAreOld'
  <2> SUFFICES ASSUME backend = "dynamodb", ~Reusable, NEW d \in Clients, view[d] # NoView,
                      view[d].key \notin gone
               PROVE  Older(view[d].rec, view[d].key)'
    BY <1>1 DEF ViewsAreOld, Reusable
  <2>1. Older(view[d].rec, view[d].key)
    BY DEF StoreInv, ViewsAreOld
  <2>2. view[d].key # k
    BY <2>1, <1>1 DEF Older
  <2> QED BY <2>1, <2>2, <1>1, ReadRecord DEF StoreInv, RecordsOK, Older
<1>7. AckedUpdatesKept'
  BY <1>1, <1>2 DEF StoreInv, RecordsOK, NothingAckedBefore, AckedUpdatesKept, Conforming
<1> QED BY <1>3, <1>4, <1>5, <1>6, <1>7 DEF StoreInv

LEMMA GetKeeps ==
  ASSUME StoreInv, NEW c \in Clients, NEW k \in Keys, Get(c, k) PROVE StoreInv'
<1>1. view' = [view EXCEPT ![c] = [key |-> k, rec |-> db[k]]] /\ db[k] # None
      /\ UNCHANGED <<backend, table, db, gone, acked, writes>>
  BY DEF Get
<1>2. db[k] \in Records
  BY <1>1 DEF StoreInv, RecordsOK
<1>3. RecordsOK'
  <2>1. view' \in [Clients -> Views]
    BY <1>1, <1>2 DEF StoreInv, RecordsOK, Views
  <2>2. \A d \in Clients :
          view'[d] = NoView \/ (view'[d].key \in Keys /\ view'[d].rec \in Records)
    BY <1>1, <1>2 DEF StoreInv, RecordsOK
  <2> QED BY <1>1, <2>1, <2>2 DEF StoreInv, RecordsOK, NoView
<1>4. NothingAckedBefore' /\ DeletedForGood' /\ AckedUpdatesKept'
  BY <1>1 DEF StoreInv, NothingAckedBefore, DeletedForGood, AckedUpdatesKept, Reusable,
              Conforming
<1>5. ViewsAreOld'
  <2> SUFFICES ASSUME backend = "dynamodb", ~Reusable, NEW d \in Clients, view'[d] # NoView,
                      view'[d].key \notin gone
               PROVE  Older(view[d].rec, view[d].key)'
    BY <1>1 DEF ViewsAreOld, Reusable, NoView
  <2>1. CASE d = c
    <3>1. view'[c] = [key |-> k, rec |-> db[k]]
      BY <1>1 DEF StoreInv, RecordsOK
    <3>2. db[k].rev \in Nat
      BY <1>2 DEF Records
    <3> QED BY <2>1, <3>1, <3>2, <1>1 DEF Older
  <2>2. CASE d # c
    BY <2>2, <1>1 DEF StoreInv, RecordsOK, ViewsAreOld, Older
  <2> QED BY <2>1, <2>2
<1> QED BY <1>3, <1>4, <1>5 DEF StoreInv

LEMMA DeleteKeeps ==
  ASSUME StoreInv, NEW c \in Clients, NEW k \in Keys, Delete(c, k) PROVE StoreInv'
<1>1. db' = [db EXCEPT ![k] = None] /\ writes' = writes + 1
      /\ gone' = gone \cup {k} /\ acked' = [acked EXCEPT ![k] = {}]
      /\ UNCHANGED <<backend, table, view>>
  BY DEF Delete, Write
<1>2. RecordsOK'
  BY <1>1 DEF StoreInv, RecordsOK, Views, NoView
<1>3. NothingAckedBefore' /\ DeletedForGood'
  BY <1>1 DEF StoreInv, RecordsOK, NothingAckedBefore, DeletedForGood, Reusable
<1>4. AckedUpdatesKept'
  BY <1>1 DEF StoreInv, RecordsOK, AckedUpdatesKept, Conforming
<1>5. ViewsAreOld'
  <2> SUFFICES ASSUME backend = "dynamodb", ~Reusable, NEW d \in Clients, view[d] # NoView,
                      view[d].key \notin gone, view[d].key # k
               PROVE  Older(view[d].rec, view[d].key)'
    BY <1>1 DEF ViewsAreOld, Reusable
  <2> QED BY <1>1, ReadRecord DEF StoreInv, RecordsOK, ViewsAreOld, Older
<1> QED BY <1>2, <1>3, <1>4, <1>5 DEF StoreInv

LEMMA UpdateKeeps ==
  ASSUME StoreInv, NEW c \in Clients, Updatable, Update(c) PROVE StoreInv'
<1> DEFINE k == view[c].key
           old == view[c].rec
<1>1. view[c] # NoView /\ view' = [view EXCEPT ![c] = NoView]
      /\ UNCHANGED <<backend, table, gone>>
  BY DEF Update
<1>2. k \in Keys /\ old \in Records
  BY <1>1, ReadRecord DEF StoreInv
<1>3. \A d \in Clients : view'[d] # NoView => d # c /\ view'[d] = view[d]
  BY <1>1 DEF StoreInv, RecordsOK
<1>4. view' \in [Clients -> Views]
      /\ \A d \in Clients :
           view'[d] = NoView \/ (view'[d].key \in Keys /\ view'[d].rec \in Records)
  <2>1. NoView \in Views
    BY DEF NoView, Views
  <2> QED BY <2>1, <1>1, <1>3 DEF StoreInv, RecordsOK
<1>5. CASE Matches(old, db[k])
  <2>1. db' = [db EXCEPT ![k] = Changed(c, old)] /\ writes' = writes + 1
        /\ acked' \in {acked, [acked EXCEPT ![k] = @ \cup {c}]}
    BY <1>5 DEF Update, Write
  <2>2. Changed(c, old) \in Records /\ Changed(c, old) # None
        /\ Changed(c, old).rev = old.rev + 1
        /\ Changed(c, old).changes = old.changes \cup {c}
    BY <1>2, ChangedRecord
  <2>3. db[k] # None
    BY <1>2, <1>5, RecordsAssumption
       DEF Matches, EqualRevision, ConfigMapExists, AttrExists, EqualRecord
  <2>4. RecordsOK'
    BY <1>1, <1>2, <1>4, <2>1, <2>2 DEF StoreInv, RecordsOK, NoView
  <2>5. NothingAckedBefore'
    BY <1>2, <2>1, <2>2 DEF StoreInv, RecordsOK, NothingAckedBefore
  <2>6. DeletedForGood'
    BY <1>1, <1>2, <2>1, <2>3 DEF StoreInv, RecordsOK, DeletedForGood, Reusable
  <2>7. AckedUpdatesKept'
    <3> SUFFICES ASSUME Conforming, NEW j \in Keys, db'[j] # None
                 PROVE  acked'[j] \subseteq db'[j].changes
      BY <1>1 DEF AckedUpdatesKept, Conforming
    <3>1. CASE j = k
      <4>1. db[k] = old
        BY <1>1, <1>5, UpdatesWhatWasRead
      <4>2. acked[k] \subseteq old.changes
        BY <1>2, <2>3, <4>1 DEF StoreInv, AckedUpdatesKept
      <4> QED BY <1>2, <2>1, <2>2, <3>1, <4>2 DEF StoreInv, RecordsOK
    <3>2. CASE j # k
      BY <1>2, <2>1, <3>2 DEF StoreInv, RecordsOK, AckedUpdatesKept
    <3> QED BY <3>1, <3>2
  <2>8. ViewsAreOld'
    <3> SUFFICES ASSUME backend = "dynamodb", ~Reusable, NEW d \in Clients, view'[d] # NoView,
                        view'[d].key \notin gone
                 PROVE  Older(view[d].rec, view[d].key)'
      BY <1>1 DEF ViewsAreOld, Reusable, NoView
    <3>1. view'[d] = view[d] /\ view[d] # NoView /\ Older(view[d].rec, view[d].key)
      BY <1>3 DEF StoreInv, ViewsAreOld
    <3>2. view[d].key \in Keys /\ view[d].rec \in Records
      BY <3>1, ReadRecord DEF StoreInv
    <3>3. CASE view[d].key = k
      <4>1. db[k].rev = old.rev
        BY <1>5 DEF Matches, EqualRevision
      <4>2. db'[k] = Changed(c, old)
        BY <1>2, <2>1 DEF StoreInv, RecordsOK
      <4>3. view[d].rec.rev <= old.rev /\ view[d].rec.rev \in Nat /\ old.rev \in Nat
        BY <1>2, <3>1, <3>2, <3>3, <4>1 DEF Older, Records
      <4> QED BY <3>1, <3>3, <4>2, <4>3, <2>2 DEF Older
    <3>4. CASE view[d].key # k
      BY <1>2, <2>1, <3>1, <3>2, <3>4 DEF StoreInv, RecordsOK, Older
    <3> QED BY <3>3, <3>4
  <2> QED BY <2>4, <2>5, <2>6, <2>7, <2>8 DEF StoreInv
<1>6. CASE ~Matches(old, db[k])
  <2>1. UNCHANGED <<db, writes, acked>>
    BY <1>6 DEF Update
  <2>2. RecordsOK'
    BY <1>1, <1>4, <2>1 DEF StoreInv, RecordsOK, NoView
  <2>3. NothingAckedBefore' /\ DeletedForGood' /\ AckedUpdatesKept'
    BY <1>1, <2>1 DEF StoreInv, NothingAckedBefore, DeletedForGood, AckedUpdatesKept,
                      Reusable, Conforming
  <2>4. ViewsAreOld'
    BY <1>1, <1>3, <2>1 DEF StoreInv, ViewsAreOld, Older, Reusable, NoView
  <2> QED BY <2>2, <2>3, <2>4 DEF StoreInv
<1> QED BY <1>5, <1>6

LEMMA StepStoreInv == StoreInv /\ [Next]_vars => StoreInv'
BY StepKinds, UntouchedKeeps, CreateKeeps, GetKeeps, DeleteKeeps, UpdateKeeps

LEMMA StoreInvHolds == Spec => []StoreInv
BY InitStoreInv, StepStoreInv, PTL DEF Spec

-----------------------------------------------------------------------------
(* No update that the caller was told about is ever lost (db/db.go:37-50,   *)
(* dynamodb_servicemember.go:106): each of them is in the record until it   *)
(* is deleted, for the tables where the promise holds.                      *)
THEOREM UpdatesAreKept == Spec => []AckedUpdatesKept
<1>1. StoreInv => AckedUpdatesKept
  BY DEF StoreInv
<1> QED BY <1>1, StoreInvHolds, PTL

-----------------------------------------------------------------------------
(* The three stores implement the promise: every call creates, updates or   *)
(* deletes one record as ConditionalRecords allows, or changes none.        *)

Shown == IF Conforming THEN db ELSE [k \in Keys |-> None]

(* What a step may do to the records that are shown. *)
AllowedStep == Abstract!Next \/ Shown' = Shown

LEMMA OneRecord ==
  ASSUME StoreInv, NEW k \in Keys, NEW r \in Records \cup {None},
         Conforming, Conforming', db' = [db EXCEPT ![k] = r],
         \/ db[k] = None /\ r # None /\ r.rev = 0
         \/ db[k] # None /\ r = None
         \/ /\ db[k] # None /\ r # None /\ r.rev = db[k].rev + 1
            /\ r.owner = db[k].owner /\ db[k].changes \subseteq r.changes
  PROVE  Abstract!Next
<1>1. Shown = db /\ Shown' = db'
  BY DEF Shown
<1>2. db'[k] = r /\ db' = [db EXCEPT ![k] = db'[k]]
  BY DEF StoreInv, RecordsOK
<1> QED BY <1>1, <1>2 DEF Shown, Abstract!Next, Abstract!CreateIfNotExist,
             Abstract!UpdateIfMatch, Abstract!Delete, Abstract!Becomes

LEMMA StepAllowed ==
  ASSUME StoreInv, [Next]_vars PROVE AllowedStep
<1>0. Conforming' = Conforming
  BY TableFixed
<1>1. CASE ~Conforming
  BY <1>0, <1>1 DEF AllowedStep, Shown
<1>2. CASE Conforming
  <2>0. Conforming /\ Conforming'
    BY <1>0, <1>2
  <2>1. CASE UNCHANGED db
    BY <2>0, <2>1 DEF AllowedStep, Shown
  <2>2. ASSUME NEW c \in Clients, NEW k \in Keys, Create(c, k) PROVE Abstract!Next
    <3> DEFINE new == [owner |-> writes, rev |-> 0, changes |-> {}]
    <3>1. db' = [db EXCEPT ![k] = new] /\ db[k] = None
      BY <2>2 DEF Create, Write
    <3>2. new \in Records /\ new # None /\ new.rev = 0
      BY RecordsAssumption DEF StoreInv, RecordsOK, Records
    <3> HIDE DEF new
    <3> QED BY <2>0, <3>1, <3>2, OneRecord
  <2>3. ASSUME NEW c \in Clients, NEW k \in Keys, Delete(c, k) PROVE Abstract!Next
    BY <2>0, <2>3, OneRecord DEF Delete, Write
  <2>4. ASSUME NEW c \in Clients, Updatable, Update(c) PROVE AllowedStep
    <3> DEFINE k == view[c].key
               old == view[c].rec
    <3>1. CASE Matches(old, db[k])
      <4>1. view[c] # NoView /\ db' = [db EXCEPT ![k] = Changed(c, old)]
        BY <2>4, <3>1 DEF Update, Write
      <4>2. k \in Keys /\ old \in Records
        BY <4>1, ReadRecord DEF StoreInv
      <4>3. db[k] = old
        BY <2>4, <2>0, <3>1, <4>1, UpdatesWhatWasRead
      <4>4. old # None
        BY <4>2, RecordsAssumption
      <4>5. Changed(c, old) \in Records /\ Changed(c, old) # None
            /\ Changed(c, old).rev = old.rev + 1 /\ Changed(c, old).owner = old.owner
            /\ old.changes \subseteq Changed(c, old).changes
        BY <4>2, ChangedRecord
      <4> HIDE DEF k, old
      <4>6. Abstract!Next
        BY <2>0, <4>1, <4>2, <4>3, <4>4, <4>5, OneRecord
      <4> QED BY <4>6 DEF AllowedStep
    <3>2. CASE ~Matches(old, db[k])
      BY <2>4, <3>2, <2>1 DEF Update
    <3> QED BY <3>1, <3>2
  <2>5. ASSUME NEW c \in Clients, NEW k \in Keys, Get(c, k) PROVE AllowedStep
    BY <2>5, <2>1 DEF Get
  <2>6. CASE Untouched
    BY <2>6, <2>1 DEF Untouched
  <2> QED BY <2>2, <2>3, <2>4, <2>5, <2>6, StepKinds DEF AllowedStep
<1> QED BY <1>1, <1>2

(* DynamoDB, the config maps and the maps in memory implement "create if    *)
(* not exist" and "update if match" (db/db.go:37-50), each for the tables   *)
(* that Conforming names.                                                   *)
THEOREM StoreImplementsPromise == Spec => KeepsPromise
<1>1. Init => Abstract!Init
  BY DEF Init, Abstract!Init
<1>2. StoreInv /\ [Next]_vars => [Abstract!Next]_Shown
  BY StepAllowed DEF AllowedStep
<1> QED BY <1>1, <1>2, StoreInvHolds, PTL DEF Spec, KeepsPromise, Abstract!Spec, Shown

-----------------------------------------------------------------------------
(* Lists.  What a page may skip: nothing that is there from the start to    *)
(* the end of the list is between the token and the keys still to come.     *)

ListInv(l) ==
  /\ l.pc # "off" => l.got \subseteq l.ever
  /\ l.pc = "done" => l.always \subseteq l.got
  /\ l.pc = "next" =>
       /\ l.always \subseteq Present(db) /\ Present(db) \subseteq l.ever
       /\ l.always \subseteq l.snap /\ l.snap \subseteq l.ever
       /\ IsFiniteSet(l.snap)
       /\ \A k \in l.always : k <= l.token => k \in l.got

AllListsOK ==
  /\ list \in [Clients -> Lists]
  /\ IsFiniteSet(Present(db))
  /\ \A c \in Clients : ListInv(list[c])

KindsOK ==
  /\ backend \in Backends /\ table \in Tables /\ status \in {"none", "CREATING", "ACTIVE"}
  /\ phase \in [Clients -> {"check", "create", "wait", "up"}]
  /\ writes \in 0 .. MaxWrites

(* Next, by what it does to the lists. *)
LEMMA ListKinds ==
  ASSUME StoreInv, [Next]_vars
  PROVE  \/ UNCHANGED <<db, list>>
         \/ \E k \in Keys : \E r : Write([db EXCEPT ![k] = r])
         \/ UNCHANGED db /\ \E c \in Clients : StartList(c) \/ ListPage(c) \/ EndList(c)
<1>1. CASE UNCHANGED vars
  BY <1>1 DEF vars
<1>2. CASE TableBecomesActive
  BY <1>2 DEF TableBecomesActive
<1>3. ASSUME NEW c \in Clients, Starting(c) PROVE UNCHANGED <<db, list>>
  BY <1>3 DEF Starting, CheckTables, CreateSystemTables, waitSystemTablesReady
<1>4. ASSUME NEW c \in Clients, ListOps(c)
      PROVE  UNCHANGED db /\ (StartList(c) \/ ListPage(c) \/ EndList(c))
  BY <1>4 DEF ListOps, StartList, ListPage, EndList
<1>5. ASSUME NEW c \in Clients, KeyOps(c)
      PROVE  UNCHANGED <<db, list>> \/ \E k \in Keys : \E r : Write([db EXCEPT ![k] = r])
  BY <1>5 DEF KeyOps, Create, Get, Delete
<1>6. ASSUME NEW c \in Clients, Update(c)
      PROVE  UNCHANGED <<db, list>> \/ \E k \in Keys : \E r : Write([db EXCEPT ![k] = r])
  BY <1>6, ReadRecord DEF Update, StoreInv
<1> QED BY <1>1, <1>2, <1>3, <1>4, <1>5, <1>6, NextKinds

LEMMA PresentFinite ==
  ASSUME IsFiniteSet(Present(db)), NEW k \in Keys, NEW r
  PROVE  IsFiniteSet(Present([db EXCEPT ![k] = r]))
<1>1. Present([db EXCEPT ![k] = r]) \in SUBSET (Present(db) \cup {k})
  BY DEF Present
<1> QED BY <1>1, FS_AddElement, FS_Subset

LEMMA WriteKeepsLists ==
  ASSUME AllListsOK, NEW k \in Keys, NEW r, Write([db EXCEPT ![k] = r])
  PROVE  AllListsOK'
<1> DEFINE d == [db EXCEPT ![k] = r]
<1>1. db' = d /\ Present(db)' = Present(d) /\ Present(d) \subseteq Keys
  BY DEF Write, Present
<1>2. IsFiniteSet(Present(d))
  BY PresentFinite DEF AllListsOK
<1> HIDE DEF d
<1>3. ASSUME NEW c \in Clients
      PROVE  list'[c] \in Lists /\ ListInv(list[c])'
  <2> DEFINE l == list[c]
             a == l.always \cap Present(d)
             e == l.ever \cup Present(d)
             m == [l EXCEPT !.always = a, !.ever = e]
  <2>1. list'[c] = IF l.pc # "next" THEN l ELSE m
    BY DEF Write, d
  <2>2. l \in Lists /\ ListInv(l)
    BY DEF AllListsOK
  <2>3. CASE l.pc # "next"
    BY <2>1, <2>2, <2>3 DEF ListInv
  <2>4. CASE l.pc = "next"
    <3>1. a \in SUBSET Keys /\ e \in SUBSET Keys
      BY <1>1, <2>2 DEF Lists
    <3>2. m \in Lists /\ m.pc = "next" /\ m.always = a /\ m.ever = e
          /\ m.got = l.got /\ m.snap = l.snap /\ m.token = l.token
      <4> HIDE DEF a, e
      <4> QED BY <3>1, <2>2, <2>4 DEF Lists
    <3> HIDE DEF m
    <3>3. list'[c] = m
      BY <2>1, <2>4
    <3> QED BY <1>1, <2>2, <2>4, <3>2, <3>3 DEF ListInv
  <2> QED BY <2>3, <2>4
<1>4. list' \in [Clients -> Lists]
  BY <1>3 DEF Write
<1> QED BY <1>1, <1>2, <1>3, <1>4 DEF AllListsOK

LEMMA StartKeepsLists ==
  ASSUME AllListsOK, UNCHANGED db, NEW c \in Clients, StartList(c) \/ EndList(c)
  PROVE  AllListsOK'
<1> DEFINE new == [NoList EXCEPT !.pc = "next", !.snap = Present(db),
                                 !.always = Present(db), !.ever = Present(db)]
<1>1. PICK l \in Lists : list' = [list EXCEPT ![c] = l] /\ ListInv(l)
  <2>1. Present(db) \subseteq Keys
    BY DEF Present
  <2>2. NoList \in Lists /\ ListInv(NoList)
    BY DEF NoList, Lists, ListInv
  <2>3. new \in Lists /\ new.pc = "next" /\ new.got = {} /\ new.token = 0
        /\ new.snap = Present(db) /\ new.always = Present(db) /\ new.ever = Present(db)
    BY <2>1 DEF NoList, Lists
  <2> HIDE DEF new
  <2>4. ListInv(new)
    <3>1. \A k \in Present(db) : ~(k <= 0)
      BY KeysAssumption DEF Present
    <3> QED BY <2>3, <3>1 DEF ListInv, AllListsOK
  <2>5. list' = [list EXCEPT ![c] = new] \/ list' = [list EXCEPT ![c] = NoList]
    BY DEF StartList, EndList, new
  <2> QED BY <2>2, <2>3, <2>4, <2>5
<1> QED BY <1>1 DEF AllListsOK, ListInv, Present

(* A page holds the first of the remaining keys. *)
LEMMA PageIsFirst ==
  ASSUME NEW S, S \subseteq Nat, IsFiniteSet(S), NEW n \in Nat,
         NEW p \in FirstKeys(S, n), NEW k \in S, k <= p
  PROVE  k \in FirstKeys(S, n)
<1> DEFINE UpTo(x) == {j \in S : j <= x}
<1>1. p \in S /\ Cardinality(UpTo(p)) <= n
  BY DEF FirstKeys
<1>2. UpTo(k) \in SUBSET UpTo(p) /\ UpTo(p) \in SUBSET S
  <2>1. \A j \in S : j <= k => j <= p
    BY <1>1
  <2> QED BY <2>1
<1>3. IsFiniteSet(UpTo(p)) /\ IsFiniteSet(UpTo(k))
  BY <1>2, FS_Subset
<1>4. Cardinality(UpTo(k)) <= Cardinality(UpTo(p))
  BY <1>2, <1>3, FS_Subset
<1>5. Cardinality(UpTo(k)) \in Nat /\ Cardinality(UpTo(p)) \in Nat
  BY <1>3, FS_CardinalityType
<1>6. Cardinality(UpTo(k)) <= n
  BY <1>1, <1>4, <1>5
<1> QED BY <1>6 DEF FirstKeys

(* A finite set of numbers has a largest: the one with the fewest above it. *)
LEMMA Largest ==
  ASSUME NEW S, S \subseteq Nat, S # {}, IsFiniteSet(S)
  PROVE  \E x \in S : \A y \in S : y <= x
  <1> DEFINE Above(x) == {y \in S : x < y}
             Tops == {Above(x) : x \in S}
  <1>1. Tops \subseteq FiniteSubsetsOf(S) /\ Tops # {}
    <2>1. \A x \in S : Above(x) \in SUBSET S /\ IsFiniteSet(Above(x))
      BY FS_Subset
    <2> QED BY <2>1 DEF FiniteSubsetsOf
  <1>2. PICK t \in Tops : \A u \in Tops : ~ (<<u, t>> \in StrictSubsetOrdering(S))
    BY <1>1, WFMin, FS_StrictSubsetOrderingWellFounded
  <1>3. PICK x \in S : t = Above(x)
    OBVIOUS
  <1>4. ASSUME NEW y \in S, x < y PROVE FALSE
    <2>1. x \in Nat /\ y \in Nat /\ ~(y < y) /\ \A z \in Nat : y < z => x < z
      BY <1>4
    <2>2. Above(y) \in SUBSET t /\ y \in t /\ y \notin Above(y) /\ t \in SUBSET S /\ Above(y) \in Tops
      BY <1>3, <1>4, <2>1
    <2> QED BY <1>2, <2>2 DEF StrictSubsetOrdering
  <1> QED BY <1>4

LEMMA PageKeepsLists ==
  ASSUME AllListsOK, UNCHANGED db, NEW c \in Clients, ListPage(c)
  PROVE  AllListsOK'
<1> DEFINE l == list[c]
           rest == Rest(l)
           page == IF backend = "mem" THEN rest ELSE FirstKeys(rest, PageSize)
           got == l.got \cup page
           token == IF page = {} THEN l.token ELSE LastKey(page)
           pc == IF page = rest THEN "done" ELSE "next"
           m == [l EXCEPT !.got = got, !.token = token, !.pc = pc]
<1>1. list' = [list EXCEPT ![c] = m] /\ l.pc = "next"
  BY DEF ListPage, NextPage
<1>2. l \in Lists /\ ListInv(l) /\ l.token \in Nat /\ l.got \subseteq Keys
  BY DEF AllListsOK, Lists
<1>3. /\ rest \subseteq Keys /\ rest \subseteq l.ever
      /\ \A k \in l.always : k <= l.token \/ k \in rest
  <2>1. \A k \in l.always : k \in Present(db) /\ k \in l.snap /\ k \in Nat
    BY <1>1, <1>2, KeysAssumption DEF ListInv, Present
  <2> QED BY <1>1, <1>2, <2>1 DEF Rest, ListInv, Lists, Present
<1>4. IsFiniteSet(rest)
  <2>1. rest \in SUBSET Present(db) \/ rest \in SUBSET l.snap
    BY DEF Rest
  <2> QED BY <1>1, <1>2, <2>1, FS_Subset DEF ListInv, AllListsOK
<1> HIDE DEF rest
<1>5. page \subseteq rest /\ IsFiniteSet(page)
  <2>1. page \in SUBSET rest
    BY DEF FirstKeys
  <2> QED BY <2>1, <1>4, FS_Subset
<1>6. page # {} => token \in page /\ \A j \in page : j <= token
  BY <1>3, <1>5, Largest, KeysAssumption DEF LastKey
<1>7. ASSUME page # rest, NEW k \in rest, page # {}, k <= token
      PROVE  k \in page
  <2>1. page = FirstKeys(rest, PageSize) /\ PageSize \in Nat /\ rest \subseteq Nat
    BY <1>3, <1>7, PageAssumption, KeysAssumption
  <2> QED BY <1>4, <1>6, <1>7, <2>1, PageIsFirst
<1>8. got \in SUBSET Keys /\ token \in Nat /\ pc \in {"next", "done"}
  BY <1>2, <1>3, <1>5, <1>6, KeysAssumption
<1>9. got \subseteq l.ever
  BY <1>1, <1>2, <1>3, <1>5 DEF ListInv
<1>10. pc = "done" => l.always \subseteq got
  BY <1>1, <1>2, <1>3 DEF ListInv
<1>11. pc = "next" => \A k \in l.always : k <= token => k \in got
  BY <1>1, <1>2, <1>3, <1>7 DEF ListInv
<1> HIDE DEF got, token, pc, page
<1>12. m \in Lists /\ m.pc = pc /\ m.token = token /\ m.got = got
       /\ m.snap = l.snap /\ m.always = l.always /\ m.ever = l.ever
  BY <1>2, <1>8 DEF Lists
<1> HIDE DEF m
<1>13. ListInv(m)
  BY <1>1, <1>2, <1>8, <1>9, <1>10, <1>11, <1>12 DEF ListInv
<1>14. PICK n \in Lists : list' = [list EXCEPT ![c] = n] /\ ListInv(n)
  BY <1>1, <1>12, <1>13
<1> QED BY <1>14 DEF AllListsOK, ListInv, Present

LEMMA InitLists == Init => AllListsOK /\ KindsOK
<1> SUFFICES ASSUME Init PROVE AllListsOK /\ KindsOK
  OBVIOUS
<1>1. Present(db) = {}
  BY DEF Init, Present
<1>2. NoList \in Lists /\ ListInv(NoList)
  BY DEF NoList, Lists, ListInv
<1> QED BY <1>1, <1>2, FS_EmptySet, PageAssumption DEF Init, AllListsOK, KindsOK

LEMMA StepLists ==
  ASSUME StoreInv, AllListsOK, [Next]_vars PROVE AllListsOK'
<1>1. UNCHANGED <<db, list>> => AllListsOK'
  BY DEF AllListsOK, ListInv, Present
<1> QED BY <1>1, ListKinds, WriteKeepsLists, StartKeepsLists, PageKeepsLists

LEMMA ListsHold == Spec => []AllListsOK
<1>1. StoreInv /\ AllListsOK /\ [Next]_vars => AllListsOK'
  BY StepLists
<1> QED BY <1>1, InitLists, StoreInvHolds, PTL DEF Spec

(* A list over several pages (listDevices, listServices and the members of  *)
(* a service, with LastEvaluatedKey or Continue) returns every record that  *)
(* was there the whole time and none that was there at no time.             *)
THEOREM ListsAreComplete == Spec => []ListComplete
<1>1. AllListsOK => ListComplete
  BY DEF AllListsOK, ListInv, ListComplete
<1> QED BY <1>1, ListsHold, PTL

-----------------------------------------------------------------------------
(* Only a start touches the table and the phases. *)
LEMMA StartKinds ==
  ASSUME [Next]_vars
  PROVE  \/ UNCHANGED <<status, phase>> \/ TableBecomesActive
         \/ \E c \in Clients : Starting(c)
<1>1. CASE UNCHANGED vars
  BY <1>1 DEF vars
<1>2. ASSUME NEW c \in Clients, KeyOps(c) \/ ListOps(c) \/ Update(c)
      PROVE  UNCHANGED <<status, phase>>
  BY <1>2 DEF KeyOps, Create, Get, Delete, Update, ListOps, StartList, ListPage, EndList
<1> QED BY <1>1, <1>2, NextKinds

LEMMA StepKindsOK ==
  ASSUME KindsOK, StoreInv, [Next]_vars PROVE KindsOK'
<1>1. backend' = backend /\ table' = table
  BY TableFixed
<1>2. writes' = writes \/ (writes < MaxWrites /\ writes' = writes + 1)
  BY StepKinds DEF Untouched, Create, Get, Delete, Update, Write
<1>3. writes' \in 0 .. MaxWrites
  BY <1>2, PageAssumption DEF KindsOK
<1>4. status' \in {status, "CREATING", "ACTIVE"} /\ phase' \in [Clients -> {"check", "create", "wait", "up"}]
  <2>1. CASE UNCHANGED <<status, phase>>
    BY <2>1 DEF KindsOK
  <2>2. CASE TableBecomesActive
    BY <2>2 DEF TableBecomesActive, KindsOK
  <2>3. ASSUME NEW c \in Clients, Starting(c)
        PROVE  status' \in {status, "CREATING", "ACTIVE"} /\ phase' \in [Clients -> {"check", "create", "wait", "up"}]
    BY <2>3 DEF Starting, CheckTables, CreateSystemTables, waitSystemTablesReady, KindsOK
  <2> QED BY <2>1, <2>2, <2>3, StartKinds
<1> QED BY <1>1, <1>3, <1>4 DEF KindsOK

(* Every variable holds a value of its kind on each backend, whatever the   *)
(* clients start, write, delete and list together.                          *)
THEOREM TypeCorrect == Spec => []TypeOK
<1>1. KindsOK /\ StoreInv /\ [Next]_vars => KindsOK'
  BY StepKindsOK
<1>2. KindsOK /\ StoreInv /\ AllListsOK => TypeOK
  BY DEF KindsOK, StoreInv, RecordsOK, AllListsOK, TypeOK
<1> QED BY <1>1, <1>2, InitLists, StoreInvHolds, ListsHold, PTL DEF Spec
=============================================================================
