# FireCamp: a TLA+ model of the stateful-service control plane

FireCamp runs stateful services (databases, queues) on a container framework.
A service has a fixed set of *members*; a member is an identity (DNS name or
static ip, config files) and one or two EBS volumes.  Containers come and go;
whichever node a container lands on must take over one member with everything
that belongs to it, and nobody else may still be using it.  That takeover is
done by a docker volume plugin on every node with nothing but conditional
writes to a DB and the rules of EBS.  The services themselves are managed by
servers whose requests can stop half way, on three container platforms that
promise different things.

Contents: [inventory](#1-inventory), [modules](#2-modules),
[runs](#3-runs-and-what-they-show), [proofs](#4-proofs),
[what only TLC checks](#5-what-only-tlc-checks),
[where the code keeps less than it promises](#6-where-the-code-keeps-less-than-it-promises),
[what is not modelled](#7-what-is-not-modelled), [plan](#8-plan).
`PROJECT.json` maps every definition to source lines and lists the hazards.

## 1. Inventory

| part | state | operations | interacts with |
|---|---|---|---|
| volume driver, `pkg/plugins/volume` | in memory: the mounted volumes and their connection counts, one lock; on the host: mounts, config files, a file naming the member | Mount, Unmount, Remove (Create, Get, List, Path change nothing) | docker calls it; it calls the DB, EC2, ECS, the network plugin |
| network plugin, `pkg/plugins/network` | the addresses on the host's interface | UpdateDNS, UpdateStaticIP, AddIP, DeleteIP | Route53, EC2, the DB |
| EC2 server, `pkg/server/awsec2` | volumes and their attachment, private ips of an interface (kept by AWS) | attach, detach, bounded waits, create and delete volumes, (un)assign ips, device names | volume driver, manage service |
| container platforms, `pkg/containersvc/{awsecs,swarm,k8s}` | services, tasks, task definitions, spec versions, stateful sets, headless services, storage classes (kept by the platform) | list tasks, local task, create, stop, scale, update, rolling restart, delete a service, run and delete a one-off task | volume driver, manage service, catalog service |
| DB, `pkg/db` (DynamoDB, K8s config maps, memory) | Device, Service, ServiceAttr, ServiceMember, ConfigFile, ServiceStaticIP records | create if absent, update if the revision is the one read, consistent reads, lists by page, delete; create the tables | everybody |
| manage service, `pkg/managesvc` | the lock of the static ip allocation, a map of background tasks; everything else is in the DB | create, delete, scale, stop, start, restart, upgrade, update config and resources, run tasks | DB, EC2, DNS, container platform |
| manage tasks, `managesvc/servertask.go` | one entry per service with a restart in progress or just finished | add, look up, run, expire | manage service, container platform |
| static ip allocation, `managesvc/service.go` | none of its own: interfaces and ServiceStaticIP records | claim unused addresses, assign new ones, record them, delete the records | EC2, DB; concurrent with the network plugins |
| catalog service, `catalog/manageservice` | in memory: one entry per service being initialised | create requests of fourteen kinds of service, the check request, the request of an init container, the init task | manage service, container platform |
| log driver, `pkg/plugins/log` | open log streams | start and stop logging | reads the member file of the volume driver |
| CLI, init containers, swarm init | none | one-shot programs | manage and catalog service |

What is hard here, and what makes each part correct:

* **Takeover.**  Nodes, the scheduler and EBS interleave between any two calls
  of a Mount; drivers and nodes restart; waits time out while the operation
  still completes.  A volume must never be mounted on two nodes or be pulled from
  under a mounted file system; two drivers must never
  own the same revision of a member; a container must see the volumes of one
  member.
* **Names and addresses.**  The DNS name or static ip follows the owner by
  separate writes; a static ip must not stay on a node that does not serve it.
* **Service lifecycle.**  A request is a dozen writes without a transaction.
  Another request, a failed call or a crash comes between them, and users
  repeat requests.  A device belongs to one service; a service that counts as
  created has all its members; nothing is lost by two updates; a deletion
  leaves nothing behind and completes.
* **Config files.**  Versions are written beside the record that names them;
  the record must always name an existing file of the recorded MD5, and a
  container must only get what was accepted.
* **Records.**  All of the above rests on create-if-absent and update-if-match.
  Three stores implement them, each differently, and not for every table.
* **Static ips.**  Whether an address is free is found by reading interfaces one
  by one while drivers move addresses; two members must never get one address.
* **Platforms.**  A specification is read, changed and written as a whole, or by
  fields, or as a new revision; objects are several and are created and removed
  one by one under names that are used again.
* **Restarts.**  A restart goes through a list of tasks that was read before;
  containers fail and are replaced meanwhile.  One container at a time may be
  down, and a successful restart has replaced them all.
* **Initialisation.**  A catalog service runs before it is initialised, by a
  container that a goroutine starts and a server crash forgets.  It must get
  initialised once and for all, and MongoDB and Redis never count as ready
  while they run without authentication.

## 2. Modules

```
DeployedService          parameters of one cluster and service
 +- Ec2Server            EBS volumes and static ips
     +- ServiceNetwork   DNS, static ip records, addresses of the hosts
 +- ContainerService     tasks of the scheduler, containers of docker
      \-> VolumeDriver   the plugin on every node; composes all of the above
           -> MemberVolumes          what it promises (refinement)
           -> VolumeDriverProofs
ServiceLifecycle         the manage server's requests on the DB records
           -> ServiceLifecycleProofs
ConfigFiles              one config file: record, versions, updates, the driver
           -> ConfigFilesProofs
StaticIPs                static ip allocation against deletions and drivers
           -> StaticIPsProofs
RecordStore              three implementations of the DB
           -> ConditionalRecords     what db.go promises (refinement)
           -> RecordStoreProofs
PlatformService          one service on ECS, Swarm or Kubernetes
           -> PlatformServiceProofs
RollingRestart           the restart task and the three platforms' restarts
           -> RollingRestartProofs
CatalogInit              creation and initialisation of a catalog service
           -> CatalogInitProofs
MC<module>               values and symmetry for TLC
```

Modules cut the system where it is cut itself: between calls to AWS, to the DB
or to the platform.  A module models its callees by what one call does.
ServiceLifecycle, StaticIPs, PlatformService and CatalogInit all start from the
requests of the manage server; each keeps the calls that its properties tell
apart and makes one step of the others.

**VolumeDriver.**  One service, one driver per node.  The driver holds its lock
for a whole request, so `pc[n]` is the next call of the one request in progress
and `req[n]` its local variables.  *Every call to EC2, the DB, DNS, ECS or the
host is a step*, and each step has the error exits the code has: `Fault` is a
call that fails for reasons of its own and, where the code may see a write
applied and its answer lost, that too.  `mem` is the ServiceMember table,
`cache` the map `d.volumes`, `mnt` what is mounted on the host, `held` what the
running container has mounted in its own namespace: after a restart of the
plugin the host paths may be unmounted while the container still uses the
device, which is what `volume.go:398` relies on.  Actions follow the code by
name: `ListTasks`, `SelectMember`, `CheckLastState`, `DetachLastOwner`,
`WaitLastDetached`, `GetLocalTask`, `WriteOwner` are `getMemberForTask` and
`findIdleMember`; `UpdateDNS` to `WriteIPRecord` the network plugin;
`AttachVolumes`, `FormatVolumes`, `AddLocalIP`, `MountVolumes`, `CreateConfig`
with their undo steps the rest of Mount; `UnmountRequest` to `DetachVolumes`
Unmount.  The random choice among idle members is a choice over all of them.
Docker, the scheduler and EBS are environment, modelled by how the code uses
them: a task runs once on one node, docker mounts each volume before it starts
a container and unmounts it after it stopped, EBS completes an attachment or a
detachment at any later time, and a detachment not before the device is no
longer in use.  A reboot keeps the attachments and the member file, loses
mounts, container, cache and added addresses.

**ServiceLifecycle.**  All services of a cluster, with `Handlers` requests in
progress.  `dev`, `svc`, `attr`, `members` are DB tables, `res` stands for what
a member needs besides its record (static ip, DNS record, config files,
volumes), `ctr` is the service in the framework.  Each read or write is a step;
writes keep their conditions (absent, or the revision that was read), so `attr`
carries the revision.  Device names are numbers in the order of
`GetNextDeviceName`.  `goal` is what the user wants; a user may repeat any
request.  `Overlaps` says which requests for *one* name may be in progress
together: `server.go:1264` declares create and delete of one name at the same
time unsupported, and the runs respect that; requests for different services
always overlap.  Stateless services are left out.  The calls that make the
resources of one member are one step, as are those that remove them: they are
idempotent and no property of this module looks between them (StaticIPs does).

**ConfigFiles.**  One file of a service or member: the record (`rec`: revision,
version, MD5), the versions in the DB, the creating and updating requests, and
a volume driver that reads the record and later the file.  The same module
stands for files of a service and of a member: `updateMemberConfigFile`
(`server.go:1039`) has the same calls in the same order.  A content stands for
its MD5.

**StaticIPs.**  The requests of the manage server that create or remove members
of services with static ips, and `UpdateStaticIP` of the drivers.  `nic[a]` is
the node whose interface has address a, `rec` the ServiceStaticIP table,
`members` the addresses in the ServiceMember records, `ready` the volumes that
exist.  A request lists the members, takes `iplock`, reads the interfaces one
by one, claims what has no record (`getUnassignedIPs`), assigns and records
further addresses to the interface with the fewest (`createNextIP`), unlocks,
creates the members and waits for all volumes, those of members it found
included.  Drivers take the address of a member to their node at the same
time: unassign, assign, record.  So a creation may see one address at two
interfaces, or at none.  A deletion waits for none of the drivers: neither the
handler nor `StopService` does, on Swarm it only sets the replicas to 0 and on ECS
it does not count a task that is still pending, whose Mount goes on.  Three
history variables remember what takes an address from a member: `twice`, that a
creation claimed one address at two interfaces, `repeated`, that a deletion was
repeated, and `late`, that a deletion overlapped with a Mount of its service.
Services are uuids and are not created again; requests fail at any call, the
server may crash and lose lock and requests.

**RecordStore.**  One behaviour follows one table on one backend.  A record is
its owner, its revision and the set of changes written into it, so that a lost
update is a change that is missing.  `EqualRevision` is what each backend
checks when it updates: the revision (DynamoDB), the record as a whole (memory),
or only that the record exists (config maps of three tables).  Lists take a
step per page.  `CreateSystemTables` and the wait of the manage server for the
tables are the start of every process.  **ConditionalRecords** is the comment of
`db.go:37-50` as a specification: one creation at revision 0, updates that each
start from the revision before and keep its changes, one deletion.

**PlatformService.**  One service and what stands for it on each platform: the
ECS service and the ACTIVE revisions of its task definition; the Swarm service
with its version; the stateful set with its resource version, the headless
service and the storage classes.  Objects carry the uuid they were made for,
the record of the service the current one: a name is used again by another
uuid.  A create and a delete run alone, as the code declares; updates, scale
and stop overlap.

**RollingRestart.**  `entry` is the service's entry in the task map, `job` the
goroutine's variables, `st` the containers by slot, `kept` the containers of
the moment of acceptance that still run.  ECS restarts the tasks whose ids were
read from the member records; on K8s the pods
are deleted one by one, each after the one before it is ready again; Swarm is
given a changed specification and replaces the containers itself, one after the
other.  Containers fail by
themselves, a scale request overlaps, the server crashes and loses the map.

**CatalogInit.**  A handler is the *sequence of calls* it makes to the manage
server (`createMongoDBService` is `CreateService \o <<"addInit">>`), and one
action per call consumes it; fourteen kinds, three platforms.  Two of the
handlers branch, and the branches are kinds of their own: a Redis that is not a
cluster (`redisserver`) and a Cassandra of one node (`cassandranode`) are set
initialised by the creation, without an init task, and the former has its
authentication enabled from the start.  The check request knows the mode of
Redis, and starts the init task also for one node of Cassandra.  `conf.memberIPs` counts how
often the addresses were put into the member files: `SetMemberStaticIP` inserts
the address after the key it finds in the current file, so it is not
idempotent.  `req` is the
client's request and that of each init container, `job` the goroutine that runs
the init task, `obj` the task definition, container name or job by which the
platform knows the init task, `init` the init containers, `ctr` the containers
of the service and the configs they were started with.  Requests end at any call with or
without its effect.

**MemberVolumes** is the abstract specification of the driver: per volume a set
of users that has at most one element, grows by acquiring a free volume and
shrinks by a release.  `Users` of VolumeDriver maps it: the nodes that have the
volume mounted on the host or in a container.

## 3. Runs and what they show

Bounds are named constants: `MaxFaults`, `MaxFailures` and `MaxCrashes` limit
failures, `MaxRequests` and `MaxEvents` the requests and disturbances of a module, the
id sets everything else.  Two nodes suffice for every conflict of the driver, since all of them are
between an owner and one taker; two handlers for every conflict of requests,
since all of them are between a request and one write it did not see.  Symmetry
is used for ids the code only compares, never in the runs with liveness.

| run | bounds | shows |
|---|---|---|
| `failover` | 2 nodes, 1 member with data and journal, 2 tasks, 1 fault, 1 crash | types; a mounted volume stays attached where it is mounted; the driver implements MemberVolumes; the connection count covers docker's mounts |
| `members` | 2 nodes, 2 members with static ips, 3 tasks | no two drivers own the same revision; a container works on one member all along; an address is on a host only for the member served there |
| `named` | 2 nodes, 2 members named by the framework (Swarm), 1 fault, 1 crash, fairness | a Mount answered from the cache finds its file system mounted; every request returns and frees the lock |
| `create` | 2 services with journals, 4 devices, overlapping and repeated creates, 1 fault, fairness | devices are not shared; a created service has all its members; repeating the request gets the service created |
| `update` | 2 services, 1 device, 1 uuid, sizes 1 and 2, every request overlaps every other but delete, 1 crash | members are complete for the framework's tasks; no update of the attr record undoes another; no member record outlives its attr record; the end of the device names does no harm |
| `config_update` | 1 creator and 2 updaters at a time, 2 contents, 2 updates, 1 other update, 1 fault | from its first update on the record names a file of its MD5, whatever users try to create; a Mount with the current record serves it |
| `platform` | 3 platforms, 2 handlers, 2 uuids, 2 changes, 2 requests, 1 fault, 1 crash, fairness | an acknowledged resource update is not written away by another request on Swarm and K8s; a service runs on its own objects and a deleted one leaves none; a repeated deletion ends on ECS and K8s |
| `records` | 3 backends, 6 tables, 2 clients, 3 keys, pages of 1, 4 writes, fairness | where `db.go`'s promise holds the store implements ConditionalRecords and loses no acknowledged update; a paged list misses nothing; all processes come up |
| `restart` | 3 platforms, 2 members and 1 more by scale, 2 requests, 1 failure, 1 crash, fairness | one container at a time is down; a successful restart replaced them all; every restart ends |
| `catalog` | 14 kinds, two of them in two forms, 3 platforms, 2 init containers, 3 creations, 2 tries, 1 fault, 1 crash, fairness | MongoDB and Redis are ACTIVE only with authentication, Redis and Consul run only with an address in the file of every member, one as long as the creation is not repeated; the service gets initialised |
| `static_ips` | 2 services, 2 nodes, 3 addresses, sizes 1 and 2, 2 handlers, 4 requests, 1 event (an address moved by a driver, or a failed call or crash) | a member has an address of its own, recorded for its service, but in three cases (section 6); a created service has all members and volumes; the lock is held exactly where addresses are looked for |
| `delete_stuck` | 1 service, 1 crash, fairness | violated: see section 6 |

Why the bounds reach the interesting cases: in `update` one device for two
services makes the second creation meet the end of the names, and one uuid makes
the service that is created again meet what a crash left; in `records` three
keys on pages of one give a list with a first, a middle and a last page, and
four writes an update that overlaps another after a deletion and a second
creation; in `catalog` two init containers are one that was given up and the one
started after it; in `static_ips` three addresses are one less than two scaled
services want, four requests are two that overlap after one that failed and one
that is repeated, and two nodes give an address somewhere to be in transit
between.

**Fairness.**
`VolumeDriver`: a driver that holds the lock takes its next step.  Each call
returns and each polling loop counts down, so this is only that the process
runs; nothing is assumed of EBS, DNS or the scheduler.
`ServiceLifecycle`: a request in progress goes on (weak fairness), and users
keep sending the create or delete request that has not worked yet (strong
fairness, since the model's `Handlers` may be busy while the server starts a
goroutine for each request).
`PlatformService`: handlers go on, the client that wants the deletion repeats
it, and ECS forgets a deleted service.
`RecordStore`: a starting process goes on, and DynamoDB activates a table it
creates.
`RollingRestart`: the goroutine goes on and an expired entry leaves the map;
nothing of the platform, since each wait is bounded.
`CatalogInit`: the client goes on asking, as the CLI does; the goroutine and the
requests go on; the platform starts and stops the containers it is told to.

Deadlock is checked in `failover`, `members`, `named`, `create` and
`config_update`.  The other
specifications have final states: their budgets of requests, writes or events
are used up and everything has ended.

## 4. Proofs

The theorems hold for every value of the constants, under the assumptions the
modules declare: `None` is not an element of the id sets, the volume kinds
include the primary one, a service has at least one replica, bounds are
naturals.  A condition beyond these is an `ASSUME` of the theorem itself and is
named below.

Several of the proved invariants are not inductive, and for one reason: a
request acts on what it read some steps ago.  Each strengthening therefore says
what a request in progress still knows of the record, the object or the host it
works on.

**VolumeDriverProofs.**

* `TypeCorrect`: `Spec => []TypeOK`.  TypeOK is not inductive: a failing Mount
  updates docker's record of a container, which needs that the container is
  still starting, and a step past the selection uses `req[n].m` as a member.
  `RequestsWellFormed` adds both; `TypeInv = FlowInv /\ DataInv` splits the
  invariant into the flow of requests and the data, so each action needs one
  lemma for the way its request goes on and one for the data it writes.
* `MountedSafely`: `Spec => []MountedWhereAttached`, and `DriverKeepsPromise`:
  `Spec => ImplementsPromise`, the refinement.  Every step of Next is classified
  by what it does to mounts and attachments: it only releases (`OnlyReleases`),
  mounts one attached device (`MountsDevice`), or only moves volumes nobody uses
  (`OnlyMovesVolumes`).  A detach request merely starts a detachment, and EBS
  ends it only when the device is unused: that is the rule `volume.go:398-401`
  relies on.  `OneUser` then follows, as a volume is attached to one node, and
  each class maps to a step or a stutter of MemberVolumes.
* `OwnersAreSerialised`: `Spec => []OwnerIsLatest`.  Every step but `WriteOwner`
  satisfies `KeepsOwners`; `WriteOwner` increases the revision it compares, so an
  earlier owner's revision is smaller from then on.

The second part of the module is about the host of a member.  `HostInv` says of each node that its request, the cached
volume, the mounts, the container, the connection count, the member file and
the addresses fit together (`HostOK`): a request that mounts finds no cached
volume, a device that is attached for it is the only one of its kind on the
node, between the two umounts of a member's volumes only one of them is there,
and so on.  `HostOK(n)` depends on node n alone, so a step is proved for its own
node and `UntouchedOK` carries the others over; what makes this work is that a
volume is only ever attached to the node whose driver asked for it
(`NewDeviceAt`).  From it:

* `ConnectionsAreCounted` (`[]ConnectionsCoverRefs`): without a condition, so
  through any number of faults, driver restarts and reboots.
* `CacheIsTrue` (`[]CachedIsMounted`) under `Whole`: one volume per member, or
  two and no failing call.
* `ContainersServeTheirMember` (`[]ServedByItsMember`) when no call fails,
  through any restarts and takeovers.
* `AddressesAreDeleted` (`[]NoStrayIP`) when the driver does not restart and at
  most one call fails.  A restarted driver has forgotten the member whose
  address Unmount would delete; and of two failures the second may be the
  deletion that undoes the first.

The code keeps no more than these conditions say (section 6), so they are not
weaknesses of the proof.

**ConfigFilesProofs.**  `CurrentFileIsSafe` (`[]CurrentFileKept`),
`MountIsCurrent` (`MountServesRecord`) and `TypeCorrect`.  The record resolves
from the first update on, and from the creation on if all creations use one
config (`SameConfig`; section 6 shows that the condition is needed).  What is
added (`RequestOK`): an updater that is about to update the record, with the
revision it read still current, has its file in the DB under the next version;
one about to delete the old file is past that version; a creation only touches
version 0, which under `SameConfig` only ever holds the one config.  The
conditional update makes the rest: a slow request whose revision is no longer
current may create or find files, but it only ever deletes a version below the
record's.

**RecordStoreProofs.**

* `UpdatesAreKept` (`[]AckedUpdatesKept`) and `StoreImplementsPromise`
  (`KeepsPromise`, the refinement of ConditionalRecords): for any number of
  clients, keys and writes, where `Conforming` says so.  The memory store
  compares whole records; DynamoDB compares revisions alone, so what has to be
  invariant is that a record that was read is the stored one or of a smaller
  revision (`ViewsAreOld`), unless it was deleted, and that a deleted key of the
  updated tables stays empty (`DeletedForGood`).  Without that the key of a
  static ip would come back with the same revision; this is the reason for its
  exception.  `StepKinds` reduces the eighteen tables to creation, read,
  deletion and update of one record.
* `ListsAreComplete` (`[]ListComplete`), on every table and page size: the keys
  that were there all along and are not past the token are still to come
  (`ListInv`).  A page holds the smallest keys after the token, and its last key
  is the next token.
* `TypeCorrect`.

**ServiceLifecycleProofs.**  `TypeInv`, with what every step knows of its
request, is inductive whatever requests overlap: `TypeCorrect`.  The safety
properties need `DeletesAlone`: a delete request does not overlap with another
request for the same service, which `server.go:1264` leaves to the users.
Then `SInv` is inductive: the record a request holds is the current one or has a
smaller revision (`Current`); what a creation or scaling has added is there
(`Adding`), the members found being the first ones of the service; a deletion
has removed what is behind it (`Removing`); what the framework runs is up and
has its members (`ServiceOK`).  Steps are classified by what they take away:
nearly all of them only add to their own service (`Grows`), and a deletion only
takes from its own (`Apart`), so the other requests keep what they know.

* `NoOrphans`, `MembersAreComplete`, `TasksFindMembers`: the invariants
  NoOrphanMember, MembersComplete and TasksHaveMembers.
* `UpdatesAreKept`: the action property NoLostUpdate.  Each update either starts
  from the current record, by the conditional write, or fails.
* `DevicesAreUnique` (DeviceUnique) also needs `DeletesEnd`: with deletions, no
  call fails and no server dies (section 6 says why).  `DevicesOK` adds that the
  Device record of every name in an attr record, or held by a request, is its
  service's.

**StaticIPsProofs.**  `TypeCorrect`, `AddressesAreOwned`
(`[]MembersOwnTheirIPs`) and `CreatedIsComplete` (`[]CreatedIsReady`).  A
creation lists the members before it takes the lock, so it may look upon an
address as unused that a member has which another request made in between.  That
it does no harm is the point of the invariant
`IInv = TypeInv /\ Progress /\ (Sound => Drivers /\ Addresses)`:

* `Progress`: a deletion is alone with its service, members are made in order
  (`Segment`), and what a creation found is still there (`Made`).  So when a
  creation knows fewer members than there are, the one it comes to first exists
  already, and it fails on its record instead of giving the address away.
* `Addresses`: what a creation has to give away (`FreeOK`) is recorded for its
  service and no member it knows has it; when it comes to a member that does not
  exist, no member at all has it.  A deletion deletes records of its own members
  only.
* An address that is in transit between two nodes looks unused, but it has a
  record, and the record of a further address must be new.  Twice in sight, it is
  claimed twice: this is one of the three cases that `Sound` excludes.  The
  first version of the property did not, and the proof failed there.
* `Drivers`: the record a driver has read is its member's, of the current
  revision or of an older one.  This holds as long as no deletion overlaps with a
  Mount of its service: revisions start at 0 again when another service claims
  the address, so a driver that is late would pass the condition of its update.

Apart from making the check of a record and its creation one step, the lock is
not needed for any of this.  The run `static_ips` makes one new address at a
time; the theorems also speak of requests that make several.

**PlatformServiceProofs.**  `TypeCorrect`, `UpdatesAreKept`
(`[]AckedChangesKept`: of the acknowledged resource updates, not of counts and
stops) and `RunsWithOwnObjects` (`[]OwnObjects`).  A request
that is about to write has seen the object as it is, or an older version of it
(`SeenCurrent`); a creation or deletion on K8s has made or removed the objects
before the one it is at (`CreateProgress`, `DeleteProgress`), so the next one
that starts from the beginning finds only its own objects or none.

**RollingRestartProofs.**  `TypeCorrect`, `RestartsOneAtATime` (`[]OneAtATime`)
and `RestartCoversAll` (`[]RestartCovers`), for any number of replicas on each
platform.  The two depend on each other: that the next container may be stopped
follows from the one before it running again, and that the one running is a new
one from where the wait stands (`Turn`; for Swarm `SwarmCover`).  The waits see
only counts: that a count of n running tasks means that *all* n slots run is an
argument about cardinalities of its own.

**CatalogInitProofs.**  `TypeCorrect` and `ServedWell`
(`[]ServedAsConfigured`).  A handler is the sequence of calls it has left, so the
invariant speaks of that sequence: `Precedes(s, a, b)`, every b has an a before
it, `Never(s, b)`, and `Once(s, a)`.  They survive taking the first call away unless it is the
a (`PrecedesTail`), and `Joined` gives them for all the handlers from their
parts.  The first creation has one call left that fills the addresses in, or has
made it, and no other request of the client has one until the creation is
repeated (`FillOK`).  The client's request for MongoDB or a Redis cluster never sets the service ACTIVE;
that of an init container does so after "auth" and after "wait"; and when the
wait is over nothing runs that was started before the config was changed.  That
Swarm's "wait" does not wait is where the proof needs the property's exception.
So several init containers may restart the service at the same time.

`Largest`, that a finite set of numbers has a largest one, and `Smallest` are
lemmas of the modules that use them: the library has them only for an operator
as parameter.

## 5. What only TLC checks

* Liveness: `RequestsReturn`, `CreationCompletes`, `DeletionEnds`,
  `ClientsStart`, `RestartEnds`, `InitCompletes`, `FirstCreationCompletes`, and
  the refuted `DeletionCompletes`.  Temporal properties under fairness are out of
  the prover's reach.  Every invariant, action property and refinement that a
  passing run checks is stated by a theorem.
* `MaxFaults`, `MaxCrashes` and the like are constants, so the conditional
  theorems above speak of all behaviours with that many failures; what holds
  after the failures they exclude is known only as far as section 6 says.

## 6. Where the code keeps less than it promises

One run refutes a sentence of the repository.  `delete_stuck`: `service.go:316`
says "service attr not found, delete service item", but the handler answers 404
before it gets there (`server.go:1230`).  A server that dies between the last
two deletes leaves a Service record that no repetition of the request removes.

Further limits were met while modelling.  A property above leaves each of them
out by a condition of its own, so the condition says where the code stops:

* `CurrentFileKept` and `MountServesRecord` except version 0 under another
  config: a create request for an existing service rewrites its file and is
  refused only then, although `api/common/service.go:252` says "We could not
  directly update the old ConfigFile".
* `MembersOwnTheirIPs` excepts the states after an address was claimed twice
  (`twice`), although `catalog/consul/README.md:18` promises "one static ip to
  each Consul container".  A creation reads the interfaces one by one
  (`ec2.go:497`), so an address that a driver moves between two of these reads
  appears at both, and `getUnassignedIPs` (`service.go:1282`) goes through all
  that it saw: if the service that had the address is deleted meanwhile, the
  first occurrence is claimed by a new record and the second one then belongs
  to the service by that very record.  Without the exception TLC finds two
  members of a new service with one address: with `Replicas = 2` in
  `static_ips.cfg`, three requests and one event are enough.
* It also excepts repeated deletions: records of addresses are
  deleted by address, so a deletion that is repeated after it ended half way
  deletes the record of a service that has claimed the address meanwhile.  The
  same holds for Device records (`api/common/service.go:99`: "one device is
  only assigned to one service"): the deletion marks the attr record, deletes the
  Device records, and if it then stops, its repetition deletes them again by
  name (`service.go:355,524`).  `DeviceUnique` is checked while services are only
  created, and proved as long as no deletion ends half way (`DeletesEnd`).
* And it excepts deletions that overlap with a Mount of the service (`late`).
  The driver has read the record of its member's address at revision 0; the
  service is deleted, the address claimed by another service, at revision 0
  again; the driver's update compares the revision only
  (`dynamodb_servicestaticip.go:80`) and gives the record back to the deleted
  service.  Without the exception TLC finds it.
* The last Unmount deletes the address and the member file first
  (`volume.go:423-442`) and keeps the volume in the cache if the umount then
  fails.  The next container of the node is served from the cache, without the
  address or the member file; and of two volumes one may be unmounted already.
  Hence `MaxFaults = 0` in ContainersServeTheirMember and `Whole` in
  CacheIsTrue.
* `volume.go:545` promises an idle member "not used or owned by down task".
  The task list is older than the member list, so the member of an active task
  can be taken; `failover` shows that its volume still moves safely.
* An address that a creation sees in transit between two nodes may be assigned
  to a third interface.  The creation fails at its record, but the driver cannot
  assign the address to the member's node any more.
* `Conforming` names the tables for which `db.go`'s promise holds: updates of
  the K8s config maps of attributes, members and static ips check only that the
  record exists, attributes in memory are replaced whatever they are, and the
  key of a static ip in DynamoDB comes back at revision 0 for another service.
* `AckedChangesKept` leaves ECS out: two updates register revisions made from
  the same latest task definition and the later one wins.
* `DeletionEnds` leaves Swarm out: `StopService` takes the ErrNotFound of
  `inspectService` for a failure, so a deletion that failed after the service
  was removed cannot be repeated.
* `Addressed` speaks of one address only while the creation is not repeated,
  although `docs/installation/README.md:134` says "In case the service creation
  fails, please simply retry it".  The retry of a Redis or Consul creation that
  failed after the static ips were filled into the member files fills them in
  again: `SetMemberStaticIP` (`rediscatalog.go:334`, `consulcatalog.go:205`)
  replaces `MEMBER_STATIC_IP=` in the current file, which says
  `MEMBER_STATIC_IP=10.0.0.110.0.0.1` afterwards, and the files of members that
  exist are not made anew.  Without the condition TLC finds it: one call that
  fails and one retry are enough.  A pass over the files that fails half way is
  not counted by `conf.memberIPs`; it leaves the files it reached one address
  ahead of the others.
* `Secured` leaves Swarm out: its `StopService` returns at once, although
  `containersvc.go:121` says that it waits.
* `InitCompletes` leaves out services that generate a secret at each request
  (a repeated creation is another service to the manage server), Consul (whose
  record changes after its creation) and the two that are restarted (a restart
  that stops in the middle leaves them scaled to zero); `FirstCreationCompletes`
  covers these without failures.
* That a volume is not formatted a second time when `blkid` fails rests on
  `mkfs.xfs` alone, which refuses a device with a file system.  The model assumes
  it (`Mkfs`), so no property is made of it.
* A volume's journal attachment that fails, and a `createPVC` on K8s that
  overwrites ErrVolumeExist (`k8sservice.go:134`), are in the hazards.

## 7. What is not modelled

* Test doubles, API encoding, mains, packaging, images: no logic of their own.
* Catalog packages that format config files, but for the secrets they generate.
* Persistent volumes that are created before a K8s service, and the replica
  sets of the manage server itself.
* Stateless services, upgrades of records of older releases, the scaling of
  Cassandra (a scale request of the manage service), the request that restarts
  the init task of a Kafka sink.
* Several zones of static ips: they share neither addresses nor interfaces.
* The log driver, the CloudWatch client, the select-member and get-config
  tools, the bootstrap of the Swarm managers, the agent patch.
* `DeleteIP` matches by prefix, which needs addresses as strings.
* Encoding of records, logging, tags, resource numbers.

## 8. Plan

Done: all modules of section 2, with the proofs of their safety properties.
Left, in this order:

1. RecordStore as the DB of ServiceLifecycle, so that its requests run on the
   K8s config maps, whose updates are unconditional.
2. The persistent volumes of K8s through a repeated creation.
3. *LogDriver*: the wait for the member file, against restarts and takeovers.
4. *DeviceNames* and *HostAddrs* as pure algorithms: `GetNextDeviceName` with
   the comparison in `assignDeviceName`, the prefix match of `DeleteIP`.
