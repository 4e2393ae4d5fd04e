------------------------ MODULE PlatformServiceProofs ------------------------
(***************************************************************************)
(* For any number of handlers, incarnations, requests and failures, on     *)
(* each of the platforms: acknowledged updates stay in effect, and a       *)
(* service that runs on K8s runs with its own objects.                     *)
(*                                                                         *)
(* Neither is inductive.  A request writes back the object it read some    *)
(* steps ago, which is why the strengthening relates what a request has    *)
(* seen to the current version; and the objects of the K8s service are     *)
(* created before it and removed after it, one by one, so the              *)
(* strengthening says how far a create or a delete has come.               *)
(***************************************************************************)
EXTENDS PlatformService, FiniteSetTheorems, WellFoundedInduction, TLAPS

Pcs == {"idle", "exist", "def", "create", "headless", "data", "journal", "stateful", "get", "put",
        "count", "wait", "describe", "register", "point", "retire", "remove", "dereg", "db"}
Calls == [op : Ops, pc : Pcs, arg : Changes \cup Nat \cup {None}, seen : Services, rev : Nat]
Budgets == [request : Nat, fault : Nat, crash : Nat]

TypeInv == TypeOK /\ call \in [Handlers -> Calls] /\ \A d \in defs : d.rev <= revs

(* A request that writes back has read the object as it is, unless it has   *)
(* got a new version or was removed.                                        *)
SeenCurrent(c) ==
  c.pc = "put" => \/ svc.st = "none"
                  \/ c.seen.ver <= svc.ver /\ (c.seen.ver = svc.ver => c.seen = svc)

(* What the steps before this one have created, or removed. *)
CreateProgress(c) ==
  platform = "k8s" /\ c.op = "create" =>
    /\ c.pc \in {"data", "journal", "stateful"} => objs["headless"] = rec
    /\ c.pc \in {"journal", "stateful"} => objs["data"] = rec
    /\ c.pc = "stateful" /\ HasJournal => objs["journal"] = rec

DeleteProgress(c) ==
  c.op = "delete" =>
    /\ platform = "k8s" =>
         /\ c.pc \in {"headless", "data", "journal", "db"} => svc.st = "none"
         /\ c.pc \in {"data", "journal", "db"} => objs["headless"] = None
         /\ c.pc \in {"journal", "db"} => objs["data"] = None
         /\ c.pc = "db" => objs["journal"] = None
    /\ c.pc \in {"dereg", "db"} => svc.st # "active"

CallOK(c) ==
  /\ c.op = "none" <=> c.pc = "idle"
  /\ c.op # "none" => rec # None
  /\ c.op = "update" => c.arg \in Changes
  /\ c.op = "scale" => c.arg \in Nat
  /\ c.pc = "put" => platform # "ecs" /\ c.op # "create"
  /\ c.pc = "wait" => c.op \in {"stop", "delete"}
  /\ c.pc = "count" => platform = "ecs" /\ c.op \in {"scale", "stop", "delete"}
  /\ c.pc = "register" => c.seen.uuid \in UUIDs
  /\ SeenCurrent(c) /\ CreateProgress(c) /\ DeleteProgress(c)

(* A create and a delete run alone. *)
AloneOK ==
  \A h, g \in Handlers : h # g /\ call[h].op \in {"create", "delete"} => call[g].op = "none"

ServiceOK ==
  /\ svc.st = "active" => svc.uuid = rec /\ rec # None
  /\ platform # "ecs" => svc.st \in {"none", "active"}
  /\ \A p \in Parts : objs[p] = None \/ (platform = "k8s" /\ objs[p] = rec)

IInv ==
  /\ TypeInv /\ AloneOK /\ ServiceOK
  /\ OwnObjects /\ AckedChangesKept
  /\ \A h \in Handlers : CallOK(call[h])

-----------------------------------------------------------------------------
(* Types *)

LEMMA IdleTyped == Idle \in Calls /\ NoService \in Services /\ Idle.op = "none" /\ Idle.pc = "idle"
  BY DEF Idle, NoService, Calls, Services, Ops, Pcs

LEMMA IdleOK == CallOK(Idle) /\ CallOK(Idle)'
  BY DEF CallOK, Idle, SeenCurrent, CreateProgress, DeleteProgress

LEMMA GotoTyped ==
  ASSUME NEW c \in Calls, NEW p \in Pcs
  PROVE  LET e == [c EXCEPT !.pc = p]
         IN  e \in Calls /\ e.pc = p /\ e.op = c.op /\ e.arg = c.arg /\ e.seen = c.seen
  BY DEF Calls

(* A finite set of numbers has a largest: the one with the fewest above it. *)
LEMMA Largest ==
  ASSUME NEW S, S \subseteq Nat, S # {}, IsFiniteSet(S)
  PROVE  \E x \in S : \A y \in S : y <= x
  <1> DEFINE Above(x) == {y \in S : x < y}
             Tops == {Above(x) : x \in S}
  <1>1. Tops \subseteq FiniteSubsetsOf(S) /\ Tops # {}
    <2>1. \A x \in S : Above(x) \in SUBSET S /\ IsFiniteSet(Above(x))
      BY FS_Subset
    <2> QED BY <2>1 DEF FiniteSubsetsOf
  <1>2. PICK t \in Tops : \A u \in Tops : ~ (<<u, t>> \in StrictSubsetOrdering(S))
    BY <1>1, WFMin, FS_StrictSubsetOrderingWellFounded
  <1>3. PICK x \in S : t = Above(x)
    OBVIOUS
  <1>4. ASSUME NEW y \in S, x < y PROVE FALSE
    <2>1. x \in Nat /\ y \in Nat /\ ~(y < y) /\ \A z \in Nat : y < z => x < z
      BY <1>4
    <2>2. Above(y) \in SUBSET t /\ y \in t /\ y \notin Above(y) /\ t \in SUBSET S /\ Above(y) \in Tops
      BY <1>3, <1>4, <2>1
    <2> QED BY <1>2, <2>2 DEF StrictSubsetOrdering
  <1> QED BY <1>4

(* ECS revisions only grow; the latest definition is one of the family. *)
LEMMA LatestExists ==
  ASSUME defs \subseteq Definitions, revs \in Nat, \A d \in defs : d.rev <= revs, defs # {}
  PROVE  Latest \in defs
  <1> DEFINE S == {d.rev : d \in defs}
  <1>1. S \in SUBSET (0..revs) /\ S \subseteq Nat /\ S # {}
    BY DEF Definitions
  <1> HIDE DEF S
  <1>2. IsFiniteSet(S)
    <2>1. IsFiniteSet(0..revs)
      BY FS_Interval
    <2> QED BY <1>1, <2>1, FS_Subset
  <1>3. PICK x \in S : \A y \in S : y <= x
    BY <1>1, <1>2, Largest
  <1> USE DEF S
  <1>4. \E d \in defs : \A y \in defs : y.rev <= d.rev
    BY <1>3
  <1> QED BY <1>4 DEF Latest

LEMMA Facts ==
  ASSUME IInv, NEW h \in Handlers
  PROVE  /\ call[h] \in Calls /\ CallOK(call[h])
         /\ platform \in {"ecs", "swarm", "k8s"}
         /\ svc \in Services /\ objs \in [Parts -> UUIDs \cup {None}]
         /\ rec \in UUIDs \cup {None} /\ None \notin UUIDs
         /\ budget \in Budgets /\ acked \subseteq Changes
         /\ defs \subseteq Definitions /\ revs \in Nat /\ HasJournal \in BOOLEAN
         /\ Replicas \in Nat /\ Counts \subseteq Nat
  BY PlatformsAssumption, UUIDsAssumption, BoundsAssumption DEF IInv, TypeInv, TypeOK, Budgets

LEMMA InitLemma ==
  ASSUME Init
  PROVE  IInv
  <1>1. TypeInv
    BY IdleTyped, BoundsAssumption DEF Init, TypeInv, TypeOK, Calls
  <1>2. \A h \in Handlers : CallOK(call[h])
    BY IdleOK DEF Init
  <1> QED BY <1>1, <1>2, IdleTyped, PlatformsAssumption
          DEF Init, IInv, AloneOK, ServiceOK, OwnObjects, AckedChangesKept, NoService

-----------------------------------------------------------------------------
(* The steps, by what they change *)

(* The call of one handler moves, or returns. *)
LEMMA CallsMove ==
  ASSUME IInv, NEW h \in Handlers, NEW c \in Calls, c.op \in {"none", call[h].op},
         call' = [call EXCEPT ![h] = c]
  PROVE  /\ call' \in [Handlers -> Calls] /\ AloneOK'
         /\ \A g \in Handlers : call'[g] = IF g = h THEN c ELSE call[g]
  <1>1. call' \in [Handlers -> Calls] /\ \A g \in Handlers : call'[g] = IF g = h THEN c ELSE call[g]
    BY DEF IInv, TypeInv
  <1> QED BY <1>1 DEF IInv, AloneOK

(* Only that changes, and what ECS keeps about task definitions. *)
LEMMA MoveLemma ==
  ASSUME IInv, NEW h \in Handlers, NEW c \in Calls, c.op \in {"none", call[h].op}, CallOK(c),
         call' = [call EXCEPT ![h] = c],
         UNCHANGED <<platform, rec, fresh, svc, objs, deleting>>,
         acked' \subseteq Changes, platform = "ecs" \/ UNCHANGED acked,
         budget' \in Budgets, defs' \subseteq Definitions, revs' \in Nat,
         \A d \in defs' : d.rev <= revs'
  PROVE  IInv'
  <1>1. call' \in [Handlers -> Calls] /\ AloneOK' /\ \A g \in Handlers : call'[g] \in {c, call[g]}
    BY CallsMove
  <1>2. TypeInv'
    BY <1>1, UNCHANGED <<platform, rec, fresh, svc, objs, deleting>> DEF IInv, TypeInv, TypeOK, Calls, Budgets
  <1>3. \A g \in Handlers : CallOK(call[g])'
    BY <1>1 DEF IInv, CallOK, SeenCurrent, CreateProgress, DeleteProgress
  <1> QED BY <1>1, <1>2, <1>3, Facts DEF IInv, ServiceOK, OwnObjects, AckedChangesKept

LEMMA ReturnLemma ==
  ASSUME IInv, NEW h \in Handlers, Return(h),
         UNCHANGED <<platform, rec, fresh, svc, objs, deleting, acked, defs, revs>>, budget' \in Budgets
  PROVE  IInv'
  BY MoveLemma, IdleTyped, IdleOK, Facts DEF Return, IInv, TypeInv

(* The service on ECS: only its creation makes it active. *)
LEMMA EcsServiceLemma ==
  ASSUME IInv, NEW h \in Handlers, NEW c \in Calls, c.op \in {"none", call[h].op}, CallOK(c)',
         platform = "ecs", svc' \in Services,
         call' = [call EXCEPT ![h] = c],
         svc'.st = "active" => \/ svc.st = "active" /\ svc'.uuid = svc.uuid
                               \/ call[h].op = "create" /\ svc'.uuid = rec,
         UNCHANGED <<platform, rec, fresh, objs, deleting, defs, revs, budget>>,
         acked' \subseteq Changes
  PROVE  IInv'
  <1>1. /\ call' \in [Handlers -> Calls] /\ AloneOK'
        /\ \A g \in Handlers : call'[g] = IF g = h THEN c ELSE call[g]
    BY CallsMove
  <1>2. TypeInv'
    BY <1>1 DEF IInv, TypeInv, TypeOK, Calls
  <1>3. svc'.st = "active" => rec # None /\ svc'.uuid = rec
    BY Facts DEF IInv, ServiceOK, CallOK
  <1>4. ASSUME NEW g \in Handlers PROVE CallOK(call[g])'
    <2>1. CASE g = h
      BY <1>1, <2>1
    <2>2. CASE g # h
      <3>1. CallOK(call[g]) /\ call'[g] = call[g]
        BY <1>1, <2>2, Facts
      <3>2. call[g].op = "delete" /\ call[g].pc \in {"dereg", "db"} => svc'.st # "active"
        BY <2>2, <3>1, Facts DEF CallOK, DeleteProgress, IInv, AloneOK
      <3> QED BY <3>1, <3>2 DEF CallOK, SeenCurrent, CreateProgress, DeleteProgress
    <2> QED BY <2>1, <2>2
  <1>5. ServiceOK' /\ OwnObjects' /\ AckedChangesKept'
    BY <1>3, Facts DEF IInv, ServiceOK, OwnObjects, AckedChangesKept
  <1> QED BY <1>1, <1>2, <1>4, <1>5 DEF IInv

(* A write back goes through only if nobody has changed the object since it *)
(* was read: it is the old object but for what the request changes.         *)
LEMMA PutLemma ==
  ASSUME IInv, NEW h \in Handlers, NEW c \in Calls, c.op \in {"none", call[h].op},
         call[h].pc = "put", c.pc \in {"idle", "wait", "remove"}, CallOK(c),
         svc.st # "none", svc.ver = call[h].seen.ver,
         call' = [call EXCEPT ![h] = c],
         svc' \in Services, svc'.st = call[h].seen.st, svc'.uuid = call[h].seen.uuid,
         svc'.ver = svc.ver + 1,
         acked' \subseteq Changes,
         acked \subseteq call[h].seen.spec => acked' \subseteq svc'.spec,
         UNCHANGED <<platform, rec, fresh, objs, deleting, defs, revs, budget>>
  PROVE  IInv'
  <1>1. /\ call' \in [Handlers -> Calls] /\ AloneOK'
        /\ \A g \in Handlers : call'[g] = IF g = h THEN c ELSE call[g]
    BY CallsMove
  <1>2. call[h].seen = svc /\ platform # "ecs" /\ svc.st = "active"
    BY Facts DEF CallOK, SeenCurrent, IInv, ServiceOK
  <1>3. svc'.st = "active" /\ svc'.uuid = svc.uuid /\ svc.ver \in Nat
    BY <1>2, Facts DEF Services
  <1>4. TypeInv'
    BY <1>1, <1>3 DEF IInv, TypeInv, TypeOK, Calls
  <1>5. ASSUME NEW g \in Handlers PROVE CallOK(call[g])'
    <2>1. CASE g = h
      BY <1>1, <1>2, <1>3, <2>1 DEF CallOK, SeenCurrent, CreateProgress, DeleteProgress
    <2>2. CASE g # h
      <3>1. CallOK(call[g]) /\ call'[g] = call[g] /\ call[g] \in Calls
        BY <1>1, <2>2, Facts
      <3>2. SeenCurrent(call[g])'
        <4>1. call[g].seen.ver \in Nat
          BY <3>1 DEF Calls, Services
        <4> QED BY <1>2, <1>3, <3>1, <4>1 DEF CallOK, SeenCurrent
      <3> QED BY <1>2, <1>3, <3>1, <3>2 DEF CallOK, CreateProgress, DeleteProgress
    <2> QED BY <2>1, <2>2
  <1>6. ServiceOK' /\ OwnObjects' /\ AckedChangesKept'
    BY <1>2, <1>3, Facts DEF IInv, ServiceOK, OwnObjects, AckedChangesKept
  <1> QED BY <1>1, <1>4, <1>5, <1>6 DEF IInv

(* While a create or a delete runs, it alone decides what there is. *)
LEMMA AloneLemma ==
  ASSUME IInv, NEW h \in Handlers, NEW c \in Calls, c.op \in {"none", call[h].op},
         call[h].op \in {"create", "delete"}, CallOK(c)',
         call' = [call EXCEPT ![h] = c],
         svc' \in Services, objs' \in [Parts -> UUIDs \cup {None}], rec' \in UUIDs \cup {None},
         ServiceOK', OwnObjects', AckedChangesKept',
         deleting' \in BOOLEAN, acked' \subseteq Changes,
         UNCHANGED <<platform, fresh, defs, revs, budget>>
  PROVE  IInv'
  <1>1. /\ call' \in [Handlers -> Calls] /\ AloneOK'
        /\ \A g \in Handlers : call'[g] = IF g = h THEN c ELSE call[g]
    BY CallsMove
  <1>2. TypeInv'
    BY <1>1 DEF IInv, TypeInv, TypeOK, Calls
  <1>3. ASSUME NEW g \in Handlers PROVE CallOK(call[g])'
    <2>1. CASE g = h
      BY <1>1, <2>1
    <2>2. CASE g # h
      <3>1. CallOK(call[g]) /\ call'[g] = call[g] /\ call[g].op = "none"
        BY <1>1, <2>2, Facts DEF IInv, AloneOK
      <3> QED BY <3>1 DEF CallOK, SeenCurrent, CreateProgress, DeleteProgress
    <2> QED BY <2>1, <2>2
  <1> QED BY <1>1, <1>2, <1>3 DEF IInv

-----------------------------------------------------------------------------
(* The requests and their steps *)

LEMMA BeginLemma ==
  ASSUME IInv, NEW h \in Handlers, Request(h)
  PROVE  IInv'
  <1>1. PICK op \in {"create", "update", "scale", "stop", "delete"}, arg \in Changes \cup Nat \cup {None} :
          Begin(h, op, arg) /\ (op = "update" => arg \in Changes) /\ (op = "scale" => arg \in Nat)
    BY Facts DEF Request, createService, updateServiceResource, scaleService, startService,
                 stopService, deleteService
  <1> DEFINE pc == FirstCall(op)
             c == [Idle EXCEPT !.op = op, !.arg = arg, !.pc = pc]
  <1>2. /\ pc \in Pcs /\ pc \notin {"idle", "put", "wait", "register", "dereg", "db"}
        /\ pc = "count" => platform = "ecs" /\ op \in {"scale", "stop", "delete"}
        /\ op \in {"create", "delete"} => pc \in {"exist", "count", "get"}
    BY <1>1 DEF FirstCall, Pcs
  <1>3. call' = [call EXCEPT ![h] = c] /\ call[h] = Idle /\ Alone(op)
    BY <1>1 DEF Begin
  <1> HIDE DEF pc
  <1>4. c \in Calls /\ c.op = op /\ c.pc = pc /\ c.arg = arg
    BY <1>1, <1>2, IdleTyped DEF Calls, Ops, Idle
  <1> HIDE DEF c
  <1>5. /\ call' \in [Handlers -> Calls]
        /\ \A g \in Handlers : call'[g] = IF g = h THEN c ELSE call[g]
    BY <1>3, <1>4 DEF IInv, TypeInv
  <1>6. AloneOK'
    BY <1>1, <1>3, <1>4, <1>5, IdleTyped DEF IInv, AloneOK, Alone
  <1>7. /\ rec' \in UUIDs \cup {None} /\ rec' # None /\ fresh' \subseteq UUIDs
        /\ rec' # rec => op = "create" /\ rec = None
        /\ deleting' \in BOOLEAN /\ budget' \in Budgets
        /\ UNCHANGED <<platform, svc, objs, defs, revs, acked>>
    <2>1. rec' \in UUIDs \cup {None} /\ rec' # None /\ fresh' \subseteq UUIDs
          /\ (rec' # rec => op = "create" /\ rec = None)
      BY <1>1, Facts DEF Begin, IInv, TypeInv, TypeOK
    <2>2. budget' \in Budgets
      BY <1>1, Facts DEF Begin, Budgets
    <2>3. deleting' \in BOOLEAN
      BY <1>1 DEF Begin, IInv, TypeInv, TypeOK
    <2> QED BY <1>1, <2>1, <2>2, <2>3 DEF Begin
  <1>8. TypeInv'
    BY <1>5, <1>7 DEF IInv, TypeInv, TypeOK, Calls, Budgets
  <1>9. ServiceOK' /\ OwnObjects' /\ AckedChangesKept'
    <2>1. CASE rec' = rec
      BY <1>7, <2>1 DEF IInv, ServiceOK, OwnObjects, AckedChangesKept
    <2>2. CASE rec' # rec
      BY <1>7, <2>2 DEF IInv, ServiceOK, OwnObjects, AckedChangesKept
    <2> QED BY <2>1, <2>2
  <1>10. ASSUME NEW g \in Handlers PROVE CallOK(call[g])'
    <2>1. CASE g = h
      BY <1>1, <1>2, <1>4, <1>5, <1>7, <2>1 DEF CallOK, SeenCurrent, CreateProgress, DeleteProgress
    <2>2. CASE g # h
      <3>1. CallOK(call[g]) /\ call'[g] = call[g] /\ (rec' # rec => call[g].op = "none")
        BY <1>3, <1>5, <1>7, <2>2, Facts DEF Alone
      <3> QED BY <1>7, <3>1 DEF CallOK, SeenCurrent, CreateProgress, DeleteProgress
    <2> QED BY <2>1, <2>2
  <1> QED BY <1>5, <1>6, <1>8, <1>9, <1>10 DEF IInv

LEMMA GotoIs ==
  ASSUME IInv, NEW h \in Handlers, NEW pc \in Pcs, Goto(h, pc)
  PROVE  \E c \in Calls : /\ c.op = call[h].op /\ c.pc = pc
                          /\ c.arg = call[h].arg /\ c.seen = call[h].seen
                          /\ call' = [call EXCEPT ![h] = c]
  <1> DEFINE c == [call[h] EXCEPT !.pc = pc]
  <1>1. c \in Calls /\ c.op = call[h].op /\ c.pc = pc /\ c.arg = call[h].arg /\ c.seen = call[h].seen
    BY GotoTyped, Facts
  <1>2. call' = [call EXCEPT ![h] = c]
    BY DEF Goto
  <1> HIDE DEF c
  <1> QED BY <1>1, <1>2

(* A call that only goes on to its next step. *)
LEMMA GotoLemma ==
  ASSUME IInv, NEW h \in Handlers, NEW pc \in Pcs, Goto(h, pc),
         CallOK([call[h] EXCEPT !.pc = pc]),
         UNCHANGED <<platform, rec, fresh, svc, objs, deleting, acked, defs, revs, budget>>
  PROVE  IInv'
  <1> DEFINE c == [call[h] EXCEPT !.pc = pc]
  <1>1. c \in Calls /\ c.op = call[h].op
    BY GotoTyped, Facts
  <1>2. call' = [call EXCEPT ![h] = c]
    BY DEF Goto
  <1> QED BY <1>1, <1>2, MoveLemma, Facts DEF IInv, TypeInv

LEMMA IsServiceExistLemma ==
  ASSUME IInv, NEW h \in Handlers, IsServiceExist(h)
  PROVE  IInv'
  <1>1. CASE svc.st = "active"
    BY <1>1, ReturnLemma, Facts DEF IsServiceExist
  <1>2. CASE svc.st # "active"
    <2>1. FirstCreate \in Pcs /\ FirstCreate \in {"def", "create", "headless"}
      BY Facts DEF FirstCreate, Pcs
    <2>2. CallOK([call[h] EXCEPT !.pc = FirstCreate])
      BY <2>1, GotoTyped, Facts
      DEF IsServiceExist, At, CallOK, SeenCurrent, CreateProgress, DeleteProgress
    <2> QED BY <1>2, <2>1, <2>2, GotoLemma DEF IsServiceExist
  <1> QED BY <1>1, <1>2

LEMMA RegisterLemma ==
  ASSUME IInv, NEW d \in Definitions, Register(d)
  PROVE  /\ defs' \subseteq Definitions /\ revs' = revs + 1 /\ revs + 1 \in Nat
         /\ \A x \in defs' : x.rev <= revs'
  <1> DEFINE r == revs + 1
  <1>1. r \in Nat /\ \A x \in defs : x \in Definitions /\ x.rev <= r
    BY DEF IInv, TypeInv, TypeOK, Definitions
  <1>2. revs' = r /\ defs' = defs \cup {[d EXCEPT !.rev = r]}
    BY DEF Register
  <1> HIDE DEF r
  <1>3. [d EXCEPT !.rev = r] \in Definitions /\ [d EXCEPT !.rev = r].rev = r /\ r <= r
    BY <1>1 DEF Definitions
  <1> QED BY <1>1, <1>2, <1>3 DEF r

(* A call that also remembers what it has read. *)
LEMMA RememberLemma ==
  ASSUME IInv, NEW h \in Handlers, NEW pc \in Pcs, NEW s \in Services, NEW r \in Nat,
         Remember(h, pc, s, r),
         CallOK([call[h] EXCEPT !.pc = pc, !.seen = s, !.rev = r]),
         UNCHANGED <<platform, rec, fresh, svc, objs, deleting, acked, budget>>,
         defs' \subseteq Definitions, revs' \in Nat, \A d \in defs' : d.rev <= revs'
  PROVE  IInv'
  <1> DEFINE c == [call[h] EXCEPT !.pc = pc, !.seen = s, !.rev = r]
  <1>1. c \in Calls /\ c.op = call[h].op
    BY Facts DEF Calls
  <1>2. call' = [call EXCEPT ![h] = c]
    BY DEF Remember
  <1> QED BY <1>1, <1>2, MoveLemma, Facts

LEMMA EcsTaskDefinitionLemma ==
  ASSUME IInv, NEW h \in Handlers, EcsTaskDefinition(h)
  PROVE  IInv'
  <1>1. ASSUME NEW r \in Nat PROVE CallOK([call[h] EXCEPT !.pc = "create", !.seen = NoService, !.rev = r])
    <2> DEFINE c == [call[h] EXCEPT !.pc = "create", !.seen = NoService, !.rev = r]
    <2>1. c.pc = "create" /\ c.op = call[h].op /\ c.arg = call[h].arg
      BY Facts DEF Calls
    <2> HIDE DEF c
    <2>2. CallOK(c)
      BY <2>1, Facts DEF EcsTaskDefinition, At, CallOK, SeenCurrent, CreateProgress, DeleteProgress
    <2> QED BY <2>2 DEF c
  <1>2. CASE checkTaskDefExist /\ Remember(h, "create", NoService, Latest.rev) /\ UNCHANGED <<defs, revs>>
    <2>1. Latest.rev \in Nat /\ "create" \in Pcs
      BY <1>2, LatestExists, Facts DEF IInv, TypeInv, checkTaskDefExist, Definitions, Pcs
    <2> QED BY <1>1, <1>2, <2>1, RememberLemma, IdleTyped, Facts DEF EcsTaskDefinition, IInv, TypeInv
  <1>3. CASE Register(NewDefinition) /\ Remember(h, "create", NoService, revs + 1)
    <2>1. NewDefinition \in Definitions /\ "create" \in Pcs
      BY Facts DEF EcsTaskDefinition, At, CallOK, NewDefinition, Definitions, Pcs
    <2>2. /\ defs' \subseteq Definitions /\ revs' = revs + 1 /\ revs + 1 \in Nat
          /\ \A x \in defs' : x.rev <= revs'
      BY <1>3, <2>1, RegisterLemma
    <2> QED BY <1>1, <1>3, <2>1, <2>2, RememberLemma, IdleTyped DEF EcsTaskDefinition
  <1> QED BY <1>2, <1>3 DEF EcsTaskDefinition

(* The service as the request creates it. *)
LEMMA NewServiceTyped ==
  ASSUME IInv, NEW r \in Nat
  PROVE  LET s == NewService(r)
         IN  s \in Services /\ s.st = "active" /\ s.uuid = rec /\ s.ver = 0
  BY BoundsAssumption DEF IInv, TypeInv, TypeOK, NewService, Services

LEMMA EcsCreateServiceLemma ==
  ASSUME IInv, NEW h \in Handlers, EcsCreateService(h)
  PROVE  IInv'
  <1>1. call[h].rev \in Nat
    BY Facts DEF Calls
  <1>2. svc' \in Services /\ svc'.uuid = rec
    BY <1>1, NewServiceTyped DEF EcsCreateService
  <1>3. call' = [call EXCEPT ![h] = Idle] /\ platform = "ecs" /\ call[h].op = "create"
        /\ acked' \subseteq Changes
    BY DEF EcsCreateService, Return, At
  <1> QED BY <1>2, <1>3, IdleTyped, IdleOK, EcsServiceLemma DEF EcsCreateService

LEMMA SwarmCreateServiceLemma ==
  ASSUME IInv, NEW h \in Handlers, SwarmCreateService(h)
  PROVE  IInv'
  <1>1. svc' \in Services /\ svc'.uuid = rec /\ svc'.st = "active"
    BY NewServiceTyped DEF SwarmCreateService, CreateServiceSpec
  <1>2. /\ call' = [call EXCEPT ![h] = Idle] /\ platform = "swarm" /\ call[h].op = "create"
        /\ acked' = {} /\ rec # None /\ UNCHANGED <<rec, objs, platform>>
    BY Facts DEF SwarmCreateService, Return, At, CallOK
  <1>3. ServiceOK' /\ OwnObjects' /\ AckedChangesKept'
    BY <1>1, <1>2 DEF IInv, ServiceOK, OwnObjects, AckedChangesKept
  <1> QED BY <1>1, <1>2, <1>3, IdleTyped, IdleOK, AloneLemma, Facts
          DEF SwarmCreateService, IInv, TypeInv, TypeOK

LEMMA CreateObjectLemma ==
  ASSUME IInv, NEW h \in Handlers,
         CreateHeadlessService(h) \/ CreateDataClass(h) \/ CreateJournalClass(h)
  PROVE  IInv'
  <1>1. PICK pc \in Parts, next \in Pcs :
          /\ CreateObject(h, pc, next)
          /\ pc = "headless" => next = "data"
          /\ pc = "data" => next = IF HasJournal THEN "journal" ELSE "stateful"
          /\ pc = "journal" => next = "stateful"
    BY DEF CreateHeadlessService, CreateDataClass, CreateJournalClass, Parts, Pcs
  <1>2. PICK c \in Calls :
          /\ c.op = "create" /\ c.pc = next /\ c.arg = call[h].arg /\ c.seen = call[h].seen
          /\ call[h].op = "create" /\ call[h].pc = pc /\ platform = "k8s" /\ rec # None
          /\ call' = [call EXCEPT ![h] = c]
    BY <1>1, GotoIs, Facts DEF CreateObject, At, CallOK
  <1>3. /\ objs' \in [Parts -> UUIDs \cup {None}] /\ objs'[pc] = rec
        /\ \A p \in Parts : p # pc => objs'[p] = objs[p]
    BY <1>1, <1>2, Facts DEF CreateObject, IInv, ServiceOK
  <1>4. UNCHANGED <<platform, rec, fresh, svc, defs, revs, acked, deleting, budget>>
    BY <1>1 DEF CreateObject
  <1>5. ServiceOK' /\ OwnObjects' /\ AckedChangesKept'
    BY <1>2, <1>3, <1>4 DEF IInv, ServiceOK, OwnObjects, AckedChangesKept, Parts
  <1>6. CallOK(c)'
    <2>1. next \in {"data", "journal", "stateful"} /\ (next = "journal" => HasJournal)
      BY <1>1, Facts DEF Parts
    <2>2. CreateProgress(c)'
      BY <1>1, <1>2, <1>3, <1>4, Facts DEF CallOK, CreateProgress, Parts
    <2> QED BY <1>2, <1>4, <2>1, <2>2 DEF CallOK, SeenCurrent, DeleteProgress
  <1>7. /\ svc' \in Services /\ rec' \in UUIDs \cup {None}
        /\ deleting' \in BOOLEAN /\ acked' \subseteq Changes
    BY <1>4 DEF IInv, TypeInv, TypeOK
  <1> QED BY <1>2, <1>3, <1>4, <1>5, <1>6, <1>7, AloneLemma

LEMMA CreateStatefulSetLemma ==
  ASSUME IInv, NEW h \in Handlers, CreateStatefulSet(h)
  PROVE  IInv'
  <1>1. svc' \in Services /\ svc'.st = "active" /\ svc'.uuid = rec
    BY NewServiceTyped, Facts DEF CreateStatefulSet, At, IInv, ServiceOK
  <1>2. /\ call' = [call EXCEPT ![h] = Idle] /\ platform = "k8s" /\ call[h].op = "create"
        /\ call[h].pc = "stateful"
        /\ acked' = {} /\ rec # None /\ UNCHANGED <<rec, objs, platform>>
    BY Facts DEF CreateStatefulSet, Return, At, CallOK
  <1>3. ServiceOK' /\ AckedChangesKept'
    BY <1>1, <1>2 DEF IInv, ServiceOK, AckedChangesKept
  <1>4. OwnObjects'
    BY <1>1, <1>2, Facts DEF OwnObjects, CallOK, CreateProgress
  <1> QED BY <1>1, <1>2, <1>3, <1>4, IdleTyped, IdleOK, AloneLemma, Facts
          DEF CreateStatefulSet, IInv, TypeInv, TypeOK

-----------------------------------------------------------------------------
(* The object that was read is kept for the write back. *)
LEMMA GetLemma ==
  ASSUME IInv, NEW h \in Handlers, NEW op \in {"update", "scale", "stop", "delete"}, Get(h, op)
  PROVE  IInv'
  <1>1. /\ platform \in {"swarm", "k8s"} /\ call[h].op = op /\ call[h].pc = "get"
        /\ UNCHANGED <<platform, rec, fresh, svc, objs, defs, revs, acked, deleting, budget>>
        /\ "put" \in Pcs /\ "remove" \in Pcs /\ 0 \in Nat
    BY DEF Get, At, Pcs
  <1>2. CASE ~Missing
    <2> DEFINE c == [call[h] EXCEPT !.pc = "put", !.seen = svc, !.rev = 0]
    <2>1. c.pc = "put" /\ c.op = call[h].op /\ c.arg = call[h].arg /\ c.seen = svc
      BY Facts DEF Calls
    <2> HIDE DEF c
    <2>2. svc.ver \in Nat
      BY Facts DEF Services
    <2>3. CallOK(c)
      BY <1>1, <2>1, <2>2, Facts DEF CallOK, SeenCurrent, CreateProgress, DeleteProgress
    <2>4. CallOK([call[h] EXCEPT !.pc = "put", !.seen = svc, !.rev = 0])
      BY <2>3 DEF c
    <2> QED BY <1>1, <1>2, <2>4, RememberLemma, Facts DEF Get, IInv, TypeInv
  <1>3. CASE Goto(h, "remove") /\ op = "delete"
    <2>1. CallOK([call[h] EXCEPT !.pc = "remove"])
      BY <1>1, <1>3, GotoTyped, Facts DEF CallOK, SeenCurrent, CreateProgress, DeleteProgress
    <2> QED BY <1>1, <1>3, <2>1, GotoLemma
  <1>4. CASE Return(h)
    BY <1>1, <1>4, ReturnLemma, Facts
  <1> QED BY <1>2, <1>3, <1>4 DEF Get

LEMMA PutRefusedLemma ==
  ASSUME IInv, NEW h \in Handlers, PutRefused(h)
  PROVE  IInv'
  BY ReturnLemma, Facts DEF PutRefused

LEMMA PutUpdateLemma ==
  ASSUME IInv, NEW h \in Handlers, SwarmUpdateService(h) \/ K8sUpdateService(h)
  PROVE  IInv'
  <1> DEFINE seen == call[h].seen
             v == svc.ver + 1
             s == seen.spec \cup {call[h].arg}
  <1>1. /\ call[h].op = "update" /\ call[h].pc = "put" /\ svc.st # "none" /\ svc.ver = seen.ver
        /\ svc' = [[seen EXCEPT !.spec = s] EXCEPT !.ver = v]
        /\ acked' = acked \cup {call[h].arg} /\ call' = [call EXCEPT ![h] = Idle]
        /\ UNCHANGED <<platform, rec, fresh, objs, defs, revs, deleting, budget>>
    BY DEF SwarmUpdateService, K8sUpdateService, PutUpdate, Put, At, Return
  <1>2. v \in Nat /\ s \in SUBSET Changes /\ acked' \subseteq Changes
    BY <1>1, Facts DEF CallOK, Calls, Services
  <1> HIDE DEF v, s
  <1>3. /\ svc' \in Services /\ svc'.st = seen.st /\ svc'.uuid = seen.uuid
        /\ svc'.ver = v /\ svc'.spec = s
    BY <1>1, <1>2, Facts DEF Calls, Services
  <1> QED BY <1>1, <1>2, <1>3, PutLemma, IdleTyped, IdleOK DEF v, s

LEMMA PutScaleLemma ==
  ASSUME IInv, NEW h \in Handlers, SwarmScaleService(h) \/ K8sScaleService(h)
  PROVE  IInv'
  <1> DEFINE seen == call[h].seen
             v == svc.ver + 1
  <1>1. /\ call[h].op = "scale" /\ call[h].pc = "put" /\ svc.st # "none" /\ svc.ver = seen.ver
        /\ svc' = [[seen EXCEPT !.desired = call[h].arg] EXCEPT !.ver = v]
        /\ call' = [call EXCEPT ![h] = Idle]
        /\ UNCHANGED <<platform, rec, fresh, objs, defs, revs, acked, deleting, budget>>
    BY DEF SwarmScaleService, K8sScaleService, PutScale, Put, At, Return
  <1>2. v \in Nat /\ call[h].arg \in Nat /\ acked' \subseteq Changes
    BY <1>1, Facts DEF CallOK, Services
  <1> HIDE DEF v
  <1>3. /\ svc' \in Services /\ svc'.st = seen.st /\ svc'.uuid = seen.uuid
        /\ svc'.ver = v /\ svc'.spec = seen.spec
    BY <1>1, <1>2, Facts DEF Calls, Services
  <1> QED BY <1>1, <1>2, <1>3, PutLemma, IdleTyped, IdleOK DEF v

LEMMA PutStopLemma ==
  ASSUME IInv, NEW h \in Handlers, SwarmStopService(h) \/ K8sStopService(h)
  PROVE  IInv'
  <1> DEFINE seen == call[h].seen
             v == svc.ver + 1
  <1>1. /\ call[h].op \in {"stop", "delete"} /\ call[h].pc = "put"
        /\ svc.st # "none" /\ svc.ver = seen.ver
        /\ svc' = [[seen EXCEPT !.desired = 0] EXCEPT !.ver = v]
        /\ Return(h) \/ Goto(h, "wait") \/ (Goto(h, "remove") /\ call[h].op = "delete")
        /\ UNCHANGED <<platform, rec, fresh, objs, defs, revs, acked, deleting, budget>>
    BY DEF SwarmStopService, K8sStopService, PutStop, Put, At, AfterStop
  <1>2. v \in Nat /\ acked' \subseteq Changes
    BY <1>1, Facts DEF Services
  <1> HIDE DEF v
  <1>3. /\ svc' \in Services /\ svc'.st = seen.st /\ svc'.uuid = seen.uuid
        /\ svc'.ver = v /\ svc'.spec = seen.spec
    BY <1>1, <1>2, Facts DEF Calls, Services
  <1>4. PICK c \in Calls : /\ c = Idle \/ (c.op = call[h].op /\ c.arg = call[h].arg)
                           /\ c.pc \in {"idle", "wait", "remove"}
                           /\ c.pc = "idle" => c = Idle
                           /\ call' = [call EXCEPT ![h] = c]
    <2>1. CASE Return(h)
      BY <2>1, IdleTyped DEF Return
    <2>2. CASE \E pc \in {"wait", "remove"} : Goto(h, pc)
      BY <2>2, GotoIs DEF Pcs
    <2> QED BY <1>1, <2>1, <2>2
  <1>5. CallOK(c)
    <2>1. CASE c = Idle
      BY <2>1, IdleOK
    <2>2. CASE c # Idle
      BY <1>1, <1>4, <2>2, Facts DEF CallOK, SeenCurrent, CreateProgress, DeleteProgress
    <2> QED BY <2>1, <2>2
  <1>6. c.op \in {"none", call[h].op}
    BY <1>4, IdleTyped
  <1> QED BY <1>1, <1>2, <1>3, <1>4, <1>5, <1>6, PutLemma DEF v

LEMMA WaitStoppedLemma ==
  ASSUME IInv, NEW h \in Handlers, EcsWaitTaskStop(h) \/ K8sWaitReplicas(h)
  PROVE  IInv'
  <1>1. /\ call[h].pc = "wait" /\ AfterStop(h) /\ "remove" \in Pcs
        /\ UNCHANGED <<platform, rec, fresh, svc, objs, defs, revs, acked, deleting, budget>>
    BY DEF EcsWaitTaskStop, K8sWaitReplicas, WaitStopped, Pcs
  <1>2. CASE call[h].op = "delete"
    <2>1. CallOK([call[h] EXCEPT !.pc = "remove"])
      BY <1>1, <1>2, GotoTyped, Facts DEF CallOK, SeenCurrent, CreateProgress, DeleteProgress
    <2> QED BY <1>1, <1>2, <2>1, GotoLemma DEF AfterStop
  <1>3. CASE call[h].op # "delete"
    BY <1>1, <1>3, ReturnLemma, Facts DEF AfterStop
  <1> QED BY <1>2, <1>3

-----------------------------------------------------------------------------
LEMMA EcsUpdateCountLemma ==
  ASSUME IInv, NEW h \in Handlers, EcsUpdateCount(h)
  PROVE  IInv'
  <1> DEFINE n == IF call[h].op = "scale" THEN call[h].arg ELSE 0
  <1>1. /\ platform = "ecs" /\ call[h].pc = "count" /\ n \in Nat
        /\ svc' = IF svc.st = "active" THEN [svc EXCEPT !.desired = n] ELSE svc
        /\ UNCHANGED <<platform, rec, fresh, objs, defs, revs, acked, deleting, budget>>
    BY Facts DEF EcsUpdateCount, CallOK
  <1> HIDE DEF n
  <1>2. svc' \in Services /\ svc'.st = svc.st /\ svc'.uuid = svc.uuid /\ acked' \subseteq Changes
    BY <1>1, Facts DEF Services
  <1>3. \/ Return(h)
        \/ Goto(h, "wait") /\ svc.st = "active" /\ call[h].op # "scale"
        \/ Goto(h, "remove") /\ call[h].op = "delete"
    BY DEF EcsUpdateCount
  <1>4. CASE Return(h)
    BY <1>1, <1>2, <1>4, EcsServiceLemma, IdleTyped, IdleOK DEF Return
  <1>5. CASE ~Return(h)
    <2>1. PICK pc \in {"wait", "remove"} : Goto(h, pc) /\ pc \in Pcs
                                            /\ (pc = "remove" => call[h].op = "delete")
                                            /\ (pc = "wait" => call[h].op # "scale")
      BY <1>3, <1>5 DEF Pcs
    <2>2. PICK c \in Calls : /\ c.op = call[h].op /\ c.pc = pc /\ c.arg = call[h].arg
                             /\ call' = [call EXCEPT ![h] = c]
      BY <2>1, GotoIs
    <2>3. CallOK(c)'
      BY <1>1, <2>1, <2>2, Facts DEF CallOK, SeenCurrent, CreateProgress, DeleteProgress
    <2> QED BY <1>1, <1>2, <2>2, <2>3, EcsServiceLemma
  <1> QED BY <1>4, <1>5

LEMMA EcsDescribeDefinitionLemma ==
  ASSUME IInv, NEW h \in Handlers, EcsDescribeDefinition(h)
  PROVE  IInv'
  <1>1. CASE ~checkTaskDefExist
    BY <1>1, ReturnLemma, Facts DEF EcsDescribeDefinition
  <1>2. CASE checkTaskDefExist
    <2> DEFINE s == [NoService EXCEPT !.uuid = Latest.uuid, !.spec = Latest.spec]
               r == Latest.rev
               c == [call[h] EXCEPT !.pc = "register", !.seen = s, !.rev = r]
    <2>1. Latest \in Definitions
      BY <1>2, LatestExists, Facts DEF IInv, TypeInv, checkTaskDefExist
    <2>2. s \in Services /\ s.uuid \in UUIDs /\ r \in Nat /\ "register" \in Pcs
      BY <2>1 DEF Definitions, Services, NoService, Pcs
    <2> HIDE DEF s, r
    <2>3. c.pc = "register" /\ c.op = call[h].op /\ c.arg = call[h].arg /\ c.seen = s
      BY Facts DEF Calls
    <2> HIDE DEF c
    <2>4. CallOK(c)
      BY <2>2, <2>3, Facts DEF EcsDescribeDefinition, At, CallOK, SeenCurrent, CreateProgress, DeleteProgress
    <2>5. CallOK([call[h] EXCEPT !.pc = "register", !.seen = s, !.rev = r])
      BY <2>4 DEF c
    <2>6. Remember(h, "register", s, r)
      BY <1>2 DEF EcsDescribeDefinition, s, r
    <2> QED BY <2>2, <2>5, <2>6, RememberLemma, Facts DEF EcsDescribeDefinition, IInv, TypeInv
  <1> QED BY <1>1, <1>2

LEMMA EcsRegisterChangeLemma ==
  ASSUME IInv, NEW h \in Handlers, EcsRegisterChange(h)
  PROVE  IInv'
  <1> DEFINE d == [rev |-> 0, uuid |-> call[h].seen.uuid, spec |-> call[h].seen.spec \cup {call[h].arg}]
             r == revs + 1
             s == [call[h].seen EXCEPT !.def = r]
             c == [call[h] EXCEPT !.pc = "point", !.seen = s]
  <1>1. call[h].op = "update" /\ call[h].pc = "register" /\ d \in Definitions /\ r \in Nat
    BY Facts DEF EcsRegisterChange, At, CallOK, Calls, Services, Definitions
  <1>2. defs' \subseteq Definitions /\ revs' \in Nat /\ \A x \in defs' : x.rev <= revs'
    BY <1>1, RegisterLemma DEF EcsRegisterChange
  <1> HIDE DEF r
  <1>3. s \in Services
    BY <1>1, Facts DEF Calls, Services
  <1>4. call' = [call EXCEPT ![h] = c]
    BY DEF EcsRegisterChange, r
  <1> HIDE DEF s
  <1>5. c \in Calls /\ c.pc = "point" /\ c.op = call[h].op /\ c.arg = call[h].arg
    BY <1>3, Facts DEF Calls, Pcs
  <1> HIDE DEF c
  <1>6. CallOK(c)
    BY <1>1, <1>5, Facts DEF CallOK, SeenCurrent, CreateProgress, DeleteProgress
  <1> QED BY <1>2, <1>4, <1>5, <1>6, MoveLemma, Facts DEF EcsRegisterChange

LEMMA EcsPointServiceLemma ==
  ASSUME IInv, NEW h \in Handlers, EcsPointService(h)
  PROVE  IInv'
  <1>0. /\ platform = "ecs" /\ call[h].op = "update" /\ call[h].pc = "point" /\ "retire" \in Pcs
        /\ UNCHANGED <<platform, rec, fresh, objs, defs, revs, acked, deleting, budget>>
    BY DEF EcsPointService, At, Pcs
  <1>1. CASE svc.st # "active"
    BY <1>0, <1>1, ReturnLemma, Facts DEF EcsPointService
  <1>2. CASE svc.st = "active"
    <2>1. svc' = [svc EXCEPT !.def = call[h].seen.def] /\ Goto(h, "retire")
      BY <1>2 DEF EcsPointService
    <2>2. svc' \in Services /\ svc'.st = svc.st /\ svc'.uuid = svc.uuid /\ acked' \subseteq Changes
      BY <1>0, <2>1, Facts DEF Calls, Services
    <2>3. PICK c \in Calls : /\ c.op = call[h].op /\ c.pc = "retire" /\ c.arg = call[h].arg
                             /\ call' = [call EXCEPT ![h] = c]
      BY <1>0, <2>1, GotoIs
    <2>4. CallOK(c)'
      BY <1>0, <2>3, Facts DEF CallOK, SeenCurrent, CreateProgress, DeleteProgress
    <2> QED BY <1>0, <2>2, <2>3, <2>4, EcsServiceLemma
  <1> QED BY <1>1, <1>2

LEMMA EcsRetireDefinitionLemma ==
  ASSUME IInv, NEW h \in Handlers, EcsRetireDefinition(h)
  PROVE  IInv'
  <1>1. defs' \subseteq defs /\ budget' \in Budgets
    BY Facts DEF EcsRetireDefinition, Deregister, Budgets
  <1>2. acked' \subseteq Changes /\ platform = "ecs"
    BY Facts DEF EcsRetireDefinition, At, CallOK
  <1>3. defs' \subseteq Definitions /\ \A d \in defs' : d.rev <= revs
    BY <1>1 DEF IInv, TypeInv, TypeOK
  <1> QED BY <1>1, <1>2, <1>3, MoveLemma, IdleTyped, IdleOK, Facts DEF EcsRetireDefinition, Return

-----------------------------------------------------------------------------
LEMMA EcsDeleteServiceLemma ==
  ASSUME IInv, NEW h \in Handlers, EcsDeleteService(h)
  PROVE  IInv'
  <1>0. /\ platform = "ecs" /\ call[h].op = "delete" /\ call[h].pc = "remove"
        /\ {"dereg", "db"} \subseteq Pcs
        /\ UNCHANGED <<platform, rec, fresh, objs, defs, revs, acked, deleting, budget>>
        /\ acked' \subseteq Changes
    BY Facts DEF EcsDeleteService, At, Pcs
  <1>1. CASE svc.st = "active"
    <2> DEFINE c == [call[h] EXCEPT !.pc = "dereg", !.seen = NoService, !.rev = svc.def]
    <2>1. svc' = [svc EXCEPT !.st = "inactive"] /\ call' = [call EXCEPT ![h] = c]
      BY <1>1 DEF EcsDeleteService, Remember
    <2>2. svc' \in Services /\ svc'.st = "inactive"
      BY <2>1, Facts DEF Services
    <2>3. svc.def \in Nat
      BY Facts DEF Services
    <2>4. PICK e \in Calls : e = c /\ e.pc = "dereg" /\ e.op = "delete"
      <3>1. c \in Calls /\ c.pc = "dereg" /\ c.op = "delete"
        BY <1>0, <2>3, IdleTyped, Facts DEF Calls
      <3> QED BY <3>1
    <2>5. CallOK(e)'
      BY <1>0, <2>2, <2>4, Facts DEF CallOK, SeenCurrent, CreateProgress, DeleteProgress
    <2> QED BY <1>0, <2>1, <2>2, <2>4, <2>5, EcsServiceLemma
  <1>2. CASE svc.st = "inactive"
    BY <1>0, <1>2, ReturnLemma, Facts DEF EcsDeleteService
  <1>3. CASE svc.st \notin {"active", "inactive"}
    <2>1. UNCHANGED svc
      BY <1>3 DEF EcsDeleteService
    <2>2. CASE ~checkTaskDefExist
      <3>1. CallOK([call[h] EXCEPT !.pc = "db"])
        BY <1>0, <1>3, GotoTyped, Facts DEF CallOK, SeenCurrent, CreateProgress, DeleteProgress
      <3>2. Goto(h, "db")
        BY <1>3, <2>2 DEF EcsDeleteService
      <3> QED BY <1>0, <2>1, <3>1, <3>2, GotoLemma
    <2>3. CASE checkTaskDefExist
      <3> DEFINE r == Latest.rev
                 c == [call[h] EXCEPT !.pc = "dereg", !.seen = NoService, !.rev = r]
      <3>1. r \in Nat /\ Remember(h, "dereg", NoService, r)
        BY <1>3, <2>3, LatestExists, Facts
        DEF IInv, TypeInv, checkTaskDefExist, EcsDeleteService, Definitions
      <3> HIDE DEF r
      <3>2. c.pc = "dereg" /\ c.op = call[h].op /\ c.arg = call[h].arg
        BY Facts DEF Calls
      <3> HIDE DEF c
      <3>3. CallOK(c)
        BY <1>0, <1>3, <3>2, Facts DEF CallOK, SeenCurrent, CreateProgress, DeleteProgress
      <3>4. CallOK([call[h] EXCEPT !.pc = "dereg", !.seen = NoService, !.rev = r])
        BY <3>3 DEF c
      <3> QED BY <1>0, <2>1, <3>1, <3>4, RememberLemma, IdleTyped, Facts DEF IInv, TypeInv
    <2> QED BY <2>2, <2>3
  <1> QED BY <1>1, <1>2, <1>3

LEMMA EcsDeregisterDefinitionLemma ==
  ASSUME IInv, NEW h \in Handlers, EcsDeregisterDefinition(h)
  PROVE  IInv'
  <1>1. /\ platform = "ecs" /\ call[h].op = "delete" /\ call[h].pc = "dereg" /\ "db" \in Pcs
        /\ defs' \subseteq defs /\ Goto(h, "db")
        /\ UNCHANGED <<platform, rec, fresh, svc, objs, revs, acked, deleting, budget>>
    BY DEF EcsDeregisterDefinition, At, Deregister, Pcs
  <1>2. PICK c \in Calls : /\ c.op = call[h].op /\ c.pc = "db" /\ c.arg = call[h].arg
                           /\ call' = [call EXCEPT ![h] = c]
    BY <1>1, GotoIs
  <1>3. CallOK(c)
    BY <1>1, <1>2, Facts DEF CallOK, SeenCurrent, CreateProgress, DeleteProgress
  <1>4. defs' \subseteq Definitions /\ \A d \in defs' : d.rev <= revs
    BY <1>1 DEF IInv, TypeInv, TypeOK
  <1> QED BY <1>1, <1>2, <1>3, <1>4, MoveLemma, Facts

LEMMA EcsForgetsServiceLemma ==
  ASSUME IInv, EcsForgetsService
  PROVE  IInv'
  <1>1. /\ platform = "ecs" /\ svc' = NoService /\ svc'.st = "none" /\ svc' \in Services
        /\ UNCHANGED <<platform, rec, fresh, objs, defs, revs, call, acked, deleting, budget>>
    BY IdleTyped DEF EcsForgetsService, NoService
  <1>2. TypeInv' /\ AloneOK'
    BY <1>1 DEF IInv, TypeInv, TypeOK, AloneOK
  <1>3. ServiceOK' /\ OwnObjects' /\ AckedChangesKept'
    BY <1>1 DEF IInv, ServiceOK, OwnObjects, AckedChangesKept
  <1>4. \A g \in Handlers : CallOK(call[g])'
    BY <1>1 DEF IInv, CallOK, SeenCurrent, CreateProgress, DeleteProgress
  <1> QED BY <1>2, <1>3, <1>4 DEF IInv

(* The swarm service, and the statefulset, are removed. *)
LEMMA RemoveServiceLemma ==
  ASSUME IInv, NEW h \in Handlers, SwarmDeleteService(h) \/ DeleteStatefulSet(h)
  PROVE  IInv'
  <1>1. /\ call[h].op = "delete" /\ call[h].pc = "remove"
        /\ svc' = NoService /\ svc'.st = "none" /\ svc' \in Services
        /\ UNCHANGED <<platform, rec, fresh, objs, defs, revs, acked, deleting, budget>>
    BY IdleTyped DEF SwarmDeleteService, DeleteStatefulSet, At, NoService
  <1>2. PICK pc \in Pcs : /\ Goto(h, pc)
                          /\ \/ pc = "db" /\ platform = "swarm"
                             \/ pc = "headless" /\ platform = "k8s"
    BY DEF SwarmDeleteService, DeleteStatefulSet, At, Pcs
  <1>3. PICK c \in Calls : /\ c.op = call[h].op /\ c.pc = pc /\ c.arg = call[h].arg
                           /\ call' = [call EXCEPT ![h] = c]
    BY <1>2, GotoIs
  <1>4. CallOK(c)'
    BY <1>1, <1>2, <1>3, Facts DEF CallOK, SeenCurrent, CreateProgress, DeleteProgress
  <1>5. ServiceOK' /\ OwnObjects' /\ AckedChangesKept'
    BY <1>1 DEF IInv, ServiceOK, OwnObjects, AckedChangesKept
  <1> QED BY <1>1, <1>3, <1>4, <1>5, AloneLemma, Facts DEF IInv, TypeInv, TypeOK

LEMMA DeleteObjectLemma ==
  ASSUME IInv, NEW h \in Handlers, DeleteHeadlessService(h) \/ DeleteStorageClass(h)
  PROVE  IInv'
  <1>1. PICK pc \in Parts, next \in Pcs :
          /\ DeleteObject(h, pc, next)
          /\ pc = "headless" => next = "data"
          /\ pc = "data" => next = "journal"
          /\ pc = "journal" => next = "db"
    BY DEF DeleteHeadlessService, DeleteStorageClass, Parts, Pcs
  <1>2. /\ call[h].op = "delete" /\ call[h].pc = pc /\ platform = "k8s" /\ Goto(h, next)
        /\ objs' = [objs EXCEPT ![pc] = None]
        /\ UNCHANGED <<platform, rec, fresh, svc, defs, revs, acked, deleting, budget>>
    BY <1>1 DEF DeleteObject, At
  <1>3. PICK c \in Calls : /\ c.op = call[h].op /\ c.pc = next /\ c.arg = call[h].arg
                           /\ call' = [call EXCEPT ![h] = c]
    BY <1>2, GotoIs
  <1>4. /\ objs' \in [Parts -> UUIDs \cup {None}] /\ objs'[pc] = None
        /\ \A p \in Parts : p # pc => objs'[p] = objs[p]
        /\ svc.st = "none" /\ rec # None
    BY <1>2, Facts DEF CallOK, DeleteProgress, Parts
  <1>5. ServiceOK' /\ OwnObjects' /\ AckedChangesKept'
    BY <1>2, <1>4 DEF IInv, ServiceOK, OwnObjects, AckedChangesKept
  <1>6. CallOK(c)'
    <2>1. next \in {"data", "journal", "db"}
      BY <1>1 DEF Parts
    <2>2. DeleteProgress(c)'
      BY <1>1, <1>2, <1>3, <1>4, <2>1, Facts DEF CallOK, DeleteProgress, Parts
    <2> QED BY <1>2, <1>3, <1>4, <2>1, <2>2 DEF CallOK, SeenCurrent, CreateProgress
  <1>7. svc' \in Services /\ rec' \in UUIDs \cup {None} /\ deleting' \in BOOLEAN /\ acked' \subseteq Changes
    BY <1>2 DEF IInv, TypeInv, TypeOK
  <1> QED BY <1>2, <1>3, <1>4, <1>5, <1>6, <1>7, AloneLemma

LEMMA DeleteRecordLemma ==
  ASSUME IInv, NEW h \in Handlers, DeleteRecord(h)
  PROVE  IInv'
  <1>1. /\ call[h].op = "delete" /\ call[h].pc = "db" /\ rec' = None /\ deleting' = FALSE
        /\ call' = [call EXCEPT ![h] = Idle]
        /\ UNCHANGED <<platform, fresh, svc, objs, defs, revs, acked, budget>>
    BY DEF DeleteRecord, Return
  <1>2. svc.st # "active" /\ \A p \in Parts : objs[p] = None
    BY <1>1, Facts DEF CallOK, DeleteProgress, IInv, ServiceOK, Parts
  <1>3. ServiceOK' /\ OwnObjects' /\ AckedChangesKept'
    BY <1>1, <1>2 DEF IInv, ServiceOK, OwnObjects, AckedChangesKept
  <1> QED BY <1>1, <1>3, IdleTyped, IdleOK, AloneLemma, Facts

LEMMA CrashLemma ==
  ASSUME IInv, Crash
  PROVE  IInv'
  <1>1. /\ call' = [h \in Handlers |-> Idle] /\ budget' \in Budgets
        /\ UNCHANGED <<platform, rec, fresh, svc, objs, defs, revs, acked, deleting>>
    BY DEF Crash, IInv, TypeInv, TypeOK, Budgets
  <1>2. TypeInv' /\ AloneOK'
    BY <1>1, IdleTyped DEF IInv, TypeInv, TypeOK, AloneOK, Calls, Budgets
  <1>3. ServiceOK' /\ OwnObjects' /\ AckedChangesKept'
    BY <1>1 DEF IInv, ServiceOK, OwnObjects, AckedChangesKept
  <1>4. \A g \in Handlers : CallOK(call[g])'
    BY <1>1, IdleOK
  <1> QED BY <1>2, <1>3, <1>4 DEF IInv

-----------------------------------------------------------------------------

LEMMA StepLemma ==
  ASSUME IInv, NEW h \in Handlers, Step(h)
  PROVE  IInv'
  BY IsServiceExistLemma, EcsTaskDefinitionLemma, EcsCreateServiceLemma, SwarmCreateServiceLemma,
     CreateObjectLemma, CreateStatefulSetLemma, GetLemma, PutUpdateLemma, PutScaleLemma, PutStopLemma,
     PutRefusedLemma, WaitStoppedLemma, EcsUpdateCountLemma, EcsDescribeDefinitionLemma,
     EcsRegisterChangeLemma, EcsPointServiceLemma, EcsRetireDefinitionLemma, EcsDeleteServiceLemma,
     EcsDeregisterDefinitionLemma, RemoveServiceLemma, DeleteObjectLemma, DeleteRecordLemma DEF Step

LEMMA InductiveStep ==
  ASSUME IInv, [Next]_vars
  PROVE  IInv'
  <1>1. CASE UNCHANGED vars
    BY <1>1 DEF vars, IInv, TypeInv, TypeOK, AloneOK, ServiceOK, OwnObjects, AckedChangesKept,
               CallOK, SeenCurrent, CreateProgress, DeleteProgress
  <1>2. CASE Next
    <2>1. ASSUME NEW h \in Handlers, Fault(h) PROVE IInv'
      <3>1. budget' \in Budgets
        BY <2>1, Facts DEF Fault, Budgets
      <3> QED BY <2>1, <3>1, ReturnLemma DEF Fault
    <2> QED BY <1>2, <2>1, BeginLemma, StepLemma, EcsForgetsServiceLemma, CrashLemma DEF Next
  <1> QED BY <1>1, <1>2

LEMMA Inductive == Spec => []IInv
  <1>1. Init => IInv
    BY InitLemma
  <1>2. IInv /\ [Next]_vars => IInv'
    BY InductiveStep
  <1> QED BY <1>1, <1>2, PTL DEF Spec

(* Every variable keeps its type, whatever requests, platform failures and  *)
(* restarts of the manage server come together.                             *)
THEOREM TypeCorrect == Spec => []TypeOK
  <1>1. IInv => TypeOK
    BY DEF IInv, TypeInv
  <1> QED BY <1>1, Inductive, PTL

(* SwarmSvc.UpdateService, ScaleService and StopService, and K8sSvc's, never *)
(* write an acknowledged resource update away: they replace the object only *)
(* with the version they have read.                                         *)
THEOREM UpdatesAreKept == Spec => []AckedChangesKept
  <1>1. IInv => AckedChangesKept
    BY DEF IInv
  <1> QED BY <1>1, Inductive, PTL

(* A service that runs on K8s runs with the headless service and storage    *)
(* classes of its own incarnation, and the name of a deleted service has    *)
(* nothing left on the platform.                                            *)
THEOREM RunsWithOwnObjects == Spec => []OwnObjects
  <1>1. IInv => OwnObjects
    BY DEF IInv
  <1> QED BY <1>1, Inductive, PTL
=============================================================================
