-------------------------- MODULE ConfigFilesProofs --------------------------
(***************************************************************************)
(* The current config file is safe, for any number of requests, versions   *)
(* and faults: from the first update on whatever services users try to     *)
(* create again, and before it if a CreateService is only repeated with    *)
(* the config it was first sent with.  (With another config the repeated   *)
(* create overwrites the file the record already names.)                   *)
(*                                                                         *)
(* CurrentFileKept is not inductive: a request acts on the record it read  *)
(* some steps ago.  The strengthening says what its old copy still tells.  *)
(***************************************************************************)
EXTENDS ConfigFiles, TLAPS

(* A busy update request holds an older or the current record, and is       *)
(* writing the version after it.                                            *)
HoldsRecord(r) ==
  r.pc # "idle" =>
    /\ rec \in Records /\ r.old \in Records /\ r.content \in All
    /\ r.ver = r.old.ver + 1
    /\ r.old.rev <= rec.rev /\ r.old.ver <= rec.ver
    /\ r.old.rev = rec.rev => r.old = rec

(* About to update the record, its new file is in place unless the record   *)
(* has changed; about to delete the old file, the record has moved on.      *)
FileInPlace(r) ==
  /\ r.pc = "update" /\ r.old = rec => files[r.ver] = r.content
  /\ r.pc = "delOld" => r.old.ver < rec.ver

(* A creation only deals with version 0; it finds no mismatch and has its   *)
(* file in place if all creations have the same config.                     *)
CreatesOnly(r) ==
  /\ r.pc \in {"idle", "putFile", "check", "delete", "putAttr"}
  /\ r.ver = 0
  /\ r.pc # "idle" => r.content \in CreateContents
  /\ SameConfig => r.pc # "delete"
  /\ SameConfig /\ r.pc = "putAttr" /\ rec = None => files[0] = r.content

FirstFileOK == SameConfig => files[0] \in CreateContents \cup {None}

RequestOK(p, r) ==
  /\ p \in Updaters => r.pc \notin {"delete", "putAttr"} /\ HoldsRecord(r) /\ FileInPlace(r)
  /\ p \in Creators => CreatesOnly(r)

IInv ==
  /\ TypeOK
  /\ CurrentFileKept
  /\ FirstFileOK
  /\ \A p \in Procs : RequestOK(p, proc[p])

-----------------------------------------------------------------------------

LEMMA IdleOK ==
  ASSUME NEW p
  PROVE  NoRequest \in Requests /\ RequestOK(p, NoRequest)
  BY ConfigAssumption
  DEF NoRequest, Requests, Steps, Versions, RequestOK, HoldsRecord, FileInPlace, CreatesOnly

LEMMA InitLemma ==
  ASSUME Init
  PROVE  IInv
  BY IdleOK, ConfigAssumption DEF Init, IInv, TypeOK, CurrentFileKept, FirstFileOK, Versions

(* What a step that only moves the request p has to show. *)
LEMMA MoveLemma ==
  ASSUME IInv, NEW p \in Procs, NEW r \in Requests, RequestOK(p, r), Become(p, r),
         UNCHANGED <<rec, files, drv, local, others>>, faults' \in 0..MaxFaults
  PROVE  IInv'
  <1>1. TypeOK'
    BY DEF IInv, TypeOK, Become
  <1>2. CurrentFileKept' /\ FirstFileOK'
    BY DEF IInv, CurrentFileKept, FirstFileOK
  <1>3. ASSUME NEW q \in Procs PROVE RequestOK(q, proc'[q])
    BY DEF IInv, TypeOK, Become
  <1>4. \A q \in Procs : RequestOK(q, proc[q])'
    BY <1>3 DEF RequestOK, HoldsRecord, FileInPlace, CreatesOnly
  <1> QED BY <1>1, <1>2, <1>4 DEF IInv

LEMMA ReturnLemma ==
  ASSUME IInv, NEW p \in Procs, Return(p),
         UNCHANGED <<rec, files, drv, local, others>>, faults' \in 0..MaxFaults
  PROVE  IInv'
  BY IdleOK, MoveLemma DEF Return

(* The facts about the request of a step, by the kind of p. *)
LEMMA RequestFacts ==
  ASSUME IInv, NEW p \in Procs
  PROVE  /\ proc[p] \in Requests
         /\ p \in Updaters => /\ proc[p].pc \notin {"delete", "putAttr"}
                              /\ HoldsRecord(proc[p]) /\ FileInPlace(proc[p])
         /\ p \in Creators => CreatesOnly(proc[p])
         /\ p \in Updaters \/ p \in Creators
         /\ p \in Updaters <=> p \notin Creators
         /\ faults \in 0..MaxFaults
  BY ConfigAssumption DEF IInv, TypeOK, RequestOK, Procs

LEMMA BeginCreateLemma ==
  ASSUME IInv, NEW p \in Procs, BeginCreate(p)
  PROVE  IInv'
  <1>1. PICK c \in CreateContents : Become(p, [NoRequest EXCEPT !.pc = "putFile", !.content = c])
    BY DEF BeginCreate
  <1> DEFINE r == [NoRequest EXCEPT !.pc = "putFile", !.content = c]
  <1>2. r \in Requests
    BY IdleOK DEF Requests, NoRequest, Steps, All
  <1>3. RequestOK(p, r)
    BY RequestFacts DEF BeginCreate, NoRequest, RequestOK, CreatesOnly
  <1> QED BY <1>1, <1>2, <1>3, MoveLemma, RequestFacts DEF BeginCreate

LEMMA BeginUpdateLemma ==
  ASSUME IInv, NEW p \in Procs, BeginUpdate(p)
  PROVE  IInv'
  <1>1. PICK d \in Contents :
          Become(p, [pc |-> "getFile", old |-> rec, ver |-> rec.ver + 1, content |-> d, again |-> FALSE])
    BY DEF BeginUpdate
  <1> DEFINE r == [pc |-> "getFile", old |-> rec, ver |-> rec.ver + 1, content |-> d, again |-> FALSE]
  <1>2. rec \in Records /\ rec.ver \in Nat /\ rec.rev \in Nat /\ rec.ver + 1 \in Versions
    BY ConfigAssumption DEF IInv, TypeOK, BeginUpdate, Records, Versions
  <1>3. r \in Requests
    BY <1>2 DEF Requests, Steps, All
  <1>4. RequestOK(p, r)
    BY <1>2, RequestFacts DEF BeginUpdate, RequestOK, HoldsRecord, FileInPlace, All
  <1> QED BY <1>1, <1>3, <1>4, MoveLemma, RequestFacts DEF BeginUpdate

LEMMA GetConfigFileLemma ==
  ASSUME IInv, NEW p \in Procs, GetConfigFile(p)
  PROVE  IInv'
  <1> DEFINE r == [proc[p] EXCEPT !.pc = "putFile"]
  <1>1. r \in Requests
    BY RequestFacts DEF Requests, Steps
  <1>2. p \in Updaters /\ p \notin Creators
    BY RequestFacts DEF GetConfigFile, At, CreatesOnly
  <1>3. RequestOK(p, r)
    BY <1>2, RequestFacts DEF GetConfigFile, At, RequestOK, HoldsRecord, FileInPlace, Requests
  <1> QED BY <1>1, <1>3, MoveLemma, ReturnLemma, RequestFacts DEF GetConfigFile, Goto

-----------------------------------------------------------------------------
(* The steps that write files or the record *)

LEMMA CreateConfigFileLemma ==
  ASSUME IInv, NEW p \in Procs, CreateConfigFile(p)
  PROVE  IInv'
  <1> DEFINE v == proc[p].ver
             next == IF p \in Creators THEN "putAttr" ELSE "update"
  <1>0. /\ v \in Versions /\ 0 \in Versions /\ proc[p].content \in All /\ proc[p].content # None
        /\ proc[p] \in Requests
    BY RequestFacts, ConfigAssumption
    DEF CreateConfigFile, At, HoldsRecord, CreatesOnly, Requests, Versions, All
  <1>1. CASE files[v] # None
    <2> DEFINE r == [proc[p] EXCEPT !.pc = "check"]
    <2>1. r \in Requests
      BY <1>0 DEF Requests, Steps
    <2>2. RequestOK(p, r)
      BY RequestFacts
      DEF CreateConfigFile, At, RequestOK, HoldsRecord, FileInPlace, CreatesOnly, Requests
    <2> QED BY <1>1, <2>1, <2>2, MoveLemma, RequestFacts DEF CreateConfigFile, Goto
  <1>2. CASE files[v] = None
    <2>1. /\ files' = [files EXCEPT ![v] = proc[p].content]
          /\ proc' = [proc EXCEPT ![p] = [proc[p] EXCEPT !.pc = next]]
          /\ UNCHANGED <<rec, drv, local, others, faults>>
      BY <1>2 DEF CreateConfigFile, FileDone, Goto, Become
    <2>2. [proc[p] EXCEPT !.pc = next] \in Requests
      BY <1>0 DEF Requests, Steps
    <2>3. TypeOK'
      BY <1>0, <2>1, <2>2 DEF IInv, TypeOK
    <2>4. CurrentFileKept'
      <3>1. /\ rec # None => rec.ver \in Versions /\ rec.md5 # None
            /\ rec # None /\ (rec.ver > 0 \/ SameConfig) => files[rec.ver] = rec.md5
        BY ConfigAssumption DEF IInv, TypeOK, CurrentFileKept, Records, All
      <3> QED BY <1>2, <2>1, <3>1 DEF IInv, TypeOK, CurrentFileKept
    <2>5. FirstFileOK'
      <3>1. v = 0 => proc[p].content \in CreateContents
        BY RequestFacts
        DEF CreateConfigFile, At, HoldsRecord, CreatesOnly, Records, Versions
      <3> QED BY <2>1, <3>1, <1>0 DEF IInv, TypeOK, FirstFileOK
    <2>6. ASSUME NEW q \in Procs PROVE RequestOK(q, proc[q])'
      <3>1. CASE q = p
        <4>1. proc'[p] = [proc[p] EXCEPT !.pc = next]
          BY <2>1 DEF IInv, TypeOK
        <4> QED BY <1>0, <2>1, <4>1, <3>1, RequestFacts
          DEF IInv, TypeOK, CreateConfigFile, At, RequestOK, HoldsRecord, FileInPlace, CreatesOnly, Requests
      <3>2. CASE q # p
        <4>1. proc'[q] = proc[q] /\ RequestOK(q, proc[q])
          BY <2>1, <3>2 DEF IInv, TypeOK
        <4>2. (q \in Updaters => HoldsRecord(proc[q]))'
          BY <2>1, <4>1 DEF RequestOK, HoldsRecord
        <4>3. (q \in Updaters => FileInPlace(proc[q]))'
          <5>1. ASSUME q \in Updaters, proc[q].pc = "update", proc[q].old = rec
                PROVE  proc[q].content # None /\ files[proc[q].ver] = proc[q].content
            BY <5>1, <4>1, ConfigAssumption DEF RequestOK, HoldsRecord, FileInPlace, All
          <5>2. proc[q].ver \in Versions
            BY RequestFacts DEF Requests
          <5> QED BY <1>2, <2>1, <4>1, <5>1, <5>2 DEF RequestOK, FileInPlace, IInv, TypeOK
        <4>4. (q \in Creators => CreatesOnly(proc[q]))'
          <5>1. q \in Creators /\ SameConfig /\ proc[q].pc = "putAttr" /\ rec = None
                => files[0] = proc[q].content /\ proc[q].content # None
            BY <4>1, ConfigAssumption DEF RequestOK, CreatesOnly, All
          <5> QED BY <1>0, <1>2, <2>1, <4>1, <5>1 DEF RequestOK, CreatesOnly, IInv, TypeOK
        <4> QED BY <4>1, <4>2, <4>3, <4>4 DEF RequestOK
      <3> QED BY <3>1, <3>2
    <2> QED BY <2>3, <2>4, <2>5, <2>6 DEF IInv
  <1> QED BY <1>1, <1>2

LEMMA CheckExistingLemma ==
  ASSUME IInv, NEW p \in Procs, CheckExisting(p)
  PROVE  IInv'
  <1> DEFINE next == IF p \in Creators THEN "putAttr" ELSE "update"
             r == [proc[p] EXCEPT !.pc = next]
  <1>1. r \in Requests
    BY RequestFacts DEF Requests, Steps
  <1>2. CASE files[proc[p].ver] = proc[p].content
    <2>1. RequestOK(p, r)
      BY <1>2, RequestFacts
      DEF CheckExisting, At, RequestOK, HoldsRecord, FileInPlace, CreatesOnly, Requests
    <2>2. Become(p, r)
      BY <1>2 DEF CheckExisting, FileDone, Goto
    <2> QED BY <1>1, <2>1, <2>2, MoveLemma, RequestFacts DEF CheckExisting
  <1>3. CASE files[proc[p].ver] # proc[p].content
    <2> DEFINE d == [proc[p] EXCEPT !.pc = "delete"]
    <2>1. CASE Become(p, d) /\ p \in Creators /\ files[proc[p].ver] # None
      <3>1. ~SameConfig
        BY <1>3, <2>1, RequestFacts DEF CheckExisting, At, CreatesOnly, IInv, FirstFileOK, SameConfig
      <3>2. d \in Requests
        BY RequestFacts DEF Requests, Steps
      <3>3. RequestOK(p, d)
        BY <2>1, <3>1, RequestFacts DEF CheckExisting, At, RequestOK, CreatesOnly, Requests
      <3> QED BY <2>1, <3>2, <3>3, MoveLemma, RequestFacts DEF CheckExisting
    <2>2. CASE Return(p)
      BY <2>2, ReturnLemma, RequestFacts DEF CheckExisting
    <2> QED BY <1>3, <2>1, <2>2 DEF CheckExisting, Goto
  <1> QED BY <1>2, <1>3

(* A creation that deletes a file deletes version 0. *)
LEMMA DeleteMismatchedLemma ==
  ASSUME IInv, NEW p \in Procs, p \in Creators, DeleteMismatched(p)
  PROVE  IInv'
  <1>1. CASE files[proc[p].ver] = None
    BY <1>1, ReturnLemma, RequestFacts DEF DeleteMismatched
  <1>2. CASE files[proc[p].ver] # None
    <2> DEFINE r == [proc[p] EXCEPT !.pc = "putFile", !.again = TRUE]
    <2>1. /\ files' = [files EXCEPT ![0] = None]
          /\ proc' = [proc EXCEPT ![p] = r]
          /\ UNCHANGED <<rec, drv, local, others, faults>>
          /\ ~SameConfig
      BY <1>2, RequestFacts DEF DeleteMismatched, At, CreatesOnly, Become
    <2>2. r \in Requests
      BY RequestFacts DEF Requests, Steps
    <2>3. TypeOK'
      BY <2>1, <2>2 DEF IInv, TypeOK
    <2>4. CurrentFileKept' /\ FirstFileOK'
      BY <2>1 DEF IInv, TypeOK, CurrentFileKept, FirstFileOK, SameConfig
    <2>5. ASSUME NEW q \in Procs PROVE RequestOK(q, proc[q])'
      <3>1. CASE q = p
        <4>1. proc'[q] = r
          BY <2>1, <3>1 DEF IInv, TypeOK
        <4> QED BY <2>1, <3>1, <4>1, RequestFacts
          DEF DeleteMismatched, At, RequestOK, CreatesOnly, Requests, SameConfig
      <3>2. CASE q # p
        <4>1. proc'[q] = proc[q] /\ RequestOK(q, proc[q])
          BY <2>1, <3>2 DEF IInv, TypeOK
        <4>2. (q \in Updaters => HoldsRecord(proc[q]))'
          BY <2>1, <4>1 DEF RequestOK, HoldsRecord
        <4>3. (q \in Updaters => FileInPlace(proc[q]))'
          <5>1. q \in Updaters /\ proc[q].pc = "update" => proc[q].ver # 0 /\ proc[q].ver \in Versions
            BY <4>1, RequestFacts, ConfigAssumption
            DEF RequestOK, HoldsRecord, Records, Requests, Versions
          <5> QED BY <2>1, <4>1, <5>1 DEF RequestOK, FileInPlace, IInv, TypeOK
        <4>4. (q \in Creators => CreatesOnly(proc[q]))'
          BY <2>1, <4>1 DEF RequestOK, CreatesOnly, SameConfig
        <4> QED BY <4>1, <4>2, <4>3, <4>4 DEF RequestOK
      <3> QED BY <3>1, <3>2
    <2> QED BY <2>3, <2>4, <2>5 DEF IInv
  <1> QED BY <1>1, <1>2

LEMMA CreateServiceAttrLemma ==
  ASSUME IInv, NEW p \in Procs, p \in Creators, CreateServiceAttr(p)
  PROVE  IInv'
  <1>1. CASE rec # None
    BY <1>1, ReturnLemma, RequestFacts DEF CreateServiceAttr
  <1>2. CASE rec = None
    <2>1. /\ rec' = [rev |-> 0, ver |-> 0, md5 |-> proc[p].content]
          /\ proc' = [proc EXCEPT ![p] = NoRequest]
          /\ UNCHANGED <<files, drv, local, others, faults>>
          /\ SameConfig => files[0] = proc[p].content
      BY <1>2, RequestFacts DEF CreateServiceAttr, At, CreatesOnly, Return, Become
    <2>2. 0 \in Versions /\ proc[p].content \in All
      BY RequestFacts, ConfigAssumption DEF CreateServiceAttr, At, CreatesOnly, Versions, All
    <2>3. TypeOK'
      BY <2>1, <2>2, IdleOK DEF IInv, TypeOK, Records
    <2>4. CurrentFileKept' /\ FirstFileOK'
      BY <2>1 DEF CurrentFileKept, FirstFileOK, IInv, SameConfig
    <2>5. ASSUME NEW q \in Procs PROVE RequestOK(q, proc[q])'
      <3>1. q \in Updaters => proc[q].pc = "idle" /\ q # p
        BY <1>2, RequestFacts, ConfigAssumption DEF IInv, RequestOK, HoldsRecord, Records
      <3>2. proc'[q] = IF q = p THEN NoRequest ELSE proc[q]
        BY <2>1 DEF IInv, TypeOK
      <3>3. rec' # None
        BY <2>1, <2>2, <2>3, ConfigAssumption DEF TypeOK, Records, All
      <3> QED BY <2>1, <3>1, <3>2, <3>3, RequestFacts
        DEF RequestOK, HoldsRecord, FileInPlace, CreatesOnly, NoRequest, IInv
    <2> QED BY <2>3, <2>4, <2>5 DEF IInv
  <1> QED BY <1>1, <1>2

LEMMA UpdateRecordLemma ==
  ASSUME IInv, NEW p \in Procs, p \in Updaters, UpdateRecord(p)
  PROVE  IInv'
  <1> DEFINE old == proc[p].old
  <1>0. /\ rec \in Records /\ rec # None /\ old \in Records /\ proc[p].content \in All
        /\ proc[p].ver \in Versions /\ proc[p].ver = old.ver + 1 /\ proc[p] \in Requests
        /\ rec.rev \in Nat /\ rec.ver \in Nat /\ old.ver \in Nat
    BY RequestFacts, ConfigAssumption
    DEF UpdateRecord, At, HoldsRecord, Requests, Records, Versions
  <1>1. CASE rec.rev # old.rev
    BY <1>1, ReturnLemma, RequestFacts DEF UpdateRecord
  <1>2. CASE rec.rev = old.rev
    <2>1. /\ rec' = [rev |-> rec.rev + 1, ver |-> proc[p].ver, md5 |-> proc[p].content]
          /\ proc' = [proc EXCEPT ![p] = [proc[p] EXCEPT !.pc = "delOld"]]
          /\ UNCHANGED <<files, drv, local, others, faults>>
      BY <1>2 DEF UpdateRecord, Goto, Become
    <2>2. old = rec /\ files[proc[p].ver] = proc[p].content
      BY <1>2, RequestFacts, ConfigAssumption DEF UpdateRecord, At, HoldsRecord, FileInPlace
    <2>3. rec' \in Records /\ [proc[p] EXCEPT !.pc = "delOld"] \in Requests
      BY <1>0, <2>1 DEF Records, Requests, Steps
    <2>4. TypeOK'
      BY <1>0, <2>1, <2>3 DEF IInv, TypeOK
    <2>5. CurrentFileKept' /\ FirstFileOK'
      BY <2>1, <2>2 DEF CurrentFileKept, IInv, FirstFileOK
    <2>6. ASSUME NEW q \in Procs PROVE RequestOK(q, proc[q])'
      <3>1. rec'.rev = rec.rev + 1 /\ rec'.ver = rec.ver + 1 /\ rec' # None
        BY <1>0, <2>1, <2>2, <2>3, ConfigAssumption
      <3>2. CASE q = p
        <4>1. proc'[q] = [proc[p] EXCEPT !.pc = "delOld"]
          BY <2>1, <3>2 DEF IInv, TypeOK
        <4>2. q \notin Creators
          BY <3>2, RequestFacts
        <4> QED BY <1>0, <2>1, <2>2, <2>3, <3>1, <4>1, <4>2
          DEF RequestOK, HoldsRecord, FileInPlace, Requests
      <3>3. CASE q # p
        <4>1. proc'[q] = proc[q] /\ RequestOK(q, proc[q])
          BY <2>1, <3>3 DEF IInv, TypeOK
        <4>2. q \in Updaters /\ proc[q].pc # "idle" => proc[q].old.rev \in Nat /\ proc[q].old.ver \in Nat
          BY <4>1, ConfigAssumption DEF RequestOK, HoldsRecord, Records, Versions
        <4>3. (q \in Updaters => HoldsRecord(proc[q]))'
          BY <1>0, <2>3, <3>1, <4>1, <4>2 DEF RequestOK, HoldsRecord
        <4>4. (q \in Updaters => FileInPlace(proc[q]))'
          <5>1. q \in Updaters /\ proc[q].pc # "idle" => proc[q].old # rec'
            BY <1>0, <3>1, <4>1, <4>2 DEF RequestOK, HoldsRecord
          <5> QED BY <1>0, <3>1, <4>1, <4>2, <5>1 DEF RequestOK, FileInPlace
        <4>5. (q \in Creators => CreatesOnly(proc[q]))'
          BY <2>1, <3>1, <4>1 DEF RequestOK, CreatesOnly
        <4> QED BY <4>1, <4>3, <4>4, <4>5 DEF RequestOK
      <3> QED BY <3>2, <3>3
    <2> QED BY <2>4, <2>5, <2>6 DEF IInv
  <1> QED BY <1>1, <1>2

(* The old file is older than the current one, so nobody relies on it. *)
LEMMA DeleteOldLemma ==
  ASSUME IInv, NEW p \in Procs, p \in Updaters, DeleteOld(p)
  PROVE  IInv'
  <1> DEFINE v == proc[p].old.ver
  <1>0. /\ v \in Versions /\ v \in Nat /\ rec \in Records /\ rec # None /\ rec.ver \in Nat /\ v < rec.ver
    BY RequestFacts, ConfigAssumption
    DEF DeleteOld, At, HoldsRecord, FileInPlace, Records, Versions
  <1>1. /\ files' = [files EXCEPT ![v] = None]
        /\ proc' = [proc EXCEPT ![p] = NoRequest]
        /\ UNCHANGED <<rec, drv, local, others, faults>>
    BY DEF DeleteOld, Return, Become
  <1>2. TypeOK'
    BY <1>0, <1>1, IdleOK DEF IInv, TypeOK
  <1>3. CurrentFileKept'
    BY <1>0, <1>1 DEF IInv, TypeOK, CurrentFileKept, Records
  <1>4. FirstFileOK'
    BY <1>0, <1>1, ConfigAssumption DEF IInv, TypeOK, Versions, FirstFileOK
  <1>5. ASSUME NEW q \in Procs PROVE RequestOK(q, proc[q])'
    <2>1. CASE q = p
      BY <1>1, <2>1, IdleOK DEF IInv, TypeOK, RequestOK, HoldsRecord, FileInPlace, CreatesOnly, NoRequest
    <2>2. CASE q # p
      <3>1. proc'[q] = proc[q] /\ RequestOK(q, proc[q])
        BY <1>1, <2>2 DEF IInv, TypeOK
      <3>2. (q \in Updaters => HoldsRecord(proc[q]))'
        BY <1>1, <3>1 DEF RequestOK, HoldsRecord
      <3>3. (q \in Updaters => FileInPlace(proc[q]))'
        <4>1. ASSUME q \in Updaters, proc[q].pc = "update", proc[q].old = rec
              PROVE  proc[q].ver = rec.ver + 1 /\ proc[q].ver \in Versions
          BY <4>1, <3>1, RequestFacts DEF RequestOK, HoldsRecord, Requests
        <4> QED BY <1>0, <1>1, <3>1, <4>1 DEF RequestOK, FileInPlace, IInv, TypeOK
      <3>4. (q \in Creators => CreatesOnly(proc[q]))'
        BY <1>0, <1>1, <3>1 DEF RequestOK, CreatesOnly
      <3> QED BY <3>1, <3>2, <3>3, <3>4 DEF RequestOK
    <2> QED BY <2>1, <2>2
  <1> QED BY <1>2, <1>3, <1>4, <1>5 DEF IInv

(* Other updates only make the records that requests hold older. *)
LEMMA OtherUpdateLemma ==
  ASSUME IInv, OtherUpdate
  PROVE  IInv'
  <1>1. /\ rec \in Records /\ rec.rev \in Nat /\ rec.ver \in Nat
        /\ rec' = [rec EXCEPT !.rev = rec.rev + 1] /\ rec' \in Records
        /\ rec'.rev = rec.rev + 1 /\ rec'.ver = rec.ver /\ rec'.md5 = rec.md5 /\ rec' # None
        /\ UNCHANGED <<files, proc>>
    BY ConfigAssumption DEF OtherUpdate, IInv, TypeOK, Records, Versions
  <1>2. TypeOK'
    BY <1>1, ConfigAssumption DEF OtherUpdate, IInv, TypeOK
  <1>3. CurrentFileKept' /\ FirstFileOK'
    BY <1>1 DEF OtherUpdate, IInv, CurrentFileKept, FirstFileOK
  <1>4. ASSUME NEW q \in Procs PROVE RequestOK(q, proc[q])'
    <2>1. q \in Updaters /\ proc[q].pc # "idle" => proc[q].old.rev \in Nat /\ proc[q].old.ver \in Nat
      BY ConfigAssumption DEF IInv, RequestOK, HoldsRecord, Records, Versions
    <2>2. q \in Updaters /\ proc[q].pc # "idle" => proc[q].old.rev < rec'.rev
      BY <1>1, <2>1 DEF IInv, RequestOK, HoldsRecord
    <2>3. q \in Updaters /\ proc[q].pc # "idle" => proc[q].old # rec'
      <3>1. rec'.rev \in Nat
        BY <1>1
      <3> QED BY <2>1, <2>2, <3>1
    <2> QED BY <1>1, <2>1, <2>2, <2>3 DEF IInv, RequestOK, HoldsRecord, FileInPlace, CreatesOnly
  <1> QED BY <1>2, <1>3, <1>4 DEF IInv

(* The driver writes neither the record nor the files of the DB. *)
LEMMA DriverLemma ==
  ASSUME IInv, ReadRecord \/ CheckAndCreateConfigFile
  PROVE  IInv'
  <1>1. UNCHANGED <<rec, files, proc>>
    BY DEF ReadRecord, CheckAndCreateConfigFile
  <1>2. TypeOK'
    BY DEF ReadRecord, CheckAndCreateConfigFile, IInv, TypeOK, Records
  <1>3. \A q \in Procs : RequestOK(q, proc[q])'
    BY <1>1 DEF IInv, RequestOK, HoldsRecord, FileInPlace, CreatesOnly
  <1> QED BY <1>1, <1>2, <1>3 DEF IInv, CurrentFileKept, FirstFileOK

-----------------------------------------------------------------------------

LEMMA RequestStep ==
  ASSUME IInv, NEW p \in Procs,
         \/ BeginCreate(p) \/ BeginUpdate(p) \/ GetConfigFile(p) \/ CreateConfigFile(p)
         \/ CheckExisting(p) \/ DeleteMismatched(p) \/ CreateServiceAttr(p)
         \/ UpdateRecord(p) \/ DeleteOld(p) \/ Fault(p)
  PROVE  IInv'
  <1>1. /\ At(p, "delete") \/ At(p, "putAttr") => p \in Creators
        /\ At(p, "update") \/ At(p, "delOld") => p \in Updaters
    BY RequestFacts DEF At, CreatesOnly
  <1>2. CASE Fault(p)
    BY <1>2, ReturnLemma, RequestFacts, ConfigAssumption DEF Fault
  <1>3. CASE UpdateRecord(p) \/ DeleteOld(p)
    BY <1>1, <1>3, UpdateRecordLemma, DeleteOldLemma DEF UpdateRecord, DeleteOld
  <1>4. CASE DeleteMismatched(p) \/ CreateServiceAttr(p)
    BY <1>1, <1>4, DeleteMismatchedLemma, CreateServiceAttrLemma
    DEF DeleteMismatched, CreateServiceAttr
  <1> QED BY <1>2, <1>3, <1>4, BeginCreateLemma, BeginUpdateLemma, GetConfigFileLemma,
             CreateConfigFileLemma, CheckExistingLemma

LEMMA InductiveStep ==
  ASSUME IInv, [Next]_vars
  PROVE  IInv'
  <1>1. CASE UNCHANGED vars
    BY <1>1 DEF vars, IInv, TypeOK, CurrentFileKept, FirstFileOK, RequestOK, HoldsRecord,
               FileInPlace, CreatesOnly
  <1>2. CASE Next
    BY <1>2, RequestStep, OtherUpdateLemma, DriverLemma DEF Next
  <1> QED BY <1>1, <1>2

(* Every variable keeps its type, through all requests, faults and mounts.  *)
THEOREM TypeCorrect == Spec => []TypeOK
  <1>1. Init => IInv
    BY InitLemma
  <1>2. IInv /\ [Next]_vars => IInv'
    BY InductiveStep
  <1>3. IInv => TypeOK
    BY DEF IInv
  <1> QED BY <1>1, <1>2, <1>3, PTL DEF Spec

(* The record always resolves, whatever requests, faults and other updates  *)
(* are interleaved (updateServiceConfigFile, updateMemberConfigFile,        *)
(* createConfigFile).                                                       *)
THEOREM CurrentFileIsSafe == Spec => []CurrentFileKept
  <1>1. Init => IInv
    BY InitLemma
  <1>2. IInv /\ [Next]_vars => IInv'
    BY InductiveStep
  <1>3. IInv => CurrentFileKept
    BY DEF IInv
  <1> QED BY <1>1, <1>2, <1>3, PTL DEF Spec

(* A Mount whose record is current puts the recorded content on the volume, *)
(* although checkAndCreateConfigFile does not compare the MD5 of what it    *)
(* read from the DB.                                                        *)
THEOREM MountIsCurrent == Spec => MountServesRecord
  <1>1. Init => IInv
    BY InitLemma
  <1>2. IInv /\ [Next]_vars => IInv'
    BY InductiveStep
  <1>3. ASSUME IInv, [Next]_vars, drv # None, drv' = None, drv = rec,
               rec.ver > 0 \/ SameConfig
        PROVE  local' = rec.md5
    <2>1. CheckAndCreateConfigFile
      <3>1. UNCHANGED drv => FALSE
        BY <1>3
      <3> QED BY <1>3, <3>1
        DEF Next, vars, BeginCreate, BeginUpdate, GetConfigFile, CreateConfigFile, CheckExisting,
            DeleteMismatched, CreateServiceAttr, UpdateRecord, DeleteOld, Fault, OtherUpdate, ReadRecord
    <2>2. files[rec.ver] = rec.md5 /\ rec.md5 # None
      BY <1>3, ConfigAssumption DEF IInv, TypeOK, CurrentFileKept, Records
    <2> QED BY <1>3, <2>1, <2>2 DEF CheckAndCreateConfigFile
  <1> QED BY <1>1, <1>2, <1>3, PTL DEF Spec, MountServesRecord
=============================================================================
