---------------------------- MODULE ConfigFiles ----------------------------
(***************************************************************************)
(* One config file of a service (or of a member): the record that names    *)
(* its current version and MD5 (ServiceAttr.ServiceConfigs, or             *)
(* ServiceMember.Configs), the versions kept in the DB, the manage server's *)
(* requests that create and update it, and the volume driver that copies   *)
(* it to the volume when a container starts.                               *)
(*                                                                         *)
(* A request is a goroutine whose DB calls are separate steps.  A content  *)
(* stands for its MD5 too.                                                 *)
(***************************************************************************)
EXTENDS Naturals

CONSTANTS Contents,        \* contents users update the file to
          CreateContents,  \* contents users create the service with
          Creators,        \* concurrent CreateService requests
          Updaters,        \* concurrent updateServiceConfig requests
          MaxVersion,      \* bound on the updates of the file
          MaxOther,        \* bound on the other updates of the record
          MaxFaults,       \* bound on failed calls
          None

All == Contents \cup CreateContents
Procs == Creators \cup Updaters
Versions == 0..MaxVersion
Records == [rev : Nat, ver : Versions, md5 : All]

ASSUME ConfigAssumption ==
  /\ MaxVersion \in Nat /\ MaxOther \in Nat /\ MaxFaults \in Nat
  /\ Creators \cap Updaters = {}
  /\ None \notin All \cup Records

VARIABLES
  rec,     \* the record: revision, version and MD5 of the current file
  files,   \* files[v]: the content of version v in the DB
  proc,    \* proc[p]: the request p works on
  drv,     \* the record the volume driver has read
  local,   \* the file on the volume
  others, faults

vars == <<rec, files, proc, drv, local, others, faults>>

Steps == {"idle", "getFile", "putFile", "check", "delete", "putAttr", "update", "delOld"}
Requests == [pc : Steps, old : Records \cup {None}, ver : Versions, content : All \cup {None},
             again : BOOLEAN]
NoRequest == [pc |-> "idle", old |-> None, ver |-> 0, content |-> None, again |-> FALSE]

(* Every variable keeps its type through all the steps. *)
TypeOK ==
  /\ rec \in Records \cup {None}
  /\ files \in [Versions -> All \cup {None}]
  /\ proc \in [Procs -> Requests]
  /\ drv \in Records \cup {None}
  /\ local \in All \cup {None}
  /\ others \in 0..MaxOther /\ faults \in 0..MaxFaults

Init ==
  /\ rec = None
  /\ files = [v \in Versions |-> None]
  /\ proc = [p \in Procs |-> NoRequest]
  /\ drv = None /\ local = None
  /\ others = 0 /\ faults = 0

At(p, step) == proc[p].pc = step
Become(p, r) == proc' = [proc EXCEPT ![p] = r]
Goto(p, step) == Become(p, [proc[p] EXCEPT !.pc = step])
Return(p) == Become(p, NoRequest)

-----------------------------------------------------------------------------
(* A CreateService request writes version 0; an update request the version  *)
(* after the one it has read in the record.                                 *)
BeginCreate(p) ==
  /\ p \in Creators /\ At(p, "idle")
  /\ \E c \in CreateContents :
       Become(p, [NoRequest EXCEPT !.pc = "putFile", !.content = c])
  /\ UNCHANGED <<rec, files, drv, local, others, faults>>

BeginUpdate(p) ==
  /\ p \in Updaters /\ At(p, "idle")
  /\ rec # None /\ rec.ver < MaxVersion
  /\ \E c \in Contents :
       Become(p, [pc |-> "getFile", old |-> rec, ver |-> rec.ver + 1, content |-> c, again |-> FALSE])
  /\ UNCHANGED <<rec, files, drv, local, others, faults>>

(* The update starts from the current file: it takes over its name and mode. *)
GetConfigFile(p) ==
  /\ At(p, "getFile")
  /\ \/ files[proc[p].old.ver] # None /\ Goto(p, "putFile")
     \/ files[proc[p].old.ver] = None /\ Return(p)
  /\ UNCHANGED <<rec, files, drv, local, others, faults>>

-----------------------------------------------------------------------------
(* createConfigFile: a conditional put; a file that exists is fine if it    *)
(* has the MD5 of the new one.                                              *)
FileDone(p) == Goto(p, IF p \in Creators THEN "putAttr" ELSE "update")

CreateConfigFile(p) ==
  /\ At(p, "putFile")
  /\ LET v == proc[p].ver IN
     \/ files[v] = None /\ files' = [files EXCEPT ![v] = proc[p].content] /\ FileDone(p)
     \/ files[v] # None /\ Goto(p, "check") /\ UNCHANGED files
  /\ UNCHANGED <<rec, drv, local, others, faults>>

(* On a mismatch a creation deletes the file and tries once more, which     *)
(* "allows overwriting the service config at service creation"; an update   *)
(* fails.                                                                   *)
CheckExisting(p) ==
  /\ At(p, "check")
  /\ LET f == files[proc[p].ver]
         mayDelete == p \in Creators /\ ~proc[p].again IN
     \/ f = proc[p].content /\ FileDone(p)
     \/ f \notin {None, proc[p].content} /\ mayDelete /\ Goto(p, "delete")
     \/ f # proc[p].content /\ (mayDelete => f = None) /\ Return(p)
  /\ UNCHANGED <<rec, files, drv, local, others, faults>>

DeleteMismatched(p) ==
  /\ At(p, "delete")
  /\ \/ /\ files[proc[p].ver] # None
        /\ files' = [files EXCEPT ![proc[p].ver] = None]
        /\ Become(p, [proc[p] EXCEPT !.pc = "putFile", !.again = TRUE])
     \/ files[proc[p].ver] = None /\ Return(p) /\ UNCHANGED files
  /\ UNCHANGED <<rec, drv, local, others, faults>>

-----------------------------------------------------------------------------
(* CreateServiceAttr: a record that exists is compared with the new one,    *)
(* and the request either goes on as a retry or fails; it stays the same.   *)
Mutant_NoMD5(p) ==
  /\ At(p, "putAttr")
  /\ rec' = IF rec = None THEN [rev |-> 0, ver |-> 0, md5 |-> None] ELSE rec
  /\ Return(p)
  /\ UNCHANGED <<files, drv, local, others, faults>>
CreateServiceAttr(p) ==
  /\ At(p, "putAttr")
  /\ \/ /\ rec = None
        /\ rec' = [rev |-> 0, ver |-> 0, md5 |-> proc[p].content]
     \/ rec # None /\ UNCHANGED rec
  /\ Return(p)
  /\ UNCHANGED <<files, drv, local, others, faults>>

(* The conditional update of the record, then the old file is deleted. *)
Mutant_NoCondition(p) ==
  /\ At(p, "update")
  /\ rec' = [rev |-> rec.rev + 1, ver |-> proc[p].ver, md5 |-> proc[p].content]
  /\ Goto(p, "delOld")
  /\ UNCHANGED <<files, drv, local, others, faults>>
UpdateRecord(p) ==
  /\ At(p, "update")
  /\ \/ /\ rec.rev = proc[p].old.rev
        /\ rec' = [rev |-> rec.rev + 1, ver |-> proc[p].ver, md5 |-> proc[p].content]
        /\ Goto(p, "delOld")
     \/ rec.rev # proc[p].old.rev /\ Return(p) /\ UNCHANGED rec
  /\ UNCHANGED <<files, drv, local, others, faults>>

DeleteOld(p) ==
  /\ At(p, "delOld")
  /\ files' = [files EXCEPT ![proc[p].old.ver] = None]
  /\ Return(p)
  /\ UNCHANGED <<rec, drv, local, others, faults>>

(* The record changes for another reason: a new owner of the member, a      *)
(* scale, another file of the service.                                      *)
OtherUpdate ==
  /\ rec # None /\ others < MaxOther
  /\ rec' = [rec EXCEPT !.rev = @ + 1]
  /\ others' = others + 1
  /\ UNCHANGED <<files, proc, drv, local, faults>>

(* A call fails, or the server dies: the request is over. *)
Fault(p) ==
  /\ ~At(p, "idle") /\ faults < MaxFaults
  /\ Return(p)
  /\ faults' = faults + 1
  /\ UNCHANGED <<rec, files, drv, local, others>>

-----------------------------------------------------------------------------
(* The volume driver, in Mount: it reads the record, compares the MD5 with  *)
(* the file on the volume, and if they differ writes what the DB has under  *)
(* the version, whatever MD5 that has.                                      *)
ReadRecord ==
  /\ drv = None /\ rec # None
  /\ drv' = rec
  /\ UNCHANGED <<rec, files, proc, local, others, faults>>

Mutant_CheckNothing ==
  /\ drv # None /\ drv' = None
  /\ local' = IF local # None THEN local ELSE files[drv.ver]
  /\ UNCHANGED <<rec, files, proc, others, faults>>
CheckAndCreateConfigFile ==
  /\ drv # None
  /\ drv' = None
  /\ local' = IF local = drv.md5 \/ files[drv.ver] = None THEN local ELSE files[drv.ver]
  /\ UNCHANGED <<rec, files, proc, others, faults>>

-----------------------------------------------------------------------------

Next ==
  \/ \E p \in Procs :
       \/ BeginCreate(p) \/ BeginUpdate(p) \/ GetConfigFile(p) \/ CreateConfigFile(p)
       \/ CheckExisting(p) \/ DeleteMismatched(p) \/ CreateServiceAttr(p)
       \/ UpdateRecord(p) \/ DeleteOld(p) \/ Fault(p)
  \/ OtherUpdate \/ ReadRecord \/ CheckAndCreateConfigFile

Spec == Init /\ [][Next]_vars

-----------------------------------------------------------------------------
(* Properties *)

(* Users repeat a CreateService only with the config it was sent with. *)
SameConfig == \A c, d \in CreateContents : c = d

(* Neither concurrent nor failed nor repeated requests touch the current    *)
(* file: the record resolves from the first update on, whatever services    *)
(* users try to create again, and before it if they use the same config.    *)
CurrentFileKept == rec # None /\ (rec.ver > 0 \/ SameConfig) => files[rec.ver] = rec.md5

(* When a Mount whose record is still the current one has done its check,   *)
(* the file on the volume is the recorded one, under the same condition.    *)
MountServesRecord ==
  [][drv # None /\ drv' = None /\ drv = rec /\ (rec.ver > 0 \/ SameConfig)
     => local' = rec.md5]_vars
=============================================================================
