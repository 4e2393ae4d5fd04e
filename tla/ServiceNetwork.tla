--------------------------- MODULE ServiceNetwork ---------------------------
(***************************************************************************)
(* The network of a member (pkg/plugins/network): its DNS record, which    *)
(* UpdateDNS points to the private ip of the local node, and, for services *)
(* with RequireStaticIP, the ServiceStaticIP record in the DB and the      *)
(* address added to the node's interface.                                  *)
(*                                                                         *)
(* UpdateStaticIP is a sequence of calls to EC2 and the DB with no lock    *)
(* across nodes, so each call is an operator here and a step of its own in *)
(* VolumeDriver.                                                           *)
(***************************************************************************)
EXTENDS Naturals, Ec2Server

CONSTANT RequireStaticIP   \* serviceAttr.Spec.RequireStaticIP

ASSUME RequireStaticIPAssumption == RequireStaticIP \in BOOLEAN

VARIABLES dns,      \* dns[m]: the node m's DNS name resolves to
          ipRec,    \* ipRec[m]: the ServiceStaticIP record of m's ip
          localIP   \* localIP[n]: members whose ip is on n's interface

netVars == <<dns, ipRec, localIP>>

IPRecords == [node : Nodes \cup {None}, rev : Nat]

NetTypeOK ==
  /\ dns \in [Members -> Nodes \cup {None}]
  /\ ipRec \in [Members -> IPRecords]
  /\ localIP \in [Nodes -> SUBSET Members]

(* The static ips of a new service were assigned to interfaces of some      *)
(* nodes when it was created (createStaticIPs), and recorded there.         *)
NetInit ==
  /\ dns = [m \in Members |-> None]
  /\ ipAt \in [Members -> IF RequireStaticIP THEN Nodes ELSE {None}]
  /\ ipRec = [m \in Members |-> [node |-> ipAt[m], rev |-> 0]]
  /\ localIP = [n \in Nodes |-> {}]

(* An UPSERT: the last writer wins, whoever owns the member. *)
UpdateDNSRecord(m, n) == dns' = [dns EXCEPT ![m] = n]

(* The wait for the record, then for the local resolver, returns when the   *)
(* record is the local node; otherwise it ends in ErrTimeout.               *)
WaitDNSRecordUpdated(m, n, ok) == ok = (dns[m] = n)

(* Conditional on the revision that was read. *)
UpdateServiceStaticIP(m, old, n, ok) ==
  /\ ok = (ipRec[m].rev = old.rev)
  /\ ipRec' = IF ok THEN [ipRec EXCEPT ![m] = [node |-> n, rev |-> old.rev + 1]]
                    ELSE ipRec

(* `ip addr add' of an address that is already there fails. *)
AddIP(n, m, ok) ==
  /\ ok = (m \notin localIP[n])
  /\ localIP' = [localIP EXCEPT ![n] = @ \cup {m}]

DeleteIP(n, m) == localIP' = [localIP EXCEPT ![n] = @ \ {m}]
=============================================================================
