------------------------- MODULE ConditionalRecords -------------------------
(***************************************************************************)
(* What the manage service relies on in the control DB (the comment of the *)
(* DB interface, db/db.go): create-if-not-exist and update-if-match.  The  *)
(* history of a record is therefore one creation, updates that each start  *)
(* from the revision before and keep what was there, and one deletion.     *)
(***************************************************************************)
EXTENDS Naturals

CONSTANTS Keys, None
VARIABLE rec   \* rec[k]: the record stored under k, or None

Init == rec = [k \in Keys |-> None]

Becomes(k) == rec' = [rec EXCEPT ![k] = rec'[k]]
CreateIfNotExist(k) == rec[k] = None /\ Becomes(k) /\ rec'[k] # None /\ rec'[k].rev = 0
UpdateIfMatch(k) ==
  /\ rec[k] # None /\ Becomes(k) /\ rec'[k] # None
  /\ rec'[k].rev = rec[k].rev + 1
  /\ rec'[k].owner = rec[k].owner
  /\ rec[k].changes \subseteq rec'[k].changes
Delete(k) == rec[k] # None /\ rec' = [rec EXCEPT ![k] = None]

Next == \E k \in Keys : CreateIfNotExist(k) \/ UpdateIfMatch(k) \/ Delete(k)
Spec == Init /\ [][Next]_rec
=============================================================================
