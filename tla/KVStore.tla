------------------------------ MODULE KVStore ------------------------------
(***************************************************************************)
(* What the ROLEX engine promises its callers (spec.md section 6, Engine   *)
(* API): an ordered map from keys to values with point search, update,     *)
(* insert and remove, each answering at once.  out is the last call and    *)
(* its answer.  An insert may fail without effect (Duplicate, Capacity,    *)
(* SynonymExhausted all surface as false), but it never overwrites or      *)
(* duplicates a present key.                                               *)
(***************************************************************************)
EXTENDS Integers, TLC

CONSTANTS Keys, Vals, NoVal

VARIABLES kv, out

Out(op, k, ok, v) == [op |-> op, key |-> k, ok |-> ok, val |-> v]

Present(k) == k \in DOMAIN kv

Init ==
  /\ DOMAIN kv \subseteq Keys
  /\ \A k \in DOMAIN kv : kv[k] \in Vals
  /\ out.op = "train"

Search(k) ==
  /\ out' = Out("search", k, Present(k), IF Present(k) THEN kv[k] ELSE NoVal)
  /\ UNCHANGED kv

Update(k, v) ==
  /\ out' = Out("update", k, Present(k), NoVal)
  /\ kv' = IF Present(k) THEN [kv EXCEPT ![k] = v] ELSE kv

Insert(k, v) ==
  \/ /\ ~Present(k)
     /\ kv' = kv @@ (k :> v)
     /\ out' = Out("insert", k, TRUE, NoVal)
  \/ /\ out' = Out("insert", k, FALSE, NoVal)
     /\ UNCHANGED kv

Remove(k) ==
  /\ out' = Out("remove", k, Present(k), NoVal)
  /\ kv' = [x \in DOMAIN kv \ {k} |-> kv[x]]

Next ==
  \E k \in Keys :
    \/ Search(k)
    \/ Remove(k)
    \/ \E v \in Vals : Update(k, v) \/ Insert(k, v)

Spec == Init /\ [][Next]_<<kv, out>>
=============================================================================
