--------------------------- MODULE NearCacheGetAll ---------------------------
(***************************************************************************)
(* getAll beside the other operations of NearCachedClientMapProxy.  A call *)
(* is for one key; one for several keys makes these steps for each.  The   *)
(* marks of getAll are not counted in crossed: use one key per slot.       *)
(***************************************************************************)
EXTENDS NearCachedClientMapProxy

(* A key with a record is read again from the cluster, but not marked,     *)
(* unless the record says that the map has no value.                       *)
GetAll(t, k) ==
    /\ \/ k \in DOMAIN records /\ Begin(t, "getAll", k, "fetchAll")
       \/ Begin(t, "getAll", k, "markAll")
    /\ UNCHANGED <<cluster, events_, records, marks>>

MarkAll(t) ==
    LET k == local[t].key IN
    /\ pc[t] = "markAll"
    /\ tryMark(k)
    /\ local' = [local EXCEPT ![t].marked = marks[getSlot[k]] = "UNMARKED"]
    /\ Goto(t, "fetchAll")
    /\ UNCHANGED <<cluster, events_, records>>

(* unmarkRemainingMarkedKeys, for a key without an answer or an exception, *)
(* forces the mark off.                                                    *)
FetchAll(t) ==
    LET l == local[t] IN
    /\ pc[t] = "fetchAll"
    /\ \/ /\ local' = [local EXCEPT ![t].value = server[l.key]]
          /\ Goto(t, "put")
       \/ l.marked /\ Goto(t, "force") /\ UNCHANGED local
       \/ ~l.marked /\ End(t)
    /\ UNCHANGED <<cluster, events_, records, marks>>

(* nearCache->put, without a mark.                                         *)
StoreUnmarked(t) ==
    /\ pc[t] = "store"
    /\ ~local[t].marked
    /\ putInternal(local[t].key, local[t].value) \/ UNCHANGED records
    /\ End(t)
    /\ UNCHANGED <<cluster, events_, marks>>

StoreThrows(t) ==
    /\ pc[t] = "store"
    /\ local[t].op = "getAll" /\ local[t].marked
    /\ Goto(t, "reset")
    /\ UNCHANGED <<cluster, events_, records, marks, local>>

GetAllNext ==
    \/ Next
    \/ \E t \in Threads, k \in Keys : GetAll(t, k)
    \/ \E t \in Threads : MarkAll(t) \/ FetchAll(t) \/ StoreUnmarked(t) \/ StoreThrows(t)

GetAllSpec == Init /\ [][GetAllNext]_vars
=============================================================================
