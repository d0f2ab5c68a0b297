-------------------- MODULE NearCachedClientMapProxyProofs --------------------
(***************************************************************************)
(* Proofs about NearCachedClientMapProxy, for any number of threads, keys, *)
(* updates and losses of the listener, and any slots of the KeyStateMarker *)
(* that keys share: the types, and that the marks keep the records fresh   *)
(* in a slot that no gets of two keys have marked at once.                 *)
(***************************************************************************)
EXTENDS NearCachedClientMapProxy, TLAPS

Versions == 0 .. MaxVersion

Labels == {"idle", "mark", "fetch", "put", "store", "reset", "invalidate", "remove",
           "force", "update"}

Locals == [op : {"none", "get", "throwing", "update"}, key : Keys \cup {ALL, NULL},
           value : Versions, marked : BOOLEAN]

(* What a thread at p may have in its locals l.                            *)
LocalOK(p, l) ==
    /\ p \in {"mark", "fetch", "put", "store", "reset", "force"} =>
          l.key \in Keys /\ l.op # "update"
    /\ p = "update" => l.op = "update"
    /\ p \in {"update", "invalidate", "remove"} => l.key \in Keys \cup {ALL}
    /\ p \in {"invalidate", "remove"} /\ l.op # "update" => l.key \in Keys
    /\ p \in {"idle", "mark", "update"} \/ l.op = "update" => l.marked = FALSE

ThreadsOK ==
    /\ pc \in [Threads -> Labels]
    /\ local \in [Threads -> Locals]
    /\ \A t \in Threads : LocalOK(pc[t], local[t])

(* The bound that was checked when an update was sent still holds.         *)
InBounds == \A k \in Keys : server[k] + sent[k] <= MaxVersion

TypeInv == TypeOK /\ ThreadsOK /\ InBounds

LEMMA IdleOK == Idle \in Locals /\ LocalOK("idle", Idle) /\ "idle" \in Labels
  BY NearCacheAssumption DEF Idle, Locals, LocalOK, Labels, Versions

(* One thread moves.                                                       *)
LEMMA ThreadMoves ==
    ASSUME ThreadsOK, NEW t \in Threads, NEW p \in Labels, NEW l \in Locals, LocalOK(p, l),
           pc' = [pc EXCEPT ![t] = p], local' = [local EXCEPT ![t] = l]
    PROVE  ThreadsOK'
  <1>1. pc' \in [Threads -> Labels] /\ local' \in [Threads -> Locals]
    BY DEF ThreadsOK
  <1>2. \A u \in Threads : /\ pc'[u] = IF u = t THEN p ELSE pc[u]
                           /\ local'[u] = IF u = t THEN l ELSE local[u]
    BY DEF ThreadsOK
  <1>3. \A u \in Threads : LocalOK(pc'[u], local'[u])
    BY <1>2 DEF ThreadsOK
  <1> QED BY <1>1, <1>3 DEF ThreadsOK

LEMMA ThreadJumps ==
    ASSUME ThreadsOK, NEW t \in Threads, NEW p \in Labels, LocalOK(p, local[t]),
           Goto(t, p), UNCHANGED local
    PROVE  ThreadsOK'
  <1>1. local' = [local EXCEPT ![t] = local[t]] /\ local[t] \in Locals
    BY DEF ThreadsOK
  <1> QED BY <1>1, ThreadMoves, Zenon DEF Goto

LEMMA ThreadEnds ==
    ASSUME ThreadsOK, NEW t \in Threads, End(t)
    PROVE  ThreadsOK'
  BY IdleOK, ThreadMoves, Zenon DEF End, Goto

LEMMA ThreadBegins ==
    ASSUME ThreadsOK, NEW t \in Threads, NEW op \in {"get", "update"}, NEW k \in Keys \cup {ALL},
           NEW p \in Labels, Begin(t, op, k, p),
           \/ op = "get" /\ k \in Keys /\ p = "mark"
           \/ op = "update" /\ p \in {"update", "invalidate"}
    PROVE  ThreadsOK'
  <1> DEFINE l == [Idle EXCEPT !.op = op, !.key = k]
  <1>1. l \in Locals /\ l.op = op /\ l.key = k /\ l.marked = Idle.marked
    BY IdleOK, Zenon DEF Locals
  <1>2. Idle.marked = FALSE
    BY DEF Idle
  <1> HIDE DEF l
  <1>3. LocalOK(p, l)
    BY <1>1, <1>2 DEF LocalOK
  <1>4. pc' = [pc EXCEPT ![t] = p] /\ local' = [local EXCEPT ![t] = l]
    BY DEF Begin, Goto, l
  <1> QED BY <1>1, <1>3, <1>4, ThreadMoves, Zenon

LEMMA ThreadReturns ==
    ASSUME ThreadsOK, NEW t \in Threads, local[t].key \in Keys, Return(t)
    PROVE  ThreadsOK'
  <1>1. CASE End(t)
    BY <1>1, ThreadEnds
  <1>2. CASE /\ local' = [local EXCEPT ![t].op = "get", ![t].marked = FALSE]
             /\ Goto(t, "reset")
    <2> DEFINE l == [local[t] EXCEPT !.op = "get", !.marked = FALSE]
    <2>1. local[t] \in Locals
      BY DEF ThreadsOK
    <2>2. local' = [local EXCEPT ![t] = l]
      BY <1>2, Zenon
    <2>3. l \in Locals /\ l.op = "get" /\ l.key = local[t].key /\ l.marked = FALSE
      BY <2>1, Zenon DEF Locals
    <2> HIDE DEF l
    <2>4. LocalOK("reset", l) /\ "reset" \in Labels
      BY <2>3 DEF LocalOK, Labels
    <2> QED BY <1>2, <2>2, <2>3, <2>4, ThreadMoves, Zenon DEF Goto
  <1> QED BY <1>1, <1>2 DEF Return

(* The steps of the threads keep what holds of them.                       *)
LEMMA ThreadStepOK ==
    ASSUME TypeInv, NEW t \in Threads, ThreadStep(t)
    PROVE  ThreadsOK'
  <1> DEFINE l == local[t]
  <1>0. ThreadsOK /\ LocalOK(pc[t], l) /\ l \in Locals
    BY DEF TypeInv, ThreadsOK
  <1>1. CASE TryMark(t)
    <2> DEFINE m == (marks[getSlot[l.key]] = "UNMARKED")
               n == [l EXCEPT !.marked = m]
    <2>1. m \in BOOLEAN
      OBVIOUS
    <2>2. local' = [local EXCEPT ![t].marked = m]
      BY <1>1 DEF TryMark
    <2> HIDE DEF m
    <2>3. local' = [local EXCEPT ![t] = n]
      BY <2>2
    <2>4. n \in Locals /\ n.op = l.op /\ n.key = l.key
      BY <1>0, <2>1 DEF Locals
    <2> HIDE DEF n
    <2>5. LocalOK("fetch", n) /\ "fetch" \in Labels
      BY <1>0, <1>1, <2>4 DEF LocalOK, Labels, TryMark
    <2> QED BY <1>0, <1>1, <2>3, <2>4, <2>5, ThreadMoves, Zenon DEF TryMark, Goto
  <1>2. CASE Fetch(t)
    <2>1. CASE /\ local' = [local EXCEPT ![t].value = server[l.key]]
               /\ Goto(t, "put")
      <3> DEFINE n == [l EXCEPT !.value = server[l.key]]
      <3>1. l.key \in Keys /\ l.op # "update"
        BY <1>0, <1>2 DEF LocalOK, Fetch
      <3>2. server[l.key] \in Versions
        BY <3>1 DEF TypeInv, TypeOK, Versions
      <3>3. n \in Locals /\ n.op = l.op /\ n.key = l.key
        BY <1>0, <3>2 DEF Locals
      <3>4. local' = [local EXCEPT ![t] = n]
        BY <2>1
      <3> HIDE DEF n
      <3>5. LocalOK("put", n) /\ "put" \in Labels
        BY <3>1, <3>3 DEF LocalOK, Labels
      <3> QED BY <1>0, <2>1, <3>3, <3>4, <3>5, ThreadMoves, Zenon DEF Goto
    <2>2. CASE End(t)
      BY <1>0, <2>2, ThreadEnds
    <2>3. CASE Goto(t, "reset") /\ UNCHANGED local
      <3>1. LocalOK("reset", l) /\ "reset" \in Labels
        BY <1>0, <1>2 DEF LocalOK, Labels, Fetch
      <3> QED BY <1>0, <2>3, <3>1, ThreadJumps
    <2> QED BY <1>2, <2>1, <2>2, <2>3 DEF Fetch
  <1>3. CASE Put(t)
    <2>1. LocalOK("store", l) /\ "store" \in Labels
      BY <1>0, <1>3 DEF LocalOK, Labels, Put
    <2> QED BY <1>0, <1>3, <2>1, ThreadJumps DEF Put
  <1>4. CASE Store(t)
    <2>1. LocalOK("reset", l) /\ "reset" \in Labels
      BY <1>0, <1>4 DEF LocalOK, Labels, Store
    <2>2. CASE UNCHANGED local
      BY <1>0, <1>4, <2>1, <2>2, ThreadJumps DEF Store
    <2>3. CASE local' = [local EXCEPT ![t].op = "throwing"]
      <3> DEFINE n == [l EXCEPT !.op = "throwing"]
      <3>1. n \in Locals /\ n.op = "throwing" /\ n.key = l.key
        BY <1>0 DEF Locals
      <3>2. local' = [local EXCEPT ![t] = n]
        BY <2>3
      <3> HIDE DEF n
      <3>3. LocalOK("reset", n)
        BY <2>1, <3>1 DEF LocalOK
      <3> QED BY <1>0, <1>4, <2>1, <3>1, <3>2, <3>3, ThreadMoves, Zenon DEF Store, Goto
    <2> QED BY <1>4, <2>2, <2>3 DEF Store
  <1>5. CASE Reset(t)
    <2>1. CASE Return(t)
      BY <1>0, <1>5, <2>1, ThreadReturns DEF LocalOK, Reset
    <2>2. CASE Goto(t, "invalidate") /\ UNCHANGED local
      <3>1. LocalOK("invalidate", l) /\ "invalidate" \in Labels
        BY <1>0, <1>5 DEF LocalOK, Labels, Reset
      <3> QED BY <1>0, <2>2, <3>1, ThreadJumps
    <2> QED BY <1>5, <2>1, <2>2 DEF Reset
  <1>6. CASE ForceUnmark(t)
    BY <1>0, <1>6, ThreadReturns DEF LocalOK, ForceUnmark
  <1>7. CASE CallServer(t)
    <2>1. LocalOK("invalidate", l) /\ "invalidate" \in Labels
      BY <1>0, <1>7 DEF LocalOK, Labels, CallServer
    <2> QED BY <1>0, <1>7, <2>1, ThreadJumps DEF CallServer
  <1>8. CASE ReplaceFails(t)
    BY <1>0, <1>8, ThreadEnds DEF ReplaceFails
  <1>9. CASE Invalidate(t)
    <2>1. LocalOK("remove", l) /\ "remove" \in Labels
      BY <1>0, <1>9 DEF LocalOK, Labels, Invalidate
    <2> QED BY <1>0, <1>9, <2>1, ThreadJumps DEF Invalidate
  <1>10. CASE RemoveRecord(t)
    <2>1. CASE End(t)
      BY <1>0, <2>1, ThreadEnds
    <2>2. CASE l.op # "update" /\ Goto(t, "force") /\ UNCHANGED local
      <3>1. LocalOK("force", l) /\ "force" \in Labels
        BY <1>0, <1>10, <2>2 DEF LocalOK, Labels, RemoveRecord
      <3> QED BY <1>0, <2>2, <3>1, ThreadJumps
    <2> QED BY <1>10, <2>1, <2>2 DEF RemoveRecord
  <1> QED BY <1>1, <1>2, <1>3, <1>4, <1>5, <1>6, <1>7, <1>8, <1>9, <1>10
          DEF ThreadStep, GetStep, UpdateStep

-----------------------------------------------------------------------------
(* The types of the marks, the records and the cluster.                    *)
MarkStates == {"UNMARKED", "MARKED", "REMOVED"}

RecordsOK == DOMAIN records \subseteq Keys /\ records \in [DOMAIN records -> Versions]

LEMMA MarkTypes ==
    ASSUME marks \in [Slots -> MarkStates], NEW k,
           \/ tryMark(k) \/ tryUnmark(k) \/ tryRemove(k) \/ forceUnmark(k)
           \/ initMarks \/ Unmarked(k)
    PROVE  marks' \in [Slots -> MarkStates]
  <1>1. ASSUME NEW e \in MarkStates, NEW u \in MarkStates, casState(k, e, u)
        PROVE  marks' \in [Slots -> MarkStates]
    <2>1. marks' = [marks EXCEPT ![getSlot[k]] = IF marks[getSlot[k]] = e THEN u
                                                 ELSE marks[getSlot[k]]]
      BY <1>1 DEF casState
    <2>2. CASE getSlot[k] \in Slots
      BY <2>1, <2>2
    <2>3. CASE getSlot[k] \notin Slots
      BY <2>1, <2>3, Zenon
    <2> QED BY <2>2, <2>3
  <1>2. ASSUME forceUnmark(k) PROVE marks' \in [Slots -> MarkStates]
    BY <1>2, Zenon DEF forceUnmark, MarkStates
  <1>3. ASSUME initMarks PROVE marks' \in [Slots -> MarkStates]
    BY <1>3 DEF initMarks, MarkStates
  <1>4. "UNMARKED" \in MarkStates /\ "MARKED" \in MarkStates /\ "REMOVED" \in MarkStates
    BY DEF MarkStates
  <1> QED BY <1>1, <1>2, <1>3, <1>4 DEF tryMark, tryUnmark, tryRemove, Unmarked

(* The records after each operation of the store.                          *)
LEMMA WithoutRecord ==
    ASSUME RecordsOK, NEW k, records' = Without(k)
    PROVE  /\ RecordsOK'
           /\ DOMAIN records' = DOMAIN records \ {k}
           /\ \A j \in DOMAIN records' : records'[j] = records[j]
  BY DEF RecordsOK, Without, Restrict

LEMMA NoRecords ==
    ASSUME records' = <<>>
    PROVE  RecordsOK' /\ DOMAIN records' = {}
  BY DEF RecordsOK

LEMMA RemovedRecords ==
    ASSUME RecordsOK, NEW k \in Keys \cup {ALL}, Removed(k)
    PROVE  /\ RecordsOK'
           /\ DOMAIN records' \subseteq DOMAIN records \ KeysOf(k)
           /\ \A j \in DOMAIN records' : records'[j] = records[j]
  <1>1. CASE k = ALL
    <2>1. RecordsOK' /\ DOMAIN records' = {}
      BY <1>1, NoRecords DEF Removed
    <2> QED BY <2>1
  <1>2. CASE k # ALL
    BY <1>2, WithoutRecord, Zenon DEF Removed, KeysOf
  <1> QED BY <1>1, <1>2

LEMMA EvictedRecords ==
    ASSUME RecordsOK, doEvictionIfRequired
    PROVE  /\ RecordsOK'
           /\ DOMAIN records' \subseteq DOMAIN records
           /\ \A j \in DOMAIN records' : records'[j] = records[j]
  <1>1. CASE \E k \in DOMAIN records : records' = Without(k)
    BY <1>1, WithoutRecord, Zenon
  <1>2. CASE UNCHANGED records
    BY <1>2 DEF RecordsOK
  <1> QED BY <1>1, <1>2 DEF doEvictionIfRequired

LEMMA PutRecords ==
    ASSUME RecordsOK, NEW k \in Keys, NEW v \in Versions, putInternal(k, v)
    PROVE  /\ RecordsOK'
           /\ \A j \in DOMAIN records' : j # k => j \in DOMAIN records /\ records'[j] = records[j]
           /\ \/ records' = records
              \/ k \in DOMAIN records' /\ records'[k] = v
  <1>1. CASE records' = records
    BY <1>1 DEF RecordsOK
  <1>2. CASE records' = putRecord(k, v)
    BY <1>2 DEF RecordsOK, putRecord
  <1> QED BY <1>1, <1>2 DEF putInternal

(* The cluster applies an update.                                          *)
LEMMA AppliedTypes ==
    ASSUME TypeInv, NEW k \in Keys \cup {ALL}, Applied(k),
           \A j \in KeysOf(k) : server[j] < MaxVersion
    PROVE  /\ server' \in [Keys -> Versions]
           /\ events' \in [Keys \cup {ALL} -> Nat]
           /\ \A j \in Keys : server'[j] = IF j \in KeysOf(k) THEN server[j] + 1 ELSE server[j]
           /\ \A j \in Keys \cup {ALL} : events'[j] >= events[j]
           /\ Listening => events'[k] > 0
  <1>0. /\ server \in [Keys -> Versions] /\ events \in [Keys \cup {ALL} -> Nat]
        /\ MaxVersion \in Nat
    BY NearCacheAssumption DEF TypeInv, TypeOK, Versions
  <1>1. \A j \in Keys : server'[j] = IF j \in KeysOf(k) THEN server[j] + 1 ELSE server[j]
    BY DEF Applied
  <1>2. \A j \in Keys : server'[j] \in Versions
    BY <1>0, <1>1 DEF Versions
  <1>3. server' = [j \in Keys |-> server'[j]]
    BY DEF Applied
  <1>4. server' \in [Keys -> Versions]
    BY <1>2, <1>3
  <1>5. CASE Listening
    <2>1. events' = [events EXCEPT ![k] = events[k] + 1]
      BY <1>5 DEF Applied
    <2> QED BY <1>0, <1>1, <1>4, <2>1
  <1>6. CASE ~Listening
    <2>1. events' = events
      BY <1>6 DEF Applied
    <2> QED BY <1>0, <1>1, <1>4, <1>6, <2>1
  <1> QED BY <1>5, <1>6

LEMMA UpdatableBounds ==
    ASSUME TypeInv, NEW k \in Keys \cup {ALL}, Updatable(k)
    PROVE  \A j \in KeysOf(k) : j \in Keys /\ server[j] < MaxVersion
                                /\ server[j] + sent[j] + 1 <= MaxVersion
  <1>1. \A j \in KeysOf(k) : j \in Keys
    BY DEF KeysOf
  <1>2. \A j \in Keys : server[j] \in Nat /\ sent[j] \in Nat
    BY NearCacheAssumption DEF TypeInv, TypeOK
  <1>3. \A j \in KeysOf(k) : server[j] + sent[j] < MaxVersion
    BY DEF Updatable
  <1> QED BY <1>1, <1>2, <1>3, NearCacheAssumption

LEMMA InitTypes == Init => TypeInv
  <1> SUFFICES ASSUME Init PROVE TypeInv
    OBVIOUS
  <1>1. TypeOK
    BY NearCacheAssumption DEF Init, TypeOK, addNearCacheInvalidateListener
  <1>2. pc \in [Threads -> Labels] /\ local \in [Threads -> Locals]
    BY IdleOK DEF Init
  <1>3. \A t \in Threads : pc[t] = "idle" /\ local[t] = Idle
    BY DEF Init
  <1>4. ThreadsOK
    BY <1>2, <1>3, IdleOK DEF ThreadsOK
  <1>5. InBounds
    BY NearCacheAssumption DEF Init, InBounds
  <1> QED BY <1>1, <1>4, <1>5 DEF TypeInv

(* Which types a step can disturb.                                         *)
LEMMA TypeParts ==
    TypeOK <=> /\ server \in [Keys -> Versions]
               /\ RecordsOK
               /\ marks \in [Slots -> MarkStates]
               /\ sent \in [Keys -> Nat]
               /\ events \in [Keys \cup {ALL} -> Nat]
               /\ handling \in Keys \cup {ALL, NULL}
               /\ listener \in {"failed", "lost", "beforeRegister", "onRegister", "clearing",
                               "registered"}
  BY DEF TypeOK, RecordsOK, Versions, MarkStates

LEMMA TypePartsNext ==
    TypeOK' <=> /\ server' \in [Keys -> Versions]
                /\ RecordsOK'
                /\ marks' \in [Slots -> MarkStates]
                /\ sent' \in [Keys -> Nat]
                /\ events' \in [Keys \cup {ALL} -> Nat]
                /\ handling' \in Keys \cup {ALL, NULL}
                /\ listener' \in {"failed", "lost", "beforeRegister", "onRegister", "clearing",
                                 "registered"}
  BY DEF TypeOK, RecordsOK, Versions, MarkStates

LEMMA ThreadStepTypes ==
    ASSUME TypeInv, NEW t \in Threads, ThreadStep(t)
    PROVE  TypeOK' /\ InBounds'
  <1> DEFINE l == local[t]
  <1>0. TypeOK /\ LocalOK(pc[t], l) /\ l \in Locals /\ InBounds
    BY DEF TypeInv, ThreadsOK
  <1>a. marks \in [Slots -> MarkStates] /\ RecordsOK
    BY <1>0, TypeParts
  <1>1. CASE UNCHANGED <<cluster, handling, listener, records>> /\ marks' \in [Slots -> MarkStates]
    BY <1>0, <1>1, TypeParts, TypePartsNext DEF cluster, RecordsOK, InBounds
  <1>2. CASE UNCHANGED <<cluster, events_, marks>> /\ RecordsOK'
    BY <1>0, <1>2, TypeParts, TypePartsNext DEF cluster, events_, InBounds
  <1>3. CASE TryMark(t) \/ Reset(t) \/ ForceUnmark(t) \/ Invalidate(t)
    <2>1. marks' \in [Slots -> MarkStates]
      BY <1>3, <1>a, MarkTypes DEF TryMark, Reset, ForceUnmark, Invalidate
    <2> QED BY <1>1, <1>3, <2>1 DEF TryMark, Reset, ForceUnmark, Invalidate, events_
  <1>4. CASE Fetch(t)
    BY <1>1, <1>4, <1>a DEF Fetch, events_
  <1>5. CASE Put(t)
    BY <1>2, <1>5, <1>a, EvictedRecords DEF Put
  <1>6. CASE Store(t)
    <2>1. l.key \in Keys /\ l.value \in Versions
      BY <1>0, <1>6 DEF LocalOK, Store, Locals
    <2>2. RecordsOK'
      <3>1. CASE putInternal(l.key, l.value)
        BY <1>a, <2>1, <3>1, PutRecords
      <3>2. CASE UNCHANGED records
        BY <1>a, <3>2 DEF RecordsOK
      <3> QED BY <1>6, <3>1, <3>2 DEF Store
    <2> QED BY <1>2, <1>6, <2>2 DEF Store
  <1>7. CASE RemoveRecord(t)
    <2>1. l.key \in Keys \cup {ALL}
      BY <1>0, <1>7 DEF LocalOK, RemoveRecord
    <2>2. RecordsOK'
      BY <1>7, <1>a, <2>1, RemovedRecords DEF RemoveRecord
    <2> QED BY <1>2, <1>7, <2>2 DEF RemoveRecord
  <1>8. CASE CallServer(t) \/ ReplaceFails(t)
    <2>1. l.key \in Keys \cup {ALL}
      BY <1>0, <1>8 DEF LocalOK, CallServer, ReplaceFails
    <2>2. UNCHANGED <<handling, listener, sent, records, marks>>
      BY <1>8 DEF CallServer, ReplaceFails, events_
    <2>3. CASE Updatable(l.key) /\ Applied(l.key)
      <3>1. \A j \in KeysOf(l.key) : server[j] < MaxVersion
                                     /\ server[j] + sent[j] + 1 <= MaxVersion
        BY <2>1, <2>3, UpdatableBounds
      <3>2. /\ server' \in [Keys -> Versions]
            /\ events' \in [Keys \cup {ALL} -> Nat]
            /\ \A j \in Keys : server'[j] = IF j \in KeysOf(l.key) THEN server[j] + 1 ELSE server[j]
        BY <2>1, <2>3, <3>1, AppliedTypes, Zenon
      <3>3. TypeOK'
        BY <1>0, <2>2, <3>2, TypeParts, TypePartsNext DEF RecordsOK
      <3>4. \A j \in Keys : server[j] \in Nat /\ sent[j] \in Nat
        BY <1>0, NearCacheAssumption DEF TypeOK
      <3>5. InBounds'
        BY <1>0, <2>2, <3>1, <3>2, <3>4 DEF InBounds
      <3> QED BY <3>3, <3>5
    <2>4. CASE UNCHANGED <<server, events>>
      BY <1>0, <2>2, <2>4, TypeParts, TypePartsNext DEF RecordsOK, InBounds
    <2> QED BY <1>8, <2>3, <2>4 DEF CallServer, ReplaceFails
  <1> QED BY <1>3, <1>4, <1>5, <1>6, <1>7, <1>8 DEF ThreadStep, GetStep, UpdateStep

LEMMA ClusterStepTypes ==
    ASSUME TypeInv,
           \/ \E k \in Keys : ApplyAsync(k)
           \/ \E k \in Keys \cup {ALL} : RemoteUpdate(k)
           \/ \E t \in Threads, k \in Keys : UpdateAsync(t, k)
    PROVE  TypeOK' /\ InBounds'
  <1>0. TypeOK /\ InBounds /\ MaxVersion \in Nat
    BY NearCacheAssumption DEF TypeInv
  <1>a. \A j \in Keys : server[j] \in Nat /\ sent[j] \in Nat
    BY <1>0 DEF TypeOK
  <1>1. ASSUME NEW k \in Keys, ApplyAsync(k) PROVE TypeOK' /\ InBounds'
    <2>0. KeysOf(k) = {k}
      BY NearCacheAssumption DEF KeysOf
    <2>1. server[k] < MaxVersion
      BY <1>0, <1>1, <1>a DEF ApplyAsync, InBounds
    <2>2. /\ server' \in [Keys -> Versions]
          /\ events' \in [Keys \cup {ALL} -> Nat]
          /\ \A j \in Keys : server'[j] = IF j = k THEN server[j] + 1 ELSE server[j]
      BY <1>1, <2>0, <2>1, AppliedTypes, Zenon DEF ApplyAsync
    <2>3. sent \in [Keys -> Nat] /\ sent' = [sent EXCEPT ![k] = sent[k] - 1] /\ sent[k] > 0
      BY <1>0, <1>1 DEF ApplyAsync, TypeOK
    <2>4. sent[k] - 1 \in Nat
      BY <2>3
    <2>5. sent' \in [Keys -> Nat] /\ \A j \in Keys : sent'[j] = IF j = k THEN sent[k] - 1 ELSE sent[j]
      BY <2>3, <2>4
    <2>6. TypeOK'
      BY <1>0, <1>1, <2>2, <2>5, TypeParts, TypePartsNext DEF ApplyAsync, events_, RecordsOK
    <2>7. InBounds'
      BY <1>0, <1>a, <2>2, <2>5 DEF InBounds
    <2> QED BY <2>6, <2>7
  <1>2. ASSUME NEW k \in Keys \cup {ALL}, RemoteUpdate(k) PROVE TypeOK' /\ InBounds'
    <2>1. \A j \in KeysOf(k) : server[j] < MaxVersion /\ server[j] + sent[j] + 1 <= MaxVersion
      BY <1>2, UpdatableBounds DEF RemoteUpdate
    <2>2. /\ server' \in [Keys -> Versions]
          /\ events' \in [Keys \cup {ALL} -> Nat]
          /\ \A j \in Keys : server'[j] = IF j \in KeysOf(k) THEN server[j] + 1 ELSE server[j]
      BY <1>2, <2>1, AppliedTypes, Zenon DEF RemoteUpdate
    <2>3. TypeOK'
      BY <1>0, <1>2, <2>2, TypeParts, TypePartsNext DEF RemoteUpdate, events_, RecordsOK
    <2>4. InBounds'
      BY <1>0, <1>2, <1>a, <2>1, <2>2 DEF InBounds, RemoteUpdate
    <2> QED BY <2>3, <2>4
  <1>3. ASSUME NEW t \in Threads, NEW k \in Keys, UpdateAsync(t, k) PROVE TypeOK' /\ InBounds'
    <2>1. k \in KeysOf(k)
      BY NearCacheAssumption DEF KeysOf
    <2>2. server[k] + sent[k] + 1 <= MaxVersion
      BY <1>3, <2>1, UpdatableBounds DEF UpdateAsync
    <2>3. sent \in [Keys -> Nat] /\ sent' = [sent EXCEPT ![k] = sent[k] + 1]
      BY <1>0, <1>3 DEF UpdateAsync, TypeOK
    <2>4. /\ sent' \in [Keys -> Nat]
          /\ \A j \in Keys : sent'[j] = IF j = k THEN sent[k] + 1 ELSE sent[j]
      BY <2>3
    <2>5. TypeOK'
      BY <1>0, <1>3, <2>4, TypeParts, TypePartsNext DEF UpdateAsync, events_, RecordsOK
    <2>6. InBounds'
      BY <1>0, <1>3, <1>a, <2>2, <2>4 DEF InBounds, UpdateAsync
    <2> QED BY <2>5, <2>6
  <1> QED BY <1>1, <1>2, <1>3

LEMMA EventStepTypes ==
    ASSUME TypeInv, EventStep \/ LoseListener
    PROVE  TypeOK' /\ InBounds'
  <1>0. TypeOK /\ InBounds
    BY DEF TypeInv
  <1>a. /\ marks \in [Slots -> MarkStates] /\ RecordsOK
        /\ events \in [Keys \cup {ALL} -> Nat] /\ handling \in Keys \cup {ALL, NULL}
    BY <1>0, TypeParts
  <1>1. InBounds'
    BY <1>0 DEF InBounds, EventStep, LoseListener, HandleEvent, HandledEvent, Register,
                BeginClear, EndClear, cluster
  <1>2. ASSUME NEW k \in Keys \cup {ALL}, HandleEvent(k) PROVE TypeOK'
    <2>1. marks' \in [Slots -> MarkStates]
      BY <1>2, <1>a, MarkTypes DEF HandleEvent
    <2>2. events' = [events EXCEPT ![k] = events[k] - 1] /\ events[k] > 0
      BY <1>2 DEF HandleEvent
    <2>3. events[k] - 1 \in Nat
      BY <1>a, <2>2
    <2>4. events' \in [Keys \cup {ALL} -> Nat]
      BY <1>a, <2>2, <2>3
    <2> QED BY <1>0, <1>2, <2>1, <2>4, TypeParts, TypePartsNext DEF HandleEvent, RecordsOK
  <1>3. CASE HandledEvent
    <2>1. RecordsOK'
      BY <1>3, <1>a, RemovedRecords DEF HandledEvent
    <2> QED BY <1>0, <1>1, <1>3, <2>1, TypeParts, TypePartsNext DEF HandledEvent, cluster
  <1>4. ASSUME NEW from, NEW to \in {"beforeRegister", "clearing"}, BeginClear(from, to)
        PROVE  TypeOK'
    <2>1. marks' \in [Slots -> MarkStates]
      BY <1>4, <1>a, MarkTypes DEF BeginClear
    <2> QED BY <1>0, <1>4, <2>1, TypeParts, TypePartsNext DEF BeginClear, cluster, RecordsOK
  <1>5. ASSUME NEW from, NEW to \in {"onRegister", "registered"}, EndClear(from, to)
        PROVE  TypeOK'
    <2>1. RecordsOK'
      BY <1>5, NoRecords DEF EndClear
    <2> QED BY <1>0, <1>5, <2>1, TypeParts, TypePartsNext DEF EndClear, cluster
  <1>6. CASE LoseListener
    <2>1. events' \in [Keys \cup {ALL} -> Nat]
      BY <1>6, <1>a DEF LoseListener
    <2> QED BY <1>0, <1>1, <1>6, <2>1, TypeParts, TypePartsNext DEF LoseListener, RecordsOK
  <1> QED BY <1>1, <1>2, <1>3, <1>4, <1>5, <1>6 DEF EventStep, Register

LEMMA NextTypes == TypeInv /\ [Next]_vars => TypeInv'
  <1> SUFFICES ASSUME TypeInv, [Next]_vars PROVE TypeInv'
    OBVIOUS
  <1>0. TypeOK /\ ThreadsOK /\ InBounds /\ RecordsOK
    BY TypeParts DEF TypeInv
  <1>1. CASE UNCHANGED vars
    BY <1>1 DEF vars, TypeInv, TypeOK, ThreadsOK, InBounds
  <1>2. ASSUME NEW t \in Threads, ThreadStep(t) PROVE TypeInv'
    BY <1>2, ThreadStepOK, ThreadStepTypes DEF TypeInv
  <1>3. ASSUME NEW t \in Threads, NEW k \in Keys \cup {ALL},
               (k \in Keys /\ GetMiss(t, k)) \/ Update(t, k)
        PROVE  TypeInv'
    <2>1. ThreadsOK'
      <3>1. "mark" \in Labels /\ "update" \in Labels
        BY DEF Labels
      <3> QED BY <1>0, <1>3, <3>1, ThreadBegins DEF GetMiss, Update
    <2>2. TypeOK' /\ InBounds'
      BY <1>0, <1>3, TypeParts, TypePartsNext
         DEF GetMiss, Update, cluster, events_, RecordsOK, InBounds
    <2> QED BY <2>1, <2>2 DEF TypeInv
  <1>4. ASSUME NEW t \in Threads, NEW k \in Keys, UpdateAsync(t, k) PROVE TypeInv'
    <2>1. "invalidate" \in Labels
      BY DEF Labels
    <2>2. ThreadsOK'
      BY <1>0, <1>4, <2>1, ThreadBegins DEF UpdateAsync
    <2> QED BY <1>4, <2>2, ClusterStepTypes DEF TypeInv
  <1>5. ASSUME NEW k \in Keys \cup {ALL}, (k \in Keys /\ ApplyAsync(k)) \/ RemoteUpdate(k)
        PROVE  TypeInv'
    <2>1. ThreadsOK'
      BY <1>0, <1>5 DEF ThreadsOK, ApplyAsync, RemoteUpdate
    <2> QED BY <1>5, <2>1, ClusterStepTypes DEF TypeInv
  <1>6. ASSUME NEW k \in Keys, Expire(k) PROVE TypeInv'
    <2>1. RecordsOK'
      BY <1>0, <1>6, WithoutRecord, Zenon DEF Expire
    <2> QED BY <1>0, <1>6, <2>1, TypeParts, TypePartsNext
            DEF Expire, cluster, events_, TypeInv, ThreadsOK, InBounds
  <1>7. CASE EventStep \/ LoseListener
    <2>1. UNCHANGED <<pc, local>>
      BY <1>7 DEF EventStep, LoseListener, HandleEvent, HandledEvent, Register,
                  BeginClear, EndClear
    <2> QED BY <1>0, <1>7, <2>1, EventStepTypes DEF TypeInv, ThreadsOK
  <1> QED BY <1>1, <1>2, <1>3, <1>4, <1>5, <1>6, <1>7 DEF Next

LEMMA AlwaysTypes == Spec => []TypeInv
  BY InitTypes, NextTypes, PTL DEF Spec

(* The near cache has records of known keys only, the marks have the       *)
(* states of a slot, and an update that was sent once is applied once.     *)
THEOREM NearCacheTypes == Spec => []TypeOK
  <1>1. TypeInv => TypeOK
    BY DEF TypeInv
  <1> QED BY <1>1, AlwaysTypes, PTL

-----------------------------------------------------------------------------
(* A key with a listener, in a slot that was never marked for two keys.    *)
Shielded(k) == listener # "failed" /\ getSlot[k] \notin crossed

(* The get t may leave its value in the near cache.                        *)
Holder(k, t) ==
    /\ Bearing(t)
    /\ pc[t] \in {"put", "store"} => local[t].value = server[k] \/ WillUnmark(k)

(* MarksGuardRecords for one key.                                          *)
KeyInv(k) ==
    IF marks[getSlot[k]] = "MARKED"
    THEN \/ \E t \in Guarding(k) : Holder(k, t) /\ (Stale(k) => Guarding(k) # {t})
         \/ Lent(k) /\ Guarding(k) = {} /\ ~Stale(k)
    ELSE Stale(k) => Guarding(k) # {}

LEMMA PerKey == MarksGuardRecords <=> \A k \in Keys : Shielded(k) => KeyInv(k)
  BY DEF MarksGuardRecords, Shielded, KeyInv, Holder

LEMMA PerKeyNext == (\A k \in Keys : Shielded(k)' => KeyInv(k)') => MarksGuardRecords'
  BY DEF MarksGuardRecords, Shielded, KeyInv, Holder

(* A key that keeps its mark and its gets.                                 *)
LEMMA KeyKept ==
    ASSUME NEW k \in Keys, KeyInv(k), marks'[getSlot[k]] = marks[getSlot[k]],
           Stale(k)' => Stale(k),
           Guarding(k) \subseteq Guarding(k)',
           marks[getSlot[k]] = "MARKED" =>
               /\ \A u \in Guarding(k) : Holder(k, u) => Holder(k, u)'
               /\ Lent(k) => Lent(k)'
               /\ Guarding(k) = {} => Guarding(k)' = {}
    PROVE  KeyInv(k)'
  <1>0. CASE marks[getSlot[k]] = "MARKED" /\ Lent(k) /\ Guarding(k) = {} /\ ~Stale(k)
    BY <1>0 DEF KeyInv
  <1>1. CASE /\ marks[getSlot[k]] = "MARKED"
             /\ \E t \in Guarding(k) : Holder(k, t) /\ (Stale(k) => Guarding(k) # {t})
    <2>1. PICK t \in Guarding(k) : Holder(k, t) /\ (Stale(k) => Guarding(k) # {t})
      BY <1>1 DEF KeyInv
    <2>2. t \in Guarding(k)' /\ Holder(k, t)'
      BY <1>1, <2>1
    <2>3. Stale(k)' => Guarding(k)' # {t}
      BY <2>1
    <2> QED BY <1>1, <2>2, <2>3 DEF KeyInv
  <1>2. CASE marks[getSlot[k]] # "MARKED"
    <2>1. Stale(k)' => Guarding(k)' # {}
      BY <1>2 DEF KeyInv
    <2> QED BY <1>2, <2>1 DEF KeyInv
  <1> QED BY <1>0, <1>1, <1>2 DEF KeyInv

(* A key that loses its mark, and no get.                                  *)
LEMMA KeyUnmarked ==
    ASSUME NEW k \in Keys, KeyInv(k), marks'[getSlot[k]] # "MARKED",
           Stale(k)' => Stale(k),
           Guarding(k) \subseteq Guarding(k)'
    PROVE  KeyInv(k)'
  <1>1. Stale(k) => Guarding(k) # {}
    BY DEF KeyInv
  <1> QED BY <1>1 DEF KeyInv

(* The gets of k of the other threads are where they were.                 *)
OthersStay(t, k) ==
    \A u \in Threads \ {t} : /\ u \in Guarding(k) <=> u \in Guarding(k)'
                            /\ pc'[u] = pc[u] /\ local'[u] = local[u]

(* One thread moves.                                                       *)
LEMMA GuardMoves ==
    ASSUME ThreadsOK, NEW t \in Threads, NEW p, NEW l, NEW k,
           pc' = [pc EXCEPT ![t] = p], local' = [local EXCEPT ![t] = l]
    PROVE  OthersStay(t, k) /\ pc'[t] = p /\ local'[t] = l
  <1>1. \A u \in Threads \ {t} : pc'[u] = pc[u] /\ local'[u] = local[u]
    BY DEF ThreadsOK
  <1>2. pc'[t] = p /\ local'[t] = l
    BY DEF ThreadsOK
  <1>3. \A u \in Threads \ {t} : u \in Guarding(k) <=> u \in Guarding(k)'
    BY <1>1 DEF Guarding
  <1> QED BY <1>1, <1>2, <1>3 DEF OthersStay

(* A get with a mark that goes on, and has not removed its record, guards. *)
LEMMA GuardStays ==
    ASSUME NEW t \in Threads, NEW k, local'[t].marked = TRUE, local'[t].key = k,
           pc'[t] \in {"fetch", "put", "store", "reset", "invalidate", "remove"}
    PROVE  t \in Guarding(k)'
  BY DEF Guarding

(* A call without a mark guards nothing.                                   *)
LEMMA GuardLeft ==
    ASSUME NEW t, NEW k, local'[t].marked = FALSE \/ pc'[t] = "force"
    PROVE  t \notin Guarding(k)'
  BY DEF Guarding

LEMMA StaysOut ==
    ASSUME NEW t, NEW k, t \notin Guarding(k),
           pc[t] \in {"fetch", "put", "store", "reset", "invalidate", "remove"},
           local'[t].marked = local[t].marked, local'[t].key = local[t].key
    PROVE  t \notin Guarding(k)'
  BY DEF Guarding

LEMMA GuardThreads == \A k : Guarding(k) \subseteq Threads /\ Guarding(k)' \subseteq Threads
  BY DEF Guarding

LEMMA GuardMarked ==
    ThreadsOK => \A k : \A t \in Guarding(k) :
        /\ local[t].marked = TRUE /\ local[t].key = k /\ t \in Threads
        /\ pc[t] \in {"fetch", "put", "store", "reset", "invalidate", "remove"}
  BY DEF Guarding, ThreadsOK, Locals

LEMMA GuardOfOne == \A j, k : \A t : t \in Guarding(j) /\ t \in Guarding(k) => j = k
  BY DEF Guarding

(* What the operations of KeyStateMarker do to the slot of a key.          *)
LEMMA MarkEffects ==
    ASSUME TypeInv, NEW j \in Keys, NEW k \in Keys
    PROVE  /\ \A e, u \in MarkStates : casState(j, e, u) =>
                 marks'[getSlot[k]] = IF getSlot[j] = getSlot[k] /\ marks[getSlot[k]] = e THEN u
                                      ELSE marks[getSlot[k]]
           /\ forceUnmark(j) =>
                 marks'[getSlot[k]] = IF getSlot[j] = getSlot[k] THEN "UNMARKED"
                                      ELSE marks[getSlot[k]]
           /\ initMarks => marks'[getSlot[k]] = "UNMARKED"
  <1>1. getSlot[j] \in Slots /\ getSlot[k] \in Slots /\ marks \in [Slots -> MarkStates]
    BY NearCacheAssumption, TypeParts DEF TypeInv
  <1>2. ASSUME NEW e \in MarkStates, NEW u \in MarkStates, casState(j, e, u)
        PROVE  marks'[getSlot[k]] = IF getSlot[j] = getSlot[k] /\ marks[getSlot[k]] = e THEN u
                                    ELSE marks[getSlot[k]]
    <2>1. marks' = [marks EXCEPT ![getSlot[j]] = IF marks[getSlot[j]] = e THEN u
                                                 ELSE marks[getSlot[j]]]
      BY <1>2 DEF casState
    <2>2. CASE getSlot[j] = getSlot[k]
      BY <1>1, <2>1, <2>2
    <2>3. CASE getSlot[j] # getSlot[k]
      BY <1>1, <2>1, <2>3
    <2> QED BY <2>2, <2>3
  <1>3. forceUnmark(j) =>
           marks'[getSlot[k]] = IF getSlot[j] = getSlot[k] THEN "UNMARKED"
                                ELSE marks[getSlot[k]]
    BY <1>1 DEF forceUnmark
  <1>4. initMarks => marks'[getSlot[k]] = "UNMARKED"
    BY <1>1 DEF initMarks
  <1> QED BY <1>2, <1>3, <1>4

LEMMA UnmarkedEffects ==
    ASSUME TypeInv, NEW j \in Keys \cup {ALL}, NEW k \in Keys, Unmarked(j)
    PROVE  \/ marks'[getSlot[k]] # "MARKED"
           \/ k \notin KeysOf(j) /\ marks'[getSlot[k]] = marks[getSlot[k]]
  <1>1. CASE j = ALL
    BY <1>1, MarkEffects DEF Unmarked, KeysOf
  <1>2. CASE j \in Keys
    <2>1. KeysOf(j) = {j} /\ tryRemove(j)
      BY <1>2, NearCacheAssumption DEF Unmarked, KeysOf
    <2>2. casState(j, "MARKED", "REMOVED") /\ "MARKED" \in MarkStates /\ "REMOVED" \in MarkStates
      BY <2>1 DEF tryRemove, MarkStates
    <2>3. marks'[getSlot[k]] = IF getSlot[j] = getSlot[k] /\ marks[getSlot[k]] = "MARKED"
                               THEN "REMOVED" ELSE marks[getSlot[k]]
      BY <1>2, <2>2, MarkEffects
    <2> QED BY <2>1, <2>3
  <1> QED BY <1>1, <1>2

(* An update of the cluster: the event it sends, or the registration that  *)
(* is under way, will take the mark away and remove the record.            *)
LEMMA AppliedKeeps ==
    ASSUME TypeInv, NEW j \in Keys \cup {ALL}, Applied(j),
           \A i \in KeysOf(j) : server[i] < MaxVersion,
           UNCHANGED <<handling, listener, records>>, listener # "failed",
           NEW k \in Keys
    PROVE  /\ Stale(k)' => Stale(k)
           /\ server'[k] = server[k] \/ WillUnmark(k)'
           /\ WillUnmark(k) => WillUnmark(k)'
  <1>0. /\ events \in [Keys \cup {ALL} -> Nat]
        /\ listener \in {"failed", "lost", "beforeRegister", "onRegister", "clearing", "registered"}
    BY DEF TypeInv, TypeOK
  <1>1. /\ events' \in [Keys \cup {ALL} -> Nat]
        /\ \A i \in Keys : server'[i] = IF i \in KeysOf(j) THEN server[i] + 1 ELSE server[i]
        /\ \A i \in Keys \cup {ALL} : events'[i] >= events[i]
        /\ Listening => events'[j] > 0
    BY AppliedTypes, Zenon
  <1>2. WillUnmark(k) => WillUnmark(k)'
    BY <1>0, <1>1 DEF WillUnmark
  <1>3. server'[k] = server[k] \/ WillUnmark(k)'
    <2>1. CASE k \in KeysOf(j)
      <3>1. j \in {k, ALL}
        BY <2>1 DEF KeysOf
      <3>2. CASE Listening
        BY <1>1, <3>1, <3>2 DEF WillUnmark
      <3>3. CASE ~Listening
        BY <1>0, <3>3 DEF Listening, WillUnmark
      <3> QED BY <3>2, <3>3
    <2>2. CASE k \notin KeysOf(j)
      BY <1>1, <2>2
    <2> QED BY <2>1, <2>2
  <1>4. WillRemove(k) => WillRemove(k)'
    BY <1>2 DEF WillRemove
  <1>5. Stale(k)' => Stale(k)
    BY <1>3, <1>4 DEF Stale, WillRemove
  <1> QED BY <1>2, <1>3, <1>5

(* A step that leaves the cluster and the events alone, and adds no        *)
(* record of k.                                                            *)
LEMMA StillStale ==
    ASSUME NEW k, UNCHANGED <<server, events, handling, listener>>,
           k \in DOMAIN records' => k \in DOMAIN records /\ records'[k] = records[k]
    PROVE  /\ Stale(k)' => Stale(k)
           /\ WillUnmark(k)' <=> WillUnmark(k)
  BY DEF Stale, WillRemove, WillUnmark

(* The get t of a key that shares the slot of k goes on under its mark.    *)
StillBears(t, k) ==
    \/ marks'[getSlot[k]] # "MARKED"
    \/ \A j \in Sharing(k) : t \in Guarding(j) /\ Bearing(t) =>
                                  t \in Guarding(j)' /\ Bearing(t)'

LEMMA LentStays ==
    ASSUME NEW k, NEW t, \A j : OthersStay(t, j), StillBears(t, k),
           marks'[getSlot[k]] = "MARKED", Lent(k)
    PROVE  Lent(k)'
  <1>0. PICK j \in Sharing(k) : \E u \in Guarding(j) : Bearing(u)
    BY DEF Lent
  <1>1. PICK u \in Guarding(j) : Bearing(u)
    BY <1>0
  <1>2. u \in Threads
    BY GuardThreads
  <1>3. CASE u = t
    <2>1. t \in Guarding(j)' /\ Bearing(t)'
      BY <1>1, <1>3 DEF StillBears
    <2> QED BY <1>1, <2>1 DEF Lent, Sharing
  <1>4. CASE u # t
    <2>1. u \in Guarding(j)' /\ pc'[u] = pc[u]
      BY <1>1, <1>2, <1>4 DEF OthersStay
    <2>2. Bearing(u)'
      BY <1>1, <2>1 DEF Bearing
    <2> QED BY <1>1, <2>1, <2>2 DEF Lent, Sharing
  <1> QED BY <1>3, <1>4

(* A thread that is not guarding k moves.                                  *)
LEMMA OtherMoves ==
    ASSUME ThreadsOK, NEW k \in Keys, KeyInv(k), NEW t \in Threads, NEW p, NEW l,
           pc' = [pc EXCEPT ![t] = p], local' = [local EXCEPT ![t] = l],
           t \notin Guarding(k), t \notin Guarding(k)', StillBears(t, k),
           marks'[getSlot[k]] = marks[getSlot[k]] \/ marks'[getSlot[k]] # "MARKED",
           Stale(k)' => Stale(k),
           server'[k] = server[k] \/ WillUnmark(k)',
           WillUnmark(k) => WillUnmark(k)'
    PROVE  KeyInv(k)'
  <1>1. \A j : OthersStay(t, j)
    BY GuardMoves, Zenon
  <1>2. /\ \A u \in Guarding(k) : u \in Threads \ {t}
        /\ \A u \in Guarding(k)' : u \in Threads \ {t}
    BY GuardThreads
  <1>3. Guarding(k)' = Guarding(k)
    BY <1>1, <1>2 DEF OthersStay
  <1>4. \A u \in Guarding(k) : Holder(k, u) => Holder(k, u)'
    BY <1>1, <1>2 DEF OthersStay, Holder, Bearing
  <1>5. marks'[getSlot[k]] = "MARKED" => (Lent(k) => Lent(k)')
    BY <1>1, LentStays, Zenon
  <1> QED BY <1>3, <1>4, <1>5, KeyKept, KeyUnmarked, Zenon

LEMMA Jump ==
    ASSUME ThreadsOK, NEW t \in Threads, NEW p, Goto(t, p), UNCHANGED local
    PROVE  pc' = [pc EXCEPT ![t] = p] /\ local' = [local EXCEPT ![t] = local[t]]
  BY DEF ThreadsOK, Goto

(* A call that returns holds no mark.                                      *)
LEMMA Returns ==
    ASSUME ThreadsOK, NEW t \in Threads, Return(t) \/ End(t)
    PROVE  \E p, l : /\ pc' = [pc EXCEPT ![t] = p] /\ local' = [local EXCEPT ![t] = l]
                     /\ l.marked = FALSE
  <1>1. CASE End(t)
    <2>1. Idle.marked = FALSE
      BY DEF Idle
    <2> QED BY <1>1, <2>1, Zenon DEF End, Goto
  <1>2. CASE /\ local' = [local EXCEPT ![t].op = "get", ![t].marked = FALSE]
             /\ Goto(t, "reset")
    <2> DEFINE l == [local[t] EXCEPT !.op = "get", !.marked = FALSE]
    <2>1. local[t] \in Locals
      BY DEF ThreadsOK
    <2>2. local' = [local EXCEPT ![t] = l]
      BY <1>2, Zenon
    <2>3. l.marked = FALSE
      BY <2>1 DEF Locals
    <2> HIDE DEF l
    <2> QED BY <1>2, <2>2, <2>3, Zenon DEF Goto
  <1> QED BY <1>1, <1>2, Zenon DEF Return

LEMMA NotGuarding ==
    ASSUME TypeInv, NEW t \in Threads, NEW k \in Keys,
           \/ pc[t] \in {"idle", "mark", "update", "force"}
           \/ local[t].key # k
           \/ local[t].op = "update"
    PROVE  t \notin Guarding(k)
  <1>1. ThreadsOK /\ LocalOK(pc[t], local[t])
    BY DEF TypeInv, ThreadsOK
  <1> QED BY <1>1, GuardMarked DEF LocalOK

(* A thread that begins a call.                                            *)
LEMMA BeginKeeps ==
    ASSUME TypeInv, NEW k \in Keys, KeyInv(k), NEW t \in Threads,
           \/ \E j \in Keys : GetMiss(t, j) \/ UpdateAsync(t, j)
           \/ \E j \in Keys \cup {ALL} : Update(t, j)
    PROVE  KeyInv(k)'
  <1>1. /\ pc[t] = "idle" /\ UNCHANGED <<server, events, handling, listener, records, marks>>
    BY Zenon DEF GetMiss, UpdateAsync, Update, Begin, cluster, events_
  <1>2. PICK p, l : /\ pc' = [pc EXCEPT ![t] = p] /\ local' = [local EXCEPT ![t] = l]
                    /\ l.marked = FALSE
    <2>1. ASSUME NEW op, NEW j, NEW p, Begin(t, op, j, p)
          PROVE  \E q, l : /\ pc' = [pc EXCEPT ![t] = q] /\ local' = [local EXCEPT ![t] = l]
                           /\ l.marked = FALSE
      <3> DEFINE l == [Idle EXCEPT !.op = op, !.key = j]
      <3>1. pc' = [pc EXCEPT ![t] = p] /\ local' = [local EXCEPT ![t] = l]
        BY <2>1 DEF Begin, Goto
      <3>2. l.marked = FALSE
        BY DEF Idle
      <3> HIDE DEF l
      <3> QED BY <3>1, <3>2, Zenon
    <2> QED BY <2>1, Zenon DEF GetMiss, UpdateAsync, Update
  <1>3. t \notin Guarding(k) /\ ~Bearing(t)
    BY <1>1, NotGuarding DEF Bearing
  <1>4. (Stale(k)' => Stale(k)) /\ (WillUnmark(k)' <=> WillUnmark(k))
    BY <1>1, StillStale
  <1>5. t \notin Guarding(k)'
    BY <1>2, GuardMoves, GuardLeft, Zenon DEF TypeInv
  <1> QED BY <1>1, <1>2, <1>3, <1>4, <1>5, OtherMoves, Zenon DEF TypeInv, StillBears

(* A get marks its key.  A mark for another key of the slot finds no get   *)
(* of k under way, or the slot is crossed.                                 *)
LEMMA TryMarkKeeps ==
    ASSUME TypeInv, NEW k \in Keys, KeyInv(k), NEW t \in Threads, TryMark(t),
           getSlot[k] \notin crossed'
    PROVE  KeyInv(k)'
  <1> DEFINE j == local[t].key
             m == (marks[getSlot[j]] = "UNMARKED")
             l == [local[t] EXCEPT !.marked = m]
  <1>0. ThreadsOK /\ LocalOK("mark", local[t]) /\ local[t] \in Locals /\ pc[t] = "mark"
    BY DEF TypeInv, ThreadsOK, TryMark
  <1>1. j \in Keys
    BY <1>0 DEF LocalOK
  <1>2. pc' = [pc EXCEPT ![t] = "fetch"] /\ local' = [local EXCEPT ![t] = l]
    BY DEF TryMark, Goto
  <1>m. m \in BOOLEAN
    OBVIOUS
  <1>3. l.key = j /\ l.marked = m
    <2> HIDE DEF m
    <2> QED BY <1>0, <1>m DEF Locals
  <1>4. t \notin Guarding(k) /\ ~Bearing(t)
    BY <1>0, NotGuarding DEF Bearing
  <1>5. marks'[getSlot[k]] = IF getSlot[j] = getSlot[k] /\ marks[getSlot[k]] = "UNMARKED"
                             THEN "MARKED" ELSE marks[getSlot[k]]
    <2>1. casState(j, "UNMARKED", "MARKED") /\ "MARKED" \in MarkStates /\ "UNMARKED" \in MarkStates
      BY DEF TryMark, tryMark, MarkStates
    <2> QED BY <1>1, <2>1, MarkEffects
  <1>6. UNCHANGED <<server, events, handling, listener, records>>
    BY DEF TryMark, cluster
  <1>7. (Stale(k)' => Stale(k)) /\ (WillUnmark(k)' <=> WillUnmark(k))
    BY <1>6, StillStale
  <1>c. m /\ getSlot[j] = getSlot[k] /\ j # k => Guarding(k) = {}
    <2>1. getSlot[j] = getSlot[k] /\ j # k => k \in Sharing(j)
      BY DEF Sharing
    <2>2. crossed' = IF m /\ \E i \in Sharing(j) : Guarding(i) # {}
                     THEN crossed \cup {getSlot[j]} ELSE crossed
      BY DEF TryMark
    <2> HIDE DEF j, m
    <2> QED BY <2>1, <2>2
  <1> HIDE DEF l, m
  <1>s. \A i : OthersStay(t, i) /\ pc'[t] = "fetch" /\ local'[t] = l
    BY <1>0, <1>2, GuardMoves, Zenon
  <1>o. \A u \in Guarding(k) : u # t /\ u \in Guarding(k)'
    BY <1>4, <1>s, GuardThreads DEF OthersStay
  <1>8. CASE ~(getSlot[j] = getSlot[k] /\ marks[getSlot[k]] = "UNMARKED")
    <2>1. marks'[getSlot[k]] = marks[getSlot[k]]
      BY <1>5, <1>8
    <2>2. j # k \/ m = FALSE
      BY <1>8 DEF m
    <2>3. local'[t].key # k \/ local'[t].marked = FALSE
      BY <1>3, <1>s, <2>2
    <2>4. t \notin Guarding(k)'
      BY <2>3 DEF Guarding
    <2> QED BY <1>0, <1>2, <1>4, <1>6, <1>7, <2>1, <2>4, OtherMoves, Zenon DEF StillBears
  <1>9. CASE j = k /\ marks[getSlot[k]] = "UNMARKED"
    <2>1. marks'[getSlot[k]] = "MARKED" /\ m = TRUE
      BY <1>5, <1>9 DEF m
    <2>2. t \in Guarding(k)' /\ pc'[t] = "fetch"
      <3>1. l.marked = TRUE /\ l.key = k
        BY <1>3, <1>9, <2>1
      <3> QED BY <1>s, <3>1, GuardStays, Zenon
    <2>3. Holder(k, t)'
      BY <2>2 DEF Holder, Bearing
    <2>4. Stale(k)' => Guarding(k)' # {t}
      <3>1. Stale(k) => Guarding(k) # {}
        BY <1>9 DEF KeyInv
      <3> QED BY <1>7, <1>o, <3>1
    <2> QED BY <2>1, <2>2, <2>3, <2>4 DEF KeyInv
  <1>10. CASE j # k /\ getSlot[j] = getSlot[k] /\ marks[getSlot[k]] = "UNMARKED"
    <2>1. marks'[getSlot[k]] = "MARKED" /\ m = TRUE
      BY <1>5, <1>10 DEF m
    <2>2. Guarding(k) = {}
      BY <1>10, <1>c, <2>1
    <2>3. ~Stale(k)'
      BY <1>7, <1>10, <2>2 DEF KeyInv
    <2>4. Lent(k)'
      <3>1. PICK i \in Sharing(k) : i = j
        BY <1>1, <1>10 DEF Sharing
      <3>2. local'[t].marked = TRUE /\ local'[t].key = i /\ pc'[t] = "fetch"
        BY <1>3, <1>s, <2>1, <3>1, Zenon
      <3>3. t \in Guarding(i)' /\ Bearing(t)'
        BY <3>2, GuardStays, Zenon DEF Bearing
      <3> QED BY <3>3 DEF Lent, Sharing
    <2>5. Guarding(k)' = {}
      <3>1. t \notin Guarding(k)'
        BY <1>3, <1>10, <1>s DEF Guarding
      <3> QED BY <1>s, <2>2, <3>1, GuardThreads DEF OthersStay
    <2> QED BY <2>1, <2>3, <2>4, <2>5 DEF KeyInv
  <1> HIDE DEF j
  <1> QED BY <1>8, <1>9, <1>10

(* A thread goes on with a get, or with an invalidation.                   *)
LEMMA GoesOn ==
    ASSUME NEW t \in Threads, NEW k,
           local'[t].marked = local[t].marked, local'[t].key = local[t].key,
           pc[t] \in {"fetch", "put", "store", "reset", "invalidate", "remove"},
           pc'[t] \in {"put", "store", "reset", "invalidate", "remove"}
    PROVE  /\ t \in Guarding(k) <=> t \in Guarding(k)'
           /\ (Bearing(t) => Bearing(t)') => StillBears(t, k)
  <1>1. \A j : t \in Guarding(j) <=> t \in Guarding(j)'
    BY DEF Guarding
  <1> QED BY <1>1 DEF StillBears

(* A get that is guarding k goes on, and stays a guard.                    *)
LEMMA GuardGoesOn ==
    ASSUME NEW k \in Keys, KeyInv(k), NEW t \in Threads,
           \A j : OthersStay(t, j),
           t \in Guarding(k),
           local'[t].marked = TRUE, local'[t].key = k,
           pc'[t] \in {"put", "store", "reset"},
           pc'[t] \in {"put", "store"} =>
               \/ local'[t].value = server[k]
               \/ pc[t] \in {"put", "store"} /\ local'[t].value = local[t].value,
           UNCHANGED <<server, events, handling, listener, marks>>,
           k \in DOMAIN records' => k \in DOMAIN records /\ records'[k] = records[k]
    PROVE  KeyInv(k)'
  <1>1. t \in Guarding(k)'
    BY GuardStays, Zenon
  <1>2. (Stale(k)' => Stale(k)) /\ (WillUnmark(k)' <=> WillUnmark(k))
    BY StillStale
  <1>3. Guarding(k) \subseteq Guarding(k)'
    BY <1>1, GuardThreads DEF OthersStay
  <1>4. ASSUME NEW u \in Guarding(k), Holder(k, u) PROVE Holder(k, u)'
    <2>1. CASE u = t
      BY <1>1, <1>2, <1>4, <2>1 DEF Holder, Bearing
    <2>2. CASE u # t
      BY <1>1, <1>2, <1>4, <2>2, GuardThreads DEF OthersStay, Holder, Bearing
    <2> QED BY <2>1, <2>2
  <1>5. CASE StillBears(t, k)
    <2>1. marks'[getSlot[k]] = "MARKED" => (Lent(k) => Lent(k)')
      BY <1>5, LentStays, Zenon
    <2> QED BY <1>2, <1>3, <1>4, <2>1, KeyKept, Zenon
  <1>6. StillBears(t, k)
    BY GuardOfOne DEF StillBears, Sharing
  <1> QED BY <1>5, <1>6

LEMMA FetchKeeps ==
    ASSUME TypeInv, NEW k \in Keys, KeyInv(k), NEW t \in Threads, Fetch(t)
    PROVE  KeyInv(k)'
  <1>0. ThreadsOK /\ local[t] \in Locals /\ pc[t] = "fetch"
    BY DEF TypeInv, ThreadsOK, Fetch
  <1>1. UNCHANGED <<server, events, handling, listener, records, marks>>
    BY DEF Fetch, cluster, events_
  <1>2. (Stale(k)' => Stale(k)) /\ (WillUnmark(k)' <=> WillUnmark(k))
    BY <1>1, StillStale
  <1>3. CASE ~local[t].marked /\ End(t)
    <2>1. PICK p, l : /\ pc' = [pc EXCEPT ![t] = p] /\ local' = [local EXCEPT ![t] = l]
                      /\ l.marked = FALSE
      BY <1>0, <1>3, Returns, Zenon
    <2>2. local'[t].marked = FALSE
      BY <1>0, <2>1, GuardMoves, Zenon
    <2>3. t \notin Guarding(k)'
      BY <2>2, GuardLeft, Zenon
    <2>4. \A j : t \notin Guarding(j)
      BY <1>0, <1>3, GuardMarked
    <2> QED BY <1>0, <1>1, <1>2, <2>1, <2>3, <2>4, OtherMoves, Zenon DEF StillBears
  <1>4. ASSUME NEW p \in {"put", "reset"}, NEW l,
               pc' = [pc EXCEPT ![t] = p], local' = [local EXCEPT ![t] = l],
               l.marked = local[t].marked, l.key = local[t].key,
               p = "put" => l.value = server[local[t].key]
        PROVE  KeyInv(k)'
    <2>1. \A j : OthersStay(t, j) /\ pc'[t] = p /\ local'[t] = l
      BY <1>0, <1>4, GuardMoves, Zenon
    <2>2. (t \in Guarding(k) <=> t \in Guarding(k)') /\ StillBears(t, k)
      <3>1. Bearing(t)'
        BY <2>1 DEF Bearing
      <3> QED BY <1>0, <1>4, <2>1, <3>1, GoesOn
    <2>3. CASE t \notin Guarding(k)
      BY <1>0, <1>1, <1>2, <1>4, <2>2, <2>3, OtherMoves, Zenon
    <2>4. CASE t \in Guarding(k)
      <3>1. local[t].marked = TRUE /\ local[t].key = k
        BY <1>0, <2>4, GuardMarked
      <3> QED BY <1>1, <1>4, <2>1, <2>4, <3>1, GuardGoesOn, Zenon
    <2> QED BY <2>3, <2>4
  <1>5. CASE /\ local' = [local EXCEPT ![t].value = server[local[t].key]]
             /\ Goto(t, "put")
    <2> DEFINE l == [local[t] EXCEPT !.value = server[local[t].key]]
    <2>1. local' = [local EXCEPT ![t] = l] /\ pc' = [pc EXCEPT ![t] = "put"]
      BY <1>5 DEF Goto
    <2>2. l.marked = local[t].marked /\ l.key = local[t].key /\ l.value = server[local[t].key]
      BY <1>0 DEF Locals
    <2> HIDE DEF l
    <2> QED BY <1>4, <2>1, <2>2, Zenon
  <1>6. CASE Goto(t, "reset") /\ UNCHANGED local
    BY <1>0, <1>4, <1>6, Jump
  <1> QED BY <1>3, <1>5, <1>6 DEF Fetch

LEMMA PutKeeps ==
    ASSUME TypeInv, NEW k \in Keys, KeyInv(k), NEW t \in Threads, Put(t)
    PROVE  KeyInv(k)'
  <1>0. ThreadsOK /\ pc[t] = "put" /\ RecordsOK
    BY TypeParts DEF TypeInv, Put
  <1>1. UNCHANGED <<server, events, handling, listener, marks>>
    BY DEF Put, cluster, events_
  <1>2. k \in DOMAIN records' => k \in DOMAIN records /\ records'[k] = records[k]
    BY <1>0, EvictedRecords DEF Put
  <1>3. (Stale(k)' => Stale(k)) /\ (WillUnmark(k)' <=> WillUnmark(k))
    BY <1>1, <1>2, StillStale
  <1>4. pc' = [pc EXCEPT ![t] = "store"] /\ local' = [local EXCEPT ![t] = local[t]]
    BY <1>0, Jump DEF Put
  <1>m. \A j : OthersStay(t, j) /\ pc'[t] = "store" /\ local'[t] = local[t]
    BY <1>0, <1>4, GuardMoves, Zenon
  <1>n. (t \in Guarding(k) <=> t \in Guarding(k)') /\ StillBears(t, k)
    <2>1. Bearing(t)'
      BY <1>m DEF Bearing
    <2> QED BY <1>0, <1>m, <2>1, GoesOn
  <1>5. CASE t \notin Guarding(k)
    BY <1>0, <1>1, <1>3, <1>4, <1>5, <1>n, OtherMoves, Zenon
  <1>6. CASE t \in Guarding(k)
    <2>2. local[t].marked = TRUE /\ local[t].key = k
      BY <1>0, <1>6, GuardMarked
    <2> QED BY <1>0, <1>1, <1>2, <1>6, <1>m, <2>2, GuardGoesOn, Zenon
  <1> QED BY <1>5, <1>6

(* A stored value may be stale: then the mark is another get's, or gone.   *)
LEMMA StoreKeeps ==
    ASSUME TypeInv, NEW k \in Keys, KeyInv(k), NEW t \in Threads, Store(t)
    PROVE  KeyInv(k)'
  <1>0. /\ ThreadsOK /\ RecordsOK /\ pc[t] = "store" /\ local[t] \in Locals
        /\ local[t].marked = TRUE /\ local[t].key \in Keys /\ local[t].value \in Versions
    <2>1. ThreadsOK /\ RecordsOK /\ pc[t] = "store" /\ local[t] \in Locals /\ LocalOK("store", local[t])
      BY TypeParts DEF TypeInv, Store, ThreadsOK
    <2>2. local[t].marked
      BY DEF Store
    <2> QED BY <2>1, <2>2 DEF Locals, LocalOK
  <1>1. UNCHANGED <<server, events, handling, listener, marks>>
    BY DEF Store, cluster, events_
  <1>2. \E l : /\ local' = [local EXCEPT ![t] = l]
               /\ l.marked = TRUE /\ l.key = local[t].key
    <2>1. CASE UNCHANGED local
      <3>1. local' = [local EXCEPT ![t] = local[t]]
        BY <1>0, <2>1 DEF ThreadsOK
      <3> QED BY <1>0, <3>1, Zenon
    <2>2. CASE local' = [local EXCEPT ![t].op = "throwing"]
      <3> DEFINE n == [local[t] EXCEPT !.op = "throwing"]
      <3>1. n.marked = TRUE /\ n.key = local[t].key
        BY <1>0 DEF Locals
      <3>2. local' = [local EXCEPT ![t] = n]
        BY <2>2
      <3> HIDE DEF n
      <3> QED BY <3>1, <3>2, Zenon
    <2> QED BY <2>1, <2>2, Zenon DEF Store
  <1>3. PICK l : /\ local' = [local EXCEPT ![t] = l]
                 /\ l.marked = TRUE /\ l.key = local[t].key
    BY <1>2, Zenon
  <1>4. pc' = [pc EXCEPT ![t] = "reset"]
    BY DEF Store, Goto
  <1>5. \A j : OthersStay(t, j) /\ pc'[t] = "reset" /\ local'[t] = l
    BY <1>0, <1>3, <1>4, GuardMoves, Zenon
  <1>b. (t \in Guarding(k) <=> t \in Guarding(k)') /\ StillBears(t, k)
    <2>1. Bearing(t)'
      BY <1>5 DEF Bearing
    <2> QED BY <1>0, <1>3, <1>5, <2>1, GoesOn, Zenon
  <1>6. CASE k \in DOMAIN records' => k \in DOMAIN records /\ records'[k] = records[k]
    <2>1. (Stale(k)' => Stale(k)) /\ (WillUnmark(k)' <=> WillUnmark(k))
      BY <1>1, <1>6, StillStale
    <2>2. CASE t \notin Guarding(k)
      BY <1>0, <1>1, <1>3, <1>4, <1>b, <2>1, <2>2, OtherMoves, Zenon
    <2>3. CASE t \in Guarding(k)
      <3>1. local[t].key = k
        BY <1>0, <2>3, GuardMarked
      <3> QED BY <1>1, <1>3, <1>5, <1>6, <2>3, <3>1, GuardGoesOn, Zenon
    <2> QED BY <2>2, <2>3
  <1>7. CASE /\ local[t].key = k
             /\ k \in DOMAIN records' /\ records'[k] = local[t].value
    <2>1. t \in Guarding(k)'
      BY <1>3, <1>5, <1>7, GuardStays, Zenon
    <2>2. WillUnmark(k)' <=> WillUnmark(k)
      BY <1>1 DEF WillUnmark
    <2>3. CASE marks[getSlot[k]] = "MARKED"
      <3>1. PICK h \in Guarding(k) : Holder(k, h)
        <4>1. t \in Guarding(k)
          BY <1>b, <2>1
        <4> QED BY <2>3, <4>1 DEF KeyInv
      <3>2. CASE h = t
        <4>1. local[t].value = server[k] \/ WillUnmark(k)
          BY <1>0, <3>1, <3>2 DEF Holder
        <4>2. ~Stale(k)'
          BY <1>1, <1>7, <2>2, <4>1 DEF Stale, WillRemove
        <4>3. Holder(k, t)'
          BY <1>5 DEF Holder, Bearing
        <4> QED BY <1>1, <2>1, <2>3, <4>2, <4>3 DEF KeyInv
      <3>3. CASE h # t
        <4>1. h \in Guarding(k)' /\ pc'[h] = pc[h] /\ local'[h] = local[h]
          BY <1>5, <3>1, <3>3, GuardThreads DEF OthersStay
        <4>2. Holder(k, h)'
          BY <1>1, <2>2, <3>1, <4>1 DEF Holder, Bearing
        <4>3. Guarding(k)' # {h}
          BY <2>1, <3>3
        <4> QED BY <1>1, <2>3, <4>1, <4>2, <4>3, Zenon DEF KeyInv
      <3> QED BY <3>2, <3>3
    <2>4. CASE marks[getSlot[k]] # "MARKED"
      BY <1>1, <2>1, <2>4 DEF KeyInv
    <2> QED BY <2>3, <2>4
  <1>8. CASE UNCHANGED records
    BY <1>6, <1>8
  <1>9. CASE putInternal(local[t].key, local[t].value)
    <2>1. /\ \A j \in DOMAIN records' : j # local[t].key =>
                 j \in DOMAIN records /\ records'[j] = records[j]
          /\ \/ records' = records
             \/ /\ local[t].key \in DOMAIN records'
                /\ records'[local[t].key] = local[t].value
      BY <1>0, <1>9, PutRecords
    <2> QED BY <1>6, <1>7, <2>1
  <1> QED BY <1>8, <1>9 DEF Store

(* Taking the mark off leaves a stale record to another get.               *)
LEMMA ResetKeeps ==
    ASSUME TypeInv, NEW k \in Keys, KeyInv(k), NEW t \in Threads, Reset(t)
    PROVE  KeyInv(k)'
  <1> DEFINE j == local[t].key
  <1>0. ThreadsOK /\ pc[t] = "reset" /\ local[t] \in Locals /\ j \in Keys
    <2>1. ThreadsOK /\ pc[t] = "reset" /\ local[t] \in Locals /\ LocalOK("reset", local[t])
      BY DEF TypeInv, Reset, ThreadsOK
    <2> QED BY <2>1 DEF LocalOK
  <1>1. UNCHANGED <<server, events, handling, listener, records>>
    BY DEF Reset, cluster, events_
  <1>2. (Stale(k)' => Stale(k)) /\ (WillUnmark(k)' <=> WillUnmark(k))
    BY <1>1, StillStale
  <1>3. marks'[getSlot[k]] = IF getSlot[j] = getSlot[k] /\ marks[getSlot[k]] = "MARKED"
                             THEN "UNMARKED" ELSE marks[getSlot[k]]
    <2>1. casState(j, "MARKED", "UNMARKED") /\ "MARKED" \in MarkStates /\ "UNMARKED" \in MarkStates
      BY DEF Reset, tryUnmark, MarkStates
    <2> QED BY <1>0, <2>1, MarkEffects
  <1>4. \E p, l : pc' = [pc EXCEPT ![t] = p] /\ local' = [local EXCEPT ![t] = l]
    <2>1. CASE Return(t)
      BY <1>0, <2>1, Returns, Zenon
    <2>2. CASE Goto(t, "invalidate") /\ UNCHANGED local
      BY <1>0, <2>2, Jump
    <2> QED BY <2>1, <2>2 DEF Reset
  <1>5. OthersStay(t, k)
    BY <1>0, <1>4, GuardMoves, Zenon
  <1>9. \A i : t \in Guarding(i) => j = i
    BY <1>0, GuardMarked
  <1>6. CASE /\ t \notin Guarding(k)
             /\ ~(getSlot[j] = getSlot[k] /\ marks[getSlot[k]] = "MARKED")
    <2>1. marks'[getSlot[k]] = marks[getSlot[k]]
      BY <1>3, <1>6
    <2>2. StillBears(t, k)
      <3>1. getSlot[j] = getSlot[k] => marks'[getSlot[k]] # "MARKED"
        BY <1>6, <2>1
      <3> HIDE DEF j
      <3> QED BY <1>9, <3>1 DEF StillBears, Sharing
    <2>3. t \notin Guarding(k)'
      <3>1. CASE Return(t)
        <4>1. local'[t].marked = FALSE
          BY <1>0, <3>1, Returns, GuardMoves, Zenon
        <4> QED BY <4>1, GuardLeft, Zenon
      <3>2. CASE Goto(t, "invalidate") /\ UNCHANGED local
        BY <1>0, <1>6, <3>2, StaysOut
      <3> QED BY <3>1, <3>2 DEF Reset
    <2> QED BY <1>0, <1>1, <1>2, <1>4, <1>6, <2>1, <2>2, <2>3, OtherMoves, Zenon
  <1>7. CASE getSlot[j] = getSlot[k] /\ marks[getSlot[k]] = "MARKED"
    <2>1. CASE ~Stale(k)
      BY <1>2, <1>3, <1>7, <2>1 DEF KeyInv
    <2>2. CASE Stale(k)
      <3>1. PICK h \in Guarding(k) : Guarding(k) # {h}
        BY <1>7, <2>2 DEF KeyInv
      <3>2. PICK u \in Guarding(k) : u # t
        BY <3>1
      <3>3. Guarding(k)' # {}
        BY <1>5, <3>2, GuardThreads DEF OthersStay
      <3> QED BY <1>3, <1>7, <3>3 DEF KeyInv
    <2> QED BY <2>1, <2>2
  <1>8. CASE t \in Guarding(k) /\ marks[getSlot[k]] # "MARKED"
    <2>1. local[t].marked = TRUE /\ local[t].key = k
      BY <1>0, <1>8, GuardMarked
    <2>2. Goto(t, "invalidate") /\ UNCHANGED local
      BY <1>8, <2>1 DEF Reset
    <2>3. pc'[t] = "invalidate" /\ local'[t] = local[t]
      BY <1>0, <2>2, Jump, GuardMoves
    <2>4. t \in Guarding(k)'
      BY <2>1, <2>3, GuardStays, Zenon
    <2>5. Guarding(k) \subseteq Guarding(k)'
      BY <1>5, <2>4, GuardThreads DEF OthersStay
    <2> QED BY <1>2, <1>3, <1>8, <2>5, KeyKept, Zenon
  <1>10. t \in Guarding(k) => getSlot[j] = getSlot[k]
    BY <1>9
  <1> HIDE DEF j
  <1> QED BY <1>6, <1>7, <1>8, <1>10

LEMMA ForceUnmarkKeeps ==
    ASSUME TypeInv, NEW k \in Keys, KeyInv(k), NEW t \in Threads, ForceUnmark(t)
    PROVE  KeyInv(k)'
  <1> DEFINE j == local[t].key
  <1>0. ThreadsOK /\ pc[t] = "force" /\ j \in Keys
    <2>1. ThreadsOK /\ pc[t] = "force" /\ LocalOK("force", local[t])
      BY DEF TypeInv, ForceUnmark, ThreadsOK
    <2> QED BY <2>1 DEF LocalOK
  <1>1. UNCHANGED <<server, events, handling, listener, records>>
    BY DEF ForceUnmark, cluster, events_
  <1>2. (Stale(k)' => Stale(k)) /\ (WillUnmark(k)' <=> WillUnmark(k))
    BY <1>1, StillStale
  <1>3. marks'[getSlot[k]] = IF getSlot[j] = getSlot[k] THEN "UNMARKED"
                             ELSE marks[getSlot[k]]
    BY <1>0, MarkEffects DEF ForceUnmark
  <1>4. PICK p, l : /\ pc' = [pc EXCEPT ![t] = p] /\ local' = [local EXCEPT ![t] = l]
                    /\ l.marked = FALSE
    BY <1>0, Returns, Zenon DEF ForceUnmark
  <1>5. t \notin Guarding(k) /\ ~Bearing(t)
    BY <1>0, NotGuarding DEF Bearing
  <1>6. t \notin Guarding(k)'
    BY <1>0, <1>4, GuardMoves, GuardLeft, Zenon
  <1> HIDE DEF j
  <1> QED BY <1>0, <1>1, <1>2, <1>3, <1>4, <1>5, <1>6, OtherMoves, Zenon DEF StillBears

(* An invalidation takes the mark away, and then removes the record.       *)
LEMMA InvalidateKeeps ==
    ASSUME TypeInv, NEW k \in Keys, KeyInv(k), NEW t \in Threads, Invalidate(t)
    PROVE  KeyInv(k)'
  <1> DEFINE j == local[t].key
  <1>0. ThreadsOK /\ pc[t] = "invalidate" /\ j \in Keys \cup {ALL}
    <2>1. ThreadsOK /\ pc[t] = "invalidate" /\ LocalOK("invalidate", local[t])
      BY DEF TypeInv, Invalidate, ThreadsOK
    <2> QED BY <2>1 DEF LocalOK
  <1>1. UNCHANGED <<server, events, handling, listener, records>>
    BY DEF Invalidate, cluster, events_
  <1>2. (Stale(k)' => Stale(k)) /\ (WillUnmark(k)' <=> WillUnmark(k))
    BY <1>1, StillStale
  <1>3. \/ marks'[getSlot[k]] # "MARKED"
        \/ k \notin KeysOf(j) /\ marks'[getSlot[k]] = marks[getSlot[k]]
    BY <1>0, UnmarkedEffects DEF Invalidate
  <1>4. pc' = [pc EXCEPT ![t] = "remove"] /\ local' = [local EXCEPT ![t] = local[t]]
    BY <1>0, Jump DEF Invalidate
  <1>m. \A i : OthersStay(t, i) /\ pc'[t] = "remove" /\ local'[t] = local[t]
    BY <1>0, <1>4, GuardMoves, Zenon
  <1>n. (t \in Guarding(k) <=> t \in Guarding(k)') /\ StillBears(t, k)
    <2>1. ~Bearing(t)
      BY <1>0 DEF Bearing
    <2> QED BY <1>0, <1>m, <2>1, GoesOn
  <1>5. CASE t \notin Guarding(k)
    BY <1>0, <1>1, <1>2, <1>3, <1>4, <1>5, <1>n, OtherMoves, Zenon
  <1>6. CASE t \in Guarding(k)
    <2>1. local[t].marked = TRUE /\ local[t].key = k
      BY <1>0, <1>6, GuardMarked
    <2>2. k \in KeysOf(j)
      BY <2>1 DEF KeysOf
    <2>3. Guarding(k) \subseteq Guarding(k)'
      BY <1>6, <1>m, <1>n, GuardThreads DEF OthersStay
    <2> QED BY <1>2, <1>3, <2>2, <2>3, KeyUnmarked
  <1> QED BY <1>5, <1>6

LEMMA RemoveRecordKeeps ==
    ASSUME TypeInv, NEW k \in Keys, KeyInv(k), NEW t \in Threads, RemoveRecord(t)
    PROVE  KeyInv(k)'
  <1> DEFINE j == local[t].key
  <1>0. ThreadsOK /\ RecordsOK /\ pc[t] = "remove" /\ j \in Keys \cup {ALL}
    <2>1. ThreadsOK /\ RecordsOK /\ pc[t] = "remove" /\ LocalOK("remove", local[t])
      BY TypeParts DEF TypeInv, RemoveRecord, ThreadsOK
    <2> QED BY <2>1 DEF LocalOK
  <1>1. UNCHANGED <<server, events, handling, listener, marks>>
    BY DEF RemoveRecord, cluster, events_
  <1>2. /\ DOMAIN records' \subseteq DOMAIN records \ KeysOf(j)
        /\ \A i \in DOMAIN records' : records'[i] = records[i]
    BY <1>0, RemovedRecords DEF RemoveRecord
  <1>3. (Stale(k)' => Stale(k)) /\ (WillUnmark(k)' <=> WillUnmark(k))
    BY <1>1, <1>2, StillStale
  <1>4. PICK p, l : /\ pc' = [pc EXCEPT ![t] = p] /\ local' = [local EXCEPT ![t] = l]
                    /\ l.marked = FALSE \/ p = "force"
    <2>1. CASE End(t)
      <3>1. PICK p, l : /\ pc' = [pc EXCEPT ![t] = p] /\ local' = [local EXCEPT ![t] = l]
                        /\ l.marked = FALSE
        BY <1>0, <2>1, Returns, Zenon
      <3> QED BY <3>1, Zenon
    <2>2. CASE Goto(t, "force") /\ UNCHANGED local
      BY <1>0, <2>2, Jump
    <2> QED BY <2>1, <2>2, Zenon DEF RemoveRecord
  <1>m. \A i : OthersStay(t, i) /\ pc'[t] = p /\ local'[t] = l
    BY <1>0, <1>4, GuardMoves, Zenon
  <1>n. t \notin Guarding(k)'
    BY <1>4, <1>m, GuardLeft, Zenon
  <1>o. StillBears(t, k) /\ ~Bearing(t)
    BY <1>0 DEF StillBears, Bearing
  <1>5. CASE t \notin Guarding(k)
    BY <1>0, <1>1, <1>3, <1>4, <1>5, <1>n, <1>o, OtherMoves, Zenon
  <1>6. CASE t \in Guarding(k)
    <2>1. k \in KeysOf(j)
      BY <1>0, <1>6, GuardMarked DEF KeysOf
    <2>2. ~Stale(k)'
      BY <1>2, <2>1 DEF Stale
    <2>3. CASE marks[getSlot[k]] = "MARKED"
      <3>1. PICK h \in Guarding(k) : Holder(k, h)
        BY <1>6, <2>3 DEF KeyInv
      <3>2. h # t
        BY <1>o, <3>1 DEF Holder
      <3>3. h \in Guarding(k)' /\ pc'[h] = pc[h] /\ local'[h] = local[h]
        BY <1>m, <3>1, <3>2, GuardThreads DEF OthersStay
      <3>4. Holder(k, h)'
        BY <1>1, <1>3, <3>1, <3>3 DEF Holder, Bearing
      <3> QED BY <1>1, <2>2, <2>3, <3>3, <3>4 DEF KeyInv
    <2>4. CASE marks[getSlot[k]] # "MARKED"
      BY <1>1, <2>2, <2>4 DEF KeyInv
    <2> QED BY <2>3, <2>4
  <1> QED BY <1>5, <1>6

(* The updates of the threads of this client, and of others.               *)
LEMMA CallServerKeeps ==
    ASSUME TypeInv, NEW k \in Keys, KeyInv(k), NEW t \in Threads,
           CallServer(t) \/ ReplaceFails(t), listener # "failed"
    PROVE  KeyInv(k)'
  <1> DEFINE j == local[t].key
  <1>0. ThreadsOK /\ pc[t] = "update" /\ j \in Keys \cup {ALL} /\ local[t].marked = FALSE
    <2>1. ThreadsOK /\ pc[t] = "update" /\ LocalOK("update", local[t])
      BY DEF TypeInv, CallServer, ReplaceFails, ThreadsOK
    <2> QED BY <2>1 DEF LocalOK
  <1>1. /\ UNCHANGED <<handling, listener, records, marks>>
        /\ (Updatable(j) /\ Applied(j)) \/ UNCHANGED <<server, events>>
    BY DEF CallServer, ReplaceFails, events_
  <1>2. PICK p, l : /\ pc' = [pc EXCEPT ![t] = p] /\ local' = [local EXCEPT ![t] = l]
                    /\ l.marked = FALSE
    <2>1. CASE End(t)
      BY <1>0, <2>1, Returns, Zenon
    <2>2. CASE Goto(t, "invalidate") /\ UNCHANGED local
      BY <1>0, <2>2, Jump
    <2> QED BY <2>1, <2>2, Zenon DEF CallServer, ReplaceFails
  <1>3. t \notin Guarding(k) /\ ~Bearing(t)
    BY <1>0, NotGuarding DEF Bearing
  <1>5. t \notin Guarding(k)'
    BY <1>0, <1>2, GuardMoves, GuardLeft, Zenon
  <1>4. /\ Stale(k)' => Stale(k)
        /\ server'[k] = server[k] \/ WillUnmark(k)'
        /\ WillUnmark(k) => WillUnmark(k)'
    <2>1. CASE Updatable(j) /\ Applied(j)
      BY <1>0, <1>1, <2>1, UpdatableBounds, AppliedKeeps
    <2>2. CASE UNCHANGED <<server, events>>
      BY <1>1, <2>2, StillStale
    <2> QED BY <1>1, <2>1, <2>2
  <1> HIDE DEF j
  <1> QED BY <1>0, <1>1, <1>2, <1>3, <1>4, <1>5, OtherMoves, Zenon DEF StillBears

(* No thread moves.                                                        *)
LEMMA NoneMoves ==
    ASSUME NEW k \in Keys, KeyInv(k), UNCHANGED <<pc, local>>,
           \/ marks'[getSlot[k]] # "MARKED"
           \/ /\ marks'[getSlot[k]] = marks[getSlot[k]]
              /\ server'[k] = server[k] \/ WillUnmark(k)'
              /\ WillUnmark(k) => WillUnmark(k)',
           Stale(k)' => Stale(k)
    PROVE  KeyInv(k)'
  <1>1. \A j : Guarding(j)' = Guarding(j)
    BY DEF Guarding
  <1>4. Lent(k) => Lent(k)'
    BY <1>1 DEF Lent, Bearing, Sharing
  <1>2. CASE marks'[getSlot[k]] # "MARKED"
    BY <1>1, <1>2, KeyUnmarked
  <1>3. CASE /\ marks'[getSlot[k]] = marks[getSlot[k]]
             /\ server'[k] = server[k] \/ WillUnmark(k)'
             /\ WillUnmark(k) => WillUnmark(k)'
    <2>1. \A u \in Guarding(k) : Holder(k, u) => Holder(k, u)'
      BY <1>3 DEF Holder, Bearing
    <2> QED BY <1>1, <1>3, <1>4, <2>1, KeyKept, Zenon
  <1> QED BY <1>2, <1>3, Zenon

LEMMA RemoteKeeps ==
    ASSUME TypeInv, NEW k \in Keys, KeyInv(k), NEW j \in Keys \cup {ALL},
           (j \in Keys /\ ApplyAsync(j)) \/ RemoteUpdate(j), listener # "failed"
    PROVE  KeyInv(k)'
  <1>1. Applied(j) /\ UNCHANGED <<handling, listener, records, marks, pc, local>>
    BY DEF ApplyAsync, RemoteUpdate, events_
  <1>2. \A i \in KeysOf(j) : server[i] < MaxVersion
    <2>1. CASE RemoteUpdate(j)
      BY <2>1, UpdatableBounds DEF RemoteUpdate
    <2>2. CASE j \in Keys /\ ApplyAsync(j)
      <3>1. KeysOf(j) = {j}
        BY <2>2, NearCacheAssumption DEF KeysOf
      <3>2. server[j] \in Nat /\ sent[j] \in Nat /\ sent[j] > 0 /\ server[j] + sent[j] <= MaxVersion
        BY <2>2, NearCacheAssumption DEF ApplyAsync, TypeInv, TypeOK, InBounds
      <3> QED BY <3>1, <3>2, NearCacheAssumption
    <2> QED BY <2>1, <2>2
  <1>3. /\ Stale(k)' => Stale(k)
        /\ server'[k] = server[k] \/ WillUnmark(k)'
        /\ WillUnmark(k) => WillUnmark(k)'
    BY <1>1, <1>2, AppliedKeeps, Zenon
  <1> QED BY <1>1, <1>3, NoneMoves

(* The listener: an event takes the mark away and then removes the record; *)
(* a lost listener clears the near cache before it counts as registered.   *)
LEMMA EventKeeps ==
    ASSUME TypeInv, NEW k \in Keys, KeyInv(k), EventStep \/ LoseListener
    PROVE  KeyInv(k)'
  <1>0. /\ RecordsOK /\ events \in [Keys \cup {ALL} -> Nat]
        /\ handling \in Keys \cup {ALL, NULL}
        /\ k # ALL /\ NULL # k /\ NULL # ALL
    BY NearCacheAssumption, TypeParts DEF TypeInv
  <1>1. ASSUME NEW j \in Keys \cup {ALL}, HandleEvent(j) PROVE KeyInv(k)'
    <2>0. /\ UNCHANGED <<server, records, pc, local, listener>>
          /\ handling = NULL /\ handling' = j
          /\ events' = [events EXCEPT ![j] = events[j] - 1]
      BY <1>1 DEF HandleEvent
    <2>1. \/ marks'[getSlot[k]] # "MARKED"
          \/ k \notin KeysOf(j) /\ marks'[getSlot[k]] = marks[getSlot[k]]
      BY <1>1, UnmarkedEffects DEF HandleEvent
    <2>2. CASE k \in KeysOf(j)
      <3>1. j \in {k, ALL}
        BY <2>2 DEF KeysOf
      <3>2. ~Stale(k)'
        BY <2>0, <3>1 DEF Stale, WillRemove
      <3> QED BY <2>0, <2>1, <2>2, <3>2, NoneMoves
    <2>3. CASE k \notin KeysOf(j)
      <3>1. j # k /\ j # ALL
        BY <2>3 DEF KeysOf
      <3>2. events'[k] = events[k] /\ events'[ALL] = events[ALL]
        BY <1>0, <2>0, <3>1
      <3>3. WillUnmark(k)' <=> WillUnmark(k)
        BY <2>0, <3>2 DEF WillUnmark
      <3>4. Stale(k)' => Stale(k)
        BY <1>0, <2>0, <3>3 DEF Stale, WillRemove
      <3> QED BY <2>0, <2>1, <2>3, <3>3, <3>4, NoneMoves
    <2> QED BY <2>2, <2>3
  <1>2. CASE HandledEvent
    <2>0. /\ UNCHANGED <<server, events, marks, pc, local, listener>>
          /\ handling \in Keys \cup {ALL} /\ handling' = NULL
      BY <1>0, <1>2 DEF HandledEvent, cluster
    <2>1. /\ DOMAIN records' \subseteq DOMAIN records \ KeysOf(handling)
          /\ \A i \in DOMAIN records' : records'[i] = records[i]
      BY <1>0, <1>2, <2>0, RemovedRecords, Zenon DEF HandledEvent
    <2>2. WillUnmark(k)' <=> WillUnmark(k)
      BY <2>0 DEF WillUnmark
    <2>3. Stale(k)' => Stale(k)
      <3>1. CASE k \in KeysOf(handling)
        BY <2>1, <3>1 DEF Stale
      <3>2. CASE k \notin KeysOf(handling)
        <4>1. handling # k /\ handling # ALL
          BY <3>2 DEF KeysOf
        <4> QED BY <2>0, <2>1, <2>2, <4>1 DEF Stale, WillRemove
      <3> QED BY <3>1, <3>2
    <2> QED BY <2>0, <2>2, <2>3, NoneMoves
  <1>3. CASE LoseListener
    <2>0. UNCHANGED <<server, records, marks, pc, local>> /\ listener' = "lost"
      BY <1>3 DEF LoseListener
    <2>1. WillUnmark(k)'
      BY <2>0 DEF WillUnmark
    <2>2. ~Stale(k)'
      BY <2>1 DEF Stale, WillRemove
    <2> QED BY <2>0, <2>1, <2>2, NoneMoves, Zenon
  <1>4. ASSUME NEW from, NEW to \in {"beforeRegister", "clearing"}, BeginClear(from, to)
        PROVE  KeyInv(k)'
    <2>0. initMarks /\ UNCHANGED <<pc, local>> /\ listener' \in {"beforeRegister", "clearing"}
      BY <1>4 DEF BeginClear
    <2>1. marks'[getSlot[k]] # "MARKED"
      BY <2>0, MarkEffects
    <2>2. ~Stale(k)'
      BY <2>0 DEF Stale, WillRemove, WillUnmark
    <2> QED BY <2>0, <2>1, <2>2, NoneMoves
  <1>5. CASE EndClear("beforeRegister", "onRegister") \/ EndClear("clearing", "registered")
    <2>0. /\ UNCHANGED <<server, events, marks, pc, local>> /\ records' = <<>>
          /\ \/ listener = "clearing" /\ listener' = "registered"
             \/ listener' = "onRegister"
      BY <1>5 DEF EndClear, cluster
    <2>1. WillUnmark(k) => WillUnmark(k)'
      BY <2>0 DEF WillUnmark
    <2>2. ~Stale(k)'
      BY <2>0, NoRecords DEF Stale
    <2> QED BY <2>0, <2>1, <2>2, NoneMoves
  <1> QED BY <1>1, <1>2, <1>3, <1>4, <1>5 DEF EventStep, Register

LEMMA ExpireKeeps ==
    ASSUME TypeInv, NEW k \in Keys, KeyInv(k), NEW j \in Keys, Expire(j)
    PROVE  KeyInv(k)'
  <1>1. UNCHANGED <<server, events, handling, listener, marks, pc, local>>
    BY DEF Expire, cluster, events_
  <1>2. DOMAIN records' \subseteq DOMAIN records /\ \A i \in DOMAIN records' : records'[i] = records[i]
    BY TypeParts, WithoutRecord, Zenon DEF Expire, TypeInv
  <1>3. (Stale(k)' => Stale(k)) /\ (WillUnmark(k)' <=> WillUnmark(k))
    BY <1>1, <1>2, StillStale
  <1> QED BY <1>1, <1>3, NoneMoves

-----------------------------------------------------------------------------
LEMMA InitGuards == Init => MarksGuardRecords
  <1> SUFFICES ASSUME Init, NEW k \in Keys PROVE KeyInv(k)
    BY PerKey
  <1>1. marks[getSlot[k]] = "UNMARKED"
    BY NearCacheAssumption DEF Init
  <1>2. ~Stale(k)
    BY DEF Init, Stale
  <1> QED BY <1>1, <1>2 DEF KeyInv

(* A failed registration is not made again, and a crossed slot stays so.   *)
LEMMA ShieldedBefore ==
    ASSUME [Next]_vars, NEW k, Shielded(k)'
    PROVE  Shielded(k)
  <1>1. crossed \subseteq crossed' /\ (listener = "failed" => listener' = "failed")
    <2>1. CASE UNCHANGED vars
      BY <2>1 DEF vars
    <2>2. ASSUME NEW t \in Threads, TryMark(t)
          PROVE  crossed \subseteq crossed' /\ listener' = listener
      BY <2>2 DEF TryMark
    <2>3. ASSUME NEW t \in Threads, GetStep(t), ~TryMark(t) PROVE UNCHANGED <<crossed, listener>>
      BY <2>3 DEF GetStep, Fetch, Put, Store, Reset, ForceUnmark, events_
    <2>4. ASSUME NEW t \in Threads, UpdateStep(t) PROVE UNCHANGED <<crossed, listener>>
      BY <2>4 DEF UpdateStep, CallServer, ReplaceFails, Invalidate, RemoveRecord, events_
    <2>5. ASSUME NEW t \in Threads, NEW j, GetMiss(t, j) \/ UpdateAsync(t, j) \/ Update(t, j)
          PROVE  UNCHANGED <<crossed, listener>>
      BY <2>5 DEF GetMiss, UpdateAsync, Update, events_
    <2>6. ASSUME NEW j, ApplyAsync(j) \/ Expire(j) \/ RemoteUpdate(j)
          PROVE  UNCHANGED <<crossed, listener>>
      BY <2>6 DEF ApplyAsync, Expire, RemoteUpdate, events_
    <2>7. CASE EventStep \/ LoseListener
      BY <2>7 DEF EventStep, LoseListener, HandleEvent, HandledEvent, Register, BeginClear, EndClear
    <2> QED BY <2>1, <2>2, <2>3, <2>4, <2>5, <2>6, <2>7 DEF Next, ThreadStep
  <1> QED BY <1>1 DEF Shielded

LEMMA NextGuards == TypeInv /\ MarksGuardRecords /\ [Next]_vars => MarksGuardRecords'
  <1> SUFFICES ASSUME TypeInv, MarksGuardRecords, [Next]_vars, NEW k \in Keys, Shielded(k)'
               PROVE  KeyInv(k)'
    BY PerKeyNext
  <1>0. KeyInv(k) /\ listener # "failed" /\ getSlot[k] \notin crossed'
    <2>1. Shielded(k)
      BY ShieldedBefore
    <2> QED BY <2>1, PerKey DEF Shielded
  <1>1. CASE UNCHANGED vars
    <2>1. UNCHANGED <<server, events, handling, listener, records, marks, pc, local>>
      BY <1>1 DEF vars
    <2>2. (Stale(k)' => Stale(k)) /\ (WillUnmark(k)' <=> WillUnmark(k))
      BY <2>1, StillStale
    <2> QED BY <1>0, <2>1, <2>2, NoneMoves, Zenon
  <1>2. ASSUME NEW t \in Threads, GetStep(t) PROVE KeyInv(k)'
    BY <1>0, <1>2, TryMarkKeeps, FetchKeeps, PutKeeps, StoreKeeps, ResetKeeps, ForceUnmarkKeeps
       DEF GetStep
  <1>3. ASSUME NEW t \in Threads, UpdateStep(t) PROVE KeyInv(k)'
    BY <1>0, <1>3, CallServerKeeps, InvalidateKeeps, RemoveRecordKeeps DEF UpdateStep
  <1>4. ASSUME NEW t \in Threads,
               \/ \E j \in Keys : GetMiss(t, j) \/ UpdateAsync(t, j)
               \/ \E j \in Keys \cup {ALL} : Update(t, j)
        PROVE  KeyInv(k)'
    BY <1>0, <1>4, BeginKeeps
  <1>5. ASSUME NEW j \in Keys \cup {ALL}, (j \in Keys /\ ApplyAsync(j)) \/ RemoteUpdate(j)
        PROVE  KeyInv(k)'
    BY <1>0, <1>5, RemoteKeeps
  <1>6. ASSUME NEW j \in Keys, Expire(j) PROVE KeyInv(k)'
    BY <1>0, <1>6, ExpireKeeps
  <1>7. CASE EventStep \/ LoseListener
    BY <1>0, <1>7, EventKeeps
  <1> QED BY <1>1, <1>2, <1>3, <1>4, <1>5, <1>6, <1>7 DEF Next, ThreadStep

(* A stale record is left to a get that will find its mark gone, in every  *)
(* interleaving of resetToUnmarkedState, the invalidations, the updates    *)
(* and the loss of the listener, whatever keys share the slot, as long as  *)
(* no gets of two of them have held a mark of it at once.                  *)
THEOREM MarksGuard == Spec => []MarksGuardRecords
  <1>1. MarksGuardRecords /\ TypeInv /\ [Next]_vars => MarksGuardRecords'
    BY NextGuards
  <1> QED BY <1>1, InitGuards, AlwaysTypes, PTL DEF Spec

(* In such a slot a record that nothing under way will invalidate or       *)
(* replace is the value of the cluster: an invalidation that comes before  *)
(* the put to the near cache removes what was put.                         *)
THEOREM RecordsStayFresh == Spec => []RecordsFresh
  <1>1. ASSUME TypeInv, MarksGuardRecords PROVE RecordsFresh
    <2> SUFFICES ASSUME NEW k \in DOMAIN records, Settled(k), getSlot[k] \notin crossed,
                        records[k] # server[k]
                 PROVE  FALSE
      BY DEF RecordsFresh
    <2>1. /\ events[k] = 0 /\ events[ALL] = 0
          /\ listener = "registered" /\ handling = NULL
      BY DEF Settled
    <2>2. k \in Keys /\ KeyInv(k)
      <3>1. k \in Keys
        BY <1>1 DEF TypeInv, TypeOK
      <3>2. Shielded(k)
        BY <2>1 DEF Shielded
      <3> QED BY <1>1, <3>1, <3>2, PerKey
    <2>3. Guarding(k) = {}
      BY DEF Settled, Guarding
    <2>4. ~WillRemove(k)
      <3>1. NULL # k /\ NULL # ALL
        BY <2>2, NearCacheAssumption
      <3> QED BY <2>1, <3>1 DEF WillRemove, WillUnmark
    <2>5. Stale(k)
      BY <2>4 DEF Stale
    <2> QED BY <2>2, <2>3, <2>5 DEF KeyInv
  <1> QED BY <1>1, AlwaysTypes, MarksGuard, PTL
=============================================================================
