----------------------- MODULE NearCachedClientMapProxy -----------------------
(***************************************************************************)
(* A map with a near cache: threads of one client that read a map through  *)
(* the near cache and update it, the invalidation events the cluster sends *)
(* for every update, and the marks that keep a value read before an        *)
(* invalidation from being cached after it.  A value is its version.  A    *)
(* step makes one access to the server, the marks or the records.          *)
(***************************************************************************)
EXTENDS Naturals, FiniteSets, Functions

CONSTANTS
    Threads,    \* threads that use the map
    Keys,
    Slots,      \* the slots of the KeyStateMarker
    getSlot,    \* getSlot[k]: the slot of a key
    maxSize,        \* the size and the policy
    evictionPolicy, \* of the EvictionConfig
    MaxVersion, \* bound: updates of a key
    MaxLosses,  \* bound: how often the listener is lost
    ALL,        \* the null key of an event that concerns every key
    NULL

ASSUME NearCacheAssumption ==
    /\ getSlot \in [Keys -> Slots]
    /\ {maxSize, MaxVersion, MaxLosses} \subseteq Nat
    /\ ALL \notin Keys
    /\ NULL \notin Keys \cup {ALL}

VARIABLES
    server,     \* the map in the cluster: the version of each key
    records,    \* the near cache: key -> version
    marks,      \* the state of each slot
    pc,         \* where each thread is
    local,      \* its operation: the key, the value read, whether it marked
    sent,       \* asynchronous updates on their way to the cluster
    events,     \* invalidation events on their way to the listener
    handling,   \* the event being handled: its key, or NULL
    listener,   \* the registration of the listener
    losses,     \* how often it was lost
    crossed     \* history: the slots where gets of two keys held a mark at once

vars == <<server, records, marks, pc, local, sent, events, handling, listener,
          losses, crossed>>

Idle == [op |-> "none", key |-> NULL, value |-> 0, marked |-> FALSE]

(* addNearCacheInvalidateListener: a registration that throws is logged,   *)
(* and the near cache is used without a listener from then on.             *)
addNearCacheInvalidateListener == listener \in {"registered", "failed"}

Init ==
    /\ server = [k \in Keys |-> 0]
    /\ records = <<>>
    /\ marks = [s \in Slots |-> "UNMARKED"]
    /\ pc = [t \in Threads |-> "idle"]
    /\ local = [t \in Threads |-> Idle]
    /\ sent = [k \in Keys |-> 0]
    /\ events = [k \in Keys \cup {ALL} |-> 0]
    /\ handling = NULL
    /\ addNearCacheInvalidateListener
    /\ losses = 0
    /\ crossed = {}

-----------------------------------------------------------------------------
(* KeyStateMarker: compare-and-set of the slot of a key.                   *)
casState(k, expect, update) ==
    marks' = [marks EXCEPT ![getSlot[k]] = IF @ = expect THEN update ELSE @]

tryMark(k)     == casState(k, "UNMARKED", "MARKED")
tryUnmark(k)   == casState(k, "MARKED", "UNMARKED")
tryRemove(k)   == casState(k, "MARKED", "REMOVED")
forceUnmark(k) == marks' = [marks EXCEPT ![getSlot[k]] = "UNMARKED"]
initMarks      == marks' = [s \in Slots |-> "UNMARKED"]

(* The record store.                                                       *)
Without(k) == Restrict(records, DOMAIN records \ {k})

putRecord(k, v) ==
    [j \in DOMAIN records \cup {k} |-> IF j = k THEN v ELSE records[j]]

isFull == Cardinality(DOMAIN records) >= maxSize

(* doEvictionIfRequired: a full store loses a record of a random sample.   *)
doEvictionIfRequired ==
    \/ /\ isFull /\ evictionPolicy # "NONE"
       /\ \E k \in DOMAIN records : records' = Without(k)
    \/ ~(isFull /\ evictionPolicy # "NONE") /\ UNCHANGED records

(* putInternal of the store: without an eviction policy a full store takes *)
(* no new key.                                                             *)
putInternal(k, v) ==
    records' = IF evictionPolicy = "NONE" /\ isFull /\ k \notin DOMAIN records
               THEN records ELSE putRecord(k, v)

(* Mutant: an invalidation that forgets the mark.                          *)
KeepMark(k) == IF k = ALL THEN initMarks ELSE UNCHANGED marks

(* InvalidationAwareWrapper, invalidate and clear: the mark is taken away  *)
(* first, the record after it.                                             *)
Unmarked(k) == IF k = ALL THEN initMarks ELSE tryRemove(k)

Removed(k) == records' = IF k = ALL THEN <<>> ELSE Without(k)

-----------------------------------------------------------------------------
Goto(t, label) == pc' = [pc EXCEPT ![t] = label]

Begin(t, op, k, label) ==
    /\ pc[t] = "idle"
    /\ local' = [local EXCEPT ![t] = [Idle EXCEPT !.op = op, !.key = k]]
    /\ Goto(t, label)

End(t) ==
    /\ local' = [local EXCEPT ![t] = Idle]
    /\ Goto(t, "idle")

cluster == <<server, sent, events>>
events_ == <<handling, listener, losses, crossed>>

(* getInternal and getAsync: a key without a record; a hit changes nothing.*)
GetMiss(t, k) ==
    /\ k \notin DOMAIN records
    /\ Begin(t, "get", k, "mark")
    /\ UNCHANGED <<cluster, events_, records, marks>>

(* A get of k under a mark that may still cache its value or invalidate k. *)
Guarding(k) ==
    {t \in Threads : /\ local[t].marked /\ local[t].key = k
                     /\ pc[t] \in {"fetch", "put", "store", "reset", "invalidate", "remove"}}

(* The other keys of the slot of k.                                        *)
Sharing(k) == {j \in Keys \ {k} : getSlot[j] = getSlot[k]}

TryMark(t) ==
    LET k    == local[t].key
        free == marks[getSlot[k]] = "UNMARKED"
    IN
    /\ pc[t] = "mark"
    /\ tryMark(k)
    /\ local' = [local EXCEPT ![t].marked = free]
    /\ crossed' = IF free /\ \E j \in Sharing(k) : Guarding(j) # {}
                  THEN crossed \cup {getSlot[k]} ELSE crossed
    /\ Goto(t, "fetch")
    /\ UNCHANGED <<cluster, handling, listener, losses, records>>

(* The value is read from the cluster.  It is cached only under a mark; an *)
(* exception goes straight to resetToUnmarkedState, marked or not.         *)
Fetch(t) ==
    LET l == local[t] IN
    /\ pc[t] = "fetch"
    /\ \/ /\ l.marked
          /\ local' = [local EXCEPT ![t].value = server[l.key]]
          /\ Goto(t, "put")
       \/ ~l.marked /\ End(t)
       \/ Goto(t, "reset") /\ UNCHANGED local
    /\ UNCHANGED <<cluster, events_, records, marks>>

(* tryToPutNearCacheInternal: put makes room and stores the value, before  *)
(* resetToUnmarkedState.  When it throws, the handler of the get resets a  *)
(* second time.                                                            *)
Put(t) ==
    /\ pc[t] = "put"
    /\ doEvictionIfRequired
    /\ Goto(t, "store")
    /\ UNCHANGED <<cluster, events_, marks, local>>

Store(t) ==
    LET l == local[t] IN
    /\ pc[t] = "store"
    /\ l.marked
    /\ \/ putInternal(l.key, l.value) /\ UNCHANGED local
       \/ /\ l.op = "get"
          /\ local' = [local EXCEPT ![t].op = "throwing"]
          /\ UNCHANGED records
    /\ Goto(t, "reset")
    /\ UNCHANGED <<cluster, events_, marks>>

Return(t) ==
    \/ local[t].op # "throwing" /\ End(t)
    \/ /\ local[t].op = "throwing"
       /\ local' = [local EXCEPT ![t].op = "get", ![t].marked = FALSE]
       /\ Goto(t, "reset")

(* Mutant: the mark is taken off without a look at it.                     *)
ResetBlindly(t) ==
    /\ pc[t] = "reset"
    /\ forceUnmark(local[t].key)
    /\ Return(t)
    /\ UNCHANGED <<cluster, events_, records>>

(* resetToUnmarkedState: when the mark is gone the key is invalidated, and *)
(* the slot unmarked by force after that.                                  *)
Reset(t) ==
    LET k == local[t].key IN
    /\ pc[t] = "reset"
    /\ tryUnmark(k)
    /\ \/ marks[getSlot[k]] = "MARKED" /\ Return(t)
       \/ marks[getSlot[k]] # "MARKED" /\ Goto(t, "invalidate") /\ UNCHANGED local
    /\ UNCHANGED <<cluster, events_, records>>

ForceUnmark(t) ==
    /\ pc[t] = "force"
    /\ forceUnmark(local[t].key)
    /\ Return(t)
    /\ UNCHANGED <<cluster, events_, records>>

(* The invalidation that ends an update, or a get that lost its mark.      *)
Invalidate(t) ==
    /\ pc[t] = "invalidate"
    /\ Unmarked(local[t].key)
    /\ Goto(t, "remove")
    /\ UNCHANGED <<cluster, events_, records, local>>

RemoveRecord(t) ==
    /\ pc[t] = "remove"
    /\ Removed(local[t].key)
    /\ \/ local[t].op # "update" /\ Goto(t, "force") /\ UNCHANGED local
       \/ local[t].op = "update" /\ End(t)
    /\ UNCHANGED <<cluster, events_, marks>>

-----------------------------------------------------------------------------
(* Updates.  The cluster applies one, of a key or of ALL, and sends an     *)
(* event to a listener that is registered with it.                         *)
Listening == listener \in {"onRegister", "clearing", "registered"}

KeysOf(k) == IF k = ALL THEN Keys ELSE {k}

Updatable(k) == \A j \in KeysOf(k) : server[j] + sent[j] < MaxVersion

Applied(k) ==
    /\ server' = [j \in Keys |-> IF j \in KeysOf(k) THEN server[j] + 1 ELSE server[j]]
    /\ events' = IF Listening THEN [events EXCEPT ![k] = @ + 1] ELSE events

(* put, set, remove, delete, evict, replace, executeOnKey; removeAll of    *)
(* ALL: a call of the cluster, that may throw before or after it took      *)
(* effect, and the invalidation.                                           *)
Update(t, k) ==
    /\ Begin(t, "update", k, "update")
    /\ UNCHANGED <<cluster, events_, records, marks>>

CallServer(t) ==
    LET k == local[t].key IN
    /\ pc[t] = "update"
    /\ \/ Updatable(k) /\ Applied(k)
       \/ UNCHANGED <<server, events>>
    /\ Goto(t, "invalidate")
    /\ UNCHANGED <<events_, sent, records, marks, local>>

(* replace(key, value): an exception skips the invalidation.               *)
ReplaceFails(t) ==
    LET k == local[t].key IN
    /\ pc[t] = "update"
    /\ k # ALL
    /\ \/ Updatable(k) /\ Applied(k)
       \/ UNCHANGED <<server, events>>
    /\ End(t)
    /\ UNCHANGED <<events_, sent, records, marks>>

(* putAsync, setAsync and removeAsync: the request is sent, and the key    *)
(* invalidated before the cluster has answered.                            *)
UpdateAsync(t, k) ==
    /\ Updatable(k)
    /\ sent' = [sent EXCEPT ![k] = @ + 1]
    /\ Begin(t, "update", k, "invalidate")
    /\ UNCHANGED <<server, events, events_, records, marks>>

(* Mutant: the request is applied, and stays to be applied again.          *)
ApplyAgain(k) ==
    /\ sent[k] > 0
    /\ Applied(k)
    /\ UNCHANGED <<sent, events_, records, marks, pc, local>>

ApplyAsync(k) ==
    /\ sent[k] > 0
    /\ sent' = [sent EXCEPT ![k] = @ - 1]
    /\ Applied(k)
    /\ UNCHANGED <<events_, records, marks, pc, local>>

(* Other clients update a key, or clear the map.                           *)
RemoteUpdate(k) ==
    /\ Updatable(k)
    /\ Applied(k)
    /\ UNCHANGED <<events_, sent, records, marks, pc, local>>

-----------------------------------------------------------------------------
(* ClientMapAddNearCacheEventHandler.                                      *)

(* handleIMapInvalidationEventV10, of events that arrive in any order.     *)
HandleEvent(k) ==
    /\ handling = NULL
    /\ events[k] > 0
    /\ events' = [events EXCEPT ![k] = @ - 1]
    /\ handling' = k
    /\ Unmarked(k)
    /\ UNCHANGED <<server, sent, records, pc, local, listener, losses, crossed>>

HandledEvent ==
    /\ handling # NULL
    /\ Removed(handling)
    /\ handling' = NULL
    /\ UNCHANGED <<cluster, marks, pc, local, listener, losses, crossed>>

(* The connection of the listener is lost, with the events on their way.   *)
LoseListener ==
    /\ listener = "registered"
    /\ losses < MaxLosses
    /\ losses' = losses + 1
    /\ listener' = "lost"
    /\ events' = [k \in DOMAIN events |-> 0]
    /\ UNCHANGED <<server, sent, records, marks, pc, local, handling, crossed>>

(* Mutant: the marks outlive the clear.                                    *)
BeginClearKeepsMarks(from, to) ==
    /\ listener = from
    /\ listener' = to
    /\ UNCHANGED <<cluster, records, marks, pc, local, handling, losses, crossed>>

(* beforeListenerRegister and onListenerRegister clear the near cache: the *)
(* marks first, then the records.                                          *)
BeginClear(from, to) ==
    /\ listener = from
    /\ listener' = to
    /\ initMarks
    /\ UNCHANGED <<cluster, records, pc, local, handling, losses, crossed>>

EndClear(from, to) ==
    /\ listener = from
    /\ listener' = to
    /\ records' = <<>>
    /\ UNCHANGED <<cluster, marks, pc, local, handling, losses, crossed>>

Register ==
    \/ BeginClear("lost", "beforeRegister")
    \/ EndClear("beforeRegister", "onRegister")
    \/ BeginClear("onRegister", "clearing")
    \/ EndClear("clearing", "registered")

(* A record expires.                                                       *)
Expire(k) ==
    /\ k \in DOMAIN records
    /\ records' = Without(k)
    /\ UNCHANGED <<cluster, events_, marks, pc, local>>

-----------------------------------------------------------------------------
GetStep(t) ==
    TryMark(t) \/ Fetch(t) \/ Put(t) \/ Store(t) \/ Reset(t) \/ ForceUnmark(t)

UpdateStep(t) == CallServer(t) \/ ReplaceFails(t) \/ Invalidate(t) \/ RemoveRecord(t)

ThreadStep(t) == GetStep(t) \/ UpdateStep(t)

EventStep ==
    \/ \E k \in Keys \cup {ALL} : HandleEvent(k)
    \/ HandledEvent
    \/ Register

Next ==
    \/ \E t \in Threads : ThreadStep(t)
    \/ \E t \in Threads, k \in Keys : GetMiss(t, k) \/ UpdateAsync(t, k)
    \/ \E t \in Threads, k \in Keys \cup {ALL} : Update(t, k)
    \/ \E k \in Keys : ApplyAsync(k) \/ Expire(k)
    \/ \E k \in Keys \cup {ALL} : RemoteUpdate(k)
    \/ EventStep
    \/ LoseListener

Spec == Init /\ [][Next]_vars

(* Calls that have begun go on, and requests and events arrive.  Nothing   *)
(* is assumed of a listener that was lost.                                 *)
FairSpec ==
    /\ Spec
    /\ \A t \in Threads : WF_vars(ThreadStep(t))
    /\ WF_vars(\E k \in Keys : ApplyAsync(k))
    /\ WF_vars(HandledEvent \/ \E k \in Keys \cup {ALL} : HandleEvent(k))

-----------------------------------------------------------------------------
(* Only known keys have records, marks have the states of a slot, and an   *)
(* update that was sent once is applied once: no version passes the bound  *)
(* that was checked when it was sent.                                      *)
TypeOK ==
    /\ server \in [Keys -> 0 .. MaxVersion]
    /\ DOMAIN records \subseteq Keys
    /\ records \in [DOMAIN records -> 0 .. MaxVersion]
    /\ marks \in [Slots -> {"UNMARKED", "MARKED", "REMOVED"}]
    /\ sent \in [Keys -> Nat]
    /\ events \in [Keys \cup {ALL} -> Nat]
    /\ handling \in Keys \cup {ALL, NULL}
    /\ listener \in {"failed", "lost", "beforeRegister", "onRegister", "clearing",
                     "registered"}

(* Nothing is under way that will invalidate or replace the record of k.   *)
Settled(k) ==
    /\ listener = "registered"
    /\ handling = NULL
    /\ events[k] = 0 /\ events[ALL] = 0
    /\ \A t \in Threads : ~(local[t].marked /\ local[t].key = k)

(* "if an invalidation for a key comes before put to cache, cached value   *)
(* will be removed": once the events have been handled and the gets that   *)
(* were under way have returned, a record is the value of the cluster.     *)
InvalidationsWin ==
    \A k \in DOMAIN records : Settled(k) => records[k] = server[k]

(* It is, whatever keys share a slot, where no gets of two keys of a slot  *)
(* have held a mark of the slot at once.                                   *)
RecordsFresh ==
    \A k \in DOMAIN records :
        Settled(k) /\ getSlot[k] \notin crossed => records[k] = server[k]

(* With a listener that was registered, and is again whenever it is lost,  *)
(* updates come to an end and some time after the last one the near cache  *)
(* holds nothing older, for good, however many gets keep coming.           *)
FreshInTheEnd ==
    []<>(listener = "registered") =>
        <>[](\A k \in DOMAIN records :
                getSlot[k] \notin crossed => records[k] = server[k])

(* The invariant behind RecordsFresh.                                      *)

(* The mark of k is yet to be taken away, or its record yet to be removed. *)
WillUnmark(k) ==
    \/ events[k] > 0 \/ events[ALL] > 0
    \/ listener \in {"lost", "beforeRegister", "onRegister"}
WillRemove(k) == WillUnmark(k) \/ handling \in {k, ALL} \/ listener = "clearing"

Stale(k) == k \in DOMAIN records /\ records[k] # server[k] /\ ~WillRemove(k)

(* The get t has yet to look at the mark.                                  *)
Bearing(t) == pc[t] \in {"fetch", "put", "store", "reset"}

(* The mark of the slot of k may be that of a get of another key.          *)
Lent(k) == \E j \in Sharing(k) : \E t \in Guarding(j) : Bearing(t)

(* A stale record is left to a get that will find the mark gone.  The get  *)
(* that may find it in place is another one, with a fresh value, or one of *)
(* another key of the slot, and then no get of k is under way.             *)
MarksGuardRecords ==
    \A k \in Keys :
        listener # "failed" /\ getSlot[k] \notin crossed =>
            IF marks[getSlot[k]] = "MARKED"
            THEN \/ \E t \in Guarding(k) :
                       /\ Bearing(t)
                       /\ pc[t] \in {"put", "store"} =>
                             local[t].value = server[k] \/ WillUnmark(k)
                       /\ Stale(k) => Guarding(k) # {t}
                 \/ Lent(k) /\ Guarding(k) = {} /\ ~Stale(k)
            ELSE Stale(k) => Guarding(k) # {}
=============================================================================
