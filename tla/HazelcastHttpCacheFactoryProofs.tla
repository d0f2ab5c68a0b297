------------------- MODULE HazelcastHttpCacheFactoryProofs -------------------
(***************************************************************************)
(* Proofs about HazelcastHttpCacheFactory, for any number of workers,      *)
(* getCache calls and clients: FactoryInv is an inductive invariant.       *)
(***************************************************************************)
EXTENDS HazelcastHttpCacheFactory, TLAPS

States == {"connected", "shutdown"}

(* The conjuncts of FactoryInv about the main thread.                      *)
Control ==
    /\ pc \in {"idle", "shutdown", "release", "destroy", "connect",
               "exited", "crashed"}
    /\ pc \in {"shutdown", "release", "destroy"} => closing # NULL
    /\ pc \in {"idle", "connect"} => closing = NULL
    /\ pc = "connect" => cache_ # NULL
    /\ pc = "release" => /\ caches[closing].hz # NULL
                         /\ clients[caches[closing].hz] # "connected"
    /\ pc = "destroy" => closing # cache_ /\ caches[closing].hz = NULL

(* The conjuncts of FactoryInv about one cache.                            *)
Sound(c) ==
    /\ Alive(c) <=> c = cache_ \/ c = closing
    /\ caches[c].hz # NULL =>
          /\ c = Owner /\ caches[c].hz \in DOMAIN clients
          /\ closing = NULL => clients[caches[c].hz] = "connected"

(* The conjuncts of FactoryInv about the types of the variables.           *)
Typed ==
    /\ caches \in Seq(CacheObject)
    /\ clients \in Seq(States)
    /\ cache_ = NULL \/ cache_ \in DOMAIN caches
    /\ closing = NULL \/ closing \in DOMAIN caches
    /\ returned \subseteq DOMAIN caches
    /\ call \in [Workers -> DOMAIN clients \cup {NULL}]

(* FactoryInv in its parts.                                                *)
LEMMA FactoryParts ==
  FactoryInv <=> /\ Typed /\ Control /\ ConnectionsOwned
                 /\ \A c \in DOMAIN caches : Sound(c)
  BY DEF FactoryInv, Typed, Control, Sound, States

(* Before anything is built the invariant holds.                           *)
LEMMA InitFactory == Init => FactoryInv
  BY DEF Init, FactoryInv, ConnectionsOwned

(* No index of the caches or of the clients is a null pointer.             *)
LEMMA IndexesAreNotNull ==
  ASSUME Typed
  PROVE  /\ NULL \notin DOMAIN caches /\ NULL \notin DOMAIN clients
         /\ \A n \in DOMAIN clients : n \in Nat
  BY NullAssumption DEF Typed

(* A connected client is held by the owner.                                *)
LEMMA ConnectedClient ==
  ASSUME ConnectionsOwned, NEW n \in DOMAIN clients, clients[n] = "connected"
  PROVE  Owner # NULL /\ caches[Owner].hz = n
  <1>1. caches[Owner] = [state |-> "alive", hz |-> n] /\ Owner # NULL
    BY DEF ConnectionsOwned
  <1> QED
    BY <1>1

(* connect of the factory's cache: the cache is connected afterwards.      *)
LEMMA ConnectCache ==
  ASSUME FactoryInv, cache_ # NULL, closing = NULL, connect(cache_),
         cache_' = cache_, closing' = closing
  PROVE  /\ caches' \in Seq(CacheObject) /\ clients' \in Seq(States)
         /\ DOMAIN caches' = DOMAIN caches
         /\ DOMAIN clients \subseteq DOMAIN clients'
         /\ \A c \in DOMAIN caches' : Sound(c)'
         /\ ConnectionsOwned'
         /\ caches'[cache_].hz # NULL
  <1>0. /\ Typed /\ ConnectionsOwned /\ cache_ \in DOMAIN caches /\ Owner = cache_
        /\ \A c \in DOMAIN caches : Sound(c)
    BY FactoryParts DEF Typed, Owner
  <1>1. CASE caches[cache_].hz # NULL
    <2>1. UNCHANGED <<caches, clients, cache_, closing>>
      BY <1>1 DEF connect
    <2> QED
      BY <1>0, <1>1, <2>1 DEF Typed, Sound, Alive, Owner, ConnectionsOwned
  <1>2. CASE caches[cache_].hz = NULL
    <2> DEFINE m == Len(clients) + 1
    <2>1. /\ clients' = Append(clients, "connected")
          /\ caches' = [caches EXCEPT ![cache_].hz = m]
      BY <1>2 DEF connect, Deleted
    <2>2. /\ clients' \in Seq(States)
          /\ m \in Nat /\ m # NULL /\ m \in DOMAIN clients' /\ clients'[m] = "connected"
          /\ DOMAIN clients \subseteq DOMAIN clients'
          /\ \A n \in DOMAIN clients' :
                n # m => n \in DOMAIN clients /\ clients'[n] = clients[n]
      BY <1>0, <2>1, NullAssumption DEF Typed, States
    <2>3. \A n \in DOMAIN clients : clients[n] # "connected"
      <3> SUFFICES ASSUME NEW n \in DOMAIN clients, clients[n] = "connected"
                   PROVE  FALSE
        OBVIOUS
      <3>1. caches[Owner].hz = n
        BY <1>0, ConnectedClient
      <3> QED
        BY <1>0, <1>2, <3>1, IndexesAreNotNull
    <2> HIDE DEF m
    <2>4. caches'[cache_] = [state |-> "alive", hz |-> m]
      <3>1. caches[cache_] \in CacheObject /\ caches[cache_].state = "alive"
        BY <1>0 DEF Typed, Sound, Alive
      <3>2. caches'[cache_] = [caches[cache_] EXCEPT !.hz = m]
        BY <1>0, <2>1 DEF Typed
      <3> QED
        BY <3>1, <3>2 DEF CacheObject
    <2>5. Owner' = cache_
      BY <1>0 DEF Owner
    <2>6. ConnectionsOwned'
      BY <2>2, <2>3, <2>4, <2>5 DEF ConnectionsOwned
    <2>7. /\ DOMAIN caches' = DOMAIN caches
          /\ \A c \in DOMAIN caches : c # cache_ => caches'[c] = caches[c]
      BY <1>0, <2>1 DEF Typed
    <2>8. caches' \in Seq(CacheObject)
      <3>1. caches'[cache_] \in CacheObject
        BY <2>2, <2>4 DEF CacheObject
      <3>2. caches' = [caches EXCEPT ![cache_] = caches'[cache_]]
        BY <1>0, <2>1 DEF Typed
      <3> QED
        BY <1>0, <3>1, <3>2 DEF Typed
    <2>9. ASSUME NEW c \in DOMAIN caches PROVE Sound(c)'
      <3>1. CASE c = cache_
        <4>1. caches'[c].state = "alive" /\ caches'[c].hz = m
          BY <2>4, <3>1
        <4> QED
          BY <2>2, <2>5, <3>1, <4>1 DEF Sound, Alive
      <3>2. CASE c # cache_
        <4>1. caches'[c] = caches[c]
          BY <2>7, <3>2
        <4>2. caches[c].hz = NULL /\ (Alive(c) <=> c = cache_ \/ c = closing)
          BY <1>0, <3>2 DEF Sound
        <4> QED
          BY <4>1, <4>2 DEF Sound, Alive
      <3> QED
        BY <3>1, <3>2
    <2>10. caches'[cache_].hz # NULL
      BY <2>2, <2>4
    <2> QED
      BY <2>2, <2>6, <2>7, <2>8, <2>9, <2>10
  <1> QED
    BY <1>1, <1>2

(* Every step keeps the invariant.                                         *)
LEMMA NextFactory == FactoryInv /\ [Next]_vars => FactoryInv'
  <1> SUFFICES ASSUME FactoryInv, [Next]_vars PROVE FactoryInv'
    OBVIOUS
  <1>0. /\ Typed /\ Control /\ ConnectionsOwned
        /\ \A c \in DOMAIN caches : Sound(c)
        /\ NULL \notin DOMAIN caches /\ NULL \notin DOMAIN clients
    BY FactoryParts, IndexesAreNotNull
  <1>q. ASSUME Typed', Control', ConnectionsOwned',
               \A c \in DOMAIN caches' : Sound(c)'
        PROVE  FactoryInv'
    BY <1>q, FactoryParts DEF FactoryInv, Typed, Control, Sound, States
  <1>1. CASE GetCache
    <2> DEFINE new == [state |-> "alive", hz |-> NULL]
               k == Len(caches) + 1
    <2>1. k \in Nat /\ k # NULL /\ new \in CacheObject
      BY <1>0, NullAssumption DEF CacheObject, Typed
    <2>2. /\ caches' = Append(caches, new) /\ cache_' = k /\ closing' = cache_
          /\ UNCHANGED <<clients, returned, call>> /\ closing = NULL
          /\ pc' = IF cache_ = NULL THEN "connect" ELSE "shutdown"
      BY <1>0, <1>1 DEF GetCache, Control
    <2>3. new.hz = NULL /\ new.state = "alive"
      OBVIOUS
    <2> HIDE DEF new
    <2>4. /\ caches' \in Seq(CacheObject)
          /\ DOMAIN caches' = DOMAIN caches \cup {k} /\ k \notin DOMAIN caches
          /\ caches'[k] = new
          /\ \A c \in DOMAIN caches : caches'[c] = caches[c]
      BY <1>0, <2>1, <2>2 DEF Typed
    <2> HIDE DEF k
    <2>5. Typed'
      BY <1>0, <2>1, <2>2, <2>4 DEF Typed
    <2>6. Control'
      BY <2>1, <2>2 DEF Control
    <2>7. Owner = cache_ /\ (cache_ # NULL => Owner' = cache_)
      BY <2>2 DEF Owner
    <2>8. ConnectionsOwned'
      <3> SUFFICES ASSUME NEW n \in DOMAIN clients, clients[n] = "connected"
                   PROVE  /\ Owner' # NULL
                          /\ caches'[Owner'] = [state |-> "alive", hz |-> n]
        BY <2>2 DEF ConnectionsOwned
      <3>1. cache_ # NULL /\ caches[cache_] = [state |-> "alive", hz |-> n]
        BY <1>0, <2>7 DEF ConnectionsOwned
      <3> QED
        BY <1>0, <2>4, <2>7, <3>1 DEF Typed
    <2>9. ASSUME NEW c \in DOMAIN caches' PROVE Sound(c)'
      <3>1. CASE c = k
        BY <2>2, <2>3, <2>4, <3>1 DEF Sound, Alive
      <3>2. CASE c # k
        <4>1. c \in DOMAIN caches /\ caches'[c] = caches[c] /\ Sound(c) /\ c # NULL
          BY <1>0, <2>4, <3>2
        <4> QED
          BY <2>2, <2>7, <3>2, <4>1 DEF Sound, Alive
      <3> QED
        BY <3>1, <3>2
    <2> QED
      BY <1>q, <2>5, <2>6, <2>8, <2>9
  <1>2. ASSUME cache_ # NULL, closing = NULL, connect(cache_),
               UNCHANGED <<cache_, closing, call>>,
               returned' \subseteq DOMAIN caches, pc' = "idle"
        PROVE  FactoryInv'
    <2>1. /\ caches' \in Seq(CacheObject) /\ clients' \in Seq(States)
          /\ DOMAIN caches' = DOMAIN caches
          /\ DOMAIN clients \subseteq DOMAIN clients'
          /\ \A c \in DOMAIN caches' : Sound(c)'
          /\ ConnectionsOwned'
      BY <1>2, ConnectCache
    <2>2. Typed'
      BY <1>0, <1>2, <2>1 DEF Typed
    <2>3. Control'
      BY <1>2 DEF Control
    <2> QED
      BY <1>q, <2>1, <2>2, <2>3
  <1>3. CASE ConnectAndReturn
    <2>1. /\ cache_ # NULL /\ cache_ \in DOMAIN caches /\ closing = NULL
          /\ pc' = "idle" /\ UNCHANGED <<cache_, closing, call>>
      BY <1>0, <1>3 DEF ConnectAndReturn, Control, Typed
    <2>2. CASE connect(cache_) /\ returned' = returned \cup {cache_}
      BY <1>0, <1>2, <2>1, <2>2 DEF Typed
    <2>3. CASE UNCHANGED <<caches, clients, returned>>
      <3>1. Control'
        BY <2>1 DEF Control
      <3> QED
        BY <1>0, <1>q, <2>1, <2>3, <3>1 DEF Typed, Sound, Alive, Owner, ConnectionsOwned
    <2> QED
      BY <1>3, <2>2, <2>3 DEF ConnectAndReturn
  <1>4. ASSUME NEW c \in returned, Connect(c) PROVE FactoryInv'
    <2>1. closing = NULL /\ c \in DOMAIN caches /\ Alive(c)
      BY <1>0, <1>4 DEF Connect, Control, Typed
    <2>2. c = cache_ /\ cache_ # NULL
      BY <1>0, <2>1 DEF Sound
    <2> QED
      BY <1>0, <1>2, <1>4, <2>1, <2>2 DEF Connect, Typed
  <1>5. ASSUME cache_ # NULL, closing = NULL, closing' = cache_,
               cache_' = cache_ \/ cache_' = NULL, pc' = "shutdown",
               UNCHANGED <<caches, clients, returned, call>>
        PROVE  FactoryInv'
    <2>1. Owner = cache_ /\ Owner' = cache_
      BY <1>5 DEF Owner
    <2>2. Typed' /\ Control'
      BY <1>0, <1>5 DEF Typed, Control
    <2>3. ConnectionsOwned'
      BY <1>0, <1>5, <2>1 DEF ConnectionsOwned
    <2>4. ASSUME NEW c \in DOMAIN caches' PROVE Sound(c)'
      <3>1. Sound(c) /\ c # NULL
        BY <1>0, <1>5
      <3> QED
        BY <1>5, <2>1, <3>1 DEF Sound, Alive
    <2> QED
      BY <1>q, <2>2, <2>3, <2>4
  <1>6. ASSUME NEW c \in returned, Disconnect(c) PROVE FactoryInv'
    <2>1. closing = NULL /\ c \in DOMAIN caches /\ Alive(c)
      BY <1>0, <1>6 DEF Disconnect, Control, Typed
    <2>2. c = cache_ /\ cache_ # NULL
      BY <1>0, <2>1 DEF Sound
    <2> QED
      BY <1>5, <1>6, <2>1, <2>2 DEF Disconnect
  <1>7. CASE Exit
    <2>1. closing = NULL /\ closing' = cache_ /\ cache_' = NULL
          /\ UNCHANGED <<caches, clients, returned, call>>
          /\ pc' = IF cache_ = NULL THEN "exited" ELSE "shutdown"
      BY <1>0, <1>7 DEF Exit, Control
    <2>2. CASE cache_ = NULL
      <3>1. Control' /\ UNCHANGED <<cache_, closing>>
        BY <2>1, <2>2 DEF Control
      <3> QED
        BY <1>0, <1>q, <2>1, <3>1 DEF Typed, Sound, Alive, Owner, ConnectionsOwned
    <2>3. CASE cache_ # NULL
      BY <1>5, <2>1, <2>3
    <2> QED
      BY <2>2, <2>3
  <1>8. CASE Shutdown
    <2>0. /\ closing # NULL /\ closing \in DOMAIN caches /\ Owner = closing
          /\ UNCHANGED <<caches, cache_, returned, call>>
      BY <1>0, <1>8 DEF Shutdown, Control, Typed, Owner
    <2>1. CASE caches[closing].hz # NULL
      <3> DEFINE hz == caches[closing].hz
      <3>1. /\ clients' = [clients EXCEPT ![hz] = "shutdown"] /\ hz \in DOMAIN clients
            /\ pc' = "release" /\ closing' = closing
        BY <1>0, <1>8, <2>0, <2>1 DEF Shutdown, Sound
      <3>2. hz' = hz /\ hz # NULL
        BY <2>0, <2>1, <3>1
      <3> HIDE DEF hz
      <3>3. /\ clients' \in Seq(States) /\ DOMAIN clients' = DOMAIN clients
            /\ clients'[hz] = "shutdown"
            /\ \A n \in DOMAIN clients : n # hz => clients'[n] = clients[n]
        BY <1>0, <3>1 DEF Typed, States
      <3>4. Typed'
        BY <1>0, <2>0, <3>1, <3>3 DEF Typed
      <3>5. Control'
        BY <2>0, <3>1, <3>2, <3>3 DEF Control, hz
      <3>6. Owner' = Owner
        BY <2>0, <3>1 DEF Owner
      <3>7. ConnectionsOwned'
        BY <1>0, <2>0, <3>3, <3>6 DEF ConnectionsOwned
      <3>8. ASSUME NEW c \in DOMAIN caches' PROVE Sound(c)'
        <4>1. Sound(c)
          BY <1>0, <2>0
        <4> QED
          BY <2>0, <3>1, <3>3, <3>6, <4>1 DEF Sound, Alive
      <3> QED
        BY <1>q, <3>4, <3>5, <3>7, <3>8
    <2>2. CASE caches[closing].hz = NULL
      <3>1. Disconnected /\ clients' = clients
        BY <1>8, <2>2 DEF Shutdown
      <3>2. \A c \in DOMAIN caches : caches[c].hz = NULL
        BY <1>0, <2>0, <2>2 DEF Sound
      <3>3. \A n \in DOMAIN clients : clients[n] # "connected"
        BY <1>0, <2>0, <2>2, ConnectedClient
      <3>4. CASE closing = cache_
        <4>1. pc' = "idle" /\ closing' = NULL
          BY <3>1, <3>4 DEF Disconnected
        <4>2. Typed' /\ Control' /\ ConnectionsOwned'
          BY <1>0, <2>0, <3>1, <3>3, <4>1 DEF Typed, Control, ConnectionsOwned
        <4>3. ASSUME NEW c \in DOMAIN caches' PROVE Sound(c)'
          <5>1. Sound(c) /\ c # NULL /\ caches[c].hz = NULL
            BY <1>0, <2>0, <3>2
          <5> QED
            BY <2>0, <3>4, <4>1, <5>1 DEF Sound, Alive
        <4> QED
          BY <1>q, <4>2, <4>3
      <3>5. CASE closing # cache_
        <4>1. pc' = "destroy" /\ closing' = closing
          BY <3>1, <3>5 DEF Disconnected
        <4>2. Control'
          BY <2>0, <2>2, <3>5, <4>1 DEF Control
        <4> QED
          BY <1>0, <1>q, <2>0, <3>1, <4>1, <4>2 DEF Typed, Sound, Alive, Owner, ConnectionsOwned
      <3> QED
        BY <3>4, <3>5
    <2> QED
      BY <2>1, <2>2
  <1>9. ASSUME closing # NULL, closing \in DOMAIN caches,
               \A n \in DOMAIN clients : clients[n] # "connected",
               UNCHANGED <<clients, returned, cache_, call>>,
               NEW old \in CacheObject, old.hz = NULL,
               caches' = [caches EXCEPT ![closing] = old],
               old.state = "alive" <=> closing = cache_ \/ closing' = closing,
               closing' = NULL \/ closing' = closing,
               Control'
        PROVE  FactoryInv'
    <2>1. /\ caches' \in Seq(CacheObject) /\ DOMAIN caches' = DOMAIN caches
          /\ caches'[closing] = old
          /\ \A c \in DOMAIN caches : c # closing => caches'[c] = caches[c]
      BY <1>0, <1>9 DEF Typed
    <2>2. Typed'
      BY <1>0, <1>9, <2>1 DEF Typed
    <2>3. ConnectionsOwned'
      BY <1>9 DEF ConnectionsOwned
    <2>4. ASSUME NEW c \in DOMAIN caches' PROVE Sound(c)'
      <3>1. c \in DOMAIN caches /\ Sound(c) /\ c # NULL
        BY <1>0, <2>1
      <3>2. CASE c = closing
        BY <1>9, <2>1, <3>1, <3>2 DEF Sound, Alive
      <3>3. CASE c # closing
        <4>1. caches'[c] = caches[c] /\ caches[c].hz = NULL
          BY <1>9, <2>1, <3>1, <3>3 DEF Sound, Owner
        <4> QED
          BY <1>9, <3>1, <3>3, <4>1 DEF Sound, Alive
      <3> QED
        BY <3>2, <3>3
    <2> QED
      BY <1>9, <1>q, <2>2, <2>3, <2>4
  <1>10. CASE Release
    <2>0. /\ closing # NULL /\ closing \in DOMAIN caches /\ Owner = closing
          /\ UNCHANGED <<clients, cache_, returned, call>> /\ Disconnected
          /\ caches' = [caches EXCEPT ![closing].hz = NULL]
          /\ clients[caches[closing].hz] # "connected"
          /\ closing = cache_ \/ closing # cache_
      BY <1>0, <1>10 DEF Release, Control, Typed, Owner
    <2> DEFINE old == [caches[closing] EXCEPT !.hz = NULL]
    <2>1. caches[closing] \in CacheObject /\ caches[closing].state = "alive"
      BY <1>0, <2>0 DEF Typed, Sound, Alive
    <2>2. old \in CacheObject /\ old.hz = NULL /\ old.state = "alive"
      BY <2>1 DEF CacheObject
    <2>3. caches' = [caches EXCEPT ![closing] = old]
      BY <1>0, <2>0 DEF Typed
    <2>4. \A n \in DOMAIN clients : clients[n] # "connected"
      BY <1>0, <2>0, ConnectedClient
    <2> HIDE DEF old
    <2>5. caches'[closing].hz = NULL
      BY <1>0, <2>0, <2>2, <2>3 DEF Typed
    <2>6. Control' /\ (closing = cache_ \/ closing' = closing)
                   /\ (closing' = NULL \/ closing' = closing)
      <3>1. CASE closing = cache_
        BY <2>0, <3>1 DEF Disconnected, Control
      <3>2. CASE closing # cache_
        BY <2>0, <2>5, <3>2 DEF Disconnected, Control
      <3> QED
        BY <3>1, <3>2
    <2> QED
      BY <1>9, <2>0, <2>2, <2>3, <2>4, <2>6
  <1>11. CASE Destroy
    <2> DEFINE old == [state |-> "destroyed", hz |-> NULL]
    <2>0. /\ closing # NULL /\ closing \in DOMAIN caches /\ Owner = closing
          /\ closing # cache_ /\ caches[closing].hz = NULL
          /\ UNCHANGED <<cache_, returned, call>> /\ closing' = NULL
          /\ caches' = [caches EXCEPT ![closing] = old]
          /\ pc' = IF cache_ = NULL THEN "exited" ELSE "connect"
      BY <1>0, <1>11 DEF Destroy, Control, Typed, Owner
    <2>1. clients' = clients
      BY <1>11, <2>0 DEF Destroy, Deleted
    <2>2. old \in CacheObject /\ old.hz = NULL /\ old.state # "alive"
      BY DEF CacheObject
    <2>3. \A n \in DOMAIN clients : clients[n] # "connected"
      BY <1>0, <2>0, ConnectedClient
    <2>4. Control'
      BY <2>0 DEF Control
    <2> HIDE DEF old
    <2> QED
      BY <1>9, <2>0, <2>1, <2>2, <2>3, <2>4
  <1>12. ASSUME UNCHANGED <<caches, clients, cache_, closing, returned>>,
                call' \in [Workers -> DOMAIN clients \cup {NULL}],
                pc' = pc \/ pc' = "crashed"
         PROVE  FactoryInv'
    <2>1. Control'
      BY <1>0, <1>12 DEF Control
    <2> QED
      BY <1>0, <1>12, <1>q, <2>1 DEF Typed, Sound, Alive, Owner, ConnectionsOwned
  <1>13. ASSUME NEW w \in Workers, NEW c \in returned, BeginCall(w, c)
         PROVE  FactoryInv'
    <2>1. c \in DOMAIN caches
      BY <1>0 DEF Typed
    <2>2. call' \in [Workers -> DOMAIN clients \cup {NULL}]
      BY <1>0, <1>13, <2>1 DEF BeginCall, Typed, Sound
    <2> QED
      BY <1>12, <1>13, <2>2 DEF BeginCall
  <1>14. ASSUME NEW w \in Workers, EndCall(w) PROVE FactoryInv'
    <2>1. call' \in [Workers -> DOMAIN clients \cup {NULL}]
      BY <1>0, <1>14 DEF EndCall, Typed
    <2> QED
      BY <1>12, <1>14, <2>1 DEF EndCall
  <1>15. CASE UNCHANGED vars
    BY <1>0, <1>12, <1>15 DEF vars, Typed
  <1> QED
    BY <1>1, <1>3, <1>4, <1>6, <1>7, <1>8, <1>10, <1>11, <1>13, <1>14, <1>15 DEF Next

(* Every reachable state satisfies the inductive invariant.                *)
THEOREM FactoryInvariance == Spec => []FactoryInv
  BY InitFactory, NextFactory, PTL DEF Spec

(* However often caches are replaced, connected and disconnected, the one  *)
(* connected client is that of the factory's cache or of the cache that is *)
(* being disconnected.                                                     *)
THEOREM OneOwnedConnection == Spec => []ConnectionsOwned
  <1>1. FactoryInv => ConnectionsOwned
    BY DEF FactoryInv
  <1> QED
    BY <1>1, FactoryInvariance, PTL

(* Neither the destructor nor the assignment in connect deletes the client *)
(* of a map call under way: disconnect has released it before.             *)
THEOREM CallsAreSafe == Spec => []CallsOnLiveClients
  <1>1. FactoryInv => CallsOnLiveClients
    BY DEF FactoryInv, CallsOnLiveClients
  <1> QED
    BY <1>1, FactoryInvariance, PTL

(* ServesUntilReplaced whether the process runs or not: the cache has a    *)
(* client and nobody is disconnecting it.                                  *)
Serves ==
    \A c \in returned \ stopped :
        c = cache_ => caches[c].hz # NULL /\ closing = NULL

(* A cache is returned with a client, loses it only with the factory's     *)
(* cache_ or with disconnect, and a new cache_ is one nobody was given.    *)
LEMMA NextServes == FactoryInv /\ Serves /\ [Next]_vars => Serves'
  <1> SUFFICES ASSUME FactoryInv, Serves, [Next]_vars PROVE Serves'
    OBVIOUS
  <1>0. /\ Typed /\ Control /\ NULL \notin DOMAIN caches
        /\ \A c \in DOMAIN caches : Sound(c)
    BY FactoryParts, IndexesAreNotNull
  <1>1. CASE GetCache
    <2>1. cache_' = Len(caches) + 1 /\ returned' = returned
      BY <1>1 DEF GetCache
    <2>2. cache_' \notin returned'
      BY <1>0, <2>1 DEF Typed
    <2> QED
      BY <2>2 DEF Serves
  <1>2. CASE ConnectAndReturn
    <2>1. /\ UNCHANGED <<cache_, closing, stopped>> /\ cache_ # NULL
          /\ closing = NULL
      BY <1>0, <1>2 DEF ConnectAndReturn, Control
    <2>2. CASE connect(cache_)
      <3>1. caches'[cache_].hz # NULL
        BY <2>1, <2>2, ConnectCache
      <3> QED
        BY <2>1, <3>1 DEF Serves
    <2>3. CASE UNCHANGED <<caches, clients, returned>>
      BY <2>1, <2>3 DEF Serves
    <2> QED
      BY <1>2, <2>2, <2>3 DEF ConnectAndReturn
  <1>3. ASSUME NEW c \in returned, Connect(c) PROVE Serves'
    <2>1. /\ c = cache_ /\ cache_ # NULL /\ connect(cache_)
          /\ UNCHANGED <<cache_, closing>> /\ closing = NULL
      BY <1>0, <1>3 DEF Connect, Control, Typed, Sound
    <2>2. caches'[cache_].hz # NULL
      BY <2>1, ConnectCache
    <2> QED
      BY <2>1, <2>2 DEF Serves
  <1>4. ASSUME NEW c \in returned, Disconnect(c) PROVE Serves'
    <2>1. c = cache_ /\ cache_' = cache_ /\ cache_ \in stopped'
      BY <1>0, <1>4 DEF Disconnect, Control, Typed, Sound
    <2> QED
      BY <2>1 DEF Serves
  <1>5. CASE Exit
    <2>1. cache_' = NULL /\ returned' = returned
      BY <1>5 DEF Exit
    <2> QED
      BY <1>0, <2>1 DEF Serves, Typed
  <1>6. ASSUME closing # NULL, UNCHANGED <<cache_, returned, stopped>>
        PROVE  Serves'
    BY <1>6 DEF Serves
  <1>7. CASE Shutdown \/ Release \/ Destroy
    BY <1>0, <1>6, <1>7 DEF Shutdown, Release, Destroy, Control
  <1>8. CASE UNCHANGED <<caches, cache_, closing, returned, stopped>>
    BY <1>8 DEF Serves
  <1>9. ASSUME NEW w \in Workers, NEW c \in returned, BeginCall(w, c) PROVE Serves'
    BY <1>8, <1>9 DEF BeginCall
  <1>10. ASSUME NEW w \in Workers, EndCall(w) PROVE Serves'
    BY <1>8, <1>10 DEF EndCall
  <1> QED
    BY <1>1, <1>2, <1>3, <1>4, <1>5, <1>7, <1>8, <1>9, <1>10 DEF Next, vars

(* Whatever getCache, connect and disconnect calls have gone before, a     *)
(* cache that getCache returned has a connected client for as long as it   *)
(* is the factory's cache and nobody disconnects it.                       *)
THEOREM ReturnedCachesServe == Spec => []ServesUntilReplaced
  <1>1. Init => Serves
    BY DEF Init, Serves
  <1>2. ASSUME FactoryInv, Serves PROVE ServesUntilReplaced
    <2>1. returned \subseteq DOMAIN caches /\ \A c \in DOMAIN caches : Sound(c)
      BY <1>2, FactoryParts DEF Typed
    <2> QED
      BY <1>2, <2>1 DEF Sound, Serves, ServesUntilReplaced
  <1> QED
    BY <1>1, <1>2, NextServes, FactoryInvariance, PTL DEF Spec
=============================================================================
