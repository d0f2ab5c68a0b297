---------------------- MODULE HazelcastHttpCacheFactory ----------------------
(***************************************************************************)
(* The life of a cache object and of its Hazelcast client: the factory     *)
(* that builds caches and hands them out by reference, connect and         *)
(* disconnect, and the map calls of the worker threads in between.         *)
(***************************************************************************)
EXTENDS Naturals, Sequences, FiniteSets

CONSTANTS
    Workers,    \* worker threads of the process
    MaxCaches,  \* bound: calls of getCache
    MaxClients, \* bound: clients constructed
    NULL        \* a null pointer

ASSUME NullAssumption == NULL \notin Nat

VARIABLES
    caches,     \* caches[n]: the n-th cache built: alive or not, its hz pointer
    clients,    \* clients[n]: the n-th client: connected, shutdown or freed
    cache_,     \* the cache the factory owns
    closing,    \* the cache that disconnect, or the destructor, is at work on
    returned,   \* the caches getCache has returned a reference to
    stopped,    \* history: the caches a caller has disconnected
    call,       \* the client each worker's map call under way runs on
    pc          \* what the main thread does next, or how the process ended

vars == <<caches, clients, cache_, closing, returned, stopped, call, pc>>

Init ==
    /\ caches = <<>>
    /\ clients = <<>>
    /\ cache_ = NULL
    /\ closing = NULL
    /\ returned = {}
    /\ stopped = {}
    /\ call = [w \in Workers |-> NULL]
    /\ pc = "idle"

Alive(c) == caches[c].state = "alive"

(* Workers run from the first getCache to the end of main, before the      *)
(* static factory is destroyed.                                            *)
Running == pc # "crashed" /\ cache_ # NULL

(* std::unique_ptr, assigned or destroyed: the client it held is deleted.  *)
Deleted(hz) == IF hz = NULL THEN clients ELSE [clients EXCEPT ![hz] = "freed"]

-----------------------------------------------------------------------------
(* connect: nothing where hz is set; a client that has reached the cluster *)
(* otherwise.                                                              *)
connect(c) ==
    IF caches[c].hz # NULL
    THEN UNCHANGED <<caches, clients>>
    ELSE /\ Len(clients) < MaxClients
         /\ clients' = Append(Deleted(caches[c].hz), "connected")
         /\ caches' = [caches EXCEPT ![c].hz = Len(clients) + 1]

(* The end of disconnect: back to the caller, or on in the destructor.     *)
Disconnected ==
    IF closing = cache_
    THEN pc' = "idle" /\ closing' = NULL
    ELSE pc' = "destroy" /\ UNCHANGED closing

(* Mutant: disconnect lets go of the client without shutting it down.      *)
NoShutdown ==
    /\ pc = "shutdown"
    /\ \/ /\ caches[closing].hz # NULL
          /\ pc' = "release"
          /\ UNCHANGED closing
       \/ /\ caches[closing].hz = NULL
          /\ Disconnected
    /\ UNCHANGED <<caches, clients, cache_, returned, stopped, call>>

(* disconnect: hz->shutdown(), where there is a client.                    *)
Shutdown ==
    /\ pc = "shutdown"
    /\ \/ /\ caches[closing].hz # NULL
          /\ clients' = [clients EXCEPT ![caches[closing].hz] = "shutdown"]
          /\ pc' = "release"
          /\ UNCHANGED closing
       \/ /\ caches[closing].hz = NULL
          /\ Disconnected
          /\ UNCHANGED clients
    /\ UNCHANGED <<caches, cache_, returned, stopped, call>>

(* Mutant: the pointer is left as it is.                                   *)
NoRelease ==
    /\ pc = "release"
    /\ Disconnected
    /\ UNCHANGED <<caches, clients, cache_, returned, stopped, call>>

(* Mutant: hz.reset(), which deletes the client.                           *)
Reset ==
    /\ pc = "release"
    /\ caches' = [caches EXCEPT ![closing].hz = NULL]
    /\ clients' = Deleted(caches[closing].hz)
    /\ Disconnected
    /\ UNCHANGED <<cache_, returned, stopped, call>>

(* disconnect: hz.release() forgets the client and leaves it undeleted.    *)
Release ==
    /\ pc = "release"
    /\ caches' = [caches EXCEPT ![closing].hz = NULL]
    /\ Disconnected
    /\ UNCHANGED <<clients, cache_, returned, stopped, call>>

(* ~HazelcastHttpCache after its disconnect: hz is destroyed, with the     *)
(* client it may still hold.  getCache or the end of the process goes on.  *)
Destroy ==
    /\ pc = "destroy"
    /\ clients' = Deleted(caches[closing].hz)
    /\ caches' = [caches EXCEPT ![closing] = [state |-> "destroyed", hz |-> NULL]]
    /\ closing' = NULL
    /\ pc' = IF cache_ = NULL THEN "exited" ELSE "connect"
    /\ UNCHANGED <<cache_, returned, stopped, call>>

-----------------------------------------------------------------------------
(* getCache up to connect: the new cache takes the place of the factory's  *)
(* cache_, and the destructor of the replaced one runs.                    *)
GetCache ==
    /\ pc = "idle"
    /\ Len(caches) < MaxCaches
    /\ caches' = Append(caches, [state |-> "alive", hz |-> NULL])
    /\ cache_' = Len(caches) + 1
    /\ closing' = cache_
    /\ pc' = IF cache_ = NULL THEN "connect" ELSE "shutdown"
    /\ UNCHANGED <<clients, returned, stopped, call>>

(* getCache from connect on: the cache is returned, or the client cannot   *)
(* reach the cluster and its constructor throws through getCache.          *)
ConnectAndReturn ==
    /\ pc = "connect"
    /\ \/ /\ connect(cache_)
          /\ returned' = returned \cup {cache_}
       \/ UNCHANGED <<caches, clients, returned>>
    /\ pc' = "idle"
    /\ UNCHANGED <<cache_, closing, stopped, call>>

(* A caller connects or disconnects a cache it was given.                  *)
Connect(c) ==
    /\ pc = "idle"
    /\ Alive(c)
    /\ connect(c)
    /\ stopped' = stopped \ {c}
    /\ UNCHANGED <<cache_, closing, returned, call, pc>>

Disconnect(c) ==
    /\ pc = "idle"
    /\ Alive(c)
    /\ closing' = c
    /\ stopped' = stopped \cup {c}
    /\ pc' = "shutdown"
    /\ UNCHANGED <<caches, clients, cache_, returned, call>>

(* The factory is destroyed with the process, and its cache with it.       *)
Exit ==
    /\ pc = "idle"
    /\ \A w \in Workers : call[w] = NULL
    /\ cache_' = NULL
    /\ closing' = cache_
    /\ pc' = IF cache_ = NULL THEN "exited" ELSE "shutdown"
    /\ UNCHANGED <<caches, clients, returned, stopped, call>>

(* A map call of a worker, hz->getMap(...): it runs on the client hz       *)
(* pointed to when it began, and faults where there is none.               *)
BeginCall(w, c) ==
    /\ Running
    /\ call[w] = NULL
    /\ \/ /\ Alive(c) /\ caches[c].hz # NULL
          /\ call' = [call EXCEPT ![w] = caches[c].hz]
          /\ UNCHANGED pc
       \/ /\ ~(Alive(c) /\ caches[c].hz # NULL)
          /\ pc' = "crashed"
          /\ UNCHANGED call
    /\ UNCHANGED <<caches, clients, cache_, closing, returned, stopped>>

(* It returns a value, or throws because its client was shut down.         *)
EndCall(w) ==
    /\ Running
    /\ call[w] # NULL
    /\ call' = [call EXCEPT ![w] = NULL]
    /\ UNCHANGED <<caches, clients, cache_, closing, returned, stopped, pc>>

Next ==
    \/ GetCache
    \/ Shutdown
    \/ Release
    \/ Destroy
    \/ ConnectAndReturn
    \/ \E c \in returned : Connect(c) \/ Disconnect(c)
    \/ Exit
    \/ \E w \in Workers, c \in returned : BeginCall(w, c)
    \/ \E w \in Workers : EndCall(w)

Spec == Init /\ [][Next]_vars

-----------------------------------------------------------------------------
(* The one cache that may hold a client.                                   *)
Owner == IF closing # NULL THEN closing ELSE cache_

(* Every connected client is held by the factory's cache, or by the one    *)
(* that is being disconnected: no sequence of getCache, connect,           *)
(* disconnect and failed connections leaves a connection to the cluster    *)
(* that nobody can shut down, or two of them.                              *)
ConnectionsOwned ==
    \A n \in DOMAIN clients :
        clients[n] = "connected" =>
            /\ Owner # NULL
            /\ caches[Owner] = [state |-> "alive", hz |-> n]

(* A map call never runs on a freed client, although a cache is            *)
(* disconnected and destroyed, and connected again, while workers are      *)
(* inside a call: hz has released its client by the time the destructor or *)
(* an assignment would delete what it holds.                               *)
CallsOnLiveClients ==
    \A w \in Workers : call[w] # NULL => clients[call[w]] # "freed"

CacheObject == [state : {"alive", "destroyed"}, hz : Nat \cup {NULL}]

(* What the proof of these properties needs: the factory's cache and the   *)
(* one being closed are the living caches, only one of them has a client,  *)
(* the client is connected unless disconnect is at work, and a destructor  *)
(* that has come past disconnect has nothing left to delete.               *)
FactoryInv ==
    /\ caches \in Seq(CacheObject)
    /\ clients \in Seq({"connected", "shutdown"})
    /\ cache_ = NULL \/ cache_ \in DOMAIN caches
    /\ closing = NULL \/ closing \in DOMAIN caches
    /\ returned \subseteq DOMAIN caches
    /\ call \in [Workers -> DOMAIN clients \cup {NULL}]
    /\ pc \in {"idle", "shutdown", "release", "destroy", "connect",
               "exited", "crashed"}
    /\ pc \in {"shutdown", "release", "destroy"} => closing # NULL
    /\ pc \in {"idle", "connect"} => closing = NULL
    /\ pc = "connect" => cache_ # NULL
    /\ pc = "release" => /\ caches[closing].hz # NULL
                         /\ clients[caches[closing].hz] # "connected"
    /\ pc = "destroy" => closing # cache_ /\ caches[closing].hz = NULL
    /\ \A c \in DOMAIN caches :
          /\ Alive(c) <=> c = cache_ \/ c = closing
          /\ caches[c].hz # NULL =>
                /\ c = Owner /\ caches[c].hz \in DOMAIN clients
                /\ closing = NULL => clients[caches[c].hz] = "connected"
    /\ ConnectionsOwned

(* "On cache start up, Hazelcast Client will connect to the cluster and    *)
(* then it will be ready to serve the cache": the factory's cache, once    *)
(* getCache has returned it, has a connected client until a caller         *)
(* disconnects it, and again after the connect that follows.  The next     *)
(* getCache, even one that fails, destroys it although the reference to it *)
(* is still around.                                                        *)
ServesUntilReplaced ==
    Running => \A c \in returned \ stopped :
                  c = cache_ => /\ Alive(c) /\ caches[c].hz # NULL
                                /\ clients[caches[c].hz] = "connected"
=============================================================================
