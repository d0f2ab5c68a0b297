----------------------- MODULE AbstractInvocationFuture -----------------------
(***************************************************************************)
(* The future behind every call of a map: threads that block in get,       *)
(* callbacks registered by andThen, and threads that complete or cancel    *)
(* the call, around the single word state.  A step makes one access to     *)
(* state, to the next field of a wait node or to the unparked flag of a    *)
(* waiting thread; each of them is atomic.                                 *)
(***************************************************************************)
CONSTANTS
    Getters,        \* calls of get()
    TimedGetters,   \* calls of get(timeout, unit)
    Callbacks,      \* calls of andThen with the default executor
    OtherCallbacks, \* calls of andThen with an executor of its own
    Completers,     \* calls of complete and cancel
    Offer,          \* Offer[c]: the type of the answer c brings
    FAILED,         \* the outcome of a waiter that ends without an answer
    NULL

Threads == Getters \cup TimedGetters
Andthen == Callbacks \cup OtherCallbacks
Waiters == Threads \cup Andthen

(* A call is one of these, and waits or completes once.                    *)
ASSUME CallsAssumption ==
    /\ Getters \cap TimedGetters = {}
    /\ Callbacks \cap OtherCallbacks = {}
    /\ Threads \cap Andthen = {}
    /\ Waiters \cap Completers = {}
    /\ NULL \notin Waiters \cup Completers
    /\ Offer \in [Completers -> {"Value", "Exception"}]

(* The values of state: a BaseState of one of its types.  A bare waiter is *)
(* a ThreadState or an ExecutionCallbackState; a WaitNode holds a waiter.  *)
VOIDOBJECT   == [type |-> "VOIDTYPE", of |-> NULL]
Bare(w)      == [type |-> "Waiter", of |-> w]
WaitNode(w)  == [type |-> "WaitNode", of |-> w]
Answer(c)    == [type |-> Offer[c], of |-> c]

Pending == {VOIDOBJECT} \cup {Bare(w) : w \in Waiters} \cup {WaitNode(w) : w \in Waiters}
Answers == {Answer(c) : c \in Completers}

(* A null pointer is no state.                                             *)
ASSUME NullAssumption == NULL \notin Pending \cup Answers \cup {FAILED}

isDone(s) == s.type \in {"Value", "Exception"}

VARIABLES
    state,      \* the word all the calls work on
    next,       \* the next field of the wait node of each waiter
    pc,         \* where each call is
    oldState,   \* the state a call has read
    walk,       \* the locals of unregisterWaiter
    unparked,   \* the threads whose unparked flag is set
    expired,    \* the timed threads whose deadline has passed
    outcome     \* what each waiter was given: an answer, or FAILED

vars == <<state, next, pc, oldState, walk, unparked, expired, outcome>>

Init ==
    /\ state = VOIDOBJECT
    /\ next = [w \in Waiters |-> NULL]
    /\ pc = [t \in Waiters \cup Completers |-> "start"]
    /\ oldState = [t \in Waiters \cup Completers |-> VOIDOBJECT]
    /\ walk = [w \in TimedGetters |-> [prev |-> NULL, current |-> NULL, next |-> NULL]]
    /\ unparked = {}
    /\ expired = {}
    /\ outcome = [w \in Waiters |-> NULL]

Goto(t, label) == pc' = [pc EXCEPT ![t] = label]

(* resolveAndThrowIfException of the state that is seen now.               *)
Return(w) ==
    /\ outcome' = [outcome EXCEPT ![w] = state]
    /\ Goto(w, "returned")

-----------------------------------------------------------------------------
(* registerWaiter.                                                         *)

(* The state is read; a future that is done answers at once: get returns,  *)
(* andThen unblocks its callback.                                          *)
ReadState(w) ==
    /\ pc[w] = "start"
    /\ \/ /\ ~isDone(state)
          /\ oldState' = [oldState EXCEPT ![w] = state]
          /\ Goto(w, "register")
          /\ UNCHANGED outcome
       \/ isDone(state) /\ w \in Threads /\ Return(w) /\ UNCHANGED oldState
       \/ /\ isDone(state)
          /\ w \in Andthen
          /\ Goto(w, "unblock")
          /\ UNCHANGED <<oldState, outcome>>
    /\ UNCHANGED <<state, next, walk, unparked, expired>>

(* Only a waiter of the default executor goes without a wait node, and     *)
(* only when nothing else is registered.                                   *)
NewState(w) ==
    IF oldState[w] = VOIDOBJECT /\ w \notin OtherCallbacks THEN Bare(w) ELSE WaitNode(w)

(* Where a waiter that has found no answer goes on: the loop of get.       *)
Registered(w) ==
    CASE w \in Andthen           -> "registered"
      [] w \in expired           -> "unregister"
      [] w \in Threads \ expired -> "parked"

(* The compare-and-set of state, and the retry when it fails.              *)
Register(w) ==
    /\ pc[w] = "register"
    /\ \/ /\ state = oldState[w]
          /\ state' = NewState(w)
          /\ next' = [next EXCEPT ![w] =
                        IF NewState(w) = WaitNode(w) THEN oldState[w] ELSE NULL]
          /\ Goto(w, Registered(w))
       \/ /\ state # oldState[w]
          /\ Goto(w, "start")
          /\ UNCHANGED <<state, next>>
    /\ oldState' = [oldState EXCEPT ![w] = VOIDOBJECT]
    /\ UNCHANGED <<walk, unparked, expired, outcome>>

-----------------------------------------------------------------------------
(* get, with and without a timeout.                                        *)

(* Mutant: a thread that wakes up takes the state for the answer.          *)
WakeUnchecked(w) ==
    /\ pc[w] = "parked"
    /\ w \in unparked \cup expired
    /\ Return(w)
    /\ UNCHANGED <<state, next, oldState, walk, unparked, expired>>

(* park returns, and the state is checked: the flag is set, or the time is *)
(* up.                                                                     *)
Wake(w) ==
    /\ pc[w] = "parked"
    /\ w \in unparked \cup expired
    /\ \/ isDone(state) /\ Return(w)
       \/ ~isDone(state) /\ Goto(w, Registered(w)) /\ UNCHANGED outcome
    /\ UNCHANGED <<state, next, oldState, walk, unparked, expired>>

(* park returns for no reason; without an answer the thread parks again.   *)
WakeSpuriously(w) ==
    /\ pc[w] = "parked"
    /\ isDone(state)
    /\ Return(w)
    /\ UNCHANGED <<state, next, oldState, walk, unparked, expired>>

(* The deadline passes, at once where the timeout is not positive.         *)
Expire(w) ==
    /\ w \notin expired
    /\ pc[w] \in {"register", "parked"}
    /\ expired' = expired \cup {w}
    /\ UNCHANGED <<state, next, pc, oldState, walk, unparked, outcome>>

-----------------------------------------------------------------------------
(* unregisterWaiter: walks the stack for the waiter of this thread.        *)

NextOf(s) == IF s.type = "WaitNode" THEN next[s.of] ELSE NULL

NoWalk == [prev |-> NULL, current |-> NULL, next |-> NULL]

(* The walk is over, and get throws a TimeoutException.                    *)
ThrowTimeout(w) ==
    /\ outcome' = [outcome EXCEPT ![w] = FAILED]
    /\ walk' = [walk EXCEPT ![w] = NoWalk]
    /\ Goto(w, "returned")

(* The walk begins, or begins again, at the state.                         *)
Unregister(w) ==
    /\ pc[w] = "unregister"
    /\ walk' = [walk EXCEPT ![w] = [NoWalk EXCEPT !.current = state]]
    /\ Goto(w, "walk")
    /\ UNCHANGED <<state, next, oldState, unparked, expired, outcome>>

(* One node: found, passed, or the end of the stack.                       *)
Walk(w) ==
    LET current == walk[w].current IN
    /\ pc[w] = "walk"
    /\ \/ /\ current = NULL
          /\ ThrowTimeout(w)
       \/ /\ current \in {Bare(w), WaitNode(w)}
          /\ walk' = [walk EXCEPT ![w].next = NextOf(current)]
          /\ Goto(w, "unlink")
          /\ UNCHANGED outcome
       \/ /\ current \notin {NULL, Bare(w), WaitNode(w)}
          /\ walk' = [walk EXCEPT
                ![w].prev = IF current.type = "WaitNode" THEN current ELSE NULL,
                ![w].current = NextOf(current)]
          /\ UNCHANGED <<pc, outcome>>
    /\ UNCHANGED <<state, next, oldState, unparked, expired>>

(* Mutants: the head of the stack is replaced without compare-and-set; a   *)
(* failed compare-and-set is tried again on the same node.                 *)
UnlinkBlindly(w) ==
    LET l == walk[w] IN
    /\ pc[w] = "unlink"
    /\ \/ /\ l.prev = NULL
          /\ state' = IF l.next = NULL THEN VOIDOBJECT ELSE l.next
          /\ UNCHANGED next
       \/ /\ l.prev # NULL
          /\ next' = [next EXCEPT ![l.prev.of] = l.next]
          /\ UNCHANGED state
    /\ ThrowTimeout(w)
    /\ UNCHANGED <<oldState, unparked, expired>>

UnlinkAgain(w) ==
    LET l == walk[w] IN
    /\ pc[w] = "unlink"
    /\ \/ /\ l.prev = NULL
          /\ state = l.current
          /\ state' = IF l.next = NULL THEN VOIDOBJECT ELSE l.next
          /\ UNCHANGED next
       \/ /\ l.prev # NULL
          /\ next' = [next EXCEPT ![l.prev.of] = l.next]
          /\ UNCHANGED state
    /\ ThrowTimeout(w)
    /\ UNCHANGED <<oldState, unparked, expired>>

(* The head of the stack is replaced by compare-and-set, and the walk      *)
(* restarts when that fails; a node further down by a plain store into the *)
(* node before it.                                                         *)
Unlink(w) ==
    LET l == walk[w] IN
    /\ pc[w] = "unlink"
    /\ \/ /\ l.prev = NULL
          /\ state = l.current
          /\ state' = IF l.next = NULL THEN VOIDOBJECT ELSE l.next
          /\ ThrowTimeout(w)
          /\ UNCHANGED next
       \/ /\ l.prev = NULL
          /\ state # l.current
          /\ Goto(w, "unregister")
          /\ UNCHANGED <<state, next, walk, outcome>>
       \/ /\ l.prev # NULL
          /\ next' = [next EXCEPT ![l.prev.of] = l.next]
          /\ ThrowTimeout(w)
          /\ UNCHANGED state
    /\ UNCHANGED <<oldState, unparked, expired>>

-----------------------------------------------------------------------------
(* innerComplete, called by complete and cancel.                           *)

ReadOldState(c) ==
    /\ pc[c] = "start"
    /\ \/ isDone(state) /\ Goto(c, "ignored") /\ UNCHANGED oldState
       \/ /\ ~isDone(state)
          /\ oldState' = [oldState EXCEPT ![c] = state]
          /\ Goto(c, "complete")
    /\ UNCHANGED <<state, next, walk, unparked, expired, outcome>>

(* Mutant: the answer is stored whatever happened since the state was read.*)
CompleteBlindly(c) ==
    /\ pc[c] = "complete"
    /\ state' = Answer(c)
    /\ Goto(c, "unblock")
    /\ UNCHANGED <<next, oldState, walk, unparked, expired, outcome>>

Complete(c) ==
    /\ pc[c] = "complete"
    /\ \/ /\ state = oldState[c]
          /\ state' = Answer(c)
          /\ Goto(c, "unblock")
       \/ /\ state # oldState[c]
          /\ Goto(c, "start")
          /\ UNCHANGED state
    /\ UNCHANGED <<next, oldState, walk, unparked, expired, outcome>>

(* Mutant: a waiter that sits in a wait node is not triggered.             *)
BareWaiter(s) == IF s.type = "Waiter" THEN {s.of} ELSE {}

(* The waiter unblockAll reaches: the one that registered last.  A wait    *)
(* node is entered for its waiter, and the loop is left after it.          *)
UnblockedWaiter(s) == IF s.type \in {"Waiter", "WaitNode"} THEN {s.of} ELSE {}

(* unblockAll of the state that was replaced, and the return of complete.  *)
UnblockAll(c) ==
    LET reached == UnblockedWaiter(oldState[c]) IN
    /\ pc[c] = "unblock"
    /\ unparked' = unparked \cup (reached \cap Threads)
    /\ pc' = [t \in DOMAIN pc |-> CASE t = c -> "completed"
                                    [] t \in reached \cap Andthen -> "unblock"
                                    [] OTHER -> pc[t]]
    /\ oldState' = [oldState EXCEPT ![c] = VOIDOBJECT]
    /\ UNCHANGED <<state, next, walk, expired, outcome>>

(* unblock: the executor takes the callback, or rejects it and the         *)
(* callback is told so by onFailure.                                       *)
Execute(w) ==
    /\ pc[w] = "unblock"
    /\ \/ Goto(w, "submitted") /\ UNCHANGED outcome
       \/ Goto(w, "returned") /\ outcome' = [outcome EXCEPT ![w] = FAILED]
    /\ UNCHANGED <<state, next, oldState, walk, unparked, expired>>

(* CallbackRunner: onResponse or onFailure, with what is in state now.     *)
RunCallback(w) ==
    /\ pc[w] = "submitted"
    /\ Return(w)
    /\ UNCHANGED <<state, next, oldState, walk, unparked, expired>>

-----------------------------------------------------------------------------
TimedStep(w) == Expire(w) \/ Unregister(w) \/ Walk(w) \/ Unlink(w)

CallbackStep(w) == Execute(w) \/ RunCallback(w)

CompleteStep(c) == ReadOldState(c) \/ Complete(c) \/ UnblockAll(c)

RegisterStep(w) == ReadState(w) \/ Register(w)

Next ==
    \/ \E w \in Waiters : RegisterStep(w)
    \/ \E w \in Threads : Wake(w) \/ WakeSpuriously(w)
    \/ \E w \in TimedGetters : TimedStep(w)
    \/ \E w \in Andthen : CallbackStep(w)
    \/ \E c \in Completers : CompleteStep(c)

Spec == Init /\ [][Next]_vars

(* A thread inside a call is scheduled, a timeout passes, an executor runs *)
(* what it took, and the invocation is completed in the end.  A thread     *)
(* that parks may sleep until it is unparked: spurious wake-ups are        *)
(* possible, never promised.                                               *)
FairSpec ==
    /\ Spec
    /\ \A w \in Waiters : WF_vars(RegisterStep(w))
    /\ \A w \in Threads : WF_vars(Wake(w))
    /\ \A w \in TimedGetters : WF_vars(TimedStep(w))
    /\ \A w \in Andthen : WF_vars(CallbackStep(w))
    /\ \A c \in Completers : WF_vars(CompleteStep(c))

-----------------------------------------------------------------------------
Labels ==
    {"start", "register", "parked", "unregister", "walk", "unlink", "registered",
     "unblock", "submitted", "returned", "complete", "completed", "ignored"}

(* The state is what its documentation lists, the next field of a node and *)
(* what a call has read to replace it are states without an answer.        *)
TypeOK ==
    /\ state \in Pending \cup Answers
    /\ next \in [Waiters -> Pending \cup {NULL}]
    /\ pc \in [Waiters \cup Completers -> Labels]
    /\ oldState \in [Waiters \cup Completers -> Pending]
    /\ walk \in [TimedGetters -> [prev : {WaitNode(w) : w \in Waiters} \cup {NULL},
                                  current : Pending \cup Answers \cup {NULL},
                                  next : Pending \cup {NULL}]]
    /\ unparked \subseteq Threads
    /\ expired \subseteq TimedGetters
    /\ outcome \in [Waiters -> Answers \cup {FAILED, NULL}]

(* "only the first answer will lead to the future getting triggered": the  *)
(* answer in the state is that of the one call of complete that returns    *)
(* true, and a future without such a call has no answer.                   *)
FirstAnswerWins ==
    /\ \A c \in Completers :
          pc[c] \in {"unblock", "completed"} <=> state = Answer(c)
    /\ isDone(state) => \E c \in Completers : state = Answer(c)

(* A waiter that is registered and has not begun to unregister.            *)
Waiting(w) == pc[w] \in {"parked", "registered"}

(* The waiter a pointer leads to.                                          *)
Ref(s) == {w \in Waiters : s \in {Bare(w), WaitNode(w)}}

(* The stack of waiters: those in every set that holds the waiter of state *)
(* and, with a waiter, the one its next field leads to.                    *)
Stack ==
    {w \in Waiters : \A S \in SUBSET Waiters :
        Ref(state) \subseteq S /\ (\A v \in S : Ref(next[v]) \subseteq S) => w \in S}

(* Until the future completes, every waiter that waits can be reached from *)
(* the state, however registrations interleave with timed gets that give   *)
(* up and unlink themselves from the middle of the stack.  (The waiters    *)
(* that gave up may be linked in again, never the other way round.)        *)
WaitersReachable ==
    ~isDone(state) =>
        \A w \in Waiters : Waiting(w) => w \in Stack

(* The future keeps the promise of CompletableFuture: one answer, given to *)
(* each waiter at most once, and never before it is there.                 *)
Future == INSTANCE CompletableFuture WITH
    answer <- IF isDone(state) THEN state ELSE NULL,
    Patient <- Getters,
    NONE <- NULL

ImplementsFuture == Future!Spec

(* The waiter on top of the stack when the answer arrives, which is the    *)
(* only waiter where a call has one, is triggered: no wake-up is lost      *)
(* between registering and parking.                                        *)
LastWaiterTriggered ==
    \A w \in Waiters :
        (\E c \in Completers :
            pc[c] = "unblock" /\ oldState[c] \in {Bare(w), WaitNode(w)})
        ~> outcome[w] # NULL

(* A get with a timeout returns, triggered or not.                         *)
TimedGetsReturn == <>(\A w \in TimedGetters : pc[w] = "returned")

=============================================================================
