-------------------- MODULE AbstractInvocationFutureProofs --------------------
(***************************************************************************)
(* Proofs about AbstractInvocationFuture, for any number of gets, timed    *)
(* gets, callbacks and completing calls: the types, that the first answer  *)
(* wins, that no waiter falls off the stack, and that the future           *)
(* implements CompletableFuture.                                           *)
(***************************************************************************)
EXTENDS AbstractInvocationFuture, Naturals, WellFoundedInduction, TLAPS

Calls == Waiters \cup Completers

(* The states of the word, told apart by their types: what is pending is   *)
(* not done, an answer is, and each belongs to one call.                   *)
LEMMA States ==
    /\ VOIDOBJECT \in Pending
    /\ \A w \in Waiters : Bare(w) \in Pending /\ WaitNode(w) \in Pending
    /\ \A s \in Pending : ~isDone(s) /\ s # NULL
    /\ \A s \in Answers : isDone(s) /\ s # NULL
    /\ \A c \in Completers : Answer(c) \in Answers
    /\ FAILED # NULL
  <1>1. \A s \in Pending : ~isDone(s)
    BY DEF Pending, isDone, VOIDOBJECT, Bare, WaitNode
  <1>2. \A s \in Answers : isDone(s)
    BY CallsAssumption DEF Answers, isDone, Answer
  <1> QED BY <1>1, <1>2, NullAssumption DEF Pending, Answers

(* Two calls bring different answers.                                      *)
LEMMA AnswersDiffer ==
    ASSUME NEW c \in Completers, NEW d \in Completers, Answer(c) = Answer(d)
    PROVE  c = d
  BY DEF Answer

(* A pointer leads to one waiter at most, and only a wait node has a next. *)
LEMMA Pointers ==
    /\ \A w \in Waiters : Ref(Bare(w)) = {w} /\ Ref(WaitNode(w)) = {w}
    /\ Ref(VOIDOBJECT) = {} /\ Ref(NULL) = {}
    /\ \A s \in Answers : Ref(s) = {}
    /\ \A s \in Pending : UnblockedWaiter(s) = Ref(s)
    /\ \A w \in Waiters : NextOf(Bare(w)) = NULL /\ NextOf(WaitNode(w)) = next[w]
    /\ NextOf(VOIDOBJECT) = NULL
    /\ \A s \in Answers : NextOf(s) = NULL
    /\ \A v, w \in Waiters : Bare(v) # WaitNode(w)
    /\ \A w \in Waiters : VOIDOBJECT \notin {Bare(w), WaitNode(w)}
    /\ \A w \in Waiters : Bare(w).type # "WaitNode"
    /\ \A w \in Waiters : WaitNode(w).type = "WaitNode" /\ WaitNode(w).of = w
    /\ VOIDOBJECT.type # "WaitNode"
    /\ \A s \in Answers : s.type # "WaitNode"
  <1>1. \A w \in Waiters : Ref(Bare(w)) = {w} /\ Ref(WaitNode(w)) = {w}
    BY DEF Ref, Bare, WaitNode
  <1>2. Ref(VOIDOBJECT) = {}
    BY DEF Ref, Bare, WaitNode, VOIDOBJECT
  <1>3. Ref(NULL) = {}
    BY NullAssumption DEF Ref, Pending
  <1>4. \A s \in Answers : Ref(s) = {}
    BY CallsAssumption DEF Ref, Bare, WaitNode, Answers, Answer
  <1>5. \A s \in Pending : UnblockedWaiter(s) = Ref(s)
    <2>1. UnblockedWaiter(VOIDOBJECT) = {}
      BY DEF UnblockedWaiter, VOIDOBJECT
    <2>2. \A w \in Waiters : UnblockedWaiter(Bare(w)) = {w} /\ UnblockedWaiter(WaitNode(w)) = {w}
      BY DEF UnblockedWaiter, Bare, WaitNode
    <2> QED BY <2>1, <2>2, <1>1, <1>2 DEF Pending
  <1>6. \A w \in Waiters : NextOf(Bare(w)) = NULL /\ NextOf(WaitNode(w)) = next[w]
    BY DEF NextOf, Bare, WaitNode
  <1>7. NextOf(VOIDOBJECT) = NULL
    BY DEF NextOf, VOIDOBJECT
  <1>8. \A s \in Answers : NextOf(s) = NULL
    BY CallsAssumption DEF NextOf, Answers, Answer
  <1>9. /\ \A v, w \in Waiters : Bare(v) # WaitNode(w)
        /\ \A w \in Waiters : VOIDOBJECT \notin {Bare(w), WaitNode(w)}
        /\ \A w \in Waiters : Bare(w).type # "WaitNode"
        /\ \A w \in Waiters : WaitNode(w).type = "WaitNode" /\ WaitNode(w).of = w
        /\ VOIDOBJECT.type # "WaitNode"
    BY DEF Bare, WaitNode, VOIDOBJECT
  <1>10. \A s \in Answers : s.type # "WaitNode"
    BY CallsAssumption DEF Answers, Answer
  <1> QED BY <1>1, <1>2, <1>3, <1>4, <1>5, <1>6, <1>7, <1>8, <1>9, <1>10

(* A set of natural numbers has a least element.                           *)
LEMMA NatMin ==
    ASSUME NEW T \in SUBSET Nat, T # {}
    PROVE  \E x \in T : \A y \in T : x <= y
  <1> DEFINE R == OpToRel(<, Nat)
  <1>1. PICK x \in T : \A y \in T : <<y, x>> \notin R
    BY WFMin, NatLessThanWellFounded
  <1>2. \A y \in T : ~(y < x)
    BY <1>1 DEF OpToRel
  <1> QED BY <1>2

-----------------------------------------------------------------------------
(* Where the calls of each kind may be.                                    *)
Roles ==
    /\ \A w \in Threads :
          pc[w] \in {"start", "register", "parked", "unregister", "walk", "unlink", "returned"}
    /\ \A w \in Andthen :
          pc[w] \in {"start", "register", "registered", "unblock", "submitted", "returned"}
    /\ \A c \in Completers :
          pc[c] \in {"start", "complete", "unblock", "completed", "ignored"}

(* A callback is on its way only when there is an answer for it.           *)
CallbacksAfterAnswer ==
    \A w \in Andthen : pc[w] \in {"unblock", "submitted", "returned"} => isDone(state)

(* A thread unlinks only itself.                                           *)
FoundSelf ==
    \A w \in TimedGetters : pc[w] = "unlink" => walk[w].current \in {Bare(w), WaitNode(w)}

AnswerInv == TypeOK /\ Roles /\ FirstAnswerWins /\ CallbacksAfterAnswer /\ FoundSelf

Walks == [prev : {WaitNode(w) : w \in Waiters} \cup {NULL},
          current : Pending \cup Answers \cup {NULL},
          next : Pending \cup {NULL}]

LEMMA InitAnswer == Init => AnswerInv
  <1> SUFFICES ASSUME Init PROVE AnswerInv
    OBVIOUS
  <1>1. TypeOK
    <2>1. walk \in [TimedGetters -> Walks]
      BY DEF Init, Walks
    <2> QED BY <2>1, States DEF Init, TypeOK, Labels, Walks
  <1>2. Roles /\ CallbacksAfterAnswer /\ FoundSelf
    BY DEF Init, Roles, CallbacksAfterAnswer, FoundSelf, Waiters, Threads, Andthen
  <1>3. FirstAnswerWins
    BY States DEF Init, FirstAnswerWins
  <1> QED BY <1>1, <1>2, <1>3 DEF AnswerInv

(* A step that leaves the state alone, moves one call that is not          *)
(* completing, and leads no callback to an answer that is not there, keeps *)
(* what holds of the other calls.                                          *)
LEMMA MoveOne ==
    ASSUME AnswerInv, NEW t \in Calls, NEW l \in Labels, Goto(t, l), UNCHANGED state,
           t \in Threads => l \in {"start", "register", "parked", "unregister", "walk",
                                   "unlink", "returned"},
           t \in Andthen => l \in {"start", "register", "registered", "unblock",
                                   "submitted", "returned"},
           t \in Completers => /\ l \in {"start", "complete", "ignored"}
                               /\ pc[t] \in {"start", "complete"},
           t \in Andthen /\ l \in {"unblock", "submitted", "returned"} => isDone(state)
    PROVE  /\ pc' \in [Waiters \cup Completers -> Labels]
           /\ Roles' /\ FirstAnswerWins' /\ CallbacksAfterAnswer'
  <1>1. pc \in [Waiters \cup Completers -> Labels]
    BY DEF AnswerInv, TypeOK
  <1>2. pc' \in [Waiters \cup Completers -> Labels]
    BY <1>1 DEF Goto
  <1>3. \A u \in Calls : pc'[u] = IF u = t THEN l ELSE pc[u]
    BY <1>1 DEF Goto, Calls
  <1>4. Roles'
    BY <1>3 DEF AnswerInv, Roles, Calls, Waiters
  <1>5. FirstAnswerWins'
    BY <1>3, CallsAssumption DEF AnswerInv, FirstAnswerWins, Calls
  <1>6. CallbacksAfterAnswer'
    BY <1>3 DEF AnswerInv, CallbacksAfterAnswer, Calls, Waiters
  <1> QED BY <1>2, <1>4, <1>5, <1>6

(* registerWaiter keeps the invariant.                                     *)
LEMMA ReadStateAnswer ==
    ASSUME AnswerInv, NEW w \in Waiters, ReadState(w)
    PROVE  AnswerInv'
  <1> USE DEF AnswerInv
  <1>0. w \in Calls /\ w \notin Completers /\ (w \in Threads => w \notin Andthen)
    BY CallsAssumption DEF Calls
  <1>1. /\ pc' \in [Waiters \cup Completers -> Labels]
        /\ Roles' /\ FirstAnswerWins' /\ CallbacksAfterAnswer'
    <2>1. CASE ~isDone(state) /\ Goto(w, "register")
      BY <1>0, <2>1, MoveOne DEF ReadState, Labels
    <2>2. CASE isDone(state) /\ w \in Threads /\ Goto(w, "returned")
      BY <1>0, <2>2, MoveOne DEF ReadState, Labels
    <2>3. CASE isDone(state) /\ w \in Andthen /\ Goto(w, "unblock")
      BY <1>0, <2>3, MoveOne DEF ReadState, Labels
    <2> QED BY <2>1, <2>2, <2>3 DEF ReadState, Return
  <1>2. outcome' \in [Waiters -> Answers \cup {FAILED, NULL}]
    BY States DEF ReadState, Return, TypeOK
  <1>3. oldState' \in [Waiters \cup Completers -> Pending]
    BY States DEF ReadState, TypeOK
  <1>4. TypeOK'
    BY <1>1, <1>2, <1>3 DEF ReadState, TypeOK
  <1>5. FoundSelf'
    <2>1. \A u \in TimedGetters : pc'[u] = "unlink" => pc[u] = "unlink"
      BY DEF ReadState, Return, Goto, TypeOK, Waiters, Threads
    <2> QED BY <2>1 DEF ReadState, FoundSelf
  <1> QED BY <1>1, <1>4, <1>5

LEMMA RegisteredLabel ==
    ASSUME TypeOK, NEW w \in Waiters
    PROVE  /\ w \in Andthen => Registered(w) = "registered"
           /\ w \in Threads => Registered(w) \in {"parked", "unregister"}
           /\ w \in expired => Registered(w) = "unregister"
           /\ w \in Threads \ expired => Registered(w) = "parked"
  <1>1. expired \subseteq Threads /\ Threads \cap Andthen = {}
    BY CallsAssumption DEF TypeOK, Threads
  <1>2. CASE w \in Andthen
    BY <1>1, <1>2 DEF Registered
  <1>3. CASE w \in expired
    BY <1>1, <1>3 DEF Registered
  <1>4. CASE w \in Threads \ expired
    BY <1>1, <1>4 DEF Registered
  <1> QED BY <1>1, <1>2, <1>3, <1>4 DEF Waiters

LEMMA RegisterAnswer ==
    ASSUME AnswerInv, NEW w \in Waiters, Register(w)
    PROVE  AnswerInv'
  <1> USE DEF AnswerInv
  <1>0. w \in Calls /\ w \notin Completers /\ (w \in Threads => w \notin Andthen)
    BY CallsAssumption DEF Calls
  <1>1. /\ oldState[w] \in Pending
        /\ oldState' \in [Waiters \cup Completers -> Pending]
    BY States DEF Register, TypeOK
  <1>2. NewState(w) \in Pending
    BY States DEF NewState
  <1>3. next' \in [Waiters -> Pending \cup {NULL}] /\ state' \in Pending \cup Answers
    BY <1>1, <1>2 DEF Register, TypeOK
  <1>4. PICK l \in Labels : /\ Goto(w, l)
                            /\ l # "unlink"
                            /\ l \notin {"unblock", "submitted", "returned"}
                            /\ w \in Threads => l \in {"start", "parked", "unregister"}
                            /\ w \in Andthen => l \in {"start", "registered"}
    <2>1. CASE Goto(w, "start")
      BY <2>1 DEF Labels
    <2>2. CASE Goto(w, Registered(w))
      BY <2>2, <1>0, RegisteredLabel DEF Labels, Waiters
    <2> QED BY <2>1, <2>2 DEF Register
  <1>5. \A u \in Calls : pc'[u] = IF u = w THEN l ELSE pc[u]
    BY <1>4 DEF Goto, Calls, TypeOK
  <1>6. pc' \in [Waiters \cup Completers -> Labels]
    BY <1>4 DEF Goto, TypeOK
  <1>7. TypeOK'
    BY <1>1, <1>3, <1>6 DEF Register, TypeOK
  <1>8. Roles'
    BY <1>0, <1>4, <1>5 DEF Roles, Calls, Waiters
  <1>9. isDone(state') <=> isDone(state)
    BY <1>1, <1>2, States DEF Register
  <1>10. FirstAnswerWins'
    <2>1. \A c \in Completers : state' = Answer(c) <=> state = Answer(c)
      BY <1>1, <1>2, States DEF Register
    <2>2. \A c \in Completers : pc'[c] = pc[c]
      BY <1>0, <1>5 DEF Calls
    <2> QED BY <1>9, <2>1, <2>2 DEF FirstAnswerWins
  <1>11. CallbacksAfterAnswer'
    BY <1>4, <1>5, <1>9 DEF CallbacksAfterAnswer, Calls, Waiters
  <1>12. FoundSelf'
    BY <1>4, <1>5 DEF Register, FoundSelf, Calls, Waiters, Threads
  <1> QED BY <1>7, <1>8, <1>10, <1>11, <1>12

(* A get that ends, or goes round its loop, keeps the invariant.           *)
LEMMA WakeAnswer ==
    ASSUME AnswerInv, NEW w \in Threads, Wake(w) \/ WakeSpuriously(w)
    PROVE  AnswerInv'
  <1> USE DEF AnswerInv
  <1>0. w \in Calls /\ w \notin Completers /\ w \notin Andthen /\ w \in Waiters
    BY CallsAssumption DEF Calls, Waiters
  <1>1. PICK l \in {"returned", "parked", "unregister"} : Goto(w, l)
    BY <1>0, RegisteredLabel DEF Wake, WakeSpuriously, Return
  <1>2. UNCHANGED <<state, next, oldState, walk, unparked, expired>>
    BY DEF Wake, WakeSpuriously
  <1>3. /\ pc' \in [Waiters \cup Completers -> Labels]
        /\ Roles' /\ FirstAnswerWins' /\ CallbacksAfterAnswer'
    <2>1. l \in Labels
      BY DEF Labels
    <2> QED BY <1>0, <1>1, <1>2, <2>1, MoveOne
  <1>4. outcome' \in [Waiters -> Answers \cup {FAILED, NULL}]
    BY <1>0, States DEF Wake, WakeSpuriously, Return, TypeOK
  <1>5. TypeOK'
    BY <1>2, <1>3, <1>4 DEF TypeOK
  <1>6. FoundSelf'
    <2>1. \A u \in TimedGetters : pc'[u] = "unlink" => pc[u] = "unlink"
      BY <1>1 DEF Goto, TypeOK, Waiters, Threads
    <2> QED BY <1>2, <2>1 DEF FoundSelf
  <1> QED BY <1>3, <1>5, <1>6

LEMMA ExpireAnswer ==
    ASSUME AnswerInv, NEW w \in TimedGetters, Expire(w)
    PROVE  AnswerInv'
  <1>1. TypeOK'
    BY DEF Expire, AnswerInv, TypeOK
  <1> QED BY <1>1 DEF Expire, AnswerInv, Roles, FirstAnswerWins, CallbacksAfterAnswer, FoundSelf

(* unregisterWaiter keeps the invariant.                                   *)
LEMMA UnregisterAnswer ==
    ASSUME AnswerInv, NEW w \in TimedGetters, Unregister(w)
    PROVE  AnswerInv'
  <1> USE DEF AnswerInv
  <1>0. w \in Calls /\ w \notin Completers /\ w \notin Andthen /\ w \in Waiters
    BY CallsAssumption DEF Calls, Waiters, Threads
  <1>1. /\ pc' \in [Waiters \cup Completers -> Labels]
        /\ Roles' /\ FirstAnswerWins' /\ CallbacksAfterAnswer'
    <2>1. "walk" \in Labels
      BY DEF Labels
    <2> QED BY <1>0, <2>1, MoveOne DEF Unregister
  <1>2. walk' \in [TimedGetters -> Walks]
    <2>1. [NoWalk EXCEPT !.current = state] \in Walks
      BY DEF TypeOK, NoWalk, Walks
    <2>2. walk \in [TimedGetters -> Walks]
      BY DEF TypeOK, Walks
    <2> QED BY <2>1, <2>2 DEF Unregister
  <1>3. TypeOK'
    BY <1>1, <1>2 DEF Unregister, TypeOK, Walks
  <1>4. FoundSelf'
    <2>1. \A u \in TimedGetters : pc'[u] = "unlink" => u # w /\ pc[u] = "unlink"
      BY DEF Unregister, Goto, TypeOK, Waiters, Threads
    <2>2. \A u \in TimedGetters \ {w} : walk'[u] = walk[u]
      BY DEF Unregister, TypeOK
    <2> QED BY <2>1, <2>2 DEF FoundSelf
  <1> QED BY <1>1, <1>3, <1>4

(* What lies below a state is a state without an answer, or nothing.       *)
LEMMA NextOfType ==
    ASSUME TypeOK, NEW s \in Pending \cup Answers
    PROVE  NextOf(s) \in Pending \cup {NULL}
  <1>1. CASE s \in Answers
    BY <1>1, Pointers
  <1>2. CASE s = VOIDOBJECT
    BY <1>2, Pointers
  <1>3. CASE \E w \in Waiters : s \in {Bare(w), WaitNode(w)}
    BY <1>3, Pointers DEF TypeOK
  <1> QED BY <1>1, <1>2, <1>3 DEF Pending

(* The end of a timed get.                                                 *)
LEMMA ThrowTypes ==
    ASSUME AnswerInv, NEW w \in TimedGetters, ThrowTimeout(w)
    PROVE  /\ walk' \in [TimedGetters -> Walks]
           /\ \A u \in TimedGetters : walk'[u] = IF u = w THEN NoWalk ELSE walk[u]
           /\ outcome' \in [Waiters -> Answers \cup {FAILED, NULL}]
  <1>1. walk \in [TimedGetters -> Walks]
    BY DEF AnswerInv, TypeOK, Walks
  <1>2. NoWalk \in Walks
    BY DEF NoWalk, Walks
  <1>3. outcome' \in [Waiters -> Answers \cup {FAILED, NULL}]
    BY DEF ThrowTimeout, AnswerInv, TypeOK
  <1> QED BY <1>1, <1>2, <1>3 DEF ThrowTimeout

LEMMA WalkAnswer ==
    ASSUME AnswerInv, NEW w \in TimedGetters, Walk(w)
    PROVE  AnswerInv'
  <1> USE DEF AnswerInv
  <1> DEFINE current == walk[w].current
  <1>0. w \in Calls /\ w \notin Completers /\ w \notin Andthen /\ w \in Waiters
    BY CallsAssumption DEF Calls, Waiters, Threads
  <1>a. walk \in [TimedGetters -> Walks]
    BY DEF TypeOK, Walks
  <1>b. walk[w] \in Walks /\ current \in Pending \cup Answers \cup {NULL}
    BY <1>a DEF Walks
  <1>c. UNCHANGED <<state, next, oldState, unparked, expired>>
    BY DEF Walk
  <1>d. "returned" \in Labels /\ "unlink" \in Labels
    BY DEF Labels
  <1>1. CASE current = NULL /\ ThrowTimeout(w)
    <2>1. /\ pc' \in [Waiters \cup Completers -> Labels]
          /\ Roles' /\ FirstAnswerWins' /\ CallbacksAfterAnswer'
      BY <1>0, <1>1, <1>c, <1>d, MoveOne DEF ThrowTimeout
    <2>2. TypeOK'
      BY <1>1, <1>c, <2>1, ThrowTypes DEF TypeOK, Walks
    <2>3. \A u \in TimedGetters : pc'[u] = "unlink" => u # w /\ pc[u] = "unlink"
      BY <1>1 DEF ThrowTimeout, Goto, TypeOK, Waiters, Threads
    <2>4. FoundSelf'
      BY <1>1, <2>3, ThrowTypes DEF FoundSelf
    <2> QED BY <2>1, <2>2, <2>4
  <1>2. CASE /\ current \in {Bare(w), WaitNode(w)}
             /\ walk' = [walk EXCEPT ![w].next = NextOf(current)]
             /\ Goto(w, "unlink")
             /\ UNCHANGED outcome
    <2>1. /\ pc' \in [Waiters \cup Completers -> Labels]
          /\ Roles' /\ FirstAnswerWins' /\ CallbacksAfterAnswer'
      BY <1>0, <1>2, <1>c, <1>d, MoveOne
    <2>2. NextOf(current) \in Pending \cup {NULL}
      BY <1>0, <1>2, States, NextOfType
    <2>3. /\ walk' \in [TimedGetters -> Walks]
          /\ \A u \in TimedGetters : walk'[u].current = walk[u].current
      BY <1>2, <1>a, <2>2 DEF Walks
    <2>4. TypeOK'
      BY <1>2, <1>c, <2>1, <2>3 DEF TypeOK, Walks
    <2>5. \A u \in TimedGetters \ {w} : pc'[u] = pc[u]
      BY <1>2 DEF Goto, TypeOK, Waiters, Threads
    <2>6. FoundSelf'
      BY <1>2, <2>3, <2>5 DEF FoundSelf
    <2> QED BY <2>1, <2>4, <2>6
  <1>3. CASE /\ current \notin {NULL, Bare(w), WaitNode(w)}
             /\ walk' = [walk EXCEPT
                   ![w].prev = IF current.type = "WaitNode" THEN current ELSE NULL,
                   ![w].current = NextOf(current)]
             /\ UNCHANGED <<pc, outcome>>
    <2>1. NextOf(current) \in Pending \cup {NULL}
      BY <1>3, <1>b, NextOfType
    <2>2. (IF current.type = "WaitNode" THEN current ELSE NULL)
             \in {WaitNode(v) : v \in Waiters} \cup {NULL}
      BY <1>3, <1>b, Pointers DEF Pending
    <2>3. walk' \in [TimedGetters -> Walks]
      <3> DEFINE p == IF current.type = "WaitNode" THEN current ELSE NULL
                 n == NextOf(current)
      <3>1. p \in {WaitNode(v) : v \in Waiters} \cup {NULL} /\ n \in Pending \cup {NULL}
        BY <2>1, <2>2
      <3>2. walk' = [walk EXCEPT ![w].prev = p, ![w].current = n]
        BY <1>3
      <3> HIDE DEF p, n
      <3> QED BY <1>a, <3>1, <3>2 DEF Walks
    <2>4. TypeOK'
      BY <1>3, <1>c, <2>3 DEF TypeOK, Walks
    <2>5. \A u \in TimedGetters \ {w} : walk'[u] = walk[u]
      BY <1>3, <1>a
    <2>6. FoundSelf'
      BY <1>3, <2>5 DEF FoundSelf, Walk
    <2>7. Roles' /\ FirstAnswerWins' /\ CallbacksAfterAnswer'
      BY <1>3, <1>c DEF Roles, FirstAnswerWins, CallbacksAfterAnswer
    <2> QED BY <2>4, <2>6, <2>7
  <1> QED BY <1>1, <1>2, <1>3 DEF Walk

LEMMA UnlinkAnswer ==
    ASSUME AnswerInv, NEW w \in TimedGetters, Unlink(w)
    PROVE  AnswerInv'
  <1> USE DEF AnswerInv
  <1> DEFINE l == walk[w]
  <1>0. w \in Calls /\ w \notin Completers /\ w \notin Andthen /\ w \in Waiters
    BY CallsAssumption DEF Calls, Waiters, Threads
  <1>a. l \in Walks
    BY DEF TypeOK, Walks
  <1>b. l.next \in Pending \cup {NULL} /\ l.current \in Pending
    BY <1>0, <1>a, States DEF Walks, FoundSelf, Unlink
  <1>c. UNCHANGED <<oldState, unparked, expired>>
    BY DEF Unlink
  <1>d. /\ "returned" \in Labels /\ "unregister" \in Labels
    BY DEF Labels
  <1>1. CASE /\ l.prev = NULL
             /\ state = l.current
             /\ state' = IF l.next = NULL THEN VOIDOBJECT ELSE l.next
             /\ ThrowTimeout(w)
             /\ UNCHANGED next
    <2>1. state \in Pending /\ state' \in Pending
      BY <1>1, <1>b, States
    <2>2. /\ pc' \in [Waiters \cup Completers -> Labels]
          /\ \A u \in Calls : pc'[u] = IF u = w THEN "returned" ELSE pc[u]
      BY <1>1, <1>d DEF ThrowTimeout, Goto, TypeOK, Calls
    <2>3. TypeOK'
      BY <1>1, <1>c, <2>1, <2>2, ThrowTypes DEF TypeOK, Walks
    <2>4. Roles'
      BY <1>0, <2>2 DEF Roles, Calls, Waiters
    <2>5. FirstAnswerWins'
      BY <1>0, <2>1, <2>2, States DEF FirstAnswerWins, Calls
    <2>6. CallbacksAfterAnswer'
      BY <1>0, <2>1, <2>2, States DEF CallbacksAfterAnswer, Calls, Waiters
    <2>7. FoundSelf'
      BY <1>1, <2>2, ThrowTypes DEF FoundSelf, Calls, Waiters, Threads
    <2> QED BY <2>3, <2>4, <2>5, <2>6, <2>7
  <1>2. CASE Goto(w, "unregister") /\ UNCHANGED <<state, next, walk, outcome>>
    <2>1. /\ pc' \in [Waiters \cup Completers -> Labels]
          /\ Roles' /\ FirstAnswerWins' /\ CallbacksAfterAnswer'
      BY <1>0, <1>2, <1>d, MoveOne
    <2>2. TypeOK'
      BY <1>2, <1>c, <2>1 DEF TypeOK
    <2>3. \A u \in TimedGetters : pc'[u] = "unlink" => pc[u] = "unlink"
      BY <1>2 DEF Goto, TypeOK, Waiters, Threads
    <2>4. FoundSelf'
      BY <1>2, <2>3 DEF FoundSelf
    <2> QED BY <2>1, <2>2, <2>4
  <1>3. CASE /\ l.prev # NULL
             /\ next' = [next EXCEPT ![l.prev.of] = l.next]
             /\ ThrowTimeout(w)
             /\ UNCHANGED state
    <2>1. /\ pc' \in [Waiters \cup Completers -> Labels]
          /\ Roles' /\ FirstAnswerWins' /\ CallbacksAfterAnswer'
      BY <1>0, <1>3, <1>d, MoveOne DEF ThrowTimeout
    <2>2. next' \in [Waiters -> Pending \cup {NULL}]
      BY <1>3, <1>b DEF TypeOK
    <2>3. TypeOK'
      BY <1>3, <1>c, <2>1, <2>2, ThrowTypes DEF TypeOK, Walks
    <2>4. \A u \in TimedGetters : pc'[u] = "unlink" => u # w /\ pc[u] = "unlink"
      BY <1>3 DEF ThrowTimeout, Goto, TypeOK, Waiters, Threads
    <2>5. FoundSelf'
      BY <1>3, <2>4, ThrowTypes DEF FoundSelf
    <2> QED BY <2>1, <2>3, <2>5
  <1> QED BY <1>1, <1>2, <1>3 DEF Unlink

(* The callbacks keep the invariant.                                       *)
LEMMA CallbackAnswer ==
    ASSUME AnswerInv, NEW w \in Andthen, CallbackStep(w)
    PROVE  AnswerInv'
  <1> USE DEF AnswerInv
  <1>0. w \in Calls /\ w \notin Completers /\ w \notin Threads /\ w \in Waiters
    BY CallsAssumption DEF Calls, Waiters
  <1>1. isDone(state)
    BY DEF CallbackStep, Execute, RunCallback, CallbacksAfterAnswer
  <1>2. PICK l \in {"submitted", "returned"} : Goto(w, l)
    BY DEF CallbackStep, Execute, RunCallback, Return
  <1>3. UNCHANGED <<state, next, oldState, walk, unparked, expired>>
    BY DEF CallbackStep, Execute, RunCallback
  <1>4. /\ pc' \in [Waiters \cup Completers -> Labels]
        /\ Roles' /\ FirstAnswerWins' /\ CallbacksAfterAnswer'
    <2>1. l \in Labels
      BY DEF Labels
    <2> QED BY <1>0, <1>1, <1>2, <1>3, <2>1, MoveOne
  <1>5. outcome' \in [Waiters -> Answers \cup {FAILED, NULL}]
    BY <1>0, <1>1, States DEF CallbackStep, Execute, RunCallback, Return, TypeOK
  <1>6. TypeOK'
    BY <1>3, <1>4, <1>5 DEF TypeOK
  <1>7. FoundSelf'
    <2>1. \A u \in TimedGetters : pc'[u] = "unlink" => pc[u] = "unlink"
      BY <1>2 DEF Goto, TypeOK, Waiters, Threads
    <2> QED BY <1>3, <2>1 DEF FoundSelf
  <1> QED BY <1>4, <1>6, <1>7

(* complete and cancel keep the invariant.                                 *)
LEMMA ReadOldStateAnswer ==
    ASSUME AnswerInv, NEW c \in Completers, ReadOldState(c)
    PROVE  AnswerInv'
  <1> USE DEF AnswerInv
  <1>0. c \in Calls /\ c \notin Waiters /\ c \notin Threads /\ c \notin Andthen
    BY CallsAssumption DEF Calls, Waiters
  <1>1. PICK l \in {"ignored", "complete"} : Goto(c, l)
    BY DEF ReadOldState
  <1>2. /\ pc' \in [Waiters \cup Completers -> Labels]
        /\ Roles' /\ FirstAnswerWins' /\ CallbacksAfterAnswer'
    <2>1. l \in Labels
      BY DEF Labels
    <2> QED BY <1>0, <1>1, <2>1, MoveOne DEF ReadOldState
  <1>3. oldState' \in [Waiters \cup Completers -> Pending]
    BY States DEF ReadOldState, TypeOK
  <1>4. TypeOK'
    BY <1>2, <1>3 DEF ReadOldState, TypeOK
  <1>5. FoundSelf'
    <2>1. \A u \in TimedGetters : pc'[u] = "unlink" => pc[u] = "unlink"
      BY <1>1 DEF Goto, TypeOK, Waiters, Threads
    <2> QED BY <2>1 DEF ReadOldState, FoundSelf
  <1> QED BY <1>2, <1>4, <1>5

LEMMA CompleteAnswer ==
    ASSUME AnswerInv, NEW c \in Completers, Complete(c)
    PROVE  AnswerInv'
  <1> USE DEF AnswerInv
  <1>0. c \in Calls /\ c \notin Waiters /\ c \notin Threads /\ c \notin Andthen
    BY CallsAssumption DEF Calls, Waiters
  <1>1. CASE /\ state = oldState[c]
             /\ state' = Answer(c)
             /\ Goto(c, "unblock")
    <2>1. state \in Pending /\ state' \in Answers
      BY <1>1, States DEF TypeOK
    <2>2. /\ pc' \in [Waiters \cup Completers -> Labels]
          /\ \A u \in Calls : pc'[u] = IF u = c THEN "unblock" ELSE pc[u]
      BY <1>1 DEF Goto, TypeOK, Calls, Labels
    <2>3. TypeOK'
      BY <2>1, <2>2 DEF Complete, TypeOK
    <2>4. Roles'
      BY <1>0, <2>2 DEF Roles, Calls, Waiters
    <2>5. FirstAnswerWins'
      <3>1. \A d \in Completers : state # Answer(d)
        BY <2>1, States
      <3>2. \A d \in Completers : state' = Answer(d) <=> d = c
        BY <1>1, AnswersDiffer
      <3>3. \A d \in Completers : pc[d] \notin {"unblock", "completed"}
        BY <3>1 DEF FirstAnswerWins
      <3> QED BY <1>1, <2>2, <3>2, <3>3 DEF FirstAnswerWins, Calls
    <2>6. CallbacksAfterAnswer'
      BY <2>1, States DEF CallbacksAfterAnswer
    <2>7. FoundSelf'
      BY <1>0, <2>2 DEF Complete, FoundSelf, Calls, Waiters, Threads
    <2> QED BY <2>3, <2>4, <2>5, <2>6, <2>7
  <1>2. CASE Goto(c, "start") /\ UNCHANGED state
    <2>1. "start" \in Labels
      BY DEF Labels
    <2>2. /\ pc' \in [Waiters \cup Completers -> Labels]
          /\ Roles' /\ FirstAnswerWins' /\ CallbacksAfterAnswer'
      BY <1>0, <1>2, <2>1, MoveOne DEF Complete
    <2>3. TypeOK'
      BY <1>2, <2>2 DEF Complete, TypeOK
    <2>4. FoundSelf'
      <3>1. \A u \in TimedGetters : pc'[u] = "unlink" => pc[u] = "unlink"
        BY <1>2 DEF Goto, TypeOK, Waiters, Threads
      <3> QED BY <3>1 DEF Complete, FoundSelf
    <2> QED BY <2>2, <2>3, <2>4
  <1> QED BY <1>1, <1>2 DEF Complete

(* What unblockAll does to the calls.                                      *)
LEMMA UnblockMoves ==
    ASSUME AnswerInv, NEW c \in Completers, UnblockAll(c)
    PROVE  /\ isDone(state) /\ state = Answer(c)
           /\ Ref(oldState[c]) = UnblockedWaiter(oldState[c])
           /\ \A t \in Calls : pc'[t] = IF t = c THEN "completed"
                                        ELSE IF t \in Ref(oldState[c]) \cap Andthen THEN "unblock"
                                        ELSE pc[t]
           /\ pc' \in [Waiters \cup Completers -> Labels]
  <1>1. isDone(state) /\ state = Answer(c)
    BY States DEF UnblockAll, AnswerInv, FirstAnswerWins
  <1>2. Ref(oldState[c]) = UnblockedWaiter(oldState[c])
    BY Pointers DEF AnswerInv, TypeOK
  <1>3. DOMAIN pc = Calls
    BY DEF AnswerInv, TypeOK, Calls
  <1>4. \A t \in Calls : pc'[t] = IF t = c THEN "completed"
                                  ELSE IF t \in Ref(oldState[c]) \cap Andthen THEN "unblock"
                                  ELSE pc[t]
    <2> DEFINE R == Ref(oldState[c])
    <2> HIDE DEF R
    <2>1. R = UnblockedWaiter(oldState[c])
      BY <1>2 DEF R
    <2>2. c \notin R \cap Andthen
      BY CallsAssumption DEF Waiters
    <2>3. pc' = [t \in Calls |-> CASE t = c -> "completed"
                                   [] t \in R \cap Andthen -> "unblock"
                                   [] OTHER -> pc[t]]
      BY <1>3, <2>1 DEF UnblockAll
    <2>4. \A t \in Calls : pc'[t] = IF t = c THEN "completed"
                                    ELSE IF t \in R \cap Andthen THEN "unblock" ELSE pc[t]
      BY <2>2, <2>3
    <2> QED BY <2>4 DEF R
  <1>5. pc' \in [Waiters \cup Completers -> Labels]
    <2>1. pc' = [t \in Calls |-> pc'[t]]
      BY <1>3 DEF UnblockAll
    <2>2. \A t \in Calls : pc'[t] \in Labels
      BY <1>4 DEF AnswerInv, TypeOK, Labels, Calls
    <2> QED BY <2>1, <2>2 DEF Calls
  <1> QED BY <1>1, <1>2, <1>4, <1>5

LEMMA UnblockAllAnswer ==
    ASSUME AnswerInv, NEW c \in Completers, UnblockAll(c)
    PROVE  AnswerInv'
  <1> USE DEF AnswerInv
  <1>0. c \in Calls /\ c \notin Waiters /\ c \notin Threads /\ c \notin Andthen
    BY CallsAssumption DEF Calls, Waiters
  <1>1. \A t \in Calls : pc'[t] = IF t = c THEN "completed"
                                  ELSE IF t \in Ref(oldState[c]) \cap Andthen THEN "unblock"
                                  ELSE pc[t]
    BY UnblockMoves
  <1>2. TypeOK'
    BY UnblockMoves, States DEF UnblockAll, TypeOK
  <1>3. Roles'
    BY <1>0, <1>1, CallsAssumption DEF Roles, Calls, Waiters
  <1>4. FirstAnswerWins'
    <2>1. \A d \in Completers : pc'[d] = IF d = c THEN "completed" ELSE pc[d]
      BY <1>1, CallsAssumption DEF Calls, Waiters
    <2> QED BY <2>1 DEF FirstAnswerWins, UnblockAll
  <1>5. CallbacksAfterAnswer'
    BY UnblockMoves DEF UnblockAll, CallbacksAfterAnswer
  <1>6. FoundSelf'
    <2>1. \A u \in TimedGetters : pc'[u] = pc[u]
      BY <1>0, <1>1, CallsAssumption DEF Calls, Waiters, Threads
    <2> QED BY <2>1 DEF FoundSelf, UnblockAll
  <1> QED BY <1>2, <1>3, <1>4, <1>5, <1>6

LEMMA NextAnswer == AnswerInv /\ [Next]_vars => AnswerInv'
  <1> SUFFICES ASSUME AnswerInv, [Next]_vars PROVE AnswerInv'
    OBVIOUS
  <1>1. CASE UNCHANGED vars
    BY <1>1 DEF vars, AnswerInv, TypeOK, Roles, FirstAnswerWins, CallbacksAfterAnswer, FoundSelf
  <1>2. ASSUME NEW w \in Waiters, RegisterStep(w) PROVE AnswerInv'
    BY <1>2, ReadStateAnswer, RegisterAnswer DEF RegisterStep
  <1>3. ASSUME NEW w \in Threads, Wake(w) \/ WakeSpuriously(w) PROVE AnswerInv'
    BY <1>3, WakeAnswer
  <1>4. ASSUME NEW w \in TimedGetters, TimedStep(w) PROVE AnswerInv'
    BY <1>4, ExpireAnswer, UnregisterAnswer, WalkAnswer, UnlinkAnswer DEF TimedStep
  <1>5. ASSUME NEW w \in Andthen, CallbackStep(w) PROVE AnswerInv'
    BY <1>5, CallbackAnswer
  <1>6. ASSUME NEW c \in Completers, CompleteStep(c) PROVE AnswerInv'
    BY <1>6, ReadOldStateAnswer, CompleteAnswer, UnblockAllAnswer DEF CompleteStep
  <1> QED BY <1>1, <1>2, <1>3, <1>4, <1>5, <1>6 DEF Next

LEMMA AlwaysAnswer == Spec => []AnswerInv
  BY InitAnswer, NextAnswer, PTL DEF Spec

(* The word of the future, the next fields and what the calls have read    *)
(* are always of the types AbstractInvocationFuture gives them.            *)
THEOREM FutureTypes == Spec => []TypeOK
  <1>1. AnswerInv => TypeOK
    BY DEF AnswerInv
  <1> QED BY <1>1, AlwaysAnswer, PTL

(* "only the first answer will lead to the future getting triggered",      *)
(* whatever the number of complete and cancel calls that race.             *)
THEOREM FirstAnswerStays == Spec => []FirstAnswerWins
  <1>1. AnswerInv => FirstAnswerWins
    BY DEF AnswerInv
  <1> QED BY <1>1, AlwaysAnswer, PTL

-----------------------------------------------------------------------------
(* No waiter falls off the stack.  Give each waiter, when it registers, a  *)
(* rank above all ranks given so far, and 0 until then.  A next field      *)
(* leads to a lower rank, and although fields are overwritten by timed     *)
(* gets that act on what they read some time ago, no field ever leads past *)
(* a waiter that still waits.                                              *)

AllWaiting == {w \in Waiters : Waiting(w)}

(* Every waiter of W below rank hi is at or below where s leads.           *)
Covers(W, rank, hi, s) ==
    \A w \in W : rank[w] < hi => \E x \in Ref(s) : rank[w] <= rank[x]

(* Where s leads has registered, and no waiter of W is below a bare one.   *)
Placed(W, rank, s) ==
    /\ \A v \in Ref(s) : rank[v] > 0
    /\ \A v \in Waiters : s = Bare(v) => Covers(W, rank, rank[v], NULL)

(* s may be the next of w: it leads down, and past no waiter of W.         *)
Below(W, rank, w, s) ==
    /\ Placed(W, rank, s)
    /\ \A v \in Ref(s) : rank[v] < rank[w]
    /\ Covers(W, rank, rank[w], s)

RankOrder(n, rank) ==
    /\ \A w \in Waiters : rank[w] < n
    /\ \A v, w \in Waiters : rank[v] = rank[w] => v = w \/ rank[v] = 0
    /\ \A w \in Waiters : pc[w] \in {"start", "register"} => rank[w] = 0
    /\ \A w \in Waiters : Waiting(w) => rank[w] > 0

RankState(n, rank) ==
    /\ Placed(AllWaiting, rank, state)
    /\ Covers(AllWaiting, rank, n, state)

RankNext(rank) == \A w \in Waiters : Below(AllWaiting, rank, w, next[w])

(* A thread that walks the stack has passed no waiter between prev and     *)
(* current, nor between its own node and what it read in its next field.   *)
RankWalk(rank) ==
    \A w \in TimedGetters :
        /\ pc[w] \in {"walk", "unlink"} =>
              /\ Placed(AllWaiting, rank, walk[w].current)
              /\ \A p \in Ref(walk[w].prev) :
                    rank[p] > 0 /\ Below(AllWaiting, rank, p, walk[w].current)
        /\ pc[w] = "unlink" => Below(AllWaiting, rank, w, walk[w].next)

Ranked(n, rank) ==
    RankOrder(n, rank) /\ RankState(n, rank) /\ RankNext(rank) /\ RankWalk(rank)

Ordered == ~isDone(state) => \E n \in Nat, rank \in [Waiters -> Nat] : Ranked(n, rank)

LEMMA RefWaiters == \A s : Ref(s) \subseteq Waiters
  BY DEF Ref

LEMMA InitOrdered == Init => Ordered
  <1> SUFFICES ASSUME Init PROVE Ordered
    OBVIOUS
  <1> DEFINE zero == [w \in Waiters |-> 0]
  <1>1. \A w \in Waiters : ~Waiting(w) /\ next[w] = NULL /\ pc[w] = "start"
    BY DEF Init, Waiting
  <1>2. \A w \in TimedGetters : pc[w] = "start"
    BY DEF Init, Waiters, Threads
  <1>a. AllWaiting = {}
    BY <1>1 DEF AllWaiting
  <1>3. RankOrder(1, zero) /\ RankWalk(zero)
    BY <1>1, <1>2 DEF RankOrder, RankWalk
  <1>4. RankState(1, zero) /\ RankNext(zero)
    BY <1>1, <1>a, Pointers, States DEF RankState, RankNext, Below, Covers, Placed, Init
  <1>5. Ranked(1, zero)
    BY <1>3, <1>4 DEF Ranked
  <1>6. zero \in [Waiters -> Nat]
    OBVIOUS
  <1> QED BY <1>5, <1>6 DEF Ordered

(* Fewer waiters are covered all the more.                                 *)
LEMMA Fewer ==
    ASSUME NEW W, NEW V, V \subseteq W, NEW rank, NEW s
    PROVE  /\ \A hi : Covers(W, rank, hi, s) => Covers(V, rank, hi, s)
           /\ Placed(W, rank, s) => Placed(V, rank, s)
           /\ \A w : Below(W, rank, w, s) => Below(V, rank, w, s)
  BY DEF Covers, Placed, Below

(* A step keeps the ranks when it writes neither the stack nor a walk,     *)
(* makes nobody wait, and enters nobody into a walk.                       *)
LEMMA QuietStep ==
    ASSUME Ordered, UNCHANGED <<state, next>>,
           \A w \in Waiters : Waiting(w)' => Waiting(w),
           \A w \in Waiters : pc'[w] \in {"start", "register"} => pc[w] \in {"start", "register"},
           \A w \in TimedGetters : pc'[w] \in {"walk", "unlink"} =>
               pc'[w] = pc[w] /\ walk'[w] = walk[w]
    PROVE  Ordered'
  <1> SUFFICES ASSUME ~isDone(state')
               PROVE  \E n \in Nat, rank \in [Waiters -> Nat] : Ranked(n, rank)'
    BY DEF Ordered
  <1>1. PICK n \in Nat, rank \in [Waiters -> Nat] : Ranked(n, rank)
    BY DEF Ordered
  <1>2. AllWaiting' \subseteq AllWaiting
    BY DEF AllWaiting
  <1>3. RankOrder(n, rank)'
    BY <1>1 DEF Ranked, RankOrder
  <1>4. RankState(n, rank)'
    BY <1>1, <1>2, Fewer DEF Ranked, RankState
  <1>5. RankNext(rank)'
    BY <1>1, <1>2, Fewer DEF Ranked, RankNext
  <1>6. RankWalk(rank)'
    BY <1>1, <1>2, Fewer DEF Ranked, RankWalk
  <1> QED BY <1>3, <1>4, <1>5, <1>6 DEF Ranked

(* The steps that leave the stack alone.                                   *)
LEMMA QuietSteps ==
    ASSUME AnswerInv, Ordered,
           \/ \E w \in Waiters : ReadState(w)
           \/ \E w \in Threads : Wake(w) \/ WakeSpuriously(w)
           \/ \E w \in TimedGetters : Expire(w)
           \/ \E w \in Andthen : CallbackStep(w)
           \/ \E c \in Completers : ReadOldState(c)
    PROVE  Ordered'
  <1> USE DEF Waiting
  <1>0. pc \in [Waiters \cup Completers -> Labels] /\ TimedGetters \subseteq Waiters
    BY DEF AnswerInv, TypeOK, Waiters, Threads
  <1>1. ASSUME NEW w \in Waiters, ReadState(w) PROVE Ordered'
    <2>1. PICK l \in {"register", "returned", "unblock"} : Goto(w, l) /\ pc[w] = "start"
      BY <1>1 DEF ReadState, Return
    <2>2. \A u \in Waiters : pc'[u] = IF u = w THEN l ELSE pc[u]
      BY <1>0, <2>1 DEF Goto
    <2> QED BY <1>0, <1>1, <2>1, <2>2, QuietStep DEF ReadState
  <1>2. ASSUME NEW w \in Threads, Wake(w) \/ WakeSpuriously(w) PROVE Ordered'
    <2>1. PICK l \in {"returned", "parked", "unregister"} : Goto(w, l) /\ pc[w] = "parked"
      BY <1>2, RegisteredLabel DEF Wake, WakeSpuriously, Return, AnswerInv, Waiters
    <2>2. \A u \in Waiters : pc'[u] = IF u = w THEN l ELSE pc[u]
      BY <1>0, <2>1 DEF Goto
    <2>3. UNCHANGED <<state, next, walk>>
      BY <1>2 DEF Wake, WakeSpuriously
    <2> QED BY <1>0, <2>1, <2>2, <2>3, QuietStep
  <1>3. ASSUME NEW w \in TimedGetters, Expire(w) PROVE Ordered'
    BY <1>3, QuietStep DEF Expire
  <1>4. ASSUME NEW w \in Andthen, CallbackStep(w) PROVE Ordered'
    <2>1. PICK l \in {"submitted", "returned"} : Goto(w, l)
      BY <1>4 DEF CallbackStep, Execute, RunCallback, Return
    <2>2. \A u \in Waiters : pc'[u] = IF u = w THEN l ELSE pc[u]
      BY <1>0, <2>1 DEF Goto
    <2>3. UNCHANGED <<state, next, walk>>
      BY <1>4 DEF CallbackStep, Execute, RunCallback
    <2> QED BY <1>0, <2>1, <2>2, <2>3, QuietStep
  <1>5. ASSUME NEW c \in Completers, ReadOldState(c) PROVE Ordered'
    <2>1. \A u \in Waiters : pc'[u] = pc[u]
      BY <1>0, <1>5, CallsAssumption DEF ReadOldState, Goto
    <2> QED BY <1>0, <1>5, <2>1, QuietStep DEF ReadOldState
  <1> QED BY <1>1, <1>2, <1>3, <1>4, <1>5

(* An answer ends the waiting on the stack.                                *)
LEMMA CompleteOrdered ==
    ASSUME AnswerInv, Ordered, NEW c \in Completers, Complete(c) \/ UnblockAll(c)
    PROVE  Ordered'
  <1>0. pc \in [Waiters \cup Completers -> Labels] /\ TimedGetters \subseteq Waiters
    BY DEF AnswerInv, TypeOK, Waiters, Threads
  <1>1. CASE Complete(c) /\ state' = Answer(c)
    BY <1>1, States DEF Ordered
  <1>2. CASE Complete(c) /\ UNCHANGED state /\ Goto(c, "start")
    <2>1. \A u \in Waiters : pc'[u] = pc[u]
      BY <1>0, <1>2, CallsAssumption DEF Goto
    <2> QED BY <1>0, <1>2, <2>1, QuietStep DEF Complete, Waiting
  <1>3. CASE UnblockAll(c)
    BY <1>3, UnblockMoves DEF UnblockAll, Ordered
  <1> QED BY <1>1, <1>2, <1>3 DEF Complete

(* The ranks when w registers: it goes on top, and who was covered by a    *)
(* pointer into the stack still is.                                        *)
LEMMA OnTop ==
    ASSUME NEW w \in Waiters, NEW n \in Nat, NEW rank \in [Waiters -> Nat],
           rank[w] = 0, \A u \in Waiters : rank[u] < n,
           NEW rk \in [Waiters -> Nat],
           \A u \in Waiters : rk[u] = IF u = w THEN n ELSE rank[u],
           NEW W \in SUBSET Waiters, NEW V \in SUBSET Waiters, V \subseteq W \cup {w},
           NEW s, Placed(W, rank, s)
    PROVE  /\ w \notin Ref(s)
           /\ Placed(V, rk, s)
           /\ \A hi \in Nat : hi <= n /\ Covers(W, rank, hi, s) => Covers(V, rk, hi, s)
           /\ \A v \in Waiters : v # w /\ Below(W, rank, v, s) => Below(V, rk, v, s)
  <1>1. ASSUME NEW z, NEW hi \in Nat, hi <= n, w \notin Ref(z), Covers(W, rank, hi, z)
        PROVE  Covers(V, rk, hi, z)
    <2> SUFFICES ASSUME NEW u \in V, rk[u] < hi
                 PROVE  \E x \in Ref(z) : rk[u] <= rk[x]
      BY DEF Covers
    <2>1. u # w /\ u \in W /\ rank[u] < hi
      BY <1>1
    <2>2. PICK x \in Ref(z) : rank[u] <= rank[x]
      BY <1>1, <2>1 DEF Covers
    <2> QED BY <1>1, <2>1, <2>2, RefWaiters
  <1>2. w \notin Ref(s)
    BY DEF Placed
  <1>3. \A v \in Ref(s) : v \in Waiters /\ v # w /\ rk[v] = rank[v]
    BY <1>2, RefWaiters
  <1>4. Placed(V, rk, s)
    <2>1. \A v \in Ref(s) : rk[v] > 0
      BY <1>3 DEF Placed
    <2>2. ASSUME NEW v \in Waiters, s = Bare(v) PROVE Covers(V, rk, rk[v], NULL)
      <3>1. v \in Ref(s)
        BY <2>2, Pointers
      <3>2. /\ Covers(W, rank, rank[v], NULL)
            /\ rk[v] = rank[v] /\ rank[v] \in Nat /\ rank[v] <= n
        BY <1>3, <2>2, <3>1 DEF Placed
      <3> QED BY <1>1, <3>2, Pointers
    <2> QED BY <2>1, <2>2 DEF Placed
  <1>5. \A hi \in Nat : hi <= n /\ Covers(W, rank, hi, s) => Covers(V, rk, hi, s)
    BY <1>1, <1>2
  <1>6. ASSUME NEW v \in Waiters, v # w, Below(W, rank, v, s) PROVE Below(V, rk, v, s)
    <2>1. rk[v] = rank[v] /\ rank[v] \in Nat /\ rank[v] <= n
      BY <1>6
    <2>2. Covers(V, rk, rk[v], s)
      BY <1>5, <1>6, <2>1 DEF Below
    <2>3. \A x \in Ref(s) : rk[x] < rk[v]
      BY <1>3, <1>6, <2>1 DEF Below
    <2> QED BY <1>4, <2>2, <2>3 DEF Below
  <1> QED BY <1>2, <1>4, <1>5, <1>6

(* A waiter that registers goes on top of all the others.                  *)
LEMMA RegisterOrdered ==
    ASSUME AnswerInv, Ordered, NEW w \in Waiters, Register(w)
    PROVE  Ordered'
  <1>0. pc \in [Waiters \cup Completers -> Labels] /\ TimedGetters \subseteq Waiters
    BY DEF AnswerInv, TypeOK, Waiters, Threads
  <1>1. CASE Goto(w, "start") /\ UNCHANGED <<state, next>>
    <2>1. \A u \in Waiters : pc'[u] = IF u = w THEN "start" ELSE pc[u]
      BY <1>0, <1>1 DEF Goto
    <2> QED BY <1>0, <1>1, <2>1, QuietStep DEF Register, Waiting
  <1>2. CASE /\ state = oldState[w]
             /\ state' = NewState(w)
             /\ next' = [next EXCEPT ![w] =
                           IF NewState(w) = WaitNode(w) THEN oldState[w] ELSE NULL]
             /\ Goto(w, Registered(w))
    <2>1. state \in Pending /\ ~isDone(state)
      BY <1>2, States DEF AnswerInv, TypeOK
    <2>2. PICK n \in Nat, rank \in [Waiters -> Nat] : Ranked(n, rank)
      BY <2>1 DEF Ordered
    <2> DEFINE rk == [rank EXCEPT ![w] = n]
    <2>3. rk \in [Waiters -> Nat]
      OBVIOUS
    <2>4. \A u \in Waiters : rk[u] = IF u = w THEN n ELSE rank[u]
      OBVIOUS
    <2> HIDE DEF rk
    <2>5. rank[w] = 0 /\ n > 0 /\ \A u \in Waiters : rank[u] < n
      BY <2>2 DEF Register, Ranked, RankOrder
    <2>6. \A u \in Waiters \ {w} : pc'[u] = pc[u]
      BY <1>0, <1>2 DEF Goto
    <2>7. pc'[w] \in {"registered", "parked", "unregister"}
      BY <1>0, <1>2, RegisteredLabel DEF Goto, AnswerInv, Waiters
    <2>8. \A u \in Waiters \ {w} : Waiting(u)' <=> Waiting(u)
      BY <2>6 DEF Waiting
    <2>9. AllWaiting' \subseteq AllWaiting \cup {w}
      BY <2>8 DEF AllWaiting
    <2> DEFINE W == AllWaiting
               V == AllWaiting'
    <2>a. W \in SUBSET Waiters /\ V \in SUBSET Waiters /\ V \subseteq W \cup {w}
      BY <2>9 DEF AllWaiting
    <2> HIDE DEF W, V
    <2>10. ASSUME NEW s, Placed(W, rank, s)
           PROVE  /\ w \notin Ref(s)
                  /\ Placed(V, rk, s)
                  /\ \A hi \in Nat : hi <= n /\ Covers(W, rank, hi, s) => Covers(V, rk, hi, s)
                  /\ \A v \in Waiters : v # w /\ Below(W, rank, v, s) => Below(V, rk, v, s)
      BY <2>3, <2>4, <2>5, <2>10, <2>a, OnTop
    <2>11. Placed(W, rank, state) /\ Covers(W, rank, n, state)
      BY <2>2 DEF Ranked, RankState, W
    <2>b. w \notin Ref(state) /\ Placed(V, rk, state) /\ Covers(V, rk, n, state)
      BY <2>10, <2>11
    <2>12. /\ Ref(next'[w]) = Ref(state)
           /\ Placed(V, rk, next'[w])
           /\ Ref(state') = {w}
           /\ state' = Bare(w) => Ref(state) = {}
      <3>1. next'[w] = IF NewState(w) = WaitNode(w) THEN state ELSE NULL
        BY <1>2 DEF AnswerInv, TypeOK
      <3>2. CASE NewState(w) = WaitNode(w)
        BY <1>2, <2>b, <3>1, <3>2, Pointers
      <3>3. CASE NewState(w) = Bare(w) /\ state = VOIDOBJECT
        <4>1. next'[w] = NULL
          BY <3>1, <3>3, Pointers
        <4>2. Placed(V, rk, NULL)
          BY Pointers, States DEF Placed
        <4> QED BY <1>2, <3>3, <4>1, <4>2, Pointers
      <3> QED BY <1>2, <3>2, <3>3 DEF NewState
    <2>13. RankOrder(n + 1, rk)'
      <3>1. \A u \in Waiters : rk[u] < n + 1
        BY <2>4, <2>5
      <3>2. \A u, v \in Waiters : rk[u] = rk[v] => u = v \/ rk[u] = 0
        <4>1. \A u, v \in Waiters : rank[u] = rank[v] => u = v \/ rank[u] = 0
          BY <2>2 DEF Ranked, RankOrder
        <4>2. \A u \in Waiters : rank[u] # n
          BY <2>5
        <4> QED BY <2>4, <4>1, <4>2
      <3>3. \A u \in Waiters : pc'[u] \in {"start", "register"} => rk[u] = 0
        BY <2>2, <2>4, <2>6, <2>7 DEF Ranked, RankOrder
      <3>4. \A u \in Waiters : Waiting(u)' => rk[u] > 0
        BY <2>2, <2>4, <2>5, <2>8 DEF Ranked, RankOrder
      <3> QED BY <3>1, <3>2, <3>3, <3>4 DEF RankOrder
    <2>14. RankState(n + 1, rk)'
      <3>1. Covers(V, rk, n + 1, state')
        BY <2>3, <2>4, <2>5, <2>12, <2>a DEF Covers
      <3>2. Placed(V, rk, state')
        <4>1. \A v \in Ref(state') : rk[v] > 0
          BY <2>4, <2>5, <2>12
        <4>2. ASSUME NEW v \in Waiters, state' = Bare(v) PROVE Covers(V, rk, rk[v], NULL)
          <5>1. v = w /\ Ref(state) = {} /\ rk[v] = n
            BY <2>4, <2>12, <4>2, Pointers
          <5> QED BY <2>b, <5>1, Pointers DEF Covers
        <4> QED BY <4>1, <4>2 DEF Placed
      <3> QED BY <3>1, <3>2 DEF RankState, V
    <2>15. RankNext(rk)'
      <3>1. ASSUME NEW v \in Waiters PROVE Below(V, rk, v, next'[v])
        <4>1. CASE v = w
          <5>1. \A x \in Ref(next'[w]) : rk[x] < rk[w]
            BY <2>4, <2>5, <2>b, <2>12, RefWaiters
          <5>2. Covers(V, rk, rk[w], next'[w])
            BY <2>4, <2>b, <2>12 DEF Covers
          <5> QED BY <2>12, <4>1, <5>1, <5>2 DEF Below
        <4>2. CASE v # w
          <5>1. next'[v] = next[v]
            BY <1>2, <4>2 DEF AnswerInv, TypeOK
          <5>2. Below(W, rank, v, next[v])
            BY <2>2 DEF Ranked, RankNext, W
          <5>3. Placed(W, rank, next[v])
            BY <5>2 DEF Below
          <5> QED BY <2>10, <4>2, <5>1, <5>2, <5>3
        <4> QED BY <4>1, <4>2
      <3> QED BY <3>1 DEF RankNext, V
    <2>16. RankWalk(rk)'
      <3>1. ASSUME NEW v \in TimedGetters, pc'[v] \in {"walk", "unlink"}
            PROVE  /\ Placed(V, rk, walk[v].current)
                   /\ \A p \in Ref(walk[v].prev) :
                         rk[p] > 0 /\ Below(V, rk, p, walk[v].current)
                   /\ pc'[v] = "unlink" => Below(V, rk, v, walk[v].next)
        <4>1. v \in Waiters /\ v # w /\ pc'[v] = pc[v]
          BY <1>0, <2>6, <2>7, <3>1
        <4>2. /\ Placed(W, rank, walk[v].current)
              /\ \A p \in Ref(walk[v].prev) :
                    rank[p] > 0 /\ Below(W, rank, p, walk[v].current)
              /\ pc[v] = "unlink" => Below(W, rank, v, walk[v].next)
          BY <2>2, <3>1, <4>1 DEF Ranked, RankWalk, W
        <4>3. \A p \in Ref(walk[v].prev) : p \in Waiters /\ p # w /\ rk[p] = rank[p]
          <5>1. \A p \in Ref(walk[v].prev) : p \in Waiters /\ rank[p] > 0
            BY <4>2, RefWaiters
          <5>2. \A p \in Ref(walk[v].prev) : p # w
            BY <2>5, <5>1
          <5> QED BY <2>4, <5>1, <5>2
        <4>4. \A p \in Ref(walk[v].prev) : Below(V, rk, p, walk[v].current)
          BY <2>10, <4>2, <4>3
        <4>5. pc[v] = "unlink" => Below(V, rk, v, walk[v].next)
          BY <2>10, <4>1, <4>2 DEF Below
        <4>6. Placed(V, rk, walk[v].current)
          BY <2>10, <4>2
        <4> QED BY <4>1, <4>2, <4>3, <4>4, <4>5, <4>6
      <3>2. walk' = walk
        BY DEF Register
      <3> QED BY <3>1, <3>2 DEF RankWalk, V
    <2>17. Ranked(n + 1, rk)'
      BY <2>13, <2>14, <2>15, <2>16 DEF Ranked
    <2> QED BY <2>3, <2>17 DEF Ordered
  <1> QED BY <1>1, <1>2 DEF Register

(* A walk that begins, goes on or ends: nothing but its own locals moves.  *)
LEMMA WalkStep ==
    ASSUME AnswerInv, Ordered, NEW w \in TimedGetters, UNCHANGED <<state, next>>,
           pc[w] \in {"unregister", "walk"},
           \A u \in Waiters \ {w} : pc'[u] = pc[u],
           pc'[w] \in {"walk", "unlink", "returned"},
           \A u \in TimedGetters \ {w} : walk'[u] = walk[u],
           \A n \in Nat, rank \in [Waiters -> Nat] :
               Ranked(n, rank) =>
                   /\ pc'[w] \in {"walk", "unlink"} =>
                         /\ Placed(AllWaiting, rank, walk'[w].current)
                         /\ \A p \in Ref(walk'[w].prev) :
                               rank[p] > 0 /\ Below(AllWaiting, rank, p, walk'[w].current)
                   /\ pc'[w] = "unlink" => Below(AllWaiting, rank, w, walk'[w].next)
    PROVE  Ordered'
  <1> SUFFICES ASSUME ~isDone(state')
               PROVE  \E n \in Nat, rank \in [Waiters -> Nat] : Ranked(n, rank)'
    BY DEF Ordered
  <1>0. w \in Waiters /\ TimedGetters \subseteq Waiters
    BY DEF Waiters, Threads
  <1>1. PICK n \in Nat, rank \in [Waiters -> Nat] : Ranked(n, rank)
    BY DEF Ordered
  <1>2. AllWaiting' = AllWaiting
    BY <1>0 DEF AllWaiting, Waiting
  <1>3. RankOrder(n, rank)'
    BY <1>0, <1>1 DEF Ranked, RankOrder, Waiting
  <1>4. RankState(n, rank)' /\ RankNext(rank)'
    BY <1>1, <1>2 DEF Ranked, RankState, RankNext
  <1>5. RankWalk(rank)'
    <2>1. ASSUME NEW u \in TimedGetters
          PROVE  /\ pc'[u] \in {"walk", "unlink"} =>
                       /\ Placed(AllWaiting, rank, walk'[u].current)
                       /\ \A p \in Ref(walk'[u].prev) :
                             rank[p] > 0 /\ Below(AllWaiting, rank, p, walk'[u].current)
                 /\ pc'[u] = "unlink" => Below(AllWaiting, rank, u, walk'[u].next)
      <3>1. CASE u = w
        BY <1>1, <3>1
      <3>2. CASE u # w
        <4>1. pc'[u] = pc[u] /\ walk'[u] = walk[u]
          BY <1>0, <3>2
        <4> QED BY <1>1, <4>1 DEF Ranked, RankWalk
      <3> QED BY <3>1, <3>2
    <2> QED BY <1>2, <2>1 DEF RankWalk
  <1> QED BY <1>3, <1>4, <1>5 DEF Ranked

LEMMA WalkOrdered ==
    ASSUME AnswerInv, Ordered, NEW w \in TimedGetters, Unregister(w) \/ Walk(w)
    PROVE  Ordered'
  <1> DEFINE current == walk[w].current
  <1>0. w \in Waiters /\ TimedGetters \subseteq Waiters
    BY DEF Waiters, Threads
  <1>a. pc \in [Waiters \cup Completers -> Labels] /\ walk \in [TimedGetters -> Walks]
    BY DEF AnswerInv, TypeOK, Walks
  <1>b. walk[w] \in Walks /\ current \in Pending \cup Answers \cup {NULL}
    BY <1>a DEF Walks
  <1>c. UNCHANGED <<state, next>> /\ pc[w] \in {"unregister", "walk"}
    BY DEF Unregister, Walk
  <1>1. CASE Unregister(w)
    <2>1. /\ \A u \in Waiters : pc'[u] = IF u = w THEN "walk" ELSE pc[u]
          /\ \A u \in TimedGetters \ {w} : walk'[u] = walk[u]
          /\ walk'[w].current = state /\ walk'[w].prev = NULL
      BY <1>0, <1>1, <1>a DEF Unregister, Goto, NoWalk
    <2>2. ASSUME NEW n \in Nat, NEW rank \in [Waiters -> Nat], Ranked(n, rank)
          PROVE  /\ Placed(AllWaiting, rank, walk'[w].current)
                 /\ Ref(walk'[w].prev) = {}
      BY <2>1, <2>2, Pointers DEF Ranked, RankState
    <2> QED BY <1>0, <1>c, <2>1, <2>2, WalkStep
  <1>2. CASE Walk(w) /\ ThrowTimeout(w)
    <2>1. /\ \A u \in Waiters : pc'[u] = IF u = w THEN "returned" ELSE pc[u]
          /\ \A u \in TimedGetters \ {w} : walk'[u] = walk[u]
      BY <1>0, <1>2, <1>a DEF ThrowTimeout, Goto
    <2> QED BY <1>0, <1>c, <2>1, WalkStep
  <1>3. CASE /\ pc[w] = "walk"
             /\ current \in {Bare(w), WaitNode(w)}
             /\ walk' = [walk EXCEPT ![w].next = NextOf(current)]
             /\ Goto(w, "unlink")
    <2>1. /\ \A u \in Waiters : pc'[u] = IF u = w THEN "unlink" ELSE pc[u]
          /\ \A u \in TimedGetters \ {w} : walk'[u] = walk[u]
      BY <1>0, <1>3, <1>a DEF Goto
    <2>2. /\ walk'[w].current = current
          /\ walk'[w].prev = walk[w].prev
          /\ walk'[w].next = NextOf(current)
      BY <1>3, <1>a DEF Walks
    <2>3. ASSUME NEW n \in Nat, NEW rank \in [Waiters -> Nat], Ranked(n, rank)
          PROVE  /\ Placed(AllWaiting, rank, walk'[w].current)
                 /\ \A p \in Ref(walk'[w].prev) :
                       rank[p] > 0 /\ Below(AllWaiting, rank, p, walk'[w].current)
                 /\ Below(AllWaiting, rank, w, walk'[w].next)
      <3>1. /\ Placed(AllWaiting, rank, current)
            /\ \A p \in Ref(walk[w].prev) :
                  rank[p] > 0 /\ Below(AllWaiting, rank, p, current)
        BY <1>3, <2>3 DEF Ranked, RankWalk
      <3>2. Below(AllWaiting, rank, w, NextOf(current))
        <4>1. CASE current = WaitNode(w)
          <5>1. NextOf(current) = next[w]
            BY <1>0, <4>1, Pointers
          <5>2. Below(AllWaiting, rank, w, next[w])
            BY <1>0, <2>3 DEF Ranked, RankNext
          <5> QED BY <5>1, <5>2
        <4>2. CASE current = Bare(w)
          <5>1. Covers(AllWaiting, rank, rank[w], NULL)
            BY <1>0, <3>1, <4>2 DEF Placed
          <5>2. Placed(AllWaiting, rank, NULL)
            BY Pointers, States DEF Placed
          <5> QED BY <1>0, <4>2, <5>1, <5>2, Pointers DEF Below
        <4> QED BY <1>3, <4>1, <4>2
      <3> QED BY <2>2, <3>1, <3>2
    <2> QED BY <1>0, <1>c, <2>1, <2>3, WalkStep
  <1>4. CASE /\ pc[w] = "walk"
             /\ current \notin {NULL, Bare(w), WaitNode(w)}
             /\ walk' = [walk EXCEPT
                   ![w].prev = IF current.type = "WaitNode" THEN current ELSE NULL,
                   ![w].current = NextOf(current)]
             /\ UNCHANGED pc
    <2>1. /\ \A u \in Waiters : pc'[u] = pc[u]
          /\ \A u \in TimedGetters \ {w} : walk'[u] = walk[u]
      BY <1>0, <1>4, <1>a
    <2>2. /\ walk'[w].current = NextOf(current)
          /\ walk'[w].prev = IF current.type = "WaitNode" THEN current ELSE NULL
      <3> DEFINE p == IF current.type = "WaitNode" THEN current ELSE NULL
                 n == NextOf(current)
      <3>1. walk' = [walk EXCEPT ![w].prev = p, ![w].current = n]
        BY <1>4
      <3> HIDE DEF p, n
      <3>2. walk'[w].current = n /\ walk'[w].prev = p
        BY <1>a, <3>1 DEF Walks
      <3> QED BY <3>2 DEF p, n
    <2>3. ASSUME NEW n \in Nat, NEW rank \in [Waiters -> Nat], Ranked(n, rank)
          PROVE  /\ Placed(AllWaiting, rank, walk'[w].current)
                 /\ \A p \in Ref(walk'[w].prev) :
                       rank[p] > 0 /\ Below(AllWaiting, rank, p, walk'[w].current)
      <3>1. Placed(AllWaiting, rank, current)
        BY <1>4, <2>3 DEF Ranked, RankWalk
      <3>2. CASE \E v \in Waiters : current = WaitNode(v)
        <4>1. PICK v \in Waiters : current = WaitNode(v)
          BY <3>2
        <4>2. walk'[w].current = next[v] /\ Ref(walk'[w].prev) = {v}
          BY <2>2, <4>1, Pointers
        <4>3. Below(AllWaiting, rank, v, next[v])
          BY <2>3 DEF Ranked, RankNext
        <4>4. rank[v] > 0
          BY <3>1, <4>1, Pointers DEF Placed
        <4> QED BY <4>2, <4>3, <4>4 DEF Below
      <3>3. CASE ~ \E v \in Waiters : current = WaitNode(v)
        <4>1. NextOf(current) = NULL /\ current.type # "WaitNode"
          BY <1>4, <1>b, <3>3, Pointers DEF Pending
        <4>2. walk'[w].current = NULL /\ walk'[w].prev = NULL
          BY <2>2, <4>1
        <4> QED BY <4>2, Pointers, States DEF Placed
      <3> QED BY <3>2, <3>3
    <2>4. pc'[w] = "walk"
      BY <1>0, <1>4, <2>1
    <2> QED BY <1>0, <1>c, <2>1, <2>3, <2>4, WalkStep
  <1> QED BY <1>1, <1>2, <1>3, <1>4 DEF Walk

(* A timed get that takes itself out leaves the others where they are,     *)
(* however long ago it read what it stores.                                *)
LEMMA UnlinkOrdered ==
    ASSUME AnswerInv, Ordered, NEW w \in TimedGetters, Unlink(w)
    PROVE  Ordered'
  <1> DEFINE l == walk[w]
  <1>0. w \in Waiters /\ TimedGetters \subseteq Waiters
    BY DEF Waiters, Threads
  <1>a. /\ pc \in [Waiters \cup Completers -> Labels]
        /\ walk \in [TimedGetters -> Walks]
        /\ next \in [Waiters -> Pending \cup {NULL}]
    BY DEF AnswerInv, TypeOK, Walks
  <1>b. /\ l.prev \in {WaitNode(v) : v \in Waiters} \cup {NULL}
        /\ l.next \in Pending \cup {NULL}
        /\ l.current \in {Bare(w), WaitNode(w)}
        /\ pc[w] = "unlink"
    BY <1>a DEF Walks, AnswerInv, FoundSelf, Unlink
  <1>c. Ref(l.current) = {w} /\ l.current \in Pending
    <2>1. Ref(Bare(w)) = {w} /\ Ref(WaitNode(w)) = {w}
      BY <1>0, Pointers
    <2>2. Bare(w) \in Pending /\ WaitNode(w) \in Pending
      BY <1>0, States
    <2> QED BY <1>b, <2>1, <2>2
  <1>1. CASE Goto(w, "unregister") /\ UNCHANGED <<state, next, walk>>
    <2>1. \A u \in Waiters : pc'[u] = IF u = w THEN "unregister" ELSE pc[u]
      BY <1>1, <1>a DEF Goto
    <2> QED BY <1>0, <1>1, <1>b, <2>1, QuietStep DEF Waiting
  <1>2. CASE ThrowTimeout(w)
    <2> SUFFICES ASSUME ~isDone(state')
                 PROVE  \E n \in Nat, rank \in [Waiters -> Nat] : Ranked(n, rank)'
      BY DEF Ordered
    <2>1. /\ \A u \in Waiters : pc'[u] = IF u = w THEN "returned" ELSE pc[u]
          /\ \A u \in TimedGetters \ {w} : walk'[u] = walk[u]
      BY <1>0, <1>2, <1>a DEF ThrowTimeout, Goto
    <2>2. \/ /\ state = l.current /\ UNCHANGED next
             /\ state' = IF l.next = NULL THEN VOIDOBJECT ELSE l.next
          \/ /\ l.prev # NULL /\ UNCHANGED state
             /\ next' = [next EXCEPT ![l.prev.of] = l.next]
      BY <1>0, <1>2, <1>a, <2>1 DEF Unlink, Goto
    <2>3. ~isDone(state)
      BY <1>c, <2>2, States
    <2>4. PICK n \in Nat, rank \in [Waiters -> Nat] : Ranked(n, rank)
      BY <2>3 DEF Ordered
    <2> DEFINE W == AllWaiting
               V == AllWaiting'
    <2>5. V \subseteq W /\ w \notin V /\ W \subseteq Waiters
      BY <2>1 DEF AllWaiting, Waiting
    <2>6. \A u \in W : rank[u] > 0
      BY <2>4 DEF Ranked, RankOrder, AllWaiting
    <2> HIDE DEF W, V
    <2>7. Below(W, rank, w, l.next)
      BY <1>b, <2>4 DEF Ranked, RankWalk, W
    (* What w covered, its next field covers now.                          *)
    <2>8. ASSUME NEW hi \in Nat, Covers(W, rank, hi, l.current) PROVE Covers(V, rank, hi, l.next)
      <3> SUFFICES ASSUME NEW u \in V, rank[u] < hi
                   PROVE  \E x \in Ref(l.next) : rank[u] <= rank[x]
        BY DEF Covers
      <3>1. u \in W /\ u \in Waiters /\ u # w /\ rank[u] > 0
        BY <2>5, <2>6
      <3>2. rank[u] <= rank[w]
        BY <1>c, <2>8, <3>1 DEF Covers
      <3>3. rank[u] # rank[w]
        BY <1>0, <2>4, <3>1 DEF Ranked, RankOrder
      <3>4. rank[u] < rank[w]
        BY <1>0, <3>1, <3>2, <3>3
      <3> QED BY <2>7, <3>1, <3>4 DEF Below, Covers
    <2>9. RankOrder(n, rank)'
      BY <2>1, <2>4 DEF Ranked, RankOrder, Waiting
    <2>10. RankWalk(rank)'
      <3>1. ASSUME NEW u \in TimedGetters, pc'[u] \in {"walk", "unlink"}
            PROVE  /\ Placed(V, rank, walk'[u].current)
                   /\ \A p \in Ref(walk'[u].prev) :
                         rank[p] > 0 /\ Below(V, rank, p, walk'[u].current)
                   /\ pc'[u] = "unlink" => Below(V, rank, u, walk'[u].next)
        <4>1. u # w /\ pc'[u] = pc[u] /\ walk'[u] = walk[u]
          BY <1>0, <2>1, <3>1
        <4>2. /\ Placed(W, rank, walk[u].current)
              /\ \A p \in Ref(walk[u].prev) :
                    rank[p] > 0 /\ Below(W, rank, p, walk[u].current)
              /\ pc[u] = "unlink" => Below(W, rank, u, walk[u].next)
          BY <2>4, <3>1, <4>1 DEF Ranked, RankWalk, W
        <4> QED BY <2>5, <4>1, <4>2, Fewer
      <3> QED BY <3>1 DEF RankWalk, V
    <2>11. CASE /\ state = l.current /\ UNCHANGED next
                /\ state' = IF l.next = NULL THEN VOIDOBJECT ELSE l.next
      <3>1. Ref(state') = Ref(l.next)
        BY <2>11, Pointers
      <3>2. Placed(V, rank, state')
        <4>1. Placed(V, rank, l.next)
          BY <2>5, <2>7, Fewer DEF Below
        <4>2. Placed(V, rank, VOIDOBJECT)
          BY Pointers DEF Placed
        <4> QED BY <2>11, <4>1, <4>2
      <3>3. Covers(V, rank, n, state')
        <4>1. Covers(W, rank, n, l.current)
          BY <2>4, <2>11 DEF Ranked, RankState, W
        <4> QED BY <2>8, <3>1, <4>1 DEF Covers
      <3>4. RankState(n, rank)'
        BY <3>2, <3>3 DEF RankState, V
      <3>5. RankNext(rank)'
        <4>1. \A u \in Waiters : Below(V, rank, u, next[u])
          BY <2>4, <2>5, Fewer DEF Ranked, RankNext, W
        <4> QED BY <2>11, <4>1 DEF RankNext, V
      <3> QED BY <2>9, <2>10, <3>4, <3>5 DEF Ranked
    <2>12. CASE /\ l.prev # NULL /\ UNCHANGED state
                /\ next' = [next EXCEPT ![l.prev.of] = l.next]
      <3>1. PICK p \in Waiters : l.prev = WaitNode(p)
        BY <1>b, <2>12
      <3>2. Ref(l.prev) = {p} /\ l.prev.of = p
        BY <3>1, Pointers
      <3>3. \A u \in Waiters : next'[u] = IF u = p THEN l.next ELSE next[u]
        BY <1>a, <2>12, <3>2
      <3>4. Below(W, rank, p, l.current)
        BY <1>b, <2>4, <3>2 DEF Ranked, RankWalk, W
      <3>5. Below(V, rank, p, l.next)
        <4>1. Placed(V, rank, l.next)
          BY <2>5, <2>7, Fewer DEF Below
        <4>2. rank[w] < rank[p]
          BY <1>c, <3>4 DEF Below
        <4>3. \A x \in Ref(l.next) : rank[x] < rank[p]
          BY <1>0, <2>7, <4>2, RefWaiters DEF Below
        <4>4. Covers(V, rank, rank[p], l.next)
          BY <2>8, <3>4 DEF Below
        <4> QED BY <4>1, <4>3, <4>4 DEF Below
      <3>6. RankNext(rank)'
        <4>1. \A u \in Waiters : Below(V, rank, u, next[u])
          BY <2>4, <2>5, Fewer DEF Ranked, RankNext, W
        <4> QED BY <3>3, <3>5, <4>1 DEF RankNext, V
      <3>7. RankState(n, rank)'
        <4>1. Placed(V, rank, state) /\ Covers(V, rank, n, state)
          BY <2>4, <2>5, Fewer DEF Ranked, RankState, W
        <4> QED BY <2>12, <4>1 DEF RankState, V
      <3> QED BY <2>9, <2>10, <3>6, <3>7 DEF Ranked
    <2> QED BY <2>2, <2>11, <2>12
  <1> QED BY <1>1, <1>2 DEF Unlink

LEMMA NextOrdered == AnswerInv /\ Ordered /\ [Next]_vars => Ordered'
  <1> SUFFICES ASSUME AnswerInv, Ordered, [Next]_vars PROVE Ordered'
    OBVIOUS
  <1>1. CASE UNCHANGED vars
    BY <1>1, QuietStep DEF vars, Waiting
  <1>2. ASSUME NEW w \in Waiters, RegisterStep(w) PROVE Ordered'
    BY <1>2, QuietSteps, RegisterOrdered DEF RegisterStep
  <1>3. ASSUME NEW w \in Threads, Wake(w) \/ WakeSpuriously(w) PROVE Ordered'
    BY <1>3, QuietSteps
  <1>4. ASSUME NEW w \in TimedGetters, TimedStep(w) PROVE Ordered'
    BY <1>4, QuietSteps, WalkOrdered, UnlinkOrdered DEF TimedStep
  <1>5. ASSUME NEW w \in Andthen, CallbackStep(w) PROVE Ordered'
    BY <1>5, QuietSteps
  <1>6. ASSUME NEW c \in Completers, CompleteStep(c) PROVE Ordered'
    BY <1>6, QuietSteps, CompleteOrdered DEF CompleteStep
  <1> QED BY <1>1, <1>2, <1>3, <1>4, <1>5, <1>6 DEF Next

(* In the order of the ranks, a set that is closed under next holds every  *)
(* waiter that waits: the lowest of its members above one that it lacked   *)
(* would have a next in between.                                           *)
LEMMA OrderedReaches == Ordered => WaitersReachable
  <1> SUFFICES ASSUME Ordered, ~isDone(state), NEW w \in Waiters, Waiting(w),
                      NEW S \in SUBSET Waiters,
                      Ref(state) \subseteq S,
                      \A v \in S : Ref(next[v]) \subseteq S,
                      w \notin S
               PROVE  FALSE
    BY DEF WaitersReachable, Stack
  <1>1. PICK n \in Nat, rank \in [Waiters -> Nat] : Ranked(n, rank)
    BY DEF Ordered
  <1>2. w \in AllWaiting
    BY DEF AllWaiting
  <1> DEFINE T == {rank[v] : v \in {x \in S : rank[w] <= rank[x]}}
  <1>3. T \in SUBSET Nat
    OBVIOUS
  <1>4. T # {}
    <2>1. PICK x \in Ref(state) : rank[w] <= rank[x]
      BY <1>1, <1>2 DEF Ranked, RankOrder, RankState, Covers
    <2> QED BY <2>1
  <1>5. PICK m \in T : \A y \in T : m <= y
    <2> HIDE DEF T
    <2> QED BY <1>3, <1>4, NatMin
  <1>6. PICK v \in S : rank[w] <= rank[v] /\ m = rank[v]
    BY <1>5
  <1> HIDE DEF T
  <1>7. rank[w] < rank[v]
    <2>1. rank[w] > 0 /\ (rank[w] = rank[v] => w = v \/ rank[w] = 0)
      BY <1>1 DEF Ranked, RankOrder
    <2>2. rank[w] \in Nat /\ rank[v] \in Nat /\ v # w
      OBVIOUS
    <2> QED BY <1>6, <2>1, <2>2
  <1>8. PICK x \in Ref(next[v]) : rank[w] <= rank[x] /\ rank[x] < rank[v]
    <2>1. Below(AllWaiting, rank, v, next[v])
      BY <1>1 DEF Ranked, RankNext
    <2>2. Covers(AllWaiting, rank, rank[v], next[v])
      BY <2>1 DEF Below
    <2>3. PICK x \in Ref(next[v]) : rank[w] <= rank[x]
      BY <1>2, <1>7, <2>2 DEF Covers
    <2> QED BY <2>1, <2>3 DEF Below
  <1>9. x \in S /\ rank[x] \in T
    BY <1>6, <1>8 DEF T
  <1>10. rank[v] <= rank[x] /\ rank[v] \in Nat /\ rank[x] \in Nat
    BY <1>5, <1>6, <1>9
  <1> QED BY <1>8, <1>10

(* Until the future completes, every waiter that waits is on the stack,    *)
(* however many timed gets unlink themselves from it at the same time,     *)
(* each with plain stores of what it read before.                          *)
THEOREM NoWaiterFallsOff == Spec => []WaitersReachable
  <1>1. Spec => []Ordered
    BY AlwaysAnswer, InitOrdered, NextOrdered, PTL DEF Spec
  <1> QED BY <1>1, OrderedReaches, PTL

-----------------------------------------------------------------------------
(* The future implements CompletableFuture.                                *)

(* Only a call that has returned has an outcome, and the callback that a   *)
(* completing call is about to unblock has not been unblocked before.      *)
Promised ==
    /\ \A w \in Waiters : outcome[w] # NULL => pc[w] = "returned"
    /\ \A c \in Completers : pc[c] = "unblock" =>
          \A w \in Ref(oldState[c]) \cap Andthen : pc[w] = "registered"

LEMMA InitPromised == Init => Promised
  BY DEF Init, Promised

(* A step that moves one waiter, which is not a registered callback, keeps *)
(* the promise when only a call that returns is given an outcome.          *)
LEMMA MoveWaiter ==
    ASSUME AnswerInv, Promised, NEW w \in Waiters, NEW l, Goto(w, l),
           pc[w] # "registered", pc[w] # "returned",
           UNCHANGED outcome \/ (l = "returned" /\ \E o : outcome' = [outcome EXCEPT ![w] = o]),
           \A c \in Completers : oldState'[c] = oldState[c]
    PROVE  Promised'
  <1>1. \A u \in Calls : pc'[u] = IF u = w THEN l ELSE pc[u]
    BY DEF Goto, Calls, AnswerInv, TypeOK
  <1>2. \A u \in Waiters \ {w} : outcome'[u] = outcome[u]
    BY DEF AnswerInv, TypeOK
  <1>3. outcome'[w] # NULL => l = "returned"
    BY DEF Promised
  <1>4. \A u \in Waiters : outcome'[u] # NULL => pc'[u] = "returned"
    BY <1>1, <1>2, <1>3 DEF Promised, Calls
  <1>5. ASSUME NEW c \in Completers, pc'[c] = "unblock", NEW u \in Ref(oldState'[c]) \cap Andthen
        PROVE  pc'[u] = "registered"
    <2>1. c # w /\ pc[c] = "unblock"
      BY <1>1, <1>5, CallsAssumption DEF Calls
    <2>2. pc[u] = "registered" /\ u \in Waiters
      BY <1>5, <2>1 DEF Promised, Waiters
    <2> QED BY <1>1, <2>2 DEF Calls
  <1> QED BY <1>4, <1>5 DEF Promised

LEMMA WaiterPromised ==
    ASSUME AnswerInv, Promised,
           \/ \E w \in Waiters : RegisterStep(w)
           \/ \E w \in Threads : Wake(w) \/ WakeSpuriously(w)
           \/ \E w \in TimedGetters : TimedStep(w)
           \/ \E w \in Andthen : CallbackStep(w)
    PROVE  Promised'
  <1>0. oldState \in [Waiters \cup Completers -> Pending]
    BY DEF AnswerInv, TypeOK
  <1>1. ASSUME NEW w \in Waiters, RegisterStep(w) PROVE Promised'
    <2>1. \A c \in Completers : oldState'[c] = oldState[c]
      BY <1>0, <1>1, CallsAssumption DEF RegisterStep, ReadState, Register
    <2>2. PICK l : Goto(w, l) /\ (UNCHANGED outcome
                     \/ (l = "returned" /\ outcome' = [outcome EXCEPT ![w] = state]))
      BY <1>1 DEF RegisterStep, ReadState, Register, Return
    <2>3. pc[w] # "registered" /\ pc[w] # "returned"
      BY <1>1 DEF RegisterStep, ReadState, Register
    <2> QED BY <2>1, <2>2, <2>3, MoveWaiter
  <1>2. ASSUME NEW w \in Threads, Wake(w) \/ WakeSpuriously(w) PROVE Promised'
    <2>1. w \in Waiters /\ UNCHANGED oldState /\ pc[w] = "parked"
      BY <1>2 DEF Wake, WakeSpuriously, Waiters
    <2>2. PICK l : Goto(w, l) /\ (UNCHANGED outcome
                     \/ (l = "returned" /\ outcome' = [outcome EXCEPT ![w] = state]))
      BY <1>2 DEF Wake, WakeSpuriously, Return
    <2> QED BY <2>1, <2>2, MoveWaiter
  <1>3. ASSUME NEW w \in TimedGetters, TimedStep(w) PROVE Promised'
    <2>1. w \in Waiters /\ UNCHANGED oldState
      BY <1>3 DEF TimedStep, Expire, Unregister, Walk, Unlink, Waiters, Threads
    <2>2. CASE UNCHANGED <<pc, outcome>>
      BY <2>1, <2>2 DEF Promised
    <2>3. CASE /\ pc[w] \in {"unregister", "walk", "unlink"}
               /\ \E l : Goto(w, l) /\ (UNCHANGED outcome
                     \/ (l = "returned" /\ outcome' = [outcome EXCEPT ![w] = FAILED]))
      BY <2>1, <2>3, MoveWaiter
    <2> QED BY <1>3, <2>2, <2>3 DEF TimedStep, Expire, Unregister, Walk, Unlink, ThrowTimeout
  <1>4. ASSUME NEW w \in Andthen, CallbackStep(w) PROVE Promised'
    <2>1. w \in Waiters /\ UNCHANGED oldState /\ pc[w] \in {"unblock", "submitted"}
      BY <1>4 DEF CallbackStep, Execute, RunCallback, Waiters
    <2>2. PICK l : Goto(w, l) /\ (UNCHANGED outcome
                     \/ (l = "returned" /\ \E o : outcome' = [outcome EXCEPT ![w] = o]))
      BY <1>4 DEF CallbackStep, Execute, RunCallback, Return
    <2> QED BY <2>1, <2>2, MoveWaiter
  <1> QED BY <1>1, <1>2, <1>3, <1>4

(* A callback that is found on top of the stack is registered.             *)
LEMMA TopRegistered ==
    ASSUME AnswerInv, Ordered, ~isDone(state), NEW w \in Ref(state) \cap Andthen
    PROVE  pc[w] = "registered"
  <1>1. PICK n \in Nat, rank \in [Waiters -> Nat] : Ranked(n, rank)
    BY DEF Ordered
  <1>2. w \in Waiters /\ rank[w] > 0
    BY <1>1 DEF Ranked, RankState, Placed, Waiters
  <1>3. pc[w] \notin {"start", "register"}
    BY <1>1, <1>2 DEF Ranked, RankOrder
  <1>4. pc[w] \notin {"unblock", "submitted", "returned"}
    BY DEF AnswerInv, CallbacksAfterAnswer
  <1> QED BY <1>3, <1>4 DEF AnswerInv, Roles

LEMMA CompletePromised ==
    ASSUME AnswerInv, Ordered, Promised, NEW c \in Completers, CompleteStep(c)
    PROVE  Promised'
  <1>0. /\ oldState \in [Waiters \cup Completers -> Pending]
        /\ pc \in [Waiters \cup Completers -> Labels]
        /\ c \notin Waiters
    BY CallsAssumption DEF AnswerInv, TypeOK
  <1>a. \A d \in Completers : pc[d] \in {"unblock", "completed"} <=> state = Answer(d)
    BY DEF AnswerInv, FirstAnswerWins
  <1>1. CASE ReadOldState(c)
    <2>1. \A u \in Calls \ {c} : pc'[u] = pc[u] /\ oldState'[u] = oldState[u]
      BY <1>0, <1>1 DEF ReadOldState, Goto, Calls
    <2>2. pc'[c] # "unblock" /\ UNCHANGED outcome
      BY <1>0, <1>1 DEF ReadOldState, Goto
    <2> QED BY <1>0, <2>1, <2>2 DEF Promised, Calls, Waiters
  <1>2. CASE Complete(c) /\ pc'[c] # "unblock"
    <2>1. \A u \in Calls \ {c} : pc'[u] = pc[u]
      BY <1>0, <1>2 DEF Complete, Goto, Calls
    <2>2. UNCHANGED <<oldState, outcome>>
      BY <1>2 DEF Complete
    <2> QED BY <1>0, <1>2, <2>1, <2>2 DEF Promised, Calls, Waiters
  <1>3. CASE Complete(c) /\ pc'[c] = "unblock"
    <2>1. state = oldState[c] /\ UNCHANGED <<oldState, outcome>>
      BY <1>0, <1>3 DEF Complete, Goto
    <2>2. \A u \in Calls \ {c} : pc'[u] = pc[u]
      BY <1>0, <1>3 DEF Complete, Goto, Calls
    <2>3. ~isDone(state) /\ \A d \in Completers : state # Answer(d)
      BY <1>0, <2>1, States
    <2>4. \A w \in Ref(oldState[c]) \cap Andthen : pc[w] = "registered"
      BY <2>1, <2>3, TopRegistered
    <2>5. \A d \in Completers \ {c} : pc'[d] # "unblock"
      BY <1>a, <2>2, <2>3 DEF Calls
    <2> QED BY <1>0, <2>1, <2>2, <2>4, <2>5 DEF Promised, Calls, Waiters
  <1>4. CASE UnblockAll(c)
    <2>1. /\ state = Answer(c)
          /\ \A t \in Calls : pc'[t] = IF t = c THEN "completed"
                                       ELSE IF t \in Ref(oldState[c]) \cap Andthen THEN "unblock"
                                       ELSE pc[t]
      BY <1>4, UnblockMoves
    <2>2. pc[c] = "unblock" /\ UNCHANGED outcome
      BY <1>4 DEF UnblockAll
    <2>3. \A d \in Completers : pc'[d] # "unblock"
      <3>1. ASSUME NEW d \in Completers PROVE pc'[d] # "unblock"
        <4>1. d \in Calls /\ d \notin Andthen
          BY CallsAssumption DEF Calls, Waiters
        <4>2. CASE d = c
          BY <2>1, <4>1, <4>2
        <4>3. CASE d # c
          <5>1. pc[d] # "unblock"
            BY <1>a, <2>1, <4>3, AnswersDiffer
          <5> QED BY <2>1, <4>1, <4>3, <5>1
        <4> QED BY <4>2, <4>3
      <3> QED BY <3>1
    <2>4. \A w \in Waiters : outcome'[w] # NULL => pc'[w] = "returned"
      <3>1. ASSUME NEW w \in Waiters, outcome[w] # NULL PROVE pc'[w] = "returned"
        <4>1. pc[w] = "returned" /\ w \in Calls /\ w # c
          BY <1>0, <3>1 DEF Promised, Calls
        <4>2. w \notin Ref(oldState[c]) \cap Andthen
          BY <2>2, <4>1 DEF Promised
        <4> QED BY <2>1, <4>1, <4>2
      <3> QED BY <2>2, <3>1
    <2> QED BY <2>3, <2>4 DEF Promised
  <1> QED BY <1>1, <1>2, <1>3, <1>4 DEF CompleteStep

LEMMA NextPromised == AnswerInv /\ Ordered /\ Promised /\ [Next]_vars => Promised'
  <1> SUFFICES ASSUME AnswerInv, Ordered, Promised, [Next]_vars PROVE Promised'
    OBVIOUS
  <1>1. CASE UNCHANGED vars
    BY <1>1 DEF vars, Promised
  <1>2. CASE \E c \in Completers : CompleteStep(c)
    BY <1>2, CompletePromised
  <1> QED BY <1>1, <1>2, WaiterPromised DEF Next

(* The answer the promise speaks of, and how a step may change it.         *)
TheAnswer == IF isDone(state) THEN state ELSE NULL

LEMMA StutterOrGive ==
    ASSUME AnswerInv, Promised, NEW w \in Waiters, pc[w] # "returned", TheAnswer' = TheAnswer,
           \/ UNCHANGED outcome
           \/ isDone(state) /\ outcome' = [outcome EXCEPT ![w] = state]
           \/ w \notin Getters /\ outcome' = [outcome EXCEPT ![w] = FAILED]
    PROVE  [Future!Next]_(Future!promise)
  <1>1. outcome[w] = NULL
    BY DEF Promised
  <1>2. CASE UNCHANGED outcome
    BY <1>2 DEF Future!promise, TheAnswer
  <1>3. CASE isDone(state) /\ outcome' = [outcome EXCEPT ![w] = state]
    <2>1. TheAnswer = state /\ state # NULL
      BY <1>3, States DEF TheAnswer, AnswerInv, TypeOK
    <2>2. Future!Trigger(w)
      BY <1>1, <1>3, <2>1 DEF Future!Trigger, TheAnswer
    <2> QED BY <2>2 DEF Future!Next
  <1>4. CASE w \notin Getters /\ outcome' = [outcome EXCEPT ![w] = FAILED]
    <2>1. Future!GiveUp(w)
      BY <1>1, <1>4 DEF Future!GiveUp, TheAnswer
    <2> QED BY <2>1 DEF Future!Next
  <1> QED BY <1>2, <1>3, <1>4

(* Each step of the future is a step of the promise, or none of its        *)
(* business.                                                               *)
LEMMA StepImplements ==
    AnswerInv /\ Promised /\ [Next]_vars => [Future!Next]_(Future!promise)
  <1> SUFFICES ASSUME AnswerInv, Promised, [Next]_vars
               PROVE  [Future!Next]_(Future!promise)
    OBVIOUS
  <1>1. CASE UNCHANGED vars
    BY <1>1 DEF vars, Future!promise
  <1>2. ASSUME NEW w \in Waiters, RegisterStep(w)
        PROVE  [Future!Next]_(Future!promise)
    <2>1. pc[w] # "returned"
      BY <1>2 DEF RegisterStep, ReadState, Register
    <2>2. CASE ReadState(w)
      <3>1. TheAnswer' = TheAnswer
        BY <2>2 DEF ReadState, TheAnswer
      <3> QED BY <2>1, <2>2, <3>1, StutterOrGive DEF ReadState, Return
    <2>3. CASE Register(w)
      <3>1. oldState[w] \in Pending /\ NewState(w) \in Pending
        BY States DEF AnswerInv, TypeOK, NewState
      <3>2. TheAnswer' = TheAnswer
        BY <2>3, <3>1, States DEF Register, TheAnswer
      <3> QED BY <2>1, <2>3, <3>2, StutterOrGive DEF Register
    <2> QED BY <1>2, <2>2, <2>3 DEF RegisterStep
  <1>3. ASSUME NEW w \in Threads, Wake(w) \/ WakeSpuriously(w)
        PROVE  [Future!Next]_(Future!promise)
    <2>1. w \in Waiters /\ pc[w] # "returned" /\ TheAnswer' = TheAnswer
      BY <1>3 DEF Wake, WakeSpuriously, TheAnswer, Waiters
    <2> QED BY <1>3, <2>1, StutterOrGive DEF Wake, WakeSpuriously, Return
  <1>4. ASSUME NEW w \in TimedGetters, TimedStep(w)
        PROVE  [Future!Next]_(Future!promise)
    <2>1. w \in Waiters /\ w \notin Getters /\ pc[w] # "returned"
      BY <1>4, CallsAssumption
         DEF TimedStep, Expire, Unregister, Walk, Unlink, Waiters, Threads
    <2>2. TheAnswer' = TheAnswer
      <3>1. CASE UNCHANGED state
        BY <3>1 DEF TheAnswer
      <3>2. CASE /\ Unlink(w) /\ state = walk[w].current
                 /\ state' = IF walk[w].next = NULL THEN VOIDOBJECT ELSE walk[w].next
        <4>1. state \in Pending
          BY <2>1, <3>2, States DEF AnswerInv, FoundSelf, Unlink
        <4>2. state' \in Pending
          BY <3>2, States DEF AnswerInv, TypeOK
        <4> QED BY <4>1, <4>2, States DEF TheAnswer
      <3> QED BY <1>4, <3>1, <3>2 DEF TimedStep, Expire, Unregister, Walk, Unlink
    <2>3. UNCHANGED outcome \/ outcome' = [outcome EXCEPT ![w] = FAILED]
      BY <1>4 DEF TimedStep, Expire, Unregister, Walk, Unlink, ThrowTimeout
    <2> QED BY <2>1, <2>2, <2>3, StutterOrGive
  <1>5. ASSUME NEW w \in Andthen, CallbackStep(w)
        PROVE  [Future!Next]_(Future!promise)
    <2>1. w \in Waiters /\ w \notin Getters /\ pc[w] # "returned" /\ TheAnswer' = TheAnswer
      BY <1>5, CallsAssumption
         DEF CallbackStep, Execute, RunCallback, TheAnswer, Waiters, Threads
    <2>2. isDone(state)
      BY <1>5 DEF CallbackStep, Execute, RunCallback, AnswerInv, CallbacksAfterAnswer
    <2> QED BY <1>5, <2>1, <2>2, StutterOrGive
            DEF CallbackStep, Execute, RunCallback, Return
  <1>6. ASSUME NEW c \in Completers, CompleteStep(c)
        PROVE  [Future!Next]_(Future!promise)
    <2>1. UNCHANGED outcome
      BY <1>6 DEF CompleteStep, ReadOldState, Complete, UnblockAll
    <2>2. CASE UNCHANGED state
      BY <2>1, <2>2 DEF Future!promise
    <2>3. CASE state = oldState[c] /\ state' = Answer(c)
      <3>1. ~isDone(state) /\ isDone(Answer(c)) /\ Answer(c) \in Answers
        BY <2>3, States DEF AnswerInv, TypeOK
      <3>2. Future!Complete(Answer(c))
        BY <2>1, <2>3, <3>1 DEF Future!Complete
      <3> QED BY <3>1, <3>2 DEF Future!Next
    <2> QED BY <1>6, <2>2, <2>3 DEF CompleteStep, ReadOldState, Complete, UnblockAll
  <1> QED BY <1>1, <1>2, <1>3, <1>4, <1>5, <1>6 DEF Next

(* The future implements the promise of CompletableFuture: one of the      *)
(* answers becomes the answer for good, each waiter is given it at most    *)
(* once and not before it is there, and a get without a timeout is given   *)
(* nothing else.                                                           *)
THEOREM FutureImplemented == Spec => ImplementsFuture
  <1>1. Init => Future!Init
    BY States DEF Init, Future!Init
  <1>2. Spec => [](AnswerInv /\ Ordered /\ Promised)
    <2>1. Init => AnswerInv /\ Ordered /\ Promised
      BY InitAnswer, InitOrdered, InitPromised
    <2>2. (AnswerInv /\ Ordered /\ Promised) /\ [Next]_vars
             => (AnswerInv /\ Ordered /\ Promised)'
      BY NextAnswer, NextOrdered, NextPromised
    <2> QED BY <2>1, <2>2, PTL DEF Spec
  <1> QED BY <1>1, <1>2, StepImplements, PTL DEF Spec, ImplementsFuture, Future!Spec
=============================================================================
