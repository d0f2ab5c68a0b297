-------------------------- MODULE CompletableFuture --------------------------
(***************************************************************************)
(* What a future of the client promises: one of the answers offered to it  *)
(* becomes its answer, for good, and whoever waits is given that answer.   *)
(* AbstractInvocationFuture implements it.                                 *)
(***************************************************************************)
CONSTANTS
    Waiters,    \* the calls of get and andThen
    Patient,    \* the waiters that never give up: get without a timeout
    Answers,    \* the answers that may be offered
    NONE,       \* no answer yet
    FAILED      \* the outcome of a waiter that ends without the answer

VARIABLES
    answer,     \* the answer of the future, or NONE
    outcome     \* what each waiter was given, or NONE

promise == <<answer, outcome>>

Init == answer = NONE /\ outcome = [w \in Waiters |-> NONE]

Complete(a) == answer = NONE /\ answer' = a /\ UNCHANGED outcome

Trigger(w) ==
    /\ answer # NONE
    /\ outcome[w] = NONE
    /\ outcome' = [outcome EXCEPT ![w] = answer]
    /\ UNCHANGED answer

(* The waiter ends without the answer: its time is up, or the executor of  *)
(* its callback refuses to run it.                                         *)
GiveUp(w) ==
    /\ w \notin Patient
    /\ outcome[w] = NONE
    /\ outcome' = [outcome EXCEPT ![w] = FAILED]
    /\ UNCHANGED answer

Next ==
    \/ \E a \in Answers : Complete(a)
    \/ \E w \in Waiters : Trigger(w) \/ GiveUp(w)

Spec == Init /\ [][Next]_promise
=============================================================================
