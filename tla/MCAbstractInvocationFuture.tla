---------------------- MODULE MCAbstractInvocationFuture ----------------------
(***************************************************************************)
(* Instances of AbstractInvocationFuture for TLC.                          *)
(***************************************************************************)
EXTENDS AbstractInvocationFuture

CONSTANTS c1, c2    \* a response and a cancellation

MCOffer == [c \in Completers |-> IF c = c2 THEN "Exception" ELSE "Value"]
=============================================================================
