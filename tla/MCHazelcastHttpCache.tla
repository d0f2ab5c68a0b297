------------------------ MODULE MCHazelcastHttpCache ------------------------
(***************************************************************************)
(* Instances of HazelcastHttpCache for TLC.                                *)
(***************************************************************************)
EXTENDS HazelcastHttpCache, TLC

CONSTANTS
    w1, w2,         \* workers
    r0, r2, r3, r4  \* responses, named for their body lengths

Lengths == r0 :> 0 @@ r2 :> 2 @@ r3 :> 3 @@ r4 :> 4

MCBodyLen == [r \in Responses |-> Lengths[r]]

(* Any of the responses may answer a request.                              *)
MCOrigin == [h \in Hashes |-> Responses]

Symmetry == Permutations(Workers)
=============================================================================
