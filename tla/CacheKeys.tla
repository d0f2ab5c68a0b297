------------------------------ MODULE CacheKeys ------------------------------
(***************************************************************************)
(* The keys under which HazelcastHttpCache stores its entries, and the     *)
(* integer conversions on the way to them.  A string is the sequence of    *)
(* its decimal digits.                                                     *)
(***************************************************************************)
EXTENDS Integers, Sequences

CONSTANT UINT64     \* the number of values of a uint64_t: 2^64 in the code

ASSUME WordAssumption == UINT64 \in Nat \ {0} /\ UINT64 % 2 = 0

-----------------------------------------------------------------------------
(* static_cast<int64_t> of a uint64_t, and the implicit conversion back.   *)
Int64(n)  == IF 2 * n < UINT64 THEN n ELSE n - UINT64

UInt64(i) == IF i < 0 THEN i + UINT64 ELSE i

(* std::to_string of a non-negative integer.                               *)
Digits[n \in Nat] ==
    IF n < 10 THEN <<n>> ELSE Append(Digits[n \div 10], n % 10)

to_string(n) == Digits[n]

(* Mutant: the index is added to the hash.                                 *)
SumBodyKey(hash_key, index) == to_string(hash_key + index)

(* The header map is keyed by the hash cast to a signed integer, the body  *)
(* map by the decimal hash immediately followed by the decimal partition   *)
(* index.                                                                  *)
HeaderKey(hash_key) == Int64(hash_key)

BodyKey(hash_key, index) == to_string(hash_key) \o to_string(index)
=============================================================================
